---------------------------- MODULE MCDhcpServer ----------------------------
(***************************************************************************)
(* Two addresses for three clients.  The clock has 18 values in units of   *)
(* three, and a lease with its rounding is half of them, as large as       *)
(* ClockAssumption allows; the clock wraps, so the run covers any length   *)
(* of time.  Requests with nothing but their address, with a long name and *)
(* with values that look like the option sought; a server with and without *)
(* the longest domain name.                                                *)
(***************************************************************************)
EXTENDS DhcpMessage, TLC

MCServers ==
    {[ip |-> <<192, 168, 4, 1>>, nm |-> <<255, 255, 255, 0>>, domain_name |-> name] :
        name \in {Absent, [i \in 1..31 |-> 96 + (i % 26)]}}
MCOtherOptions ==
    {<<>>, <<Option(DHCP_OPT_HOST_NAME, [i \in 1..60 |-> 97])>>,
     <<Option(61, <<1, DHCP_OPT_REQUESTED_IP, 4, 10>>), Option(57, <<2, DHCP_OPT_REQUESTED_IP>>)>>}

MacSymmetry == Permutations(Mac)
=============================================================================
