------------------------------ MODULE MCPortal ------------------------------
(* The device is "ab.c.d"; clients ask for every name of up to three of    *)
(* five labels: the host, a beginning of it, the labels of the domain, and *)
(* another one.  The device's name just fits into host.                   *)
EXTENDS Portal

MCHost == <<1, 2>>
MCDomain == <<3, DOT, 4>>
MCLabels == {<<1, 2>>, <<1>>, <<3>>, <<4>>, <<5, 5>>}
MCNames == UNION {[1..n -> MCLabels] : n \in 1..3}

MCNetifs == <<[up |-> TRUE, link |-> FALSE, ip |-> <<0, 0>>, gw |-> <<0, 0>>, bcast |-> TRUE],
              [up |-> TRUE, link |-> TRUE, ip |-> <<10, 1>>, gw |-> <<10, 1>>, bcast |-> TRUE]>>
MCSecondary == <<198, 0>>
MCClients == {<<10, 16>>}

Base == TcpTo(<<10, 16>>, <<10, 1>>)
MCStrays ==
    {Base, [Base EXCEPT !.v = 6], [Base EXCEPT !.hlen = 16], [Base EXCEPT !.len = 16], [Base EXCEPT !.len = 40],
     [Base EXCEPT !.sum_ok = FALSE], [Base EXCEPT !.fragment = TRUE], [Base EXCEPT !.proto = "gre"],
     [Base EXCEPT !.proto = "gre", !.dest = <<10, 255>>], [Base EXCEPT !.dest = <<0, 0>>],
     [Base EXCEPT !.src = <<10, 255>>],
     [Base EXCEPT !.dest = <<8, 8>>], [Base EXCEPT !.dest = <<127, 1>>],
     [Base EXCEPT !.dest = <<224, 1>>, !.proto = "udp"],
     [Base EXCEPT !.dest = <<10, 77>>, !.proto = "udp", !.port = 68]}
=============================================================================
