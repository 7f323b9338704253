---------------------------- MODULE DhcpMessage ----------------------------
(***************************************************************************)
(* dhcpserver/dhcpserver.cpp: the bytes of a DHCP message.  The options of *)
(* a request, from behind the magic cookie, are a sequence of bytes; the   *)
(* server's reply is written over them.  Option values are sequences of    *)
(* bytes, addresses of four.  DhcpServer says what is answered.            *)
(***************************************************************************)
EXTENDS DhcpServer, Sequences

CONSTANTS Absent,           \* no slot, no domain_name (NULL), no address
          Servers,          \* ip, nm and domain_name of the server
          OtherOptions      \* sequences of other options in a request

DHCPDISCOVER == 1
DHCPOFFER == 2
DHCPREQUEST == 3
DHCPACK == 5

DHCP_OPT_SUBNET_MASK == 1
DHCP_OPT_ROUTER == 3
DHCP_OPT_DNS == 6
DHCP_OPT_HOST_NAME == 12
DHCP_OPT_DOMAIN_NAME == 15
DHCP_OPT_REQUESTED_IP == 50
DHCP_OPT_IP_LEASE_TIME == 51
DHCP_OPT_MSG_TYPE == 53
DHCP_OPT_SERVER_ID == 54
DHCP_OPT_END == 255

DHCPS_BASE_IP == 16
DEFAULT_LEASE_TIME_S == 24 * 60 * 60
OPTIONS == 308                     \* sizeof(options) without the cookie

Byte == 0..255

ASSUME ServersAssumption ==
    \A d \in Servers :
        /\ d.ip \in Seq(Byte) /\ Len(d.ip) = 4 /\ d.nm \in Seq(Byte) /\ Len(d.nm) = 4
        /\ d.domain_name # Absent => d.domain_name \in Seq(Byte) /\ Len(d.domain_name) <= 255

\* The addresses of the table are in the network; their last byte is a byte.
ASSUME BaseAssumption == DHCPS_BASE_IP + DHCPS_MAX_IP <= 255

opt_find_no_header(opt, cmd) ==
    LET at[i \in 1..OPTIONS + 257] ==
            IF i > OPTIONS \/ i >= Len(opt) \/ opt[i] = DHCP_OPT_END THEN 0
            ELSE IF opt[i] = cmd THEN i ELSE at[i + 1 + opt[i + 1]]
    IN  at[1]

(* Where the option is, or 0.  The end mark of a message keeps the search  *)
(* from what the buffer holds behind it.                                   *)
opt_find(opt, cmd) ==
    LET at[i \in 1..OPTIONS + 257] ==
            IF i > OPTIONS \/ i >= Len(opt) \/ opt[i] = DHCP_OPT_END THEN 0
            ELSE IF opt[i] = cmd THEN i ELSE at[i + 2 + opt[i + 1]]
    IN  at[1]

opt_write_n(cmd, data) == <<cmd, Len(data)>> \o data
opt_write_u8(cmd, val) == <<cmd, 1, val>>
PowersOf256 == <<16777216, 65536, 256, 1>>
opt_write_u32(cmd, val) == <<cmd, 4>> \o [i \in 1..4 |-> (val \div PowersOf256[i]) % 256]

(* The slot that a DHCPREQUEST asks for, or Absent. *)
RequestedSlot(opt, d) ==
    LET o  == opt_find(opt, DHCP_OPT_REQUESTED_IP)
        yi == (opt[o + 5] - DHCPS_BASE_IP) % 256
    IN  IF o = 0 \/ SubSeq(opt, o + 2, o + 4) # SubSeq(d.ip, 1, 3) \/ yi >= DHCPS_MAX_IP
        THEN Absent ELSE yi

(* The address in a reply. *)
yiaddr(d, yi) == SubSeq(d.ip, 1, 3) \o <<DHCPS_BASE_IP + yi>>

(* The options of a reply, written over those of the request. *)
ReplyOptions(opt, type, d) ==
    LET written == opt_write_u8(DHCP_OPT_MSG_TYPE, type)
                   \o opt_write_n(DHCP_OPT_SERVER_ID, d.ip)
                   \o opt_write_n(DHCP_OPT_SUBNET_MASK, d.nm)
                   \o opt_write_n(DHCP_OPT_ROUTER, d.ip)
                   \o opt_write_n(DHCP_OPT_DNS, d.ip)
                   \o (IF d.domain_name = Absent THEN <<>>
                       ELSE opt_write_n(DHCP_OPT_DOMAIN_NAME, d.domain_name))
                   \o opt_write_u32(DHCP_OPT_IP_LEASE_TIME, DEFAULT_LEASE_TIME_S)
                   \o <<DHCP_OPT_END>>
    IN  [sent |-> written, buffer |-> written \o SubSeq(opt, Len(written) + 1, Len(opt))]

-----------------------------------------------------------------------------
(* A client (external). *)

Option(code, value) == [code |-> code, value |-> value]

(* Options one after the other, as a client sends them. *)
OptionBytes(list) ==
    LET enc[i \in 1..Len(list) + 1] ==
            IF i > Len(list) THEN <<DHCP_OPT_END>>
            ELSE <<list[i].code, Len(list[i].value)>> \o list[i].value \o enc[i + 1]
    IN  enc[1]

(* The options a client finds, up to the end mark; option 0 when there is  *)
(* none.                                                                   *)
Decoded(bytes) ==
    LET dec[i \in 1..Len(bytes) + 257] ==
            IF i > Len(bytes) THEN {Option(0, <<>>)}
            ELSE IF bytes[i] = DHCP_OPT_END THEN {}
            ELSE IF i = Len(bytes) \/ i + 1 + bytes[i + 1] > Len(bytes)
            THEN {Option(0, <<>>)}
            ELSE {Option(bytes[i], SubSeq(bytes, i + 2, i + 1 + bytes[i + 1]))}
                 \cup dec[i + 2 + bytes[i + 1]]
    IN  dec[1]

(* A client's message: its type, any others of its options, and the address*)
(* it asks for.                                                            *)
Message(type, others, addr) ==
    OptionBytes(<<Option(DHCP_OPT_MSG_TYPE, <<type>>)>> \o others \o
            IF addr = Absent THEN <<>> ELSE <<Option(DHCP_OPT_REQUESTED_IP, addr)>>)

(* A client asks for an address with the option for it and with no other,  *)
(* and its message fits, whatever its type and the address.                *)
ASSUME OptionsAssumption ==
    /\ Absent \notin Seq(Byte)
    /\ \A others \in OtherOptions :
          /\ others \in Seq([code : Byte \ {DHCP_OPT_END, DHCP_OPT_REQUESTED_IP},
                             value : Seq(Byte)])
          /\ \A i \in 1..Len(others) : Len(others[i].value) <= 255
          /\ \A addr \in {Absent, <<0, 0, 0, 0>>} : Len(Message(0, others, addr)) <= OPTIONS

-----------------------------------------------------------------------------
(* A DHCPREQUEST for the address that was acknowledged is taken for one    *)
(* for its slot; one for an address outside the table, of another network, *)
(* or for none is not.                                                     *)
RequestUnderstood ==
    answer.type = "ack" =>
        \A d \in Servers, others \in OtherOptions :
            LET slot(addr) == RequestedSlot(Message(DHCPREQUEST, others, addr), d)
                a == yiaddr(d, answer.ip)
            IN  /\ slot(a) = answer.ip
                /\ slot([a EXCEPT ![1] = (@ + 1) % 256]) = Absent
                /\ slot([a EXCEPT ![4] = DHCPS_BASE_IP + DHCPS_MAX_IP]) = Absent
                /\ slot([a EXCEPT ![4] = DHCPS_BASE_IP - 1]) = Absent
                /\ slot(Absent) = Absent

(* The reply, written over the message, holds the options meant for the    *)
(* client and nothing of its own message, and fits the buffer.             *)
ReplyReadsBack ==
    answer.type # "none" =>
        \A d \in Servers, others \in OtherOptions :
            LET type == IF answer.type = "ack" THEN DHCPACK ELSE DHCPOFFER
                asks == IF answer.type = "ack" THEN Message(DHCPREQUEST, others, yiaddr(d, answer.ip))
                        ELSE Message(DHCPDISCOVER, others, Absent)
                r == ReplyOptions(asks, type, d)
            IN  /\ Len(r.sent) <= OPTIONS
                /\ Decoded(r.buffer) = Decoded(r.sent)
                /\ Decoded(r.sent) =
                     {Option(DHCP_OPT_MSG_TYPE, <<type>>), Option(DHCP_OPT_SERVER_ID, d.ip),
                      Option(DHCP_OPT_SUBNET_MASK, d.nm), Option(DHCP_OPT_ROUTER, d.ip),
                      Option(DHCP_OPT_DNS, d.ip), Option(DHCP_OPT_IP_LEASE_TIME, <<0, 1, 81, 128>>)}
                     \cup IF d.domain_name = Absent THEN {}
                          ELSE {Option(DHCP_OPT_DOMAIN_NAME, d.domain_name)}

(* Server and client read from each other's bytes what was meant by them,  *)
(* whatever options the client adds (opt_find, opt_write_n): the request   *)
(* for the slot it names, the reply for its options alone.                 *)
MessagesUnderstood == RequestUnderstood /\ ReplyReadsBack
=============================================================================
