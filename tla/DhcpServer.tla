----------------------------- MODULE DhcpServer -----------------------------
(***************************************************************************)
(* dhcpserver/dhcpserver.cpp: the address table of the captive portal's    *)
(* DHCP server.  A slot keeps the MAC of its client and the upper half of  *)
(* the tick at which the lease ends; the tick counter is a 32-bit number   *)
(* of milliseconds that wraps.  The server runs in the callback of its UDP *)
(* port, one datagram at a time.                                           *)
(*                                                                         *)
(* Clients send any message at any time, so lost, repeated and reordered   *)
(* requests are all included.  Every ACK is taken to arrive: a client that *)
(* missed one holds the address for a shorter time.                        *)
(***************************************************************************)
EXTENDS Integers

CONSTANTS DHCPS_MAX_IP,     \* slots, one per address
          Mac,              \* the clients
          NoMac,            \* six zero bytes: the slot is free
          Granule,          \* ticks per unit of expiry: 2^16
          Units,            \* values of expiry: 2^16
          LEASE_TIME        \* DEFAULT_LEASE_TIME_S * 1000

Word == Granule * Units     \* values of the tick counter: 2^32

ASSUME SlotsAssumption == DHCPS_MAX_IP \in Nat
ASSUME MacAssumption == NoMac \notin Mac
ASSUME ClockAssumption ==
    /\ Granule \in Nat \ {0} /\ Units \in Nat \ {0} /\ LEASE_TIME \in Nat \ {0}
    /\ 2 * (LEASE_TIME + Granule) <= Word

Slots == 0 .. DHCPS_MAX_IP - 1

VARIABLES
    lease,      \* d->lease
    now,        \* cyw43_hal_ticks_ms()
    answer,     \* what the last datagram was answered with
    left        \* environment: time a client may still use an address

dhcpVars == <<lease, now, answer, left>>

Answers ==
    [type : {"none"}]
        \cup [type : {"offer", "ack"}, mac : Mac, ip : Slots]

DhcpTypeOK ==
    /\ lease \in [Slots -> [mac : Mac \cup {NoMac}, expiry : 0 .. Units - 1]]
    /\ now \in 0 .. Word - 1
    /\ answer \in Answers
    /\ left \in [Mac -> [Slots -> 0 .. LEASE_TIME]]

Ignored == [type |-> "none"]

\* dhcp_server_init.
DhcpInit ==
    /\ lease = [i \in Slots |-> [mac |-> NoMac, expiry |-> 0]]
    /\ now = 0
    /\ answer = Ignored
    /\ left = [m \in Mac |-> [i \in Slots |-> 0]]

-----------------------------------------------------------------------------
\* (int32_t)(expiry - cyw43_hal_ticks_ms()) < 0, for the last tick of the unit.
LastTick(expiry) == expiry * Granule + Granule - 1

\* Mutation of IsExpired: the unit's first tick is compared.
IsExpired_first_tick(i) == 2 * ((lease[i].expiry * Granule - now) % Word) >= Word

IsExpired(i) == 2 * ((LastTick(lease[i].expiry) - now) % Word) >= Word

\* The loop over the slots ends at the first one that has the client's MAC.
FirstOwn(m, i) ==
    /\ lease[i].mac = m
    /\ \A j \in Slots : j < i => lease[j].mac # m

\* Until then it settles on the first slot that is free or expired.
FirstReusable(m, i) ==
    /\ lease[i].mac # m
    /\ lease[i].mac = NoMac \/ IsExpired(i)
    /\ \A j \in Slots :
          j < i => lease[j].mac # m /\ lease[j].mac # NoMac /\ ~IsExpired(j)

Offer(m, i) == [type |-> "offer", mac |-> m, ip |-> i]

\* DHCPDISCOVER.  An expired lease that the loop settles on is cleared even
\* when the client's own slot comes later and is offered instead.
Discover(m) ==
    /\ lease' = [i \in Slots |->
                    IF FirstReusable(m, i) /\ IsExpired(i)
                    THEN [mac |-> NoMac, expiry |-> lease[i].expiry] ELSE lease[i]]
    /\ \/ \E i \in Slots : FirstOwn(m, i) /\ answer' = Offer(m, i)
       \/ /\ \A i \in Slots : lease[i].mac # m
          /\ \E i \in Slots : FirstReusable(m, i) /\ answer' = Offer(m, i)
       \/ /\ \A i \in Slots : lease[i].mac # m /\ ~FirstReusable(m, i)
          /\ answer' = Ignored
    /\ UNCHANGED <<now, left>>

\* Mutation of MayHave: the requested slot is not compared with the client.
MayHave_any(m, i) == TRUE

MayHave(m, i) == lease[i].mac \in {m, NoMac}

Expiry == ((now + LEASE_TIME) % Word) \div Granule

\* DHCPREQUEST for an address of the table.
Request(m, i) ==
    /\ MayHave(m, i)
    /\ lease' = [lease EXCEPT ![i] = [mac |-> m, expiry |-> Expiry]]
    /\ answer' = [type |-> "ack", mac |-> m, ip |-> i]
    /\ left' = [left EXCEPT ![m] = [left[m] EXCEPT ![i] = LEASE_TIME]]
    /\ UNCHANGED now

\* A request for another client's address, for an address outside the table
\* or without one, a short datagram, any other message.
IgnoreRequest ==
    /\ answer' = Ignored
    /\ UNCHANGED <<lease, now, left>>

\* One tick of the millisecond counter.
Tick ==
    /\ now' = (now + 1) % Word
    /\ left' = [m \in Mac |-> [i \in Slots |->
                   IF left[m][i] > 0 THEN left[m][i] - 1 ELSE 0]]
    /\ answer' = Ignored
    /\ UNCHANGED lease

DhcpNext ==
    \/ \E m \in Mac : Discover(m) \/ \E i \in Slots : Request(m, i)
    \/ IgnoreRequest
    \/ Tick

DhcpSpec == DhcpInit /\ [][DhcpNext]_dhcpVars

-----------------------------------------------------------------------------
\* No two clients ever hold the same address at the same time, however the
\* tick counter wraps and whatever the rounding of expiry does.
NoDoubleLease ==
    \A i \in Slots : \A m, n \in Mac : left[m][i] > 0 /\ left[n][i] > 0 => m = n

\* An address is never offered to a client while another one holds it.
OfferedIsFree ==
    answer.type = "offer" => \A n \in Mac \ {answer.mac} : left[n][answer.ip] <= 0
=============================================================================
