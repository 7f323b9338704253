------------------------------- MODULE Portal ------------------------------
(***************************************************************************)
(* The captive portal: a client of the access point asks the DNS server    *)
(* (dns/dnsserver.cpp) for a name, sends its request to the address it is  *)
(* given, which the patched IP layer (lwip_patch/ip4.c) takes for one of   *)
(* its own, and the web server serves the settings page or redirects to    *)
(* the name of the device (host_name_matches).  Three components have to   *)
(* agree on names and addresses for the page to come up.                   *)
(*                                                                         *)
(* Characters are numbers, strings and packets sequences of them; an       *)
(* address is a pair <<network, host>>, and all masks are alike.           *)
(***************************************************************************)
EXTENDS Integers, Sequences, FiniteSets, SequencesExt

CONSTANTS
    None,
    host_name, domain_name,          \* strings of the settings
    HostSize,                        \* size of host in http_parse_request
    Names,                           \* names a client asks for, as sequences of labels
    Netifs,                          \* interfaces: up, link, ip, gw, bcast, in netif_list's order
    inp,                             \* index of the access point's interface
    ip4_secondary_ip_address,
    Clients,                         \* addresses leased to clients
    Strays                           \* other packets on the air

(* The name of the device fits into host with its terminator.              *)
ASSUME NameAssumption ==
    /\ {host_name, domain_name} \subseteq Seq(Nat) /\ host_name # <<>> /\ HostSize \in Nat
    /\ Len(host_name) + 1 + Len(domain_name) < HostSize

(* The access point is up, its DHCP server leases addresses of its own     *)
(* network, and no interface before it or behind it leads there.           *)
ASSUME NetworkAssumption ==
    /\ Len(Netifs) \in Nat /\ DOMAIN Netifs = 1..Len(Netifs) /\ inp \in DOMAIN Netifs
    /\ None \notin DOMAIN Netifs
    /\ Netifs[inp].up /\ Netifs[inp].link /\ Netifs[inp].ip # <<0, 0>>
    /\ \A c \in Clients : c[1] = Netifs[inp].ip[1]
    /\ \A n \in DOMAIN Netifs \ {inp} :
          Netifs[n].up /\ Netifs[n].link /\ Netifs[n].ip # <<0, 0>> =>
              Netifs[n].ip[1] # Netifs[inp].ip[1] /\ Netifs[n].gw \notin Clients

VARIABLES
    dns,        \* dns_server_thread: running, or given up
    ignore_network_suffix,   \* of s_DNSServerSettings; TRUE as delivered
    client,     \* what the client is doing: state, source, name and its labels, address, redirects,
                \* and whether it writes "Host: " as the server looks for it
    seen        \* packet last handled by ip4_input, and what became of it

portalVars == <<dns, ignore_network_suffix, client, seen>>

DOT == 46
ANY == <<0, 0>>
ip_address == Netifs[inp].ip

-----------------------------------------------------------------------------
(* DNS server. *)

HeaderSize == 12
At(buf, i) == buf[i + 1]

(* A name as a client writes it: each label behind its length, then zero;  *)
(* the name may be written behind a pointer to it.                         *)
Encoded(labels, pointer) ==
    [i \in 1..HeaderSize |-> 0]
        \o (IF pointer THEN <<192, HeaderSize + 2>> ELSE <<>>)
        \o FlattenSeq([n \in DOMAIN labels |-> <<Len(labels[n])>> \o labels[n]]) \o <<0>>

(* Bytes with one of the two upper bits lead elsewhere.  The code follows  *)
(* pointers without end when they come back to themselves; no resolver     *)
(* writes such a name, and Encoded has none.                               *)
Chased(buf, offset) ==
    LET at[i \in 0..Len(buf)] ==
            IF i < Len(buf) /\ At(buf, i) >= 64
            THEN at[(At(buf, i) % 64) * 256 + At(buf, i + 1)] ELSE i
    IN  at[offset]

get_encoded_domain_name_component(buf, offset) ==
    LET i == Chased(buf, offset)
        len == At(buf, i)
    IN  IF i >= Len(buf) \/ i + len >= Len(buf) \/ len = 0 THEN None
        ELSE [label |-> SubSeq(buf, i + 2, i + 1 + len), next |-> i + 1 + len]

(* The labels of a query, as the loop gets to see them. *)
QueryLabels(buf) ==
    LET from[i \in 0..Len(buf)] ==
            LET c == get_encoded_domain_name_component(buf, i)
            IN  IF c = None THEN <<>> ELSE <<c.label>> \o from[c.next]
    IN  from[HeaderSize]

get_next_domain_name_component(name, position) ==
    LET rest == SubSeq(name, position + 1, Len(name))
        dots == {i \in DOMAIN rest : rest[i] = DOT}
        p == CHOOSE i \in dots : \A j \in dots : i <= j
    IN  IF dots # {} THEN [label |-> SubSeq(rest, 1, p - 1), position |-> position + p]
        ELSE IF rest # <<>> THEN [label |-> rest, position |-> Len(name)]
        ELSE None

DomainLabels ==
    LET from[position \in 0..Len(domain_name)] ==
            LET c == get_next_domain_name_component(domain_name, position)
            IN  IF c = None THEN <<>> ELSE <<c.label>> \o from[c.position]
    IN  from[0]

(* A label matches the host name when it is the beginning of it. *)
StartsHost(label) == IsPrefix(label, host_name)

(* The first label is that of the host; the others are the domain's, one   *)
(* by one from the first, or do not matter.                                *)
get_address_for_encoded_domain(buf) ==
    LET labels == QueryLabels(buf)
        host == labels # <<>> /\ StartsHost(labels[1])
        match == host /\ IsPrefix(Tail(labels), DomainLabels)
    IN  IF match \/ (host /\ ignore_network_suffix) THEN ip_address ELSE ip4_secondary_ip_address

(* dns_server_thread answers a query of one question and nothing else (an  *)
(* OPT record counts as something else).                                   *)
AnswersQuery(query) == query.questions = 1 /\ query.records = 0

-----------------------------------------------------------------------------
(* IP input and output. *)

IsMulticast(a) == a[1] = 224
IsLoopback(a) == a[1] = 127
(* External: ip4_addr_isbroadcast. *)
IsBroadcast(a, n) ==
    \/ a \in {<<255, 255>>, ANY}
    \/ Netifs[n].bcast /\ a # Netifs[n].ip /\ a[1] = Netifs[n].ip[1] /\ a[2] = 255

(* The DHCP server leases addresses of single hosts.                       *)
ASSUME LeaseAssumption == \A c \in Clients : ~IsBroadcast(c, inp) /\ ~IsMulticast(c)

DHCP_CLIENT_PORT == 68
IP_HLEN == 20

Usable(n) == Netifs[n].up /\ Netifs[n].link /\ Netifs[n].ip # ANY

ip4_route(dest) ==
    LET fits == {n \in DOMAIN Netifs : /\ Usable(n)
                                       /\ \/ dest[1] = Netifs[n].ip[1]
                                          \/ ~Netifs[n].bcast /\ dest = Netifs[n].gw}
    IN  IF fits # {} THEN CHOOSE n \in fits : \A m \in fits : n <= m
        ELSE IF ~Usable(inp) \/ IsLoopback(dest) THEN None
        ELSE inp        \* netif_default

ip4_input_accept_own_address(n, dest) ==
    /\ Netifs[n].up /\ Netifs[n].ip # ANY
    /\ dest = Netifs[n].ip \/ IsBroadcast(dest, n)

ip4_input_accept(n, dest) ==
    /\ Netifs[n].up /\ Netifs[n].ip # ANY
    /\ \/ dest = Netifs[n].ip
       \/ IsBroadcast(dest, n)
       \/ ip4_secondary_ip_address # ANY /\ dest = ip4_secondary_ip_address

(* Version, lengths and checksum; the packet is first trimmed to its own   *)
(* length.                                                                 *)
HeaderOk(p) ==
    /\ p.v = 4
    /\ p.hlen <= (IF p.len < p.first THEN p.len ELSE p.first)
    /\ p.len <= p.tot /\ p.hlen >= IP_HLEN
    /\ p.sum_ok

(* The interface whose address the packet is for: the one it came in by,   *)
(* else the first other one.                                               *)
InputNetif(p) ==
    LET others == {n \in DOMAIN Netifs \ {inp} : ip4_input_accept(n, p.dest)}
    IN  CASE IsMulticast(p.dest) ->
                 IF Netifs[inp].up /\ Netifs[inp].ip # ANY THEN inp ELSE None
          [] ~IsMulticast(p.dest) /\ ip4_input_accept(inp, p.dest) -> inp
          [] ~IsMulticast(p.dest) /\ ~ip4_input_accept(inp, p.dest) ->
                 IF IsLoopback(p.dest) \/ others = {} THEN None
                 ELSE CHOOSE n \in others : \A m \in others : n <= m

(* DHCP is addressed by the link layer. *)
LinkLayerAddressed(p) == InputNetif(p) = None /\ p.proto = "udp" /\ p.port = DHCP_CLIENT_PORT

SourceOk(p) ==
    \/ LinkLayerAddressed(p) \/ p.src = ANY
    \/ ~IsBroadcast(p.src, inp) /\ ~IsMulticast(p.src)

(* Where a packet goes.  There is no forwarding.  A protocol the stack     *)
(* does not know is refused, unless it was sent to many.                   *)
ip4_input(p) ==
    LET netif == IF LinkLayerAddressed(p) THEN inp ELSE InputNetif(p)
    IN  CASE ~HeaderOk(p) \/ ~SourceOk(p) \/ netif = None -> "freed"
          [] HeaderOk(p) /\ SourceOk(p) /\ netif # None /\ p.fragment -> "reassembly"
          [] OTHER -> IF p.proto \in {"udp", "tcp", "icmp"} THEN p.proto
                      ELSE IF IsBroadcast(p.dest, netif) \/ IsMulticast(p.dest) THEN "freed"
                      ELSE "unreachable"

(* ip4_output: the source address is kept unless it is left open. *)
ip4_output_if_own_source(src, dest, n) == [src |-> Netifs[n].ip, dest |-> dest, by |-> n]

ip4_output_if(src, dest, n) ==
    [src |-> IF src = ANY THEN Netifs[n].ip ELSE src, dest |-> dest, by |-> n]

ip4_output(src, dest) ==
    IF ip4_route(dest) = None THEN None ELSE ip4_output_if(src, dest, ip4_route(dest))

-----------------------------------------------------------------------------
(* Web server. *)

Joined(labels) ==
    LET from[n \in DOMAIN labels] ==
            IF n = Len(labels) THEN labels[n] ELSE labels[n] \o <<DOT>> \o from[n + 1]
    IN  from[1]

SameHost_without_domain(host) == host = host_name

SameHost(host) ==
    /\ IsPrefix(host_name, host)
    /\ \/ Len(host) = Len(host_name)
       \/ /\ host[Len(host_name) + 1] = DOT
          /\ SubSeq(host, Len(host_name) + 2, Len(host)) = domain_name

(* host has room for HostSize characters, the terminator included.         *)
Truncated(host) == IF Len(host) >= HostSize THEN SubSeq(host, 1, HostSize - 1) ELSE host

(* ip4addr_aton leaves its result unset for a host that is not an address, *)
(* and the comparison may then come out either way.                        *)
host_name_matches(host) == IF SameHost(Truncated(host)) THEN {TRUE} ELSE BOOLEAN

(* Where the redirect leads, as it is written and as a resolver splits it. *)
Location == host_name \o <<DOT>> \o domain_name
Device == CHOOSE labels \in Names : Joined(labels) = Location

(* Where a client is redirected it may go. *)
ASSUME ResolverAssumption == \E labels \in Names : Joined(labels) = Location

-----------------------------------------------------------------------------
TcpTo(src, dest) ==
    [v |-> 4, hlen |-> 20, first |-> 20, len |-> 20, tot |-> 20, sum_ok |-> TRUE, src |-> src,
     dest |-> dest, proto |-> "tcp", port |-> 80, fragment |-> FALSE]

Idle == [pc |-> "idle", ip |-> None, host |-> <<>>, labels |-> <<>>, addr |-> None, hops |-> 0, edns |-> FALSE,
         pointer |-> FALSE, spelt |-> TRUE]
Nothing == [packet |-> None, to |-> None]

(* The server's task ends if it gets no socket. *)
PortalInit ==
    /\ dns \in {"running", "failed"}
    /\ ignore_network_suffix \in BOOLEAN
    /\ client = Idle
    /\ seen = Nothing

(* A program on the client's machine asks for a name. *)
Start ==
    /\ client.pc = "idle"
    /\ seen' = Nothing
    /\ \E ip \in Clients, labels \in Names, edns, pointer, spelt \in BOOLEAN :
         client' = [pc |-> "ask", ip |-> ip, host |-> Joined(labels), labels |-> labels, addr |-> None, hops |-> 0,
                    edns |-> edns, pointer |-> pointer, spelt |-> spelt]
    /\ UNCHANGED <<dns, ignore_network_suffix>>

dns_server_thread ==
    /\ dns = "running" /\ client.pc = "ask"
    /\ AnswersQuery([questions |-> 1, records |-> IF client.edns THEN 1 ELSE 0])
    /\ client' = [client EXCEPT !.pc = "request",
                                !.addr = get_address_for_encoded_domain(Encoded(client.labels, client.pointer))]
    /\ UNCHANGED <<dns, ignore_network_suffix, seen>>

NoAnswer ==
    /\ client.pc = "ask" /\ (dns = "failed" \/ client.edns)
    /\ client' = Idle
    /\ seen' = Nothing
    /\ UNCHANGED <<dns, ignore_network_suffix>>

Input(p) == seen' = [packet |-> p, to |-> ip4_input(p)]

(* The client's request, and the page or a redirect; a client that gets no *)
(* answer tries again.                                                     *)
HttpRequest ==
    /\ client.pc = "request" /\ client.spelt
    /\ Input(TcpTo(client.ip, client.addr))
    /\ \E matches \in host_name_matches(client.host) :
         client' = IF seen'.to # "tcp" THEN client
                   ELSE IF matches THEN [client EXCEPT !.pc = "page"]
                   ELSE [client EXCEPT !.pc = "ask", !.host = Location, !.labels = Device,
                                       !.hops = @ + 1, !.pointer = FALSE]
    /\ UNCHANGED <<dns, ignore_network_suffix>>

(* Without the line "Host: ", in this very spelling, the request is bad,   *)
(* and the client has its answer.                                          *)
BadRequest ==
    /\ client.pc = "request" /\ ~client.spelt
    /\ Input(TcpTo(client.ip, client.addr))
    /\ client' = IF seen'.to # "tcp" THEN client ELSE Idle
    /\ UNCHANGED <<dns, ignore_network_suffix>>

Leave ==
    /\ client.pc = "page"
    /\ client' = Idle
    /\ seen' = Nothing
    /\ UNCHANGED <<dns, ignore_network_suffix>>

Stray ==
    /\ client.pc = "idle"
    /\ \E p \in Strays : Input(p)
    /\ UNCHANGED <<dns, ignore_network_suffix, client>>

PortalNext == Start \/ dns_server_thread \/ NoAnswer \/ HttpRequest \/ BadRequest \/ Leave \/ Stray

PortalSpec ==
    /\ PortalInit /\ [][PortalNext]_portalVars
    /\ WF_portalVars(dns_server_thread) /\ WF_portalVars(HttpRequest) /\ WF_portalVars(NoAnswer)

-----------------------------------------------------------------------------
Addresses == {ip_address, ip4_secondary_ip_address}

(* Every variable has its type. *)
PortalTypeOK ==
    /\ dns \in {"running", "failed"} /\ ignore_network_suffix \in BOOLEAN
    /\ client.pc \in {"idle", "ask", "request", "page"}
    /\ client.pc \in {"request", "page"} => client.addr \in Addresses
    /\ seen.to \in {None, "freed", "reassembly", "udp", "tcp", "icmp", "unreachable"}

(* Whatever name is asked for, the page comes up, behind one redirect at   *)
(* most: where the redirect leads, the DNS server and the web server agree *)
(* that it is the device.                                                  *)
OneRedirect == client.hops <= 1

(* What a client asks by TCP is answered over the interface it came by and *)
(* from the very address it asked, the secondary one included (tcp_input   *)
(* drops what was sent to many).                                           *)
ReplyReturns ==
    seen.to = "tcp" /\ seen.packet.src \in Clients /\ ~IsBroadcast(seen.packet.dest, inp) =>
        ip4_output(seen.packet.dest, seen.packet.src) =
            [src |-> seen.packet.dest, dest |-> seen.packet.src, by |-> inp]

(* The DNS server only gives out addresses that the IP layer accepts, so   *)
(* that a client whose query was answered and that names the host gets to  *)
(* the page; and it takes the name of the redirect for that of the device, *)
(* as the web server does: behind a redirect the page comes from the       *)
(* device's own address, whatever the setting of the network suffix.       *)
PageComesUp ==
    client.pc = "request" /\ client.spelt
        ~> client.pc = "page" /\ (client.hops = 1 => client.addr = ip_address)
=============================================================================
