------------------------------ MODULE DhcpWire ------------------------------
(***************************************************************************)
(* The UDP sockets DHCP clients and servers talk through.  A socket has    *)
(* room for net.room datagrams and drops what it has no room for; recv()   *)
(* returns the oldest one.                                                 *)
(***************************************************************************)
EXTENDS Integers, Sequences

CONSTANTS Client,       \* the clients, named by their hardware addresses
          Server,       \* the servers, named by their IP addresses
          Broadcast     \* INADDR_BROADCAST

ASSUME WireConfig ==
    /\ Server \subseteq Nat \ {0}
    /\ Client \cap Server = {}
    /\ Broadcast \notin Nat \cup Client

VARIABLES net,          \* the network, chosen once and for all
          sock          \* the datagrams waiting in each socket

WireInit(ends) == sock = [e \in ends |-> <<>>]

Reaches(e, to) == e = to \/ (to = Broadcast /\ e \in Server)

(* The sockets q after msg has been sent to the address "to" *)
Sendto(q, to, msg) ==
    [e \in DOMAIN q |-> IF Reaches(e, to) /\ Len(q[e]) < net.room
                        THEN Append(q[e], msg) ELSE q[e]]

(* q without its i-th datagram *)
Without(q, i) == SubSeq(q, 1, i - 1) \o SubSeq(q, i + 1, Len(q))

(* The sockets after e has received the i-th datagram waiting for it *)
Taken(e, i) == [sock EXCEPT ![e] = Without(@, i)]

Receivable(e) == DOMAIN sock[e] \cap {1}
=============================================================================
