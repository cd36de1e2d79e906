------------------------------ MODULE DhcpNet ------------------------------
(***************************************************************************)
(* DHCP clients (Dhcpc) and servers (the handlers of DhcpdLeases) on one   *)
(* network (DhcpWire).  "net" says which network it is: who is on it, how  *)
(* bad it is and what else may fail.                                       *)
(***************************************************************************)
EXTENDS DhcpdLeases, Dhcpc

CONSTANTS Nets,         \* the networks
          MaxXid        \* bound: a client with this xid starts no exchange

ASSUME NetConfig ==
    /\ Client = Mac
    /\ \A n \in Nets :
         /\ n.clients \subseteq Client           \* the clients on it
         /\ DOMAIN n.pool \subseteq Server       \* its servers,
         /\ \A s \in DOMAIN n.pool : n.pool[s] \subseteq Nat \ {0} \* their addresses
         /\ n.room \in Nat \ {0}                 \* datagrams a socket holds
         /\ n.lossy \in BOOLEAN                  \* may it lose datagrams?
         /\ n.prompt \in BOOLEAN                 \* do answers arrive before recv() times out?
         /\ n.quick \in BOOLEAN                  \* is an exchange over before the clock ticks?
         /\ n.faults \subseteq {"send", "recv", "restart"}
         /\ n.cancellers \subseteq n.clients     \* clients whose owner calls dhcpc_cancel
         /\ n.maxclock \in Nat                   \* bound on the clock

VARIABLES leases,       \* ds_leases of each server
          clock,        \* seconds, in units of a quarter of a lease or so
          acked         \* history: the last lease each client was ACKed

vars == <<st, leases, sock, clock, acked>>
Servers == DOMAIN net.pool
-----------------------------------------------------------------------------
NetInit ==
    /\ net \in Nets
    /\ WireInit(net.clients \cup Servers)
    /\ ClientInit
    /\ leases = [s \in Servers |-> [ip \in net.pool[s] |-> FreeLease]]
    /\ clock = 0
    /\ acked = [c \in Client |-> [ip |-> 0, until |-> 0]]

InFlight(c) ==
    \/ sock[c] # <<>>
    \/ \E s \in Servers : \E i \in DOMAIN sock[s] : sock[s][i].mac = c

-----------------------------------------------------------------------------
(* A step of the thread of client c *)
ClientRuns(c) ==
    /\ \/ st[c].xid < MaxXid /\ BeginRequest(c)
       \/ SendDiscover(c)
       \/ SendRequest(c)
       \/ SeeCancel(c)
       \/ RunCallback(c)
       \/ EnterSleep(c, clock)
       \/ WakeUp(c, clock)
       \/ ~(net.prompt /\ InFlight(c)) /\ Timeout(c)
       \/ \E i \in Receivable(c) :
            \/ RecvOffer(c, i)
            \/ RecvNak(c, i)
            \/ \E late \in {FALSE, ~net.prompt} : RecvOther(c, i, late)
    /\ UNCHANGED <<leases, clock, acked>>

ClientAcked(c) ==
    /\ \E i \in Receivable(c) :
         /\ RecvAck(c, i)
         /\ acked' = [acked EXCEPT ![c] =
                        [ip    |-> sock[c][i].yiaddr,
                         until |-> clock + sock[c][i].leasetime]]
    /\ UNCHANGED <<leases, clock>>

ClientFails(c) ==
    /\ \/ "send" \in net.faults /\ SendFails(c)
       \/ "recv" \in net.faults /\ RecvFails(c)
    /\ UNCHANGED <<leases, clock, acked>>

(* The owner of the client *)
ClientCaller(c) ==
    /\ \/ RequestAsync(c)
       \/ /\ c \in net.cancellers
          /\ clock + LeaseTime <= net.maxclock
          /\ CancelFlag(c)
       \/ CancelKill(c)
       \/ CancelJoin(c)
    /\ UNCHANGED <<leases, clock, acked>>

(* One turn of the loop of dhcpd_run on server s *)
ServerReceives(s) ==
    \E i \in Receivable(s) :
      LET m == sock[s][i]
          outcomes == Dispatch(leases[s], clock, m, s)
      IN  \E o \in outcomes :
            /\ "send" \in net.faults \/ o.reply # {}
                 \/ \A other \in outcomes : other.reply = {}
            /\ leases' = [leases EXCEPT ![s] = o.leases]
            /\ sock' = IF o.reply = {} THEN Taken(s, i)
                       ELSE Sendto(Taken(s, i), m.mac,
                                   CHOOSE r \in o.reply : TRUE)
            /\ UNCHANGED <<st, clock, acked>>

(* The server is stopped and started: its table is cleared, its socket new *)
ServerRestarts(s) ==
    /\ "restart" \in net.faults
    /\ leases' = [leases EXCEPT ![s] = [ip \in net.pool[s] |-> FreeLease]]
    /\ sock' = [sock EXCEPT ![s] = <<>>]
    /\ UNCHANGED <<st, clock, acked>>

Lose ==
    /\ net.lossy
    /\ \E e \in DOMAIN sock : \E i \in DOMAIN sock[e] :
         sock' = Taken(e, i)
    /\ UNCHANGED <<st, leases, clock, acked>>

(* What does not wait for a tick of the clock: a runnable thread, a sleep   *)
(* that is over, an ACK on its way to a client that waits for it            *)
Urgent(c) ==
    \/ st[c].pc \in {"callback", "nap"}
    \/ st[c].pc = "sleep" /\ clock >= st[c].wake
    \/ /\ st[c].pc \in {"request", "ack"}
       /\ \E i \in DOMAIN sock[c] : Accepted(c, sock[c][i])
                                      /\ sock[c][i].type = "ACK"
    \/ net.quick /\ st[c].pc \in Sending \cup Waiting

Tick ==
    /\ clock < net.maxclock
    /\ \A c \in net.clients : ~Urgent(c)
    /\ clock' = clock + 1
    /\ UNCHANGED <<st, leases, sock, acked>>

NetNext ==
    /\ \/ \E c \in net.clients : \/ ClientRuns(c)
                                 \/ ClientAcked(c)
                                 \/ ClientFails(c)
                                 \/ ClientCaller(c)
       \/ \E s \in Servers : ServerReceives(s) \/ ServerRestarts(s)
       \/ Lose
       \/ Tick
    /\ UNCHANGED net

(* Threads and servers that can run do; cancellers go through with it *)
Fairness ==
    /\ \A c \in Client :
         /\ WF_vars(c \in net.clients /\ (ClientRuns(c) \/ ClientAcked(c)))
         /\ WF_vars(CancelKill(c) /\ UNCHANGED <<leases, clock, acked>>)
         /\ WF_vars(CancelJoin(c) /\ UNCHANGED <<leases, clock, acked>>)
    /\ \A s \in Server : WF_vars(s \in Servers /\ ServerReceives(s))
    /\ WF_vars(Tick)

NetSpec == NetInit /\ [][NetNext]_<<net, vars>> /\ Fairness

-----------------------------------------------------------------------------
(* Shape of the state *)
NetTypeOK ==
    /\ \A s \in Servers : leases[s] \in [net.pool[s] -> Lease]
    /\ \A e \in DOMAIN sock : Len(sock[e]) <= net.room
    /\ \A c \in Client :
         /\ st[c].xid \in 0 .. (XidMod - 1)
         /\ st[c].retries \in 0 .. Retries
         /\ st[c].ifaddr \in {0} \cup UNION {net.pool[s] : s \in Servers}

(* While a client sleeps on its lease, the server it chose has the address  *)
(* that is on the client's interface reserved for it and not yet expired,   *)
(* and the result handed to the callback names that address: no             *)
(* retransmission, late reply or other client's exchange comes between.     *)
(* Where exchanges do not outlast a tick and nothing but the network fails. *)
BoundLeaseHeld ==
    net.quick /\ net.faults = {} =>
      \A c \in net.clients : st[c].pc = "sleep" =>
        LET l == leases[st[c].chosen.serverid][st[c].ifaddr]
        IN  /\ st[c].presult.ipaddr = st[c].ifaddr
            /\ l.mac = c /\ l.allocated /\ l.expiry > clock

Reliable == ~net.lossy /\ net.prompt /\ net.quick /\ net.faults = {}

(* On a reliable network no two clients whose ACKed leases are both in      *)
(* force have the same address on their interfaces.                         *)
NoSharedAddress ==
    Reliable => \A c, d \in net.clients :
      (\A x \in {c, d} : st[x].ifaddr = acked[x].ip /\ acked[x].until > clock)
         /\ st[c].ifaddr = st[d].ifaddr => c = d

(* A client that is ACKed is ACKed the address it asked for in its REQUEST, *)
(* which is the one on its interface.                                       *)
RequestedIsAcked ==
    \A c \in net.clients :
      st[c].pc = "callback" /\ st[c].ok
        => st[c].presult.ipaddr = st[c].chosen.ipaddr

(* On a reliable network dhcpc_request succeeds: the server that made the   *)
(* first OFFER confirms it.                                                 *)
ExchangeSucceeds ==
    Reliable => \A c \in net.clients : st[c].pc = "callback" => st[c].ok

(* A client that starts an exchange on such a network gets a lease *)
Configured ==
    \A c \in Client :
      (Reliable /\ c \in net.clients /\ st[c].pc = "begin") ~> (st[c].pc = "sleep")

(* dhcpc_cancel returns, wherever the thread was when it was called and     *)
(* whatever the network does: a signal lost before sleep() only delays it.  *)
CancelReturns ==
    \A c \in Client : (st[c].caller = "kill") ~> (st[c].caller = "free")
=============================================================================
