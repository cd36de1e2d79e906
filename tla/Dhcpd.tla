------------------------------- MODULE Dhcpd -------------------------------
(***************************************************************************)
(* One DHCP server (netutils/dhcpd/dhcpd.c): the lease table and the real- *)
(* time clock under every sequence of client messages, send failures and   *)
(* restarts.  "promise" is a history variable: what the server has told    *)
(* clients in its ACKs, address by address, since it last started.         *)
(***************************************************************************)
EXTENDS DhcpdLeases

CONSTANTS StartIP,      \* CONFIG_NETUTILS_DHCPD_STARTIP
          MaxLeases,    \* CONFIG_NETUTILS_DHCPD_MAXLEASES
          ServerIP,     \* ds_serverip, the address of the interface
          ReqIP,        \* addresses clients put in ciaddr or ask for
          ServerId,     \* server identifiers clients name (0: none)
          ReqTime,      \* lease times clients ask for (0: none)
          Xid,          \* transaction identifiers
          MaxClock      \* bound on the clock

ASSUME ServerConfig ==
    /\ {StartIP, MaxLeases, ServerIP} \subseteq Nat \ {0}
    /\ MaxClock \in Nat
    /\ {0} \subseteq ReqIP /\ ReqIP \subseteq Nat
    /\ ServerId \subseteq Nat
    /\ ReqTime \subseteq Nat

VARIABLES leases,       \* g_state.ds_leases
          clock,        \* dhcpd_time()
          out,          \* the messages the last step sent
          promise       \* history: who was ACKed each address, until when

vars == <<leases, clock, out, promise>>

(* STARTIP .. CONFIG_NETUTILS_DHCP_OPTION_ENDIP *)
Addr == StartIP .. (StartIP + MaxLeases - 1)

Message == ClientMsg(ReqIP, ServerId, ReqTime, Xid)

Promise == [mac : Mac \cup {NoMac}, until : Nat]
NoPromise == [mac |-> NoMac, until |-> 0]

-----------------------------------------------------------------------------
Init ==
    /\ leases = [ip \in Addr |-> FreeLease]
    /\ clock = 0
    /\ out = {}
    /\ promise = [ip \in Addr |-> NoPromise]

(* The client mac no longer relies on what it was promised *)
Forget(mac) ==
    [ip \in Addr |-> IF promise[ip].mac = mac THEN NoPromise ELSE promise[ip]]

(* A DISCOVER starts the client's configuration over *)
Discover(m) ==
    /\ m.type = "DISCOVER"
    /\ \E o \in dhcpd_discover(leases, clock, m, ServerIP) :
         leases' = o.leases /\ out' = o.reply
    /\ promise' = Forget(m.mac)
    /\ UNCHANGED clock

Request(m) ==
    /\ m.type = "REQUEST"
    /\ \E o \in dhcpd_request(leases, clock, m, ServerIP) :
         /\ leases' = o.leases
         /\ out' = o.reply
         /\ promise' =
              [ip \in Addr |->
                 IF \E r \in o.reply : r.type = "ACK" /\ r.yiaddr = ip
                 THEN [mac |-> m.mac,
                       until |-> clock + dhcpd_verifyreqleasetime(m, LeaseTime)]
                 ELSE promise[ip]]
    /\ UNCHANGED clock

Decline(m) ==
    /\ m.type = "DECLINE"
    /\ \E o \in dhcpd_decline(leases, clock, m) :
         leases' = o.leases /\ out' = o.reply
    /\ promise' = Forget(m.mac)
    /\ UNCHANGED clock

Release(m) ==
    /\ m.type = "RELEASE"
    /\ \E o \in dhcpd_release(leases, m) :
         leases' = o.leases /\ out' = o.reply
    /\ promise' = Forget(m.mac)
    /\ UNCHANGED clock

(* DHCPINFORM and unknown types reach the default of the switch *)
Unsupported(m) ==
    /\ m.type = "INFORM"
    /\ out' = {}
    /\ UNCHANGED <<leases, clock, promise>>

(* dhcpd_run clears g_state each time the daemon is started *)
Restart ==
    /\ leases' = [ip \in Addr |-> FreeLease]
    /\ out' = {}
    /\ promise' = [ip \in Addr |-> NoPromise]
    /\ UNCHANGED clock

Tick ==
    /\ clock < MaxClock
    /\ clock' = clock + 1
    /\ out' = {}
    /\ UNCHANGED <<leases, promise>>

Next ==
    \/ \E m \in Message : \/ Discover(m)
                          \/ Request(m)
                          \/ Decline(m)
                          \/ Release(m)
                          \/ Unsupported(m)
    \/ Restart
    \/ Tick

Spec == Init /\ [][Next]_vars

-----------------------------------------------------------------------------
(* Shape of the state *)
TypeOK ==
    /\ leases \in [Addr -> Lease]
    /\ clock \in 0 .. MaxClock
    /\ promise \in [Addr -> Promise]
    /\ \A r \in out : r.type \in {"OFFER", "ACK", "NAK"} /\ r.mac \in Mac

(* However DISCOVERs, REQUESTs, declines and expiries of several clients     *)
(* interleave, a client never has two addresses of the pool: dhcpd_findbymac *)
(* stops at the first match and would lose track of the second.  And a slot  *)
(* that names a client is marked allocated: dhcpd_findbymac ignores the mark *)
(* and dhcpd_findbyipaddr relies on it, so a slot where they disagree would  *)
(* be handed to a second client.                                             *)
OneLeasePerMac ==
    /\ \A a, b \in Addr :
         leases[a].mac = leases[b].mac /\ leases[a].mac # NoMac => a = b
    /\ \A a \in Addr : leases[a].mac # NoMac => leases[a].allocated

(* An address a client was ACKed stays its own in the table until the time  *)
(* the ACK named, unless that client itself starts over, declines or        *)
(* releases: no other client's message and no expiry scan takes it away.    *)
LeaseHonoured ==
    \A a \in Addr :
        promise[a].mac # NoMac /\ promise[a].until > clock
          => /\ leases[a].mac = promise[a].mac
             /\ leases[a].allocated
             /\ leases[a].expiry >= promise[a].until

(* What an OFFER or an ACK says is recorded when it is sent: the table      *)
(* reserves the address for the client it was sent to, and not yet expired  *)
RepliesBacked ==
    \A r \in out :
        r.type # "NAK" =>
          /\ r.yiaddr \in Addr
          /\ leases[r.yiaddr].mac = r.mac
          /\ leases[r.yiaddr].expiry > clock
          /\ r.type = "ACK" => leases[r.yiaddr].expiry = clock + r.leasetime

(* No OFFER and no ACK names an address that another client holds under an  *)
(* unexpired ACK: two clients are never given one address at the same time. *)
NoDoubleGrant ==
    [][\A r \in out' :
         r.type # "NAK" =>
           ~ \E a \in Addr : /\ a = r.yiaddr
                             /\ promise[a].mac \notin {NoMac, r.mac}
                             /\ promise[a].until > clock]_vars

(* A slot that dhcpd_decline took from its client and that has not expired *)
Declined(a) ==
    leases[a].allocated /\ leases[a].mac = NoMac /\ leases[a].expiry > clock

(* A declined address ("prevent re-used of this address for a period of     *)
(* time") stays out of use while its quarantine lasts: no request by any    *)
(* client, and no scan for a free address, hands it out or shortens it.     *)
(* Only a restart of the daemon forgets it.                                 *)
QuarantineKept ==
    [][\A a \in Addr :
         Declined(a) /\ ~Restart =>
           /\ leases'[a] = leases[a]
           /\ \A r \in out' : r.yiaddr # a]_vars

(* The reservations in force: unexpired slots and who they are for *)
Held == {<<a, leases[a].mac>> : a \in {b \in Addr : leases[b].expiry > clock}}

Pool == INSTANCE AddressPool
          WITH Client <- Mac, Address <- Addr, Withheld <- NoMac, held <- Held

(* The table with its lazy expiry and four handlers behaves as a pool of    *)
(* addresses: whatever messages arrive, an address goes from one client to  *)
(* another only after its lease ran out or was given up.                    *)
ImplementsPool == Pool!Spec
=============================================================================
