------------------------- MODULE DhcpNetCalmProofs -------------------------
(***************************************************************************)
(* Proofs about DHCP on a network with nothing in its way: it loses        *)
(* nothing, answers arrive in time, an exchange is over before the clock   *)
(* ticks and no call fails.  There is one server, with an address for      *)
(* every client and room for a message of each, and no client is cancelled.*)
(***************************************************************************)
EXTENDS DhcpNetLeaseProofs, FiniteSets

(* The addresses that dhcpd_allocipaddr gives away *)
Usable(P) == {ip \in P : ip % 256 \notin {0, 255}}

(* A server with enough for all clients *)
Ample(n) ==
    /\ n.cancellers = {}
    /\ IsFiniteSet(n.clients)
    /\ Cardinality(n.clients) <= n.room
    /\ \E s \in DOMAIN n.pool :
         /\ DOMAIN n.pool = {s}
         /\ IsFiniteSet(n.pool[s])
         /\ Cardinality(n.clients) <= Cardinality(Usable(n.pool[s]))

(* Every reliable network is like that *)
AmpleNets ==
    \A n \in Nets : ~n.lossy /\ n.prompt /\ n.quick /\ n.faults = {} => Ample(n)

(* Nothing of client c is under way *)
Silence(c, s) ==
    /\ sock[c] = <<>>
    /\ \A j \in DOMAIN sock[s] : sock[s][j].mac # c

(* The question of client c is under way, or the answer *)
Awaits(c, s, ask, answer) ==
    \/ /\ sock[c] = <<>>
       /\ \E j \in DOMAIN sock[s] : sock[s][j].mac = c
       /\ \A j \in DOMAIN sock[s] : sock[s][j].mac = c =>
            /\ sock[s][j].type = ask /\ sock[s][j].xid = st[c].xid
            /\ ask = "REQUEST" => sock[s][j].reqip # 0
    \/ /\ \A j \in DOMAIN sock[s] : sock[s][j].mac # c
       /\ Len(sock[c]) = 1
       /\ sock[c][1].type = answer /\ sock[c][1].xid = st[c].xid

(* The lease that client c was last ACKed is the one that the server has for *)
(* it; it may be short only while an exchange makes it longer                *)
Stands(c, s) ==
    acked[c].until > clock =>
      /\ Holds(c, s, acked[c].ip)
      /\ st[c].pc \notin Sending \cup Waiting
           => acked[c].until <= leases[s][acked[c].ip].expiry

CalmClient(c, s) ==
    /\ ~st[c].cancel /\ st[c].caller = "free" /\ st[c].pc # "exit"
    /\ st[c].pc \notin Waiting => Silence(c, s)
    /\ st[c].pc = "offer" => Awaits(c, s, "DISCOVER", "OFFER")
    /\ st[c].pc = "ack" => Awaits(c, s, "REQUEST", "ACK")
    /\ st[c].pc = "callback" => st[c].ok
    /\ Stands(c, s)

(* Each client has at most one message at the server, and every slot is a    *)
(* client's or as good as new                                                *)
CalmServer(s) ==
    /\ \A i, j \in DOMAIN sock[s] : sock[s][i].mac = sock[s][j].mac => i = j
    /\ \A ip \in net.pool[s] :
         leases[s][ip].mac \in net.clients \/ leases[s][ip] = FreeLease

(* The inductive invariant behind ExchangeSucceeds and NoSharedAddress *)
CalmInv ==
    /\ acked \in [Client -> [ip : Nat, until : Nat]]
    /\ Reliable => \A s \in Servers : /\ CalmServer(s)
                                      /\ \A c \in net.clients : CalmClient(c, s)

(* Two facts of order, for the counting at the end of the module *)
LEMMA Order ==
    \A a, b, d \in Nat : /\ a <= b - 1 => a < b
                         /\ a < b /\ b <= d => a < d
OBVIOUS

-----------------------------------------------------------------------------
(* What a reliable network has *)
LEMMA AmpleFacts ==
    ASSUME AmpleNets, net \in Nets, Reliable, NEW s \in Servers
    PROVE  /\ net.cancellers = {} /\ Servers = {s}
           /\ IsFiniteSet(net.clients)
           /\ Cardinality(net.clients) <= net.room
           /\ IsFiniteSet(net.pool[s])
           /\ Cardinality(net.clients) <= Cardinality(Usable(net.pool[s]))
<1>1. Ample(net)
    BY DEF AmpleNets, Reliable
<1> QED
    BY <1>1 DEF Ample, Servers

(* There is enough for all: a message of a client that has none under way    *)
(* fits into the socket of the server, and the server has or finds an        *)
(* address for every client.  Shown at the end, from the sizes of these sets *)
Enough ==
    \A s \in Servers : \A c \in net.clients : CalmServer(s) =>
      /\ Silence(c, s) => Len(sock[s]) < net.room
      /\ \/ \E ip \in net.pool[s] : leases[s][ip].mac = c
         \/ dhcpd_allocipaddr(leases[s], clock) # {}

-----------------------------------------------------------------------------
(* A DISCOVER of a client that has an address, or can get one, may be answered *)
LEMMA OfferMade ==
    ASSUME NEW P \in SUBSET Nat, NEW tab \in [P -> Lease], OneSlot(tab), NEW m, NEW s,
           m.mac \in Mac,
           (\E ip \in P : tab[ip].mac = m.mac) \/ dhcpd_allocipaddr(tab, clock) # {}
    PROVE  \E o \in dhcpd_discover(tab, clock, m, s) : o.reply # {}
<1> DEFINE mine == dhcpd_findbymac(tab, m.mac)
           choice == DiscoverChoice(tab, clock, m)
           new(ip) == dhcpd_setlease(tab, clock, m.mac, ip, OfferTime)
           time(ip) == dhcpd_verifyreqleasetime(m, DiscoverTime(tab, clock, m, ip))
<1>1. mine = {a \in P : tab[a].mac = m.mac}
    BY FindByMac
<1>2. choice # {}
  <2>1. choice = IF mine # {} THEN mine
                 ELSE IF dhcpd_verifyreqip(tab, clock, m) THEN {m.reqip}
                 ELSE dhcpd_allocipaddr(tab, clock)
    BY DEF DiscoverChoice
  <2> HIDE DEF choice
  <2> QED
    BY <1>1, <2>1
<1>3. dhcpd_discover(tab, clock, m, s) =
        IF choice = {} THEN Silent(tab)
        ELSE UNION {dhcpd_sendoffer(new(ip), m, ip, time(ip), s) : ip \in choice}
    BY DEF dhcpd_discover
<1> HIDE DEF mine, choice, new, time
<1>4. PICK ip \in choice : TRUE
    BY <1>2
<1> DEFINE o == [leases |-> new(ip), reply |-> {Reply("OFFER", m, ip, time(ip), s)}]
<1>5. o \in dhcpd_sendoffer(new(ip), m, ip, time(ip), s) /\ o.reply # {}
    BY DEF dhcpd_sendoffer
<1> HIDE DEF o
<1>6. o \in dhcpd_discover(tab, clock, m, s)
    BY <1>2, <1>3, <1>4, <1>5
<1> QED
    BY <1>5, <1>6

(* A REQUEST of a client that has a slot and chose this server may be        *)
(* answered, and with nothing but an ACK                                     *)
LEMMA AckMade ==
    ASSUME NEW P \in SUBSET Nat, NEW tab \in [P -> Lease], OneSlot(tab), NEW m, NEW s,
           m.mac \in Mac, NEW ip \in P, tab[ip].mac = m.mac,
           m.serverid = s, s # 0, m.reqip # 0
    PROVE  /\ \E o \in dhcpd_request(tab, clock, m, s) : o.reply # {}
           /\ \A o \in dhcpd_request(tab, clock, m, s) : \A r \in o.reply : r.type = "ACK"
<1> DEFINE mine == dhcpd_findbymac(tab, m.mac)
           time == dhcpd_verifyreqleasetime(m, LeaseTime)
           ack == [leases |-> dhcpd_setlease(tab, clock, m.mac, ip, time),
                   reply  |-> {Reply("ACK", m, ip, time, s)}]
<1>1. mine = {ip}
  <2>1. mine = {a \in P : tab[a].mac = m.mac}
    BY FindByMac
  <2>2. \A a \in P : tab[a].mac = m.mac => a = ip
    BY LeaseConfig DEF OneSlot
  <2> QED
    BY <2>1, <2>2, Zenon
<1>2. RequestWithLease(tab, clock, m, ip, s) = Silent(tab) \cup {ack}
    BY DEF RequestWithLease, Consistent, dhcpd_sendack
<1>3. dhcpd_request(tab, clock, m, s) =
        IF mine # {} THEN UNION {RequestWithLease(tab, clock, m, a, s) : a \in mine}
        ELSE IF m.reqip # 0 /\ m.serverid = 0 THEN RequestWithoutLease(tab, clock, m, s)
        ELSE Silent(tab)
    BY DEF dhcpd_request
<1> HIDE DEF time
<1>4. ack.reply # {} /\ \A r \in ack.reply : r.type = "ACK"
  <2>1. Reply("ACK", m, ip, time, s).type = "ACK"
    BY DEF Reply
  <2>2. ack.reply = {Reply("ACK", m, ip, time, s)}
    OBVIOUS
  <2> QED
    BY <2>1, <2>2
<1>5. \A o \in Silent(tab) : o.reply = {}
    BY DEF Silent
<1> HIDE DEF mine, ack
<1>6. dhcpd_request(tab, clock, m, s) = RequestWithLease(tab, clock, m, ip, s)
  <2>1. UNION {RequestWithLease(tab, clock, m, a, s) : a \in {ip}}
          = RequestWithLease(tab, clock, m, ip, s)
    OBVIOUS
  <2> QED
    BY <1>1, <1>3, <2>1
<1> QED
    BY <1>2, <1>4, <1>5, <1>6, Zenon

(* A DISCOVER, or a REQUEST that names a server, changes a slot only to give *)
(* it to its client                                                          *)
LEMMA SlotsStay ==
    ASSUME net \in Nets, clock \in Nat, Tables, NEW s \in Servers, NEW m \in Asks,
           NEW o \in Dispatch(leases[s], clock, m, s), NEW c \in net.clients, m.mac = c,
           \/ m.type = "DISCOVER"
           \/ m.type = "REQUEST" /\ m.serverid # 0
    PROVE  \A ip \in net.pool[s] : o.leases[ip] = leases[s][ip] \/ o.leases[ip].mac = c
<1> DEFINE P == net.pool[s]
           tab == leases[s]
<1>1. /\ P \in SUBSET Nat /\ tab \in [P -> Lease] /\ OneSlot(tab)
      /\ c \in Mac /\ m.leasetime = 0
    BY NetFacts DEF Tables, Asks
<1> HIDE DEF P, tab
<1>2. ASSUME NEW ip \in P, NEW time, o.leases = Given(tab, c, ip, time)
      PROVE  \A a \in P : o.leases[a] = tab[a] \/ o.leases[a].mac = c
  <2>1. GivenOne(s, c, ip, time)
    BY GivenSlot DEF P
  <2> QED
    BY <1>2, <2>1 DEF GivenOne, P, tab
<1>3. CASE m.type = "DISCOVER"
  <2>1. o \in dhcpd_discover(tab, clock, m, s)
    BY <1>3 DEF Dispatch, tab
  <2>2. DiscoverOutcome(P, tab, m, s, o)
    BY <1>1, <2>1, DiscoverEffect, Zenon
  <2>3. o.leases = tab \/ \E ip \in P : o.leases = Given(tab, c, ip, OfferTime)
    BY <2>2 DEF DiscoverOutcome
  <2> QED
    BY <1>2, <2>3 DEF P, tab
<1>4. CASE m.type = "REQUEST" /\ m.serverid # 0
  <2>1. o \in dhcpd_request(tab, clock, m, s)
    BY <1>4 DEF Dispatch, tab
  <2>2. RequestOutcome(P, tab, m, s, o)
    BY <1>1, <2>1, RequestEffect
  <2>3. o.leases = tab \/ \E ip \in P : o.leases = Given(tab, c, ip, LeaseTime)
    BY <1>4, <2>2 DEF RequestOutcome
  <2> QED
    BY <1>2, <2>3 DEF P, tab
<1> QED
    BY <1>3, <1>4

-----------------------------------------------------------------------------
(* Server s has the same messages of client c as before the step *)
SameMail(c, s) ==
    /\ \A j \in DOMAIN sock'[s] : sock'[s][j].mac = c =>
         \E i \in DOMAIN sock[s] : sock[s][i] = sock'[s][j]
    /\ \A i \in DOMAIN sock[s] : sock[s][i].mac = c =>
         \E j \in DOMAIN sock'[s] : sock'[s][j] = sock[s][i]

(* The step is none of client c's business *)
Apart(c, s) ==
    /\ st'[c] = st[c] /\ sock'[c] = sock[c] /\ acked'[c] = acked[c]
    /\ SameMail(c, s)
    /\ Kept(c)

(* Each client has at most one message at server s, also after the step *)
OneEach(s) ==
    \A i, j \in DOMAIN sock'[s] : sock'[s][i].mac = sock'[s][j].mac => i = j

(* A client that a step leaves alone stays calm *)
LEMMA ApartCalm ==
    ASSUME UNCHANGED net, NEW c, NEW s \in Servers, CalmClient(c, s), Apart(c, s)
    PROVE  CalmClient(c, s)'
<1>1. /\ st'[c] = st[c] /\ sock'[c] = sock[c] /\ acked'[c] = acked[c] /\ clock' = clock
      /\ Servers' = Servers
    BY SameNet DEF Apart, Kept
<1>2. Silence(c, s) => Silence(c, s)'
    BY <1>1, Zenon DEF Apart, SameMail, Silence
<1>3. ASSUME NEW ask, NEW answer, Awaits(c, s, ask, answer)
      PROVE  Awaits(c, s, ask, answer)'
  <2>1. CASE \A j \in DOMAIN sock[s] : sock[s][j].mac # c
    BY <1>1, <1>3, <2>1, Zenon DEF Apart, SameMail, Awaits
  <2>2. CASE \E j \in DOMAIN sock[s] : sock[s][j].mac = c
    <3>1. /\ sock[c] = <<>>
          /\ \A j \in DOMAIN sock[s] : sock[s][j].mac = c =>
               /\ sock[s][j].type = ask /\ sock[s][j].xid = st[c].xid
               /\ ask = "REQUEST" => sock[s][j].reqip # 0
        BY <1>3, <2>2, Zenon DEF Awaits
    <3>2. \E j \in DOMAIN sock'[s] : sock'[s][j].mac = c
        BY <2>2, Zenon DEF Apart, SameMail
    <3>3. ASSUME NEW j \in DOMAIN sock'[s], sock'[s][j].mac = c
          PROVE  /\ sock'[s][j].type = ask /\ sock'[s][j].xid = st[c].xid
                 /\ ask = "REQUEST" => sock'[s][j].reqip # 0
      <4>1. PICK i \in DOMAIN sock[s] : sock[s][i] = sock'[s][j]
        BY <3>3, Zenon DEF Apart, SameMail
      <4> QED
        BY <3>1, <3>3, <4>1
    <3> QED
        BY <1>1, <3>1, <3>2, <3>3 DEF Awaits
  <2> QED
    BY <2>1, <2>2
<1>4. Stands(c, s)'
  <2> SUFFICES ASSUME acked[c].until > clock
               PROVE  /\ Holds(c, s, acked[c].ip)'
                      /\ st[c].pc \notin Sending \cup Waiting
                           => acked[c].until <= leases'[s][acked[c].ip].expiry
    BY <1>1 DEF Stands
  <2> DEFINE ip == acked[c].ip
  <2>1. /\ Holds(c, s, ip)
        /\ st[c].pc \notin Sending \cup Waiting => acked[c].until <= leases[s][ip].expiry
    BY DEF CalmClient, Stands
  <2>2. leases'[s][ip] = leases[s][ip]
    BY <2>1 DEF Apart, Kept, Holds
  <2> QED
    BY <1>1, <2>1, <2>2 DEF Holds
<1> QED
    BY <1>1, <1>2, <1>3, <1>4 DEF CalmClient

(* What cannot happen to a client that gets its answers *)
LEMMA NoSurprise ==
    ASSUME NetTyped, Reliable, net.cancellers = {}, NEW c \in net.clients,
           NEW s \in Servers, CalmClient(c, s)
    PROVE  /\ ~SeeCancel(c) /\ ~ClientFails(c)
           /\ Timeout(c) => net.prompt /\ InFlight(c)
           /\ \A i \in Receivable(c) : /\ ~RecvNak(c, i)
                                       /\ \A late : ~RecvOther(c, i, late)
           /\ ClientCaller(c) => RequestAsync(c)
<1>1. ~SeeCancel(c) /\ ~ClientFails(c)
    BY DEF SeeCancel, ClientFails, Reliable, CalmClient
<1>2. ASSUME Timeout(c) PROVE net.prompt /\ InFlight(c)
  <2>1. st[c].pc \in {"offer", "ack"} /\ sock[c] = <<>>
    BY <1>2 DEF Timeout, Waiting
  <2>2. Len(sock[c]) # 1
    BY <2>1
  <2>3. \E j \in DOMAIN sock[s] : sock[s][j].mac = c
    BY <2>1, <2>2 DEF CalmClient, Awaits
  <2> QED
    BY <2>3 DEF InFlight, Reliable
<1>3. ASSUME NEW i \in Receivable(c) PROVE ~RecvNak(c, i) /\ \A late : ~RecvOther(c, i, late)
  <2>1. i = 1 /\ sock[c] # <<>> /\ sock[c][i].mac = c
    BY FirstAnswer DEF Receivable, NetTyped, Answers
  <2>2. ASSUME NEW ask, NEW answer, Awaits(c, s, ask, answer)
        PROVE  sock[c][i].type = answer /\ sock[c][i].xid = st[c].xid
    BY <2>1, <2>2 DEF Awaits
  <2>3. /\ st[c].pc = "offer" => Accepted(c, sock[c][i]) /\ sock[c][i].type = "OFFER"
        /\ st[c].pc = "ack" => Accepted(c, sock[c][i]) /\ sock[c][i].type = "ACK"
    BY <2>1, <2>2 DEF CalmClient, Accepted
  <2>4. ~RecvNak(c, i)
    BY <2>3 DEF RecvNak
  <2>5. ASSUME NEW late PROVE ~RecvOther(c, i, late)
    BY <2>3 DEF RecvOther
  <2> QED
    BY <2>4, <2>5
<1>4. ClientCaller(c) => RequestAsync(c)
    BY DEF ClientCaller, CancelKill, CancelJoin, CalmClient
<1> QED
    BY <1>1, <1>2, <1>3, <1>4

(* A client that is in no exchange, or begins one *)
LEMMA RestCalm ==
    ASSUME UNCHANGED <<net, sock, leases, clock>>, NEW c, NEW s \in Servers,
           CalmClient(c, s), acked'[c] = acked[c],
           st'[c].cancel = st[c].cancel, st'[c].caller = st[c].caller,
           st[c].pc \notin Sending \cup Waiting,
           st'[c].pc \in {"begin", "discover", "nap", "sleep"}
    PROVE  CalmClient(c, s)'
<1>1. /\ ~st[c].cancel /\ st[c].caller = "free" /\ Silence(c, s) /\ Stands(c, s)
    BY DEF CalmClient
<1>2. Silence(c, s)'
    BY <1>1 DEF Silence
<1>3. Stands(c, s)'
    BY <1>1, SameNet DEF Stands, Holds
<1> QED
    BY <1>1, <1>2, <1>3 DEF CalmClient

(* A message of a client that has none under way arrives *)
LEMMA Posted ==
    ASSUME NetTyped, Enough, NEW s \in Servers, CalmServer(s),
           NEW c \in net.clients, Silence(c, s), NEW m \in Asks, m.mac = c,
           sock' = Sendto(sock, Broadcast, m)
    PROVE  /\ \A d \in net.clients : sock'[d] = sock[d]
           /\ \A d \in net.clients : d # c => SameMail(d, s)
           /\ OneEach(s)
           /\ \E j \in DOMAIN sock'[s] : sock'[s][j] = m
           /\ \A j \in DOMAIN sock'[s] : sock'[s][j].mac = c => sock'[s][j] = m
<1>1. net \in Nets /\ Sockets(sock) /\ sock[s] \in Seq(Asks)
    BY Zenon DEF NetTyped, Sockets
<1>2. Len(sock[s]) < net.room
    BY DEF Enough
<1>3. sock'[s] = Append(sock[s], m) /\ \A d \in net.clients : sock'[d] = sock[d]
  <2> DEFINE r == Sendto(sock, Broadcast, m)
             to == Broadcast
  <2>1. to \in Servers \cup {Broadcast} /\ to \in {s, Broadcast}
    OBVIOUS
  <2>2. /\ \A d \in net.clients : r[d] = sock[d]
        /\ \A e \in Servers : to \in {e, Broadcast} /\ Len(sock[e]) < net.room
                              => r[e] = Append(sock[e], m)
    BY <1>1, <2>1, SendAsk, Zenon
  <2> HIDE DEF r, to
  <2> QED
    BY <1>2, <2>1, <2>2 DEF r
<1> DEFINE n == Len(sock[s])
<1>4. /\ n \in Nat /\ DOMAIN sock[s] = 1 .. n /\ DOMAIN sock'[s] = 1 .. n + 1
      /\ sock'[s][n + 1] = m /\ \A j \in 1 .. n : sock'[s][j] = sock[s][j]
    BY <1>1, <1>3
<1> HIDE DEF n
<1>5. \A j \in 1 .. n + 1 : j = n + 1 \/ j \in 1 .. n
    BY <1>4
<1>6. \A j \in 1 .. n : sock[s][j].mac # c /\ j \in 1 .. n + 1
    BY <1>4 DEF Silence
<1>7. n + 1 \in 1 .. n + 1
    BY <1>4
<1>8. ASSUME NEW d \in net.clients, d # c PROVE SameMail(d, s)
    BY <1>4, <1>5, <1>6, <1>8, Zenon DEF SameMail
<1>9. OneEach(s)
  <2> SUFFICES ASSUME NEW i \in 1 .. n + 1, NEW j \in 1 .. n + 1,
                      sock'[s][i].mac = sock'[s][j].mac
               PROVE  i = j
    BY <1>4 DEF OneEach
  <2>1. CASE i = n + 1
    BY <1>4, <1>5, <1>6, <2>1
  <2>2. CASE j = n + 1
    BY <1>4, <1>5, <1>6, <2>2
  <2>3. CASE i \in 1 .. n /\ j \in 1 .. n
    BY <1>4, <2>3 DEF CalmServer
  <2> QED
    BY <1>5, <2>1, <2>2, <2>3
<1>10. \A j \in DOMAIN sock'[s] : sock'[s][j].mac = c => sock'[s][j] = m
    BY <1>4, <1>5, <1>6
<1> QED
    BY <1>3, <1>4, <1>7, <1>8, <1>9, <1>10

(* and the client then awaits the answer *)
LEMMA SendCalm ==
    ASSUME UNCHANGED <<net, leases, clock>>, NEW c \in net.clients, NEW s \in Servers,
           CalmClient(c, s), acked'[c] = acked[c], sock'[c] = sock[c], Keeps(c),
           NEW m, m.mac = c, m.xid = st[c].xid,
           \E j \in DOMAIN sock'[s] : sock'[s][j] = m,
           \A j \in DOMAIN sock'[s] : sock'[s][j].mac = c => sock'[s][j] = m,
           \/ /\ st[c].pc = "discover" /\ st'[c].pc = "offer" /\ m.type = "DISCOVER"
           \/ /\ st[c].pc = "request" /\ st'[c].pc = "ack" /\ m.type = "REQUEST"
              /\ m.reqip # 0
    PROVE  CalmClient(c, s)'
<1>1. /\ ~st[c].cancel /\ st[c].caller = "free" /\ Silence(c, s) /\ Stands(c, s)
      /\ st'[c].cancel = st[c].cancel /\ st'[c].caller = st[c].caller
      /\ st'[c].xid = st[c].xid
    BY DEF CalmClient, Keeps, Waiting
<1>2. ASSUME NEW answer, m.type = "REQUEST" => m.reqip # 0
      PROVE  Awaits(c, s, m.type, answer)'
    BY <1>1, <1>2, Zenon DEF Awaits, Silence
<1>3. Stands(c, s)'
    BY <1>1, SameNet DEF Stands, Holds, Sending, Waiting
<1> QED
    BY <1>1, <1>2, <1>3, Zenon DEF CalmClient, Waiting

(* A client takes the one answer that has come *)
LEMMA AnswerTaken ==
    ASSUME NetTyped, NEW s \in Servers, NEW c \in net.clients, NEW ask, NEW answer,
           Awaits(c, s, ask, answer), NEW i \in Receivable(c), sock' = Taken(c, i)
    PROVE  /\ i = 1 /\ Silence(c, s)'
           /\ sock'[s] = sock[s] /\ \A d \in net.clients : d # c => sock'[d] = sock[d]
<1>1. net \in Nets /\ Sockets(sock) /\ c \notin Servers
    BY NetFacts DEF NetTyped
<1>2. i = 1 /\ i \in DOMAIN sock[c]
    BY <1>1, FirstAnswer
<1>3. sock[c] # <<>>
    BY <1>2
<1>4. Len(sock[c]) = 1 /\ \A j \in DOMAIN sock[s] : sock[s][j].mac # c
    BY <1>3 DEF Awaits
<1> DEFINE q == Taken(c, i)
<1>5. /\ Sockets(q) /\ Len(q[c]) = Len(sock[c]) - 1
      /\ \A d \in net.clients \cup Servers : d # c => q[d] = sock[d]
    BY <1>1, <1>2, TakeOne
<1> HIDE DEF q
<1>6. q[c] \in Seq(Answers(c))
    BY <1>5, Zenon DEF Sockets
<1>7. q[c] = <<>>
    BY <1>4, <1>5, <1>6
<1>8. sock' = q
    BY DEF q
<1>9. sock'[s] = sock[s] /\ \A d \in net.clients : d # c => sock'[d] = sock[d]
    BY <1>1, <1>5, <1>8
<1> QED
    BY <1>2, <1>4, <1>7, <1>8, <1>9, Zenon DEF Silence

(* The client takes the OFFER it waits for, and nothing else is under way *)
LEMMA RecvOfferCalm ==
    ASSUME NetTyped, UNCHANGED <<net, leases, clock>>, NEW c \in net.clients,
           NEW s \in Servers, CalmClient(c, s), acked'[c] = acked[c],
           NEW i \in Receivable(c), RecvOffer(c, i)
    PROVE  /\ CalmClient(c, s)' /\ sock'[s] = sock[s]
           /\ \A d \in net.clients : d # c => sock'[d] = sock[d]
<1>1. net \in Nets /\ Threads /\ Sockets(sock)
    BY DEF NetTyped
<1>2. /\ st[c].pc = "offer" /\ st'[c].pc = "request" /\ sock' = Taken(c, i)
      /\ st'[c].cancel = st[c].cancel /\ st'[c].caller = st[c].caller
    BY <1>1, RecvOfferStep, Zenon
<1>3. /\ ~st[c].cancel /\ st[c].caller = "free" /\ Stands(c, s)
      /\ Awaits(c, s, "DISCOVER", "OFFER")
    BY <1>2 DEF CalmClient
<1>4. /\ Silence(c, s)' /\ sock'[s] = sock[s]
      /\ \A d \in net.clients : d # c => sock'[d] = sock[d]
    BY <1>2, <1>3, AnswerTaken, Zenon
<1>5. Stands(c, s)'
    BY <1>2, <1>3, SameNet, Zenon DEF Stands, Holds, Sending
<1> QED
    BY <1>2, <1>3, <1>4, <1>5, Zenon DEF CalmClient

(* The client takes the ACK it waits for, and its lease stands *)
LEMMA RecvAckCalm ==
    ASSUME NetTyped, UNCHANGED <<net, leases, clock>>, NEW c \in net.clients, c \in Client,
           NEW s \in Servers, Servers = {s}, CalmClient(c, s), Requesting(c),
           acked \in [Client -> [ip : Nat, until : Nat]],
           NEW i \in Receivable(c), RecvAck(c, i),
           acked' = [acked EXCEPT ![c] = [ip    |-> sock[c][i].yiaddr,
                                          until |-> clock + sock[c][i].leasetime]]
    PROVE  /\ CalmClient(c, s)' /\ sock'[s] = sock[s]
           /\ \A d \in net.clients : d # c => sock'[d] = sock[d]
<1>1. net \in Nets /\ Threads /\ Sockets(sock) /\ clock \in Nat /\ Tables
    BY Zenon DEF NetTyped
<1>2. /\ st[c].pc = "ack" /\ st'[c].pc = "callback" /\ st'[c].ok /\ sock' = Taken(c, i)
      /\ st'[c].cancel = st[c].cancel /\ st'[c].caller = st[c].caller
      /\ sock[c][i].xid = st[c].xid /\ sock[c][i].type = "ACK"
    BY <1>1, RecvAckStep, Zenon DEF Keeps
<1>3. /\ ~st[c].cancel /\ st[c].caller = "free" /\ Awaits(c, s, "REQUEST", "ACK")
    BY <1>2 DEF CalmClient
<1>4. /\ Silence(c, s)' /\ sock'[s] = sock[s]
      /\ \A d \in net.clients : d # c => sock'[d] = sock[d]
    BY <1>2, <1>3, AnswerTaken, Zenon
<1>5. PICK ip \in net.pool[s] : RequestsFrom(c, s, ip)
    BY DEF Requesting
<1>6. i \in DOMAIN sock[c]
    BY <1>1, FirstAnswer, Zenon
<1>7. /\ sock[c][i].yiaddr = ip /\ sock[c][i].leasetime = LeaseTime
      /\ leases[s][ip].expiry >= clock + LeaseTime /\ Holds(c, s, ip)
    BY <1>2, <1>5, <1>6, Zenon DEF RequestsFrom, Asked
<1>8. acked'[c].ip = ip /\ acked'[c].until = clock + LeaseTime
    BY <1>7, Zenon
<1>9. Holds(c, s, ip)'
    BY <1>7, SameNet, Zenon DEF Holds
<1>10. leases[s][ip].expiry \in Nat /\ LeaseTime \in Nat
    BY <1>1, LeaseConfig, Zenon DEF Tables, Lease
<1>11. Stands(c, s)'
    BY <1>1, <1>7, <1>8, <1>9, <1>10, Zenon DEF Stands
<1> QED
    BY <1>2, <1>3, <1>4, <1>11, Zenon DEF CalmClient, Waiting

-----------------------------------------------------------------------------
(* What a step of client c leaves of the calm *)
Turn(c, s) ==
    /\ CalmClient(c, s)'
    /\ OneEach(s)
    /\ \A d \in net.clients : d # c => sock'[d] = sock[d] /\ SameMail(d, s)

(* A step that sends nothing *)
LEMMA TurnSame ==
    ASSUME NEW c, NEW s, CalmServer(s), CalmClient(c, s)', sock'[s] = sock[s],
           \A d \in net.clients : d # c => sock'[d] = sock[d]
    PROVE  Turn(c, s)
<1>1. OneEach(s)
    BY DEF OneEach, CalmServer
<1>2. \A d : SameMail(d, s)
    BY Zenon DEF SameMail
<1> QED
    BY <1>1, <1>2, Zenon DEF Turn

(* A step that sends a question where nothing was under way *)
LEMMA SendTurn ==
    ASSUME NetTyped, Enough, UNCHANGED <<net, leases, clock, acked>>,
           NEW c \in net.clients, NEW s \in Servers, Servers = {s}, CalmServer(s),
           CalmClient(c, s), st[c].pc = "request" => Requesting(c),
           SendDiscover(c) \/ SendRequest(c)
    PROVE  Turn(c, s)
<1>1. net \in Nets /\ Threads /\ Sockets(sock)
    BY Zenon DEF NetTyped
<1>2. PICK m \in Asks :
        /\ sock' = Sendto(sock, Broadcast, m) /\ m.mac = c /\ m.xid = st[c].xid
        /\ \/ /\ st[c].pc = "discover" /\ st'[c].pc = "offer" /\ m.type = "DISCOVER"
           \/ /\ st[c].pc = "request" /\ st'[c].pc = "ack" /\ m.type = "REQUEST"
              /\ m.reqip = st[c].chosen.ipaddr
    BY <1>1, SendDiscoverStep, SendRequestStep, Zenon
<1>3. Keeps(c)
    BY <1>1, SendDiscoverStep, SendRequestStep, Zenon
<1>4. st[c].pc = "request" => st[c].chosen.ipaddr # 0
  <2>1. \A ip \in net.pool[s] : ip # 0
    BY <1>1, NetFacts, Zenon
  <2> QED
    BY <2>1, Zenon DEF Requesting, RequestsFrom
<1>5. Silence(c, s)
    BY <1>2, Zenon DEF CalmClient, Waiting
<1>6. /\ \A d \in net.clients : sock'[d] = sock[d]
      /\ \A d \in net.clients : d # c => SameMail(d, s)
      /\ OneEach(s)
      /\ \E j \in DOMAIN sock'[s] : sock'[s][j] = m
      /\ \A j \in DOMAIN sock'[s] : sock'[s][j].mac = c => sock'[s][j] = m
  <2>1. sock' = Sendto(sock, Broadcast, m) /\ m.mac = c
    BY <1>2, Zenon
  <2> QED
    BY <1>5, <2>1, Posted
<1>7. CalmClient(c, s)'
  <2>1. sock'[c] = sock[c] /\ acked'[c] = acked[c] /\ UNCHANGED <<net, leases, clock>>
    BY <1>6, Zenon
  <2>2. /\ m.mac = c /\ m.xid = st[c].xid
        /\ \/ /\ st[c].pc = "discover" /\ st'[c].pc = "offer" /\ m.type = "DISCOVER"
           \/ /\ st[c].pc = "request" /\ st'[c].pc = "ack" /\ m.type = "REQUEST"
              /\ m.reqip # 0
    BY <1>2, <1>4, Zenon
  <2>3. /\ \E j \in DOMAIN sock'[s] : sock'[s][j] = m
        /\ \A j \in DOMAIN sock'[s] : sock'[s][j].mac = c => sock'[s][j] = m
    BY <1>6, Zenon
  <2> QED
    BY <1>3, <2>1, <2>2, <2>3, SendCalm, Zenon
<1> QED
    BY <1>6, <1>7, Zenon DEF Turn

(* The steps of the client that use no socket *)
LEMMA RestTurn ==
    ASSUME NetTyped, UNCHANGED <<net, leases, clock, acked>>, NEW c \in net.clients,
           NEW s \in Servers, CalmServer(s), CalmClient(c, s),
           \/ RequestAsync(c) \/ BeginRequest(c) \/ RunCallback(c)
           \/ EnterSleep(c, clock) \/ WakeUp(c, clock)
    PROVE  Turn(c, s)
<1>1. net \in Nets /\ c \in Client /\ Threads /\ clock \in Nat /\ st[c] \in Thread
    BY NetFacts, Zenon DEF NetTyped, Threads
<1>2. ~st[c].cancel
    BY DEF CalmClient
<1> DEFINE Rests == /\ UNCHANGED sock
                    /\ st'[c].cancel = st[c].cancel /\ st'[c].caller = st[c].caller
                    /\ st[c].pc \in {"idle", "begin", "callback", "nap", "sleep"}
                    /\ st'[c].pc \in {"begin", "discover", "nap", "sleep"}
<1>3. ASSUME RequestAsync(c) PROVE Rests
  <2>1. UNCHANGED sock /\ st[c].pc = "idle" /\ st'[c] = [st[c] EXCEPT !.pc = "begin"]
    BY <1>1, <1>3, RequestAsyncStep, Zenon
  <2> QED
    BY <1>1, <2>1 DEF Thread
<1>4. ASSUME BeginRequest(c) PROVE Rests
    BY <1>1, <1>4, BeginRequestStep, Zenon
<1>5. ASSUME RunCallback(c) PROVE Rests
    BY <1>1, <1>2, <1>5, RunCallbackStep, Zenon DEF Keeps
<1>6. ASSUME EnterSleep(c, clock) PROVE Rests
    BY <1>1, <1>6, EnterSleepStep, Zenon DEF Keeps
<1>7. ASSUME WakeUp(c, clock) PROVE Rests
    BY <1>1, <1>2, <1>7, WakeUpStep, Zenon DEF Keeps
<1>8. Rests
    BY <1>3, <1>4, <1>5, <1>6, <1>7, Zenon
<1>9. st[c].pc \notin Sending \cup Waiting
    BY <1>8, Zenon DEF Sending, Waiting
<1>10. CalmClient(c, s)'
  <2>1. UNCHANGED <<net, sock, leases, clock>> /\ acked'[c] = acked[c]
    BY <1>8, Zenon
  <2> QED
    BY <1>8, <1>9, <2>1, RestCalm, Zenon
<1> QED
    BY <1>8, <1>10, TurnSame, Zenon

(* A step of client c keeps the calm of all *)
LEMMA ClientTurn ==
    ASSUME NetTyped, LInv, AmpleNets, Reliable, Enough, UNCHANGED net,
           NEW c \in net.clients,
           NEW s \in Servers, Servers = {s}, CalmServer(s), CalmClient(c, s),
           acked \in [Client -> [ip : Nat, until : Nat]],
           ClientRuns(c) \/ ClientAcked(c) \/ ClientFails(c) \/ ClientCaller(c)
    PROVE  Turn(c, s)
<1>1. net \in Nets /\ c \in Client /\ net.cancellers = {}
    BY NetFacts, AmpleFacts, Zenon DEF NetTyped
<1>2. /\ ~SeeCancel(c) /\ ~ClientFails(c)
      /\ Timeout(c) => net.prompt /\ InFlight(c)
      /\ \A i \in Receivable(c) : ~RecvNak(c, i) /\ \A late : ~RecvOther(c, i, late)
      /\ ClientCaller(c) => RequestAsync(c)
    BY <1>1, NoSurprise
<1>3. st[c].pc \in {"request", "ack"} => Requesting(c)
    BY Zenon DEF LInv, Leased, Reliable
<1>4. UNCHANGED <<leases, clock>>
    BY Zenon DEF ClientRuns, ClientAcked, ClientFails, ClientCaller
<1>5. CASE ClientRuns(c) \/ ClientCaller(c)
  <2>1. UNCHANGED acked
    BY <1>5, Zenon DEF ClientRuns, ClientCaller
  <2>2. CASE SendDiscover(c) \/ SendRequest(c)
    BY <1>3, <1>4, <2>1, <2>2, SendTurn, Zenon
  <2>3. CASE \/ RequestAsync(c) \/ BeginRequest(c) \/ RunCallback(c)
             \/ EnterSleep(c, clock) \/ WakeUp(c, clock)
    BY <1>4, <2>1, <2>3, RestTurn, Zenon
  <2>4. ASSUME NEW i \in Receivable(c), RecvOffer(c, i) PROVE Turn(c, s)
    <3>1. /\ CalmClient(c, s)' /\ sock'[s] = sock[s]
          /\ \A d \in net.clients : d # c => sock'[d] = sock[d]
        BY <1>4, <2>1, <2>4, RecvOfferCalm, Zenon
    <3> QED
        BY <3>1, TurnSame, Zenon
  <2>5. ClientRuns(c) =>
          \/ SendDiscover(c) \/ SendRequest(c) \/ BeginRequest(c) \/ RunCallback(c)
          \/ EnterSleep(c, clock) \/ WakeUp(c, clock)
          \/ \E i \in Receivable(c) : RecvOffer(c, i)
    BY <1>2, Zenon DEF ClientRuns
  <2> QED
    BY <1>2, <1>5, <2>2, <2>3, <2>4, <2>5, Zenon
<1>6. CASE ClientAcked(c)
  <2>1. PICK i \in Receivable(c) :
          /\ RecvAck(c, i)
          /\ acked' = [acked EXCEPT ![c] = [ip    |-> sock[c][i].yiaddr,
                                            until |-> clock + sock[c][i].leasetime]]
    BY <1>6, Zenon DEF ClientAcked
  <2>2. st[c].pc = "ack"
    BY <2>1 DEF RecvAck
  <2>3. /\ CalmClient(c, s)' /\ sock'[s] = sock[s]
        /\ \A d \in net.clients : d # c => sock'[d] = sock[d]
    BY <1>1, <1>3, <1>4, <2>1, <2>2, RecvAckCalm, Zenon
  <2> QED
    BY <2>3, TurnSame, Zenon
<1> QED
    BY <1>2, <1>5, <1>6, Zenon

(* What is kept of the leases that were ACKed *)
LEMMA AckedTyped ==
    ASSUME NetTyped, UNCHANGED net, acked \in [Client -> [ip : Nat, until : Nat]],
           NEW c \in net.clients,
           ClientRuns(c) \/ ClientAcked(c) \/ ClientFails(c) \/ ClientCaller(c)
    PROVE  /\ acked' \in [Client -> [ip : Nat, until : Nat]]
           /\ \A d \in Client : d # c => acked'[d] = acked[d]
<1>1. CASE ClientRuns(c) \/ ClientFails(c) \/ ClientCaller(c)
    BY <1>1, Zenon DEF ClientRuns, ClientFails, ClientCaller
<1>2. CASE ClientAcked(c)
  <2>1. PICK i \in Receivable(c) :
          acked' = [acked EXCEPT ![c] = [ip    |-> sock[c][i].yiaddr,
                                         until |-> clock + sock[c][i].leasetime]]
    BY <1>2, Zenon DEF ClientAcked
  <2>2. sock[c][i] \in Answers(c) /\ clock \in Nat /\ net \in Nets
    BY FirstAnswer DEF NetTyped
  <2>3. sock[c][i].yiaddr \in Nat /\ sock[c][i].leasetime \in Nat
    <3>1. Addrs \subseteq Nat
        BY <2>2, NetFacts DEF Addrs
    <3> QED
        BY <2>2, <3>1, Zenon DEF Answers
  <2> DEFINE a == [ip |-> sock[c][i].yiaddr, until |-> clock + sock[c][i].leasetime]
  <2>4. a \in [ip : Nat, until : Nat] /\ acked' = [acked EXCEPT ![c] = a]
    BY <2>1, <2>2, <2>3
  <2> HIDE DEF a
  <2> QED
    BY <2>4, Zenon
<1> QED
    BY <1>1, <1>2, Zenon

(* The calm outlasts every step of a client *)
LEMMA ClientCalm ==
    ASSUME NetTyped, LInv, AmpleNets, Reliable, Enough, UNCHANGED net,
           NEW c \in net.clients,
           NEW s \in Servers, CalmServer(s), \A d \in net.clients : CalmClient(d, s),
           acked \in [Client -> [ip : Nat, until : Nat]],
           ClientRuns(c) \/ ClientAcked(c) \/ ClientFails(c) \/ ClientCaller(c)
    PROVE  CalmServer(s)' /\ \A d \in net.clients : CalmClient(d, s)'
<1>1. net \in Nets /\ c \in Client /\ Threads /\ net.clients \subseteq Client
    BY NetFacts DEF NetTyped
<1>2. Servers = {s}
    BY <1>1, AmpleFacts, Zenon
<1>3. Turn(c, s)
    BY <1>2, ClientTurn
<1>4. Steps(c) /\ UNCHANGED <<leases, clock>>
    BY ClientStep
<1>5. \A d \in Client : d # c => st'[d] = st[d] /\ acked'[d] = acked[d]
    BY <1>1, <1>4, StepsTyped, AckedTyped, Zenon
<1>6. ASSUME NEW d \in net.clients, d # c PROVE CalmClient(d, s)'
  <2>1. Apart(d, s)
    BY <1>1, <1>3, <1>4, <1>5, <1>6, Zenon DEF Turn, Apart, Kept
  <2> QED
    BY <2>1, ApartCalm, Zenon
<1>7. CalmServer(s)'
    BY <1>3, <1>4, Zenon DEF Turn, OneEach, CalmServer
<1> QED
    BY <1>3, <1>6, <1>7, Zenon DEF Turn

-----------------------------------------------------------------------------
(* The first message at the server is what its client waits for *)
LEMMA FirstAsk ==
    ASSUME NEW c, NEW s, CalmClient(c, s), 1 \in DOMAIN sock[s], NEW m,
           m = sock[s][1], m.mac = c
    PROVE  /\ sock[c] = <<>> /\ m.xid = st[c].xid
           /\ \/ st[c].pc = "offer" /\ m.type = "DISCOVER"
              \/ st[c].pc = "ack" /\ m.type = "REQUEST" /\ m.reqip # 0
<1>1. st[c].pc \in {"offer", "ack"}
    BY DEF CalmClient, Silence, Waiting
<1>2. ASSUME NEW ask, NEW answer, Awaits(c, s, ask, answer)
      PROVE  /\ sock[c] = <<>> /\ m.xid = st[c].xid /\ m.type = ask
             /\ ask = "REQUEST" => m.reqip # 0
    BY <1>2 DEF Awaits
<1> QED
    BY <1>1, <1>2, Zenon DEF CalmClient

(* The server can answer a DISCOVER *)
LEMMA DiscoverAnswered ==
    ASSUME NetTyped, Enough, NEW s \in Servers, CalmServer(s), NEW m \in Asks,
           m.type = "DISCOVER"
    PROVE  \E o \in Dispatch(leases[s], clock, m, s) : o.reply # {}
<1> DEFINE P == net.pool[s]
           tab == leases[s]
           c == m.mac
<1>1. net \in Nets /\ c \in net.clients
    BY DEF NetTyped, Asks
<1>2. P \in SUBSET Nat /\ tab \in [P -> Lease] /\ OneSlot(tab) /\ c \in Mac
    BY <1>1, NetFacts DEF NetTyped, Tables
<1>3. (\E ip \in P : tab[ip].mac = c) \/ dhcpd_allocipaddr(tab, clock) # {}
    BY <1>1 DEF Enough
<1> HIDE DEF P, tab, c
<1>4. \E o \in dhcpd_discover(tab, clock, m, s) : o.reply # {}
    BY <1>2, <1>3, OfferMade, Zenon DEF c
<1> QED
    BY <1>4 DEF Dispatch, tab

(* and a REQUEST of a client that it has an address for, with an ACK *)
LEMMA RequestAnswered ==
    ASSUME NetTyped, NEW s \in Servers, NEW m \in Asks, m.type = "REQUEST",
           m.serverid = s, m.reqip # 0, NEW ip \in net.pool[s],
           leases[s][ip].mac = m.mac
    PROVE  /\ \E o \in Dispatch(leases[s], clock, m, s) : o.reply # {}
           /\ \A o \in Dispatch(leases[s], clock, m, s) : \A r \in o.reply : r.type = "ACK"
<1> DEFINE P == net.pool[s]
           tab == leases[s]
<1>1. net \in Nets /\ m.mac \in net.clients
    BY DEF NetTyped, Asks
<1>2. P \in SUBSET Nat /\ tab \in [P -> Lease] /\ OneSlot(tab) /\ m.mac \in Mac /\ s # 0
    BY <1>1, NetFacts DEF NetTyped, Tables
<1>3. ip \in P /\ tab[ip].mac = m.mac
    OBVIOUS
<1>4. Dispatch(tab, clock, m, s) = dhcpd_request(tab, clock, m, s)
    BY Zenon DEF Dispatch
<1> HIDE DEF P, tab
<1>5. /\ \E o \in dhcpd_request(tab, clock, m, s) : o.reply # {}
      /\ \A o \in dhcpd_request(tab, clock, m, s) : \A r \in o.reply : r.type = "ACK"
    BY <1>2, <1>3, AckMade
<1> QED
    BY <1>4, <1>5 DEF tab

(* The socket of the server once the first message is taken *)
LEMMA FirstTaken ==
    ASSUME NetTyped, NEW s \in Servers, CalmServer(s), 1 \in DOMAIN sock[s],
           sock'[s] = Taken(s, 1)[s]
    PROVE  /\ OneEach(s)
           /\ \A j \in DOMAIN sock'[s] : sock'[s][j].mac # sock[s][1].mac
           /\ \A d : d # sock[s][1].mac => SameMail(d, s)
<1>1. net \in Nets /\ Sockets(sock) /\ sock[s] \in Seq(Asks)
    BY Zenon DEF NetTyped, Sockets
<1> DEFINE q == Taken(s, 1)
           n == Len(sock[s])
<1>2. /\ Sockets(q) /\ Len(q[s]) = n - 1
      /\ \A j \in 1 .. n - 1 : q[s][j] = sock[s][IF j < 1 THEN j ELSE j + 1]
    BY <1>1, TakeOne
<1>3. n \in Nat /\ DOMAIN sock[s] = 1 .. n /\ n >= 1
    BY <1>1
<1> HIDE DEF q, n
<1>4. q[s] \in Seq(Asks)
    BY <1>2 DEF Sockets
<1>5. /\ DOMAIN sock'[s] = 1 .. n - 1
      /\ \A j \in 1 .. n - 1 : sock'[s][j] = sock[s][j + 1] /\ j + 1 \in 1 .. n /\ j + 1 # 1
    BY <1>2, <1>3, <1>4 DEF q
<1>6. \A i, j \in 1 .. n : sock[s][i].mac = sock[s][j].mac => i = j
    BY <1>3 DEF CalmServer
<1>7. OneEach(s)
  <2> SUFFICES ASSUME NEW i \in 1 .. n - 1, NEW j \in 1 .. n - 1,
                      sock'[s][i].mac = sock'[s][j].mac
               PROVE  i = j
    BY <1>5, Zenon DEF OneEach
  <2>1. i + 1 = j + 1
    BY <1>5, <1>6
  <2> QED
    BY <2>1
<1>8. \A j \in DOMAIN sock'[s] : sock'[s][j].mac # sock[s][1].mac
  <2> SUFFICES ASSUME NEW j \in 1 .. n - 1, sock'[s][j].mac = sock[s][1].mac PROVE FALSE
    BY <1>5, Zenon
  <2>1. 1 \in 1 .. n
    BY <1>3
  <2>2. sock[s][j + 1].mac = sock[s][1].mac /\ j + 1 \in 1 .. n /\ j + 1 # 1
    BY <1>5, Zenon
  <2> QED
    BY <1>6, <2>1, <2>2, Zenon
<1>9. ASSUME NEW d, d # sock[s][1].mac PROVE SameMail(d, s)
  <2>1. ASSUME NEW i \in 1 .. n, sock[s][i].mac = d
        PROVE  \E j \in 1 .. n - 1 : sock'[s][j] = sock[s][i]
    <3>1. i # 1
        BY <1>9, <2>1, Zenon
    <3>2. i - 1 \in 1 .. n - 1 /\ (i - 1) + 1 = i
        BY <1>3, <3>1
    <3> QED
        BY <1>5, <3>2
  <2> QED
    BY <1>3, <1>5, <2>1, Zenon DEF SameMail
<1> QED
    BY <1>7, <1>8, <1>9, Zenon

(* The client whose message is taken gets the answer it waits for *)
LEMMA ServedCalm ==
    ASSUME NetTyped, LInv, AmpleNets, Reliable, Enough, UNCHANGED net, NEW s \in Servers,
           CalmServer(s), NEW m \in Asks, NEW o \in Dispatch(leases[s], clock, m, s),
           Serves(s, m, o), NEW c \in net.clients, m.mac = c, CalmClient(c, s),
           Provides(c, s, m, o)
    PROVE  CalmClient(c, s)'
<1>1. /\ net \in Nets /\ clock \in Nat /\ Servers = {s} /\ Servers' = Servers
      /\ net.room \in Nat \ {0}
    BY NetFacts, AmpleFacts, SameNet, Zenon DEF NetTyped
<1>2. 1 \in DOMAIN sock[s] /\ m = sock[s][1] /\ UNCHANGED <<st, clock, acked>>
    BY Zenon DEF Serves
<1>3. /\ sock[c] = <<>> /\ m.xid = st[c].xid
      /\ \/ st[c].pc = "offer" /\ m.type = "DISCOVER"
         \/ st[c].pc = "ack" /\ m.type = "REQUEST" /\ m.reqip # 0
    BY <1>2, FirstAsk
<1> DEFINE answer == IF m.type = "DISCOVER" THEN "OFFER" ELSE "ACK"
<1>4. /\ \E other \in Dispatch(leases[s], clock, m, s) : other.reply # {}
      /\ \A r \in o.reply : r.type = answer
  <2>1. CASE m.type = "DISCOVER"
    <3>1. \A r \in o.reply : r.type = "OFFER"
        BY <2>1, Zenon DEF Provides, Replied
    <3> QED
        BY <2>1, <3>1, DiscoverAnswered
  <2>2. CASE st[c].pc = "ack" /\ m.type = "REQUEST" /\ m.reqip # 0
    <3>1. Requesting(c)
        BY <2>2, Zenon DEF LInv, Leased, Reliable
    <3>2. PICK ip \in net.pool[s] : RequestsFrom(c, s, ip)
        BY <1>1, <3>1, Zenon DEF Requesting
    <3>3. leases[s][ip].mac = c /\ m.serverid = s
        BY <1>2, <1>3, <2>2, <3>2, Zenon DEF RequestsFrom, Asked, Holds
    <3> QED
        BY <2>2, <3>3, RequestAnswered, Zenon
  <2> QED
    BY <1>3, <2>1, <2>2
<1> HIDE DEF answer
<1>5. o.reply # {}
    BY <1>4, Zenon DEF Serves, Reliable
<1>6. PICK r \in Answers(m.mac) :
        /\ o.reply = {r} /\ r.xid = m.xid
        /\ Len(sock[m.mac]) < net.room => sock'[m.mac] = Append(sock[m.mac], r)
    BY <1>5, Zenon DEF Serves
<1>7. Len(sock'[c]) = 1 /\ sock'[c][1] = r
  <2>1. Len(<<>>) = 0 /\ 0 < net.room
    BY <1>1
  <2>2. sock'[c] = Append(<<>>, r)
    BY <1>3, <1>6, <2>1, Zenon
  <2> QED
    BY <2>2
<1>8. \A j \in DOMAIN sock'[s] : sock'[s][j].mac # c
    BY <1>2, FirstTaken, Zenon DEF Serves
<1>9. ASSUME NEW ask PROVE Awaits(c, s, ask, answer)'
    BY <1>2, <1>3, <1>4, <1>6, <1>7, <1>8, Zenon DEF Awaits
<1>10. Stands(c, s)'
  <2> SUFFICES ASSUME acked[c].until > clock PROVE Holds(c, s, acked[c].ip)'
    BY <1>2, <1>3, Zenon DEF Stands, Waiting
  <2> DEFINE ip == acked[c].ip
  <2>1. ip \in net.pool[s] /\ leases[s][ip].mac = c /\ clock < leases[s][ip].expiry
    BY Zenon DEF CalmClient, Stands, Holds
  <2> HIDE DEF ip
  <2>2. clock < clock + LeaseTime
    BY <1>1, LeaseConfig
  <2>3. leases'[s][ip].mac = c /\ clock < leases'[s][ip].expiry
    BY <1>3, <2>1, <2>2, Zenon DEF Provides
  <2> QED
    BY <1>1, <1>2, <2>1, <2>3, Zenon DEF Holds, ip
<1> QED
    BY <1>2, <1>3, <1>9, <1>10, Zenon DEF CalmClient, Waiting, answer

(* The calm outlasts every message the server handles *)
LEMMA ServerCalm ==
    ASSUME NetTyped, LInv, AmpleNets, Reliable, Enough, UNCHANGED net, NEW s \in Servers,
           CalmServer(s), \A d \in net.clients : CalmClient(d, s), ServerReceives(s)
    PROVE  CalmServer(s)' /\ (\A d \in net.clients : CalmClient(d, s)') /\ UNCHANGED acked
<1>1. net \in Nets /\ clock \in Nat /\ Sockets(sock) /\ Tables
    BY DEF NetTyped
<1>2. PICK m \in Asks : \E o \in Dispatch(leases[s], clock, m, s) : Serves(s, m, o)
    BY <1>1, ServerStep
<1>3. PICK o \in Dispatch(leases[s], clock, m, s) : Serves(s, m, o)
    BY <1>2
<1> DEFINE c == m.mac
<1>4. c \in net.clients /\ m.mac = c
    BY Zenon DEF Asks
<1> HIDE DEF c
<1>5. 1 \in DOMAIN sock[s] /\ m = sock[s][1] /\ UNCHANGED <<st, clock, acked>>
    BY <1>3, Zenon DEF Serves
<1>6. \/ m.type = "DISCOVER"
      \/ m.type = "REQUEST" /\ m.serverid # 0
  <2>1. m.type \in {"DISCOVER", "REQUEST"}
    BY <1>4, <1>5, FirstAsk
  <2>2. Numbered(c)
    BY <1>4, Zenon DEF LInv, Leased, Reliable
  <2> QED
    BY <1>4, <1>5, <2>1, <2>2, Zenon DEF Numbered
<1>7. Provides(c, s, m, o) /\ leases'[s] = o.leases
  <2>1. Provides(c, s, m, o)
    BY <1>1, <1>3, <1>4, <1>6, Provided, Zenon
  <2> QED
    BY <1>1, <1>3, <2>1, Zenon DEF Serves, Tables
<1>8. /\ OneEach(s)
      /\ \A d : d # c => SameMail(d, s)
    BY <1>3, <1>4, <1>5, FirstTaken, Zenon DEF Serves
<1>9. CalmServer(s)'
  <2>1. \A ip \in net.pool[s] : o.leases[ip] = leases[s][ip] \/ o.leases[ip].mac = c
    BY <1>1, <1>3, <1>4, <1>6, SlotsStay
  <2> QED
    BY <1>4, <1>7, <1>8, <2>1, Zenon DEF CalmServer, OneEach
<1>10. CalmClient(c, s)'
    BY <1>3, <1>4, <1>7, ServedCalm, Zenon
<1>11. ASSUME NEW d \in net.clients, d # c PROVE CalmClient(d, s)'
  <2>1. sock'[d] = sock[d]
    BY <1>1, <1>3, <1>4, <1>11, ServedSockets, Zenon
  <2>2. Kept(d)
    <3>1. Servers = {s}
        BY <1>1, AmpleFacts
    <3>2. \A ip \in net.pool[s] : Holds(d, s, ip) => leases'[s][ip] = leases[s][ip]
        BY <1>7, <1>11, Zenon DEF Provides
    <3> QED
        BY <1>5, <3>1, <3>2, Zenon DEF Kept
  <2>3. Apart(d, s)
    BY <1>5, <1>8, <1>11, <2>1, <2>2, Zenon DEF Apart
  <2> QED
    BY <2>3, ApartCalm, Zenon
<1> QED
    BY <1>5, <1>9, <1>10, <1>11, Zenon

(* The clock ticks only while no client is in an exchange *)
LEMMA TickCalm ==
    ASSUME NetTyped, Reliable, UNCHANGED net, Tick, NEW s \in Servers, NEW c \in net.clients,
           c \in Client, CalmClient(c, s), acked \in [Client -> [ip : Nat, until : Nat]]
    PROVE  CalmClient(c, s)'
<1>1. clock \in Nat /\ Tables /\ Servers' = Servers
    BY SameNet DEF NetTyped
<1>2. clock' = clock + 1 /\ UNCHANGED <<st, leases, sock, acked>>
    BY DEF Tick
<1>3. st[c].pc \notin Sending \cup Waiting
    BY Zenon DEF Tick, Urgent, Reliable
<1>4. Stands(c, s)'
  <2> DEFINE ip == acked[c].ip
             until == acked[c].until
  <2> SUFFICES ASSUME until > clock + 1
               PROVE  Holds(c, s, ip)' /\ until <= leases[s][ip].expiry
    BY <1>2 DEF Stands
  <2>1. until \in Nat
    OBVIOUS
  <2> HIDE DEF ip, until
  <2>2. until > clock
    BY <1>1, <2>1
  <2>3. Holds(c, s, ip) /\ until <= leases[s][ip].expiry
    BY <1>3, <2>2 DEF CalmClient, Stands, ip, until
  <2>4. leases[s] \in [net.pool[s] -> Lease] /\ ip \in net.pool[s]
    BY <1>1, <2>3 DEF Tables, Holds
  <2>5. leases[s][ip].expiry \in Nat
    BY <2>4, Zenon DEF Lease
  <2>6. clock + 1 < leases[s][ip].expiry
    BY <1>1, <2>1, <2>3, <2>5
  <2>7. Holds(c, s, ip)'
    BY <1>1, <1>2, <2>3, <2>6, Zenon DEF Holds, ip
  <2> QED
    BY <2>3, <2>7, Zenon
<1>5. Silence(c, s)'
    BY <1>2, <1>3, Zenon DEF CalmClient, Silence
<1> QED
    BY <1>2, <1>3, <1>4, <1>5, Zenon DEF CalmClient, Waiting

(* Before the first step all is calm *)
LEMMA InitCalm == ASSUME NetInit PROVE CalmInv
<1>1. /\ net \in Nets /\ clock = 0 /\ sock = [e \in net.clients \cup Servers |-> <<>>]
      /\ leases = [s \in Servers |-> [ip \in net.pool[s] |-> FreeLease]]
      /\ acked = [c \in Client |-> [ip |-> 0, until |-> 0]]
    BY Zenon DEF NetInit, WireInit
<1>2. net.clients \subseteq Client
    BY <1>1, NetFacts, Zenon
<1>3. \A c \in Client : st[c].pc = "idle" /\ ~st[c].cancel /\ st[c].caller = "free"
    BY DEF NetInit, ClientInit
<1>4. acked \in [Client -> [ip : Nat, until : Nat]]
    BY <1>1, Zenon
<1>5. ASSUME NEW s \in Servers PROVE CalmServer(s)
    BY <1>1 DEF CalmServer
<1>6. ASSUME NEW s \in Servers, NEW c \in net.clients PROVE CalmClient(c, s)
  <2>1. Silence(c, s)
    BY <1>1 DEF Silence
  <2>2. Stands(c, s)
    BY <1>1, <1>2 DEF Stands
  <2> QED
    BY <1>2, <1>3, <2>1, <2>2, Zenon DEF CalmClient
<1> QED
    BY <1>4, <1>5, <1>6, Zenon DEF CalmInv

(* The calm outlasts every step of the network *)
LEMMA NextCalm ==
    ASSUME AmpleNets, NetTyped, LInv, CalmInv, Reliable => Enough, NetNext
    PROVE  CalmInv'
<1>1. UNCHANGED net /\ Servers' = Servers /\ (Reliable' <=> Reliable)
    BY SameNet DEF NetNext, Reliable
<1>2. net \in Nets /\ net.clients \subseteq Client
    BY NetFacts DEF NetTyped
<1>3. acked \in [Client -> [ip : Nat, until : Nat]]
    BY DEF CalmInv
<1>4. acked' \in [Client -> [ip : Nat, until : Nat]]
  <2>1. CASE \E c \in net.clients :
               ClientRuns(c) \/ ClientAcked(c) \/ ClientFails(c) \/ ClientCaller(c)
    BY <1>1, <1>3, <2>1, AckedTyped, Zenon
  <2>2. CASE \/ \E s \in Servers : ServerReceives(s) \/ ServerRestarts(s)
             \/ Lose \/ Tick
    BY <1>3, <2>2, Zenon DEF ServerReceives, ServerRestarts, Lose, Tick
  <2> QED
    BY <2>1, <2>2, Zenon DEF NetNext
<1>5. ASSUME Reliable, NEW s \in Servers
      PROVE  CalmServer(s)' /\ \A c \in net.clients : CalmClient(c, s)'
  <2>1. CalmServer(s) /\ \A c \in net.clients : CalmClient(c, s)
    BY <1>5, Zenon DEF CalmInv
  <2>2. ASSUME NEW d \in net.clients,
               ClientRuns(d) \/ ClientAcked(d) \/ ClientFails(d) \/ ClientCaller(d)
        PROVE  CalmServer(s)' /\ \A c \in net.clients : CalmClient(c, s)'
    BY <1>1, <1>3, <1>5, <2>1, <2>2, ClientCalm, Zenon
  <2>3. ASSUME NEW e \in Servers, ServerReceives(e)
        PROVE  CalmServer(s)' /\ \A c \in net.clients : CalmClient(c, s)'
    <3>1. e = s
        BY <1>2, <1>5, AmpleFacts, Zenon
    <3> QED
        BY <1>1, <1>5, <2>1, <2>3, <3>1, ServerCalm, Zenon
  <2>4. CASE Tick
    <3>1. CalmServer(s)'
        BY <1>1, <2>1, <2>4, Zenon DEF CalmServer, Tick
    <3> QED
        BY <1>1, <1>2, <1>3, <1>5, <2>1, <2>4, <3>1, TickCalm, Zenon
  <2>5. ~Lose /\ \A e \in Servers : ~ServerRestarts(e)
    BY <1>5 DEF Lose, ServerRestarts, Reliable
  <2> QED
    BY <2>2, <2>3, <2>4, <2>5, Zenon DEF NetNext
<1> QED
    BY <1>1, <1>4, <1>5, Zenon DEF CalmInv

-----------------------------------------------------------------------------
(* The sizes of sets *)
Finite == INSTANCE FiniteSetTheorems

(* The library speaks of the same finite sets *)
LEMMA SameFinite == ASSUME NEW S PROVE Finite!IsFiniteSet(S) <=> IsFiniteSet(S)
  BY Zenon DEF Finite!IsFiniteSet, IsFiniteSet

(* and of the same sizes *)
LEMMA SameSize == ASSUME NEW S PROVE Finite!Cardinality(S) = Cardinality(S)
  BY Zenon DEF Finite!Cardinality, Cardinality

(* What is mapped one to one into a finite set, but not to its member c, is  *)
(* smaller than the set                                                      *)
LEMMA Fewer ==
    ASSUME NEW S, NEW T, IsFiniteSet(T), NEW c \in T, NEW f \in [S -> T \ {c}],
           \A i, j \in S : f[i] = f[j] => i = j
    PROVE  /\ Cardinality(S) \in Nat /\ Cardinality(T) \in Nat
           /\ Cardinality(S) < Cardinality(T)
<1> DEFINE U == T \ {c}
<1>1. f \in Finite!Injection(S, U)
    BY Zenon DEF Finite!Injection, Finite!IsInjective
<1>2. Finite!IsFiniteSet(T)
    BY SameFinite, Zenon
<1>3. Finite!IsFiniteSet(U) /\ Finite!Cardinality(U) = Finite!Cardinality(T) - 1
    BY <1>2, Finite!FS_RemoveElement, Zenon
<1> HIDE DEF U
<1>4. Finite!IsFiniteSet(S) /\ Finite!Cardinality(S) <= Finite!Cardinality(U)
    BY <1>1, <1>3, Finite!FS_Injection, Zenon
<1>5. Finite!Cardinality(S) \in Nat /\ Finite!Cardinality(T) \in Nat
    BY <1>2, <1>4, Finite!FS_CardinalityType, Zenon
<1>6. Finite!Cardinality(S) < Finite!Cardinality(T)
  <2>1. Finite!Cardinality(S) <= Finite!Cardinality(T) - 1
    BY <1>3, <1>4, Zenon
  <2> QED
    BY <1>5, <2>1, Order, Zenon
<1> QED
    BY <1>5, <1>6, SameSize, Zenon

(* Different messages that come from different clients, none of them from    *)
(* client c, are fewer than the clients                                      *)
LEMMA RoomLeft ==
    ASSUME NEW q \in Seq(Asks), IsFiniteSet(net.clients), NEW c \in net.clients,
           \A i, j \in DOMAIN q : q[i].mac = q[j].mac => i = j,
           \A j \in DOMAIN q : q[j].mac # c
    PROVE  Cardinality(net.clients) \in Nat /\ Len(q) < Cardinality(net.clients)
<1> DEFINE S == 1 .. Len(q)
           f == [j \in S |-> q[j].mac]
<1>1. Len(q) \in Nat /\ DOMAIN q = S /\ \A j \in S : q[j] \in Asks
    OBVIOUS
<1>2. \A j \in S : q[j].mac \in net.clients \ {c}
    BY <1>1, Zenon DEF Asks
<1>3. f \in [S -> net.clients \ {c}] /\ \A i, j \in S : f[i] = f[j] => i = j
    BY <1>1, <1>2
<1>4. Cardinality(S) = Len(q)
  <2>1. Finite!Cardinality(S) = IF 1 > Len(q) THEN 0 ELSE Len(q) - 1 + 1
    BY <1>1, Finite!FS_Interval
  <2>2. Finite!Cardinality(S) = Len(q)
    BY <1>1, <2>1
  <2> QED
    BY <2>2, SameSize, Zenon
<1> HIDE DEF S, f
<1> QED
    BY <1>3, <1>4, Fewer

(* A scan for something that is there finds it *)
LEMMA FirstFound ==
    ASSUME NEW S \in SUBSET Nat, S # {}
    PROVE  First(S) # {}
<1> DEFINE R == Finite!OpToRel(<, Nat)
<1>1. \A m, n \in Nat : m < n => <<m, n>> \in R
    BY DEF Finite!OpToRel
<1>2. Finite!IsWellFoundedOn(R, Nat)
    BY Finite!NatLessThanWellFounded, Zenon
<1> HIDE DEF R
<1>3. PICK n \in S : \A m \in S : <<m, n>> \notin R
    BY <1>2, Finite!WFMin, Zenon
<1>4. ASSUME NEW m \in S PROVE n <= m
  <2>1. ~(m < n)
    BY <1>1, <1>3, Zenon
  <2> QED
    BY <2>1
<1> QED
    BY <1>4, Zenon DEF First

(* A table whose slots belong to clients, one each, or are as good as new    *)
(* has an address for a client that has none                                 *)
LEMMA AddressLeft ==
    ASSUME NEW P \in SUBSET Nat, NEW tab \in [P -> Lease], OneSlot(tab),
           IsFiniteSet(net.clients), net.clients \subseteq Mac,
           Cardinality(net.clients) <= Cardinality(Usable(P)),
           \A ip \in P : tab[ip].mac \in net.clients \/ tab[ip] = FreeLease,
           NEW c \in net.clients, \A ip \in P : tab[ip].mac # c
    PROVE  dhcpd_allocipaddr(tab, clock) # {}
<1> DEFINE S == Usable(P)
           f == [ip \in S |-> tab[ip].mac]
<1>1. S \subseteq P /\ S \subseteq Nat
    BY Zenon DEF Usable
<1>2. \E ip \in S : tab[ip].mac \notin net.clients
  <2> SUFFICES ASSUME \A ip \in S : tab[ip].mac \in net.clients PROVE FALSE
    OBVIOUS
  <2>1. \A ip \in S : tab[ip].mac \in net.clients \ {c}
    BY <1>1
  <2>2. \A a, b \in S : tab[a].mac = tab[b].mac => a = b
    BY <1>1, LeaseConfig, Zenon DEF OneSlot
  <2>3. f \in [S -> net.clients \ {c}] /\ \A a, b \in S : f[a] = f[b] => a = b
    BY <2>1, <2>2, Zenon
  <2> HIDE DEF f
  <2>4. /\ Cardinality(S) \in Nat /\ Cardinality(net.clients) \in Nat
        /\ Cardinality(S) < Cardinality(net.clients)
    BY <2>3, Fewer, Zenon
  <2> QED
    BY <2>4
<1>3. PICK ip \in S : tab[ip] = FreeLease
    BY <1>1, <1>2, Zenon
<1>4. Available(tab, clock, ip)
    BY <1>3 DEF Available, dhcpd_findbyipaddr, FreeLease
<1> DEFINE Q == {a \in DOMAIN tab : a % 256 \notin {0, 255} /\ Available(tab, clock, a)}
<1>5. ip \in Q /\ Q \in SUBSET Nat
    BY <1>1, <1>4, Zenon DEF Usable
<1>6. dhcpd_allocipaddr(tab, clock) = First(Q)
    BY Zenon DEF dhcpd_allocipaddr
<1> HIDE DEF Q
<1> QED
    BY <1>5, <1>6, FirstFound, Zenon

(* A reliable network has enough for all *)
LEMMA EnoughLeft == ASSUME NetTyped, AmpleNets, Reliable PROVE Enough
<1> SUFFICES ASSUME NEW s \in Servers, NEW c \in net.clients, CalmServer(s)
             PROVE  /\ Silence(c, s) => Len(sock[s]) < net.room
                    /\ \/ \E ip \in net.pool[s] : leases[s][ip].mac = c
                       \/ dhcpd_allocipaddr(leases[s], clock) # {}
    BY DEF Enough
<1>1. /\ net \in Nets /\ sock[s] \in Seq(Asks) /\ Len(sock[s]) \in Nat
      /\ net.room \in Nat /\ IsFiniteSet(net.clients)
      /\ Cardinality(net.clients) <= net.room
      /\ Cardinality(net.clients) <= Cardinality(Usable(net.pool[s]))
  <2>1. net \in Nets /\ sock[s] \in Seq(Asks)
    BY Zenon DEF NetTyped, Sockets
  <2>2. Len(sock[s]) \in Nat
    BY <2>1
  <2>3. /\ net.room \in Nat /\ IsFiniteSet(net.clients)
        /\ Cardinality(net.clients) <= net.room
        /\ Cardinality(net.clients) <= Cardinality(Usable(net.pool[s]))
    BY <2>1, AmpleFacts, NetFacts, Zenon
  <2> QED
    BY <2>1, <2>2, <2>3, Zenon
<1>2. ASSUME Silence(c, s) PROVE Len(sock[s]) < net.room
  <2>1. Cardinality(net.clients) \in Nat /\ Len(sock[s]) < Cardinality(net.clients)
    BY <1>1, <1>2, RoomLeft, Zenon DEF CalmServer, Silence
  <2> QED
    BY <1>1, <2>1, Order, Zenon
<1>3. ASSUME \A ip \in net.pool[s] : leases[s][ip].mac # c
      PROVE  dhcpd_allocipaddr(leases[s], clock) # {}
  <2> DEFINE P == net.pool[s]
             tab == leases[s]
  <2>1. /\ P \in SUBSET Nat /\ tab \in [P -> Lease] /\ OneSlot(tab)
        /\ net.clients \subseteq Mac
    BY <1>1, NetFacts, Zenon DEF NetTyped, Tables
  <2>2. /\ \A ip \in P : tab[ip].mac \in net.clients \/ tab[ip] = FreeLease
        /\ \A ip \in P : tab[ip].mac # c
    BY <1>3, Zenon DEF CalmServer
  <2> HIDE DEF P, tab
  <2>3. Cardinality(net.clients) <= Cardinality(Usable(P))
    BY <1>1, Zenon DEF P
  <2>4. dhcpd_allocipaddr(tab, clock) # {}
    BY <1>1, <2>1, <2>2, <2>3, AddressLeft, Zenon
  <2> QED
    BY <2>4, Zenon DEF tab
<1> QED
    BY <1>2, <1>3, Zenon

-----------------------------------------------------------------------------
(* The network stays calm *)
LEMMA NetAlwaysCalm ==
    ASSUME MaxXid \in 0 .. XidMod - 1, AmpleNets
    PROVE  NetInit /\ [][NetNext]_<<net, vars>> => []CalmInv
<1>1. NetInit => CalmInv
    BY InitCalm
<1>2. NetTyped /\ LInv /\ CalmInv /\ [NetNext]_<<net, vars>> => CalmInv'
  <2> SUFFICES ASSUME NetTyped, LInv, CalmInv, [NetNext]_<<net, vars>> PROVE CalmInv'
    OBVIOUS
  <2>1. CASE NetNext
    BY <2>1, EnoughLeft, NextCalm, Zenon
  <2>2. CASE UNCHANGED <<net, vars>>
    <3>1. UNCHANGED <<net, st, leases, sock, clock, acked>>
        BY <2>2, Zenon DEF vars
    <3>2. Servers' = Servers /\ (Reliable' <=> Reliable)
        BY <3>1, SameNet, Zenon DEF Reliable
    <3>3. ASSUME NEW s \in Servers, CalmServer(s) PROVE CalmServer(s)'
        BY <3>1, <3>3, Zenon DEF CalmServer
    <3>4. ASSUME NEW s \in Servers, NEW c, CalmClient(c, s) PROVE CalmClient(c, s)'
      <4>1. SameMail(c, s)
        BY <3>1, Zenon DEF SameMail
      <4>2. Apart(c, s)
        BY <3>1, <4>1, Zenon DEF Apart, Kept
      <4> QED
        BY <3>1, <3>4, <4>2, ApartCalm, Zenon
    <3> QED
        BY <3>1, <3>2, <3>3, <3>4, Zenon DEF CalmInv
  <2> QED
    BY <2>1, <2>2, Zenon
<1> QED
    BY <1>1, <1>2, NetAlwaysTyped, NetAlwaysLeased, PTL

(* On a reliable network with one server that has an address for every       *)
(* client and room for a message of each, whatever the times and the order   *)
(* in which clients start, renew and are served: every dhcpc_request         *)
(* succeeds.  No DISCOVER is dropped or left without an OFFER, no REQUEST is *)
(* answered with a NAK, and no recv() times out.  Transaction ids must not   *)
(* come round.                                                               *)
THEOREM NetExchangeSucceeds ==
    ASSUME MaxXid \in 0 .. XidMod - 1, AmpleNets
    PROVE  NetInit /\ [][NetNext]_<<net, vars>> => []ExchangeSucceeds
<1>1. NetTyped /\ CalmInv => ExchangeSucceeds
  <2> SUFFICES ASSUME NetTyped, CalmInv, Reliable, NEW c \in net.clients,
                      st[c].pc = "callback"
               PROVE  st[c].ok
    BY Zenon DEF ExchangeSucceeds
  <2>1. PICK s \in Servers : TRUE
    BY DEF NetTyped, Reliable, AmpleNets, Ample, Servers
  <2> QED
    BY <2>1, Zenon DEF CalmInv, CalmClient
<1> QED
    BY <1>1, NetAlwaysTyped, NetAlwaysCalm, PTL

(* On such a network no two clients whose ACKed leases are both in force     *)
(* have the same address on their interfaces: as long as a client may use    *)
(* the address it was ACKed, the one slot of the server for that address is  *)
(* the client's, also while it renews its lease or starts over.              *)
THEOREM NetNoSharedAddress ==
    ASSUME MaxXid \in 0 .. XidMod - 1, AmpleNets
    PROVE  NetInit /\ [][NetNext]_<<net, vars>> => []NoSharedAddress
<1>1. NetTyped /\ CalmInv => NoSharedAddress
  <2> SUFFICES ASSUME NetTyped, CalmInv, Reliable, NEW c \in net.clients,
                      NEW d \in net.clients,
                      \A x \in {c, d} : st[x].ifaddr = acked[x].ip /\ acked[x].until > clock,
                      st[c].ifaddr = st[d].ifaddr
               PROVE  c = d
    BY Zenon DEF NoSharedAddress
  <2>1. PICK s \in Servers : TRUE
    BY Zenon DEF NetTyped, Reliable, AmpleNets, Ample, Servers
  <2>2. Stands(c, s) /\ Stands(d, s)
    BY <2>1, Zenon DEF CalmInv, CalmClient
  <2>3. leases[s][acked[c].ip].mac = c /\ leases[s][acked[d].ip].mac = d
    BY <2>2, Zenon DEF Stands, Holds
  <2>4. acked[c].ip = acked[d].ip
    OBVIOUS
  <2> QED
    BY <2>3, <2>4, Zenon
<1> QED
    BY <1>1, NetAlwaysTyped, NetAlwaysCalm, PTL
=============================================================================
