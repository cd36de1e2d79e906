------------------------- MODULE DhcpNetLeaseProofs -------------------------
(***************************************************************************)
(* Proof that the address of a client that sleeps on its lease is reserved *)
(* for it, whatever the network loses or delays and whoever cancels, where *)
(* an exchange is over before the clock ticks, nothing but the network     *)
(* fails and transaction ids do not come round.                            *)
(***************************************************************************)
EXTENDS DhcpNetProofs

(* Server s has the address ip reserved for client c, now *)
Holds(c, s, ip) ==
    /\ s \in Servers
    /\ ip \in net.pool[s]
    /\ leases[s][ip].mac = c
    /\ clock < leases[s][ip].expiry

(* A message of client c of that type waits at server s *)
Pending(c, s, type) ==
    \E j \in DOMAIN sock[s] : sock[s][j].mac = c /\ sock[s][j].type = type

(* No message of client c of type "then" waits at server s behind one of     *)
(* type "first" of the current exchange                                      *)
Before(c, s, first, then) ==
    \A j, k \in DOMAIN sock[s] :
      /\ j < k /\ sock[s][j].mac = c /\ sock[s][k].mac = c
      /\ sock[s][j].xid = st[c].xid /\ sock[s][j].type = first
      => sock[s][k].type # then

(* Transaction ids only grow, and requests name a server *)
Numbered(c) ==
    /\ \A s \in Servers : \A j \in DOMAIN sock[s] :
         sock[s][j].mac = c => /\ sock[s][j].xid <= st[c].xid
                               /\ sock[s][j].type = "REQUEST"
                                    => sock[s][j].serverid # 0
    /\ \A i \in DOMAIN sock[c] : sock[c][i].xid <= st[c].xid

(* The address that the OFFER r names is reserved for client c *)
Promised(c, r) ==
    \E s \in Servers : \E ip \in net.pool[s] :
      /\ r.serverid = s /\ r.yiaddr = ip
      /\ Holds(c, s, ip) /\ ~Pending(c, s, "DECLINE")

(* An exchange up to the first OFFER *)
Discovering(c) ==
    /\ \A s \in Servers :
         /\ \A j \in DOMAIN sock[s] :
              sock[s][j].mac = c /\ sock[s][j].type = "REQUEST"
                => sock[s][j].xid # st[c].xid
         /\ Before(c, s, "DISCOVER", "DECLINE")
    /\ \A i \in DOMAIN sock[c] : sock[c][i].xid = st[c].xid =>
         /\ sock[c][i].type # "ACK"
         /\ sock[c][i].type = "OFFER" => Promised(c, sock[c][i])

(* Client c has asked server s for the address ip, which is reserved for it; *)
(* once there is an ACK, the lease lasts a lease time from now and nothing   *)
(* that c has sent will cut it                                               *)
Asked(c, s, ip) ==
    /\ Holds(c, s, ip)
    /\ ~Pending(c, s, "DECLINE")
    /\ Before(c, s, "REQUEST", "DISCOVER")
    /\ \A e \in Servers : \A j \in DOMAIN sock[e] :
         /\ sock[e][j].mac = c /\ sock[e][j].type = "REQUEST"
         /\ sock[e][j].xid = st[c].xid
         => sock[e][j].serverid = s
    /\ \A i \in DOMAIN sock[c] :
         sock[c][i].xid = st[c].xid /\ sock[c][i].type = "ACK" =>
           /\ sock[c][i].yiaddr = ip
           /\ sock[c][i].leasetime = LeaseTime
           /\ leases[s][ip].expiry >= clock + LeaseTime
           /\ ~Pending(c, s, "DISCOVER")

(* From the OFFER to the ACK *)
RequestsFrom(c, s, ip) ==
    /\ st[c].chosen.serverid = s /\ st[c].chosen.ipaddr = ip /\ st[c].ifaddr = ip
    /\ Asked(c, s, ip)

Requesting(c) == \E s \in Servers : \E ip \in net.pool[s] : RequestsFrom(c, s, ip)

(* Server s has leased ip to client c, and nothing that c has sent will cut  *)
(* the lease                                                                 *)
Secure(c, s, ip) ==
    /\ Holds(c, s, ip)
    /\ ~Pending(c, s, "DECLINE")
    /\ ~Pending(c, s, "DISCOVER")

(* From the ACK until the client starts over *)
BoundTo(c, s, ip) ==
    /\ st[c].chosen.serverid = s /\ st[c].ifaddr = ip
    /\ Secure(c, s, ip)
    /\ st[c].presult.ipaddr = ip
    /\ st[c].presult.lease_time = LeaseTime
    /\ st[c].pc # "sleep" => leases[s][ip].expiry >= clock + LeaseTime
    /\ st[c].pc = "sleep" => /\ clock <= st[c].wake
                             /\ st[c].wake < leases[s][ip].expiry
                             /\ st[c].wake < clock + LeaseTime

Bound(c) == \E s \in Servers : \E ip \in net.pool[s] : BoundTo(c, s, ip)

Confirmed(c) ==
    \/ st[c].pc = "callback" /\ st[c].ok
    \/ st[c].pc \in {"nap", "sleep"}

(* The inductive invariant behind BoundLeaseHeld *)
Leased(c) ==
    /\ Numbered(c)
    /\ st[c].pc \in {"discover", "offer"} => Discovering(c)
    /\ st[c].pc \in {"request", "ack"} => Requesting(c)
    /\ Confirmed(c) => Bound(c)

LInv == net.quick /\ net.faults = {} => \A c \in net.clients : Leased(c)

(* The messages of client c at server s are those of before the step, in     *)
(* their order, and after them at most one of the set "new"                  *)
Behind(c, s, new) ==
    /\ \A j \in DOMAIN sock'[s] : sock'[s][j].mac = c =>
         sock'[s][j] \in new \/ \E i \in DOMAIN sock[s] : sock'[s][j] = sock[s][i]
    /\ \A j, k \in DOMAIN sock'[s] :
         j < k /\ sock'[s][j].mac = c /\ sock'[s][k].mac = c =>
           \/ sock'[s][k] \in new
           \/ \E i, l \in DOMAIN sock[s] :
                i < l /\ sock'[s][j] = sock[s][i] /\ sock'[s][k] = sock[s][l]

(* What client c holds stays as it is *)
Kept(c) ==
    /\ clock' = clock
    /\ \A s \in Servers : \A ip \in net.pool[s] :
         Holds(c, s, ip) => leases'[s][ip] = leases[s][ip]

(* Sockets that only lose messages, or get those of others *)
LEMMA FlowBehind ==
    ASSUME NEW c, NEW s, NEW new, Flow(sock'[s], sock[s], new)
    PROVE  /\ Behind(c, s, new)
           /\ (\A m \in new : m.mac # c) => Behind(c, s, {})
<1>1. Behind(c, s, new)
    BY Zenon DEF Flow, Behind
<1>2. ASSUME \A m \in new : m.mac # c PROVE Behind(c, s, {})
    BY <1>2, Zenon DEF Flow, Behind
<1> QED
    BY <1>1, <1>2

(* No message of a kind appears that is not sent *)
LEMMA PendingStays ==
    ASSUME NEW c, NEW s, NEW new, Behind(c, s, new), NEW type,
           \A m \in new : m.type # type, ~Pending(c, s, type)
    PROVE  ~Pending(c, s, type)'
    BY Zenon DEF Behind, Pending

(* and none gets ahead of another *)
LEMMA BeforeStays ==
    ASSUME NEW c, NEW s, NEW new, Behind(c, s, new), NEW first, NEW then,
           \A m \in new : m.type # then, st'[c].xid = st[c].xid,
           Before(c, s, first, then)
    PROVE  Before(c, s, first, then)'
<1> SUFFICES ASSUME NEW j \in DOMAIN sock'[s], NEW k \in DOMAIN sock'[s], j < k,
                    sock'[s][j].mac = c, sock'[s][k].mac = c,
                    sock'[s][j].xid = st[c].xid, sock'[s][j].type = first
             PROVE  sock'[s][k].type # then
    BY DEF Before
<1>1. CASE sock'[s][k] \in new
    BY <1>1
<1>2. CASE \E i, l \in DOMAIN sock[s] :
             i < l /\ sock'[s][j] = sock[s][i] /\ sock'[s][k] = sock[s][l]
    BY <1>2, Zenon DEF Before
<1> QED
    BY <1>1, <1>2, Zenon DEF Behind

(* A lease of c is where it was *)
LEMMA HoldsStays ==
    ASSUME UNCHANGED net, NEW c, Kept(c), NEW s, NEW ip, Holds(c, s, ip)
    PROVE  Holds(c, s, ip)' /\ leases'[s][ip] = leases[s][ip] /\ clock' = clock
    BY DEF Kept, Holds, Servers

(* Nothing of client c's is touched *)
Undisturbed(c) ==
    /\ Kept(c)
    /\ st'[c].xid = st[c].xid
    /\ \A s \in Servers : Behind(c, s, {})
    /\ Flow(sock'[c], sock[c], {})

(* What is sent carries the id of the exchange *)
LEMMA NumberedAfter ==
    ASSUME UNCHANGED net, NEW c, Numbered(c), st'[c].xid = st[c].xid, NEW new,
           \A s \in Servers : Behind(c, s, new),
           \A m \in new : /\ m.xid <= st[c].xid
                          /\ m.type = "REQUEST" => m.serverid # 0,
           \A i \in DOMAIN sock'[c] : sock'[c][i].xid <= st[c].xid
    PROVE  Numbered(c)'
<1>1. Servers' = Servers
    BY SameNet
<1>2. ASSUME NEW s \in Servers, NEW j \in DOMAIN sock'[s], sock'[s][j].mac = c
      PROVE  /\ sock'[s][j].xid <= st[c].xid
             /\ sock'[s][j].type = "REQUEST" => sock'[s][j].serverid # 0
  <2>1. sock'[s][j] \in new \/ \E i \in DOMAIN sock[s] : sock'[s][j] = sock[s][i]
    BY <1>2, Zenon DEF Behind
  <2> QED
    BY <1>2, <2>1, Zenon DEF Numbered
<1> QED
    BY <1>1, <1>2, Zenon DEF Numbered

(* Nothing that a client waits for the OFFER of gets lost *)
LEMMA DiscoveringAfter ==
    ASSUME UNCHANGED net, NEW c, Discovering(c), st'[c].xid = st[c].xid,
           NEW new, \A s \in Servers : Behind(c, s, new),
           \A m \in new : m.type \notin {"REQUEST", "DECLINE"},
           \A s \in Servers : \A ip \in net.pool[s] :
             Holds(c, s, ip) /\ ~Pending(c, s, "DECLINE") => Holds(c, s, ip)',
           NEW got, Flow(sock'[c], sock[c], got),
           \A r \in got : r.xid = st[c].xid =>
             r.type # "ACK" /\ (r.type = "OFFER" => Promised(c, r)')
    PROVE  Discovering(c)'
<1>1. Servers' = Servers
    BY SameNet
<1>2. ASSUME NEW s \in Servers, NEW j \in DOMAIN sock'[s],
             sock'[s][j].mac = c, sock'[s][j].type = "REQUEST"
      PROVE  sock'[s][j].xid # st[c].xid
  <2>1. PICK i \in DOMAIN sock[s] : sock'[s][j] = sock[s][i]
    BY <1>2 DEF Behind
  <2> QED
    BY <1>2, <2>1, Zenon DEF Discovering
<1>3. ASSUME NEW s \in Servers PROVE Before(c, s, "DISCOVER", "DECLINE")'
  <2>1. Behind(c, s, new) /\ Before(c, s, "DISCOVER", "DECLINE")
    BY DEF Discovering
  <2>2. \A m \in new : m.type # "DECLINE"
    OBVIOUS
  <2> QED
    BY <2>1, <2>2, BeforeStays
<1>4. ASSUME NEW r, Promised(c, r) PROVE Promised(c, r)'
  <2>1. PICK s \in Servers : \E ip \in net.pool[s] :
          r.serverid = s /\ r.yiaddr = ip /\ Holds(c, s, ip) /\ ~Pending(c, s, "DECLINE")
    BY <1>4 DEF Promised
  <2>2. \A m \in new : m.type # "DECLINE"
    OBVIOUS
  <2>3. ~Pending(c, s, "DECLINE")'
    BY <2>1, <2>2, PendingStays
  <2> QED
    BY <1>1, <2>1, <2>3 DEF Promised
<1>5. ASSUME NEW r, r.xid = st[c].xid, \E i \in DOMAIN sock'[c] : r = sock'[c][i]
      PROVE  r.type # "ACK" /\ (r.type = "OFFER" => Promised(c, r)')
  <2>1. r \in got \/ \E j \in DOMAIN sock[c] : r = sock[c][j]
    BY <1>5, Zenon DEF Flow
  <2> QED
    BY <1>4, <1>5, <2>1, Zenon DEF Discovering
<1>6. ASSUME NEW i \in DOMAIN sock'[c], sock'[c][i].xid = st[c].xid
      PROVE  /\ sock'[c][i].type # "ACK"
             /\ sock'[c][i].type = "OFFER" => Promised(c, sock[c][i])'
  <2>1. sock'[c][i].type # "ACK"
    BY <1>5, <1>6, Zenon
  <2>2. ASSUME sock'[c][i].type = "OFFER" PROVE Promised(c, sock[c][i])'
    BY <1>5, <1>6, <2>2, Zenon DEF Promised
  <2> QED
    BY <2>1, <2>2
<1> QED
    BY <1>1, <1>2, <1>3, <1>6, Zenon DEF Discovering

(* Nothing that a client waits for the ACK of gets lost *)
LEMMA AskedAfter ==
    ASSUME UNCHANGED net, NEW c, NEW s \in Servers, NEW ip, Asked(c, s, ip),
           st'[c].xid = st[c].xid,
           NEW new, \A e \in Servers : Behind(c, e, new),
           \A m \in new : /\ m.type # "DISCOVER"
                          /\ m.type = "REQUEST" => m.serverid = s,
           Holds(c, s, ip)', ~Pending(c, s, "DECLINE")',
           /\ leases[s][ip].expiry >= clock + LeaseTime
           /\ ~Pending(c, s, "DISCOVER")
           => leases'[s][ip].expiry >= clock' + LeaseTime,
           NEW got, Flow(sock'[c], sock[c], got),
           \A r \in got : r.xid = st[c].xid /\ r.type = "ACK" =>
             /\ r.yiaddr = ip /\ r.leasetime = LeaseTime
             /\ leases'[s][ip].expiry >= clock' + LeaseTime
             /\ ~Pending(c, s, "DISCOVER")'
    PROVE  Asked(c, s, ip)'
<1>1. Servers' = Servers
    BY SameNet
<1>2. Before(c, s, "REQUEST", "DISCOVER")'
  <2>1. Behind(c, s, new) /\ Before(c, s, "REQUEST", "DISCOVER")
    BY DEF Asked
  <2>2. \A m \in new : m.type # "DISCOVER"
    OBVIOUS
  <2> QED
    BY <2>1, <2>2, BeforeStays
<1>3. ASSUME NEW e \in Servers, NEW j \in DOMAIN sock'[e], sock'[e][j].mac = c,
             sock'[e][j].type = "REQUEST", sock'[e][j].xid = st[c].xid
      PROVE  sock'[e][j].serverid = s
  <2>1. sock'[e][j] \in new \/ \E i \in DOMAIN sock[e] : sock'[e][j] = sock[e][i]
    BY <1>3, Zenon DEF Behind
  <2> QED
    BY <1>3, <2>1, Zenon DEF Asked
<1>4. ~Pending(c, s, "DISCOVER") => ~Pending(c, s, "DISCOVER")'
  <2>1. \A m \in new : m.type # "DISCOVER"
    OBVIOUS
  <2> QED
    BY <2>1, PendingStays
<1>5. ASSUME NEW i \in DOMAIN sock'[c], sock'[c][i].xid = st[c].xid, sock'[c][i].type = "ACK"
      PROVE  /\ sock'[c][i].yiaddr = ip /\ sock'[c][i].leasetime = LeaseTime
             /\ leases'[s][ip].expiry >= clock' + LeaseTime
             /\ ~Pending(c, s, "DISCOVER")'
  <2>1. CASE sock'[c][i] \in got
    BY <1>5, <2>1
  <2>2. CASE \E j \in DOMAIN sock[c] : sock'[c][i] = sock[c][j]
    <3>1. PICK j \in DOMAIN sock[c] : sock'[c][i] = sock[c][j]
        BY <2>2
    <3>2. /\ sock[c][j].yiaddr = ip /\ sock[c][j].leasetime = LeaseTime
          /\ leases[s][ip].expiry >= clock + LeaseTime
          /\ ~Pending(c, s, "DISCOVER")
        BY <1>5, <3>1, Zenon DEF Asked
    <3> QED
        BY <1>4, <3>1, <3>2, Zenon
  <2> QED
    BY <2>1, <2>2, Zenon DEF Flow
<1> QED
    BY <1>1, <1>2, <1>3, <1>5, Zenon DEF Asked

(* Undisturbed, c keeps the numbering of its messages *)
LEMMA NumberedStays ==
    ASSUME UNCHANGED net, NEW c, Undisturbed(c), Numbered(c)
    PROVE  Numbered(c)'
<1>1. \A i \in DOMAIN sock'[c] : sock'[c][i].xid <= st[c].xid
    BY Zenon DEF Undisturbed, Flow, Numbered
<1> QED
    BY <1>1, NumberedAfter DEF Undisturbed

(* Undisturbed, c is still between DISCOVER and OFFER *)
LEMMA DiscoveringStays ==
    ASSUME UNCHANGED net, NEW c, Undisturbed(c), Discovering(c)
    PROVE  Discovering(c)'
<1>1. \A s \in Servers : \A ip \in net.pool[s] : Holds(c, s, ip) => Holds(c, s, ip)'
    BY HoldsStays DEF Undisturbed
<1> QED
    BY <1>1, DiscoveringAfter DEF Undisturbed

(* Undisturbed, a question of c still finds its slot *)
LEMMA AskedStays ==
    ASSUME UNCHANGED net, NEW c, Undisturbed(c), NEW s \in Servers, NEW ip, Asked(c, s, ip)
    PROVE  Asked(c, s, ip)'
<1>1. Holds(c, s, ip) /\ ~Pending(c, s, "DECLINE")
    BY DEF Asked
<1>2. Holds(c, s, ip)' /\ leases'[s][ip] = leases[s][ip] /\ clock' = clock
    BY <1>1, HoldsStays DEF Undisturbed
<1>3. ~Pending(c, s, "DECLINE")'
    BY <1>1, PendingStays DEF Undisturbed
<1> QED
    BY <1>2, <1>3, AskedAfter DEF Undisturbed

(* A slot out of the reach of old messages stays so *)
LEMMA SecureStays ==
    ASSUME UNCHANGED net, NEW c, Kept(c), NEW s, NEW ip, Behind(c, s, {}), Secure(c, s, ip)
    PROVE  Secure(c, s, ip)' /\ leases'[s][ip] = leases[s][ip] /\ clock' = clock
<1>1. Holds(c, s, ip) /\ ~Pending(c, s, "DECLINE") /\ ~Pending(c, s, "DISCOVER")
    BY DEF Secure
<1> QED
    BY <1>1, HoldsStays, PendingStays DEF Secure

(* Undisturbed, c still requests an address that is set aside for it *)
LEMMA RequestingStays ==
    ASSUME UNCHANGED net, NEW c, Undisturbed(c), Requesting(c),
           st'[c].chosen = st[c].chosen, st'[c].ifaddr = st[c].ifaddr
    PROVE  Requesting(c)'
<1>1. PICK s \in Servers : \E ip \in net.pool[s] : RequestsFrom(c, s, ip)
    BY DEF Requesting
<1>2. PICK ip \in net.pool[s] : RequestsFrom(c, s, ip)
    BY <1>1
<1>3. Asked(c, s, ip)'
    BY <1>2, AskedStays DEF RequestsFrom
<1>4. RequestsFrom(c, s, ip)'
    BY <1>2, <1>3 DEF RequestsFrom
<1> QED
    BY <1>4, SameNet DEF Requesting

(* Undisturbed, the address of c is still leased to it *)
LEMMA BoundStays ==
    ASSUME UNCHANGED net, NEW c, Undisturbed(c), Bound(c),
           st'[c].chosen = st[c].chosen, st'[c].ifaddr = st[c].ifaddr,
           st'[c].presult = st[c].presult,
           \/ st[c].pc # "sleep" /\ st'[c].pc # "sleep"
           \/ st[c].pc = "sleep" /\ st'[c].pc = "sleep" /\ st'[c].wake = st[c].wake
    PROVE  Bound(c)'
<1>1. PICK s \in Servers : \E ip \in net.pool[s] : BoundTo(c, s, ip)
    BY DEF Bound
<1>2. PICK ip \in net.pool[s] : BoundTo(c, s, ip)
    BY <1>1
<1>3. Secure(c, s, ip)' /\ leases'[s][ip] = leases[s][ip] /\ clock' = clock
    BY <1>2, SecureStays DEF Undisturbed, BoundTo
<1>4. BoundTo(c, s, ip)'
    BY <1>2, <1>3 DEF BoundTo
<1> QED
    BY <1>4, SameNet DEF Bound

(* The phase of the exchange that client c is in is not a new one *)
SamePhase(c) ==
    /\ st'[c].pc \in {"discover", "offer"} => st[c].pc \in {"discover", "offer"}
    /\ st'[c].pc \in {"request", "ack"} =>
         /\ st[c].pc \in {"request", "ack"}
         /\ st'[c].chosen = st[c].chosen /\ st'[c].ifaddr = st[c].ifaddr
    /\ Confirmed(c)' =>
         /\ Confirmed(c)
         /\ st'[c].chosen = st[c].chosen /\ st'[c].ifaddr = st[c].ifaddr
         /\ st'[c].presult = st[c].presult
         /\ \/ st[c].pc # "sleep" /\ st'[c].pc # "sleep"
            \/ st[c].pc = "sleep" /\ st'[c].pc = "sleep" /\ st'[c].wake = st[c].wake

(* Undisturbed and in the same phase, c keeps all of this *)
LEMMA LeasedStays ==
    ASSUME UNCHANGED net, NEW c, Undisturbed(c), SamePhase(c), Leased(c)
    PROVE  Leased(c)'
<1>1. Numbered(c)'
    BY NumberedStays DEF Leased
<1>2. st'[c].pc \in {"discover", "offer"} => Discovering(c)'
    BY DiscoveringStays DEF Leased, SamePhase
<1>3. st'[c].pc \in {"request", "ack"} => Requesting(c)'
    BY RequestingStays DEF Leased, SamePhase
<1>4. Confirmed(c)' => Bound(c)'
    BY BoundStays DEF Leased, SamePhase
<1> QED
    BY <1>1, <1>2, <1>3, <1>4 DEF Leased

-----------------------------------------------------------------------------
(* A client that neither sends nor receives, or only receives *)
LEMMA QuietStep ==
    ASSUME UNCHANGED <<leases, clock, sock>>, NEW c, st'[c].xid = st[c].xid
    PROVE  Undisturbed(c)
<1>1. Kept(c)
    BY DEF Kept
<1>2. \A e : Flow(sock'[e], sock[e], {})
    BY FlowStays
<1> QED
    BY <1>1, <1>2, FlowBehind DEF Undisturbed

(* A client that takes a message disturbs nothing of its own *)
LEMMA TakesStep ==
    ASSUME net \in Nets, Sockets(sock), UNCHANGED <<leases, clock>>, NEW c \in net.clients,
           NEW i \in DOMAIN sock[c], sock' = Taken(c, i), st'[c].xid = st[c].xid
    PROVE  Undisturbed(c)
<1>1. Kept(c)
    BY DEF Kept
<1>2. /\ Flow(sock'[c], sock[c], {})
      /\ \A d \in net.clients \cup Servers : d # c => sock'[d] = sock[d]
    BY TakeOne
<1>3. \A s \in Servers : s # c
    BY NetFacts
<1>4. \A s \in Servers : Flow(sock'[s], sock[s], {})
    BY <1>2, <1>3, FlowStays
<1>5. \A s \in Servers : Behind(c, s, {})
    BY <1>4, FlowBehind
<1> QED
    BY <1>1, <1>2, <1>5 DEF Undisturbed

(* A new exchange begins with an id that no message carries *)
LEMMA BeginLeased ==
    ASSUME NetTyped, UNCHANGED <<net, leases, clock>>, MaxXid \in 0 .. XidMod - 1,
           NEW c \in net.clients, Leased(c), st[c].xid < MaxXid, BeginRequest(c)
    PROVE  Leased(c)'
<1>1. c \in Client /\ Threads /\ XidMod \in Nat \ {0}
    BY NetFacts, ClientConfig DEF NetTyped
<1>2. /\ UNCHANGED sock /\ st'[c].pc = "discover"
      /\ st'[c].xid = (st[c].xid + 1) % XidMod
    BY <1>1, BeginRequestStep
<1>3. st[c].xid \in Nat
    BY <1>1 DEF Threads, Thread
<1>4. st'[c].xid = st[c].xid + 1
    BY <1>1, <1>2, <1>3
<1>5. /\ \A s \in Servers : \A j \in DOMAIN sock[s] : sock[s][j].xid \in Nat
      /\ \A i \in DOMAIN sock[c] : sock[c][i].xid \in Nat
  <2>1. /\ \A s \in Servers : sock[s] \in Seq(Asks)
        /\ sock[c] \in Seq(Answers(c))
    BY Zenon DEF NetTyped, Sockets
  <2>2. /\ \A s \in Servers : \A j \in DOMAIN sock[s] : sock[s][j] \in Asks
        /\ \A i \in DOMAIN sock[c] : sock[c][i] \in Answers(c)
    BY <2>1
  <2> QED
    BY <2>2 DEF Asks, Answers
<1>6. /\ \A s \in Servers : \A j \in DOMAIN sock[s] :
           sock[s][j].mac = c => /\ sock[s][j].xid <= st[c].xid
                                 /\ sock[s][j].type = "REQUEST" => sock[s][j].serverid # 0
      /\ \A i \in DOMAIN sock[c] : sock[c][i].xid <= st[c].xid
    BY DEF Leased, Numbered
<1>7. /\ \A s \in Servers : \A j \in DOMAIN sock[s] : sock[s][j].mac = c =>
           sock[s][j].xid <= st'[c].xid /\ sock[s][j].xid # st'[c].xid
      /\ \A i \in DOMAIN sock[c] :
           sock[c][i].xid <= st'[c].xid /\ sock[c][i].xid # st'[c].xid
    BY <1>3, <1>4, <1>5, <1>6
<1>8. Numbered(c)'
    BY <1>2, <1>6, <1>7, SameNet, Zenon DEF Numbered
<1>9. Discovering(c)'
    BY <1>2, <1>7, SameNet, Zenon DEF Discovering, Before
<1>10. st'[c].pc \notin {"request", "ack"} /\ ~Confirmed(c)'
    BY <1>2 DEF Confirmed
<1> QED
    BY <1>8, <1>9, <1>10 DEF Leased

(* A client sends to all servers *)
LEMMA BroadcastStep ==
    ASSUME net \in Nets, Sockets(sock), UNCHANGED <<leases, clock>>, NEW c \in net.clients,
           NEW m \in Asks, sock' = Sendto(sock, Broadcast, m)
    PROVE  /\ Kept(c)
           /\ sock'[c] = sock[c]
           /\ \A s \in Servers : Behind(c, s, {m})
<1>1. Kept(c)
    BY DEF Kept
<1>2. /\ \A d \in net.clients : sock'[d] = sock[d]
      /\ \A s \in Servers : Flow(sock'[s], sock[s], {m})
    BY SendAsk, Zenon
<1> QED
    BY <1>1, <1>2, FlowBehind

(* The DISCOVER opens an exchange with a number of its own *)
LEMMA SendDiscoverLeased ==
    ASSUME NetTyped, UNCHANGED <<net, leases, clock>>, NEW c \in net.clients, Leased(c),
           SendDiscover(c)
    PROVE  Leased(c)'
<1>1. net \in Nets /\ Threads /\ Sockets(sock)
    BY DEF NetTyped
<1>2. PICK m \in Asks : /\ sock' = Sendto(sock, Broadcast, m)
                        /\ m.mac = c /\ m.xid = st[c].xid /\ m.type = "DISCOVER"
    BY <1>1, SendDiscoverStep
<1>3. st[c].pc = "discover" /\ st'[c].pc = "offer" /\ st'[c].xid = st[c].xid
    BY <1>1, SendDiscoverStep DEF Keeps
<1>4. /\ Kept(c) /\ \A s \in Servers : Behind(c, s, {m})
      /\ sock'[c] = sock[c] /\ Flow(sock'[c], sock[c], {})
    BY <1>1, <1>2, BroadcastStep, FlowStays
<1>5. Numbered(c) /\ Discovering(c)
    BY <1>3 DEF Leased
<1>6. Numbered(c)'
  <2>1. st[c].xid <= st[c].xid
    BY <1>1, NetFacts DEF Threads, Thread
  <2>2. \A n \in {m} : n.xid <= st[c].xid /\ (n.type = "REQUEST" => n.serverid # 0)
    BY <1>2, <2>1
  <2>3. \A i \in DOMAIN sock'[c] : sock'[c][i].xid <= st[c].xid
    BY <1>4, <1>5 DEF Numbered
  <2> QED
    BY <1>3, <1>4, <1>5, <2>2, <2>3, NumberedAfter
<1>7. Discovering(c)'
  <2> DEFINE new == {m}
             got == {}
  <2>1. /\ \A s \in Servers : Behind(c, s, new)
        /\ \A n \in new : n.type \notin {"REQUEST", "DECLINE"}
    BY <1>2, <1>4
  <2>2. \A s \in Servers : \A ip \in net.pool[s] : Holds(c, s, ip) => Holds(c, s, ip)'
    BY <1>4, HoldsStays
  <2>3. /\ Flow(sock'[c], sock[c], got)
        /\ \A r \in got : r.xid = st[c].xid =>
             r.type # "ACK" /\ (r.type = "OFFER" => Promised(c, r)')
    BY <1>4
  <2> HIDE DEF new, got
  <2> QED
    BY <1>3, <1>5, <2>1, <2>2, <2>3, DiscoveringAfter, Zenon
<1>8. st'[c].pc \notin {"request", "ack"} /\ ~Confirmed(c)'
    BY <1>3 DEF Confirmed
<1> QED
    BY <1>6, <1>7, <1>8 DEF Leased

(* The REQUEST asks for the address that was offered *)
LEMMA SendRequestLeased ==
    ASSUME NetTyped, UNCHANGED <<net, leases, clock>>, NEW c \in net.clients, Leased(c),
           SendRequest(c)
    PROVE  Leased(c)'
<1>1. net \in Nets /\ Threads /\ Sockets(sock) /\ c \in Client
    BY NetFacts DEF NetTyped
<1>2. PICK m \in Asks : /\ sock' = Sendto(sock, Broadcast, m)
                        /\ m.mac = c /\ m.xid = st[c].xid /\ m.type = "REQUEST"
                        /\ m.serverid = st[c].chosen.serverid
    BY <1>1, SendRequestStep
<1>3. /\ st[c].pc = "request" /\ st'[c].pc = "ack" /\ st'[c].xid = st[c].xid
      /\ st'[c].chosen = st[c].chosen /\ st'[c].ifaddr = st[c].ifaddr
    BY <1>1, SendRequestStep DEF Keeps
<1> DEFINE new == {m}
           got == {}
<1>4. /\ Kept(c) /\ \A s \in Servers : Behind(c, s, new)
      /\ sock'[c] = sock[c] /\ Flow(sock'[c], sock[c], got)
    BY <1>1, <1>2, BroadcastStep, FlowStays
<1>5. Numbered(c) /\ Requesting(c)
    BY <1>3 DEF Leased
<1>6. PICK s \in Servers : \E ip \in net.pool[s] : RequestsFrom(c, s, ip)
    BY <1>5 DEF Requesting
<1>7. PICK ip \in net.pool[s] : RequestsFrom(c, s, ip)
    BY <1>6
<1>8. s # 0 /\ m.serverid = s
    BY <1>1, <1>2, <1>7, NetFacts DEF RequestsFrom
<1>9. Numbered(c)'
  <2>1. st[c].xid <= st[c].xid
    BY <1>1 DEF Threads, Thread
  <2>2. \A n \in new : n.xid <= st[c].xid /\ (n.type = "REQUEST" => n.serverid # 0)
    BY <1>2, <1>8, <2>1
  <2>3. \A i \in DOMAIN sock'[c] : sock'[c][i].xid <= st[c].xid
    BY <1>4, <1>5 DEF Numbered
  <2> HIDE DEF new
  <2> QED
    BY <1>3, <1>4, <1>5, <2>2, <2>3, NumberedAfter
<1>10. Asked(c, s, ip)'
  <2>1. Asked(c, s, ip) /\ Holds(c, s, ip) /\ ~Pending(c, s, "DECLINE")
    BY <1>7, Zenon DEF RequestsFrom, Asked
  <2>2. Holds(c, s, ip)' /\ leases'[s][ip] = leases[s][ip] /\ clock' = clock
    BY <1>4, <2>1, HoldsStays
  <2>3. \A n \in new : /\ n.type # "DISCOVER" /\ n.type # "DECLINE"
                       /\ n.type = "REQUEST" => n.serverid = s
    BY <1>2, <1>8
  <2> HIDE DEF new
  <2>4. ~Pending(c, s, "DECLINE")'
    BY <1>4, <2>1, <2>3, PendingStays
  <2>5. \A r \in got : r.xid = st[c].xid /\ r.type = "ACK" =>
          /\ r.yiaddr = ip /\ r.leasetime = LeaseTime
          /\ leases'[s][ip].expiry >= clock' + LeaseTime
          /\ ~Pending(c, s, "DISCOVER")'
    OBVIOUS
  <2> HIDE DEF got
  <2> QED
    BY <1>3, <1>4, <2>1, <2>2, <2>3, <2>4, <2>5, AskedAfter, Zenon
<1>11. RequestsFrom(c, s, ip)'
    BY <1>3, <1>7, <1>10 DEF RequestsFrom
<1>12. Requesting(c)'
    BY <1>11, SameNet DEF Requesting
<1>13. st'[c].pc \notin {"discover", "offer"} /\ ~Confirmed(c)'
    BY <1>3 DEF Confirmed
<1> QED
    BY <1>9, <1>12, <1>13 DEF Leased

(* The OFFER names a slot that the server set aside for c *)
LEMMA RecvOfferLeased ==
    ASSUME NetTyped, UNCHANGED <<net, leases, clock>>, NEW c \in net.clients, Leased(c),
           NEW i \in Receivable(c), RecvOffer(c, i)
    PROVE  Leased(c)'
<1>1. net \in Nets /\ Threads /\ Sockets(sock)
    BY DEF NetTyped
<1> DEFINE a == sock[c][i]
<1>2. /\ st[c].pc = "offer" /\ st'[c].pc = "request" /\ st'[c].xid = st[c].xid
      /\ a.xid = st[c].xid /\ a.type = "OFFER"
      /\ st'[c].chosen.ipaddr = a.yiaddr /\ st'[c].chosen.serverid = a.serverid
      /\ st'[c].ifaddr = a.yiaddr /\ sock' = Taken(c, i)
    BY <1>1, RecvOfferStep
<1>3. i \in DOMAIN sock[c]
    BY <1>1, FirstAnswer
<1>4. Undisturbed(c)
    BY <1>1, <1>2, <1>3, TakesStep
<1>5. Numbered(c) /\ Discovering(c)
    BY <1>2 DEF Leased
<1>6. Numbered(c)' /\ Discovering(c)'
    BY <1>4, <1>5, NumberedStays, DiscoveringStays
<1>7. Promised(c, a)
    BY <1>2, <1>3, <1>5 DEF Discovering
<1>8. PICK s \in Servers : \E ip \in net.pool[s] :
        a.serverid = s /\ a.yiaddr = ip /\ Holds(c, s, ip) /\ ~Pending(c, s, "DECLINE")
    BY <1>7 DEF Promised
<1>9. PICK ip \in net.pool[s] :
        a.serverid = s /\ a.yiaddr = ip /\ Holds(c, s, ip) /\ ~Pending(c, s, "DECLINE")
    BY <1>8
<1>10. Holds(c, s, ip)' /\ ~Pending(c, s, "DECLINE")'
    BY <1>4, <1>9, HoldsStays, PendingStays DEF Undisturbed
<1>11. Servers' = Servers
    BY SameNet
<1>12. Asked(c, s, ip)'
    BY <1>6, <1>10, <1>11, Zenon DEF Asked, Discovering, Before
<1>13. RequestsFrom(c, s, ip)'
    BY <1>2, <1>9, <1>12 DEF RequestsFrom
<1>14. Requesting(c)'
    BY <1>13, SameNet DEF Requesting
<1>15. st'[c].pc \notin {"discover", "offer"} /\ ~Confirmed(c)'
    BY <1>2 DEF Confirmed
<1> QED
    BY <1>6, <1>14, <1>15 DEF Leased

(* The ACK confirms the lease of the server *)
LEMMA RecvAckLeased ==
    ASSUME NetTyped, UNCHANGED <<net, leases, clock>>, NEW c \in net.clients, Leased(c),
           NEW i \in Receivable(c), RecvAck(c, i)
    PROVE  Leased(c)'
<1>1. net \in Nets /\ Threads /\ Sockets(sock)
    BY DEF NetTyped
<1> DEFINE a == sock[c][i]
<1>2. /\ st[c].pc = "ack" /\ st'[c].pc = "callback" /\ st'[c].ifaddr = st[c].ifaddr
      /\ st'[c].xid = st[c].xid /\ st'[c].chosen = st[c].chosen
      /\ a.xid = st[c].xid /\ a.type = "ACK"
      /\ st'[c].presult.ipaddr = a.yiaddr /\ st'[c].presult.lease_time = a.leasetime
      /\ sock' = Taken(c, i)
    BY <1>1, RecvAckStep DEF Keeps
<1>3. i \in DOMAIN sock[c]
    BY <1>1, FirstAnswer
<1>4. Undisturbed(c)
    BY <1>1, <1>2, <1>3, TakesStep
<1>5. Numbered(c)' /\ Requesting(c)
    BY <1>2, <1>4, NumberedStays DEF Leased
<1>6. PICK s \in Servers : \E ip \in net.pool[s] : RequestsFrom(c, s, ip)
    BY <1>5 DEF Requesting
<1>7. PICK ip \in net.pool[s] : RequestsFrom(c, s, ip)
    BY <1>6
<1>8. /\ st[c].chosen.serverid = s /\ st[c].ifaddr = ip /\ Asked(c, s, ip)
    BY <1>7, Zenon DEF RequestsFrom
<1>9. /\ a.yiaddr = ip /\ a.leasetime = LeaseTime
      /\ leases[s][ip].expiry >= clock + LeaseTime /\ Secure(c, s, ip)
    BY <1>2, <1>3, <1>8, Zenon DEF Asked, Secure
<1>10. Secure(c, s, ip)' /\ leases'[s][ip] = leases[s][ip] /\ clock' = clock
    BY <1>4, <1>9, SecureStays, Zenon DEF Undisturbed
<1>11. BoundTo(c, s, ip)'
    BY <1>2, <1>8, <1>9, <1>10, Zenon DEF BoundTo
<1>12. Bound(c)'
    BY <1>11, SameNet, Zenon DEF Bound
<1>13. st'[c].pc \notin {"discover", "offer", "request", "ack"}
    BY <1>2, Zenon
<1> QED
    BY <1>5, <1>12, <1>13 DEF Leased

(* The client sleeps for half the lease: it wakes before the lease is over *)
LEMMA EnterSleepLeased ==
    ASSUME NetTyped, UNCHANGED <<net, leases, clock>>, NEW c \in net.clients, Leased(c),
           EnterSleep(c, clock)
    PROVE  Leased(c)'
<1>1. Threads /\ c \in Client /\ clock \in Nat /\ LeaseTime \in Nat \ {0}
    BY NetFacts, LeaseConfig DEF NetTyped
<1>2. /\ st[c].pc = "nap" /\ st'[c].pc = "sleep" /\ UNCHANGED sock
      /\ st'[c].xid = st[c].xid /\ st'[c].chosen = st[c].chosen
      /\ st'[c].ifaddr = st[c].ifaddr /\ st'[c].presult = st[c].presult
      /\ st'[c].wake = clock + st[c].presult.lease_time \div 2
    BY <1>1, EnterSleepStep, Zenon DEF Keeps
<1>3. Undisturbed(c)
    BY <1>2, QuietStep, Zenon
<1>4. Numbered(c)' /\ Bound(c)
    BY <1>2, <1>3, NumberedStays DEF Leased, Confirmed
<1>5. PICK s \in Servers : \E ip \in net.pool[s] : BoundTo(c, s, ip)
    BY <1>4 DEF Bound
<1>6. PICK ip \in net.pool[s] : BoundTo(c, s, ip)
    BY <1>5
<1>7. /\ st[c].chosen.serverid = s /\ st[c].ifaddr = ip /\ Secure(c, s, ip)
      /\ st[c].presult.ipaddr = ip /\ st[c].presult.lease_time = LeaseTime
      /\ leases[s][ip].expiry >= clock + LeaseTime
    BY <1>2, <1>6, Zenon DEF BoundTo
<1>8. Secure(c, s, ip)' /\ leases'[s][ip] = leases[s][ip] /\ clock' = clock
    BY <1>3, <1>7, SecureStays DEF Undisturbed
<1>9. leases[s][ip].expiry \in Nat
  <2>1. leases[s][ip] \in Lease
    BY DEF NetTyped, Tables
  <2> QED
    BY <2>1 DEF Lease
<1>10. st'[c].wake = clock + LeaseTime \div 2
    BY <1>2, <1>7
<1>11. /\ clock <= st'[c].wake /\ st'[c].wake < leases[s][ip].expiry
       /\ st'[c].wake < clock + LeaseTime
    BY <1>1, <1>7, <1>9, <1>10
<1>12. BoundTo(c, s, ip)'
    BY <1>2, <1>7, <1>8, <1>11, Zenon DEF BoundTo
<1>13. Bound(c)'
    BY <1>12, SameNet DEF Bound
<1>14. st'[c].pc \notin {"discover", "offer", "request", "ack"}
    BY <1>2, Zenon
<1> QED
    BY <1>4, <1>13, <1>14, Zenon DEF Leased

(* A message is received, and another sent to the server it is from *)
LEMMA AnswerOne ==
    ASSUME net \in Nets, Sockets(sock), NEW c \in net.clients, NEW i \in DOMAIN sock[c],
           NEW m \in Asks
    PROVE  LET to == sock[c][i].serverid
               r == Sendto(Taken(c, i), to, m)
           IN  /\ to \in Servers
               /\ Flow(r[c], sock[c], {})
               /\ \A d \in net.clients : d # c => r[d] = sock[d]
               /\ \A s \in Servers : Flow(r[s], sock[s], {m})
               /\ \A s \in Servers : s # to => r[s] = sock[s]
<1> DEFINE to == sock[c][i].serverid
           q == Taken(c, i)
           r == Sendto(q, to, m)
<1>1. /\ Sockets(q) /\ Flow(q[c], sock[c], {})
      /\ \A d \in net.clients \cup Servers : d # c => q[d] = sock[d]
    BY TakeOne
<1>2. to \in Servers
  <2>1. sock[c] \in Seq(Answers(c))
    BY Zenon DEF Sockets
  <2>2. sock[c][i] \in Answers(c)
    BY <2>1
  <2> QED
    BY <2>2 DEF Answers
<1> HIDE DEF q, to
<1>3. to \in Servers \cup {Broadcast}
    BY <1>2
<1>4. /\ \A d \in net.clients : r[d] = q[d]
      /\ \A s \in Servers : Flow(r[s], q[s], {m})
      /\ \A s \in Servers : to \notin {s, Broadcast} => r[s] = q[s]
    BY <1>1, <1>3, SendAsk, Zenon
<1> HIDE DEF r
<1>5. \A s \in Servers : s # c /\ q[s] = sock[s]
    BY <1>1, NetFacts
<1>6. to # Broadcast
    BY <1>2, NetFacts
<1>7. Flow(r[c], sock[c], {})
    BY <1>1, <1>4
<1>8. \A d \in net.clients : d # c => r[d] = sock[d]
    BY <1>1, <1>4
<1>9. \A s \in Servers : Flow(r[s], sock[s], {m})
    BY <1>4, <1>5
<1>10. \A s \in Servers : s # to => r[s] = sock[s]
    BY <1>4, <1>5, <1>6
<1> QED
    BY <1>2, <1>7, <1>8, <1>9, <1>10, Zenon DEF r, q, to

(* A DECLINE goes to another server than the one that was chosen *)
LEMMA DeclineLeased ==
    ASSUME NetTyped, UNCHANGED <<net, leases, clock>>, NEW c \in net.clients, Leased(c),
           NEW i \in DOMAIN sock[c], NEW m \in Asks,
           sock' = Sendto(Taken(c, i), sock[c][i].serverid, m),
           m.mac = c, m.xid = st[c].xid, m.type = "DECLINE",
           st[c].pc = "ack", sock[c][i].serverid # st[c].chosen.serverid,
           SamePhase(c), st'[c].xid = st[c].xid, ~Confirmed(c)'
    PROVE  Leased(c)'
<1>1. net \in Nets /\ Sockets(sock) /\ Threads /\ c \in Client
    BY NetFacts DEF NetTyped
<1> DEFINE new == {m}
           got == {}
<1>2. /\ Flow(sock'[c], sock[c], got)
      /\ \A s \in Servers : Flow(sock'[s], sock[s], new)
      /\ \A s \in Servers : s # sock[c][i].serverid => sock'[s] = sock[s]
    BY <1>1, AnswerOne, Zenon
<1>3. \A n \in new : n.type = "DECLINE" /\ n.xid = st[c].xid
    OBVIOUS
<1>4. \A r \in got : FALSE
    BY Zenon
<1> HIDE DEF new, got
<1>5. \A s \in Servers : Behind(c, s, new)
    BY <1>2, FlowBehind
<1>6. Numbered(c)'
  <2>1. st[c].xid <= st[c].xid
    BY <1>1 DEF Threads, Thread
  <2>2. \A n \in new : n.xid <= st[c].xid /\ (n.type = "REQUEST" => n.serverid # 0)
    BY <1>3, <2>1
  <2>3. ASSUME NEW j \in DOMAIN sock'[c] PROVE sock'[c][j].xid <= st[c].xid
    <3>1. PICK k \in DOMAIN sock[c] : sock'[c][j] = sock[c][k]
        BY <1>2, <1>4, Zenon DEF Flow
    <3> QED
        BY <3>1, Zenon DEF Leased, Numbered
  <2> QED
    BY <1>5, <2>2, <2>3, NumberedAfter, Zenon DEF Leased
<1>7. st'[c].pc \notin {"discover", "offer"}
    BY DEF SamePhase
<1>8. ASSUME st'[c].pc \in {"request", "ack"} PROVE Requesting(c)'
  <2>1. Requesting(c)
    BY DEF Leased
  <2>2. PICK s \in Servers : \E ip \in net.pool[s] : RequestsFrom(c, s, ip)
    BY <2>1 DEF Requesting
  <2>3. PICK ip \in net.pool[s] : RequestsFrom(c, s, ip)
    BY <2>2
  <2>4. /\ st[c].chosen.serverid = s /\ Asked(c, s, ip) /\ Holds(c, s, ip)
        /\ ~Pending(c, s, "DECLINE")
    BY <2>3, Zenon DEF RequestsFrom, Asked
  <2>5. sock'[s] = sock[s]
    BY <1>2, <2>4, Zenon
  <2>6. ~Pending(c, s, "DECLINE")'
    BY <2>4, <2>5 DEF Pending
  <2>7. Holds(c, s, ip)' /\ leases'[s][ip] = leases[s][ip] /\ clock' = clock
    BY <2>4, HoldsStays, Zenon DEF Kept
  <2>8. \A n \in new : n.type # "DISCOVER" /\ (n.type = "REQUEST" => n.serverid = s)
    BY <1>3
  <2>9. Asked(c, s, ip)'
    BY <1>2, <1>4, <1>5, <2>4, <2>6, <2>7, <2>8, AskedAfter, Zenon
  <2>10. RequestsFrom(c, s, ip)'
    BY <1>8, <2>3, <2>9, Zenon DEF RequestsFrom, SamePhase
  <2> QED
    BY <2>10, SameNet DEF Requesting
<1> QED
    BY <1>6, <1>7, <1>8, Zenon DEF Leased

(* A client that only changes its own state, and takes at most a message *)
LEMMA SilentLeased ==
    ASSUME NetTyped, UNCHANGED <<net, leases, clock>>, NEW c \in net.clients, Leased(c),
           \/ UNCHANGED sock
           \/ \E i \in DOMAIN sock[c] : sock' = Taken(c, i),
           st'[c].xid = st[c].xid, SamePhase(c)
    PROVE  Leased(c)'
<1>1. net \in Nets /\ Sockets(sock)
    BY DEF NetTyped
<1>2. Undisturbed(c)
  <2>1. CASE UNCHANGED sock
    BY <2>1, QuietStep
  <2>2. CASE \E i \in DOMAIN sock[c] : sock' = Taken(c, i)
    BY <1>1, <2>2, TakesStep, Zenon
  <2> QED
    BY <2>1, <2>2
<1> QED
    BY <1>2, LeasedStays, Zenon

(* A reply that is neither the awaited OFFER nor an ACK or NAK *)
LEMMA RecvOtherLeased ==
    ASSUME NetTyped, UNCHANGED <<net, leases, clock>>, NEW c \in net.clients, Leased(c),
           NEW i \in Receivable(c), NEW late \in BOOLEAN, RecvOther(c, i, late)
    PROVE  Leased(c)'
<1>1. net \in Nets /\ Threads /\ Sockets(sock)
    BY DEF NetTyped
<1>2. i \in DOMAIN sock[c]
    BY <1>1, FirstAnswer, Zenon
<1>3. /\ st'[c].xid = st[c].xid /\ st'[c].chosen = st[c].chosen
      /\ st'[c].ifaddr = st[c].ifaddr /\ st[c].pc \in Waiting
      /\ \/ st'[c].pc = st[c].pc
         \/ st'[c].pc = "callback" /\ ~st'[c].ok
         \/ st[c].pc = "offer" /\ st'[c].pc = "discover"
         \/ st[c].pc = "ack" /\ st'[c].pc = "request"
      /\ \/ sock' = Taken(c, i)
         \/ /\ st[c].pc = "ack"
            /\ sock[c][i].serverid # st[c].chosen.serverid
            /\ \E m \in Asks :
                 /\ sock' = Sendto(Taken(c, i), sock[c][i].serverid, m)
                 /\ m.mac = c /\ m.xid = st[c].xid /\ m.type = "DECLINE"
  <2>1. Keeps(c)
    BY <1>1, RecvOtherStep
  <2>2. st'[c].xid = st[c].xid /\ st'[c].chosen = st[c].chosen
    BY <2>1, Zenon DEF Keeps
  <2> QED
    BY <1>1, <2>2, RecvOtherStep
<1>4. ~Confirmed(c)'
    BY <1>3, Zenon DEF Confirmed, Waiting
<1>5. SamePhase(c)
    BY <1>3, <1>4, Zenon DEF SamePhase, Waiting
<1>6. CASE sock' = Taken(c, i)
    BY <1>2, <1>3, <1>5, <1>6, SilentLeased
<1>7. CASE /\ st[c].pc = "ack"
           /\ sock[c][i].serverid # st[c].chosen.serverid
           /\ \E m \in Asks :
                /\ sock' = Sendto(Taken(c, i), sock[c][i].serverid, m)
                /\ m.mac = c /\ m.xid = st[c].xid /\ m.type = "DECLINE"
  <2>1. PICK m \in Asks :
          /\ sock' = Sendto(Taken(c, i), sock[c][i].serverid, m)
          /\ m.mac = c /\ m.xid = st[c].xid /\ m.type = "DECLINE"
    BY <1>7
  <2> QED
    BY <1>2, <1>3, <1>4, <1>5, <1>7, <2>1, DeclineLeased, Zenon
<1> QED
    BY <1>3, <1>6, <1>7

(* Every step of client c itself, and of its owner *)
LEMMA OwnLeased ==
    ASSUME NetTyped, UNCHANGED net, NEW c \in net.clients, Leased(c), net.faults = {},
           MaxXid \in 0 .. XidMod - 1,
           ClientRuns(c) \/ ClientAcked(c) \/ ClientFails(c) \/ ClientCaller(c)
    PROVE  Leased(c)'
<1>1. net \in Nets /\ c \in Client /\ Threads /\ Sockets(sock) /\ clock \in Nat
    BY NetFacts DEF NetTyped
<1>2. UNCHANGED <<leases, clock>> /\ ~ClientFails(c)
    BY Zenon DEF ClientRuns, ClientAcked, ClientFails, ClientCaller
<1>3. ASSUME UNCHANGED sock, st'[c].xid = st[c].xid, SamePhase(c) PROVE Leased(c)'
    BY <1>2, <1>3, SilentLeased, Zenon
<1>4. CASE SeeCancel(c)
  <2>1. UNCHANGED sock /\ st'[c].xid = st[c].xid /\ st'[c].pc = "callback" /\ ~st'[c].ok
    BY <1>1, <1>4, ErrorStep, Zenon DEF Keeps
  <2>2. SamePhase(c)
    BY <2>1 DEF SamePhase, Confirmed
  <2> QED
    BY <1>3, <2>1, <2>2, Zenon
<1>5. CASE RunCallback(c)
  <2>1. /\ UNCHANGED sock /\ st'[c].xid = st[c].xid /\ st'[c].chosen = st[c].chosen
        /\ st[c].pc = "callback" /\ st'[c].ifaddr = st[c].ifaddr
        /\ \/ st'[c].pc \in {"exit", "begin"}
           \/ st'[c].pc = "nap" /\ st[c].ok /\ st'[c].presult = st[c].presult
    BY <1>1, <1>5, RunCallbackStep, Zenon DEF Keeps
  <2>2. SamePhase(c)
    BY <2>1 DEF SamePhase, Confirmed
  <2> QED
    BY <1>3, <2>1, <2>2, Zenon
<1>6. CASE WakeUp(c, clock)
  <2>1. UNCHANGED sock /\ st'[c].xid = st[c].xid /\ st'[c].pc \in {"exit", "begin"}
    BY <1>1, <1>6, WakeUpStep, Zenon DEF Keeps
  <2>2. SamePhase(c)
    BY <2>1, Zenon DEF SamePhase, Confirmed
  <2> QED
    BY <1>3, <2>1, <2>2, Zenon
<1>7. CASE Timeout(c)
  <2>1. /\ UNCHANGED sock /\ st'[c].xid = st[c].xid /\ st'[c].chosen = st[c].chosen
        /\ st'[c].ifaddr = st[c].ifaddr
        /\ \/ st'[c].pc = "callback" /\ ~st'[c].ok
           \/ st[c].pc = "offer" /\ st'[c].pc = "discover"
           \/ st[c].pc = "ack" /\ st'[c].pc = "request"
    BY <1>1, <1>7, TimeoutStep, Zenon DEF Keeps
  <2>2. SamePhase(c)
    BY <2>1, Zenon DEF SamePhase, Confirmed
  <2> QED
    BY <1>3, <2>1, <2>2, Zenon
<1>8. ASSUME NEW i \in Receivable(c), RecvNak(c, i) PROVE Leased(c)'
  <2>1. /\ sock' = Taken(c, i) /\ st'[c].xid = st[c].xid
        /\ st'[c].pc = "callback" /\ ~st'[c].ok
    BY <1>1, <1>8, RecvNakStep, Zenon DEF Keeps
  <2>2. SamePhase(c)
    BY <2>1 DEF SamePhase, Confirmed
  <2>3. i \in DOMAIN sock[c]
    BY <1>1, FirstAnswer
  <2> QED
    BY <1>2, <2>1, <2>2, <2>3, SilentLeased, Zenon
<1>9. CASE RequestAsync(c)
  <2>1. UNCHANGED sock /\ st'[c] = [st[c] EXCEPT !.pc = "begin"] /\ st[c] \in Thread
    BY <1>1, <1>9, RequestAsyncStep DEF Threads
  <2>2. st'[c].xid = st[c].xid /\ st'[c].pc = "begin"
    BY <2>1, Zenon DEF Thread
  <2>3. SamePhase(c)
    BY <2>2, Zenon DEF SamePhase, Confirmed
  <2> QED
    BY <1>3, <2>1, <2>2, <2>3
<1>10. CASE CancelFlag(c) \/ CancelKill(c) \/ CancelJoin(c)
  <2>1. /\ UNCHANGED sock /\ st'[c].xid = st[c].xid /\ st'[c].chosen = st[c].chosen
        /\ st'[c].ifaddr = st[c].ifaddr /\ st'[c].ok = st[c].ok
        /\ st'[c].presult = st[c].presult
        /\ \/ st'[c].pc = st[c].pc /\ (st[c].pc = "sleep" => st'[c].wake = st[c].wake)
           \/ st'[c].pc \in {"exit", "idle"}
    BY <1>1, <1>10, CancelStep, Zenon
  <2>2. SamePhase(c)
    BY <2>1 DEF SamePhase, Confirmed
  <2> QED
    BY <1>3, <2>1, <2>2, Zenon
<1>11. CASE ClientRuns(c)
  <2>1. \A late \in {FALSE, ~net.prompt} : late \in BOOLEAN
    BY <1>1, NetConfig, Zenon
  <2>2. CASE st[c].xid < MaxXid /\ BeginRequest(c)
    BY <1>2, <2>2, BeginLeased
  <2>3. CASE SendDiscover(c)
    BY <1>2, <2>3, SendDiscoverLeased
  <2>4. CASE SendRequest(c)
    BY <1>2, <2>4, SendRequestLeased
  <2>5. CASE EnterSleep(c, clock)
    BY <1>2, <2>5, EnterSleepLeased
  <2>6. ASSUME NEW i \in Receivable(c), RecvOffer(c, i) PROVE Leased(c)'
    BY <1>2, <2>6, RecvOfferLeased
  <2>7. ASSUME NEW i \in Receivable(c), NEW late \in BOOLEAN, RecvOther(c, i, late)
        PROVE  Leased(c)'
    BY <1>2, <2>7, RecvOtherLeased, Zenon
  <2> QED
    BY <1>4, <1>5, <1>6, <1>7, <1>8, <1>11, <2>1, <2>2, <2>3, <2>4, <2>5, <2>6, <2>7,
       Zenon DEF ClientRuns
<1>12. CASE ClientAcked(c)
    BY <1>2, <1>12, RecvAckLeased DEF ClientAcked
<1>13. CASE ClientCaller(c)
    BY <1>9, <1>10, <1>13 DEF ClientCaller
<1> QED
    BY <1>2, <1>11, <1>12, <1>13, Zenon

-----------------------------------------------------------------------------
(* A client takes messages out of its own socket, and sends as itself *)
Speaks(c) ==
    /\ \A d \in net.clients : d # c => sock'[d] = sock[d]
    /\ \A s \in Servers : \E new : /\ \A m \in new : m.mac = c
                                   /\ Flow(sock'[s], sock[s], new)

(* A step that uses no socket *)
LEMMA SpeaksSilent == ASSUME UNCHANGED sock, NEW c PROVE Speaks(c)
<1>1. \A s : Flow(sock'[s], sock[s], {})
    BY FlowStays
<1>2. \A m \in {} : m.mac = c
    OBVIOUS
<1> QED
    BY <1>1, <1>2 DEF Speaks

(* A step that takes a message *)
LEMMA SpeaksTaking ==
    ASSUME net \in Nets, Sockets(sock), NEW c \in net.clients, NEW i \in DOMAIN sock[c],
           sock' = Taken(c, i)
    PROVE  Speaks(c)
<1>1. \A d \in net.clients \cup Servers : d # c => sock'[d] = sock[d]
    BY TakeOne
<1>2. \A s \in Servers : s # c
    BY NetFacts
<1>3. \A s \in Servers : Flow(sock'[s], sock[s], {})
    BY <1>1, <1>2, FlowStays
<1>4. \A m \in {} : m.mac = c
    OBVIOUS
<1> QED
    BY <1>1, <1>3, <1>4 DEF Speaks

(* A step that broadcasts a message *)
LEMMA SpeaksToAll ==
    ASSUME net \in Nets, Sockets(sock), NEW c \in net.clients, NEW m \in Asks,
           m.mac = c, sock' = Sendto(sock, Broadcast, m)
    PROVE  Speaks(c)
<1>1. /\ \A d \in net.clients : sock'[d] = sock[d]
      /\ \A s \in Servers : Flow(sock'[s], sock[s], {m})
    BY SendAsk, Zenon
<1>2. \A n \in {m} : n.mac = c
    OBVIOUS
<1> QED
    BY <1>1, <1>2 DEF Speaks

(* A step that takes a message and answers it *)
LEMMA SpeaksBack ==
    ASSUME net \in Nets, Sockets(sock), NEW c \in net.clients, NEW i \in DOMAIN sock[c],
           NEW m \in Asks, m.mac = c,
           sock' = Sendto(Taken(c, i), sock[c][i].serverid, m)
    PROVE  Speaks(c)
<1>1. /\ \A d \in net.clients : d # c => sock'[d] = sock[d]
      /\ \A s \in Servers : Flow(sock'[s], sock[s], {m})
    BY AnswerOne
<1>2. \A n \in {m} : n.mac = c
    OBVIOUS
<1> QED
    BY <1>1, <1>2, Zenon DEF Speaks

(* and that is all that any step of a client does to the sockets *)
LEMMA ClientSpeaks ==
    ASSUME NetTyped, UNCHANGED net, NEW c \in net.clients,
           \/ ClientRuns(c) \/ ClientAcked(c) \/ ClientFails(c) \/ ClientCaller(c)
    PROVE  Speaks(c)
<1>1. net \in Nets /\ c \in Client /\ Threads /\ Sockets(sock) /\ clock \in Nat
    BY NetFacts DEF NetTyped
<1>2. ASSUME NEW i \in Receivable(c), sock' = Taken(c, i) PROVE Speaks(c)
    BY <1>1, <1>2, FirstAnswer, SpeaksTaking, Zenon
<1>3. CASE BeginRequest(c)
    BY <1>1, <1>3, BeginRequestStep, SpeaksSilent, Zenon
<1>4. CASE SendDiscover(c)
    BY <1>1, <1>4, SendDiscoverStep, SpeaksToAll, Zenon
<1>5. CASE SendRequest(c)
    BY <1>1, <1>5, SendRequestStep, SpeaksToAll, Zenon
<1>6. CASE SeeCancel(c) \/ SendFails(c) \/ RecvFails(c)
    BY <1>1, <1>6, ErrorStep, SpeaksSilent, Zenon
<1>7. CASE RunCallback(c)
    BY <1>1, <1>7, RunCallbackStep, SpeaksSilent, Zenon
<1>8. CASE EnterSleep(c, clock)
    BY <1>1, <1>8, EnterSleepStep, SpeaksSilent, Zenon
<1>9. CASE WakeUp(c, clock)
    BY <1>1, <1>9, WakeUpStep, SpeaksSilent, Zenon
<1>10. CASE Timeout(c)
    BY <1>1, <1>10, TimeoutStep, SpeaksSilent, Zenon
<1>11. ASSUME NEW i \in Receivable(c), RecvOffer(c, i) PROVE Speaks(c)
    BY <1>1, <1>2, <1>11, RecvOfferStep
<1>12. ASSUME NEW i \in Receivable(c), RecvNak(c, i) PROVE Speaks(c)
    BY <1>1, <1>2, <1>12, RecvNakStep, Zenon
<1>13. ASSUME NEW i \in Receivable(c), RecvAck(c, i) PROVE Speaks(c)
    BY <1>1, <1>2, <1>13, RecvAckStep, Zenon
<1>14. ASSUME NEW i \in Receivable(c), NEW late \in BOOLEAN, RecvOther(c, i, late)
       PROVE  Speaks(c)
  <2>1. \/ sock' = Taken(c, i)
        \/ /\ st[c].pc = "ack"
           /\ sock[c][i].serverid # st[c].chosen.serverid
           /\ \E m \in Asks :
                /\ sock' = Sendto(Taken(c, i), sock[c][i].serverid, m)
                /\ m.mac = c /\ m.xid = st[c].xid /\ m.type = "DECLINE"
    BY <1>1, <1>14, RecvOtherStep
  <2>2. i \in DOMAIN sock[c]
    BY <1>1, FirstAnswer
  <2> QED
    BY <1>1, <1>2, <2>1, <2>2, SpeaksBack, Zenon
<1>15. CASE RequestAsync(c)
    BY <1>1, <1>15, RequestAsyncStep, SpeaksSilent, Zenon
<1>16. CASE CancelFlag(c) \/ CancelKill(c) \/ CancelJoin(c)
    BY <1>1, <1>16, CancelStep, SpeaksSilent, Zenon
<1>17. CASE ClientRuns(c)
  <2>1. \A late \in {FALSE, ~net.prompt} : late \in BOOLEAN
    BY <1>1, NetConfig, Zenon
  <2> QED
    BY <1>3, <1>4, <1>5, <1>6, <1>7, <1>8, <1>9, <1>10, <1>11, <1>12, <1>14, <1>17, <2>1,
       Zenon DEF ClientRuns
<1>18. CASE ClientAcked(c)
    BY <1>13, <1>18, Zenon DEF ClientAcked
<1>19. CASE ClientFails(c)
    BY <1>6, <1>19, Zenon DEF ClientFails
<1>20. CASE ClientCaller(c)
    BY <1>15, <1>16, <1>20, Zenon DEF ClientCaller
<1> QED
    BY <1>17, <1>18, <1>19, <1>20

(* What another client does leaves client c where it is *)
LEMMA OtherLeased ==
    ASSUME NetTyped, UNCHANGED net, NEW c \in net.clients, Leased(c), NEW d \in net.clients,
           d # c, ClientRuns(d) \/ ClientAcked(d) \/ ClientFails(d) \/ ClientCaller(d)
    PROVE  Leased(c)'
<1>1. Steps(d) /\ UNCHANGED <<leases, clock>> /\ Threads /\ c \in Client /\ d \in Client
    BY ClientStep, NetFacts, Zenon DEF NetTyped
<1>2. st'[c] = st[c]
    BY <1>1, StepsTyped
<1>3. Speaks(d)
    BY ClientSpeaks
<1>4. Flow(sock'[c], sock[c], {})
    BY <1>3, FlowStays, Zenon DEF Speaks
<1>5. ASSUME NEW s \in Servers PROVE Behind(c, s, {})
  <2>1. PICK new : (\A m \in new : m.mac = d) /\ Flow(sock'[s], sock[s], new)
    BY <1>3 DEF Speaks
  <2>2. \A m \in new : m.mac # c
    BY <2>1, Zenon
  <2> QED
    BY <2>1, <2>2, FlowBehind, Zenon
<1>6. Undisturbed(c)
    BY <1>1, <1>2, <1>4, <1>5, Zenon DEF Undisturbed, Kept
<1>7. SamePhase(c)
    BY <1>2 DEF SamePhase, Confirmed
<1> QED
    BY <1>6, <1>7, LeasedStays, Zenon

-----------------------------------------------------------------------------
(* What server s answers client c, which has sent m *)
Replied(c, s, m, r) ==
    \/ /\ m.type = "DISCOVER" /\ r.type = "OFFER"
       /\ r.serverid = s /\ r.yiaddr \in net.pool[s]
       /\ leases'[s][r.yiaddr].mac = c /\ clock < leases'[s][r.yiaddr].expiry
    \/ m.type = "REQUEST" /\ r.type = "NAK"
    \/ /\ m.type = "REQUEST" /\ r.type = "ACK" /\ m.serverid = s
       /\ r.leasetime = LeaseTime /\ r.yiaddr \in net.pool[s]
       /\ leases[s][r.yiaddr].mac = c
       /\ leases'[s][r.yiaddr].expiry = clock + LeaseTime

(* What server s does to its table for client c, which has sent m *)
Provides(c, s, m, o) ==
    /\ \A d \in net.clients : \A ip \in net.pool[s] :
         d # c /\ Holds(d, s, ip) => leases'[s][ip] = leases[s][ip]
    /\ m.type = "DISCOVER" =>
         \A ip \in net.pool[s] : leases[s][ip].mac = c =>
           leases'[s][ip].mac = c /\ clock < leases'[s][ip].expiry
    /\ m.type = "REQUEST" =>
         \A ip \in net.pool[s] : leases[s][ip].mac = c =>
           \/ leases'[s][ip] = leases[s][ip]
           \/ leases'[s][ip].mac = c /\ leases'[s][ip].expiry = clock + LeaseTime
    /\ \A r \in o.reply : Replied(c, s, m, r)

(* The slot that is given, and the others *)
GivenOne(s, c, ip, time) ==
    /\ Given(leases[s], c, ip, time)[ip].mac = c
    /\ Given(leases[s], c, ip, time)[ip].expiry = clock + time
    /\ \A a \in net.pool[s] : a # ip => Given(leases[s], c, ip, time)[a] = leases[s][a]

(* Giving a slot to c changes that slot alone *)
LEMMA GivenSlot ==
    ASSUME Tables, NEW s \in Servers, NEW ip \in net.pool[s], NEW c, NEW time
    PROVE  GivenOne(s, c, ip, time)
<1>1. leases[s] \in [net.pool[s] -> Lease]
    BY DEF Tables
<1> QED
    BY <1>1 DEF Given, GivenOne

(* What a DISCOVER does to the leases of its sender *)
LEMMA DiscoverServed ==
    ASSUME net \in Nets, clock \in Nat, Tables, NEW s \in Servers, NEW m \in Asks, NEW o,
           leases'[s] = o.leases, NEW c \in net.clients, m.mac = c, m.type = "DISCOVER",
           o \in dhcpd_discover(leases[s], clock, m, s)
    PROVE  Provides(c, s, m, o)
<1> DEFINE P == net.pool[s]
           tab == leases[s]
<1>1. /\ P \in SUBSET Nat /\ tab \in [P -> Lease] /\ OneSlot(tab) /\ DOMAIN tab = P
      /\ c \in Mac /\ c # NoMac /\ m.leasetime = 0
    BY NetFacts, LeaseConfig DEF Tables, Asks
<1>2. LeaseTime \in Nat /\ OfferTime \in Nat \ {0}
    BY LeaseConfig, Zenon
<1> HIDE DEF P, tab
<1>3. DiscoverOutcome(P, tab, m, s, o)
    BY <1>1, DiscoverEffect, Zenon DEF tab
<1>4. CASE o.leases = tab /\ o.reply = {} /\ DiscoverChoice(tab, clock, m) = {}
  <2>1. ASSUME NEW ip \in P PROVE tab[ip].mac # c
    <3>1. dhcpd_findbymac(tab, c) = {a \in P : tab[a].mac = c}
        BY <1>1, FindByMac
    <3> QED
        BY <1>4, <3>1, Zenon DEF DiscoverChoice
  <2> QED
    BY <1>4, <2>1, Zenon DEF Provides, P, tab
<1>5. ASSUME NEW ip \in P,
             tab[ip].mac = c \/ ((\A a \in P : tab[a].mac # c) /\ Available(tab, clock, ip)),
             o.leases = Given(tab, c, ip, OfferTime),
             o.reply = {} \/ \E t \in Nat : o.reply = {Reply("OFFER", m, ip, t, s)}
      PROVE  Provides(c, s, m, o)
  <2>1. /\ o.leases[ip].mac = c /\ o.leases[ip].expiry = clock + OfferTime
        /\ \A a \in P : a # ip => o.leases[a] = tab[a]
    <3>1. GivenOne(s, c, ip, OfferTime)
        BY GivenSlot DEF P
    <3> QED
        BY <1>5, <3>1, Zenon DEF GivenOne, P, tab
  <2>2. clock < o.leases[ip].expiry
    BY <1>2, <2>1
  <2>3. ASSUME NEW d \in net.clients, NEW a \in P, d # c, Holds(d, s, a)
        PROVE  o.leases[a] = tab[a]
    <3>1. tab[a].mac = d /\ clock < tab[a].expiry /\ d # NoMac /\ tab[a].expiry \in Nat
        BY <1>1, <2>3, NetFacts, LeaseConfig, Zenon DEF Holds, tab, Lease
    <3>2. tab[a].allocated
        BY <1>1, <3>1, Zenon DEF OneSlot
    <3>3. ~Available(tab, clock, a)
        BY <1>1, <3>1, <3>2 DEF Available, dhcpd_findbyipaddr, dhcpd_leaseexpired
    <3> QED
        BY <1>5, <2>1, <2>3, <3>1, <3>3, Zenon
  <2>4. ASSUME NEW a \in P, tab[a].mac = c
        PROVE  o.leases[a].mac = c /\ clock < o.leases[a].expiry
    <3>1. a = ip
        BY <1>1, <1>5, <2>4, Zenon DEF OneSlot
    <3> QED
        BY <2>1, <2>2, <3>1
  <2>5. ASSUME NEW r \in o.reply PROVE Replied(c, s, m, r)
    <3>1. r.type = "OFFER" /\ r.serverid = s /\ r.yiaddr = ip
        BY <1>5, <2>5 DEF Reply
    <3> QED
        BY <2>1, <2>2, <3>1, Zenon DEF Replied, P
  <2> QED
    BY <2>3, <2>4, <2>5, Zenon DEF Provides, P, tab
<1> QED
    BY <1>3, <1>4, <1>5, Zenon DEF DiscoverOutcome

(* What a REQUEST does to the leases of its sender *)
LEMMA RequestServed ==
    ASSUME net \in Nets, clock \in Nat, Tables, NEW s \in Servers, NEW m \in Asks, NEW o,
           leases'[s] = o.leases, NEW c \in net.clients, m.mac = c, m.type = "REQUEST",
           m.serverid # 0, o \in dhcpd_request(leases[s], clock, m, s)
    PROVE  Provides(c, s, m, o)
<1> DEFINE P == net.pool[s]
           tab == leases[s]
<1>1. /\ P \in SUBSET Nat /\ tab \in [P -> Lease] /\ OneSlot(tab) /\ DOMAIN tab = P
      /\ c \in Mac /\ c # NoMac /\ m.leasetime = 0
    BY NetFacts, LeaseConfig DEF Tables, Asks
<1>2. LeaseTime \in Nat
    BY LeaseConfig
<1> HIDE DEF P, tab
<1>3. RequestOutcome(P, tab, m, s, o)
    BY <1>1, RequestEffect, Zenon DEF tab
<1>4. CASE o.leases = tab /\ (o.reply = {} \/ o.reply = {Reply("NAK", m, 0, 0, s)})
  <2>1. \A r \in o.reply : r.type = "NAK"
    BY <1>4 DEF Reply
  <2>2. \A r \in o.reply : Replied(c, s, m, r)
    BY <2>1 DEF Replied
  <2> QED
    BY <1>4, <2>2, Zenon DEF Provides, tab
<1>5. ASSUME NEW ip \in P, tab[ip].mac = c, m.serverid \in {0, s},
             o.leases = Given(tab, c, ip, LeaseTime),
             o.reply = {Reply("ACK", m, ip, LeaseTime, s)}
      PROVE  Provides(c, s, m, o)
  <2>1. /\ o.leases[ip].mac = c /\ o.leases[ip].expiry = clock + LeaseTime
        /\ \A a \in P : a # ip => o.leases[a] = tab[a]
    <3>1. GivenOne(s, c, ip, LeaseTime)
        BY GivenSlot, Zenon DEF P
    <3> QED
        BY <1>5, <3>1, Zenon DEF GivenOne, P, tab
  <2>2. ASSUME NEW d \in net.clients, NEW a \in P, d # c, Holds(d, s, a)
        PROVE  o.leases[a] = tab[a]
    <3>1. tab[a].mac = d
        BY <2>2, Zenon DEF Holds, tab
    <3> QED
        BY <1>5, <2>1, <2>2, <3>1, Zenon
  <2>3. ASSUME NEW r \in o.reply PROVE Replied(c, s, m, r)
    <3>1. r.type = "ACK" /\ r.leasetime = LeaseTime /\ r.yiaddr = ip
        BY <1>5, <2>3 DEF Reply
    <3> QED
        BY <1>5, <2>1, <3>1, Zenon DEF Replied, P, tab
  <2> QED
    BY <2>1, <2>2, <2>3, Zenon DEF Provides, P, tab
<1> QED
    BY <1>3, <1>4, <1>5 DEF RequestOutcome

(* What a DECLINE does to the leases of its sender *)
LEMMA DeclineServed ==
    ASSUME net \in Nets, clock \in Nat, Tables, NEW s \in Servers, NEW m \in Asks, NEW o,
           leases'[s] = o.leases, NEW c \in net.clients, m.mac = c, m.type = "DECLINE",
           o \in dhcpd_decline(leases[s], clock, m)
    PROVE  Provides(c, s, m, o)
<1> DEFINE P == net.pool[s]
           tab == leases[s]
<1>1. P \in SUBSET Nat /\ tab \in [P -> Lease] /\ OneSlot(tab) /\ c \in Mac
    BY NetFacts DEF Tables
<1> HIDE DEF P, tab
<1>2. /\ o.reply = {}
      /\ o.leases = [ip \in P |->
                       IF tab[ip].mac = c
                       THEN [mac |-> NoMac, allocated |-> tab[ip].allocated,
                             expiry |-> clock + DeclineTime]
                       ELSE tab[ip]]
    BY <1>1, DeclineEffect DEF tab
<1>3. \A a \in P : tab[a].mac # c => o.leases[a] = tab[a]
    BY <1>2, Zenon
<1> QED
    BY <1>2, <1>3, Zenon DEF Provides, Holds, P, tab

(* Whatever client c has sent *)
LEMMA Provided ==
    ASSUME net \in Nets, clock \in Nat, Tables, NEW s \in Servers, NEW m \in Asks,
           NEW o \in Dispatch(leases[s], clock, m, s), Serves(s, m, o),
           NEW c \in net.clients, m.mac = c, m.type = "REQUEST" => m.serverid # 0
    PROVE  /\ Provides(c, s, m, o)
           /\ \A e \in Servers : e # s => leases'[e] = leases[e]
<1>1. leases' = [leases EXCEPT ![s] = o.leases] /\ leases = [e \in Servers |-> leases[e]]
    BY DEF Serves, Tables
<1>2. leases'[s] = o.leases
    BY <1>1
<1>3. \A e \in Servers : e # s => leases'[e] = leases[e]
    BY <1>1
<1>4. m.type \in {"DISCOVER", "REQUEST", "DECLINE"}
    BY Zenon DEF Asks
<1>5. CASE m.type = "DISCOVER"
  <2>1. o \in dhcpd_discover(leases[s], clock, m, s)
    BY <1>5, Zenon DEF Dispatch
  <2> QED
    BY <1>2, <1>3, <1>5, <2>1, DiscoverServed
<1>6. CASE m.type = "REQUEST"
  <2>1. o \in dhcpd_request(leases[s], clock, m, s)
    BY <1>6, Zenon DEF Dispatch
  <2> QED
    BY <1>2, <1>3, <1>6, <2>1, RequestServed
<1>7. CASE m.type = "DECLINE"
  <2>1. o \in dhcpd_decline(leases[s], clock, m)
    BY <1>7, Zenon DEF Dispatch
  <2> QED
    BY <1>2, <1>3, <1>7, <2>1, DeclineServed
<1> QED
    BY <1>4, <1>5, <1>6, <1>7, Zenon

(* The sockets once server s has taken m and sent what it had to *)
LEMMA ServedSockets ==
    ASSUME net \in Nets, Sockets(sock), NEW s \in Servers, NEW m \in Asks, NEW o,
           Serves(s, m, o), NEW c \in net.clients
    PROVE  /\ \A e \in Servers : Behind(c, e, {})
           /\ \A e \in Servers : e # s => sock'[e] = sock[e]
           /\ \A j \in DOMAIN sock'[s] : \E k \in DOMAIN sock[s] :
                1 < k /\ sock'[s][j] = sock[s][k]
           /\ m.mac # c => sock'[c] = sock[c]
           /\ m.mac = c => /\ Flow(sock'[c], sock[c], o.reply)
                           /\ \A r \in o.reply : r.xid = m.xid
<1>1. /\ 1 \in DOMAIN sock[s] /\ sock'[s] = Taken(s, 1)[s]
      /\ \A e \in net.clients \cup Servers : e \notin {s, m.mac} => sock'[e] = sock[e]
    BY Zenon DEF Serves
<1>2. m.mac \in net.clients
    BY Zenon DEF Asks
<1>3. \A e \in Servers : e \notin net.clients
    BY NetFacts, Zenon
<1>4. \A e \in Servers : e # s => sock'[e] = sock[e]
    BY <1>1, <1>2, <1>3, Zenon
<1>5. /\ Flow(sock'[s], sock[s], {}) /\ Len(sock'[s]) = Len(sock[s]) - 1
      /\ \A j \in 1 .. Len(sock[s]) - 1 :
           sock'[s][j] = sock[s][IF j < 1 THEN j ELSE j + 1]
      /\ sock'[s] \in Seq(Asks) /\ sock[s] \in Seq(Asks)
  <2> DEFINE q == Taken(s, 1)
  <2>1. /\ Flow(q[s], sock[s], {}) /\ Len(q[s]) = Len(sock[s]) - 1
        /\ \A j \in 1 .. Len(sock[s]) - 1 :
             q[s][j] = sock[s][IF j < 1 THEN j ELSE j + 1]
        /\ Sockets(q)
    BY <1>1, TakeOne
  <2> HIDE DEF q
  <2>2. q[s] \in Seq(Asks) /\ sock[s] \in Seq(Asks)
    BY <2>1, Zenon DEF Sockets
  <2> QED
    BY <1>1, <2>1, <2>2 DEF q
<1>6. \A e \in Servers : Behind(c, e, {})
  <2>1. \A e \in Servers : Flow(sock'[e], sock[e], {})
    BY <1>4, <1>5, FlowStays
  <2> QED
    BY <2>1, FlowBehind, Zenon
<1>7. ASSUME NEW j \in DOMAIN sock'[s]
      PROVE  \E k \in DOMAIN sock[s] : 1 < k /\ sock'[s][j] = sock[s][k]
  <2>1. /\ j \in 1 .. Len(sock[s]) - 1 /\ Len(sock[s]) \in Nat
        /\ DOMAIN sock[s] = 1 .. Len(sock[s])
    BY <1>5
  <2>2. sock'[s][j] = sock[s][j + 1] /\ 1 < j + 1 /\ j + 1 \in DOMAIN sock[s]
    BY <1>5, <2>1
  <2> QED
    BY <2>2, Zenon
<1>8. m.mac # c => sock'[c] = sock[c]
    BY <1>1, <1>3
<1>9. ASSUME m.mac = c
      PROVE  Flow(sock'[c], sock[c], o.reply) /\ \A r \in o.reply : r.xid = m.xid
  <2>1. CASE o.reply = {} /\ sock'[m.mac] = sock[m.mac]
    BY <1>9, <2>1, FlowStays
  <2>2. CASE \E r \in Answers(m.mac) : /\ o.reply = {r} /\ r.xid = m.xid
                                       /\ Flow(sock'[m.mac], sock[m.mac], {r})
    BY <1>9, <2>2, Zenon
  <2> QED
    BY <2>1, <2>2, Zenon DEF Serves
<1> QED
    BY <1>4, <1>6, <1>7, <1>8, <1>9

(* What a server does for another client leaves client c where it is *)
LEMMA ServerOther ==
    ASSUME NetTyped, UNCHANGED net, NEW c \in net.clients, Leased(c), NEW s \in Servers,
           NEW m \in Asks, NEW o \in Dispatch(leases[s], clock, m, s), Serves(s, m, o),
           m.mac # c, m.type = "REQUEST" => m.serverid # 0
    PROVE  Leased(c)'
<1>1. net \in Nets /\ clock \in Nat /\ Tables /\ Sockets(sock)
    BY DEF NetTyped
<1>2. UNCHANGED <<st, clock>>
    BY Zenon DEF Serves
<1>3. (\A e \in Servers : Behind(c, e, {})) /\ sock'[c] = sock[c]
    BY <1>1, ServedSockets, Zenon
<1>4. Kept(c)
  <2> DEFINE d == m.mac
  <2>1. d \in net.clients /\ d # c
    BY DEF Asks
  <2>2. Provides(d, s, m, o) /\ \A e \in Servers : e # s => leases'[e] = leases[e]
    BY <1>1, <2>1, Provided, Zenon
  <2> HIDE DEF d
  <2>3. \A ip \in net.pool[s] : Holds(c, s, ip) => leases'[s][ip] = leases[s][ip]
    BY <2>1, <2>2, Zenon DEF Provides
  <2> QED
    BY <1>2, <2>2, <2>3, Zenon DEF Kept
<1>5. Flow(sock'[c], sock[c], {})
    BY <1>3, FlowStays, Zenon
<1>6. Undisturbed(c)
    BY <1>2, <1>3, <1>4, <1>5, Zenon DEF Undisturbed
<1>7. SamePhase(c)
    BY <1>2, Zenon DEF SamePhase, Confirmed
<1> QED
    BY <1>6, <1>7, LeasedStays, Zenon

-----------------------------------------------------------------------------
(* Server s takes the message m of client c, and o is what it does *)
ServedTo(c, s, m, o) ==
    /\ UNCHANGED <<net, st, clock>>
    /\ 1 \in DOMAIN sock[s] /\ m = sock[s][1] /\ m.mac = c
    /\ m.type \in {"DISCOVER", "REQUEST", "DECLINE"}
    /\ Provides(c, s, m, o)
    /\ \A e \in Servers : e # s => leases'[e] = leases[e]
    /\ \A e \in Servers : Behind(c, e, {})
    /\ \A j \in DOMAIN sock'[s] : \E k \in DOMAIN sock[s] :
         1 < k /\ sock'[s][j] = sock[s][k]
    /\ Flow(sock'[c], sock[c], o.reply)
    /\ \A r \in o.reply : r.xid = m.xid

(* A reservation lasts, unless its client has sent a DECLINE *)
LEMMA ServedHolds ==
    ASSUME clock \in Nat, NEW c, NEW s \in Servers, NEW m, NEW o, ServedTo(c, s, m, o),
           NEW e \in Servers, NEW ip \in net.pool[e], Holds(c, e, ip),
           ~Pending(c, e, "DECLINE")
    PROVE  /\ Holds(c, e, ip)'
           /\ ~Pending(c, e, "DISCOVER") =>
                \/ leases'[e][ip] = leases[e][ip]
                \/ leases'[e][ip].mac = c /\ leases'[e][ip].expiry = clock + LeaseTime
<1>1. /\ Servers' = Servers /\ net' = net /\ clock' = clock
      /\ leases[e][ip].mac = c /\ clock < leases[e][ip].expiry
    BY SameNet, Zenon DEF ServedTo, Holds
<1>2. CASE e # s
  <2>1. leases'[e] = leases[e]
    BY <1>2, Zenon DEF ServedTo
  <2> QED
    BY <1>1, <2>1, Zenon DEF Holds
<1>3. CASE e = s
  <2>1. m.type # "DECLINE"
    BY <1>3, Zenon DEF ServedTo, Pending
  <2>2. ~Pending(c, e, "DISCOVER") => m.type # "DISCOVER"
    BY <1>3, Zenon DEF ServedTo, Pending
  <2>3. CASE m.type = "DISCOVER"
    <3>1. leases'[s][ip].mac = c /\ clock < leases'[s][ip].expiry
        BY <1>1, <1>3, <2>3, Zenon DEF ServedTo, Provides
    <3> QED
        BY <1>1, <1>3, <2>2, <2>3, <3>1, Zenon DEF Holds
  <2>4. CASE m.type = "REQUEST"
    <3>1. \/ leases'[s][ip] = leases[s][ip]
          \/ leases'[s][ip].mac = c /\ leases'[s][ip].expiry = clock + LeaseTime
        BY <1>1, <1>3, <2>4, Zenon DEF ServedTo, Provides
    <3>2. clock < clock + LeaseTime
        BY LeaseConfig
    <3> QED
        BY <1>1, <1>3, <3>1, <3>2 DEF Holds
  <2> QED
    BY <2>1, <2>3, <2>4, Zenon DEF ServedTo
<1> QED
    BY <1>2, <1>3

(* Nothing waits behind the message taken that may not follow it *)
LEMMA HeadGone ==
    ASSUME NEW c, NEW s \in Servers, NEW m, NEW o, ServedTo(c, s, m, o),
           NEW then, Before(c, s, m.type, then), m.xid = st[c].xid
    PROVE  ~Pending(c, s, then)'
<1> SUFFICES ASSUME NEW j \in DOMAIN sock'[s], sock'[s][j].mac = c
             PROVE  sock'[s][j].type # then
    BY DEF Pending
<1>1. PICK k \in DOMAIN sock[s] : 1 < k /\ sock'[s][j] = sock[s][k]
    BY Zenon DEF ServedTo
<1>2. 1 \in DOMAIN sock[s] /\ m = sock[s][1] /\ m.mac = c
    BY Zenon DEF ServedTo
<1> QED
    BY <1>1, <1>2 DEF Before

(* The answer carries the id of the message *)
LEMMA ServedNumbered ==
    ASSUME NEW c, NEW s \in Servers, NEW m, NEW o, ServedTo(c, s, m, o), Numbered(c)
    PROVE  Numbered(c)'
<1>1. UNCHANGED net /\ st' = st /\ \A e \in Servers : Behind(c, e, {})
    BY Zenon DEF ServedTo
<1>2. m.xid <= st[c].xid
    BY Zenon DEF ServedTo, Numbered
<1>3. ASSUME NEW i \in DOMAIN sock'[c] PROVE sock'[c][i].xid <= st[c].xid
  <2>1. sock'[c][i] \in o.reply \/ \E j \in DOMAIN sock[c] : sock'[c][i] = sock[c][j]
    BY Zenon DEF ServedTo, Flow
  <2>2. \A r \in o.reply : r.xid = m.xid
    BY Zenon DEF ServedTo
  <2> QED
    BY <1>2, <2>1, <2>2 DEF Numbered
<1> DEFINE new == {}
<1>4. \A n \in new : FALSE
    OBVIOUS
<1>5. \A e \in Servers : Behind(c, e, new)
    BY <1>1, Zenon
<1> HIDE DEF new
<1> QED
    BY <1>1, <1>3, <1>4, <1>5, NumberedAfter, Zenon

(* An OFFER is good *)
LEMMA ServedDiscovering ==
    ASSUME clock \in Nat, NEW c, NEW s \in Servers, NEW m, NEW o, ServedTo(c, s, m, o),
           Discovering(c)
    PROVE  Discovering(c)'
<1> DEFINE got == o.reply
<1>1. /\ UNCHANGED net /\ st'[c].xid = st[c].xid
      /\ \A e \in Servers : Behind(c, e, {})
      /\ Flow(sock'[c], sock[c], got)
    BY Zenon DEF ServedTo
<1>2. ASSUME NEW r \in got, r.xid = st[c].xid
      PROVE  r.type # "ACK" /\ (r.type = "OFFER" => Promised(c, r)')
  <2>1. /\ m.xid = st[c].xid /\ Replied(c, s, m, r) /\ clock' = clock
        /\ 1 \in DOMAIN sock[s] /\ m = sock[s][1] /\ m.mac = c
    BY <1>2, Zenon DEF ServedTo, Provides
  <2>2. m.type # "REQUEST"
    BY <2>1, Zenon DEF Discovering
  <2>3. /\ m.type = "DISCOVER" /\ r.type = "OFFER"
        /\ r.serverid = s /\ r.yiaddr \in net.pool[s]
        /\ leases'[s][r.yiaddr].mac = c /\ clock < leases'[s][r.yiaddr].expiry
    BY <2>1, <2>2, Zenon DEF Replied
  <2>4. Before(c, s, "DISCOVER", "DECLINE")
    BY DEF Discovering
  <2>5. ~Pending(c, s, "DECLINE")'
    BY <2>1, <2>3, <2>4, HeadGone, Zenon
  <2>6. Promised(c, r)'
    BY <1>1, <2>1, <2>3, <2>5, SameNet, Zenon DEF Promised, Holds
  <2> QED
    BY <2>3, <2>6
<1>3. \A e \in Servers : \A ip \in net.pool[e] :
        Holds(c, e, ip) /\ ~Pending(c, e, "DECLINE") => Holds(c, e, ip)'
    BY ServedHolds
<1> DEFINE new == {}
<1>4. \A n \in new : FALSE
    OBVIOUS
<1>5. \A e \in Servers : Behind(c, e, new)
    BY <1>1, Zenon
<1> HIDE DEF got, new
<1> QED
    BY <1>1, <1>2, <1>3, <1>4, <1>5, DiscoveringAfter, Zenon

(* An ACK is for the address asked for, and for a whole lease time *)
LEMMA ServedAsked ==
    ASSUME clock \in Nat, Tables, NEW c, c # NoMac, NEW s \in Servers, NEW m, NEW o,
           ServedTo(c, s, m, o), NEW e \in Servers, NEW ip \in net.pool[e], Asked(c, e, ip)
    PROVE  Asked(c, e, ip)'
<1> DEFINE got == o.reply
<1>1. /\ UNCHANGED net /\ st'[c].xid = st[c].xid /\ clock' = clock
      /\ \A x \in Servers : Behind(c, x, {})
      /\ Flow(sock'[c], sock[c], got)
    BY Zenon DEF ServedTo
<1>2. Holds(c, e, ip) /\ ~Pending(c, e, "DECLINE")
    BY Zenon DEF Asked
<1>3. Holds(c, e, ip)'
    BY <1>2, ServedHolds, Zenon
<1>4. ~Pending(c, e, "DECLINE")'
    BY <1>1, <1>2, PendingStays
<1>5. ASSUME leases[e][ip].expiry >= clock + LeaseTime, ~Pending(c, e, "DISCOVER")
      PROVE  leases'[e][ip].expiry >= clock' + LeaseTime
  <2>1. \/ leases'[e][ip] = leases[e][ip]
        \/ leases'[e][ip].mac = c /\ leases'[e][ip].expiry = clock + LeaseTime
    BY <1>2, <1>5, ServedHolds, Zenon
  <2>2. clock + LeaseTime >= clock + LeaseTime
    BY LeaseConfig
  <2> QED
    BY <1>1, <1>5, <2>1, <2>2, Zenon
<1>6. ASSUME NEW r \in got, r.xid = st[c].xid, r.type = "ACK"
      PROVE  /\ r.yiaddr = ip /\ r.leasetime = LeaseTime
             /\ leases'[e][ip].expiry >= clock' + LeaseTime
             /\ ~Pending(c, e, "DISCOVER")'
  <2>1. /\ m.xid = st[c].xid /\ Replied(c, s, m, r)
        /\ 1 \in DOMAIN sock[s] /\ m = sock[s][1] /\ m.mac = c
    BY <1>6, Zenon DEF ServedTo, Provides
  <2>2. /\ m.type = "REQUEST" /\ m.serverid = s
        /\ r.leasetime = LeaseTime /\ r.yiaddr \in net.pool[s]
        /\ leases[s][r.yiaddr].mac = c
        /\ leases'[s][r.yiaddr].expiry = clock + LeaseTime
    BY <1>6, <2>1, Zenon DEF Replied
  <2>3. m.serverid = e
    BY <2>1, <2>2, Zenon DEF Asked
  <2>4. r.yiaddr = ip
    <3>1. leases[e] \in [net.pool[e] -> Lease] /\ OneSlot(leases[e]) /\ leases[e][ip].mac = c
        BY <1>2, Zenon DEF Tables, Holds
    <3>2. DOMAIN leases[e] = net.pool[e]
        BY <3>1
    <3> QED
        BY <2>2, <2>3, <3>1, <3>2, Zenon DEF OneSlot
  <2>5. Before(c, s, "REQUEST", "DISCOVER")
    BY <2>2, <2>3, Zenon DEF Asked
  <2>6. ~Pending(c, s, "DISCOVER")'
    BY <2>1, <2>2, <2>5, HeadGone, Zenon
  <2>7. clock + LeaseTime >= clock + LeaseTime
    BY LeaseConfig
  <2> QED
    BY <1>1, <2>2, <2>3, <2>4, <2>6, <2>7, Zenon
<1> HIDE DEF got
<1> DEFINE new == {}
<1>7. \A n \in new : FALSE
    OBVIOUS
<1>8. \A n \in new : n.type # "DISCOVER" /\ (n.type = "REQUEST" => n.serverid = e)
    BY <1>7, Zenon
<1>9. \A x \in Servers : Behind(c, x, new)
    BY <1>1, Zenon
<1> HIDE DEF new
<1> QED
    BY <1>1, <1>3, <1>4, <1>5, <1>6, <1>8, <1>9, AskedAfter, Zenon

(* A REQUEST that comes late makes a lease longer *)
LEMMA ServedBound ==
    ASSUME clock \in Nat, NEW c, NEW s \in Servers, NEW m, NEW o, ServedTo(c, s, m, o),
           NEW e \in Servers, NEW ip \in net.pool[e], BoundTo(c, e, ip)
    PROVE  BoundTo(c, e, ip)'
<1>1. st' = st /\ clock' = clock /\ Behind(c, e, {})
    BY Zenon DEF ServedTo
<1>2. Holds(c, e, ip) /\ ~Pending(c, e, "DECLINE") /\ ~Pending(c, e, "DISCOVER")
    BY Zenon DEF BoundTo, Secure
<1>3. /\ Holds(c, e, ip)'
      /\ \/ leases'[e][ip] = leases[e][ip]
         \/ leases'[e][ip].expiry = clock + LeaseTime
    BY <1>2, ServedHolds, Zenon
<1>4. ~Pending(c, e, "DECLINE")' /\ ~Pending(c, e, "DISCOVER")'
    BY <1>1, <1>2, PendingStays
<1>5. Secure(c, e, ip)'
    BY <1>3, <1>4, Zenon DEF Secure
<1>6. clock + LeaseTime >= clock + LeaseTime
    BY LeaseConfig
<1> QED
    BY <1>1, <1>3, <1>5, <1>6, Zenon DEF BoundTo

(* What a server does for client c *)
LEMMA ServerOwn ==
    ASSUME NetTyped, UNCHANGED net, NEW c \in net.clients, Leased(c), NEW s \in Servers,
           NEW m \in Asks, NEW o \in Dispatch(leases[s], clock, m, s), Serves(s, m, o),
           m.mac = c
    PROVE  Leased(c)'
<1>1. net \in Nets /\ clock \in Nat /\ Tables /\ Sockets(sock) /\ c # NoMac
    BY NetFacts, LeaseConfig, Zenon DEF NetTyped
<1>2. /\ UNCHANGED <<st, clock>> /\ 1 \in DOMAIN sock[s] /\ m = sock[s][1]
      /\ m.type \in {"DISCOVER", "REQUEST", "DECLINE"}
    BY Zenon DEF Serves, Asks
<1>3. m.type = "REQUEST" => m.serverid # 0
    BY <1>2, Zenon DEF Leased, Numbered
<1>4. Provides(c, s, m, o) /\ \A e \in Servers : e # s => leases'[e] = leases[e]
    BY <1>1, <1>3, Provided, Zenon
<1>5. /\ \A e \in Servers : Behind(c, e, {})
      /\ \A j \in DOMAIN sock'[s] : \E k \in DOMAIN sock[s] :
           1 < k /\ sock'[s][j] = sock[s][k]
      /\ Flow(sock'[c], sock[c], o.reply)
      /\ \A r \in o.reply : r.xid = m.xid
    BY <1>1, ServedSockets, Zenon
<1>6. ServedTo(c, s, m, o)
    BY <1>2, <1>4, <1>5, Zenon DEF ServedTo
<1>7. Numbered(c)'
    BY <1>6, ServedNumbered, Zenon DEF Leased
<1>8. st'[c].pc \in {"discover", "offer"} => Discovering(c)'
    BY <1>1, <1>2, <1>6, ServedDiscovering, Zenon DEF Leased
<1>9. st'[c].pc \in {"request", "ack"} => Requesting(c)'
  <2> SUFFICES ASSUME Requesting(c) PROVE Requesting(c)'
    BY <1>2, Zenon DEF Leased
  <2>1. PICK e \in Servers : \E ip \in net.pool[e] : RequestsFrom(c, e, ip)
    BY Zenon DEF Requesting
  <2>2. PICK ip \in net.pool[e] : RequestsFrom(c, e, ip)
    BY <2>1
  <2>3. Asked(c, e, ip)'
    BY <1>1, <1>6, <2>2, ServedAsked, Zenon DEF RequestsFrom
  <2>4. RequestsFrom(c, e, ip)'
    BY <1>2, <2>2, <2>3, Zenon DEF RequestsFrom
  <2> QED
    BY <2>4, SameNet, Zenon DEF Requesting
<1>10. Confirmed(c)' => Bound(c)'
  <2> SUFFICES ASSUME Bound(c) PROVE Bound(c)'
    BY <1>2, Zenon DEF Leased, Confirmed
  <2>1. PICK e \in Servers : \E ip \in net.pool[e] : BoundTo(c, e, ip)
    BY Zenon DEF Bound
  <2>2. PICK ip \in net.pool[e] : BoundTo(c, e, ip)
    BY <2>1, Zenon
  <2>3. BoundTo(c, e, ip)'
    BY <1>1, <1>6, <2>2, ServedBound, Zenon
  <2> QED
    BY <2>3, SameNet, Zenon DEF Bound
<1> QED
    BY <1>7, <1>8, <1>9, <1>10 DEF Leased

-----------------------------------------------------------------------------
(* Datagrams get lost *)
LEMMA LoseLeased ==
    ASSUME NetTyped, UNCHANGED net, Lose, NEW c \in net.clients, Leased(c)
    PROVE  Leased(c)'
<1>1. net \in Nets /\ Sockets(sock) /\ UNCHANGED <<st, leases, clock>>
    BY DEF NetTyped, Lose
<1>2. PICK e \in DOMAIN sock : \E i \in DOMAIN sock[e] : sock' = Taken(e, i)
    BY DEF Lose
<1>3. PICK i \in DOMAIN sock[e] : sock' = Taken(e, i)
    BY <1>2
<1>4. e \in net.clients \cup Servers
    BY <1>1, Zenon DEF Sockets
<1>5. /\ Flow(sock'[e], sock[e], {})
      /\ \A d \in net.clients \cup Servers : d # e => sock'[d] = sock[d]
    BY <1>1, <1>3, <1>4, TakeOne, Zenon
<1>6. \A d \in net.clients \cup Servers : Flow(sock'[d], sock[d], {})
    BY <1>5, FlowStays, Zenon
<1>7. \A s \in Servers : Behind(c, s, {})
    BY <1>6, FlowBehind
<1>8. Undisturbed(c)
    BY <1>1, <1>6, <1>7, Zenon DEF Undisturbed, Kept
<1>9. SamePhase(c)
    BY <1>1 DEF SamePhase, Confirmed
<1> QED
    BY <1>8, <1>9, LeasedStays

(* Time passes while client c sleeps, and not beyond its lease *)
LEMMA TickLeased ==
    ASSUME NetTyped, UNCHANGED net, net.quick, Tick, NEW c \in net.clients, Leased(c)
    PROVE  Leased(c)'
<1>1. /\ clock \in Nat /\ clock' = clock + 1 /\ UNCHANGED <<net, st, leases, sock>>
      /\ ~Urgent(c) /\ Servers' = Servers /\ LeaseTime \in Nat
    BY SameNet, LeaseConfig, Zenon DEF NetTyped, Tick
<1>2. /\ st[c].pc \notin {"discover", "offer", "request", "ack", "callback", "nap"}
      /\ st[c].pc = "sleep" => ~(clock >= st[c].wake)
    BY <1>1 DEF Urgent, Sending, Waiting
<1>3. Numbered(c)'
    BY <1>1, Zenon DEF Leased, Numbered
<1>4. ASSUME NEW s \in Servers, NEW ip \in net.pool[s], st[c].pc = "sleep", BoundTo(c, s, ip)
      PROVE  BoundTo(c, s, ip)'
  <2>1. Secure(c, s, ip) /\ clock <= st[c].wake /\ st[c].wake < leases[s][ip].expiry
        /\ st[c].wake < clock + LeaseTime
    BY <1>4, Zenon DEF BoundTo
  <2>2. st[c].wake \in Nat /\ leases[s][ip].expiry \in Nat
    <3>1. st[c] \in Thread /\ leases[s] \in [net.pool[s] -> Lease]
        BY NetFacts DEF NetTyped, Threads, Tables
    <3>2. leases[s][ip] \in Lease
        BY <3>1, Zenon
    <3> QED
        BY <3>1, <3>2 DEF Thread, Lease
  <2>3. /\ clock + 1 <= st[c].wake /\ clock + 1 < leases[s][ip].expiry
        /\ st[c].wake < clock + 1 + LeaseTime
    BY <1>1, <1>2, <1>4, <2>1, <2>2
  <2>4. Holds(c, s, ip)'
    BY <1>1, <2>1, <2>3 DEF Secure, Holds
  <2>5. Secure(c, s, ip)'
    BY <1>1, <2>1, <2>4, Zenon DEF Secure, Pending
  <2> QED
    BY <1>1, <1>4, <2>1, <2>3, <2>5, Zenon DEF BoundTo
<1>5. Confirmed(c)' => Bound(c)'
  <2> SUFFICES ASSUME Confirmed(c)' PROVE Bound(c)'
    OBVIOUS
  <2>1. st[c].pc = "sleep" /\ Bound(c)
    BY <1>1, <1>2, Zenon DEF Confirmed, Leased
  <2>2. PICK s \in Servers : \E ip \in net.pool[s] : BoundTo(c, s, ip)
    BY <2>1, Zenon DEF Bound
  <2> QED
    BY <1>1, <1>4, <2>1, <2>2 DEF Bound
<1> QED
    BY <1>1, <1>2, <1>3, <1>5, Zenon DEF Leased

(* No client has begun *)
LEMMA InitLeased == ASSUME NetInit PROVE LInv
<1>1. NetTyped
    BY InitTyped
<1> SUFFICES ASSUME NEW c \in net.clients PROVE Leased(c)
    BY DEF LInv
<1>2. c \in Client /\ Servers \cap net.clients = {} /\ net \in Nets
    BY <1>1, NetFacts DEF NetTyped
<1>3. st[c].pc = "idle"
    BY <1>2, Zenon DEF NetInit, ClientInit
<1>4. \A e \in net.clients \cup Servers : sock[e] = <<>>
    BY DEF NetInit, WireInit
<1>5. \A e \in net.clients \cup Servers : DOMAIN sock[e] = {}
    BY <1>4
<1>6. Numbered(c)
    BY <1>5 DEF Numbered
<1> QED
    BY <1>3, <1>6 DEF Leased, Confirmed

(* Every step keeps it; transaction ids do not come round *)
LEMMA NextLeased ==
    ASSUME NetTyped, LInv, NetNext, MaxXid \in 0 .. XidMod - 1
    PROVE  LInv'
<1>1. UNCHANGED net
    BY DEF NetNext
<1> SUFFICES ASSUME net.quick, net.faults = {}, NEW c \in net.clients PROVE Leased(c)'
    BY <1>1 DEF LInv
<1>2. \A d \in net.clients : Leased(d)
    BY DEF LInv
<1>3. ASSUME NEW d \in net.clients,
             \/ ClientRuns(d) \/ ClientAcked(d) \/ ClientFails(d) \/ ClientCaller(d)
      PROVE  Leased(c)'
  <2>1. CASE d = c
    BY <1>1, <1>2, <1>3, <2>1, OwnLeased, Zenon
  <2>2. CASE d # c
    BY <1>1, <1>2, <1>3, <2>2, OtherLeased, Zenon
  <2> QED
    BY <2>1, <2>2, Zenon
<1>4. ASSUME NEW s \in Servers, ServerReceives(s) PROVE Leased(c)'
  <2>1. net \in Nets /\ clock \in Nat /\ Sockets(sock) /\ Tables
    BY DEF NetTyped
  <2>2. PICK m \in Asks : \E o \in Dispatch(leases[s], clock, m, s) : Serves(s, m, o)
    BY <1>1, <1>4, <2>1, ServerStep, Zenon
  <2>3. PICK o \in Dispatch(leases[s], clock, m, s) : Serves(s, m, o)
    BY <2>2, Zenon
  <2>4. m.type = "REQUEST" => m.serverid # 0
    <3>1. m.mac \in net.clients /\ 1 \in DOMAIN sock[s] /\ m = sock[s][1]
        BY <2>3, Zenon DEF Asks, Serves
    <3>2. Numbered(m.mac)
        BY <1>2, <3>1, Zenon DEF Leased
    <3> QED
        BY <3>1, <3>2 DEF Numbered
  <2>5. CASE m.mac = c
    BY <1>1, <1>2, <2>3, <2>5, ServerOwn, Zenon
  <2>6. CASE m.mac # c
    BY <1>1, <1>2, <2>3, <2>4, <2>6, ServerOther, Zenon
  <2> QED
    BY <2>5, <2>6
<1>5. ASSUME NEW s \in Servers PROVE ~ServerRestarts(s)
    BY DEF ServerRestarts
<1>6. CASE Lose
    BY <1>1, <1>2, <1>6, LoseLeased
<1>7. CASE Tick
    BY <1>1, <1>2, <1>7, TickLeased
<1> QED
    BY <1>3, <1>4, <1>5, <1>6, <1>7, Zenon DEF NetNext

(* The inductive invariant holds in every state *)
LEMMA NetAlwaysLeased ==
    ASSUME MaxXid \in 0 .. XidMod - 1
    PROVE  NetInit /\ [][NetNext]_<<net, vars>> => []LInv
<1>1. NetInit => LInv
    BY InitLeased
<1>2. NetTyped /\ LInv /\ [NetNext]_<<net, vars>> => LInv'
  <2> SUFFICES ASSUME NetTyped, LInv, [NetNext]_<<net, vars>> PROVE LInv'
    OBVIOUS
  <2>1. CASE NetNext
    BY <2>1, NextLeased
  <2>2. CASE UNCHANGED <<net, vars>>
    <3>1. UNCHANGED <<net, st, leases, sock, clock>>
        BY <2>2, Zenon DEF vars
    <3>2. ASSUME NEW c \in net.clients, Leased(c) PROVE Leased(c)'
        BY <3>1, <3>2, SameNet, QuietStep, LeasedStays, Zenon DEF SamePhase, Confirmed
    <3> QED
        BY <3>1, <3>2 DEF LInv
  <2> QED
    BY <2>1, <2>2
<1> QED
    BY <1>1, <1>2, NetAlwaysTyped, PTL

(* What a client that sleeps holds *)
LEMMA LeasedHeld == ASSUME NetTyped, LInv PROVE BoundLeaseHeld
<1> SUFFICES ASSUME net.quick, net.faults = {}, NEW c \in net.clients, st[c].pc = "sleep"
             PROVE  LET l == leases[st[c].chosen.serverid][st[c].ifaddr]
                    IN  /\ st[c].presult.ipaddr = st[c].ifaddr
                        /\ l.mac = c /\ l.allocated /\ l.expiry > clock
    BY Zenon DEF BoundLeaseHeld
<1>1. Bound(c)
    BY DEF LInv, Leased, Confirmed
<1>2. PICK s \in Servers : \E ip \in net.pool[s] : BoundTo(c, s, ip)
    BY <1>1 DEF Bound
<1>3. PICK ip \in net.pool[s] : BoundTo(c, s, ip)
    BY <1>2, Zenon
<1>4. /\ st[c].chosen.serverid = s /\ st[c].ifaddr = ip /\ st[c].presult.ipaddr = ip
      /\ leases[s][ip].mac = c /\ clock < leases[s][ip].expiry
    BY <1>3 DEF BoundTo, Secure, Holds
<1>5. /\ leases[s] \in [net.pool[s] -> Lease] /\ OneSlot(leases[s])
      /\ c # NoMac /\ clock \in Nat
    BY NetFacts, LeaseConfig DEF NetTyped, Tables
<1>6. leases[s][ip] \in Lease /\ DOMAIN leases[s] = net.pool[s]
    BY <1>5, Zenon
<1>7. leases[s][ip].allocated
    BY <1>4, <1>5, <1>6 DEF OneSlot
<1>8. leases[s][ip].expiry > clock
    BY <1>4, <1>5, <1>6, Zenon DEF Lease
<1> QED
    BY <1>4, <1>7, <1>8

(* On any network without faults where exchanges are quick, whatever it      *)
(* loses or delays, however many clients and servers there are and whoever   *)
(* cancels: a client that sleeps on its lease has the address it was ACKed,  *)
(* and the server it chose has that very address reserved for it until after *)
(* now.  Transaction ids must not come round, that is, no client starts more *)
(* exchanges than there are ids.                                             *)
THEOREM NetLeaseHeld ==
    ASSUME MaxXid \in 0 .. XidMod - 1
    PROVE  NetInit /\ [][NetNext]_<<net, vars>> => []BoundLeaseHeld
<1>1. NetTyped /\ LInv => BoundLeaseHeld
    BY LeasedHeld
<1> QED
    BY <1>1, NetAlwaysTyped, NetAlwaysLeased, PTL
=============================================================================
