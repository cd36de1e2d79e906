--------------------------- MODULE DhcpNetProofs ---------------------------
(***************************************************************************)
(* Proofs about DHCP clients and servers on one network, for any number of *)
(* clients, servers and addresses, any configured times, and any losses,   *)
(* delays and errors: the shape of the state, and what each action does.   *)
(***************************************************************************)
EXTENDS DhcpNet, TLAPS

(* What a client may have on its interface *)
Addrs == {0} \cup UNION {net.pool[s] : s \in Servers}

(* What may wait in the socket of a server, and in the one of client c *)
Asks ==
    [type : {"DISCOVER", "REQUEST", "DECLINE"}, mac : net.clients,
     xid : 0 .. XidMod - 1, ciaddr : Nat, reqip : Nat, serverid : Nat,
     leasetime : {0}]

Answers(c) ==
    [type : {"OFFER", "ACK", "NAK"}, mac : {c}, xid : 0 .. XidMod - 1,
     yiaddr : Addrs, leasetime : Nat, serverid : Servers]

Places == {"idle", "begin", "callback", "nap", "sleep", "exit"} \cup Sending \cup Waiting
Results == [ipaddr : Addrs, serverid : Nat, lease_time : Nat]
Offered == [ipaddr : Addrs, serverid : Nat]

Thread ==
    [pc : Places, ifaddr : Addrs, oldaddr : Addrs, xid : 0 .. XidMod - 1,
     retries : 0 .. Retries, presult : Results, chosen : Offered, ok : BOOLEAN,
     wake : Nat, cancel : BOOLEAN, caller : {"free", "kill", "join"}]

(* Sockets that clients and servers share *)
Sockets(q) ==
    /\ q = [e \in net.clients \cup Servers |-> q[e]]
    /\ \A c \in net.clients : q[c] \in Seq(Answers(c))
    /\ \A s \in Servers : q[s] \in Seq(Asks)
    /\ \A e \in net.clients \cup Servers : Len(q[e]) <= net.room

(* A client has at most one slot in a table, and it is marked *)
OneSlot(tab) ==
    /\ \A a, b \in DOMAIN tab : tab[a].mac = tab[b].mac /\ tab[a].mac # NoMac => a = b
    /\ \A a \in DOMAIN tab : tab[a].mac # NoMac => tab[a].allocated

Tables ==
    /\ leases = [s \in Servers |-> leases[s]]
    /\ \A s \in Servers : leases[s] \in [net.pool[s] -> Lease] /\ OneSlot(leases[s])

Threads ==
    /\ st \in [Client -> Thread]
    /\ \A c \in Client : st[c].pc \in Sending => st[c].retries < Retries

(* The inductive invariant behind NetTypeOK *)
NetTyped ==
    /\ net \in Nets
    /\ clock \in Nat
    /\ Sockets(sock)
    /\ Tables
    /\ Threads

-----------------------------------------------------------------------------
(* The messages in r are those of q, in their order, and after them at most  *)
(* one of the set "new"                                                      *)
Flow(r, q, new) ==
    /\ \A j \in DOMAIN r : r[j] \in new \/ \E i \in DOMAIN q : r[j] = q[i]
    /\ \A j, k \in DOMAIN r : j < k =>
         \/ r[k] \in new /\ \E i \in DOMAIN q : r[j] = q[i]
         \/ \E i, l \in DOMAIN q : i < l /\ r[j] = q[i] /\ r[k] = q[l]

(* recv() takes one message out of the socket *)
LEMMA Removed ==
    ASSUME NEW S, NEW q \in Seq(S), NEW i \in DOMAIN q
    PROVE  /\ Without(q, i) \in Seq(S)
           /\ Len(Without(q, i)) = Len(q) - 1
           /\ \A j \in 1 .. Len(q) - 1 :
                Without(q, i)[j] = q[IF j < i THEN j ELSE j + 1]
           /\ Flow(Without(q, i), q, {})
<1> DEFINE x == SubSeq(q, 1, i - 1)
           y == SubSeq(q, i + 1, Len(q))
           r == x \o y
<1>1. /\ Len(q) \in Nat /\ i \in Nat /\ 1 <= i /\ i <= Len(q) /\ DOMAIN q = 1 .. Len(q)
    OBVIOUS
<1>2. /\ x \in Seq(S) /\ Len(x) = i - 1
      /\ \A j \in 1 .. i - 1 : x[j] = q[j]
    BY <1>1
<1>3. /\ y \in Seq(S) /\ Len(y) = Len(q) - i
      /\ \A j \in 1 .. Len(q) - i : y[j] = q[i + j]
    BY <1>1, SMTT(30)
<1> HIDE DEF x, y
<1>4. /\ r \in Seq(S) /\ Len(r) = Len(q) - 1
      /\ \A j \in 1 .. Len(q) - 1 : r[j] = IF j <= i - 1 THEN x[j] ELSE y[j - (i - 1)]
  <2>1. /\ r \in Seq(S) /\ Len(r) = Len(x) + Len(y)
        /\ \A j \in 1 .. Len(x) + Len(y) : r[j] = IF j <= Len(x) THEN x[j] ELSE y[j - Len(x)]
    BY <1>2, <1>3, SMTT(30)
  <2> QED
    BY <1>1, <1>2, <1>3, <2>1, SMTT(30)
<1> HIDE DEF r
<1>5. ASSUME NEW j \in 1 .. Len(q) - 1
      PROVE  r[j] = q[IF j < i THEN j ELSE j + 1]
  <2>1. CASE j < i
    BY <1>1, <1>2, <1>4, <2>1
  <2>2. CASE ~(j < i)
    <3>1. r[j] = y[j - (i - 1)]
        BY <1>1, <1>4, <2>2
    <3>2. j - (i - 1) \in 1 .. Len(q) - i
        BY <1>1, <2>2
    <3>3. i + (j - (i - 1)) = j + 1
        BY <1>1
    <3> QED
        BY <1>3, <2>2, <3>1, <3>2, <3>3
  <2> QED
    BY <2>1, <2>2
<1>6. Flow(r, q, {})
  <2> DEFINE p(j) == IF j < i THEN j ELSE j + 1
  <2>1. DOMAIN r = 1 .. Len(q) - 1
    BY <1>1, <1>4
  <2>2. \A j \in DOMAIN r : p(j) \in DOMAIN q
    BY <1>1, <2>1
  <2>3. \A j, k \in DOMAIN r : j < k => p(j) < p(k)
    BY <1>1, <2>1
  <2>4. \A j \in DOMAIN r : r[j] = q[p(j)]
    BY <1>5, <2>1
  <2> HIDE DEF p
  <2> QED
    BY <2>2, <2>3, <2>4 DEF Flow
<1>7. Without(q, i) = r
    BY DEF Without, r, x, y
<1> QED
    BY <1>4, <1>5, <1>6, <1>7

(* What the configuration says of the network *)
LEMMA NetFacts ==
    ASSUME net \in Nets
    PROVE  /\ Servers \subseteq Server /\ Servers \subseteq Nat \ {0}
           /\ net.clients \subseteq Client /\ Client = Mac
           /\ net.clients \cap Servers = {}
           /\ Broadcast \notin net.clients \cup Servers
           /\ net.room \in Nat \ {0}
           /\ \A s \in Servers : net.pool[s] \subseteq Nat \ {0}
           /\ net.quick \in BOOLEAN
           /\ net.cancellers \subseteq net.clients
    BY NetConfig, WireConfig, Zenon DEF Servers

(* A sequence with one more message *)
LEMMA Appended ==
    ASSUME NEW S, NEW q \in Seq(S), NEW m \in S
    PROVE  /\ Append(q, m) \in Seq(S)
           /\ Len(Append(q, m)) = Len(q) + 1
           /\ Flow(Append(q, m), q, {m})
<1> DEFINE r == Append(q, m)
<1>1. /\ Len(q) \in Nat /\ DOMAIN q = 1 .. Len(q)
      /\ r \in Seq(S) /\ Len(r) = Len(q) + 1 /\ DOMAIN r = 1 .. Len(q) + 1
      /\ r[Len(q) + 1] = m /\ \A j \in 1 .. Len(q) : r[j] = q[j]
    OBVIOUS
<1> HIDE DEF r
<1>2. \A j \in DOMAIN r : r[j] = m \/ (j \in DOMAIN q /\ r[j] = q[j])
    BY <1>1
<1>3. \A j, k \in DOMAIN r : j < k => j \in DOMAIN q /\ r[j] = q[j]
    BY <1>1
<1>4. Flow(r, q, {m})
    BY <1>1, <1>2, <1>3 DEF Flow
<1> QED
    BY <1>1, <1>4 DEF r

(* Nothing happens to a socket *)
LEMMA FlowStays == ASSUME NEW q, NEW new PROVE Flow(q, q, new)
    BY DEF Flow

(* What a client sends reaches the servers it is for, or one that has no     *)
(* room for it drops it                                                      *)
LEMMA SendAsk ==
    ASSUME net \in Nets, NEW q, Sockets(q), NEW m \in Asks,
           NEW to \in Servers \cup {Broadcast}
    PROVE  LET r == Sendto(q, to, m)
           IN  /\ Sockets(r)
               /\ \A c \in net.clients : r[c] = q[c]
               /\ \A s \in Servers : Flow(r[s], q[s], {m})
               /\ \A s \in Servers : to \notin {s, Broadcast} => r[s] = q[s]
               /\ \A s \in Servers : to \in {s, Broadcast} /\ Len(q[s]) < net.room
                                       => r[s] = Append(q[s], m)
<1> DEFINE r == Sendto(q, to, m)
<1>1. DOMAIN q = net.clients \cup Servers
    BY DEF Sockets
<1>2. /\ r = [e \in net.clients \cup Servers |-> r[e]]
      /\ \A e \in net.clients \cup Servers :
           r[e] = IF Reaches(e, to) /\ Len(q[e]) < net.room THEN Append(q[e], m) ELSE q[e]
    BY <1>1 DEF Sendto
<1> HIDE DEF r
<1>3. \A c \in net.clients : ~Reaches(c, to)
    BY NetFacts, WireConfig DEF Reaches
<1>4. \A s \in Servers : Reaches(s, to) <=> to \in {s, Broadcast}
    BY NetFacts DEF Reaches
<1>5. \A c \in net.clients : r[c] = q[c]
    BY <1>2, <1>3, Zenon
<1>6. ASSUME NEW s \in Servers
      PROVE  /\ r[s] \in Seq(Asks) /\ Len(r[s]) <= net.room
             /\ Flow(r[s], q[s], {m})
             /\ to \notin {s, Broadcast} => r[s] = q[s]
             /\ to \in {s, Broadcast} /\ Len(q[s]) < net.room => r[s] = Append(q[s], m)
  <2>1. q[s] \in Seq(Asks) /\ Len(q[s]) <= net.room
    BY Zenon DEF Sockets
  <2> Len(q[s]) \in Nat
    BY <2>1
  <2>2. CASE Reaches(s, to) /\ Len(q[s]) < net.room
    <3>1. r[s] = Append(q[s], m)
        BY <1>2, <2>2, Zenon
    <3>2. r[s] \in Seq(Asks) /\ Len(r[s]) = Len(q[s]) + 1 /\ Flow(r[s], q[s], {m})
        BY <2>1, <3>1, Appended
    <3> QED
        BY <1>4, <2>1, <2>2, <3>1, <3>2, NetFacts
  <2>3. CASE ~(Reaches(s, to) /\ Len(q[s]) < net.room)
    <3>1. r[s] = q[s]
        BY <1>2, <2>3, Zenon
    <3> QED
        BY <1>4, <2>1, <2>3, <3>1, FlowStays
  <2> QED
    BY <2>2, <2>3
<1>7. Sockets(r)
    BY <1>2, <1>5, <1>6, Zenon DEF Sockets
<1> QED
    BY <1>5, <1>6, <1>7, Zenon DEF r

(* What a server sends reaches the client it is for *)
LEMMA SendAnswer ==
    ASSUME net \in Nets, NEW q, Sockets(q), NEW c \in net.clients, NEW m \in Answers(c)
    PROVE  LET r == Sendto(q, c, m)
           IN  /\ Sockets(r)
               /\ \A e \in net.clients \cup Servers : e # c => r[e] = q[e]
               /\ Flow(r[c], q[c], {m})
               /\ Len(q[c]) < net.room => r[c] = Append(q[c], m)
<1> DEFINE r == Sendto(q, c, m)
<1>1. DOMAIN q = net.clients \cup Servers
    BY DEF Sockets
<1>2. /\ r = [e \in net.clients \cup Servers |-> r[e]]
      /\ \A e \in net.clients \cup Servers :
           r[e] = IF Reaches(e, c) /\ Len(q[e]) < net.room THEN Append(q[e], m) ELSE q[e]
    BY <1>1 DEF Sendto
<1> HIDE DEF r
<1>3. \A e \in net.clients \cup Servers : Reaches(e, c) <=> e = c
    BY NetFacts DEF Reaches
<1>4. \A e \in net.clients \cup Servers : e # c => r[e] = q[e]
    BY <1>2, <1>3, Zenon
<1>5. /\ r[c] \in Seq(Answers(c)) /\ Len(r[c]) <= net.room
      /\ Flow(r[c], q[c], {m})
      /\ Len(q[c]) < net.room => r[c] = Append(q[c], m)
  <2>1. q[c] \in Seq(Answers(c)) /\ Len(q[c]) <= net.room
    BY Zenon DEF Sockets
  <2> Len(q[c]) \in Nat
    BY <2>1
  <2>2. CASE Len(q[c]) < net.room
    <3>1. r[c] = Append(q[c], m)
        BY <1>2, <1>3, <2>2, Zenon
    <3>2. r[c] \in Seq(Answers(c)) /\ Len(r[c]) = Len(q[c]) + 1 /\ Flow(r[c], q[c], {m})
        BY <2>1, <3>1, Appended
    <3> QED
        BY <2>1, <2>2, <3>1, <3>2, NetFacts
  <2>3. CASE ~(Len(q[c]) < net.room)
    <3>1. r[c] = q[c]
        BY <1>2, <2>3, Zenon
    <3> QED
        BY <2>1, <2>3, <3>1, FlowStays
  <2> QED
    BY <2>2, <2>3
<1>6. Sockets(r)
  <2>1. \A d \in net.clients : r[d] \in Seq(Answers(d))
    BY <1>4, <1>5, Zenon DEF Sockets
  <2>2. \A s \in Servers : s # c
    BY NetFacts
  <2>3. \A s \in Servers : r[s] \in Seq(Asks)
    BY <1>4, <2>2, Zenon DEF Sockets
  <2>4. \A e \in net.clients \cup Servers : Len(r[e]) <= net.room
    BY <1>4, <1>5, Zenon DEF Sockets
  <2> QED
    BY <1>2, <2>1, <2>3, <2>4, Zenon DEF Sockets
<1> QED
    BY <1>4, <1>5, <1>6 DEF r

(* One message is taken out of a socket *)
LEMMA TakeOne ==
    ASSUME net \in Nets, Sockets(sock), NEW e \in net.clients \cup Servers,
           NEW i \in DOMAIN sock[e]
    PROVE  LET r == Taken(e, i)
           IN  /\ Sockets(r)
               /\ \A d \in net.clients \cup Servers : d # e => r[d] = sock[d]
               /\ Flow(r[e], sock[e], {})
               /\ Len(r[e]) = Len(sock[e]) - 1
               /\ \A j \in 1 .. Len(sock[e]) - 1 :
                    r[e][j] = sock[e][IF j < i THEN j ELSE j + 1]
<1> DEFINE r == Taken(e, i)
<1>1. DOMAIN sock = net.clients \cup Servers
    BY DEF Sockets
<1>2. /\ r = [d \in net.clients \cup Servers |-> r[d]]
      /\ \A d \in net.clients \cup Servers :
           r[d] = IF d = e THEN Without(sock[e], i) ELSE sock[d]
    BY <1>1, Zenon DEF Taken
<1> HIDE DEF r
<1>3. ASSUME NEW S, sock[e] \in Seq(S)
      PROVE  /\ r[e] \in Seq(S)
             /\ Flow(r[e], sock[e], {})
             /\ Len(r[e]) = Len(sock[e]) - 1
             /\ \A j \in 1 .. Len(sock[e]) - 1 :
                  r[e][j] = sock[e][IF j < i THEN j ELSE j + 1]
  <2>1. r[e] = Without(sock[e], i)
    BY <1>2, Zenon
  <2> QED
    BY <1>3, <2>1, Removed, Zenon
<1>4. /\ Flow(r[e], sock[e], {})
      /\ Len(r[e]) = Len(sock[e]) - 1 /\ Len(sock[e]) \in Nat
      /\ \A j \in 1 .. Len(sock[e]) - 1 :
           r[e][j] = sock[e][IF j < i THEN j ELSE j + 1]
  <2>1. CASE e \in net.clients
    <3>1. sock[e] \in Seq(Answers(e))
        BY <2>1, Zenon DEF Sockets
    <3> QED
        BY <1>3, <3>1
  <2>2. CASE e \in Servers
    <3>1. sock[e] \in Seq(Asks)
        BY <2>2 DEF Sockets
    <3> QED
        BY <1>3, <3>1
  <2> QED
    BY <2>1, <2>2
<1>5. \A c \in net.clients : r[c] \in Seq(Answers(c))
    BY <1>2, <1>3, Zenon DEF Sockets
<1>6. \A s \in Servers : r[s] \in Seq(Asks)
    BY <1>2, <1>3, Zenon DEF Sockets
<1>7. \A d \in net.clients \cup Servers : Len(r[d]) <= net.room
  <2>1. \A d \in net.clients \cup Servers : Len(sock[d]) <= net.room
    BY Zenon DEF Sockets
  <2>2. Len(r[e]) <= net.room
    BY <1>4, <2>1, NetFacts
  <2> QED
    BY <1>2, <2>1, <2>2, Zenon
<1>8. Sockets(r)
    BY <1>2, <1>5, <1>6, <1>7, Zenon DEF Sockets
<1> QED
    BY <1>2, <1>4, <1>8, Zenon DEF r

-----------------------------------------------------------------------------
(* The networks' sets stay what they are *)
LEMMA SameNet ==
    ASSUME UNCHANGED net
    PROVE  /\ Servers' = Servers /\ Addrs' = Addrs /\ Asks' = Asks /\ Thread' = Thread
           /\ \A c : Answers(c)' = Answers(c)
    BY DEF Servers, Addrs, Asks, Answers, Thread, Results, Offered

(* Client c moves, the others do not *)
Moves(c) == st' = [st EXCEPT ![c] = st'[c]]

(* The new state of its thread is well formed *)
Steps(c) ==
    /\ Moves(c)
    /\ st'[c] \in Thread
    /\ st'[c].pc \in Sending => st'[c].retries < Retries

(* A step of one client keeps the type of all *)
LEMMA StepsTyped ==
    ASSUME Threads, UNCHANGED net, NEW c \in Client, Steps(c)
    PROVE  Threads' /\ \A d \in Client : d # c => st'[d] = st[d]
<1>1. /\ Moves(c) /\ st'[c] \in Thread /\ st \in [Client -> Thread]
      /\ st'[c].pc \in Sending => st'[c].retries < Retries
    BY Zenon DEF Steps, Threads
<1>2. st' = [d \in Client |-> IF d = c THEN st'[c] ELSE st[d]]
  <2> DEFINE r == st'[c]
  <2>1. st' = [st EXCEPT ![c] = r]
    BY <1>1 DEF Moves
  <2> HIDE DEF r
  <2>2. st' = [d \in Client |-> IF d = c THEN r ELSE st[d]]
    BY <1>1, <2>1, Zenon
  <2> QED
    BY <2>2 DEF r
<1>3. \A d \in Client : d # c => st'[d] = st[d]
    BY <1>2
<1>4. st' \in [Client -> Thread]
    BY <1>1, <1>2
<1>5. \A d \in Client : st'[d].pc \in Sending => st'[d].retries < Retries
    BY <1>1, <1>3 DEF Threads
<1> QED
    BY <1>3, <1>4, <1>5, SameNet DEF Threads, Sending

(* A thread whose state becomes r *)
LEMMA Becomes ==
    ASSUME Threads, NEW c \in Client, NEW r \in Thread, st' = [st EXCEPT ![c] = r],
           r.pc \in Sending => r.retries < Retries
    PROVE  Steps(c) /\ st'[c] = r
<1>1. st'[c] = r
    BY DEF Threads
<1> QED
    BY <1>1, Zenon DEF Steps, Moves

(* dhcpc_request_async starts the thread *)
LEMMA RequestAsyncStep ==
    ASSUME Threads, NEW c \in Client, RequestAsync(c)
    PROVE  /\ Steps(c) /\ UNCHANGED sock
           /\ st[c].pc = "idle" /\ st'[c] = [st[c] EXCEPT !.pc = "begin"]
<1> DEFINE r == [st[c] EXCEPT !.pc = "begin"]
<1>1. st[c] \in Thread /\ "begin" \in Places \ Sending
    BY DEF Threads, Places, Sending
<1>2. r \in Thread /\ r.pc = "begin"
    BY <1>1 DEF Thread
<1>3. st' = [st EXCEPT ![c] = r]
    BY DEF RequestAsync
<1> HIDE DEF r
<1>4. Steps(c) /\ st'[c] = r
    BY <1>1, <1>2, <1>3, Becomes, Zenon
<1> QED
    BY <1>4 DEF RequestAsync, r

(* An exchange begins, with the next transaction id *)
LEMMA BeginRequestStep ==
    ASSUME Threads, NEW c \in Client, BeginRequest(c)
    PROVE  /\ Steps(c) /\ UNCHANGED sock
           /\ st[c].pc = "begin" /\ st'[c].pc = "discover"
           /\ st'[c].xid = (st[c].xid + 1) % XidMod
           /\ st'[c].cancel = st[c].cancel /\ st'[c].caller = st[c].caller
           /\ st'[c].ifaddr = st[c].ifaddr
<1> DEFINE x == (st[c].xid + 1) % XidMod
           r == [st[c] EXCEPT !.pc = "discover", !.presult = NoResult, !.xid = x,
                              !.oldaddr = st[c].ifaddr, !.retries = 0]
<1>1. /\ st[c] \in Thread /\ "discover" \in Places /\ 0 \in 0 .. Retries /\ 0 < Retries
      /\ XidMod \in Nat \ {0}
    BY ClientConfig DEF Threads, Places, Sending
<1>2. NoResult \in Results
    BY DEF NoResult, Results, Addrs
<1>3. x \in 0 .. XidMod - 1
    BY <1>1 DEF Thread
<1>4. st' = [st EXCEPT ![c] = r]
    BY Zenon DEF BeginRequest
<1> HIDE DEF x
<1>5. /\ r \in Thread /\ r.pc = "discover" /\ r.retries = 0 /\ r.xid = x
      /\ r.cancel = st[c].cancel /\ r.caller = st[c].caller /\ r.ifaddr = st[c].ifaddr
    BY <1>1, <1>2, <1>3, Zenon DEF Thread
<1> HIDE DEF r
<1>6. Steps(c) /\ st'[c] = r
    BY <1>1, <1>4, <1>5, Becomes, Zenon
<1> QED
    BY <1>5, <1>6 DEF BeginRequest, x

(* What a step of a thread leaves alone *)
Keeps(c) ==
    /\ st'[c].xid = st[c].xid /\ st'[c].chosen = st[c].chosen
    /\ st'[c].cancel = st[c].cancel /\ st'[c].caller = st[c].caller

(* A DISCOVER is sent to all servers *)
LEMMA SendDiscoverStep ==
    ASSUME net \in Nets, Threads, NEW c \in net.clients, SendDiscover(c)
    PROVE  /\ Steps(c) /\ Keeps(c) /\ st'[c].ifaddr = st[c].ifaddr
           /\ st[c].pc = "discover" /\ st'[c].pc = "offer"
           /\ \E m \in Asks : /\ sock' = Sendto(sock, Broadcast, m)
                              /\ m.mac = c /\ m.xid = st[c].xid /\ m.type = "DISCOVER"
<1> DEFINE r == [st[c] EXCEPT !.pc = "offer", !.retries = @ + 1]
           m == [type |-> "DISCOVER", mac |-> c, xid |-> st[c].xid, ciaddr |-> 0,
                 reqip |-> 0, serverid |-> 0, leasetime |-> 0]
<1>1. /\ c \in Client /\ st[c] \in Thread /\ st[c].pc = "discover" /\ st[c].retries < Retries
      /\ "offer" \in Places \ Sending
    BY NetFacts DEF Threads, Places, Sending, Waiting, SendDiscover
<1>2. st[c].retries + 1 \in 0 .. Retries
    BY <1>1, ClientConfig DEF Thread
<1>3. st' = [st EXCEPT ![c] = r] /\ sock' = Sendto(sock, Broadcast, m)
    BY Zenon DEF SendDiscover, dhcpc_sendmsg
<1>4. /\ r \in Thread /\ r.pc = "offer" /\ r.xid = st[c].xid /\ r.chosen = st[c].chosen
      /\ r.cancel = st[c].cancel /\ r.caller = st[c].caller /\ r.ifaddr = st[c].ifaddr
    BY <1>1, <1>2, Zenon DEF Thread
<1>5. m \in Asks /\ m.mac = c /\ m.xid = st[c].xid /\ m.type = "DISCOVER"
    BY <1>1 DEF Asks, Thread
<1> HIDE DEF r, m
<1>6. Steps(c) /\ st'[c] = r
    BY <1>1, <1>3, <1>4, Becomes, Zenon
<1> QED
    BY <1>1, <1>3, <1>4, <1>5, <1>6 DEF Keeps

(* A REQUEST for the address offered is sent to all servers *)
LEMMA SendRequestStep ==
    ASSUME net \in Nets, Threads, NEW c \in net.clients, SendRequest(c)
    PROVE  /\ Steps(c) /\ Keeps(c) /\ st'[c].ifaddr = st[c].ifaddr
           /\ st[c].pc = "request" /\ st'[c].pc = "ack"
           /\ \E m \in Asks : /\ sock' = Sendto(sock, Broadcast, m)
                              /\ m.mac = c /\ m.xid = st[c].xid /\ m.type = "REQUEST"
                              /\ m.serverid = st[c].chosen.serverid
                              /\ m.reqip = st[c].chosen.ipaddr
<1> DEFINE r == [st[c] EXCEPT !.pc = "ack", !.retries = @ + 1]
           m == [type |-> "REQUEST", mac |-> c, xid |-> st[c].xid, ciaddr |-> 0,
                 reqip |-> st[c].chosen.ipaddr, serverid |-> st[c].chosen.serverid,
                 leasetime |-> 0]
<1>1. /\ c \in Client /\ st[c] \in Thread /\ st[c].pc = "request" /\ st[c].retries < Retries
      /\ "ack" \in Places \ Sending
    BY NetFacts DEF Threads, Places, Sending, Waiting, SendRequest
<1>2. st[c].retries + 1 \in 0 .. Retries
    BY <1>1, ClientConfig DEF Thread
<1>3. st' = [st EXCEPT ![c] = r] /\ sock' = Sendto(sock, Broadcast, m)
    BY Zenon DEF SendRequest, dhcpc_sendmsg
<1>4. /\ r \in Thread /\ r.pc = "ack" /\ r.xid = st[c].xid /\ r.chosen = st[c].chosen
      /\ r.cancel = st[c].cancel /\ r.caller = st[c].caller /\ r.ifaddr = st[c].ifaddr
    BY <1>1, <1>2, Zenon DEF Thread
<1>5. Addrs \subseteq Nat
    BY NetFacts DEF Addrs
<1>6. /\ m \in Asks /\ m.mac = c /\ m.xid = st[c].xid /\ m.type = "REQUEST"
      /\ m.serverid = st[c].chosen.serverid /\ m.reqip = st[c].chosen.ipaddr
    BY <1>1, <1>5, Zenon DEF Asks, Thread, Offered
<1> HIDE DEF r, m
<1>7. Steps(c) /\ st'[c] = r
    BY <1>1, <1>3, <1>4, Becomes, Zenon
<1> QED
    BY <1>1, <1>3, <1>4, <1>6, <1>7 DEF Keeps

(* dhcpc_request returns *)
LEMMA ReturnStep ==
    ASSUME Threads, NEW c \in Client, NEW ok \in BOOLEAN, NEW addr \in Addrs,
           NEW result \in Results, Return(c, ok, addr, result)
    PROVE  /\ Steps(c) /\ Keeps(c)
           /\ st'[c].pc = "callback" /\ st'[c].ok = ok /\ st'[c].ifaddr = addr
           /\ st'[c].presult = result
<1> DEFINE r == [st[c] EXCEPT !.pc = "callback", !.ok = ok, !.ifaddr = addr,
                              !.presult = result, !.oldaddr = 0, !.retries = 0]
<1>1. /\ st[c] \in Thread /\ "callback" \in Places \ Sending
      /\ 0 \in 0 .. Retries /\ 0 \in Addrs
    BY ClientConfig DEF Threads, Places, Sending, Addrs
<1>2. st' = [st EXCEPT ![c] = r]
    BY Zenon DEF Return
<1>3. /\ r \in Thread /\ r.pc = "callback" /\ r.xid = st[c].xid /\ r.chosen = st[c].chosen
      /\ r.cancel = st[c].cancel /\ r.caller = st[c].caller /\ r.ifaddr = addr
      /\ r.ok = ok /\ r.presult = result
    BY <1>1, Zenon DEF Thread
<1> HIDE DEF r
<1>4. Steps(c) /\ st'[c] = r
    BY <1>1, <1>2, <1>3, Becomes, Zenon
<1> QED
    BY <1>3, <1>4 DEF Keeps

(* dhcpc_request gives up before it has sent: it was cancelled, or a send or *)
(* a recv() failed                                                           *)
LEMMA ErrorStep ==
    ASSUME Threads, NEW c \in Client, SeeCancel(c) \/ SendFails(c) \/ RecvFails(c)
    PROVE  /\ Steps(c) /\ Keeps(c) /\ UNCHANGED sock
           /\ st'[c].pc = "callback" /\ ~st'[c].ok
           /\ SeeCancel(c) => st[c].cancel
<1>1. st[c] \in Thread
    BY DEF Threads
<1>2. st[c].ifaddr \in Addrs /\ st[c].oldaddr \in Addrs /\ st[c].presult \in Results
    BY <1>1 DEF Thread
<1>3. PICK addr \in Addrs : Return(c, FALSE, addr, st[c].presult)
    BY <1>2, Zenon DEF SeeCancel, SendFails, RecvFails, ReturnError
<1>4. /\ Steps(c) /\ Keeps(c) /\ st'[c].pc = "callback" /\ st'[c].ok = FALSE
    BY <1>2, <1>3, ReturnStep, Zenon
<1>5. UNCHANGED sock /\ (SeeCancel(c) => st[c].cancel)
    BY DEF SeeCancel, SendFails, RecvFails
<1> QED
    BY <1>4, <1>5

(* The wait is over: the client sends again or gives up *)
LEMMA WaitOverStep ==
    ASSUME Threads, NEW c \in Client, st[c].pc \in Waiting, NEW result \in Results,
           WaitOver(c, result)
    PROVE  /\ Steps(c) /\ Keeps(c) /\ st'[c].ifaddr = st[c].ifaddr
           /\ \/ st'[c].pc = "callback" /\ ~st'[c].ok
              \/ st[c].pc = "offer" /\ st'[c].pc = "discover"
              \/ st[c].pc = "ack" /\ st'[c].pc = "request"
<1>1. st[c] \in Thread
    BY DEF Threads
<1>2. st[c].ifaddr \in Addrs /\ st[c].retries \in 0 .. Retries
    BY <1>1 DEF Thread
<1>3. CASE st[c].retries >= Retries
  <2>1. Return(c, FALSE, st[c].ifaddr, result)
    BY <1>3, Zenon DEF WaitOver
  <2> QED
    BY <1>2, <2>1, ReturnStep, Zenon
<1>4. CASE ~(st[c].retries >= Retries)
  <2> DEFINE p == IF st[c].pc = "offer" THEN "discover" ELSE "request"
             r == [st[c] EXCEPT !.presult = result, !.pc = p]
  <2>1. p \in Places /\ st[c].retries < Retries
    BY <1>2, <1>4, ClientConfig DEF Places, Sending
  <2>2. st' = [st EXCEPT ![c] = r]
    BY <1>4, Zenon DEF WaitOver
  <2> HIDE DEF p
  <2>3. /\ r \in Thread /\ r.pc = p /\ r.xid = st[c].xid /\ r.chosen = st[c].chosen
        /\ r.cancel = st[c].cancel /\ r.caller = st[c].caller /\ r.ifaddr = st[c].ifaddr
        /\ r.retries = st[c].retries
    BY <1>1, <2>1, Zenon DEF Thread
  <2> HIDE DEF r
  <2>4. Steps(c) /\ st'[c] = r
    BY <2>1, <2>2, <2>3, Becomes, Zenon
  <2>5. \/ st[c].pc = "offer" /\ p = "discover"
        \/ st[c].pc = "ack" /\ p = "request"
    BY DEF p, Waiting
  <2> QED
    BY <2>3, <2>4, <2>5 DEF Keeps
<1> QED
    BY <1>3, <1>4

(* What an expired wait does to the client *)
LEMMA TimeoutStep ==
    ASSUME Threads, NEW c \in Client, Timeout(c)
    PROVE  /\ Steps(c) /\ Keeps(c) /\ st'[c].ifaddr = st[c].ifaddr /\ UNCHANGED sock
           /\ \/ st'[c].pc = "callback" /\ ~st'[c].ok
              \/ st[c].pc = "offer" /\ st'[c].pc = "discover"
              \/ st[c].pc = "ack" /\ st'[c].pc = "request"
<1>1. st[c].presult \in Results
    BY DEF Threads, Thread
<1>2. st[c].pc \in Waiting /\ WaitOver(c, st[c].presult) /\ UNCHANGED sock
    BY DEF Timeout
<1> QED
    BY <1>1, <1>2, WaitOverStep

(* What a reply leaves in the result *)
LEMMA ParsedTyped ==
    ASSUME net \in Nets, Threads, NEW c \in Client, NEW r \in Answers(c)
    PROVE  /\ Parsed(c, r) \in Results
           /\ Accepted(c, r) => Parsed(c, r).ipaddr = r.yiaddr
           /\ Accepted(c, r) /\ r.type = "ACK" => Parsed(c, r).lease_time = r.leasetime
<1>1. st[c].presult \in Results
    BY DEF Threads, Thread
<1>2. r.yiaddr \in Addrs /\ r.serverid \in Nat /\ r.leasetime \in Nat
    BY NetFacts DEF Answers
<1> QED
    BY <1>1, <1>2 DEF Parsed, Results

(* The first datagram in the socket of client c *)
LEMMA FirstAnswer ==
    ASSUME net \in Nets, Sockets(sock), NEW c \in net.clients, NEW i \in Receivable(c)
    PROVE  i = 1 /\ i \in DOMAIN sock[c] /\ sock[c][i] \in Answers(c)
<1>1. i = 1 /\ i \in DOMAIN sock[c]
    BY DEF Receivable
<1>2. sock[c] \in Seq(Answers(c))
    BY Zenon DEF Sockets
<1> QED
    BY <1>1, <1>2

(* The first OFFER is taken *)
LEMMA RecvOfferStep ==
    ASSUME net \in Nets, Threads, Sockets(sock), NEW c \in net.clients,
           NEW i \in Receivable(c), RecvOffer(c, i)
    PROVE  /\ Steps(c) /\ st[c].pc = "offer" /\ st'[c].pc = "request"
           /\ st'[c].xid = st[c].xid /\ st'[c].cancel = st[c].cancel
           /\ st'[c].caller = st[c].caller
           /\ sock[c][i].xid = st[c].xid /\ sock[c][i].type = "OFFER"
           /\ st'[c].chosen.ipaddr = sock[c][i].yiaddr
           /\ st'[c].chosen.serverid = sock[c][i].serverid
           /\ st'[c].ifaddr = sock[c][i].yiaddr
           /\ sock' = Taken(c, i)
<1> DEFINE a == sock[c][i]
           p == Parsed(c, a)
           h == [ipaddr |-> a.yiaddr, serverid |-> a.serverid]
           r == [st[c] EXCEPT !.pc = "request", !.presult = p, !.chosen = h,
                              !.ifaddr = a.yiaddr, !.retries = 0]
<1>1. c \in Client /\ st[c] \in Thread /\ a \in Answers(c)
    BY NetFacts, FirstAnswer DEF Threads
<1>2. /\ st' = [st EXCEPT ![c] = r] /\ sock' = Taken(c, i)
      /\ st[c].pc = "offer" /\ a.xid = st[c].xid /\ a.type = "OFFER"
    BY Zenon DEF RecvOffer, Accepted
<1>3. p \in Results
    BY <1>1, ParsedTyped
<1>4. a.yiaddr \in Addrs /\ a.serverid \in Nat
    BY <1>1, NetFacts DEF Answers
<1> HIDE DEF a, p
<1>5. h \in Offered /\ h.ipaddr = a.yiaddr /\ h.serverid = a.serverid
    BY <1>4 DEF Offered
<1>6. "request" \in Places /\ 0 \in 0 .. Retries /\ 0 < Retries
    BY ClientConfig DEF Places, Sending
<1> HIDE DEF h
<1>7. /\ r \in Thread /\ r.pc = "request" /\ r.xid = st[c].xid /\ r.chosen = h
      /\ r.cancel = st[c].cancel /\ r.caller = st[c].caller /\ r.ifaddr = a.yiaddr
      /\ r.retries = 0
    BY <1>1, <1>3, <1>4, <1>5, <1>6, Zenon DEF Thread
<1> HIDE DEF r
<1>8. Steps(c) /\ st'[c] = r
    BY <1>1, <1>2, <1>6, <1>7, Becomes, Zenon
<1> QED
    BY <1>2, <1>5, <1>7, <1>8 DEF a

(* An ACK ends the exchange well *)
LEMMA RecvAckStep ==
    ASSUME net \in Nets, Threads, Sockets(sock), NEW c \in net.clients,
           NEW i \in Receivable(c), RecvAck(c, i)
    PROVE  /\ Steps(c) /\ Keeps(c) /\ st[c].pc = "ack" /\ st'[c].pc = "callback"
           /\ st'[c].ok /\ st'[c].ifaddr = st[c].ifaddr
           /\ sock[c][i].xid = st[c].xid /\ sock[c][i].type = "ACK"
           /\ st'[c].presult.ipaddr = sock[c][i].yiaddr
           /\ st'[c].presult.lease_time = sock[c][i].leasetime
           /\ sock' = Taken(c, i)
<1> DEFINE a == sock[c][i]
<1>1. c \in Client /\ a \in Answers(c)
    BY NetFacts, FirstAnswer
<1>2. st[c].ifaddr \in Addrs
    BY <1>1 DEF Threads, Thread
<1>3. /\ Return(c, TRUE, st[c].ifaddr, Parsed(c, a)) /\ sock' = Taken(c, i)
      /\ st[c].pc = "ack" /\ Accepted(c, a) /\ a.type = "ACK"
    BY Zenon DEF RecvAck
<1> HIDE DEF a
<1>4. /\ Parsed(c, a) \in Results /\ Parsed(c, a).ipaddr = a.yiaddr
      /\ Parsed(c, a).lease_time = a.leasetime
    BY <1>1, <1>3, ParsedTyped
<1>5. /\ Steps(c) /\ Keeps(c) /\ st'[c].pc = "callback" /\ st'[c].ok = TRUE
      /\ st'[c].ifaddr = st[c].ifaddr /\ st'[c].presult = Parsed(c, a)
    BY <1>1, <1>2, <1>3, <1>4, ReturnStep, Zenon
<1> QED
    BY <1>3, <1>4, <1>5 DEF a, Accepted

(* A NAK ends it *)
LEMMA RecvNakStep ==
    ASSUME net \in Nets, Threads, Sockets(sock), NEW c \in net.clients,
           NEW i \in Receivable(c), RecvNak(c, i)
    PROVE  /\ Steps(c) /\ Keeps(c) /\ st[c].pc = "ack" /\ st'[c].pc = "callback"
           /\ ~st'[c].ok /\ sock' = Taken(c, i)
           /\ sock[c][i].xid = st[c].xid /\ sock[c][i].type = "NAK"
<1>1. c \in Client /\ 0 \in Addrs
    BY NetFacts DEF Addrs
<1>2. st[c].presult \in Results
    BY <1>1 DEF Threads, Thread
<1>3. /\ Return(c, FALSE, 0, st[c].presult) /\ sock' = Taken(c, i)
      /\ st[c].pc = "ack" /\ sock[c][i].xid = st[c].xid /\ sock[c][i].type = "NAK"
    BY Zenon DEF RecvNak, ReturnError, Accepted
<1>4. /\ Steps(c) /\ Keeps(c) /\ st'[c].pc = "callback" /\ st'[c].ok = FALSE
    BY <1>1, <1>2, <1>3, ReturnStep, Zenon
<1> QED
    BY <1>3, <1>4

(* Any other reply is dropped, an OFFER of another server with a DECLINE *)
LEMMA RecvOtherStep ==
    ASSUME net \in Nets, Threads, Sockets(sock), NEW c \in net.clients,
           NEW i \in Receivable(c), NEW late \in BOOLEAN, RecvOther(c, i, late)
    PROVE  /\ Steps(c) /\ Keeps(c) /\ st'[c].ifaddr = st[c].ifaddr
           /\ st[c].pc \in Waiting
           /\ \/ st'[c].pc = st[c].pc
              \/ st'[c].pc = "callback" /\ ~st'[c].ok
              \/ st[c].pc = "offer" /\ st'[c].pc = "discover"
              \/ st[c].pc = "ack" /\ st'[c].pc = "request"
           /\ \/ sock' = Taken(c, i)
              \/ /\ st[c].pc = "ack"
                 /\ sock[c][i].serverid # st[c].chosen.serverid
                 /\ \E m \in Asks :
                      /\ sock' = Sendto(Taken(c, i), sock[c][i].serverid, m)
                      /\ m.mac = c /\ m.xid = st[c].xid /\ m.type = "DECLINE"
           /\ \/ st[c].pc = "offer"
                 /\ ~(sock[c][i].xid = st[c].xid /\ sock[c][i].type = "OFFER")
              \/ st[c].pc = "ack"
                 /\ ~(sock[c][i].xid = st[c].xid /\ sock[c][i].type \in {"ACK", "NAK"})
<1> DEFINE a == sock[c][i]
           p == Parsed(c, a)
           m == [type |-> "DECLINE", mac |-> c, xid |-> st[c].xid, ciaddr |-> a.yiaddr,
                 reqip |-> 0, serverid |-> a.serverid, leasetime |-> 0]
           r == [st[c] EXCEPT !.presult = p]
<1>1. c \in Client /\ st[c] \in Thread /\ a \in Answers(c)
    BY NetFacts, FirstAnswer DEF Threads
<1>2. a.yiaddr \in Nat /\ a.serverid \in Nat /\ a.mac = c /\ st[c].xid \in 0 .. XidMod - 1
    BY <1>1, NetFacts DEF Answers, Addrs, Thread
<1>3. /\ \/ st[c].pc = "offer" /\ ~(Accepted(c, a) /\ a.type = "OFFER")
         \/ st[c].pc = "ack" /\ ~(Accepted(c, a) /\ a.type \in {"ACK", "NAK"})
      /\ \/ WaitOver(c, p)
         \/ st' = [st EXCEPT ![c] = r]
      /\ \/ sock' = Taken(c, i)
         \/ /\ st[c].pc = "ack" /\ a.serverid # st[c].chosen.serverid
            /\ sock' = Sendto(Taken(c, i), a.serverid, m)
    BY Zenon DEF RecvOther, dhcpc_sendmsg
<1>4. m \in Asks /\ m.mac = c /\ m.xid = st[c].xid /\ m.type = "DECLINE"
    BY <1>2 DEF Asks
<1>5. p \in Results
    BY <1>1, ParsedTyped
<1> HIDE DEF a, p, m
<1>6. st[c].pc \in Waiting
    BY <1>3 DEF Waiting
<1>7. /\ Steps(c) /\ Keeps(c) /\ st'[c].ifaddr = st[c].ifaddr
      /\ \/ st'[c].pc = st[c].pc
         \/ st'[c].pc = "callback" /\ ~st'[c].ok
         \/ st[c].pc = "offer" /\ st'[c].pc = "discover"
         \/ st[c].pc = "ack" /\ st'[c].pc = "request"
  <2>1. CASE WaitOver(c, p)
    BY <1>1, <1>5, <1>6, <2>1, WaitOverStep
  <2>2. CASE st' = [st EXCEPT ![c] = r]
    <3>1. /\ r \in Thread /\ r.pc = st[c].pc /\ r.xid = st[c].xid
          /\ r.chosen = st[c].chosen /\ r.cancel = st[c].cancel
          /\ r.caller = st[c].caller /\ r.ifaddr = st[c].ifaddr
        BY <1>1, <1>5 DEF Thread
    <3>2. r.pc \notin Sending
        BY <1>6, <3>1 DEF Sending, Waiting
    <3> HIDE DEF r
    <3>3. Steps(c) /\ st'[c] = r
        BY <1>1, <2>2, <3>1, <3>2, Becomes, Zenon
    <3> QED
        BY <3>1, <3>3 DEF Keeps
  <2> QED
    BY <1>3, <2>1, <2>2
<1>8. Accepted(c, a) <=> a.xid = st[c].xid
    BY <1>2 DEF Accepted
<1> QED
    BY <1>3, <1>4, <1>6, <1>7, <1>8 DEF a

(* dhcpc_run looks at the result and the cancel flag *)
LEMMA RunCallbackStep ==
    ASSUME Threads, NEW c \in Client, RunCallback(c)
    PROVE  /\ Steps(c) /\ Keeps(c) /\ UNCHANGED sock
           /\ st[c].pc = "callback" /\ st'[c].ifaddr = st[c].ifaddr
           /\ st'[c].pc = "exit" => st[c].cancel
           /\ \/ st'[c].pc \in {"exit", "begin"}
              \/ st'[c].pc = "nap" /\ st[c].ok /\ st'[c].presult = st[c].presult
<1> DEFINE half == IF st[c].ok THEN st[c].presult.lease_time \div 2 ELSE 0
           p == IF st[c].cancel THEN "exit" ELSE IF half = 0 THEN "begin" ELSE "nap"
           q == IF st[c].ok THEN st[c].presult ELSE NoResult
           r == [st[c] EXCEPT !.pc = p, !.presult = q, !.ok = FALSE]
<1>1. st[c] \in Thread
    BY DEF Threads
<1>2. st[c].presult \in Results /\ NoResult \in Results
    BY <1>1 DEF Thread, NoResult, Results, Addrs
<1>3. p \in Places \ Sending
    BY DEF Places, Sending
<1>4. st' = [st EXCEPT ![c] = r] /\ st[c].pc = "callback" /\ UNCHANGED sock
    BY Zenon DEF RunCallback
<1>5. /\ p = "exit" => st[c].cancel
      /\ \/ p \in {"exit", "begin"}
         \/ p = "nap" /\ st[c].ok /\ q = st[c].presult
    OBVIOUS
<1>6. q \in Results
    BY <1>2
<1> HIDE DEF half, p, q
<1>7. /\ r \in Thread /\ r.pc = p /\ r.xid = st[c].xid /\ r.chosen = st[c].chosen
      /\ r.cancel = st[c].cancel /\ r.caller = st[c].caller /\ r.ifaddr = st[c].ifaddr
      /\ r.presult = q
    BY <1>1, <1>3, <1>6, Zenon DEF Thread
<1> HIDE DEF r
<1>8. Steps(c) /\ st'[c] = r
    BY <1>1, <1>3, <1>4, <1>7, Becomes, Zenon
<1> QED
    BY <1>4, <1>5, <1>7, <1>8 DEF Keeps

(* The thread goes to sleep for half of its lease *)
LEMMA EnterSleepStep ==
    ASSUME Threads, clock \in Nat, NEW c \in Client, EnterSleep(c, clock)
    PROVE  /\ Steps(c) /\ Keeps(c) /\ UNCHANGED sock
           /\ st[c].pc = "nap" /\ st'[c].pc = "sleep"
           /\ st'[c].ifaddr = st[c].ifaddr /\ st'[c].presult = st[c].presult
           /\ st'[c].wake = clock + st[c].presult.lease_time \div 2
<1> DEFINE w == clock + st[c].presult.lease_time \div 2
           r == [st[c] EXCEPT !.pc = "sleep", !.wake = w]
<1>1. st[c] \in Thread /\ "sleep" \in Places \ Sending
    BY DEF Threads, Places, Sending
<1>2. st[c].presult.lease_time \in Nat
    BY <1>1 DEF Thread, Results
<1>3. w \in Nat
    BY <1>2
<1>4. st' = [st EXCEPT ![c] = r] /\ st[c].pc = "nap" /\ UNCHANGED sock
    BY Zenon DEF EnterSleep
<1> HIDE DEF w
<1>5. /\ r \in Thread /\ r.pc = "sleep" /\ r.xid = st[c].xid /\ r.chosen = st[c].chosen
      /\ r.cancel = st[c].cancel /\ r.caller = st[c].caller /\ r.ifaddr = st[c].ifaddr
      /\ r.presult = st[c].presult /\ r.wake = w
    BY <1>1, <1>3, Zenon DEF Thread
<1> HIDE DEF r
<1>6. Steps(c) /\ st'[c] = r
    BY <1>1, <1>4, <1>5, Becomes, Zenon
<1> QED
    BY <1>4, <1>5, <1>6 DEF Keeps, w

(* It wakes up *)
LEMMA WakeUpStep ==
    ASSUME Threads, NEW c \in Client, WakeUp(c, clock)
    PROVE  /\ Steps(c) /\ Keeps(c) /\ UNCHANGED sock
           /\ st'[c].pc \in {"exit", "begin"} /\ st'[c].ifaddr = st[c].ifaddr
           /\ st[c].pc = "sleep" /\ (st'[c].pc = "exit" => st[c].cancel)
<1> DEFINE p == IF st[c].cancel THEN "exit" ELSE "begin"
           r == [st[c] EXCEPT !.pc = p, !.wake = 0]
<1>1. /\ st[c] \in Thread /\ p \in Places \ Sending /\ p \in {"exit", "begin"}
      /\ p = "exit" => st[c].cancel
    BY DEF Threads, Places, Sending
<1>2. st' = [st EXCEPT ![c] = r] /\ UNCHANGED sock /\ st[c].pc = "sleep"
    BY Zenon DEF WakeUp
<1> HIDE DEF p
<1>3. /\ r \in Thread /\ r.pc = p /\ r.xid = st[c].xid /\ r.chosen = st[c].chosen
      /\ r.cancel = st[c].cancel /\ r.caller = st[c].caller /\ r.ifaddr = st[c].ifaddr
    BY <1>1, Zenon DEF Thread
<1> HIDE DEF r
<1>4. Steps(c) /\ st'[c] = r
    BY <1>1, <1>2, <1>3, Becomes, Zenon
<1> QED
    BY <1>1, <1>2, <1>3, <1>4 DEF Keeps

(* dhcpc_cancel only ends a sleep, and takes the thread away at its end *)
LEMMA CancelStep ==
    ASSUME Threads, NEW c \in Client, CancelFlag(c) \/ CancelKill(c) \/ CancelJoin(c)
    PROVE  /\ Steps(c) /\ UNCHANGED sock
           /\ st'[c].xid = st[c].xid /\ st'[c].chosen = st[c].chosen
           /\ st'[c].ifaddr = st[c].ifaddr /\ st'[c].ok = st[c].ok
           /\ st'[c].presult = st[c].presult
           /\ \/ st'[c].pc = st[c].pc /\ (st[c].pc = "sleep" => st'[c].wake = st[c].wake)
              \/ st'[c].pc \in {"exit", "idle"}
<1>1. st[c] \in Thread /\ (st[c].pc \in Sending => st[c].retries < Retries)
    BY DEF Threads
<1>2. CASE CancelFlag(c)
  <2> DEFINE k == IF st[c].pc = "idle" THEN "free" ELSE "kill"
             r == [st[c] EXCEPT !.cancel = TRUE, !.caller = k]
  <2>1. st' = [st EXCEPT ![c] = r] /\ UNCHANGED sock
    BY <1>2, Zenon DEF CancelFlag
  <2>2. k \in {"free", "kill", "join"}
    OBVIOUS
  <2> HIDE DEF k
  <2>3. /\ r \in Thread /\ r.pc = st[c].pc /\ r.xid = st[c].xid /\ r.chosen = st[c].chosen
        /\ r.ifaddr = st[c].ifaddr /\ r.ok = st[c].ok /\ r.presult = st[c].presult
        /\ r.wake = st[c].wake /\ r.retries = st[c].retries
    BY <1>1, <2>2, Zenon DEF Thread
  <2> HIDE DEF r
  <2>4. Steps(c) /\ st'[c] = r
    BY <1>1, <2>1, <2>3, Becomes, Zenon
  <2> QED
    BY <2>1, <2>3, <2>4
<1>3. CASE CancelKill(c)
  <2> DEFINE p == IF st[c].pc = "sleep" THEN "exit" ELSE st[c].pc
             r == [st[c] EXCEPT !.caller = "join", !.pc = p, !.wake = 0]
  <2>1. st' = [st EXCEPT ![c] = r] /\ UNCHANGED sock
    BY <1>3, Zenon DEF CancelKill
  <2>2. /\ p \in Places /\ (p \in Sending => p = st[c].pc)
        /\ p = "exit" \/ (p = st[c].pc /\ p # "sleep")
    BY <1>1 DEF Thread, Places, Sending
  <2> HIDE DEF p
  <2>3. /\ r \in Thread /\ r.pc = p /\ r.xid = st[c].xid /\ r.chosen = st[c].chosen
        /\ r.ifaddr = st[c].ifaddr /\ r.ok = st[c].ok /\ r.presult = st[c].presult
        /\ r.retries = st[c].retries
    BY <1>1, <2>2, Zenon DEF Thread
  <2> HIDE DEF r
  <2>4. Steps(c) /\ st'[c] = r
    BY <1>1, <2>1, <2>2, <2>3, Becomes, Zenon
  <2> QED
    BY <2>1, <2>2, <2>3, <2>4
<1>4. CASE CancelJoin(c)
  <2> DEFINE r == [st[c] EXCEPT !.caller = "free", !.pc = "idle"]
  <2>1. st' = [st EXCEPT ![c] = r] /\ UNCHANGED sock
    BY <1>4, Zenon DEF CancelJoin
  <2>2. "idle" \in Places \ Sending
    BY DEF Places, Sending
  <2>3. /\ r \in Thread /\ r.pc = "idle" /\ r.xid = st[c].xid /\ r.chosen = st[c].chosen
        /\ r.ifaddr = st[c].ifaddr /\ r.ok = st[c].ok /\ r.presult = st[c].presult
    BY <1>1, <2>2, Zenon DEF Thread
  <2> HIDE DEF r
  <2>4. Steps(c) /\ st'[c] = r
    BY <2>1, <2>2, <2>3, Becomes, Zenon
  <2> QED
    BY <2>1, <2>3, <2>4
<1> QED
    BY <1>2, <1>3, <1>4

-----------------------------------------------------------------------------
(* The table of a server once it has given ip to mac for that time *)
Given(tab, mac, ip, time) ==
    [tab EXCEPT ![ip] = [mac |-> mac, allocated |-> TRUE, expiry |-> clock + time]]

(* The slot of a client is what dhcpd_findbymac finds *)
LEMMA FindByMac ==
    ASSUME NEW P \in SUBSET Nat, NEW tab \in [P -> Lease], OneSlot(tab), NEW mac \in Mac
    PROVE  dhcpd_findbymac(tab, mac) = {a \in P : tab[a].mac = mac}
<1>1. ASSUME NEW x \in P, tab[x].mac = mac, NEW y \in P, tab[y].mac = mac
      PROVE  x <= y
  <2>1. x = y
    BY <1>1, LeaseConfig DEF OneSlot
  <2>2. x \in Int
    OBVIOUS
  <2> QED
    BY <2>1, <2>2
<1> QED
    BY <1>1, Zenon DEF dhcpd_findbymac, First

(* What a server with the pool P and the table tab may do with a DISCOVER:   *)
(* nothing, if it finds no address, or it reserves one that is the client's  *)
(* own or free, and offers it if it can send                                 *)
DiscoverOutcome(P, tab, m, s, o) ==
    \/ o.leases = tab /\ o.reply = {} /\ DiscoverChoice(tab, clock, m) = {}
    \/ \E ip \in P :
         /\ \/ tab[ip].mac = m.mac
            \/ (\A a \in P : tab[a].mac # m.mac) /\ Available(tab, clock, ip)
         /\ o.leases = Given(tab, m.mac, ip, OfferTime)
         /\ \/ o.reply = {}
            \/ \E t \in Nat : o.reply = {Reply("OFFER", m, ip, t, s)}

(* With a REQUEST: nothing, a NAK, or an ACK for the slot the client has; a  *)
(* client without one that names no server gets the address it asks for, or  *)
(* makes the server forget an expired lease                                  *)
RequestOutcome(P, tab, m, s, o) ==
    \/ o.leases = tab /\ (o.reply = {} \/ o.reply = {Reply("NAK", m, 0, 0, s)})
    \/ \E ip \in P :
         /\ tab[ip].mac = m.mac
         /\ m.serverid \in {0, s}
         /\ o.leases = Given(tab, m.mac, ip, LeaseTime)
         /\ o.reply = {Reply("ACK", m, ip, LeaseTime, s)}
    \/ /\ m.serverid = 0 /\ m.reqip \in P /\ \A a \in P : tab[a].mac # m.mac
       /\ \/ o.leases = [tab EXCEPT ![m.reqip] = FreeLease] /\ o.reply = {}
          \/ /\ o.leases = Given(tab, m.mac, m.reqip, LeaseTime)
             /\ o.reply = {Reply("ACK", m, m.reqip, LeaseTime, s)}

(* dhcpd_discover *)
LEMMA DiscoverEffect ==
    ASSUME NEW P \in SUBSET Nat, NEW tab \in [P -> Lease], OneSlot(tab), clock \in Nat,
           NEW m, m.mac \in Mac, m.leasetime = 0, NEW s,
           NEW o \in dhcpd_discover(tab, clock, m, s)
    PROVE  DiscoverOutcome(P, tab, m, s, o)
<1> DEFINE choice == DiscoverChoice(tab, clock, m)
           mine == dhcpd_findbymac(tab, m.mac)
<1>1. mine = {a \in P : tab[a].mac = m.mac}
    BY FindByMac
<1> HIDE DEF mine
<1>2. ASSUME NEW ip \in choice
      PROVE  /\ ip \in P
             /\ \/ tab[ip].mac = m.mac
                \/ (\A a \in P : tab[a].mac # m.mac) /\ Available(tab, clock, ip)
  <2>1. CASE mine # {}
    <3>1. ip \in mine
        BY <2>1 DEF DiscoverChoice, mine
    <3> QED
        BY <1>1, <3>1
  <2>2. CASE mine = {}
    <3>1. \/ ip = m.reqip /\ dhcpd_verifyreqip(tab, clock, m)
          \/ ip \in dhcpd_allocipaddr(tab, clock)
        BY <2>2 DEF DiscoverChoice, mine
    <3>2. ip \in P /\ Available(tab, clock, ip)
        BY <3>1 DEF dhcpd_verifyreqip, dhcpd_allocipaddr, First
    <3> QED
        BY <1>1, <2>2, <3>2
  <2> QED
    BY <2>1, <2>2
<1>3. CASE choice = {}
  <2>1. o = [leases |-> tab, reply |-> {}]
    BY <1>3 DEF dhcpd_discover, Silent
  <2> QED
    BY <1>3, <2>1 DEF DiscoverOutcome
<1>4. CASE choice # {}
  <2> DEFINE time(ip) == dhcpd_verifyreqleasetime(m, DiscoverTime(tab, clock, m, ip))
             new(ip) == dhcpd_setlease(tab, clock, m.mac, ip, OfferTime)
  <2>1. PICK ip \in choice : o \in dhcpd_sendoffer(new(ip), m, ip, time(ip), s)
    BY <1>4 DEF dhcpd_discover
  <2>2. /\ o.leases = new(ip)
        /\ o.reply = {} \/ o.reply = {Reply("OFFER", m, ip, time(ip), s)}
    BY <2>1 DEF dhcpd_sendoffer
  <2>3. new(ip) = Given(tab, m.mac, ip, OfferTime)
    BY <1>2 DEF dhcpd_setlease, Given
  <2>4. tab[ip] \in Lease
    BY <1>2, Zenon
  <2>5. tab[ip].expiry \in Nat /\ LeaseTime \in Nat /\ MinLeaseTime \in Nat
    BY <2>4, LeaseConfig DEF Lease
  <2>6. DiscoverTime(tab, clock, m, ip) \in Nat
    BY <2>5 DEF DiscoverTime, dhcpd_leaseexpired
  <2>7. time(ip) \in Nat
    BY <2>6 DEF dhcpd_verifyreqleasetime
  <2> HIDE DEF time, new
  <2> QED
    BY <1>2, <2>2, <2>3, <2>7, Zenon DEF DiscoverOutcome
<1> QED
    BY <1>3, <1>4

(* dhcpd_request *)
LEMMA RequestEffect ==
    ASSUME NEW P \in SUBSET Nat, NEW tab \in [P -> Lease], OneSlot(tab), clock \in Nat,
           NEW m, m.mac \in Mac, m.leasetime = 0, NEW s,
           NEW o \in dhcpd_request(tab, clock, m, s)
    PROVE  RequestOutcome(P, tab, m, s, o)
<1> DEFINE mine == dhcpd_findbymac(tab, m.mac)
<1>1. mine = {a \in P : tab[a].mac = m.mac}
    BY FindByMac
<1>2. DOMAIN tab = P
    OBVIOUS
<1>3. ASSUME NEW ip \in P, o \in dhcpd_sendack(tab, clock, m, ip, s)
      PROVE  \/ o.leases = tab /\ o.reply = {}
             \/ /\ o.leases = Given(tab, m.mac, ip, LeaseTime)
                /\ o.reply = {Reply("ACK", m, ip, LeaseTime, s)}
  <2>1. \/ o = [leases |-> tab, reply |-> {}]
        \/ o = [leases |-> dhcpd_setlease(tab, clock, m.mac, ip, LeaseTime),
                reply |-> {Reply("ACK", m, ip, LeaseTime, s)}]
    BY <1>3 DEF dhcpd_sendack, Silent, dhcpd_verifyreqleasetime
  <2>2. dhcpd_setlease(tab, clock, m.mac, ip, LeaseTime) = Given(tab, m.mac, ip, LeaseTime)
    BY <1>2 DEF dhcpd_setlease, Given
  <2> QED
    BY <2>1, <2>2
<1>4. ASSUME o \in dhcpd_sendnak(tab, m, s)
      PROVE  o.leases = tab /\ (o.reply = {} \/ o.reply = {Reply("NAK", m, 0, 0, s)})
    BY <1>4 DEF dhcpd_sendnak
<1>5. ASSUME o \in Silent(tab) PROVE o.leases = tab /\ o.reply = {}
    BY <1>5 DEF Silent
<1> HIDE DEF mine
<1>6. CASE mine # {}
  <2>1. PICK ip \in mine : o \in RequestWithLease(tab, clock, m, ip, s)
    BY <1>6 DEF dhcpd_request, mine
  <2>2. ip \in P /\ tab[ip].mac = m.mac
    BY <1>1, <2>1
  <2>3. CASE Consistent(m, ip, s)
    <3>1. o \in dhcpd_sendack(tab, clock, m, ip, s)
        BY <2>1, <2>3 DEF RequestWithLease
    <3>2. m.serverid \in {0, s}
        BY <2>3 DEF Consistent
    <3> QED
        BY <1>3, <2>2, <3>1, <3>2 DEF RequestOutcome
  <2>4. CASE ~Consistent(m, ip, s)
    BY <1>4, <2>1, <2>4 DEF RequestWithLease, RequestOutcome
  <2> QED
    BY <2>3, <2>4
<1>7. CASE mine = {} /\ m.reqip # 0 /\ m.serverid = 0
  <2>1. o \in RequestWithoutLease(tab, clock, m, s)
    BY <1>7 DEF dhcpd_request, mine
  <2>2. \A a \in P : tab[a].mac # m.mac
    BY <1>1, <1>7
  <2>3. CASE dhcpd_findbyipaddr(tab, m.reqip) # {}
    <3>1. m.reqip \in P
        BY <1>2, <2>3 DEF dhcpd_findbyipaddr
    <3>2. o \in Silent([tab EXCEPT ![m.reqip] = FreeLease]) \/ o \in dhcpd_sendnak(tab, m, s)
        BY <2>1, <2>3 DEF RequestWithoutLease
    <3>3. CASE o \in Silent([tab EXCEPT ![m.reqip] = FreeLease])
        BY <1>7, <2>2, <3>1, <3>3 DEF Silent, RequestOutcome
    <3> QED
        BY <1>4, <3>2, <3>3 DEF RequestOutcome
  <2>4. CASE dhcpd_findbyipaddr(tab, m.reqip) = {} /\ m.reqip \in P
    <3>1. o \in dhcpd_sendack(tab, clock, m, m.reqip, s)
        BY <1>2, <2>1, <2>4 DEF RequestWithoutLease
    <3> QED
        BY <1>3, <1>7, <2>2, <2>4, <3>1, Zenon DEF RequestOutcome
  <2>5. CASE dhcpd_findbyipaddr(tab, m.reqip) = {} /\ m.reqip \notin P
    BY <1>2, <1>4, <2>1, <2>5, SMTT(30) DEF RequestWithoutLease, RequestOutcome
  <2> QED
    BY <2>3, <2>4, <2>5
<1>8. CASE mine = {} /\ ~(m.reqip # 0 /\ m.serverid = 0)
    BY <1>5, <1>8 DEF dhcpd_request, mine, RequestOutcome
<1> QED
    BY <1>6, <1>7, <1>8

(* dhcpd_decline *)
LEMMA DeclineEffect ==
    ASSUME NEW P \in SUBSET Nat, NEW tab \in [P -> Lease], OneSlot(tab),
           NEW m, m.mac \in Mac, NEW o \in dhcpd_decline(tab, clock, m)
    PROVE  /\ o.reply = {}
           /\ o.leases = [ip \in P |->
                            IF tab[ip].mac = m.mac
                            THEN [mac |-> NoMac, allocated |-> tab[ip].allocated,
                                  expiry |-> clock + DeclineTime]
                            ELSE tab[ip]]
<1>1. dhcpd_findbymac(tab, m.mac) = {a \in P : tab[a].mac = m.mac} /\ DOMAIN tab = P
    BY FindByMac
<1> QED
    BY <1>1 DEF dhcpd_decline, Silent

(* A slot is given to a client that has no other *)
LEMMA GivenTyped ==
    ASSUME NEW P \in SUBSET Nat, NEW tab \in [P -> Lease], OneSlot(tab), clock \in Nat,
           NEW mac \in Mac, NEW ip \in P, NEW time \in Nat,
           tab[ip].mac = mac \/ \A a \in P : tab[a].mac # mac
    PROVE  /\ Given(tab, mac, ip, time) \in [P -> Lease]
           /\ OneSlot(Given(tab, mac, ip, time))
           /\ Given(tab, mac, ip, time)[ip].mac = mac
           /\ Given(tab, mac, ip, time)[ip].expiry = clock + time
           /\ \A a \in P : a # ip => Given(tab, mac, ip, time)[a] = tab[a]
<1> DEFINE new == [mac |-> mac, allocated |-> TRUE, expiry |-> clock + time]
           res == [tab EXCEPT ![ip] = new]
<1>1. new \in Lease /\ new.mac = mac /\ new.allocated /\ new.expiry = clock + time
    BY DEF Lease
<1>2. Given(tab, mac, ip, time) = res
    BY DEF Given
<1> HIDE DEF new
<1>3. res \in [P -> Lease] /\ res[ip] = new /\ \A a \in P : a # ip => res[a] = tab[a]
    BY <1>1
<1> HIDE DEF res
<1>4. DOMAIN tab = P /\ DOMAIN res = P
    BY <1>3
<1>5. \A a \in P : a # ip => tab[a].mac # mac
    BY <1>4, LeaseConfig, Zenon DEF OneSlot
<1>6. \A a, b \in P : res[a].mac = res[b].mac /\ res[a].mac # NoMac => a = b
    BY <1>1, <1>3, <1>4, <1>5 DEF OneSlot
<1>7. \A a \in P : res[a].mac # NoMac => res[a].allocated
    BY <1>1, <1>3, <1>4 DEF OneSlot
<1>8. OneSlot(res)
    BY <1>4, <1>6, <1>7 DEF OneSlot
<1> QED
    BY <1>1, <1>2, <1>3, <1>8

(* A slot is taken from its client *)
LEMMA TakenAwayTyped ==
    ASSUME NEW P \in SUBSET Nat, NEW tab \in [P -> Lease], OneSlot(tab),
           NEW new \in [P -> Lease], \A a \in P : new[a] = tab[a] \/ new[a].mac = NoMac
    PROVE  OneSlot(new)
<1>1. DOMAIN tab = P /\ DOMAIN new = P
    OBVIOUS
<1> QED
    BY <1>1 DEF OneSlot

(* A server keeps its table in shape, and answers whom it was asked by *)
LEMMA DispatchTyped ==
    ASSUME net \in Nets, Tables, clock \in Nat, NEW s \in Servers, NEW m \in Asks,
           NEW o \in Dispatch(leases[s], clock, m, s)
    PROVE  /\ o.leases \in [net.pool[s] -> Lease]
           /\ OneSlot(o.leases)
           /\ \/ o.reply = {}
              \/ \E r \in Answers(m.mac) : o.reply = {r} /\ r.xid = m.xid
<1> DEFINE P == net.pool[s]
           tab == leases[s]
<1>1. /\ P \in SUBSET Nat /\ P \subseteq Addrs /\ tab \in [P -> Lease] /\ OneSlot(tab)
      /\ s \in Servers /\ 0 \in Addrs
    BY NetFacts DEF Tables, Addrs
<1>2. /\ m.mac \in Mac /\ m.mac \in net.clients /\ m.leasetime = 0 /\ m.xid \in 0 .. XidMod - 1
      /\ m.type \in {"DISCOVER", "REQUEST", "DECLINE"}
    BY NetFacts DEF Asks
<1>3. LeaseTime \in Nat /\ OfferTime \in Nat /\ DeclineTime \in Nat
    BY LeaseConfig
<1>4. ASSUME NEW t \in {"OFFER", "ACK", "NAK"}, NEW ip \in Addrs, NEW time \in Nat
      PROVE  Reply(t, m, ip, time, s) \in Answers(m.mac) /\ Reply(t, m, ip, time, s).xid = m.xid
    BY <1>2 DEF Reply, Answers
<1> HIDE DEF P, tab
<1>5. CASE m.type = "DISCOVER"
  <2>1. o \in dhcpd_discover(tab, clock, m, s)
    BY <1>5 DEF Dispatch, tab
  <2>2. CASE o.leases = tab /\ o.reply = {}
    BY <1>1, <2>2 DEF P
  <2>3. CASE \E ip \in P :
               /\ \/ tab[ip].mac = m.mac
                  \/ (\A a \in P : tab[a].mac # m.mac) /\ Available(tab, clock, ip)
               /\ o.leases = Given(tab, m.mac, ip, OfferTime)
               /\ \/ o.reply = {}
                  \/ \E t \in Nat : o.reply = {Reply("OFFER", m, ip, t, s)}
    <3>1. PICK ip \in P :
            /\ tab[ip].mac = m.mac \/ (\A a \in P : tab[a].mac # m.mac)
            /\ o.leases = Given(tab, m.mac, ip, OfferTime)
            /\ \/ o.reply = {}
               \/ \E t \in Nat : o.reply = {Reply("OFFER", m, ip, t, s)}
        BY <2>3
    <3>2. /\ Given(tab, m.mac, ip, OfferTime) \in [P -> Lease]
          /\ OneSlot(Given(tab, m.mac, ip, OfferTime))
      <4> DEFINE mac == m.mac
      <4>1. mac \in Mac /\ (tab[ip].mac = mac \/ \A a \in P : tab[a].mac # mac)
        BY <1>2, <3>1
      <4> HIDE DEF mac
      <4>2. /\ Given(tab, mac, ip, OfferTime) \in [P -> Lease]
            /\ OneSlot(Given(tab, mac, ip, OfferTime))
        BY <1>1, <1>3, <4>1, GivenTyped, Zenon
      <4> QED
        BY <4>2 DEF mac
    <3>3. o.reply = {} \/ \E r \in Answers(m.mac) : o.reply = {r} /\ r.xid = m.xid
        BY <1>1, <1>4, <3>1
    <3> QED
        BY <3>1, <3>2, <3>3 DEF P
  <2>4. DiscoverOutcome(P, tab, m, s, o)
    BY <1>1, <1>2, <2>1, DiscoverEffect
  <2> QED
    BY <2>2, <2>3, <2>4, Zenon DEF DiscoverOutcome
<1>6. CASE m.type = "REQUEST"
  <2>1. o \in dhcpd_request(tab, clock, m, s)
    BY <1>6 DEF Dispatch, tab
  <2>2. CASE o.leases = tab /\ (o.reply = {} \/ o.reply = {Reply("NAK", m, 0, 0, s)})
    BY <1>1, <1>4, <2>2 DEF P
  <2>3. ASSUME NEW ip \in P, tab[ip].mac = m.mac \/ \A a \in P : tab[a].mac # m.mac,
               o.leases = Given(tab, m.mac, ip, LeaseTime),
               o.reply = {Reply("ACK", m, ip, LeaseTime, s)}
        PROVE  /\ o.leases \in [P -> Lease] /\ OneSlot(o.leases)
               /\ \E r \in Answers(m.mac) : o.reply = {r} /\ r.xid = m.xid
    <3> DEFINE mac == m.mac
    <3>1. mac \in Mac /\ (tab[ip].mac = mac \/ \A a \in P : tab[a].mac # mac)
        BY <1>2, <2>3
    <3> HIDE DEF mac
    <3>2. /\ Given(tab, mac, ip, LeaseTime) \in [P -> Lease]
          /\ OneSlot(Given(tab, mac, ip, LeaseTime))
        BY <1>1, <1>3, <3>1, GivenTyped, Zenon
    <3> QED
        BY <1>1, <1>3, <1>4, <2>3, <3>2 DEF mac
  <2>4. CASE /\ m.reqip \in P
             /\ o.leases = [tab EXCEPT ![m.reqip] = FreeLease] /\ o.reply = {}
    <3>1. FreeLease \in Lease /\ FreeLease.mac = NoMac
        BY DEF FreeLease, Lease
    <3>2. /\ o.leases \in [P -> Lease]
          /\ \A a \in P : o.leases[a] = tab[a] \/ o.leases[a].mac = NoMac
        BY <1>1, <2>4, <3>1
    <3> QED
        BY <1>1, <2>4, <3>2, TakenAwayTyped, Zenon DEF P
  <2>5. RequestOutcome(P, tab, m, s, o)
    BY <1>1, <1>2, <2>1, RequestEffect
  <2> QED
    BY <2>2, <2>3, <2>4, <2>5, Zenon DEF RequestOutcome, P
<1>7. CASE m.type = "DECLINE"
  <2>1. o \in dhcpd_decline(tab, clock, m)
    BY <1>7 DEF Dispatch, tab
  <2>2. /\ o.reply = {}
        /\ o.leases = [ip \in P |->
                         IF tab[ip].mac = m.mac
                         THEN [mac |-> NoMac, allocated |-> tab[ip].allocated,
                               expiry |-> clock + DeclineTime]
                         ELSE tab[ip]]
    BY <1>1, <1>2, <2>1, DeclineEffect
  <2>3. ASSUME NEW ip \in P
        PROVE  [mac |-> NoMac, allocated |-> tab[ip].allocated,
                expiry |-> clock + DeclineTime] \in Lease
    BY <1>1, <1>3 DEF Lease
  <2>4. /\ o.leases \in [P -> Lease]
        /\ \A a \in P : o.leases[a] = tab[a] \/ o.leases[a].mac = NoMac
    BY <1>1, <2>2, <2>3, SMTT(30)
  <2> QED
    BY <1>1, <2>2, <2>4, TakenAwayTyped DEF P
<1> QED
    BY <1>2, <1>5, <1>6, <1>7

(* Server s takes the message m out of its socket, and o is what it does *)
Serves(s, m, o) ==
    /\ 1 \in DOMAIN sock[s] /\ m = sock[s][1]
    /\ leases' = [leases EXCEPT ![s] = o.leases]
    /\ UNCHANGED <<st, clock, acked>>
    /\ sock'[s] = Taken(s, 1)[s]
    /\ \A e \in net.clients \cup Servers : e \notin {s, m.mac} => sock'[e] = sock[e]
    /\ \/ o.reply = {} /\ sock'[m.mac] = sock[m.mac]
       \/ \E r \in Answers(m.mac) :
            /\ o.reply = {r} /\ r.xid = m.xid
            /\ Flow(sock'[m.mac], sock[m.mac], {r})
            /\ Len(sock[m.mac]) < net.room => sock'[m.mac] = Append(sock[m.mac], r)
    /\ \/ "send" \in net.faults
       \/ o.reply # {}
       \/ \A other \in Dispatch(leases[s], clock, m, s) : other.reply = {}

(* One turn of the loop of dhcpd_run *)
LEMMA ServerStep ==
    ASSUME net \in Nets, UNCHANGED net, clock \in Nat, Sockets(sock), Tables,
           NEW s \in Servers, ServerReceives(s)
    PROVE  /\ Sockets(sock)' /\ Tables'
           /\ \E m \in Asks : \E o \in Dispatch(leases[s], clock, m, s) : Serves(s, m, o)
<1>1. PICK i \in Receivable(s) : \E o \in Dispatch(leases[s], clock, sock[s][i], s) :
        /\ "send" \in net.faults \/ o.reply # {}
             \/ \A other \in Dispatch(leases[s], clock, sock[s][i], s) : other.reply = {}
        /\ leases' = [leases EXCEPT ![s] = o.leases]
        /\ sock' = IF o.reply = {} THEN Taken(s, i)
                   ELSE Sendto(Taken(s, i), sock[s][i].mac, CHOOSE r \in o.reply : TRUE)
        /\ UNCHANGED <<st, clock, acked>>
    BY Zenon DEF ServerReceives
<1>2. i = 1 /\ 1 \in DOMAIN sock[s]
    BY DEF Receivable
<1> DEFINE m == sock[s][1]
           taken == Taken(s, 1)
<1>3. PICK o \in Dispatch(leases[s], clock, m, s) :
        /\ "send" \in net.faults \/ o.reply # {}
             \/ \A other \in Dispatch(leases[s], clock, m, s) : other.reply = {}
        /\ leases' = [leases EXCEPT ![s] = o.leases]
        /\ sock' = IF o.reply = {} THEN taken
                   ELSE Sendto(taken, m.mac, CHOOSE r \in o.reply : TRUE)
        /\ UNCHANGED <<st, clock, acked>>
    BY <1>1, <1>2, Zenon
<1>4. m \in Asks
  <2>1. sock[s] \in Seq(Asks)
    BY DEF Sockets
  <2> QED
    BY <1>2, <2>1
<1>5. m.mac \in net.clients /\ m.mac # s
    BY <1>4, NetFacts DEF Asks
<1>6. /\ Sockets(taken)
      /\ \A d \in net.clients \cup Servers : d # s => taken[d] = sock[d]
    BY <1>2, TakeOne
<1>7. /\ o.leases \in [net.pool[s] -> Lease] /\ OneSlot(o.leases)
      /\ \/ o.reply = {}
         \/ \E r \in Answers(m.mac) : o.reply = {r} /\ r.xid = m.xid
    BY <1>4, DispatchTyped
<1> HIDE DEF m, taken
<1>8. /\ leases' = [e \in Servers |-> leases'[e]]
      /\ \A e \in Servers : leases'[e] \in [net.pool[e] -> Lease] /\ OneSlot(leases'[e])
    BY <1>3, <1>7 DEF Tables
<1>9. Tables'
    BY <1>8, SameNet DEF Tables, OneSlot
<1>10. CASE o.reply = {}
  <2>1. sock' = taken
    BY <1>3, <1>10
  <2>2. Serves(s, m, o)
    BY <1>2, <1>3, <1>5, <1>6, <1>10, <2>1, Zenon DEF Serves, m, taken
  <2> QED
    BY <1>4, <1>6, <1>9, <2>1, <2>2, SameNet, Zenon DEF Sockets
<1>11. CASE \E r \in Answers(m.mac) : o.reply = {r} /\ r.xid = m.xid
  <2>1. PICK r \in Answers(m.mac) : o.reply = {r} /\ r.xid = m.xid
    BY <1>11
  <2> DEFINE c == m.mac
             after == Sendto(taken, c, r)
  <2>2. sock' = after
    BY <1>3, <2>1, Zenon
  <2>3. c \in net.clients /\ r \in Answers(c)
    BY <1>5
  <2> HIDE DEF c
  <2>4. /\ Sockets(after)
        /\ \A e \in net.clients \cup Servers : e # c => after[e] = taken[e]
        /\ Flow(after[c], taken[c], {r})
        /\ Len(taken[c]) < net.room => after[c] = Append(taken[c], r)
    BY <1>6, <2>3, SendAnswer, Zenon
  <2> HIDE DEF after
  <2>5. c # s /\ taken[c] = sock[c]
    BY <1>5, <1>6, <2>3 DEF c
  <2>6. /\ sock'[s] = taken[s]
        /\ \A e \in net.clients \cup Servers : e \notin {s, c} => sock'[e] = sock[e]
        /\ Flow(sock'[c], sock[c], {r})
        /\ Len(sock[c]) < net.room => sock'[c] = Append(sock[c], r)
    BY <1>6, <2>2, <2>4, <2>5
  <2>7. Serves(s, m, o)
    BY <1>2, <1>3, <2>1, <2>6, Zenon DEF Serves, m, taken, c
  <2> QED
    BY <1>4, <1>9, <2>2, <2>4, <2>7, SameNet, Zenon DEF Sockets
<1> QED
    BY <1>7, <1>10, <1>11

(* In the beginning: empty sockets, free slots and idle clients *)
LEMMA InitTyped == NetInit => NetTyped
<1> SUFFICES ASSUME NetInit PROVE NetTyped
    OBVIOUS
<1>1. net \in Nets /\ clock \in Nat
    BY DEF NetInit
<1>2. Sockets(sock)
  <2>1. sock = [e \in net.clients \cup Servers |-> <<>>]
    BY DEF NetInit, WireInit
  <2>2. \A S : <<>> \in Seq(S) /\ Len(<<>>) = 0
    OBVIOUS
  <2>3. 0 <= net.room
    BY <1>1, NetFacts
  <2> QED
    BY <2>1, <2>2, <2>3 DEF Sockets
<1>3. Tables
  <2>1. FreeLease \in Lease /\ FreeLease.mac = NoMac
    BY DEF FreeLease, Lease
  <2>2. /\ leases = [s \in Servers |-> leases[s]]
        /\ \A s \in Servers : leases[s] = [ip \in net.pool[s] |-> FreeLease]
    BY DEF NetInit
  <2> HIDE DEF FreeLease
  <2> QED
    BY <2>1, <2>2 DEF Tables, OneSlot
<1>4. Threads
  <2> DEFINE r == [pc |-> "idle", ifaddr |-> 0, oldaddr |-> 0, xid |-> 0,
                   retries |-> 0, presult |-> NoResult,
                   chosen |-> [ipaddr |-> 0, serverid |-> 0],
                   ok |-> FALSE, wake |-> 0, cancel |-> FALSE, caller |-> "free"]
  <2>1. 0 \in Addrs /\ 0 \in 0 .. XidMod - 1 /\ 0 \in 0 .. Retries
    BY ClientConfig DEF Addrs
  <2>2. "idle" \in Places /\ "idle" \notin Sending
    BY DEF Places, Sending
  <2>3. NoResult \in Results /\ [ipaddr |-> 0, serverid |-> 0] \in Offered
    BY <2>1 DEF NoResult, Results, Offered
  <2>4. r \in Thread /\ r.pc = "idle"
    BY <2>1, <2>2, <2>3 DEF Thread
  <2>5. st = [c \in Client |-> r]
    BY DEF NetInit, ClientInit
  <2> HIDE DEF r
  <2> QED
    BY <2>2, <2>4, <2>5 DEF Threads
<1> QED
    BY <1>1, <1>2, <1>3, <1>4 DEF NetTyped

(* A step of a client or its owner moves that client only *)
LEMMA ClientStep ==
    ASSUME NetTyped, UNCHANGED net, NEW c \in net.clients,
           \/ ClientRuns(c) \/ ClientAcked(c) \/ ClientFails(c) \/ ClientCaller(c)
    PROVE  Sockets(sock)' /\ Steps(c) /\ UNCHANGED <<leases, clock>>
<1>1. net \in Nets /\ c \in Client /\ Threads /\ Sockets(sock) /\ clock \in Nat
    BY NetFacts DEF NetTyped
<1>2. UNCHANGED <<leases, clock>>
    BY Zenon DEF ClientRuns, ClientAcked, ClientFails, ClientCaller
<1>3. ASSUME UNCHANGED sock PROVE Sockets(sock)'
    BY <1>1, <1>3, SameNet, Zenon DEF Sockets
<1>4. ASSUME NEW q, Sockets(q), sock' = q PROVE Sockets(sock)'
    BY <1>4, SameNet, Zenon DEF Sockets
<1>5. ASSUME NEW i \in Receivable(c), sock' = Taken(c, i) PROVE Sockets(sock)'
  <2>1. i \in DOMAIN sock[c]
    BY <1>1, <1>5, FirstAnswer
  <2>2. Sockets(Taken(c, i))
    BY <1>1, <2>1, TakeOne, SMTT(30)
  <2> QED
    BY <1>4, <1>5, <2>2
<1>6. ASSUME NEW m \in Asks, sock' = Sendto(sock, Broadcast, m) PROVE Sockets(sock)'
  <2>1. Sockets(Sendto(sock, Broadcast, m))
    BY <1>1, SendAsk, Zenon
  <2> QED
    BY <1>4, <1>6, <2>1
<1>7. CASE BeginRequest(c)
    BY <1>1, <1>2, <1>3, <1>7, BeginRequestStep, SMTT(30)
<1>8. CASE SendDiscover(c)
    BY <1>1, <1>2, <1>6, <1>8, SendDiscoverStep, SMTT(30)
<1>9. CASE SendRequest(c)
    BY <1>1, <1>2, <1>6, <1>9, SendRequestStep
<1>10. CASE SeeCancel(c) \/ SendFails(c) \/ RecvFails(c)
    BY <1>1, <1>2, <1>3, <1>10, ErrorStep
<1>11. CASE RunCallback(c)
    BY <1>1, <1>2, <1>3, <1>11, RunCallbackStep, SMTT(30)
<1>12. CASE EnterSleep(c, clock)
    BY <1>1, <1>2, <1>3, <1>12, EnterSleepStep
<1>13. CASE WakeUp(c, clock)
    BY <1>1, <1>2, <1>3, <1>13, WakeUpStep
<1>14. CASE Timeout(c)
    BY <1>1, <1>2, <1>3, <1>14, TimeoutStep, SMTT(30)
<1>15. ASSUME NEW i \in Receivable(c), RecvOffer(c, i) PROVE Sockets(sock)' /\ Steps(c)
    BY <1>1, <1>5, <1>15, RecvOfferStep, SMTT(30)
<1>16. ASSUME NEW i \in Receivable(c), RecvNak(c, i) PROVE Sockets(sock)' /\ Steps(c)
    BY <1>1, <1>5, <1>16, RecvNakStep, SMTT(30)
<1>17. ASSUME NEW i \in Receivable(c), RecvAck(c, i) PROVE Sockets(sock)' /\ Steps(c)
    BY <1>1, <1>5, <1>17, RecvAckStep, SMTT(30)
<1>18. ASSUME NEW i \in Receivable(c), NEW late \in BOOLEAN, RecvOther(c, i, late)
       PROVE  Sockets(sock)' /\ Steps(c)
  <2>1. /\ Steps(c)
        /\ \/ sock' = Taken(c, i)
           \/ \E m \in Asks : sock' = Sendto(Taken(c, i), sock[c][i].serverid, m)
    BY <1>1, <1>18, RecvOtherStep, SMTT(30)
  <2>2. i \in DOMAIN sock[c] /\ sock[c][i] \in Answers(c)
    BY <1>1, <1>18, FirstAnswer, SMTT(30)
  <2> DEFINE to == sock[c][i].serverid
             q == Taken(c, i)
  <2>3. to \in Servers
    BY <2>2 DEF Answers
  <2>4. Sockets(q)
    BY <1>1, <2>2, TakeOne
  <2> HIDE DEF to, q
  <2>5. ASSUME NEW m \in Asks PROVE Sockets(Sendto(q, to, m))
    BY <1>1, <2>3, <2>4, SendAsk, Zenon
  <2> QED
    BY <1>4, <2>1, <2>4, <2>5, SMTT(30) DEF to, q
<1>19. CASE RequestAsync(c)
    BY <1>1, <1>2, <1>3, <1>19, RequestAsyncStep, Zenon
<1>20. CASE CancelFlag(c) \/ CancelKill(c) \/ CancelJoin(c)
    BY <1>1, <1>2, <1>3, <1>20, CancelStep
<1>21. CASE ClientRuns(c)
  <2>1. net.prompt \in BOOLEAN
    BY <1>1, NetConfig
  <2>2. \A late \in {FALSE, ~net.prompt} : late \in BOOLEAN
    BY <2>1, Zenon
  <2> QED
    BY <1>2, <1>7, <1>8, <1>9, <1>10, <1>11, <1>12, <1>13, <1>14, <1>15, <1>16, <1>18,
       <1>21, <2>2, Zenon DEF ClientRuns
<1>22. CASE ClientAcked(c)
    BY <1>2, <1>17, <1>22, SMTT(30) DEF ClientAcked
<1>23. CASE ClientFails(c)
    BY <1>10, <1>23, Zenon DEF ClientFails
<1>24. CASE ClientCaller(c)
    BY <1>19, <1>20, <1>24 DEF ClientCaller
<1> QED
    BY <1>21, <1>22, <1>23, <1>24

(* Every step keeps the shape of the state *)
LEMMA NextTyped ==
    ASSUME NetTyped, NetNext
    PROVE  NetTyped'
<1>1. UNCHANGED net /\ net \in Nets /\ clock \in Nat /\ Sockets(sock) /\ Tables /\ Threads
    BY DEF NetTyped, NetNext
<1>2. ASSUME UNCHANGED leases PROVE Tables'
    BY <1>1, <1>2, SameNet DEF Tables, OneSlot
<1>3. ASSUME UNCHANGED st PROVE Threads'
    BY <1>1, <1>3, SameNet, SMTT(30) DEF Threads, Sending
<1>4. ASSUME NEW c \in net.clients,
             \/ ClientRuns(c) \/ ClientAcked(c) \/ ClientFails(c) \/ ClientCaller(c)
      PROVE  NetTyped'
  <2>1. Sockets(sock)' /\ Steps(c) /\ UNCHANGED <<leases, clock>>
    BY <1>1, <1>4, ClientStep
  <2>2. Threads'
    BY <1>1, <2>1, StepsTyped, NetFacts
  <2> QED
    BY <1>1, <1>2, <2>1, <2>2, SMTT(30) DEF NetTyped
<1>5. ASSUME NEW s \in Servers, ServerReceives(s) PROVE NetTyped'
  <2>1. Sockets(sock)' /\ Tables'
    BY <1>1, <1>5, ServerStep
  <2>2. UNCHANGED <<st, clock>>
    BY <1>5 DEF ServerReceives
  <2> QED
    BY <1>1, <1>3, <2>1, <2>2 DEF NetTyped
<1>6. ASSUME NEW s \in Servers, ServerRestarts(s) PROVE NetTyped'
  <2> DEFINE tab == [ip \in net.pool[s] |-> FreeLease]
  <2>1. /\ UNCHANGED <<st, clock>> /\ leases' = [leases EXCEPT ![s] = tab]
        /\ sock' = [sock EXCEPT ![s] = <<>>]
    BY <1>6 DEF ServerRestarts
  <2>2. FreeLease \in Lease /\ FreeLease.mac = NoMac
    BY DEF FreeLease, Lease
  <2>3. tab \in [net.pool[s] -> Lease] /\ OneSlot(tab)
    BY <2>2 DEF OneSlot
  <2> HIDE DEF tab
  <2>4. /\ leases' = [e \in Servers |-> leases'[e]]
        /\ \A e \in Servers : leases'[e] \in [net.pool[e] -> Lease] /\ OneSlot(leases'[e])
    BY <1>1, <2>1, <2>3 DEF Tables
  <2>5. Tables'
    BY <1>1, <2>4, SameNet DEF Tables, OneSlot
  <2>6. <<>> \in Seq(Asks) /\ Len(<<>>) = 0 /\ 0 <= net.room
    BY <1>1, NetFacts
  <2>7. /\ sock' = [e \in net.clients \cup Servers |-> sock'[e]]
        /\ sock'[s] = <<>>
        /\ \A e \in net.clients \cup Servers : e # s => sock'[e] = sock[e]
    BY <1>1, <2>1, Zenon DEF Sockets
  <2>8. \A c \in net.clients : c # s
    BY <1>1, NetFacts
  <2>9. Sockets(sock)'
    BY <1>1, <2>6, <2>7, <2>8, SameNet, Zenon DEF Sockets
  <2> QED
    BY <1>1, <1>3, <2>1, <2>5, <2>9 DEF NetTyped
<1>7. CASE Lose
  <2>0. PICK e \in DOMAIN sock : \E i \in DOMAIN sock[e] : sock' = Taken(e, i)
    BY <1>7 DEF Lose
  <2>1. PICK i \in DOMAIN sock[e] : sock' = Taken(e, i)
    BY <2>0
  <2>2. e \in net.clients \cup Servers
    BY <1>1 DEF Sockets
  <2>3. Sockets(Taken(e, i))
    BY <1>1, <2>2, TakeOne
  <2>4. Sockets(sock)'
    BY <1>1, <2>1, <2>3, SameNet, Zenon DEF Sockets
  <2>5. UNCHANGED <<st, leases, clock>>
    BY <1>7 DEF Lose
  <2> QED
    BY <1>1, <1>2, <1>3, <2>4, <2>5 DEF NetTyped
<1>8. CASE Tick
  <2>1. UNCHANGED <<st, leases, sock>> /\ clock' = clock + 1
    BY <1>8 DEF Tick
  <2>2. Sockets(sock)'
    BY <1>1, <2>1, SameNet, Zenon DEF Sockets
  <2> QED
    BY <1>1, <1>2, <1>3, <2>1, <2>2 DEF NetTyped
<1> QED
    BY <1>4, <1>5, <1>6, <1>7, <1>8 DEF NetNext

(* Sockets, tables and threads keep their shape *)
LEMMA NetAlwaysTyped == NetInit /\ [][NetNext]_<<net, vars>> => []NetTyped
<1>1. NetTyped /\ UNCHANGED <<net, vars>> => NetTyped'
  <2> SUFFICES ASSUME NetTyped, UNCHANGED <<net, vars>> PROVE NetTyped'
    OBVIOUS
  <2>1. UNCHANGED <<net, st, leases, sock, clock>>
    BY DEF vars
  <2> QED
    BY <2>1, SameNet, Zenon DEF NetTyped, Sockets, Tables, Threads, OneSlot, Sending
<1> QED
    BY <1>1, InitTyped, NextTyped, PTL

(* Whatever the clients, servers, losses, errors and restarts: a table has a *)
(* lease for each address of its pool, no socket holds more than it has room *)
(* for, no exchange is retried too often, and what a client has on its       *)
(* interface is an address of some server's pool or none.                    *)
THEOREM NetTypeCorrect == NetInit /\ [][NetNext]_<<net, vars>> => []NetTypeOK
<1>1. NetTyped => NetTypeOK
  <2> SUFFICES ASSUME NetTyped PROVE NetTypeOK
    OBVIOUS
  <2>1. \A c \in Client : st[c] \in Thread
    BY DEF NetTyped, Threads
  <2>2. \A c \in Client : /\ st[c].xid \in 0 .. (XidMod - 1)
                          /\ st[c].retries \in 0 .. Retries
                          /\ st[c].ifaddr \in Addrs
    BY <2>1 DEF Thread
  <2>3. \A s \in Servers : leases[s] \in [net.pool[s] -> Lease]
    BY DEF NetTyped, Tables
  <2>4. \A e \in DOMAIN sock : Len(sock[e]) <= net.room
    BY Zenon DEF NetTyped, Sockets
  <2> QED
    BY <2>2, <2>3, <2>4 DEF NetTypeOK, Addrs
<1> QED
    BY <1>1, NetAlwaysTyped, PTL
=============================================================================
