---------------------------- MODULE DhcpdProofs ----------------------------
(***************************************************************************)
(* Proofs about the DHCP server: about the leases, for any set of clients, *)
(* any pool, any configured times and any messages, and about the start    *)
(* and the stop of its task, for any number of callers and task ids.       *)
(***************************************************************************)
EXTENDS Dhcpd, DhcpdDaemon, TLAPS

-----------------------------------------------------------------------------
(***************************************************************************)
(* The leases.  Every handler changes at most one slot, so the lemmas      *)
(* first say what each of them may leave behind (its "effect"), and the    *)
(* invariant is then preserved effect by effect.                           *)
(***************************************************************************)

(* The part of the invariant that speaks of a lease table alone *)
TableOK(tab) ==
    /\ tab \in [Addr -> Lease]
    /\ \A a, b \in Addr : tab[a].mac = tab[b].mac /\ tab[a].mac # NoMac => a = b
    /\ \A a \in Addr : tab[a].mac # NoMac => tab[a].allocated
    /\ \A a \in Addr : ~tab[a].allocated => tab[a] = FreeLease

(* The address ip may be given to mac: it is the client's own slot, or the *)
(* client has none and the slot is free or expired                         *)
MayGrant(tab, now, mac, ip) ==
    /\ ip \in Addr
    /\ \/ tab[ip].mac = mac
       \/ /\ \A a \in Addr : tab[a].mac # mac
          /\ tab[ip].expiry <= now

(* The inductive invariant *)
IInv ==
    /\ TypeOK
    /\ TableOK(leases)
    /\ LeaseHonoured
    /\ RepliesBacked

-----------------------------------------------------------------------------
(* The slot of a client, if it has one, is what dhcpd_findbymac returns *)
LEMMA FindByMac ==
    ASSUME NEW tab, TableOK(tab), NEW mac \in Mac
    PROVE  /\ dhcpd_findbymac(tab, mac) = {a \in Addr : tab[a].mac = mac}
           /\ \A ip \in dhcpd_findbymac(tab, mac) : ip \in Addr /\ tab[ip].mac = mac
  <1>1. DOMAIN tab = Addr
    BY DEF TableOK
  <1>2. ASSUME NEW x \in Addr, tab[x].mac = mac, NEW y \in Addr, tab[y].mac = mac
        PROVE  x <= y
    <2>1. x = y
      BY <1>2, LeaseConfig DEF TableOK
    <2>2. x \in Int
      BY ServerConfig DEF Addr
    <2> QED BY <2>1, <2>2
  <1> QED BY <1>1, <1>2 DEF dhcpd_findbymac, First

(* An available address has an expiry that has passed *)
LEMMA AvailableExpired ==
    ASSUME NEW tab, TableOK(tab), NEW now \in Nat, NEW ip \in Addr,
           Available(tab, now, ip)
    PROVE  tab[ip].expiry <= now
  <1>1. DOMAIN tab = Addr
    BY DEF TableOK
  <1>2. CASE tab[ip].allocated
    BY <1>1, <1>2 DEF Available, dhcpd_findbyipaddr, dhcpd_leaseexpired
  <1>3. CASE ~tab[ip].allocated
    BY <1>3 DEF TableOK, FreeLease
  <1> QED BY <1>2, <1>3

(* Writing a lease for a client into a slot it may be granted keeps the    *)
(* table well formed                                                       *)
LEMMA GrantKeepsTable ==
    ASSUME NEW tab, TableOK(tab), NEW now \in Nat, NEW mac \in Mac, NEW ip,
           MayGrant(tab, now, mac, ip), NEW time \in Nat
    PROVE  TableOK(dhcpd_setlease(tab, now, mac, ip, time))
  <1>1. DOMAIN tab = Addr /\ ip \in Addr
    BY DEF TableOK, MayGrant
  <1> DEFINE new == [mac |-> mac, allocated |-> TRUE, expiry |-> now + time]
             res == [tab EXCEPT ![ip] = new]
  <1>2. dhcpd_setlease(tab, now, mac, ip, time) = res
    BY <1>1 DEF dhcpd_setlease
  <1>3. new \in Lease /\ new.mac = mac /\ new.allocated
    BY DEF Lease
  <1> HIDE DEF new
  <1>4. res \in [Addr -> Lease]
    BY <1>3, Zenon DEF TableOK
  <1>5. res[ip] = new /\ \A a \in Addr : a # ip => res[a] = tab[a]
    BY <1>1 DEF TableOK
  <1> HIDE DEF res
  <1>6. \A a \in Addr : a # ip => tab[a].mac # mac
    BY LeaseConfig DEF TableOK, MayGrant
  <1>7. \A a, b \in Addr : res[a].mac = res[b].mac /\ res[a].mac # NoMac => a = b
    BY <1>3, <1>5, <1>6 DEF TableOK
  <1>8. \A a \in Addr : res[a].mac # NoMac => res[a].allocated
    BY <1>3, <1>5 DEF TableOK
  <1>9. \A a \in Addr : ~res[a].allocated => res[a] = FreeLease
    BY <1>3, <1>5 DEF TableOK
  <1>10. TableOK(res)
    BY <1>4, <1>7, <1>8, <1>9 DEF TableOK
  <1> QED BY <1>2, <1>10

-----------------------------------------------------------------------------
(* The messages the specification ranges over have the fields used below *)
LEMMA MessageType ==
    ASSUME NEW m \in Message
    PROVE  m.mac \in Mac /\ m.leasetime \in Nat /\ m.reqip \in Nat
  BY ServerConfig, Zenon DEF Message, ClientMsg

(* Lease times that are offered or granted are positive *)
LEMMA PositiveTime ==
    ASSUME NEW m, m.leasetime \in Nat
    PROVE  /\ dhcpd_verifyreqleasetime(m, LeaseTime) \in Nat \ {0}
           /\ OfferTime \in Nat \ {0} /\ DeclineTime \in Nat \ {0}
  BY LeaseConfig DEF dhcpd_verifyreqleasetime

(* dhcpd_discover leaves the table alone, or reserves one address the      *)
(* client may be granted and offers that address and no other              *)
LEMMA DiscoverEffect ==
    ASSUME NEW tab, TableOK(tab), NEW now \in Nat, NEW m \in Message,
           NEW o \in dhcpd_discover(tab, now, m, ServerIP)
    PROVE  \/ o.leases = tab /\ o.reply = {}
           \/ \E ip : /\ MayGrant(tab, now, m.mac, ip)
                      /\ o.leases = dhcpd_setlease(tab, now, m.mac, ip, OfferTime)
                      /\ \A r \in o.reply : /\ r.type = "OFFER"
                                            /\ r.mac = m.mac
                                            /\ r.yiaddr = ip
  <1>1. m.mac \in Mac /\ DOMAIN tab = Addr
    BY MessageType DEF TableOK
  <1>2. dhcpd_findbymac(tab, m.mac) = {a \in Addr : tab[a].mac = m.mac}
    BY <1>1, FindByMac
  <1>3. ASSUME NEW ip \in DiscoverChoice(tab, now, m)
        PROVE  MayGrant(tab, now, m.mac, ip)
    <2>1. CASE dhcpd_findbymac(tab, m.mac) # {}
      BY <1>2, <1>3, <2>1 DEF DiscoverChoice, MayGrant
    <2>2. CASE dhcpd_findbymac(tab, m.mac) = {}
      <3>1. ip \in Addr /\ Available(tab, now, ip)
        BY <1>1, <1>3, <2>2
           DEF DiscoverChoice, dhcpd_verifyreqip, dhcpd_allocipaddr, First
      <3>2. tab[ip].expiry <= now
        BY <3>1, AvailableExpired
      <3> QED BY <1>2, <2>2, <3>1, <3>2 DEF MayGrant
    <2> QED BY <2>1, <2>2
  <1>4. CASE DiscoverChoice(tab, now, m) = {}
    BY <1>4 DEF dhcpd_discover, Silent
  <1>5. CASE DiscoverChoice(tab, now, m) # {}
    <2>1. PICK ip \in DiscoverChoice(tab, now, m) :
            o \in dhcpd_sendoffer(
                   dhcpd_setlease(tab, now, m.mac, ip, OfferTime), m, ip,
                   dhcpd_verifyreqleasetime(
                     m, DiscoverTime(tab, now, m, ip)), ServerIP)
      BY <1>5 DEF dhcpd_discover
    <2> QED BY <1>3, <2>1 DEF dhcpd_sendoffer, Reply
  <1> QED BY <1>4, <1>5

(* dhcpd_sendack and dhcpd_sendnak, and what they send *)
LEMMA AckEffect ==
    ASSUME NEW tab, NEW now, NEW m, NEW ip,
           NEW o \in dhcpd_sendack(tab, now, m, ip, ServerIP)
    PROVE  \/ o.leases = tab /\ o.reply = {}
           \/ /\ o.leases = dhcpd_setlease(tab, now, m.mac, ip,
                              dhcpd_verifyreqleasetime(m, LeaseTime))
              /\ o.reply = {Reply("ACK", m, ip,
                              dhcpd_verifyreqleasetime(m, LeaseTime), ServerIP)}
  BY DEF dhcpd_sendack, Silent

(* dhcpd_sendnak leaves the table alone and sends a NAK or nothing *)
LEMMA NakEffect ==
    ASSUME NEW tab, NEW m, NEW o \in dhcpd_sendnak(tab, m, ServerIP)
    PROVE  /\ o.leases = tab
           /\ \A r \in o.reply : r.type = "NAK" /\ r.mac = m.mac /\ r.yiaddr = 0
  BY DEF dhcpd_sendnak, Reply

(* dhcpd_request refuses or stays silent, or grants one address the client *)
(* may be granted, or clears an expired slot the client asked for          *)
LEMMA RequestEffect ==
    ASSUME NEW tab, TableOK(tab), NEW now \in Nat, NEW m \in Message,
           NEW o \in dhcpd_request(tab, now, m, ServerIP)
    PROVE  \/ /\ o.leases = tab
              /\ \A r \in o.reply :
                    r.type = "NAK" /\ r.mac = m.mac /\ r.yiaddr = 0
           \/ \E ip : /\ MayGrant(tab, now, m.mac, ip)
                      /\ o.leases = dhcpd_setlease(tab, now, m.mac, ip,
                                      dhcpd_verifyreqleasetime(m, LeaseTime))
                      /\ o.reply = {Reply("ACK", m, ip,
                           dhcpd_verifyreqleasetime(m, LeaseTime), ServerIP)}
           \/ /\ m.reqip \in Addr /\ tab[m.reqip].expiry <= now
              /\ o.leases = [tab EXCEPT ![m.reqip] = FreeLease]
              /\ o.reply = {}
  <1>1. m.mac \in Mac /\ DOMAIN tab = Addr
    BY MessageType DEF TableOK
  <1>2. dhcpd_findbymac(tab, m.mac) = {a \in Addr : tab[a].mac = m.mac}
    BY <1>1, FindByMac
  <1>3. CASE dhcpd_findbymac(tab, m.mac) # {}
    <2>1. PICK ip \in dhcpd_findbymac(tab, m.mac) :
            o \in RequestWithLease(tab, now, m, ip, ServerIP)
      BY <1>3 DEF dhcpd_request
    <2>2. MayGrant(tab, now, m.mac, ip)
      BY <1>2, <2>1 DEF MayGrant
    <2>3. \/ o \in dhcpd_sendack(tab, now, m, ip, ServerIP)
          \/ o \in dhcpd_sendnak(tab, m, ServerIP)
      BY <2>1, Zenon DEF RequestWithLease
    <2> QED BY <2>2, <2>3, AckEffect, NakEffect
  <1>4. CASE dhcpd_findbymac(tab, m.mac) = {} /\ m.reqip # 0 /\ m.serverid = 0
    <2>1. o \in RequestWithoutLease(tab, now, m, ServerIP)
      BY <1>4, Zenon DEF dhcpd_request
    <2>2. CASE dhcpd_findbyipaddr(tab, m.reqip) # {}
      <3>1. m.reqip \in Addr
        BY <1>1, <2>2, Zenon DEF dhcpd_findbyipaddr
      <3>2. CASE dhcpd_leaseexpired(tab[m.reqip], now)
        BY <2>1, <2>2, <3>1, <3>2
           DEF RequestWithoutLease, Silent, dhcpd_leaseexpired
      <3>3. CASE ~dhcpd_leaseexpired(tab[m.reqip], now)
        <4>1. o \in dhcpd_sendnak(tab, m, ServerIP)
          BY <2>1, <2>2, <3>3, Zenon DEF RequestWithoutLease
        <4> QED BY <4>1, NakEffect
      <3> QED BY <3>2, <3>3, Zenon
    <2>3. CASE dhcpd_findbyipaddr(tab, m.reqip) = {} /\ m.reqip \in Addr
      <3>1. o \in dhcpd_sendack(tab, now, m, m.reqip, ServerIP)
        BY <1>1, <2>1, <2>3 DEF RequestWithoutLease
      <3>2. Available(tab, now, m.reqip)
        BY <2>3 DEF Available
      <3>3. MayGrant(tab, now, m.mac, m.reqip)
        BY <1>2, <1>4, <2>3, <3>2, AvailableExpired DEF MayGrant
      <3> QED BY <3>1, <3>3, AckEffect
    <2>4. CASE dhcpd_findbyipaddr(tab, m.reqip) = {} /\ m.reqip \notin Addr
      <3>1. o \in dhcpd_sendnak(tab, m, ServerIP)
        BY <1>1, <2>1, <2>4, Zenon DEF RequestWithoutLease
      <3> QED BY <3>1, NakEffect
    <2> QED BY <2>2, <2>3, <2>4
  <1>5. CASE dhcpd_findbymac(tab, m.mac) = {} /\ ~(m.reqip # 0 /\ m.serverid = 0)
    BY <1>5 DEF dhcpd_request, Silent
  <1> QED BY <1>3, <1>4, <1>5

-----------------------------------------------------------------------------
(* Granting an address to a client that may have it breaks no promise made *)
(* to another client                                                       *)
LEMMA GrantBreaksNoPromise ==
    ASSUME IInv, NEW mac \in Mac, NEW ip, MayGrant(leases, clock, mac, ip),
           promise[ip].mac # NoMac, promise[ip].until > clock
    PROVE  promise[ip].mac = mac
  <1>1. /\ leases[ip].mac = promise[ip].mac
        /\ leases[ip].expiry >= promise[ip].until
    BY DEF IInv, LeaseHonoured, MayGrant
  <1>2. leases[ip].expiry \in Nat /\ promise[ip].until \in Nat /\ clock \in Nat
    BY DEF IInv, TypeOK, MayGrant, Lease, Promise
  <1>3. ~(leases[ip].expiry <= clock)
    BY <1>1, <1>2
  <1> QED BY <1>1, <1>3 DEF MayGrant

(* The cleared table of dhcpd_run satisfies IInv *)
LEMMA InitIInv == Init => IInv
  <1> SUFFICES ASSUME Init PROVE IInv
    OBVIOUS
  <1>1. TypeOK
    BY ServerConfig DEF Init, TypeOK, Lease, FreeLease, Promise, NoPromise
  <1>2. TableOK(leases)
    BY DEF Init, TableOK, Lease, FreeLease
  <1>3. LeaseHonoured /\ RepliesBacked
    BY DEF Init, LeaseHonoured, RepliesBacked, NoPromise
  <1> QED BY <1>1, <1>2, <1>3 DEF IInv

(* A DISCOVER preserves IInv, whether it reserves an address or is ignored *)
LEMMA DiscoverIInv ==
    ASSUME IInv, NEW m \in Message, Discover(m)
    PROVE  IInv'
  <1>1. /\ TableOK(leases) /\ clock \in Nat /\ m.mac \in Mac /\ clock' = clock
        /\ m.mac # NoMac /\ promise' = Forget(m.mac)
    BY MessageType, LeaseConfig DEF IInv, TypeOK, Discover
  <1>2. PICK o \in dhcpd_discover(leases, clock, m, ServerIP) :
          leases' = o.leases /\ out' = o.reply
    BY DEF Discover
  <1>3. /\ promise' \in [Addr -> Promise]
        /\ \A a \in Addr : promise'[a] = IF promise[a].mac = m.mac
                                        THEN NoPromise ELSE promise[a]
    BY <1>1 DEF Forget, IInv, TypeOK, Promise, NoPromise
  <1>4. CASE o.leases = leases /\ o.reply = {}
    <2>1. leases' = leases /\ out' = {} /\ clock' = clock
      BY <1>1, <1>2, <1>4, Zenon
    <2>2. TypeOK' /\ RepliesBacked'
      BY <1>3, <2>1, Zenon DEF IInv, TypeOK, RepliesBacked
    <2>3. TableOK(leases)'
      BY <1>1, <2>1, Zenon DEF TableOK
    <2>4. LeaseHonoured'
      <3>1. \A a \in Addr : promise'[a].mac # NoMac => promise'[a] = promise[a]
        BY <1>3 DEF NoPromise
      <3> QED BY <2>1, <3>1, Zenon DEF IInv, LeaseHonoured
    <2> QED BY <2>2, <2>3, <2>4, Zenon DEF IInv
  <1>5. ASSUME NEW ip, MayGrant(leases, clock, m.mac, ip),
               o.leases = dhcpd_setlease(leases, clock, m.mac, ip, OfferTime),
               \A r \in o.reply : r.type = "OFFER" /\ r.mac = m.mac /\ r.yiaddr = ip
        PROVE  IInv'
    <2>1. /\ TableOK(o.leases)
          /\ o.leases = [leases EXCEPT ![ip] = [mac |-> m.mac, allocated |-> TRUE,
                                                expiry |-> clock + OfferTime]]
      <3>1. TableOK(o.leases)
        BY <1>1, <1>5, GrantKeepsTable, LeaseConfig, Zenon
      <3>2. ip \in DOMAIN leases
        BY <1>1, <1>5 DEF TableOK, MayGrant
      <3> QED BY <1>5, <3>1, <3>2, Zenon DEF dhcpd_setlease
    <2>2. ip \in Addr
      BY <1>5 DEF MayGrant
    <2>3. /\ leases'[ip] = [mac |-> m.mac, allocated |-> TRUE,
                            expiry |-> clock + OfferTime]
          /\ \A a \in Addr : a # ip => leases'[a] = leases[a]
      BY <1>1, <1>2, <2>1, <2>2, Zenon DEF TableOK
    <2>4. TableOK(leases)'
      BY <1>2, <2>1 DEF TableOK
    <2>5. TypeOK'
      BY <1>1, <1>2, <1>3, <1>5, <2>4, Zenon DEF IInv, TypeOK, TableOK
    <2>6. LeaseHonoured'
      <3>1. \A a \in Addr : promise'[a].mac # NoMac =>
              promise'[a] = promise[a] /\ promise[a].mac # m.mac
        BY <1>3 DEF NoPromise
      <3>2. promise'[ip].mac # NoMac => ~(promise[ip].until > clock)
        BY <1>1, <1>5, <2>2, <3>1, GrantBreaksNoPromise, Zenon
      <3> QED BY <1>1, <2>2, <2>3, <3>1, <3>2, Zenon DEF IInv, LeaseHonoured
    <2>7. RepliesBacked'
      <3>1. clock + OfferTime > clock
        BY <1>1, LeaseConfig
      <3>2. leases'[ip].mac = m.mac /\ leases'[ip].expiry = clock + OfferTime
        BY <2>3
      <3> QED BY <1>1, <1>2, <1>5, <2>2, <3>1, <3>2, Zenon DEF RepliesBacked
    <2> QED BY <2>4, <2>5, <2>6, <2>7, Zenon DEF IInv
  <1> QED BY <1>1, <1>2, <1>4, <1>5, DiscoverEffect

(* A REQUEST preserves IInv on each of the paths of dhcpd_request *)
LEMMA RequestIInv ==
    ASSUME IInv, NEW m \in Message, Request(m)
    PROVE  IInv'
  <1> DEFINE time == dhcpd_verifyreqleasetime(m, LeaseTime)
  <1>1. /\ TableOK(leases) /\ clock \in Nat /\ m.mac \in Mac /\ clock' = clock
        /\ m.mac # NoMac /\ time \in Nat \ {0}
    BY MessageType, PositiveTime, LeaseConfig DEF IInv, TypeOK, Request
  <1>2. PICK o \in dhcpd_request(leases, clock, m, ServerIP) :
          /\ leases' = o.leases
          /\ out' = o.reply
          /\ promise' = [a \in Addr |->
               IF \E r \in o.reply : r.type = "ACK" /\ r.yiaddr = a
               THEN [mac |-> m.mac, until |-> clock + time]
               ELSE promise[a]]
    BY DEF Request
  <1> HIDE DEF time
  <1>3. CASE /\ o.leases = leases
             /\ \A r \in o.reply :
                   r.type = "NAK" /\ r.mac = m.mac /\ r.yiaddr = 0
    <2>1. promise' = promise
      BY <1>2, <1>3, Zenon DEF IInv, TypeOK
    <2>2. leases' = leases /\ out' = o.reply /\ clock' = clock
      BY <1>1, <1>2, <1>3, Zenon
    <2>3. TypeOK' /\ RepliesBacked'
      BY <1>1, <1>3, <2>1, <2>2, Zenon DEF IInv, TypeOK, RepliesBacked
    <2>4. TableOK(leases)' /\ LeaseHonoured'
      BY <1>1, <2>1, <2>2, Zenon DEF IInv, TableOK, LeaseHonoured
    <2> QED BY <2>3, <2>4, Zenon DEF IInv
  <1>4. ASSUME NEW ip, MayGrant(leases, clock, m.mac, ip),
               o.leases = dhcpd_setlease(leases, clock, m.mac, ip, time),
               o.reply = {Reply("ACK", m, ip, time, ServerIP)}
        PROVE  IInv'
    <2>1. /\ TableOK(o.leases)
          /\ o.leases = [leases EXCEPT ![ip] = [mac |-> m.mac, allocated |-> TRUE,
                                                expiry |-> clock + time]]
      <3>1. TableOK(o.leases)
        BY <1>1, <1>4, GrantKeepsTable
      <3>2. ip \in DOMAIN leases
        BY <1>1, <1>4 DEF TableOK, MayGrant
      <3> QED BY <1>4, <3>1, <3>2, Zenon DEF dhcpd_setlease
    <2>2. ip \in Addr
      BY <1>4, Zenon DEF MayGrant
    <2>3. /\ leases'[ip] = [mac |-> m.mac, allocated |-> TRUE,
                            expiry |-> clock + time]
          /\ \A a \in Addr : a # ip => leases'[a] = leases[a]
      BY <1>1, <1>2, <2>1, <2>2, Zenon DEF TableOK
    <2>4. TableOK(leases)'
      BY <1>2, <2>1, Zenon DEF TableOK
    <2>5. \A r \in o.reply : /\ r.type = "ACK" /\ r.mac = m.mac /\ r.yiaddr = ip
                             /\ r.leasetime = time
      BY <1>4 DEF Reply
    <2>6. \E r \in o.reply : r.type = "ACK" /\ r.yiaddr = ip
      BY <1>4 DEF Reply
    <2>7. /\ promise'[ip] = [mac |-> m.mac, until |-> clock + time]
          /\ \A a \in Addr : a # ip => promise'[a] = promise[a]
          /\ promise' \in [Addr -> Promise]
      <3>1. promise \in [Addr -> Promise] /\ ip \in Addr
        BY <2>2, Zenon DEF IInv, TypeOK
      <3>2. \A a \in Addr : (\E r \in o.reply : r.type = "ACK" /\ r.yiaddr = a) <=> a = ip
        BY <2>5, <2>6, Zenon
      <3>3. promise' = [a \in Addr |-> IF a = ip THEN [mac |-> m.mac, until |-> clock + time]
                                                ELSE promise[a]]
        BY <1>2, <3>2, Zenon
      <3>4. [mac |-> m.mac, until |-> clock + time] \in Promise
        BY <1>1 DEF Promise
      <3> QED BY <3>1, <3>3, <3>4, Zenon
    <2>8. TypeOK'
      BY <1>1, <1>2, <2>4, <2>5, <2>7, Zenon DEF IInv, TypeOK, TableOK
    <2>9. /\ leases'[ip].mac = m.mac /\ leases'[ip].allocated
          /\ leases'[ip].expiry = clock + time
          /\ promise'[ip].mac = m.mac /\ promise'[ip].until = clock + time
          /\ clock + time >= clock + time /\ clock + time > clock
      BY <1>1, <2>3, <2>7
    <2>10. LeaseHonoured'
      <3> SUFFICES ASSUME NEW a \in Addr,
                          promise'[a].mac # NoMac, promise'[a].until > clock'
                   PROVE  /\ leases'[a].mac = promise'[a].mac
                          /\ leases'[a].allocated
                          /\ leases'[a].expiry >= promise'[a].until
        BY Zenon DEF LeaseHonoured
      <3>1. CASE a = ip
        BY <2>9, <3>1, Zenon
      <3>2. CASE a # ip
        <4>1. leases'[a] = leases[a] /\ promise'[a] = promise[a]
          BY <2>3, <2>7, <3>2, Zenon
        <4> QED BY <1>1, <4>1, Zenon DEF IInv, LeaseHonoured
      <3> QED BY <3>1, <3>2, Zenon
    <2>11. RepliesBacked'
      BY <1>1, <1>2, <2>2, <2>5, <2>9, Zenon DEF RepliesBacked
    <2> QED BY <2>4, <2>8, <2>10, <2>11, Zenon DEF IInv
  <1>5. CASE /\ m.reqip \in Addr /\ leases[m.reqip].expiry <= clock
             /\ o.leases = [leases EXCEPT ![m.reqip] = FreeLease]
             /\ o.reply = {}
    <2>1. promise' = promise
      BY <1>2, <1>5, Zenon DEF IInv, TypeOK
    <2>2. /\ leases' \in [Addr -> Lease]
          /\ leases'[m.reqip] = FreeLease
          /\ \A a \in Addr : a # m.reqip => leases'[a] = leases[a]
      BY <1>1, <1>2, <1>5 DEF TableOK, FreeLease, Lease
    <2>3. TableOK(leases')
      BY <1>1, <1>5, <2>2 DEF TableOK, FreeLease
    <2>4. TypeOK' /\ RepliesBacked'
      <3>1. out' = {} /\ clock' = clock
        BY <1>1, <1>2, <1>5, Zenon
      <3>2. TypeOK'
        BY <2>1, <2>2, <3>1 DEF IInv, TypeOK
      <3>3. RepliesBacked'
        BY <3>1, Zenon DEF RepliesBacked
      <3> QED BY <3>2, <3>3, Zenon
    <2>5. LeaseHonoured'
      <3>1. leases[m.reqip].expiry \in Nat /\ promise[m.reqip].until \in Nat
        BY <1>5, Zenon DEF IInv, TypeOK, Lease, Promise
      <3>2. promise[m.reqip].mac # NoMac => ~(promise[m.reqip].until > clock)
        BY <1>1, <1>5, <3>1 DEF IInv, LeaseHonoured
      <3> QED BY <1>1, <1>5, <2>1, <2>2, <3>2 DEF IInv, LeaseHonoured
    <2> QED BY <2>3, <2>4, <2>5 DEF IInv
  <1> QED BY <1>1, <1>2, <1>3, <1>4, <1>5, RequestEffect DEF time

(* DECLINE and RELEASE overwrite the slot of their own client only *)
LEMMA GiveUpIInv ==
    ASSUME IInv, NEW m \in Message, NEW new \in Lease, new.mac = NoMac,
           ~new.allocated => new = FreeLease,
           leases' = [a \in Addr |->
                        IF leases[a].mac = m.mac THEN new ELSE leases[a]],
           out' = {}, promise' = Forget(m.mac), clock' = clock
    PROVE  IInv'
  <1>1. /\ TableOK(leases) /\ clock \in Nat /\ m.mac \in Mac /\ m.mac # NoMac
    BY MessageType, LeaseConfig DEF IInv, TypeOK
  <1>2. /\ promise' \in [Addr -> Promise]
        /\ \A a \in Addr : promise'[a] = IF promise[a].mac = m.mac
                                        THEN NoPromise ELSE promise[a]
    BY <1>1 DEF Forget, IInv, TypeOK, Promise, NoPromise
  <1>3. /\ leases' \in [Addr -> Lease]
        /\ \A a \in Addr : leases'[a] = IF leases[a].mac = m.mac
                                       THEN new ELSE leases[a]
    BY <1>1 DEF TableOK
  <1>4. TableOK(leases')
    BY <1>1, <1>3, Zenon DEF TableOK
  <1>5. TypeOK' /\ RepliesBacked'
    BY <1>2, <1>3, Zenon DEF IInv, TypeOK, RepliesBacked
  <1>6. LeaseHonoured'
    BY <1>1, <1>2, <1>3 DEF IInv, LeaseHonoured, NoPromise
  <1> QED BY <1>4, <1>5, <1>6 DEF IInv

(* A DECLINE preserves IInv: it puts the slot of its sender in quarantine *)
LEMMA DeclineIInv ==
    ASSUME IInv, NEW m \in Message, Decline(m)
    PROVE  IInv'
  <1>1. /\ TableOK(leases) /\ clock \in Nat /\ m.mac \in Mac /\ m.mac # NoMac
        /\ DOMAIN leases = Addr
    BY MessageType, LeaseConfig DEF IInv, TypeOK, TableOK
  <1>2. dhcpd_findbymac(leases, m.mac) = {a \in Addr : leases[a].mac = m.mac}
    BY <1>1, FindByMac
  <1> DEFINE new == [mac |-> NoMac, allocated |-> TRUE,
                     expiry |-> clock + DeclineTime]
  <1>3. \A a \in Addr : leases[a].mac = m.mac => leases[a].allocated = TRUE
    BY <1>1, Zenon DEF TableOK, Lease
  <1>4. /\ leases' = [a \in Addr |->
                        IF a \in dhcpd_findbymac(leases, m.mac)
                        THEN [mac |-> NoMac, allocated |-> leases[a].allocated,
                              expiry |-> clock + DeclineTime]
                        ELSE leases[a]]
        /\ out' = {} /\ promise' = Forget(m.mac) /\ clock' = clock
    BY <1>1 DEF Decline, dhcpd_decline, Silent
  <1>5. new \in Lease /\ new.mac = NoMac /\ new.allocated
    BY <1>1, LeaseConfig DEF Lease
  <1>6. leases' = [a \in Addr |-> IF leases[a].mac = m.mac THEN new ELSE leases[a]]
    BY <1>2, <1>3, <1>4, Zenon
  <1> HIDE DEF new
  <1> QED BY <1>4, <1>5, <1>6, GiveUpIInv, Zenon

(* A RELEASE preserves IInv: it blanks the slot of its sender *)
LEMMA ReleaseIInv ==
    ASSUME IInv, NEW m \in Message, Release(m)
    PROVE  IInv'
  <1>1. TableOK(leases) /\ m.mac \in Mac /\ DOMAIN leases = Addr
    BY MessageType DEF IInv, TableOK
  <1>2. dhcpd_findbymac(leases, m.mac) = {a \in Addr : leases[a].mac = m.mac}
    BY <1>1, FindByMac
  <1>3. /\ leases' = [a \in Addr |-> IF leases[a].mac = m.mac
                                    THEN FreeLease ELSE leases[a]]
        /\ out' = {} /\ promise' = Forget(m.mac) /\ clock' = clock
    BY <1>1, <1>2 DEF Release, dhcpd_release, Silent
  <1>4. FreeLease \in Lease /\ FreeLease.mac = NoMac
    BY DEF FreeLease, Lease
  <1> QED BY <1>3, <1>4, GiveUpIInv

(* Steps that no message causes *)
LEMMA OtherIInv ==
    ASSUME IInv,
           \/ Restart \/ Tick \/ UNCHANGED vars
           \/ \E m \in Message : Unsupported(m)
    PROVE  IInv'
  <1>1. CASE Restart
    <2>1. TypeOK' /\ RepliesBacked'
      BY <1>1, Zenon DEF Restart, IInv, TypeOK, RepliesBacked, Lease, FreeLease,
                  Promise, NoPromise
    <2>2. TableOK(leases')
      BY <1>1 DEF Restart, TableOK, Lease, FreeLease
    <2>3. LeaseHonoured'
      BY <1>1 DEF Restart, LeaseHonoured, NoPromise
    <2> QED BY <2>1, <2>2, <2>3, Zenon DEF IInv
  <1>2. CASE Tick
    <2>1. clock \in Nat /\ clock' = clock + 1 /\ clock' \in 0 .. MaxClock
          /\ leases' = leases /\ promise' = promise /\ out' = {}
      BY <1>2, ServerConfig DEF Tick, IInv, TypeOK
    <2>2. TypeOK' /\ RepliesBacked' /\ TableOK(leases')
      BY <2>1 DEF IInv, TypeOK, RepliesBacked
    <2>3. \A a \in Addr : promise[a].until \in Nat
      BY DEF IInv, TypeOK, Promise
    <2>4. LeaseHonoured'
      BY <2>1, <2>3 DEF IInv, LeaseHonoured
    <2> QED BY <2>2, <2>4 DEF IInv
  <1>3. CASE UNCHANGED vars
    <2>1. TypeOK' /\ RepliesBacked' /\ TableOK(leases') /\ LeaseHonoured'
      BY <1>3 DEF vars, IInv, TypeOK, RepliesBacked, LeaseHonoured
    <2> QED BY <2>1, Zenon DEF IInv
  <1>4. CASE \E m \in Message : Unsupported(m)
    <2>1. TypeOK' /\ RepliesBacked' /\ TableOK(leases') /\ LeaseHonoured'
      BY <1>4 DEF Unsupported, IInv, TypeOK, RepliesBacked, LeaseHonoured
    <2> QED BY <2>1, Zenon DEF IInv
  <1> QED BY <1>1, <1>2, <1>3, <1>4

(* Every step of the server preserves IInv *)
LEMMA NextIInv == IInv /\ [Next]_vars => IInv'
  <1> SUFFICES ASSUME IInv, [Next]_vars PROVE IInv'
    OBVIOUS
  <1>1. ASSUME NEW m \in Message, Discover(m) PROVE IInv'
    BY <1>1, DiscoverIInv
  <1>2. ASSUME NEW m \in Message, Request(m) PROVE IInv'
    BY <1>2, RequestIInv
  <1>3. ASSUME NEW m \in Message, Decline(m) PROVE IInv'
    BY <1>3, DeclineIInv
  <1>4. ASSUME NEW m \in Message, Release(m) PROVE IInv'
    BY <1>4, ReleaseIInv
  <1>5. CASE \/ Restart \/ Tick \/ UNCHANGED vars
             \/ \E m \in Message : Unsupported(m)
    BY <1>5, OtherIInv
  <1> QED BY <1>1, <1>2, <1>3, <1>4, <1>5 DEF Next

(* IInv holds throughout: it adds to the properties below only that an     *)
(* unallocated slot is blank, which dhcpd_request relies on when it grants *)
(* an address it finds no lease on                                         *)
THEOREM IInvAlways == Spec => []IInv
  BY InitIInv, NextIInv, PTL DEF Spec

(* The state of the server keeps its shape under every message *)
THEOREM TypeCorrect == Spec => []TypeOK
  <1>1. IInv => TypeOK
    BY DEF IInv
  <1> QED BY <1>1, IInvAlways, PTL

(* No client ever has two addresses of the pool, and a slot naming a client *)
(* is marked allocated, for any number of clients and addresses             *)
THEOREM OneLease == Spec => []OneLeasePerMac
  <1>1. IInv => OneLeasePerMac
    BY DEF IInv, TableOK, OneLeasePerMac
  <1> QED BY <1>1, IInvAlways, PTL

(* A lease that was ACKed stays its client's until the time the ACK named   *)
THEOREM Honoured == Spec => []LeaseHonoured
  <1>1. IInv => LeaseHonoured
    BY DEF IInv
  <1> QED BY <1>1, IInvAlways, PTL

(* Every OFFER and ACK sent is backed by the table at the time it is sent   *)
THEOREM Backed == Spec => []RepliesBacked
  <1>1. IInv => RepliesBacked
    BY DEF IInv
  <1> QED BY <1>1, IInvAlways, PTL

-----------------------------------------------------------------------------
(* What one step may do to the table: nothing, a grant, clearing an        *)
(* expired slot, or giving up the sender's slot.  "tab2" is the table and  *)
(* "sent" the messages after the step.                                     *)
Granting(tab, now, mac, ip, time, tab2, sent) ==
    /\ MayGrant(tab, now, mac, ip)
    /\ tab2 = [tab EXCEPT ![ip] = [mac |-> mac, allocated |-> TRUE,
                                   expiry |-> now + time]]
    /\ \A r \in sent : r.mac = mac /\ r.yiaddr = ip

Quiet(tab, tab2, sent) ==
    tab2 = tab /\ \A r \in sent : r.type = "NAK" /\ r.yiaddr = 0

Clearing(tab, now, ip, tab2, sent) ==
    /\ ip \in Addr /\ tab[ip].expiry <= now
    /\ tab2 = [tab EXCEPT ![ip] = FreeLease]
    /\ sent = {}

GivingUp(tab, mac, new, tab2, sent) ==
    /\ tab2 = [a \in Addr |-> IF tab[a].mac = mac THEN new ELSE tab[a]]
    /\ sent = {}

(* A slot as dhcpd_decline leaves it *)
Quarantined(now) ==
    [mac |-> NoMac, allocated |-> TRUE, expiry |-> now + DeclineTime]

StepKind(tab, now, tab2, sent) ==
    \/ Quiet(tab, tab2, sent)
    \/ \E mac \in Mac, ip \in Addr, time \in Nat \ {0} :
         Granting(tab, now, mac, ip, time, tab2, sent)
    \/ \E ip \in Addr : Clearing(tab, now, ip, tab2, sent)
    \/ \E mac \in Mac : \/ GivingUp(tab, mac, FreeLease, tab2, sent)
                        \/ GivingUp(tab, mac, Quarantined(now), tab2, sent)

(* A message causes one of these kinds of step and takes no time *)
LEMMA StepKinds ==
    ASSUME IInv, Next
    PROVE  Restart \/ Tick \/ (StepKind(leases, clock, leases', out') /\ clock' = clock)
  <1>1. TableOK(leases) /\ clock \in Nat /\ DOMAIN leases = Addr
    BY DEF IInv, TypeOK, TableOK
  <1>2. ASSUME NEW m \in Message, Discover(m)
        PROVE  StepKind(leases, clock, leases', out') /\ clock' = clock
    <2>1. PICK o \in dhcpd_discover(leases, clock, m, ServerIP) :
            leases' = o.leases /\ out' = o.reply
      BY <1>2 DEF Discover
    <2>2. clock' = clock /\ OfferTime \in Nat \ {0} /\ m.mac \in Mac
      BY <1>2, MessageType, PositiveTime, Zenon DEF Discover
    <2>3. CASE o.leases = leases /\ o.reply = {}
      BY <2>1, <2>2, <2>3 DEF StepKind, Quiet
    <2>4. ASSUME NEW ip, MayGrant(leases, clock, m.mac, ip),
                 o.leases = dhcpd_setlease(leases, clock, m.mac, ip, OfferTime),
                 \A r \in o.reply : r.type = "OFFER" /\ r.mac = m.mac /\ r.yiaddr = ip
          PROVE  StepKind(leases, clock, leases', out')
      <3>1. ip \in Addr
        BY <2>4 DEF MayGrant
      <3>2. Granting(leases, clock, m.mac, ip, OfferTime, leases', out')
        BY <1>1, <2>1, <2>4, <3>1, Zenon DEF Granting, dhcpd_setlease
      <3> QED BY <2>2, <3>1, <3>2, Zenon DEF StepKind
    <2> QED BY <1>1, <2>1, <2>2, <2>3, <2>4, DiscoverEffect
  <1>3. ASSUME NEW m \in Message, Request(m)
        PROVE  StepKind(leases, clock, leases', out') /\ clock' = clock
    <2> DEFINE time == dhcpd_verifyreqleasetime(m, LeaseTime)
    <2>1. PICK o \in dhcpd_request(leases, clock, m, ServerIP) :
            leases' = o.leases /\ out' = o.reply
      BY <1>3, Zenon DEF Request
    <2>2. clock' = clock /\ time \in Nat \ {0} /\ m.mac \in Mac
      BY <1>3, MessageType, PositiveTime DEF Request
    <2>3. CASE /\ o.leases = leases
               /\ \A r \in o.reply :
                     r.type = "NAK" /\ r.mac = m.mac /\ r.yiaddr = 0
      BY <2>1, <2>2, <2>3, Zenon DEF StepKind, Quiet
    <2>4. ASSUME NEW ip, MayGrant(leases, clock, m.mac, ip),
                 o.leases = dhcpd_setlease(leases, clock, m.mac, ip, time),
                 o.reply = {Reply("ACK", m, ip, time, ServerIP)}
          PROVE  StepKind(leases, clock, leases', out')
      <3>1. ip \in Addr /\ \A r \in o.reply : r.mac = m.mac /\ r.yiaddr = ip
        BY <2>4 DEF Reply, MayGrant
      <3>2. leases' = [leases EXCEPT ![ip] = [mac |-> m.mac, allocated |-> TRUE,
                                              expiry |-> clock + time]]
        BY <1>1, <2>1, <2>4, <3>1 DEF dhcpd_setlease
      <3> HIDE DEF time
      <3>3. Granting(leases, clock, m.mac, ip, time, leases', out')
        BY <2>1, <2>4, <3>1, <3>2, Zenon DEF Granting
      <3> QED BY <2>2, <3>1, <3>3, Zenon DEF StepKind
    <2>5. CASE /\ m.reqip \in Addr /\ leases[m.reqip].expiry <= clock
               /\ o.leases = [leases EXCEPT ![m.reqip] = FreeLease]
               /\ o.reply = {}
      <3>1. Clearing(leases, clock, m.reqip, leases', out')
        BY <2>1, <2>5 DEF Clearing
      <3> QED BY <2>2, <2>5, <3>1, Zenon DEF StepKind
    <2>6. \/ /\ o.leases = leases
             /\ \A r \in o.reply :
                   r.type = "NAK" /\ r.mac = m.mac /\ r.yiaddr = 0
          \/ \E ip : /\ MayGrant(leases, clock, m.mac, ip)
                     /\ o.leases = dhcpd_setlease(leases, clock, m.mac, ip, time)
                     /\ o.reply = {Reply("ACK", m, ip, time, ServerIP)}
          \/ /\ m.reqip \in Addr /\ leases[m.reqip].expiry <= clock
             /\ o.leases = [leases EXCEPT ![m.reqip] = FreeLease]
             /\ o.reply = {}
      BY <1>1, <2>1, RequestEffect, Zenon
    <2> HIDE DEF time
    <2> QED BY <2>2, <2>3, <2>4, <2>5, <2>6, Zenon
  <1>4. ASSUME NEW m \in Message, Decline(m)
        PROVE  StepKind(leases, clock, leases', out') /\ clock' = clock
    <2>1. dhcpd_findbymac(leases, m.mac) = {a \in Addr : leases[a].mac = m.mac}
      BY <1>1, FindByMac, MessageType
    <2>2. \A a \in Addr : leases[a].mac = m.mac => leases[a].allocated = TRUE
      BY <1>1, MessageType, LeaseConfig, Zenon DEF TableOK, Lease
    <2>3. /\ leases' = [a \in Addr |->
                          IF a \in dhcpd_findbymac(leases, m.mac)
                          THEN [mac |-> NoMac, allocated |-> leases[a].allocated,
                                expiry |-> clock + DeclineTime]
                          ELSE leases[a]]
          /\ out' = {} /\ clock' = clock
      BY <1>1, <1>4 DEF Decline, dhcpd_decline, Silent
    <2>4. GivingUp(leases, m.mac, Quarantined(clock), leases', out')
      BY <2>1, <2>2, <2>3, Zenon DEF GivingUp, Quarantined
    <2> QED BY <2>3, <2>4, MessageType, Zenon DEF StepKind
  <1>5. ASSUME NEW m \in Message, Release(m)
        PROVE  StepKind(leases, clock, leases', out') /\ clock' = clock
    <2>1. dhcpd_findbymac(leases, m.mac) = {a \in Addr : leases[a].mac = m.mac}
      BY <1>1, FindByMac, MessageType
    <2>2. /\ leases' = [a \in Addr |-> IF a \in dhcpd_findbymac(leases, m.mac)
                                       THEN FreeLease ELSE leases[a]]
          /\ out' = {} /\ clock' = clock
      BY <1>1, <1>5 DEF Release, dhcpd_release, Silent
    <2>3. GivingUp(leases, m.mac, FreeLease, leases', out')
      BY <2>1, <2>2 DEF GivingUp
    <2> QED BY <2>2, <2>3, MessageType, Zenon DEF StepKind
  <1>6. ASSUME NEW m \in Message, Unsupported(m)
        PROVE  StepKind(leases, clock, leases', out') /\ clock' = clock
    BY <1>6 DEF Unsupported, StepKind, Quiet
  <1> QED BY <1>2, <1>3, <1>4, <1>5, <1>6 DEF Next

-----------------------------------------------------------------------------
(* No OFFER or ACK names an address promised to another client: whoever is *)
(* answered may be granted the address, and such a grant breaks no promise *)
THEOREM GrantedOnce == Spec => NoDoubleGrant
  <1> DEFINE Step == \A r \in out' :
               r.type # "NAK" =>
                 ~ \E a \in Addr : /\ a = r.yiaddr
                                   /\ promise[a].mac \notin {NoMac, r.mac}
                                   /\ promise[a].until > clock
  <1>1. ASSUME IInv, Next PROVE Step
    <2>1. CASE Restart \/ Tick
      BY <2>1 DEF Restart, Tick
    <2>2. CASE Quiet(leases, leases', out')
      BY <2>2, Zenon DEF Quiet
    <2>3. ASSUME NEW mac \in Mac, NEW ip \in Addr, NEW time,
                 Granting(leases, clock, mac, ip, time, leases', out')
          PROVE  Step
      <3>1. \/ promise[ip].mac \in {NoMac, mac}
            \/ ~(promise[ip].until > clock)
        BY <1>1, <2>3, GrantBreaksNoPromise DEF Granting
      <3> QED BY <2>3, <3>1, Zenon DEF Granting
    <2>4. CASE out' = {}
      BY <2>4
    <2>5. \/ Restart \/ Tick \/ Quiet(leases, leases', out') \/ out' = {}
          \/ \E mac \in Mac, ip \in Addr, time \in Nat \ {0} :
               Granting(leases, clock, mac, ip, time, leases', out')
      BY <1>1, StepKinds DEF StepKind, Clearing, GivingUp
    <2> QED BY <2>1, <2>2, <2>3, <2>4, <2>5
  <1>2. IInv /\ [Next]_vars => [Step]_vars
    BY <1>1
  <1> QED BY <1>2, IInvAlways, PTL DEF Spec, NoDoubleGrant

(* While its quarantine lasts a declined address is neither handed out nor *)
(* touched by any message: every step either leaves the slot alone or      *)
(* needs it to be expired or to name the sender                            *)
THEOREM QuarantineLasts == Spec => QuarantineKept
  <1> DEFINE Step == \A a \in Addr :
               Declined(a) /\ ~Restart =>
                 /\ leases'[a] = leases[a]
                 /\ \A r \in out' : r.yiaddr # a
  <1>1. ASSUME IInv, Next PROVE Step
    <2> SUFFICES ASSUME NEW a \in Addr, Declined(a), ~Restart
                 PROVE  leases'[a] = leases[a] /\ \A r \in out' : r.yiaddr # a
      OBVIOUS
    <2>1. /\ leases[a].mac = NoMac /\ ~(leases[a].expiry <= clock)
          /\ a # 0 /\ leases \in [Addr -> Lease] /\ NoMac \notin Mac
      <3>1. leases \in [Addr -> Lease] /\ clock \in Nat
        BY <1>1 DEF IInv, TypeOK
      <3>2. leases[a].expiry \in Nat
        BY <3>1 DEF Lease
      <3>3. leases[a].mac = NoMac /\ leases[a].expiry > clock
        BY DEF Declined
      <3>4. a # 0 /\ NoMac \notin Mac
        BY ServerConfig, LeaseConfig DEF Addr
      <3> QED BY <3>1, <3>2, <3>3, <3>4
    <2>2. CASE Tick
      BY <2>2 DEF Tick
    <2>3. CASE Quiet(leases, leases', out')
      BY <2>1, <2>3 DEF Quiet
    <2>4. ASSUME NEW mac \in Mac, NEW ip \in Addr, NEW time,
                 Granting(leases, clock, mac, ip, time, leases', out')
          PROVE  leases'[a] = leases[a] /\ \A r \in out' : r.yiaddr # a
      <3>1. ip # a
        BY <2>1, <2>4 DEF Granting, MayGrant
      <3> QED BY <2>1, <2>4, <3>1 DEF Granting
    <2>5. ASSUME NEW ip \in Addr, Clearing(leases, clock, ip, leases', out')
          PROVE  leases'[a] = leases[a] /\ \A r \in out' : r.yiaddr # a
      BY <2>1, <2>5 DEF Clearing
    <2>6. ASSUME NEW mac \in Mac, NEW new, GivingUp(leases, mac, new, leases', out')
          PROVE  leases'[a] = leases[a] /\ \A r \in out' : r.yiaddr # a
      BY <2>1, <2>6 DEF GivingUp
    <2>7. Tick \/ StepKind(leases, clock, leases', out')
      BY <1>1, StepKinds
    <2> QED BY <2>2, <2>3, <2>4, <2>5, <2>6, <2>7, Zenon DEF StepKind
  <1>2. IInv /\ [Next]_vars => [Step]_vars
    BY <1>1
  <1> QED BY <1>2, IInvAlways, PTL DEF Spec, QuarantineKept

-----------------------------------------------------------------------------
(* A grant is a reservation of a free address, or renews one: then the     *)
(* reservations in force do not change                                     *)
LEMMA GrantInPool ==
    ASSUME IInv, NEW mac \in Mac, NEW ip \in Addr, NEW time \in Nat \ {0},
           Granting(leases, clock, mac, ip, time, leases', out'), clock' = clock
    PROVE  Pool!Reserve(mac, ip) \/ Held' = Held
  <1>1. /\ leases \in [Addr -> Lease] /\ clock \in Nat /\ mac # NoMac
        /\ \A a \in Addr : leases[a].expiry \in Nat
    BY LeaseConfig DEF IInv, TypeOK, Lease
  <1>2. /\ leases'[ip].mac = mac /\ leases'[ip].expiry > clock
        /\ \A a \in Addr : a # ip => leases'[a] = leases[a]
    BY <1>1 DEF Granting
  <1>3. \A a \in Addr : a # ip => leases[a].mac # mac
    BY <1>1, Zenon DEF IInv, TableOK, Granting, MayGrant
  <1>4. CASE leases[ip].expiry > clock
    <2>1. leases[ip].mac = mac
      BY <1>1, <1>4 DEF Granting, MayGrant
    <2>2. \A a \in Addr : /\ leases'[a].mac = leases[a].mac
                          /\ leases'[a].expiry > clock' <=> leases[a].expiry > clock
      BY <1>2, <1>4, <2>1
    <2> QED BY <2>2 DEF Held
  <1>5. CASE ~(leases[ip].expiry > clock)
    <2>1. Pool!FreeAddress(ip)
      BY <1>5 DEF Pool!FreeAddress, Held
    <2>2. Pool!Unserved(mac)
      BY <1>3, <1>5 DEF Pool!Unserved, Held
    <2>3. Held' = Held \cup {<<ip, mac>>}
      BY <1>2, <1>5 DEF Held
    <2> QED BY <2>1, <2>2, <2>3 DEF Pool!Reserve
  <1> QED BY <1>4, <1>5, Zenon

(* Giving up a slot vacates or withholds the sender's address *)
LEMMA GiveUpInPool ==
    ASSUME IInv, NEW mac \in Mac, NEW new, clock' = clock,
           GivingUp(leases, mac, new, leases', out'),
           new = FreeLease \/ new = Quarantined(clock)
    PROVE  Held' = Held \/ Pool!Next
  <1>1. /\ leases \in [Addr -> Lease] /\ clock \in Nat /\ mac # NoMac
        /\ \A a \in Addr : leases[a].expiry \in Nat
        /\ \A a, b \in Addr : leases[a].mac = mac /\ leases[b].mac = mac => a = b
    BY LeaseConfig DEF IInv, TypeOK, TableOK, Lease
  <1>2. \A a \in Addr : leases'[a] = IF leases[a].mac = mac THEN new ELSE leases[a]
    BY Zenon DEF GivingUp
  <1>3. CASE \A a \in Addr : leases[a].mac # mac
    BY <1>2, <1>3 DEF Held
  <1>4. ASSUME NEW ip \in Addr, leases[ip].mac = mac
        PROVE  Held' = Held \/ Pool!Next
    <2>1. /\ leases'[ip] = new
          /\ \A a \in Addr : a # ip => leases'[a] = leases[a]
      BY <1>1, <1>2, <1>4
    <2>2. CASE new = FreeLease
      <3>1. ~(new.expiry > clock)
        BY <1>1, <2>2 DEF FreeLease
      <3>2. Held' = Held \ {<<ip, mac>>}
        BY <1>4, <2>1, <3>1 DEF Held
      <3>3. Held' = Held \ (Held \cap {<<ip, mac>>})
        BY <3>2
      <3>4. \E S \in SUBSET Held : Held' = Held \ S
        BY <3>3, Zenon
      <3> QED BY <3>4 DEF Pool!Next, Pool!Vacate
    <2>3. CASE new = Quarantined(clock)
      <3>1. new.mac = NoMac /\ new.expiry > clock
        BY <1>1, <2>3, LeaseConfig DEF Quarantined
      <3>2. \A h \in Held : h[1] = ip => h[2] = mac
        BY <1>4 DEF Held
      <3>3. Held' = (Held \ {<<ip, mac>>}) \cup {<<ip, NoMac>>}
        BY <1>1, <1>4, <2>1, <3>1 DEF Held
      <3> QED BY <3>2, <3>3, Zenon DEF Pool!Next, Pool!Withhold
    <2> QED BY <2>2, <2>3, Zenon
  <1> QED BY <1>3, <1>4, Zenon

(* Every step of the server is a step of the pool or leaves it unchanged *)
LEMMA StepInPool ==
    ASSUME IInv, [Next]_vars
    PROVE  [Pool!Next]_Held
  <1>1. /\ leases \in [Addr -> Lease] /\ clock \in Nat
        /\ \A a \in Addr : leases[a].expiry \in Nat
    BY DEF IInv, TypeOK, Lease
  <1>2. CASE UNCHANGED vars
    BY <1>2 DEF vars, Held
  <1>3. ASSUME Held' \subseteq Held
        PROVE  Pool!Next
    <2>1. Held' = Held \ (Held \ Held')
      BY <1>3
    <2>2. \E S \in SUBSET Held : Held' = Held \ S
      BY <2>1, Zenon
    <2> QED BY <2>2 DEF Pool!Next, Pool!Vacate
  <1>4. CASE Tick
    <2>1. clock' = clock + 1 /\ leases' = leases
      BY <1>4 DEF Tick
    <2>2. Held' \subseteq Held
      BY <1>1, <2>1 DEF Held
    <2> QED BY <1>3, <2>2
  <1>5. CASE Restart
    <2>1. \A a \in Addr : ~(leases'[a].expiry > clock')
      BY <1>1, <1>5 DEF Restart, FreeLease
    <2>2. Held' \subseteq Held
      BY <2>1 DEF Held
    <2> QED BY <1>3, <2>2
  <1>6. CASE Next /\ StepKind(leases, clock, leases', out') /\ clock' = clock
    <2>1. CASE Quiet(leases, leases', out')
      BY <1>6, <2>1 DEF Quiet, Held
    <2>2. ASSUME NEW mac \in Mac, NEW ip \in Addr, NEW time \in Nat \ {0},
                 Granting(leases, clock, mac, ip, time, leases', out')
          PROVE  [Pool!Next]_Held
      BY <1>6, <2>2, GrantInPool DEF Pool!Next
    <2>3. ASSUME NEW ip \in Addr, Clearing(leases, clock, ip, leases', out')
          PROVE  [Pool!Next]_Held
      <3>1. /\ ~(leases[ip].expiry > clock)
            /\ ~(leases'[ip].expiry > clock')
            /\ \A a \in Addr : a # ip => leases'[a] = leases[a]
        BY <1>1, <1>6, <2>3 DEF Clearing, FreeLease
      <3>2. Held' = Held
        BY <1>6, <3>1 DEF Held
      <3> QED BY <3>2
    <2>4. ASSUME NEW mac \in Mac,
                 \/ GivingUp(leases, mac, FreeLease, leases', out')
                 \/ GivingUp(leases, mac, Quarantined(clock), leases', out')
          PROVE  [Pool!Next]_Held
      BY <1>6, <2>4, GiveUpInPool
    <2> QED BY <1>6, <2>1, <2>2, <2>3, <2>4 DEF StepKind
  <1> QED BY <1>2, <1>4, <1>5, <1>6, StepKinds

(* The server implements the address pool: the reservations in force form  *)
(* a pool in which no address changes hands without becoming free first    *)
THEOREM PoolImplemented == Spec => ImplementsPool
  <1>1. Init => Pool!Init
    BY DEF Init, Pool!Init, Held, FreeLease
  <1>2. IInv /\ [Next]_vars => [Pool!Next]_Held
    BY StepInPool
  <1> QED BY <1>1, <1>2, IInvAlways, PTL DEF Spec, ImplementsPool, Pool!Spec

-----------------------------------------------------------------------------
(***************************************************************************)
(* The daemon.  What the callers do among themselves is right until one    *)
(* goes on without the lock (Calls), and so is what they know of the tasks *)
(* (Tasks), until dhcpd_run is called directly.  What is left of the lock  *)
(* afterwards is proved at the end of the module.                          *)
(***************************************************************************)

(* A task that has been created and not yet served, one that serves, and   *)
(* one that is anywhere between its creation and its last assignment       *)
Early(t)  == place[t] \in {"entry", "pid", "running"}
Serves(t) == place[t] \in {"post", "loop", "open", "ready", "recv"}
Active(t) == place[t] \notin {"none", "lastpost"}

Starting(c) == op[c] = "start" /\ at[c] \in {"wait", "again"}
Stopping(c) == op[c] = "stop" /\ at[c] \in {"kill", "wait", "again"}

(* Who is not idle has an operation and, if it signals, that is dhcpd_stop *)
CallShape ==
    \A c \in Caller : /\ at[c] # "idle" => op[c] \in {"start", "stop"}
                      /\ at[c] = "kill" => op[c] = "stop"

(* The lock is free and nobody is inside, or one caller is *)
LockInv ==
    /\ \A c, d \in Inside : c = d
    /\ ds_lock \in {0, 1}
    /\ ds_lock = 1 => Inside = {}

(* STARTED is watched over by the caller that wrote it *)
StartInv == ds_state = "STARTED" => \E c \in Caller : Starting(c)

(* At rest, and when dhcpd_start creates a task, there is no task yet; an   *)
(* active one is always alone                                               *)
TaskInv ==
    /\ \A t, u \in Task : Active(t) /\ Active(u) => t = u
    /\ \A t \in Task : Active(t) =>
         /\ ds_state \notin {"NOT_RUNNING", "STOPPED"}
         /\ \A c \in Caller : ~At(c, "start", "act")

(* What the place of a task says of the shared state *)
PlaceInv ==
    \A t \in Task :
      /\ Early(t) => ds_state = "STARTED"
      /\ place[t] = "running" => ds_pid = t
      /\ Serves(t) => ds_pid = t /\ ds_state \in {"RUNNING", "STOP_REQUESTED"}

(* What the state says of the callers: STOP_REQUESTED is watched over by    *)
(* the caller that wrote it while a task serves                             *)
CallInv ==
    /\ ds_state = "STOP_REQUESTED" /\ (\E t \in Task : Serves(t))
         => \E c \in Caller : Stopping(c)
    /\ \A c \in Caller : Stopping(c) => ds_state \in {"STOP_REQUESTED", "STOPPED"}
    /\ \A c \in Caller : At(c, "stop", "unlock") =>
         \A t \in Task : ~Early(t) /\ ~Serves(t)

Calls == LockInv /\ StartInv
Tasks == TaskInv /\ PlaceInv /\ CallInv

DaemonInv ==
    /\ DaemonTypeOK
    /\ CallShape
    /\ Barged \/ Calls
    /\ Barged \/ Direct \/ Tasks

(* The initial state: nobody calls and no task runs *)
LEMMA InitDaemonInv == DaemonInit => DaemonInv
<1> SUFFICES ASSUME DaemonInit PROVE DaemonInv
  OBVIOUS
<1>1. DaemonTypeOK BY DaemonConfig DEF DaemonInit, DaemonTypeOK, State, Place
<1>2. CallShape BY DEF DaemonInit, CallShape
<1>3. Calls BY DEF DaemonInit, Calls, LockInv, Inside, StartInv
<1>4. Tasks
  BY DEF DaemonInit, Tasks, TaskInv, PlaceInv, CallInv, Early, Serves, Active,
         Stopping, At
<1> QED BY <1>1, <1>2, <1>3, <1>4 DEF DaemonInv

(* Every step of a caller or a task keeps the shape of the state *)
LEMMA NextType == DaemonTypeOK /\ [DaemonNext]_daemon => DaemonTypeOK'
<1> SUFFICES ASSUME DaemonTypeOK, [DaemonNext]_daemon PROVE DaemonTypeOK'
  OBVIOUS
<1> USE DaemonConfig DEF DaemonTypeOK, State, Place, history
<1>1. ASSUME NEW c \in Caller, NEW o \in {"start", "stop"}, Call(c, o)
      PROVE  DaemonTypeOK'
  BY <1>1, Zenon DEF Call
<1>2. ASSUME NEW c \in Caller, CallerStep(c) PROVE DaemonTypeOK'
  <2>1. CASE Lock(c)
    <3>1. ds_lock' \in 0 .. MaxSem BY <2>1 DEF Lock
    <3> QED BY <2>1, <3>1 DEF Lock, Go
  <2>2. CASE Look(c)        BY <2>2 DEF Look, Go
  <2>3. CASE StartTask(c)   BY <2>3 DEF StartTask, Go, Move
  <2>4. CASE StartFails(c)  BY <2>4 DEF StartFails, Go
  <2>5. CASE RequestStop(c) BY <2>5 DEF RequestStop, Go
  <2>6. CASE Kill(c)        BY <2>6 DEF Kill, Go
  <2>7. CASE Wait(c)
    <3>1. ds_sync' \in 0 .. MaxSem BY <2>7 DEF Wait
    <3> QED BY <2>7, <3>1 DEF Wait, Go
  <2>8. CASE Again(c)       BY <2>8 DEF Again, Go
  <2>9. CASE Unlock(c)
    <3>1. ds_lock' \in 0 .. MaxSem BY <2>9 DEF Unlock, Post
    <3> QED BY <2>9, <3>1 DEF Unlock
  <2> QED BY <1>2, <2>1, <2>2, <2>3, <2>4, <2>5, <2>6, <2>7, <2>8, <2>9
          DEF CallerStep
<1>3. ASSUME NEW c \in Caller, Interrupted(c) PROVE DaemonTypeOK'
  <2>1. barged' \in 0 .. MaxBarged BY <1>3 DEF Interrupted
  <2> QED BY <1>3, <2>1, Zenon DEF Interrupted, Go
<1>4. ASSUME NEW t \in Task, RunDirectly(t) PROVE DaemonTypeOK'
  BY <1>4, Zenon DEF RunDirectly, Move
<1>5. ASSUME NEW t \in Task, TaskStep(t) PROVE DaemonTypeOK'
  <2>1. CASE Enter(t)    BY <2>1 DEF Enter, Move
  <2>2. CASE SetPid(t)   BY <2>2 DEF SetPid, Move
  <2>3. CASE SetState(t) BY <2>3 DEF SetState, Move
  <2>4. CASE PostSync(t)
    <3>1. ds_sync' \in 0 .. MaxSem BY <2>4 DEF PostSync, Post
    <3> QED BY <2>4, <3>1, Zenon DEF PostSync, Move
  <2>5. CASE Loop(t)     BY <2>5 DEF Loop, Move
  <2>6. CASE dhcpd_openlistener(t) BY <2>6 DEF dhcpd_openlistener, Move
  <2>7. CASE CallRecv(t) BY <2>7 DEF CallRecv, Move
  <2> QED BY <1>5, <2>1, <2>2, <2>3, <2>4, <2>5, <2>6, <2>7 DEF TaskStep
<1>6. ASSUME NEW t \in Task, OpenFails(t) \/ Receive(t) \/ RecvFails(t)
      PROVE  DaemonTypeOK'
  <2>1. CASE OpenFails(t) BY <2>1 DEF OpenFails, Move
  <2>2. CASE Receive(t)   BY <2>2 DEF Receive, Move
  <2>3. CASE RecvFails(t) BY <2>3 DEF RecvFails, Move
  <2> QED BY <1>6, <2>1, <2>2, <2>3
<1>7. CASE UNCHANGED daemon BY <1>7, Zenon DEF daemon
<1> QED BY <1>1, <1>2, <1>3, <1>4, <1>5, <1>6, <1>7 DEF DaemonNext

(* Every step keeps the operation of a caller fitting its place *)
LEMMA NextShape == DaemonTypeOK /\ CallShape /\ [DaemonNext]_daemon => CallShape'
<1> SUFFICES ASSUME DaemonTypeOK, CallShape, [DaemonNext]_daemon PROVE CallShape'
  OBVIOUS
<1> DEFINE Ops == {"none", "start", "stop"}
           Places == {"idle", "lock", "look", "act", "kill", "wait", "again", "unlock"}
<1>0. op \in [Caller -> Ops] /\ at \in [Caller -> Places]
  BY DEF DaemonTypeOK
<1> HIDE DEF Ops, Places
<1> USE <1>0 DEF CallShape, At
<1>1. ASSUME NEW c \in Caller, NEW o \in {"start", "stop"}, Call(c, o)
      PROVE  CallShape' BY <1>1 DEF Call
<1>2. ASSUME NEW c \in Caller, CallerStep(c) PROVE CallShape'
  <2>1. CASE Lock(c) BY <2>1 DEF Lock, Go
  <2>2. CASE Look(c) BY <2>2 DEF Look, Go
  <2>3. CASE StartTask(c) BY <2>3 DEF StartTask, Go
  <2>4. CASE StartFails(c) BY <2>4 DEF StartFails, Go
  <2>5. CASE RequestStop(c) BY <2>5 DEF RequestStop, Go
  <2>6. CASE Kill(c) BY <2>6 DEF Kill, Go
  <2>7. CASE Wait(c) BY <2>7 DEF Wait, Go
  <2>8. CASE Again(c) BY <2>8 DEF Again, Go
  <2>9. CASE Unlock(c) BY <2>9 DEF Unlock
  <2> QED BY <1>2, <2>1, <2>2, <2>3, <2>4, <2>5, <2>6, <2>7, <2>8, <2>9, Zenon
          DEF CallerStep
<1>3. ASSUME NEW c \in Caller, Interrupted(c) PROVE CallShape'
  BY <1>3 DEF Interrupted, Go
<1>4. ASSUME UNCHANGED <<op, at>> PROVE CallShape'
  BY <1>4, Zenon
<1>5. CASE \E t \in Task : RunDirectly(t) \/ TaskStep(t) \/ OpenFails(t)
                              \/ Receive(t) \/ RecvFails(t)
  BY <1>4, <1>5, Zenon
  DEF RunDirectly, TaskStep, Enter, SetPid, SetState, PostSync, Loop,
      dhcpd_openlistener, CallRecv, OpenFails, Receive, RecvFails
<1>6. CASE UNCHANGED daemon BY <1>4, <1>6, Zenon DEF daemon
<1> QED BY <1>1, <1>2, <1>3, <1>5, <1>6, Zenon DEF DaemonNext

(* What a step does to the lock and to the callers inside: nothing, or a     *)
(* caller enters, with the lock or without it, or leaves                     *)
LEMMA LockEffect ==
    ASSUME DaemonTypeOK, [DaemonNext]_daemon
    PROVE  \/ UNCHANGED <<ds_lock, barged, Inside>>
           \/ \E c \in Caller \ Inside :
                /\ Inside' = Inside \cup {c}
                /\ \/ ds_lock > 0 /\ ds_lock' = ds_lock - 1 /\ barged' = barged
                   \/ /\ ds_lock' = ds_lock
                      /\ barged' = IF barged < MaxBarged THEN barged + 1 ELSE barged
           \/ \E c \in Inside : /\ Inside' = Inside \ {c}
                               /\ ds_lock' = Post(ds_lock) /\ barged' = barged
<1> DEFINE Places == {"idle", "lock", "look", "act", "kill", "wait", "again", "unlock"}
<1>0. at \in [Caller -> Places]
  BY DEF DaemonTypeOK
<1> HIDE DEF Places
<1>1. ASSUME NEW c \in Caller, at[c] \in {"idle", "lock"}, NEW p \in {"idle", "lock"},
             at' = [at EXCEPT ![c] = p]
      PROVE  Inside' = Inside
  BY <1>0, <1>1 DEF Inside
<1>2. ASSUME NEW c \in Inside, NEW p, p \notin {"idle", "lock"}, at' = [at EXCEPT ![c] = p]
      PROVE  Inside' = Inside
  BY <1>0, <1>2 DEF Inside
<1>3. ASSUME NEW c \in Caller, at[c] = "lock", at' = [at EXCEPT ![c] = "look"]
      PROVE  c \notin Inside /\ Inside' = Inside \cup {c}
  BY <1>0, <1>3 DEF Inside
<1>4. ASSUME NEW c \in Caller, at[c] = "unlock", at' = [at EXCEPT ![c] = "idle"]
      PROVE  c \in Inside /\ Inside' = Inside \ {c}
  BY <1>0, <1>4 DEF Inside
<1>5. ASSUME UNCHANGED at PROVE Inside' = Inside
  BY <1>5, Zenon DEF Inside
<1>6. ASSUME NEW c \in Caller, NEW o \in {"start", "stop"}, Call(c, o)
      PROVE  UNCHANGED <<ds_lock, barged, Inside>>
  <2>1. at[c] \in {"idle", "lock"} /\ at' = [at EXCEPT ![c] = "lock"]
    BY <1>6 DEF Call
  <2>2. Inside' = Inside BY <1>1, <2>1, Zenon
  <2> QED BY <1>6, <2>2 DEF Call, history
<1>7. ASSUME NEW c \in Caller,
             Look(c) \/ StartTask(c) \/ StartFails(c) \/ RequestStop(c) \/ Kill(c)
               \/ Wait(c) \/ Again(c)
      PROVE  UNCHANGED <<ds_lock, barged, Inside>>
  <2>1. PICK p \in {"act", "unlock", "wait", "kill", "again"} :
          at' = [at EXCEPT ![c] = p]
    BY <1>7 DEF Look, StartTask, StartFails, RequestStop, Kill, Wait, Again, Go
  <2>2. c \in Inside
    BY <1>7 DEF Look, StartTask, StartFails, RequestStop, Kill, Wait, Again, At, Inside
  <2>3. Inside' = Inside BY <1>2, <2>1, <2>2, Zenon
  <2>4. UNCHANGED <<ds_lock, barged>>
    BY <1>7, Zenon
    DEF Look, StartTask, StartFails, RequestStop, Kill, Wait, Again, history
  <2> QED BY <2>3, <2>4
<1>8. ASSUME NEW c \in Caller, Lock(c)
      PROVE  /\ c \notin Inside /\ Inside' = Inside \cup {c}
             /\ ds_lock > 0 /\ ds_lock' = ds_lock - 1 /\ barged' = barged
  BY <1>3, <1>8, Zenon DEF Lock, Go, history
<1>9. ASSUME NEW c \in Caller, Unlock(c)
      PROVE  /\ c \in Inside /\ Inside' = Inside \ {c}
             /\ ds_lock' = Post(ds_lock) /\ barged' = barged
  BY <1>4, <1>9, Zenon DEF Unlock
<1>10. ASSUME NEW c \in Caller, Interrupted(c)
       PROVE  \/ UNCHANGED <<ds_lock, barged, Inside>>
              \/ /\ c \notin Inside /\ Inside' = Inside \cup {c}
                 /\ ds_lock' = ds_lock
                 /\ barged' = IF barged < MaxBarged THEN barged + 1 ELSE barged
  <2>1. CASE at[c] = "lock"
    BY <1>3, <1>10, <2>1, Zenon DEF Interrupted, Go
  <2>2. CASE at[c] # "lock"
    <3>1. c \in Inside /\ at' = [at EXCEPT ![c] = "again"]
      BY <1>10, <2>2 DEF Interrupted, Go, Inside
    <3>2. Inside' = Inside BY <1>2, <3>1, Zenon
    <3> QED BY <1>10, <2>2, <3>2 DEF Interrupted
  <2> QED BY <2>1, <2>2
<1>11. CASE \E t \in Task : RunDirectly(t) \/ TaskStep(t) \/ OpenFails(t)
                               \/ Receive(t) \/ RecvFails(t)
  <2>1. UNCHANGED <<at, ds_lock, barged>>
    BY <1>11, Zenon
    DEF RunDirectly, TaskStep, Enter, SetPid, SetState, PostSync, Loop,
        dhcpd_openlistener, CallRecv, OpenFails, Receive, RecvFails, history
  <2> QED BY <1>5, <2>1
<1>12. CASE UNCHANGED daemon
  BY <1>5, <1>12, Zenon DEF daemon, history
<1>13. ASSUME NEW c \in Caller, CallerStep(c)
       PROVE  \/ Lock(c) \/ Unlock(c)
              \/ Look(c) \/ StartTask(c) \/ StartFails(c) \/ RequestStop(c) \/ Kill(c)
              \/ Wait(c) \/ Again(c)
  BY <1>13, Zenon DEF CallerStep
<1>14. CASE \E c \in Caller : CallerStep(c)
  BY <1>7, <1>8, <1>9, <1>13, <1>14, Zenon
<1> QED BY <1>6, <1>10, <1>11, <1>12, <1>14, Zenon DEF DaemonNext

(* Nothing takes back that dhcpd_run has been called directly *)
LEMMA NextDirect == [DaemonNext]_daemon /\ Direct => Direct'
  BY Zenon DEF DaemonNext, daemon, history, Direct, Call, CallerStep, Lock, Look, StartTask,
         StartFails, RequestStop, Kill, Wait, Again, Unlock, Interrupted, RunDirectly,
         TaskStep, Enter, SetPid, SetState, PostSync, Loop, dhcpd_openlistener, CallRecv,
         OpenFails, Receive, RecvFails

(* Nothing takes back that a caller has gone on without the lock, and in a   *)
(* step after which none has, an interrupted caller is one that waits for    *)
(* ds_sync                                                                   *)
LEMMA NextBarged ==
    ASSUME DaemonTypeOK, [DaemonNext]_daemon, ~Barged'
    PROVE  /\ ~Barged
           /\ \A c \in Caller : Interrupted(c) => at[c] = "wait"
<1>1. barged \in Nat /\ MaxBarged \in Nat \ {0}
  BY DaemonConfig DEF DaemonTypeOK
<1>2. barged' = barged \/ barged' = IF barged < MaxBarged THEN barged + 1 ELSE barged
  BY LockEffect, Zenon
<1>3. ~Barged
  BY <1>1, <1>2 DEF Barged
<1>4. ASSUME NEW c \in Caller, Interrupted(c), at[c] # "wait" PROVE FALSE
  <2>1. barged' = IF barged < MaxBarged THEN barged + 1 ELSE barged
    BY <1>4, Zenon DEF Interrupted
  <2> QED BY <1>1, <2>1 DEF Barged
<1> QED BY <1>3, <1>4

(* Every step keeps what the callers do among themselves: no task takes the *)
(* lock or writes STARTED                                                   *)
LEMMA NextCalls ==
    ASSUME DaemonTypeOK, CallShape, Calls, [DaemonNext]_daemon, ~Barged' PROVE Calls'
<1> DEFINE Places == {"idle", "lock", "look", "act", "kill", "wait", "again",
                     "unlock"}
<1>0. /\ op \in [Caller -> {"none", "start", "stop"}]
      /\ at \in [Caller -> Places]
      /\ MaxSem \in Nat \ {0}
  BY DaemonConfig DEF DaemonTypeOK
<1> HIDE DEF Places
<1> USE <1>0 DEF Calls, CallShape, LockInv, Inside, StartInv, Starting, At
<1>1. ASSUME NEW c \in Caller, NEW o \in {"start", "stop"}, Call(c, o)
      PROVE  Calls' BY <1>1 DEF Call
<1>2. ASSUME NEW c \in Caller, CallerStep(c) PROVE Calls'
  <2>1. CASE Lock(c) BY <2>1 DEF Lock, Go
  <2>2. CASE Look(c) BY <2>2 DEF Look, Go
  <2>3. CASE StartTask(c) BY <2>3 DEF StartTask, Go, Move
  <2>4. CASE StartFails(c) BY <2>4 DEF StartFails, Go
  <2>5. CASE RequestStop(c) BY <2>5 DEF RequestStop, Go
  <2>6. CASE Kill(c) BY <2>6 DEF Kill, Go
  <2>7. CASE Wait(c) BY <2>7 DEF Wait, Go
  <2>8. CASE Again(c) BY <2>8 DEF Again, Go
  <2>9. CASE Unlock(c)
    <3>1. ds_lock = 0 BY <2>9 DEF Unlock
    <3>2. ds_lock' = 1 BY <2>9, <3>1 DEF Unlock, Post
    <3> QED BY <2>9, <3>2 DEF Unlock
  <2> QED BY <1>2, <2>1, <2>2, <2>3, <2>4, <2>5, <2>6, <2>7, <2>8, <2>9, Zenon
          DEF CallerStep
<1>3. ASSUME NEW c \in Caller, Interrupted(c) PROVE Calls'
  <2>1. /\ at[c] = "wait" /\ at' = [at EXCEPT ![c] = "again"]
        /\ UNCHANGED <<op, ds_lock, ds_state>>
    BY <1>3, NextBarged DEF Interrupted, Go
  <2> QED BY <2>1
<1>4. ASSUME NEW t \in Task, RunDirectly(t) PROVE Calls'
  BY <1>4, Zenon DEF RunDirectly, Move
<1>5. ASSUME NEW t \in Task, TaskStep(t) PROVE Calls'
  <2>1. CASE Enter(t) BY <2>1, Zenon DEF Enter, Move
  <2>2. CASE SetPid(t) BY <2>2, Zenon DEF SetPid, Move
  <2>3. CASE SetState(t) BY <2>3 DEF SetState, Move
  <2>4. CASE PostSync(t) BY <2>4, Zenon DEF PostSync, Move
  <2>5. CASE Loop(t) BY <2>5, Zenon DEF Loop, Move
  <2>6. CASE dhcpd_openlistener(t) BY <2>6, Zenon DEF dhcpd_openlistener, Move
  <2>7. CASE CallRecv(t) BY <2>7, Zenon DEF CallRecv, Move
  <2> QED BY <1>5, <2>1, <2>2, <2>3, <2>4, <2>5, <2>6, <2>7, Zenon DEF TaskStep
<1>6. ASSUME NEW t \in Task, OpenFails(t) \/ Receive(t) \/ RecvFails(t)
      PROVE  Calls'
  BY <1>6, Zenon DEF OpenFails, Receive, RecvFails
<1>7. CASE UNCHANGED daemon BY <1>7, Zenon DEF daemon
<1> QED BY <1>1, <1>2, <1>3, <1>4, <1>5, <1>6, <1>7, Zenon DEF DaemonNext

(* Every step but a direct call of dhcpd_run keeps what is known of the tasks *)
LEMMA NextTasks ==
    ASSUME DaemonTypeOK, CallShape, Calls, Tasks, [DaemonNext]_daemon, ~Direct', ~Barged'
    PROVE  Tasks'
<1> DEFINE Places == {"idle", "lock", "look", "act", "kill", "wait", "again",
                     "unlock"}
<1>0. /\ op \in [Caller -> {"none", "start", "stop"}]
      /\ at \in [Caller -> Places]
      /\ place \in [Task -> Place]
      /\ ds_pid \in Task \cup {NoPid}
  BY Zenon DEF DaemonTypeOK
<1> HIDE DEF Places
<1> USE <1>0, DaemonConfig
    DEF Calls, CallShape, LockInv, Inside, StartInv, Tasks,
        TaskInv, PlaceInv, CallInv, Early, Serves, Active, Starting, Stopping, At
<1>1. ASSUME NEW c \in Caller, NEW o \in {"start", "stop"}, Call(c, o)
      PROVE  Tasks' BY <1>1, SMTT(30) DEF Call
<1>2. ASSUME NEW c \in Caller, CallerStep(c) PROVE Tasks'
  <2>1. CASE Lock(c) BY <2>1, SMTT(30) DEF Lock, Go
  <2>2. CASE Look(c) BY <2>2, SMTT(30) DEF Look, Go
  <2>3. CASE StartTask(c) BY <2>3, SMTT(30) DEF StartTask, Go, Move
  <2>4. CASE StartFails(c) BY <2>4, SMTT(30) DEF StartFails, Go
  <2>5. CASE RequestStop(c) BY <2>5, SMTT(30) DEF RequestStop, Go
  <2>6. CASE Kill(c) BY <2>6, SMTT(30) DEF Kill, Go
  <2>7. CASE Wait(c) BY <2>7, SMTT(30) DEF Wait, Go
  <2>8. CASE Again(c) BY <2>8, SMTT(30) DEF Again, Go
  <2>9. CASE Unlock(c) BY <2>9, SMTT(30) DEF Unlock
  <2> QED BY <1>2, <2>1, <2>2, <2>3, <2>4, <2>5, <2>6, <2>7, <2>8, <2>9, Zenon
          DEF CallerStep
<1>3. ASSUME NEW c \in Caller, Interrupted(c) PROVE Tasks'
  <2>1. /\ at[c] = "wait" /\ at' = [at EXCEPT ![c] = "again"]
        /\ UNCHANGED <<op, ds_pid, ds_state, place>>
    BY <1>3, NextBarged DEF Interrupted, Go
  <2> QED BY <2>1
<1>4. ASSUME NEW t \in Task PROVE ~RunDirectly(t)
  BY Zenon DEF RunDirectly, Direct
<1>5. ASSUME NEW t \in Task, TaskStep(t) PROVE Tasks'
  <2>1. CASE Enter(t) BY <2>1, SMTT(30) DEF Enter, Move
  <2>2. CASE SetPid(t) BY <2>2, SMTT(30) DEF SetPid, Move
  <2>3. CASE SetState(t) BY <2>3, SMTT(30) DEF SetState, Move
  <2>4. CASE PostSync(t) BY <2>4, SMTT(30) DEF PostSync, Move
  <2>5. CASE Loop(t) BY <2>5, SMTT(30) DEF Loop, Move
  <2>6. CASE dhcpd_openlistener(t) BY <2>6, SMTT(30) DEF dhcpd_openlistener, Move
  <2>7. CASE CallRecv(t) BY <2>7, SMTT(30) DEF CallRecv, Move
  <2> QED BY <1>5, <2>1, <2>2, <2>3, <2>4, <2>5, <2>6, <2>7, Zenon DEF TaskStep
<1>6. ASSUME NEW t \in Task, OpenFails(t) \/ Receive(t) \/ RecvFails(t)
      PROVE  Tasks'
  <2>1. CASE OpenFails(t) BY <2>1, SMTT(30) DEF OpenFails, Move
  <2>2. CASE Receive(t) BY <2>2, SMTT(30) DEF Receive, Move
  <2>3. CASE RecvFails(t) BY <2>3, SMTT(30) DEF RecvFails, Move
  <2> QED BY <1>6, <2>1, <2>2, <2>3, Zenon
<1>7. CASE UNCHANGED daemon BY <1>7 DEF daemon
<1> HIDE <1>0 DEF Tasks
<1> QED BY <1>1, <1>2, <1>3, <1>4, <1>5, <1>6, <1>7, Zenon DEF DaemonNext

(* The invariant holds in every behaviour *)
LEMMA AlwaysDaemonInv == DaemonSpec => []DaemonInv
<1>1. ASSUME DaemonInv, [DaemonNext]_daemon PROVE DaemonInv'
  <2>1. DaemonTypeOK' /\ CallShape'
    BY <1>1, NextType, NextShape, Zenon DEF DaemonInv
  <2>2. ASSUME ~Barged' PROVE Calls'
    BY <1>1, <2>2, NextBarged, NextCalls, Zenon DEF DaemonInv
  <2>3. ASSUME ~Barged', ~Direct' PROVE Tasks'
    BY <1>1, <2>3, NextBarged, NextDirect, NextTasks, Zenon DEF DaemonInv
  <2> QED BY <2>1, <2>2, <2>3, Zenon DEF DaemonInv
<1> QED BY InitDaemonInv, <1>1, PTL DEF DaemonSpec

(* Shape of the state, for any number of callers and tasks *)
THEOREM DaemonTypeCorrect == DaemonSpec => []DaemonTypeOK
<1>1. DaemonInv => DaemonTypeOK BY DEF DaemonInv
<1> QED BY AlwaysDaemonInv, <1>1, PTL

(* Of the tasks that dhcpd_start creates at most one serves from g_state:   *)
(* it creates one only where TaskInv says that no other is active           *)
THEOREM ServesAlone == DaemonSpec => []OneServer
<1>1. DaemonInv => OneServer
  BY DEF DaemonInv, Tasks, TaskInv, Active, OneServer, Serving
<1> QED BY AlwaysDaemonInv, <1>1, PTL

(* dhcpd_stop returns only once nothing serves: it sees STOPPED, or a pid   *)
(* that only a task past its loop withdraws                                 *)
THEOREM StopsEffectively == DaemonSpec => []StopEffective
<1>1. DaemonInv => StopEffective
  BY DEF DaemonInv, Tasks, CallInv, Serves, StopEffective, Serving
<1> QED BY AlwaysDaemonInv, <1>1, PTL

(* dhcpd_start returns only once the task it created has left STARTED: who   *)
(* leaves STARTED behind is, by StartInv, still in the loop that waits       *)
THEOREM StartsEffectively == DaemonSpec => []StartEffective
<1>1. ASSUME DaemonInv, ~Barged, NEW c \in Caller, At(c, "start", "unlock"),
             ds_state = "STARTED"
      PROVE  FALSE
  <2>1. PICK b \in Caller : Starting(b)
    BY <1>1, Zenon DEF DaemonInv, Calls, StartInv
  <2>2. b \in Inside /\ c \in Inside
    BY <1>1, <2>1 DEF Starting, At, Inside
  <2>3. b = c
    BY <1>1, <2>2, Zenon DEF DaemonInv, Calls, LockInv
  <2> QED
    BY <1>1, <2>1, <2>3 DEF Starting, At
<1>2. DaemonInv => StartEffective
  BY <1>1, Zenon DEF StartEffective
<1> QED BY AlwaysDaemonInv, <1>2, PTL

-----------------------------------------------------------------------------
(* The lock of the daemon: how many callers it admits.  The theorems about   *)
(* finite sets come in only here.                                            *)
Finite == INSTANCE FiniteSetTheorems

(* The library speaks of the same finite sets *)
LEMMA SameFinite == ASSUME NEW S PROVE Finite!IsFiniteSet(S) <=> IsFiniteSet(S)
  BY Zenon DEF Finite!IsFiniteSet, IsFiniteSet

(* and of the same sizes *)
LEMMA SameSize == ASSUME NEW S PROVE Finite!Cardinality(S) = Cardinality(S)
  BY Zenon DEF Finite!Cardinality, Cardinality

(* Nothing has no members *)
LEMMA SizeOfNothing == Cardinality({}) = 0
  BY Finite!FS_EmptySet, SameSize, Zenon

(* A part of a finite set is finite *)
LEMMA SizeOfPart ==
    ASSUME NEW S, IsFiniteSet(S), NEW T \in SUBSET S
    PROVE  IsFiniteSet(T) /\ Cardinality(T) \in Nat
  BY Finite!FS_Subset, Finite!FS_CardinalityType, SameFinite, SameSize, Zenon

(* One member more *)
LEMMA SizeWith ==
    ASSUME NEW S, IsFiniteSet(S), NEW x, x \notin S
    PROVE  Cardinality(S \cup {x}) = Cardinality(S) + 1
  BY Finite!FS_AddElement, SameFinite, SameSize, Zenon

(* One member less *)
LEMMA SizeWithout ==
    ASSUME NEW S, IsFiniteSet(S), NEW x \in S
    PROVE  Cardinality(S \ {x}) = Cardinality(S) - 1 /\ Cardinality(S) # 0
<1>1. Cardinality(S \ {x}) = Cardinality(S) - 1
  BY Finite!FS_RemoveElement, SameFinite, SameSize, Zenon
<1>2. Cardinality(S) = 0 => S = {}
  BY Finite!FS_EmptySet, SameFinite, SameSize, Zenon
<1> QED BY <1>1, <1>2

(* Whoever enters with the lock has decremented it, whoever enters without   *)
(* it is counted, and whoever leaves posts it                                *)
LEMMA NextBalance == DaemonTypeOK /\ LockBalance /\ [DaemonNext]_daemon => LockBalance'
<1> SUFFICES ASSUME DaemonTypeOK, LockBalance, [DaemonNext]_daemon, barged' < MaxBarged
             PROVE  ds_lock' + Cardinality(Inside') = 1 + barged'
  BY DEF LockBalance
<1>1. /\ ds_lock \in Nat /\ barged \in Nat /\ MaxBarged \in Nat /\ MaxSem \in Nat
      /\ MaxBarged <= MaxSem
  BY DaemonConfig DEF DaemonTypeOK
<1>2. IsFiniteSet(Inside) /\ Cardinality(Inside) \in Nat
  <2>1. Inside \in SUBSET Caller BY DEF Inside
  <2> QED BY <2>1, DaemonConfig, SizeOfPart
<1>3. CASE UNCHANGED <<ds_lock, barged, Inside>>
  BY <1>3 DEF LockBalance
<1>4. ASSUME NEW c \in Caller \ Inside, Inside' = Inside \cup {c},
             \/ ds_lock > 0 /\ ds_lock' = ds_lock - 1 /\ barged' = barged
             \/ /\ ds_lock' = ds_lock
                /\ barged' = IF barged < MaxBarged THEN barged + 1 ELSE barged
      PROVE  ds_lock' + Cardinality(Inside') = 1 + barged'
  <2>1. Cardinality(Inside') = Cardinality(Inside) + 1
    BY <1>2, <1>4, SizeWith
  <2>2. barged < MaxBarged
    BY <1>1, <1>4
  <2>3. ds_lock + Cardinality(Inside) = 1 + barged
    BY <2>2 DEF LockBalance
  <2> QED BY <1>1, <1>2, <1>4, <2>1, <2>2, <2>3
<1>5. ASSUME NEW c \in Inside, Inside' = Inside \ {c}, ds_lock' = Post(ds_lock),
             barged' = barged
      PROVE  ds_lock' + Cardinality(Inside') = 1 + barged'
  <2>1. Cardinality(Inside') = Cardinality(Inside) - 1
    BY <1>2, <1>5, SizeWithout
  <2>2. ds_lock + Cardinality(Inside) = 1 + barged
    BY <1>5 DEF LockBalance
  <2>3. Cardinality(Inside) # 0
    BY <1>2, <1>5, SizeWithout
  <2>4. ds_lock < MaxSem
    BY <1>1, <1>2, <1>5, <2>2, <2>3
  <2>5. ds_lock' = ds_lock + 1
    BY <1>5, <2>4 DEF Post
  <2> QED BY <1>1, <1>2, <1>5, <2>1, <2>2, <2>5
<1> QED BY <1>3, <1>4, <1>5, LockEffect, Zenon

(* Mutual exclusion of dhcpd_start and dhcpd_stop through ds_lock, which      *)
(* every interrupted wait weakens by one caller                              *)
THEOREM CallersExclude == DaemonSpec => []LockBalance
<1>1. DaemonInit => LockBalance
  <2>1. DaemonInit => Inside = {} BY DEF DaemonInit, Inside
  <2> QED BY <2>1, SizeOfNothing DEF DaemonInit, LockBalance
<1>2. DaemonTypeOK /\ LockBalance /\ [DaemonNext]_daemon => LockBalance'
  BY NextBalance
<1> QED BY DaemonTypeCorrect, <1>1, <1>2, PTL DEF DaemonSpec
=============================================================================
