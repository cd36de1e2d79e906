---------------------------- MODULE DhcpdLeases ----------------------------
(***************************************************************************)
(* The lease table of the DHCP server and what each message handler of     *)
(* netutils/dhcpd/dhcpd.c does to it, as operators on a table "tab".       *)
(*                                                                         *)
(* ds_leases is a function from the addresses of the pool to leases: the   *)
(* C code indexes an array by ipaddr - STARTIP, which dhcp_leaseipaddr     *)
(* undoes.  Addresses are numbers in host order and 0 stands for "none".   *)
(* A handler yields the set of its possible outcomes [leases, reply]: the  *)
(* table it leaves and the set of messages it sends, empty when it stays   *)
(* silent or sendto() fails.                                               *)
(***************************************************************************)
EXTENDS Integers

CONSTANTS Mac,            \* hardware addresses of clients
          NoMac,          \* the all-zero hardware address
          LeaseTime,      \* CONFIG_NETUTILS_DHCPD_LEASETIME
          MinLeaseTime,   \* CONFIG_NETUTILS_DHCPD_MINLEASETIME
          MaxLeaseTime,   \* CONFIG_NETUTILS_DHCPD_MAXLEASETIME
          OfferTime,      \* CONFIG_NETUTILS_DHCPD_OFFERTIME
          DeclineTime     \* CONFIG_NETUTILS_DHCPD_DECLINETIME

(* The configuration dhcpd is built with: positive times, an ordered range *)
ASSUME LeaseConfig ==
    /\ NoMac \notin Mac
    /\ {LeaseTime, MinLeaseTime, MaxLeaseTime, OfferTime, DeclineTime}
         \subseteq Nat \ {0}
    /\ MinLeaseTime <= MaxLeaseTime

Lease == [mac : Mac \cup {NoMac}, allocated : BOOLEAN, expiry : Nat]

(* A slot cleared by memset: free, and expired at any time *)
FreeLease == [mac |-> NoMac, allocated |-> FALSE, expiry |-> 0]

(* The parsed fields of a client's message that the handlers look at; a    *)
(* field the handler of its type does not read is 0                        *)
ClientMsg(Addrs, Servers, Times, Xids) ==
    LET Msg(types, ciaddrs, reqips, servers, times) ==
          [type : types, mac : Mac, xid : Xids, ciaddr : ciaddrs,
           reqip : reqips, serverid : servers, leasetime : times]
    IN  Msg({"DISCOVER"}, {0}, Addrs, {0}, Times)
          \cup Msg({"REQUEST"}, Addrs, Addrs, Servers, Times)
          \cup Msg({"DECLINE", "RELEASE", "INFORM"}, {0}, {0}, {0}, {0})

-----------------------------------------------------------------------------
(* Mutant: a lease ends one tick early *)
dhcpd_leaseexpired_Early(lease, now) == lease.expiry <= now + 1

dhcpd_leaseexpired(lease, now) == lease.expiry <= now

dhcpd_setlease(tab, now, mac, ip, time) ==
    IF ip \in DOMAIN tab
    THEN [tab EXCEPT ![ip] =
            [mac |-> mac, allocated |-> TRUE, expiry |-> now + time]]
    ELSE tab

(* What a scan of the table in address order stops at: one address or none *)
First(S) == {ip \in S : \A other \in S : ip <= other}

dhcpd_findbymac(tab, mac) == First({ip \in DOMAIN tab : tab[ip].mac = mac})

dhcpd_findbyipaddr(tab, ip) == {a \in DOMAIN tab : a = ip /\ tab[a].allocated}

(* Mutants: the expiry is not looked at; a slot without a client is free *)
Available_Always(tab, now, ip) == TRUE

Available_IfNobodys(tab, now, ip) ==
    \A x \in dhcpd_findbyipaddr(tab, ip) :
        tab[x].mac = NoMac \/ dhcpd_leaseexpired(tab[x], now)

(* No lease on the address, or one that has expired *)
Available(tab, now, ip) ==
    \A a \in dhcpd_findbyipaddr(tab, ip) : dhcpd_leaseexpired(tab[a], now)

dhcpd_allocipaddr(tab, now) ==
    First({ip \in DOMAIN tab :
             ip % 256 \notin {0, 255} /\ Available(tab, now, ip)})

(* Mutant: the range is checked and the lease is not *)
dhcpd_verifyreqip_RangeOnly(tab, now, m) == m.reqip \in DOMAIN tab

dhcpd_verifyreqip(tab, now, m) ==
    m.reqip \in DOMAIN tab /\ Available(tab, now, m.reqip)

(* The requested lease time clipped to the configured range, or the default *)
dhcpd_verifyreqleasetime(m, default) ==
    IF m.leasetime = 0 THEN default
    ELSE IF m.leasetime > MaxLeaseTime THEN MaxLeaseTime
    ELSE IF m.leasetime < MinLeaseTime THEN MinLeaseTime
    ELSE m.leasetime

-----------------------------------------------------------------------------
(* dhcpd_initpacket: the header is copied from the message answered *)
Reply(type, m, ip, time, self) ==
    [type |-> type, mac |-> m.mac, xid |-> m.xid, yiaddr |-> ip,
     leasetime |-> time, serverid |-> self]

Silent(tab) == {[leases |-> tab, reply |-> {}]}

dhcpd_sendoffer(tab, m, ip, time, self) ==
    {[leases |-> tab, reply |-> sent] :
       sent \in {{}, {Reply("OFFER", m, ip, time, self)}}}

dhcpd_sendnak(tab, m, self) ==
    {[leases |-> tab, reply |-> sent] :
       sent \in {{}, {Reply("NAK", m, 0, 0, self)}}}

(* Mutant: the lease is not recorded *)
dhcpd_sendack_NoLease(tab, now, m, ip, self) ==
    LET time == dhcpd_verifyreqleasetime(m, LeaseTime)
    IN  {[leases |-> tab, reply |-> {Reply("ACK", m, ip, time, self)}]}

(* The lease is recorded only once the ACK has been sent *)
dhcpd_sendack(tab, now, m, ip, self) ==
    LET time == dhcpd_verifyreqleasetime(m, LeaseTime)
    IN  Silent(tab)
          \cup {[leases |-> dhcpd_setlease(tab, now, m.mac, ip, time),
                 reply  |-> {Reply("ACK", m, ip, time, self)}]}

-----------------------------------------------------------------------------
(* Mutant: the client's own slot is not looked for *)
DiscoverChoice_NotMine(tab, now, m) ==
    IF dhcpd_verifyreqip(tab, now, m) THEN {m.reqip}
    ELSE dhcpd_allocipaddr(tab, now)

(* The address a DISCOVER is answered with: the client's own slot, else the *)
(* one it asks for if that is available, else the first available one       *)
DiscoverChoice(tab, now, m) ==
    LET mine == dhcpd_findbymac(tab, m.mac)
    IN  IF mine # {} THEN mine
        ELSE IF dhcpd_verifyreqip(tab, now, m) THEN {m.reqip}
        ELSE dhcpd_allocipaddr(tab, now)

(* The lease time offered for ip before the client's own wish is applied *)
DiscoverTime(tab, now, m, ip) ==
    LET left == tab[ip].expiry - now
    IN  IF tab[ip].mac # m.mac \/ dhcpd_leaseexpired(tab[ip], now)
        THEN LeaseTime
        ELSE IF left < MinLeaseTime THEN MinLeaseTime ELSE left

(* Mutant: the address is offered and not reserved *)
dhcpd_discover_NoReserve(tab, now, m, self) ==
    LET choice == DiscoverChoice(tab, now, m)
    IN  IF choice = {} THEN Silent(tab)
        ELSE UNION {dhcpd_sendoffer(tab, m, ip, LeaseTime, self) : ip \in choice}

dhcpd_discover(tab, now, m, self) ==
    LET choice == DiscoverChoice(tab, now, m)
    IN  IF choice = {} THEN Silent(tab)
        ELSE UNION {dhcpd_sendoffer(
                      dhcpd_setlease(tab, now, m.mac, ip, OfferTime), m, ip,
                      dhcpd_verifyreqleasetime(
                        m, DiscoverTime(tab, now, m, ip)), self)
                    : ip \in choice}

(* Is the REQUEST consistent with the lease on ip the client already has? *)
Consistent(m, ip, self) ==
    IF m.serverid # 0
    THEN m.serverid = self /\ (m.reqip # 0 \/ m.reqip = ip)
    ELSE IF m.reqip # 0 THEN m.reqip = ip ELSE m.ciaddr = ip

RequestWithLease(tab, now, m, ip, self) ==
    IF Consistent(m, ip, self) THEN dhcpd_sendack(tab, now, m, ip, self)
    ELSE dhcpd_sendnak(tab, m, self)

(* Mutant: a lease on the address does not matter *)
RequestWithoutLease_TakeOver(tab, now, m, self) ==
    IF m.reqip \in DOMAIN tab
    THEN dhcpd_sendack(tab, now, m, m.reqip, self)
    ELSE dhcpd_sendnak(tab, m, self)

RequestWithoutLease(tab, now, m, self) ==
    IF dhcpd_findbyipaddr(tab, m.reqip) # {}
    THEN IF dhcpd_leaseexpired(tab[m.reqip], now)
         THEN Silent([tab EXCEPT ![m.reqip] = FreeLease])
         ELSE dhcpd_sendnak(tab, m, self)
    ELSE IF m.reqip \in DOMAIN tab
         THEN dhcpd_sendack(tab, now, m, m.reqip, self)
         ELSE dhcpd_sendnak(tab, m, self)

dhcpd_request(tab, now, m, self) ==
    LET mine == dhcpd_findbymac(tab, m.mac)
    IN  IF mine # {}
        THEN UNION {RequestWithLease(tab, now, m, ip, self) : ip \in mine}
        ELSE IF m.reqip # 0 /\ m.serverid = 0
             THEN RequestWithoutLease(tab, now, m, self)
             ELSE Silent(tab)

(* Mutant: the operands of the expiry are swapped *)
dhcpd_decline_Negative(tab, now, m) ==
    LET mine == dhcpd_findbymac(tab, m.mac)
    IN  Silent([ip \in DOMAIN tab |->
                  IF ip \in mine
                  THEN [mac |-> NoMac, allocated |-> tab[ip].allocated,
                        expiry |-> DeclineTime - now]
                  ELSE tab[ip]])

(* The slot keeps "allocated" but belongs to nobody until it expires *)
dhcpd_decline(tab, now, m) ==
    LET mine == dhcpd_findbymac(tab, m.mac)
    IN  Silent([ip \in DOMAIN tab |->
                  IF ip \in mine
                  THEN [mac |-> NoMac, allocated |-> tab[ip].allocated,
                        expiry |-> now + DeclineTime]
                  ELSE tab[ip]])

dhcpd_release(tab, m) ==
    LET mine == dhcpd_findbymac(tab, m.mac)
    IN  Silent([ip \in DOMAIN tab |->
                  IF ip \in mine THEN FreeLease ELSE tab[ip]])

(* The switch of dhcpd_run on the type of a message that parsed *)
Dispatch(tab, now, m, self) ==
    CASE m.type = "DISCOVER" -> dhcpd_discover(tab, now, m, self)
      [] m.type = "REQUEST"  -> dhcpd_request(tab, now, m, self)
      [] m.type = "DECLINE"  -> dhcpd_decline(tab, now, m)
      [] m.type = "RELEASE"  -> dhcpd_release(tab, m)
      [] OTHER               -> Silent(tab)
=============================================================================
