------------------------------- MODULE Dhcpc -------------------------------
(***************************************************************************)
(* The DHCP client (netutils/dhcpc/dhcpc.c): the threads dhcpc_request_    *)
(* async() starts, one per client, and the caller that cancels them.       *)
(*                                                                         *)
(* "pc" is the place of a thread in dhcpc_run and dhcpc_request:           *)
(*   idle      no thread            begin    entry of dhcpc_request        *)
(*   discover  about to send        offer    in recv() for an OFFER        *)
(*   request   about to send        ack      in recv() for an ACK or NAK   *)
(*   callback  dhcpc_request is back in dhcpc_run with its result          *)
(*   nap       cancel was checked, sleep() not entered yet                 *)
(*   sleep     in sleep()           exit     dhcpc_run has returned        *)
(* An action that takes an index i receives the i-th datagram waiting in   *)
(* the client's socket.  Locals are reset when their function returns.     *)
(***************************************************************************)
EXTENDS DhcpWire

CONSTANTS Retries,      \* CONFIG_NETUTILS_DHCPC_RETRIES
          XidMod        \* number of values of xid[3], 256 in the code

ASSUME ClientConfig == {Retries, XidMod} \subseteq Nat \ {0}

VARIABLE st             \* handle, locals and interface of each client

NoResult == [ipaddr |-> 0, serverid |-> 0, lease_time |-> 0]

Waiting == {"offer", "ack"}
Sending == {"discover", "request"}

ClientInit ==
    st = [c \in Client |->
               [pc |-> "idle", ifaddr |-> 0, oldaddr |-> 0, xid |-> 0,
                retries |-> 0, presult |-> NoResult,
                chosen |-> [ipaddr |-> 0, serverid |-> 0],
                ok |-> FALSE, wake |-> 0, cancel |-> FALSE,
                caller |-> "free"]]

(* The sockets q once c has sent a message *)
dhcpc_sendmsg(q, c, to, type, ciaddr, reqip, serverid) ==
    Sendto(q, to,
           [type |-> type, mac |-> c, xid |-> st[c].xid, ciaddr |-> ciaddr,
            reqip |-> reqip, serverid |-> serverid, leasetime |-> 0])

(* dhcpc_parsemsg: is the reply an answer to this client's exchange? *)
Accepted(c, r) == r.xid = st[c].xid /\ r.mac = c

(* dhcpc_parseoptions fills in what the reply carries, whatever its type *)
Parsed(c, r) ==
    IF ~Accepted(c, r) THEN st[c].presult
    ELSE [ipaddr |-> r.yiaddr, serverid |-> r.serverid,
          lease_time |-> IF r.type = "NAK" THEN st[c].presult.lease_time
                         ELSE r.leasetime]

-----------------------------------------------------------------------------
(* dhcpc_request_async: refused while the handle has a thread *)
RequestAsync(c) ==
    /\ st[c].pc = "idle"
    /\ st[c].caller = "free"
    /\ st' = [st EXCEPT ![c].pc = "begin"]
    /\ UNCHANGED sock

(* Mutant: every exchange has the same transaction id *)
BeginRequest_SameXid(c) ==
    /\ st[c].pc = "begin"
    /\ st' = [st EXCEPT ![c].pc = "discover",
                        ![c].presult = NoResult,
                        ![c].oldaddr = st[c].ifaddr,
                        ![c].retries = 0]
    /\ UNCHANGED sock

(* dhcpc_request, up to the first loop *)
BeginRequest(c) ==
    /\ st[c].pc = "begin"
    /\ st' = [st EXCEPT ![c].pc = "discover",
                        ![c].presult = NoResult,
                        ![c].xid = (@ + 1) % XidMod,
                        ![c].oldaddr = st[c].ifaddr,
                        ![c].retries = 0]
    /\ UNCHANGED sock

SendDiscover(c) ==
    /\ st[c].pc = "discover"
    /\ ~st[c].cancel
    /\ st' = [st EXCEPT ![c].pc = "offer", ![c].retries = @ + 1]
    /\ sock' = dhcpc_sendmsg(sock, c, Broadcast, "DISCOVER", 0, 0, 0)

SendRequest(c) ==
    /\ st[c].pc = "request"
    /\ ~st[c].cancel
    /\ st' = [st EXCEPT ![c].pc = "ack", ![c].retries = @ + 1]
    /\ sock' = dhcpc_sendmsg(sock, c, Broadcast, "REQUEST", 0,
                             st[c].chosen.ipaddr, st[c].chosen.serverid)

(* return, with the address the interface is left with *)
Return(c, ok, addr, result) ==
    st' = [st EXCEPT ![c].pc = "callback", ![c].ok = ok, ![c].ifaddr = addr,
                     ![c].presult = result, ![c].oldaddr = 0,
                     ![c].retries = 0]

ReturnError(c, addr) == Return(c, FALSE, addr, st[c].presult)

(* The cancel flag is looked at before each transmission *)
SeeCancel(c) ==
    /\ st[c].pc \in Sending
    /\ st[c].cancel
    /\ ReturnError(c, st[c].ifaddr)
    /\ UNCHANGED sock

SendFails(c) ==
    /\ st[c].pc \in Sending
    /\ ~st[c].cancel
    /\ ReturnError(c, st[c].ifaddr)
    /\ UNCHANGED sock

(* recv() fails with an error that is neither EAGAIN nor EINTR *)
RecvFails(c) ==
    /\ \/ st[c].pc = "offer" /\ ReturnError(c, st[c].ifaddr)
       \/ st[c].pc = "ack" /\ ReturnError(c, st[c].oldaddr)
    /\ UNCHANGED sock

(* Mutant: one transmission too many *)
WaitOver_OffByOne(c, result) ==
    IF st[c].retries > Retries
    THEN Return(c, FALSE, st[c].ifaddr, result)
    ELSE st' = [st EXCEPT ![c].presult = result,
                          ![c].pc = IF @ = "offer" THEN "discover"
                                    ELSE "request"]

(* The time to wait for an answer is over: send again, or give up *)
WaitOver(c, result) ==
    IF st[c].retries >= Retries
    THEN Return(c, FALSE, st[c].ifaddr, result)
    ELSE st' = [st EXCEPT ![c].presult = result,
                          ![c].pc = IF @ = "offer" THEN "discover"
                                    ELSE "request"]

Timeout(c) ==
    /\ st[c].pc \in Waiting
    /\ sock[c] = <<>>
    /\ WaitOver(c, st[c].presult)
    /\ UNCHANGED sock

(* The first OFFER is taken, and its address put on the interface *)
RecvOffer(c, i) ==
    LET r == sock[c][i]
    IN  /\ st[c].pc = "offer"
        /\ Accepted(c, r) /\ r.type = "OFFER"
        /\ st' = [st EXCEPT ![c].pc = "request",
                            ![c].presult = Parsed(c, r),
                            ![c].chosen = [ipaddr   |-> r.yiaddr,
                                           serverid |-> r.serverid],
                            ![c].ifaddr = r.yiaddr,
                            ![c].retries = 0]
        /\ sock' = Taken(c, i)

RecvAck(c, i) ==
    LET r == sock[c][i]
    IN  /\ st[c].pc = "ack"
        /\ Accepted(c, r) /\ r.type = "ACK"
        /\ Return(c, TRUE, st[c].ifaddr, Parsed(c, r))
        /\ sock' = Taken(c, i)

RecvNak(c, i) ==
    LET r == sock[c][i]
    IN  /\ st[c].pc = "ack"
        /\ Accepted(c, r) /\ r.type = "NAK"
        /\ ReturnError(c, 0)
        /\ sock' = Taken(c, i)

(* Anything else is parsed and dropped, an OFFER of another server with a  *)
(* DECLINE to that server; "late" tells whether the wait was over by then  *)
RecvOther(c, i, late) ==
    LET r == sock[c][i]
        rival == /\ st[c].pc = "ack" /\ Accepted(c, r) /\ r.type = "OFFER"
                 /\ r.serverid # st[c].chosen.serverid
    IN  /\ \/ st[c].pc = "offer" /\ ~(Accepted(c, r) /\ r.type = "OFFER")
           \/ st[c].pc = "ack" /\ ~(Accepted(c, r) /\ r.type \in {"ACK", "NAK"})
        /\ IF late THEN WaitOver(c, Parsed(c, r))
           ELSE st' = [st EXCEPT ![c].presult = Parsed(c, r)]
        /\ sock' = IF rival
                   THEN dhcpc_sendmsg(Taken(c, i), c, r.serverid, "DECLINE",
                                      r.yiaddr, 0, r.serverid)
                   ELSE Taken(c, i)

-----------------------------------------------------------------------------
(* Mutant: the thread goes on although it was cancelled *)
RunCallback_IgnoresCancel(c) ==
    LET half == IF st[c].ok THEN st[c].presult.lease_time \div 2 ELSE 0
    IN  /\ st[c].pc = "callback"
        /\ st' = [st EXCEPT ![c].pc = IF half = 0 THEN "begin" ELSE "nap",
                            ![c].presult = IF st[c].ok THEN @ ELSE NoResult,
                            ![c].ok = FALSE]
        /\ UNCHANGED sock

(* Mutant: the thread does not wait for half of the lease *)
RunCallback_NoSleep(c) ==
    /\ st[c].pc = "callback"
    /\ st' = [st EXCEPT ![c].pc = IF st[c].cancel THEN "exit" ELSE "begin",
                        ![c].ok = FALSE]
    /\ UNCHANGED sock

(* dhcpc_run after dhcpc_request: report, look at cancel, sleep or go on *)
RunCallback(c) ==
    LET half == IF st[c].ok THEN st[c].presult.lease_time \div 2 ELSE 0
    IN  /\ st[c].pc = "callback"
        /\ st' = [st EXCEPT ![c].pc = IF st[c].cancel THEN "exit"
                                      ELSE IF half = 0 THEN "begin" ELSE "nap",
                            ![c].presult = IF st[c].ok THEN @ ELSE NoResult,
                            ![c].ok = FALSE]
        /\ UNCHANGED sock

EnterSleep(c, now) ==
    /\ st[c].pc = "nap"
    /\ st' = [st EXCEPT ![c].pc = "sleep",
                        ![c].wake = now + st[c].presult.lease_time \div 2]
    /\ UNCHANGED sock

WakeUp(c, now) ==
    /\ st[c].pc = "sleep"
    /\ now >= st[c].wake
    /\ st' = [st EXCEPT ![c].pc = IF st[c].cancel THEN "exit" ELSE "begin",
                        ![c].wake = 0]
    /\ UNCHANGED sock

(* dhcpc_cancel, step by step: raise the flag, and if there is a thread     *)
(* signal it, which ends a sleep() and is lost on a thread that is not in   *)
(* one (recv() just goes on), and join it.                                  *)
CancelFlag(c) ==
    /\ st[c].caller = "free"
    /\ st' = [st EXCEPT ![c].cancel = TRUE,
                        ![c].caller = IF st[c].pc = "idle" THEN "free"
                                      ELSE "kill"]
    /\ UNCHANGED sock

CancelKill(c) ==
    /\ st[c].caller = "kill"
    /\ st' = [st EXCEPT ![c].caller = "join",
                        ![c].pc = IF @ = "sleep" THEN "exit" ELSE @,
                        ![c].wake = 0]
    /\ UNCHANGED sock

CancelJoin(c) ==
    /\ st[c].caller = "join"
    /\ st[c].pc = "exit"
    /\ st' = [st EXCEPT ![c].caller = "free", ![c].pc = "idle"]
    /\ UNCHANGED sock
=============================================================================
