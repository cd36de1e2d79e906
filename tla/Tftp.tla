-------------------------------- MODULE Tftp --------------------------------
(***************************************************************************)
(* The TFTP client (netutils/tftpc): tftpget_cb, tftpput_cb and            *)
(* tftp_rcvack against a server on a network that loses, repeats, delays   *)
(* and reorders datagrams and carries packets of other hosts.  Block n of  *)
(* the file is modelled by n, its number on the wire is n % Mod.           *)
(*                                                                         *)
(* "pc" is the place of the client:                                        *)
(*   request  about to send RRQ or WRQ    recv    tftpget_cb in recvfrom   *)
(*   ack      about to send an ACK        wrqack  in tftp_rcvack for WRQ   *)
(*   data     about to read and send DATA rcvack  in tftp_rcvack for DATA  *)
(*   done     returned                                                     *)
(*                                                                         *)
(* The server is external: it is what src/netutils/tftpc expects of a      *)
(* server that follows RFC 1350.  Each request opens a transfer on a port  *)
(* of its own.                                                             *)
(***************************************************************************)
EXTENDS Integers, Sequences

CONSTANTS Blocks,       \* blocks of the file, the last one short (or empty)
          Mod,          \* number of block numbers, 2^16 in the code
          Retries,      \* TFTP_RETRIES
          Port,         \* the ports the server uses for transfers
          Links,        \* what the network and the file system may do
          NullWrite     \* what a write to address 0 may do on this build

WellKnown == 0          \* CONFIG_NETUTILS_TFTP_PORT, and "no port yet"

ASSUME TftpConfig ==
    /\ Blocks \in Nat \ {0}
    /\ Mod \in Nat \ {0, 1}
    /\ Retries \in Nat \ {0}
    /\ Port \subseteq Nat \ {WellKnown}
    /\ Links \subseteq [prompt : BOOLEAN, io : BOOLEAN, max : Nat, faults : {0}]
    /\ NullWrite \subseteq {"ignored", "fault"}

VARIABLES op,                   \* "get" or "put", the function that was called
          link,                 \* prompt: no timeout while a datagram is on its way;
                                \* io: files and sockets may fail; faults, of at most
                                \* max: datagrams lost, repeated or foreign so far
          pc, blockno, retry,   \* locals of tftpget_cb and tftpput_cb
          offset,               \* of tftpput_cb, in blocks
          tries,                \* retry of tftp_rcvack
          port,                 \* server.sin_port and port
          result,               \* the value returned
          local,                \* the file tftp_write has written
          srv,                  \* transfers of the server: n is the block it is
                                \* sending, stored the file it has received
          toC, toS              \* datagrams on their way

client == <<pc, blockno, retry, offset, tries, port, result, local>>
vars   == <<op, link, client, srv, toC, toS>>

Place == {"request", "recv", "ack", "wrqack", "data", "rcvack", "done"}

(* Datagrams; a field that a type has no use for is 0 *)
ToClient(type, host, p, num, blk) ==
    [type |-> type, host |-> host, port |-> p, num |-> num, blk |-> blk]
ToServer(type, p, num, blk) ==
    [type |-> type, port |-> p, num |-> num, blk |-> blk]

Data(p, n) == ToClient("DATA", "server", p, n % Mod, n)
Ack(p, n) == ToClient("ACK", "server", p, n % Mod, 0)

Init ==
    /\ op \in {"get", "put"}
    /\ link \in Links
    /\ pc = "request"
    /\ blockno = 1
    /\ retry = 0
    /\ offset = 0
    /\ tries = 0
    /\ port = WellKnown
    /\ result = "none"
    /\ local = <<>>
    /\ srv = [p \in Port |-> [st |-> "idle", n |-> 0, stored |-> <<>>]]
    /\ toC = {}
    /\ toS = {}

Fault == link.faults < link.max /\ link' = [link EXCEPT !.faults = @ + 1]

(* A datagram that is received is gone, or the network has a copy of it *)
Received(m) ==
    \/ toC' = toC \ {m} /\ UNCHANGED link
    \/ Fault /\ UNCHANGED toC

(* Nothing is on its way and the client waits *)
Quiet == toC = {} /\ toS = {} /\ pc \notin {"request", "ack", "data"}

(* The function returns *)
Return(r) == pc' = "done" /\ result' = r

-----------------------------------------------------------------------------
(* tftpget_cb *)

(* The next turn of the loop that retries, with its counter at r *)
TryAgain(r) ==
    /\ retry' = r
    /\ IF r = Retries THEN Return("ERROR")
       ELSE /\ pc' = IF blockno = 1 THEN "request" ELSE "recv"
            /\ UNCHANGED result

GetRequest ==
    /\ op = "get" /\ pc = "request"
    /\ toS' = toS \cup {ToServer("RRQ", WellKnown, 0, 0)}
    /\ port' = WellKnown
    /\ pc' = "recv"
    /\ UNCHANGED <<op, link, blockno, retry, offset, tries, result, local, srv, toC>>

(* Mutant: a timeout is not counted *)
GetTimeout_NotCounted ==
    /\ op = "get" /\ pc = "recv"
    /\ link.prompt => Quiet
    /\ TryAgain(retry)
    /\ UNCHANGED <<op, link, blockno, offset, tries, port, local, srv, toC, toS>>

(* recvfrom() times out or fails *)
GetTimeout ==
    /\ op = "get" /\ pc = "recv"
    /\ link.prompt => Quiet
    /\ TryAgain(retry + 1)
    /\ UNCHANGED <<op, link, blockno, offset, tries, port, local, srv, toC, toS>>

(* Another host: not counted as a try *)
GetStranger(m) ==
    /\ m.host # "server"
    /\ TryAgain(retry)
    /\ UNCHANGED <<blockno, port, local, toS>>

(* Another transfer of the server is told that it is not wanted *)
GetWrongPort(m) ==
    /\ m.host = "server" /\ port # WellKnown /\ m.port # port
    /\ toS' = toS \cup {ToServer("ERR", m.port, 0, 0)}
    /\ TryAgain(retry)
    /\ UNCHANGED <<blockno, port, local>>

FromServer(m) == m.host = "server" /\ port \in {WellKnown, m.port}

(* A short packet, another type of packet or another block *)
GetUnexpected(m) ==
    /\ FromServer(m)
    /\ m.type # "DATA" \/ m.num # blockno
    /\ toS' = IF m.type = "BADOP" THEN toS \cup {ToServer("ERR", m.port, 0, 0)}
              ELSE toS
    /\ TryAgain(retry + 1)
    /\ UNCHANGED <<blockno, port, local>>

(* Mutant: any DATA is taken for the next block *)
GetData_AnyBlock(m) ==
    /\ FromServer(m)
    /\ m.type = "DATA"
    /\ port' = m.port
    /\ \/ /\ local' = Append(local, m.blk)
          /\ pc' = "ack"
          /\ UNCHANGED result
       \/ link.io /\ Return("ERROR") /\ UNCHANGED local
    /\ UNCHANGED <<blockno, retry, toS>>

(* The block: tftp_write writes it, or fails, possibly after a part of it *)
GetData(m) ==
    /\ FromServer(m)
    /\ m.type = "DATA" /\ m.num = blockno
    /\ port' = m.port
    /\ \/ /\ local' = Append(local, m.blk)
          /\ pc' = "ack"
          /\ UNCHANGED result
       \/ link.io /\ Return("ERROR") /\ UNCHANGED local
    /\ UNCHANGED <<blockno, retry, toS>>

GetReceive ==
    /\ op = "get" /\ pc = "recv"
    /\ \E m \in toC :
         /\ Received(m)
         /\ \/ GetStranger(m)
            \/ GetWrongPort(m)
            \/ GetUnexpected(m)
            \/ GetData(m)
    /\ UNCHANGED <<op, offset, tries, srv>>

(* Acknowledge; a short block was the last one *)
GetAck ==
    /\ op = "get" /\ pc = "ack"
    /\ toS' = toS \cup {ToServer("ACK", port, blockno, 0)}
    /\ retry' = 0
    /\ IF local[Len(local)] = Blocks
       THEN Return("OK") /\ UNCHANGED blockno
       ELSE /\ blockno' = (blockno + 1) % Mod
            /\ pc' = IF blockno' = 1 THEN "request" ELSE "recv"
            /\ UNCHANGED result
    /\ UNCHANGED <<op, link, offset, tries, port, local, srv, toC>>

-----------------------------------------------------------------------------
(* tftpput_cb *)

PutRequest ==
    /\ op = "put" /\ pc = "request"
    /\ toS' = toS \cup {ToServer("WRQ", port, 0, 0)}
    /\ tries' = 0
    /\ pc' = "wrqack"
    /\ UNCHANGED <<op, link, blockno, retry, offset, port, result, local, srv, toC>>

PutData ==
    /\ op = "put" /\ pc = "data"
    /\ toS' = toS \cup {ToServer("DATA", port, blockno, offset + 1)}
    /\ tries' = 0
    /\ pc' = "rcvack"
    /\ UNCHANGED <<op, link, blockno, retry, offset, port, result, local, srv, toC>>

(* No ACK of what was sent: send it again, or give up *)
PutAgain ==
    /\ retry' = retry + 1
    /\ IF retry + 1 > Retries THEN Return("ERROR")
       ELSE /\ pc' = IF pc = "wrqack" THEN "request" ELSE "data"
            /\ UNCHANGED result
    /\ UNCHANGED <<blockno, offset, tries>>

(* Mutant: one try too many *)
NoAck_OneMore ==
    \/ /\ tries < Retries
       /\ tries' = tries + 1
       /\ UNCHANGED <<pc, blockno, retry, offset, result>>
    \/ tries >= Retries /\ PutAgain

(* tftp_rcvack: one of its tries has failed *)
NoAck ==
    \/ /\ tries + 1 < Retries
       /\ tries' = tries + 1
       /\ UNCHANGED <<pc, blockno, retry, offset, result>>
    \/ tries + 1 >= Retries /\ PutAgain

Awaited == op = "put" /\ pc \in {"wrqack", "rcvack"}

PutTimeout ==
    /\ Awaited
    /\ link.prompt => Quiet
    /\ NoAck
    /\ UNCHANGED <<op, link, port, local, srv, toC, toS>>

(* Mutant: the client follows the latest packet *)
PortOf_Latest(m) == m.port

(* The first packet sets the port, whoever has sent it *)
PortOf(m) == IF port = WellKnown THEN m.port ELSE port

(* A short packet or one that is no ACK *)
PutNotAck(m) ==
    /\ \/ m.type = "TINY" /\ UNCHANGED port
       \/ /\ m.host = "server" /\ m.type \notin {"TINY", "ACK"}
          /\ port' = PortOf(m)
    /\ toS' = IF m.type = "BADOP" THEN toS \cup {ToServer("ERR", port', 0, 0)}
              ELSE toS
    /\ NoAck

PutStranger(m) ==
    /\ m.host # "server" /\ m.type # "TINY"
    /\ port' = PortOf(m)
    /\ UNCHANGED <<pc, blockno, retry, offset, tries, result, toS>>

(* Any ACK confirms the request.  Its number is then written to address 0. *)
PutBegins(m) ==
    /\ m.host = "server" /\ m.type = "ACK" /\ pc = "wrqack"
    /\ port' = PortOf(m)
    /\ \/ /\ "ignored" \in NullWrite
          /\ retry' = 0
          /\ pc' = "data"
          /\ UNCHANGED result
       \/ "fault" \in NullWrite /\ Return("crash") /\ UNCHANGED retry
    /\ UNCHANGED <<blockno, offset, tries, toS>>

(* An ACK of the block, from any port of the server *)
PutAcked(m) ==
    /\ m.host = "server" /\ m.type = "ACK" /\ pc = "rcvack" /\ m.num = blockno
    /\ IF offset + 1 = Blocks
       THEN Return("OK") /\ UNCHANGED <<blockno, retry, offset>>
       ELSE /\ blockno' = (blockno + 1) % Mod
            /\ offset' = offset + 1
            /\ retry' = 0
            /\ pc' = "data"
            /\ UNCHANGED result
    /\ UNCHANGED <<port, tries, toS>>

(* Mutant: an ACK of another block ends the transfer *)
PutOtherAck_Ends(m) ==
    /\ m.host = "server" /\ m.type = "ACK" /\ pc = "rcvack" /\ m.num # blockno
    /\ Return("ERROR")
    /\ UNCHANGED <<blockno, retry, offset, tries, port, toS>>

PutOtherAck(m) ==
    /\ m.host = "server" /\ m.type = "ACK" /\ pc = "rcvack" /\ m.num # blockno
    /\ PutAgain
    /\ UNCHANGED <<port, toS>>

PutReceive ==
    /\ Awaited
    /\ \E m \in toC :
         /\ Received(m)
         /\ \/ PutNotAck(m)
            \/ PutStranger(m)
            \/ PutBegins(m)
            \/ PutAcked(m)
            \/ PutOtherAck(m)
    /\ UNCHANGED <<op, local, srv>>

(* sendto(), or the read of the block, fails *)
SendFails ==
    /\ link.io
    /\ pc \in {"request", "ack", "data"}
    /\ Return("ERROR")
    /\ UNCHANGED <<op, link, blockno, retry, offset, tries, port, local, srv, toC, toS>>

ClientStep == \/ GetRequest \/ GetTimeout \/ GetReceive \/ GetAck
              \/ PutRequest \/ PutData \/ PutTimeout \/ PutReceive

-----------------------------------------------------------------------------
(* The server *)
Opened(p) == srv[p].st = "open"

(* A request opens a transfer, or is dropped when no port is left *)
Listen(m) ==
    /\ m.type \in {"RRQ", "WRQ"} /\ m.port = WellKnown
    /\ \/ \E p \in Port :
            /\ srv[p].st = "idle"
            /\ srv' = [srv EXCEPT ![p] = [@ EXCEPT !.st = "open",
                                                   !.n = IF m.type = "RRQ" THEN 1 ELSE 0]]
            /\ toC' = toC \cup {IF m.type = "RRQ" THEN Data(p, 1) ELSE Ack(p, 0)}
       \/ (\A p \in Port : srv[p].st # "idle") /\ UNCHANGED <<srv, toC>>

(* An ACK of the block that is being sent *)
SendNext(m) ==
    /\ m.type = "ACK" /\ Opened(m.port) /\ m.num = srv[m.port].n % Mod
    /\ LET n == srv[m.port].n + 1
       IN  IF n > Blocks
           THEN srv' = [srv EXCEPT ![m.port].st = "closed"] /\ UNCHANGED toC
           ELSE /\ srv' = [srv EXCEPT ![m.port].n = n]
                /\ toC' = toC \cup {Data(m.port, n)}

(* The block after the last one that was stored, or that one once more *)
Store(m) ==
    /\ m.type = "DATA" /\ Opened(m.port)
    /\ LET s == srv[m.port]
           n == Len(s.stored)
       IN  \/ /\ m.num = (n + 1) % Mod
              /\ srv' = [srv EXCEPT ![m.port].stored = Append(@, m.blk)]
              /\ toC' = toC \cup {Ack(m.port, n + 1)}
           \/ /\ m.num = n % Mod
              /\ toC' = toC \cup {Ack(m.port, n)}
              /\ UNCHANGED srv

(* An error, or a request where none belongs, ends the transfer *)
Abort(m) ==
    /\ m.type \in {"ERR", "RRQ", "WRQ"} /\ m.port \in Port /\ Opened(m.port)
    /\ srv' = [srv EXCEPT ![m.port].st = "closed"]
    /\ UNCHANGED toC

(* What a transfer has no use for *)
Ignore(m) ==
    /\ m.port \in Port
    /\ \/ ~Opened(m.port)
       \/ m.type = "ACK" /\ m.num # srv[m.port].n % Mod
       \/ /\ m.type = "DATA"
          /\ LET n == Len(srv[m.port].stored)
             IN  m.num \notin {n % Mod, (n + 1) % Mod}
    /\ UNCHANGED <<srv, toC>>

ServerReceive(m) ==
    /\ m \in toS
    /\ \/ toS' = toS \ {m} /\ UNCHANGED link
       \/ Fault /\ UNCHANGED toS
    /\ Listen(m) \/ SendNext(m) \/ Store(m) \/ Abort(m) \/ Ignore(m)
    /\ UNCHANGED <<op, client>>

(* The server sends a block again when no ACK comes *)
Resend(p) ==
    /\ op = "get" /\ Opened(p)
    /\ link.prompt => Quiet
    /\ toC' = toC \cup {Data(p, srv[p].n)}
    /\ UNCHANGED <<op, link, client, srv, toS>>

GiveUp(p) ==
    /\ ~link.prompt /\ Opened(p)
    /\ srv' = [srv EXCEPT ![p].st = "closed"]
    /\ UNCHANGED <<op, link, client, toC, toS>>

-----------------------------------------------------------------------------
(* The network *)
Lose ==
    /\ Fault
    /\ \/ \E m \in toC : toC' = toC \ {m} /\ UNCHANGED toS
       \/ \E m \in toS : toS' = toS \ {m} /\ UNCHANGED toC
    /\ UNCHANGED <<op, client, srv>>

(* Packets nobody expects: errors and malformed ones of the server, packets  *)
(* of other hosts                                                            *)
Foreign ==
    {ToClient(type, "server", p, 0, 0) : type \in {"ERR", "TINY", "BADOP"}, p \in Port}
      \cup {ToClient("ACK", "other", p, 0, 0) : p \in Port}

Disturb ==
    /\ ~link.prompt
    /\ Fault
    /\ \E m \in Foreign : toC' = toC \cup {m}
    /\ UNCHANGED <<op, client, srv, toS>>

Next ==
    \/ ClientStep
    \/ SendFails
    \/ \E m \in toS : ServerReceive(m)
    \/ \E p \in Port : Resend(p) \/ GiveUp(p)
    \/ Lose
    \/ Disturb

Spec == Init /\ [][Next]_vars

(* The client runs, and what is sent to the server and not lost arrives *)
FairSpec == Spec /\ WF_vars(ClientStep) /\ WF_vars(\E m \in toS : ServerReceive(m))

-----------------------------------------------------------------------------
(* Shape of the state *)
TypeOK ==
    /\ op \in {"get", "put"}
    /\ link \in [prompt : BOOLEAN, io : BOOLEAN, max : Nat, faults : Nat]
    /\ link.faults <= link.max
    /\ pc \in Place
    /\ blockno \in 0 .. Mod - 1
    /\ retry \in 0 .. Retries + 1
    /\ tries \in 0 .. Retries - 1
    /\ offset \in 0 .. Blocks - 1
    /\ port \in Port \cup {WellKnown}
    /\ result \in {"none", "OK", "ERROR", "crash"}
    /\ pc = "done" <=> result # "none"
    /\ local \in Seq(1 .. Blocks)
    /\ srv \in [Port -> [st : {"idle", "open", "closed"}, n : 0 .. Blocks,
                         stored : Seq(1 .. Blocks)]]
    /\ toC \subseteq [type : {"DATA", "ACK", "ERR", "TINY", "BADOP"},
                      host : {"server", "other"}, port : Port,
                      num : 0 .. Mod - 1, blk : 0 .. Blocks]
    /\ toS \subseteq [type : {"RRQ", "WRQ", "DATA", "ACK", "ERR"},
                      port : Port \cup {WellKnown},
                      num : 0 .. Mod - 1, blk : 0 .. Blocks]

(* The file written at the other end of the transfer *)
Destination ==
    IF op = "get" THEN local
    ELSE IF port = WellKnown THEN <<>> ELSE srv[port].stored

(* tftpget and tftpput copy the file: whatever the network does, blocks are   *)
(* written once and in order, and OK is returned only when the whole file is  *)
(* at its destination.                                                        *)
Copy == INSTANCE FileCopy WITH dest <- Destination
ImplementsCopy == Copy!Spec

(* The two ends of the transfer are never more than a block apart, and the    *)
(* other transfers that repeated requests have opened never get past their    *)
(* first packet: no block and no acknowledgement of one is taken for that of  *)
(* the other.                                                                 *)
LockStep ==
    \A p \in Port :
      IF p = port
      THEN IF op = "get" THEN srv[p].n - Len(local) \in {0, 1}
           ELSE Len(srv[p].stored) - offset \in {0, 1}
      ELSE srv[p].n <= 1 /\ srv[p].stored = <<>>

(* tftpget and tftpput return, whatever is lost, repeated or foreign *)
Returns == <>(pc = "done")

(* "Retry up to TFTP_RETRIES times": where answers arrive before the timeout  *)
(* and files and sockets work, tftpput survives link.max lost or repeated     *)
(* datagrams, and tftpget succeeds when none is lost or repeated.             *)
Completes ==
    <>(\/ result \in {"OK", "crash"}
       \/ ~link.prompt \/ link.io
       \/ op = "get" /\ link.faults > 0)
=============================================================================
