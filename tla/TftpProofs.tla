----------------------------- MODULE TftpProofs -----------------------------
(***************************************************************************)
(* Theorems about Tftp: whatever the network does, a file of fewer blocks  *)
(* than there are block numbers is copied block by block and in order, and *)
(* OK means that all of it has arrived.  Type correctness, of files of any *)
(* length, comes first.                                                    *)
(***************************************************************************)
EXTENDS Tftp, TLAPS

-----------------------------------------------------------------------------
(* Numbers *)

(* Block numbers of a file of fewer than Mod blocks do not wrap around *)
LEMMA ModSmall ==
  ASSUME Blocks < Mod, NEW x \in 0 .. Mod - 1
  PROVE  x % Mod = x
  BY TftpConfig

(* A number of sixteen bits, or of as many as the model has *)
LEMMA ModRange ==
  ASSUME NEW x \in Nat
  PROVE  x % Mod \in 0 .. Mod - 1
  BY TftpConfig

-----------------------------------------------------------------------------
(* A fault is counted *)
LinkOK ==
    /\ link \in [prompt : BOOLEAN, io : BOOLEAN, max : Nat, faults : Nat]
    /\ link.faults <= link.max

(* What the network does to a transfer it does within its bound *)
LEMMA FaultOK ==
  ASSUME LinkOK, Fault \/ UNCHANGED link
  PROVE  LinkOK'
<1>1. CASE UNCHANGED link
  BY <1>1 DEF LinkOK
<1>2. CASE Fault
  <2>1. link.faults \in Nat /\ link.max \in Nat
    BY DEF LinkOK
  <2>2. link.faults + 1 \in Nat /\ link.faults + 1 <= link.max
    BY <1>2, <2>1 DEF Fault
  <2>3. link' = [link EXCEPT !.faults = link.faults + 1]
    BY <1>2 DEF Fault
  <2>4. link' \in [prompt : BOOLEAN, io : BOOLEAN, max : Nat, faults : Nat]
    BY <2>2, <2>3, Zenon DEF LinkOK
  <2>5. link'.faults = link.faults + 1 /\ link'.max = link.max
    BY <2>3 DEF LinkOK
  <2> QED
    BY <2>2, <2>4, <2>5 DEF LinkOK
<1> QED
  BY <1>1, <1>2

-----------------------------------------------------------------------------
(* Type correctness, for files of any length: the block number may wrap *)

(* Datagrams to the client and to the server, and a transfer of the server's *)
CMsg == [type : {"DATA", "ACK", "ERR", "TINY", "BADOP"}, host : {"server", "other"},
         port : Port, num : 0 .. Mod - 1, blk : 0 .. Blocks]
SMsg == [type : {"RRQ", "WRQ", "DATA", "ACK", "ERR"}, port : Port \cup {WellKnown},
         num : 0 .. Mod - 1, blk : 0 .. Blocks]
Transfer == [st : {"idle", "open", "closed"}, n : 0 .. Blocks, stored : Seq(1 .. Blocks)]

(* The retries are counted below their bounds, what goes to a transfer has  *)
(* its port, and DATA carries a block                                       *)
GetRanges ==
    /\ pc \in {"request", "recv", "ack", "done"}
    /\ pc \in {"request", "recv"} => retry < Retries
    /\ pc = "ack" => port \in Port
    /\ \A m \in toC : m.type = "DATA" => m.blk # 0
    /\ \A m \in toS : m.type \in {"RRQ", "ACK", "ERR"} /\ (m.type = "ACK" => m.port \in Port)
    /\ \A p \in Port : srv[p].st = "open" => srv[p].n # 0

PutRanges ==
    /\ pc \in {"request", "wrqack", "data", "rcvack", "done"}
    /\ pc # "done" => retry <= Retries
    /\ pc \in {"data", "rcvack"} => port \in Port
    /\ \A m \in toS : /\ m.type \in {"WRQ", "DATA", "ERR"}
                      /\ m.type = "DATA" => m.port \in Port /\ m.blk # 0

Ranges == TypeOK /\ (op = "get" => GetRanges) /\ (op = "put" => PutRanges)

(* A file with one more block is a file *)
LEMMA AppendType ==
  ASSUME NEW s \in Seq(1 .. Blocks), NEW b \in 1 .. Blocks
  PROVE  Append(s, b) \in Seq(1 .. Blocks)
  OBVIOUS

(* A transfer of the server's that is opened *)
LEMMA TransferOpens ==
  ASSUME NEW t \in Transfer, NEW n \in 0 .. Blocks
  PROVE  LET r == [t EXCEPT !.st = "open", !.n = n]
         IN  r \in Transfer /\ r.st = "open" /\ r.n = n /\ r.stored = t.stored
  BY Zenon DEF Transfer

(* A transfer of the server's that has a new block to send or to acknowledge *)
LEMMA TransferNext ==
  ASSUME NEW t \in Transfer, NEW n \in 0 .. Blocks
  PROVE  LET r == [t EXCEPT !.n = n]
         IN  r \in Transfer /\ r.st = t.st /\ r.n = n /\ r.stored = t.stored
  BY DEF Transfer

(* A transfer of the server's that stores one more block *)
LEMMA TransferStores ==
  ASSUME NEW t \in Transfer, NEW b \in 1 .. Blocks
  PROVE  LET r == [t EXCEPT !.stored = Append(t.stored, b)]
         IN  r \in Transfer /\ r.n = t.n /\ r.stored = Append(t.stored, b)
<1>1. t.stored \in Seq(1 .. Blocks)
  BY DEF Transfer
<1>2. Append(t.stored, b) \in Seq(1 .. Blocks)
  BY <1>1, AppendType
<1> QED
  BY <1>2, Zenon DEF Transfer

(* A transfer starts in range *)
LEMMA InitRanges == Init => Ranges
<1> SUFFICES ASSUME Init PROVE Ranges
  OBVIOUS
<1>1. TypeOK
  BY TftpConfig DEF Init, TypeOK, WellKnown, Place
<1> QED
  BY <1>1, TftpConfig DEF Init, Ranges, GetRanges, PutRanges

(* Datagrams as they are made *)
LEMMA MadeToClient ==
  ASSUME NEW type \in {"DATA", "ACK", "ERR", "TINY", "BADOP"}, NEW host \in {"server", "other"},
         NEW p \in Port, NEW num \in 0 .. Mod - 1, NEW blk \in 0 .. Blocks
  PROVE  /\ ToClient(type, host, p, num, blk) \in CMsg
         /\ ToClient(type, host, p, num, blk).type = type
         /\ ToClient(type, host, p, num, blk).blk = blk
  BY DEF ToClient, CMsg

(* The same for what goes to the server *)
LEMMA MadeToServer ==
  ASSUME NEW type \in {"RRQ", "WRQ", "DATA", "ACK", "ERR"}, NEW p \in Port \cup {WellKnown},
         NEW num \in 0 .. Mod - 1, NEW blk \in 0 .. Blocks
  PROVE  /\ ToServer(type, p, num, blk) \in SMsg
         /\ ToServer(type, p, num, blk).type = type
         /\ ToServer(type, p, num, blk).port = p
         /\ ToServer(type, p, num, blk).blk = blk
  BY DEF ToServer, SMsg

(* The error message of either function *)
LEMMA MadeError ==
  ASSUME NEW p \in Port \cup {WellKnown}
  PROVE  ToServer("ERR", p, 0, 0) \in SMsg /\ ToServer("ERR", p, 0, 0).type = "ERR"
<1>1. 0 \in 0 .. Mod - 1 /\ 0 \in 0 .. Blocks
  BY TftpConfig
<1> QED
  BY <1>1, MadeToServer

(* tftpget_cb keeps to the ranges *)
LEMMA GetRangesKept ==
  ASSUME Ranges, GetRequest \/ GetTimeout \/ GetReceive \/ GetAck
  PROVE  Ranges'
<1> USE DEF WellKnown
<1>0. /\ op = "get" /\ op' = "get" /\ TypeOK /\ GetRanges
      /\ toC \subseteq CMsg /\ toS \subseteq SMsg
  BY Zenon DEF Ranges, TypeOK, CMsg, SMsg, GetRequest, GetTimeout, GetReceive, GetAck
<1>1. CASE GetRequest
  <2>1. /\ toS' = toS \cup {ToServer("RRQ", WellKnown, 0, 0)}
        /\ port' = WellKnown /\ pc' = "recv" /\ pc = "request"
        /\ UNCHANGED <<op, link, blockno, retry, offset, tries, result, local, srv, toC>>
    BY <1>1 DEF GetRequest
  <2>2. /\ ToServer("RRQ", WellKnown, 0, 0) \in SMsg
        /\ ToServer("RRQ", WellKnown, 0, 0).type = "RRQ"
    BY MadeToServer, TftpConfig
  <2>3. TypeOK'
    BY <1>0, <2>1, <2>2 DEF TypeOK, SMsg, Place
  <2>4. GetRanges'
    BY <1>0, <2>1, <2>2 DEF GetRanges
  <2> QED
    BY <1>0, <2>3, <2>4 DEF Ranges
<1>2. CASE GetTimeout
  <2>1. TypeOK'
    BY <1>0, <1>2, TftpConfig DEF TypeOK, GetRanges, GetTimeout, TryAgain, Return, Place
  <2>2. GetRanges'
    BY <1>0, <1>2, TftpConfig DEF TypeOK, GetRanges, GetTimeout, TryAgain, Return
  <2> QED
    BY <1>0, <2>1, <2>2 DEF Ranges
<1>3. CASE GetReceive
  <2>1. PICK m \in toC : /\ Received(m)
                         /\ \/ GetStranger(m) \/ GetWrongPort(m)
                            \/ GetUnexpected(m) \/ GetData(m)
    BY <1>3 DEF GetReceive
  <2>2. /\ UNCHANGED <<op, offset, tries, srv>> /\ pc = "recv"
        /\ toC' \subseteq toC /\ m \in CMsg /\ m.port \in Port
    BY <1>0, <1>3, <2>1 DEF GetReceive, Received, CMsg
  <2>3. LinkOK'
    BY <1>0, <2>1, FaultOK DEF Received, TypeOK, LinkOK
  <2>4. CASE GetStranger(m) \/ GetWrongPort(m) \/ GetUnexpected(m)
    <3>1. /\ UNCHANGED <<blockno, port, local>>
          /\ \E r \in {retry, retry + 1} : TryAgain(r)
          /\ \A x \in toS' : x \in toS \/ x = ToServer("ERR", m.port, 0, 0)
      BY <2>4 DEF GetStranger, GetWrongPort, GetUnexpected
    <3>2. /\ ToServer("ERR", m.port, 0, 0) \in SMsg
          /\ ToServer("ERR", m.port, 0, 0).type = "ERR"
      BY <2>2, MadeError
    <3>3. PICK r \in {retry, retry + 1} : TryAgain(r)
      BY <3>1
    <3>4. retry' \in 0 .. Retries + 1 /\ pc' \in {"request", "recv", "done"}
            /\ result' \in {"none", "OK", "ERROR", "crash"}
            /\ (pc' = "done" <=> result' # "none")
            /\ (pc' # "done" => retry' < Retries)
      BY <1>0, <2>2, <3>3, TftpConfig DEF TypeOK, GetRanges, TryAgain, Return
    <3>5. TypeOK'
      BY <1>0, <2>2, <2>3, <3>1, <3>2, <3>4, Zenon DEF TypeOK, CMsg, SMsg, Place, LinkOK
    <3>6. GetRanges'
      BY <1>0, <2>2, <3>1, <3>2, <3>4 DEF GetRanges
    <3> QED
      BY <1>0, <3>5, <3>6 DEF Ranges
  <2>5. CASE GetData(m)
    <3>1. /\ UNCHANGED <<blockno, retry, toS>> /\ port' = m.port /\ m.type = "DATA"
          /\ \/ local' = Append(local, m.blk) /\ pc' = "ack" /\ UNCHANGED result
             \/ local' = local /\ pc' = "done" /\ result' = "ERROR"
      BY <2>5 DEF GetData, Return
    <3>2. m.blk \in 1 .. Blocks
      BY <1>0, <2>2, <3>1, TftpConfig DEF GetRanges, CMsg
    <3>3. local' \in Seq(1 .. Blocks)
      BY <1>0, <3>1, <3>2, AppendType, Zenon DEF TypeOK
    <3>4. TypeOK'
      BY <1>0, <2>2, <2>3, <3>1, <3>3, Zenon DEF TypeOK, CMsg, SMsg, Place, LinkOK
    <3>5. GetRanges'
      BY <1>0, <2>2, <3>1 DEF GetRanges
    <3> QED
      BY <1>0, <3>4, <3>5 DEF Ranges
  <2> QED
    BY <2>1, <2>4, <2>5
<1>4. CASE GetAck
  <2>1. /\ toS' = toS \cup {ToServer("ACK", port, blockno, 0)}
        /\ retry' = 0 /\ pc = "ack" /\ port \in Port /\ blockno \in 0 .. Mod - 1
        /\ \/ pc' = "done" /\ result' = "OK" /\ UNCHANGED blockno
           \/ blockno' = (blockno + 1) % Mod /\ pc' \in {"request", "recv"} /\ UNCHANGED result
        /\ UNCHANGED <<op, link, offset, tries, port, local, srv, toC>>
    BY <1>0, <1>4 DEF GetAck, Return, GetRanges, TypeOK
  <2>2. /\ ToServer("ACK", port, blockno, 0) \in SMsg
        /\ ToServer("ACK", port, blockno, 0).type = "ACK"
        /\ ToServer("ACK", port, blockno, 0).port = port
    BY <2>1, MadeToServer, TftpConfig
  <2>3. (blockno + 1) % Mod \in 0 .. Mod - 1
    BY <2>1, ModRange, TftpConfig
  <2>4. TypeOK'
    <3>1. retry' \in 0 .. Retries + 1 /\ blockno' \in 0 .. Mod - 1
      BY <2>1, <2>3, TftpConfig
    <3> QED
      BY <1>0, <2>1, <2>2, <3>1, Zenon DEF TypeOK, SMsg, Place
  <2>5. GetRanges'
    BY <1>0, <2>1, <2>2, TftpConfig DEF GetRanges
  <2> QED
    BY <1>0, <2>4, <2>5 DEF Ranges
<1> QED
  BY <1>1, <1>2, <1>3, <1>4

(* tftp_rcvack and its caller keep to the ranges when an ACK does not come *)
LEMMA NoAckRanges ==
  ASSUME TypeOK, PutRanges, pc \in {"wrqack", "rcvack"}, NoAck \/ PutAgain
  PROVE  /\ UNCHANGED <<blockno, offset>>
         /\ retry' \in 0 .. Retries + 1 /\ tries' \in 0 .. Retries - 1
         /\ result' \in {"none", "OK", "ERROR", "crash"}
         /\ pc' = "done" <=> result' # "none"
         /\ pc' \in {"request", "wrqack", "data", "rcvack", "done"}
         /\ pc' # "done" => retry' <= Retries
         /\ pc' \in {"data", "rcvack"} => pc = "rcvack"
<1>1. /\ retry \in 0 .. Retries + 1 /\ retry <= Retries /\ tries \in 0 .. Retries - 1
      /\ result = "none"
  BY DEF TypeOK, PutRanges
<1>2. CASE tries + 1 < Retries /\ tries' = tries + 1
           /\ UNCHANGED <<pc, blockno, retry, offset, result>>
  <2>1. tries' \in 0 .. Retries - 1
    BY <1>1, <1>2, TftpConfig
  <2> QED
    BY <1>1, <1>2, <2>1
<1>3. CASE PutAgain
  <2>1. /\ retry' = retry + 1 /\ UNCHANGED <<blockno, offset, tries>>
        /\ \/ pc' = "done" /\ result' = "ERROR"
           \/ /\ ~(retry + 1 > Retries) /\ UNCHANGED result
              /\ pc' = IF pc = "wrqack" THEN "request" ELSE "data"
    BY <1>3, Zenon DEF PutAgain, Return
  <2>2. retry' \in 0 .. Retries + 1 /\ (~(retry + 1 > Retries) => retry' <= Retries)
    BY <1>1, <2>1, TftpConfig
  <2> QED
    BY <1>1, <2>1, <2>2, Zenon
<1> QED
  BY <1>2, <1>3, Zenon DEF NoAck

(* tftpput_cb keeps to the ranges *)
LEMMA PutRangesKept ==
  ASSUME Ranges, PutRequest \/ PutData \/ PutTimeout \/ PutReceive
  PROVE  Ranges'
<1> USE DEF WellKnown
<1>0. /\ op = "put" /\ op' = "put" /\ TypeOK /\ PutRanges
      /\ toC \subseteq CMsg /\ toS \subseteq SMsg
  BY Zenon DEF Ranges, TypeOK, CMsg, SMsg, PutRequest, PutData, PutTimeout, PutReceive, Awaited
<1>1. CASE PutRequest \/ PutData
  <2>1. PICK d \in SMsg : /\ toS' = toS \cup {d}
                          /\ d.type \in {"WRQ", "DATA"}
                          /\ d.type = "DATA" => d.port \in Port /\ d.blk # 0
    <3>1. CASE PutRequest
      <4>1. /\ toS' = toS \cup {ToServer("WRQ", port, 0, 0)}
            /\ port \in Port \cup {WellKnown} /\ 0 \in 0 .. Mod - 1 /\ 0 \in 0 .. Blocks
        BY <1>0, <3>1, TftpConfig DEF PutRequest, TypeOK
      <4> QED
        BY <4>1, MadeToServer
    <3>2. CASE PutData
      <4>1. /\ toS' = toS \cup {ToServer("DATA", port, blockno, offset + 1)}
            /\ port \in Port /\ blockno \in 0 .. Mod - 1 /\ offset + 1 \in 1 .. Blocks
        BY <1>0, <3>2, TftpConfig DEF PutData, TypeOK, PutRanges
      <4>2. offset + 1 \in 0 .. Blocks /\ offset + 1 # 0
        BY <4>1, TftpConfig
      <4> QED
        BY <4>1, <4>2, MadeToServer
    <3> QED
      BY <1>1, <3>1, <3>2
  <2>2. /\ tries' = 0 /\ pc' \in {"wrqack", "rcvack"}
        /\ pc' = "rcvack" => pc = "data"
        /\ pc # "done"
        /\ UNCHANGED <<op, link, blockno, retry, offset, port, result, local, srv, toC>>
    BY <1>1 DEF PutRequest, PutData
  <2>3. toS' \subseteq SMsg
    BY <1>0, <2>1
  <2>4. tries' \in 0 .. Retries - 1 /\ (pc' = "done" <=> result' # "none") /\ pc' \in Place
    BY <1>0, <2>2, TftpConfig DEF TypeOK, Place
  <2>5. TypeOK'
    BY <1>0, <2>2, <2>3, <2>4 DEF TypeOK, SMsg
  <2>6. \A k \in toS' : /\ k.type \in {"WRQ", "DATA", "ERR"}
                        /\ k.type = "DATA" => k.port \in Port /\ k.blk # 0
    BY <1>0, <2>1 DEF PutRanges
  <2>7. PutRanges'
    BY <1>0, <2>2, <2>6 DEF PutRanges
  <2> QED
    BY <1>0, <2>5, <2>7 DEF Ranges
<1>2. CASE PutTimeout
  <2>1. /\ pc \in {"wrqack", "rcvack"} /\ NoAck
        /\ UNCHANGED <<op, link, port, local, srv, toC, toS>>
    BY <1>2 DEF PutTimeout, Awaited
  <2>2. TypeOK'
    BY <1>0, <2>1, NoAckRanges, Zenon DEF TypeOK, Place
  <2>3. PutRanges'
    BY <1>0, <2>1, NoAckRanges DEF PutRanges
  <2> QED
    BY <1>0, <2>2, <2>3 DEF Ranges
<1>3. CASE PutReceive
  <2>1. PICK m \in toC : /\ Received(m)
                         /\ \/ PutNotAck(m) \/ PutStranger(m) \/ PutBegins(m)
                            \/ PutAcked(m) \/ PutOtherAck(m)
    BY <1>3 DEF PutReceive
  <2>2. /\ UNCHANGED <<op, local, srv>> /\ pc \in {"wrqack", "rcvack"}
        /\ toC' \subseteq toC /\ m.port \in Port
    BY <1>0, <1>3, <2>1 DEF PutReceive, Awaited, Received, CMsg
  <2>3. LinkOK'
    BY <1>0, <2>1, FaultOK DEF Received, TypeOK, LinkOK
  <2>4. PortOf(m) \in Port
    BY <1>0, <2>2 DEF PortOf, TypeOK
  <2>5. /\ port' \in Port \cup {WellKnown}
        /\ port \in Port => port' \in Port
        /\ \A x \in toS' : x \in toS \/ x = ToServer("ERR", port', 0, 0)
    BY <1>0, <2>1, <2>4, Zenon
    DEF TypeOK, PutNotAck, PutStranger, PutBegins, PutAcked, PutOtherAck
  <2>6. ToServer("ERR", port', 0, 0) \in SMsg /\ ToServer("ERR", port', 0, 0).type = "ERR"
    BY <2>5, MadeError
  <2>7. /\ blockno' \in 0 .. Mod - 1 /\ offset' \in 0 .. Blocks - 1
        /\ retry' \in 0 .. Retries + 1 /\ tries' \in 0 .. Retries - 1
        /\ result' \in {"none", "OK", "ERROR", "crash"}
        /\ pc' = "done" <=> result' # "none"
        /\ pc' \in {"request", "wrqack", "data", "rcvack", "done"}
        /\ pc' # "done" => retry' <= Retries
        /\ pc' \in {"data", "rcvack"} => port' \in Port
    <3>1. CASE PutNotAck(m) \/ PutOtherAck(m)
      <4>1. NoAck \/ PutAgain
        BY <3>1 DEF PutNotAck, PutOtherAck
      <4> QED
        BY <1>0, <2>2, <2>5, <4>1, NoAckRanges, Zenon DEF TypeOK, PutRanges
    <3>2. CASE PutStranger(m)
      BY <1>0, <2>2, <2>5, <3>2 DEF PutStranger, TypeOK, PutRanges
    <3>3. CASE PutBegins(m)
      BY <1>0, <2>2, <2>4, <3>3, TftpConfig DEF PutBegins, Return, TypeOK, PutRanges
    <3>4. CASE PutAcked(m)
      <4>1. blockno \in 0 .. Mod - 1 /\ offset \in 0 .. Blocks - 1
        BY <1>0 DEF TypeOK
      <4>2. blockno + 1 \in Nat
        BY <4>1, TftpConfig
      <4>3. (blockno + 1) % Mod \in 0 .. Mod - 1
        BY <4>2, ModRange
      <4>4. offset + 1 # Blocks => offset + 1 \in 0 .. Blocks - 1
        BY <4>1, TftpConfig
      <4>5. blockno' \in 0 .. Mod - 1 /\ offset' \in 0 .. Blocks - 1
        BY <3>4, <4>1, <4>3, <4>4 DEF PutAcked
      <4>6. /\ UNCHANGED tries /\ pc = "rcvack"
            /\ \/ pc' = "done" /\ result' = "OK" /\ UNCHANGED retry
               \/ pc' = "data" /\ UNCHANGED result /\ retry' = 0
        BY <3>4 DEF PutAcked, Return
      <4>7. retry \in 0 .. Retries + 1 /\ tries' \in 0 .. Retries - 1
        BY <1>0, <4>6 DEF TypeOK
      <4>8. result = "none" /\ port' \in Port
        BY <1>0, <2>5, <4>6, Zenon DEF TypeOK, PutRanges
      <4>9. 0 \in 0 .. Retries + 1 /\ 0 <= Retries
        BY TftpConfig
      <4> QED
        BY <4>5, <4>6, <4>7, <4>8, <4>9, Zenon
    <3> QED
      BY <2>1, <3>1, <3>2, <3>3, <3>4
  <2>8. TypeOK'
    BY <1>0, <2>2, <2>3, <2>5, <2>6, <2>7, Zenon DEF TypeOK, CMsg, SMsg, Place, LinkOK
  <2>9. PutRanges'
    BY <1>0, <2>5, <2>6, <2>7 DEF PutRanges
  <2> QED
    BY <1>0, <2>8, <2>9 DEF Ranges
<1> QED
  BY <1>1, <1>2, <1>3

(* The server keeps to the ranges *)
LEMMA ServerRangesKept ==
  ASSUME Ranges, NEW m \in toS, ServerReceive(m)
  PROVE  Ranges'
<1> USE DEF WellKnown
<1>0. /\ TypeOK /\ toC \subseteq CMsg /\ toS' \subseteq toS
      /\ UNCHANGED <<op, pc, blockno, retry, offset, tries, port, result, local>>
      /\ LinkOK'
  <2>1. LinkOK'
    BY FaultOK DEF ServerReceive, Ranges, TypeOK, LinkOK
  <2> QED
    BY <2>1, Zenon DEF Ranges, TypeOK, CMsg, ServerReceive, client
<1>1. /\ m.type \in {"RRQ", "WRQ", "DATA", "ACK", "ERR"} /\ m.port \in Port \cup {WellKnown}
      /\ m.blk \in 0 .. Blocks
  BY <1>0 DEF TypeOK
<1>2. /\ op = "get" => GetRanges
      /\ op = "put" => PutRanges
      /\ op \in {"get", "put"}
  BY DEF Ranges, TypeOK
<1>3. /\ m.type \in {"DATA", "ACK"} => m.port \in Port
      /\ m.type = "DATA" => op = "put" /\ m.blk \in 1 .. Blocks
      /\ m.type \in {"ACK", "RRQ"} => op = "get"
      /\ m.type = "WRQ" => op = "put"
  BY <1>1, <1>2, TftpConfig DEF GetRanges, PutRanges
<1>4. srv \in [Port -> Transfer]
  BY <1>0 DEF TypeOK, Transfer
<1> SUFFICES /\ srv' \in [Port -> Transfer]
             /\ toC' \subseteq CMsg
             /\ op = "get" => /\ \A d \in toC' : d.type = "DATA" => d.blk # 0
                             /\ \A p \in Port : srv'[p].st = "open" => srv'[p].n # 0
  <2>1. TypeOK'
    BY <1>0, Zenon DEF TypeOK, Transfer, CMsg, LinkOK
  <2>2. op = "get" => GetRanges'
    BY <1>0, <1>2 DEF GetRanges
  <2>3. op = "put" => PutRanges'
    BY <1>0, <1>2 DEF PutRanges
  <2> QED
    BY <1>0, <2>1, <2>2, <2>3 DEF Ranges
<1>5. CASE UNCHANGED <<srv, toC>>
  BY <1>0, <1>2, <1>4, <1>5 DEF GetRanges
<1>6. CASE Listen(m) /\ ~UNCHANGED <<srv, toC>>
  <2>1. PICK p \in Port :
          /\ srv' = [srv EXCEPT ![p] = [@ EXCEPT !.st = "open",
                                                !.n = IF m.type = "RRQ" THEN 1 ELSE 0]]
          /\ toC' = toC \cup {IF m.type = "RRQ" THEN Data(p, 1) ELSE Ack(p, 0)}
    BY <1>6, Zenon DEF Listen
  <2>2. srv[p] \in Transfer /\ 0 \in 0 .. Blocks /\ 1 \in 0 .. Blocks
    BY <1>4, TftpConfig
  <2>3. \A n \in 0 .. Blocks :
          /\ [srv[p] EXCEPT !.st = "open", !.n = n] \in Transfer
          /\ [srv[p] EXCEPT !.st = "open", !.n = n].n = n
    BY <2>2, Zenon DEF Transfer
  <2>4. /\ srv' \in [Port -> Transfer]
        /\ srv'[p].n = IF m.type = "RRQ" THEN 1 ELSE 0
        /\ \A q \in Port : q # p => srv'[q] = srv[q]
    BY <1>4, <2>1, <2>2, <2>3, Zenon
  <2>5. 1 % Mod \in 0 .. Mod - 1 /\ 0 % Mod \in 0 .. Mod - 1
    BY ModRange
  <2>6. /\ Data(p, 1) \in CMsg /\ Data(p, 1).blk = 1
        /\ Ack(p, 0) \in CMsg /\ Ack(p, 0).type = "ACK"
    BY <2>2, <2>5, MadeToClient DEF Data, Ack
  <2>7. m.type \in {"RRQ", "WRQ"}
    BY <1>6, Zenon DEF Listen
  <2> QED
    BY <1>0, <1>2, <1>3, <2>1, <2>4, <2>6, <2>7 DEF GetRanges
<1>7. CASE SendNext(m)
  <2>1. m.type = "ACK" /\ m.port \in Port /\ srv[m.port].st = "open"
    BY <1>3, <1>7 DEF SendNext, Opened
  <2>2. srv[m.port] \in Transfer /\ srv[m.port].n \in 0 .. Blocks
    BY <1>4, <2>1 DEF Transfer
  <2>3. CASE srv[m.port].n + 1 > Blocks
    <3>1. srv' = [srv EXCEPT ![m.port].st = "closed"] /\ toC' = toC
      BY <1>7, <2>3 DEF SendNext
    <3>2. /\ [srv[m.port] EXCEPT !.st = "closed"] \in Transfer
          /\ [srv[m.port] EXCEPT !.st = "closed"].st = "closed"
      BY <2>2 DEF Transfer
    <3>3. /\ srv' \in [Port -> Transfer] /\ srv'[m.port].st = "closed"
          /\ \A q \in Port : q # m.port => srv'[q] = srv[q]
      BY <1>4, <2>1, <3>1, <3>2
    <3> QED
      BY <1>0, <1>2, <3>1, <3>3 DEF GetRanges
  <2>4. CASE ~(srv[m.port].n + 1 > Blocks)
    <3> DEFINE n == srv[m.port].n + 1
    <3>1. srv' = [srv EXCEPT ![m.port].n = n] /\ toC' = toC \cup {Data(m.port, n)}
      BY <1>7, <2>4 DEF SendNext
    <3>2. n \in 0 .. Blocks /\ n # 0 /\ n \in Nat
      BY <2>2, <2>4, TftpConfig
    <3> HIDE DEF n
    <3>3. /\ [srv[m.port] EXCEPT !.n = n] \in Transfer
          /\ [srv[m.port] EXCEPT !.n = n].n = n
      BY <2>2, <3>2 DEF Transfer
    <3>4. /\ srv' \in [Port -> Transfer] /\ srv'[m.port].n = n
          /\ \A q \in Port : q # m.port => srv'[q] = srv[q]
      BY <1>4, <2>1, <3>1, <3>3
    <3>5. n % Mod \in 0 .. Mod - 1
      BY <3>2, ModRange
    <3>6. Data(m.port, n) \in CMsg /\ Data(m.port, n).blk = n
      BY <2>1, <3>2, <3>5, MadeToClient DEF Data
    <3> QED
      BY <1>0, <1>2, <3>1, <3>2, <3>4, <3>6 DEF GetRanges
  <2> QED
    BY <2>3, <2>4
<1>8. CASE Store(m) /\ ~UNCHANGED <<srv, toC>>
  <2>1. m.type = "DATA" /\ m.port \in Port /\ op = "put" /\ m.blk \in 1 .. Blocks
    BY <1>3, <1>8 DEF Store
  <2>2. srv[m.port] \in Transfer /\ srv[m.port].stored \in Seq(1 .. Blocks)
    BY <1>4, <2>1 DEF Transfer
  <2> DEFINE n == Len(srv[m.port].stored)
  <2>3. /\ \/ srv' = [srv EXCEPT ![m.port].stored = Append(@, m.blk)]
           \/ srv' = srv
        /\ \E k \in {n, n + 1} : toC' = toC \cup {Ack(m.port, k)}
    BY <1>8 DEF Store
  <2>4. n \in Nat /\ n + 1 \in Nat
    BY <2>2
  <2> HIDE DEF n
  <2>5. \A k \in {n, n + 1} : k % Mod \in 0 .. Mod - 1
    BY <2>4, ModRange
  <2>6. \A k \in {n, n + 1} : Ack(m.port, k) \in CMsg
    <3>1. 0 \in 0 .. Blocks
      BY TftpConfig
    <3> QED
      BY <2>1, <2>5, <3>1, MadeToClient DEF Ack
  <2>7. Append(srv[m.port].stored, m.blk) \in Seq(1 .. Blocks)
    BY <2>1, <2>2, AppendType
  <2>8. [srv[m.port] EXCEPT !.stored = Append(@, m.blk)] \in Transfer
    BY <2>2, <2>7, Zenon DEF Transfer
  <2>9. srv' \in [Port -> Transfer]
    BY <1>4, <2>1, <2>3, <2>8
  <2> QED
    BY <1>0, <2>1, <2>3, <2>6, <2>9
<1>9. CASE Abort(m)
  <2>1. m.port \in Port /\ srv' = [srv EXCEPT ![m.port].st = "closed"] /\ toC' = toC
    BY <1>9 DEF Abort
  <2>2. /\ [srv[m.port] EXCEPT !.st = "closed"] \in Transfer
        /\ [srv[m.port] EXCEPT !.st = "closed"].st = "closed"
    BY <1>4, <2>1, Zenon DEF Transfer
  <2>3. /\ srv' \in [Port -> Transfer] /\ srv'[m.port].st = "closed"
        /\ \A q \in Port : q # m.port => srv'[q] = srv[q]
    BY <1>4, <2>1, <2>2
  <2> QED
    BY <1>0, <1>2, <2>1, <2>3 DEF GetRanges
<1> QED
  BY <1>5, <1>6, <1>7, <1>8, <1>9 DEF ServerReceive, Ignore

(* What happens to the datagrams keeps to the ranges *)
LEMMA NetworkRangesKept ==
  ASSUME Ranges,
         \/ SendFails
         \/ \E p \in Port : Resend(p) \/ GiveUp(p)
         \/ Lose
         \/ Disturb
  PROVE  Ranges'
<1> USE DEF WellKnown
<1>0. /\ TypeOK /\ toC \subseteq CMsg /\ op \in {"get", "put"}
      /\ op = "get" => GetRanges
      /\ op = "put" => PutRanges
  BY Zenon DEF Ranges, TypeOK, CMsg
<1>1. CASE SendFails
  <2>1. /\ pc' = "done" /\ result' = "ERROR"
        /\ UNCHANGED <<op, link, blockno, retry, offset, tries, port, local, srv, toC, toS>>
    BY <1>1 DEF SendFails, Return
  <2>2. TypeOK'
    BY <1>0, <2>1 DEF TypeOK, Place
  <2>3. (op = "get" => GetRanges') /\ (op = "put" => PutRanges')
    BY <1>0, <2>1 DEF GetRanges, PutRanges
  <2> QED
    BY <2>1, <2>2, <2>3 DEF Ranges
<1>2. ASSUME NEW p \in Port, Resend(p)
      PROVE  Ranges'
  <2>1. /\ op = "get" /\ srv[p].st = "open"
        /\ toC' = toC \cup {Data(p, srv[p].n)}
        /\ UNCHANGED <<op, link, pc, blockno, retry, offset, tries, port, result, local>>
        /\ UNCHANGED <<srv, toS>>
    BY <1>2 DEF Resend, Opened, client
  <2>2. srv[p].n \in 0 .. Blocks /\ srv[p].n # 0
    BY <1>0, <2>1 DEF TypeOK, GetRanges
  <2>3. srv[p].n % Mod \in 0 .. Mod - 1
    BY <2>2, ModRange, TftpConfig
  <2>4. Data(p, srv[p].n) \in CMsg /\ Data(p, srv[p].n).blk = srv[p].n
    BY <2>2, <2>3, MadeToClient DEF Data
  <2>5. TypeOK'
    BY <1>0, <2>1, <2>4, Zenon DEF TypeOK, CMsg
  <2>6. GetRanges'
    BY <1>0, <2>1, <2>2, <2>4, Zenon DEF GetRanges
  <2> QED
    BY <2>1, <2>5, <2>6 DEF Ranges
<1>3. ASSUME NEW p \in Port, GiveUp(p)
      PROVE  Ranges'
  <2>1. /\ srv' = [srv EXCEPT ![p].st = "closed"]
        /\ UNCHANGED <<op, link, pc, blockno, retry, offset, tries, port, result, local>>
        /\ UNCHANGED <<toC, toS>>
    BY <1>3 DEF GiveUp, client
  <2>2. TypeOK'
    BY <1>0, <2>1, Zenon DEF TypeOK
  <2>3. (op = "get" => GetRanges') /\ (op = "put" => PutRanges')
    BY <1>0, <2>1 DEF GetRanges, PutRanges, TypeOK
  <2> QED
    BY <2>1, <2>2, <2>3 DEF Ranges
<1>4. CASE Lose
  <2>1. /\ toC' \subseteq toC /\ toS' \subseteq toS
        /\ UNCHANGED <<op, pc, blockno, retry, offset, tries, port, result, local, srv>>
    BY <1>4 DEF Lose, client
  <2>2. LinkOK'
    BY <1>0, <1>4, FaultOK DEF Lose, TypeOK, LinkOK
  <2>3. TypeOK'
    BY <1>0, <2>1, <2>2, Zenon DEF TypeOK, LinkOK
  <2>4. (op = "get" => GetRanges') /\ (op = "put" => PutRanges')
    BY <1>0, <2>1 DEF GetRanges, PutRanges
  <2> QED
    BY <2>1, <2>3, <2>4 DEF Ranges
<1>5. CASE Disturb
  <2>1. PICK m \in Foreign : toC' = toC \cup {m}
    BY <1>5 DEF Disturb
  <2>2. UNCHANGED <<op, pc, blockno, retry, offset, tries, port, result, local, srv, toS>>
    BY <1>5 DEF Disturb, client
  <2>3. m \in CMsg /\ m.type # "DATA"
    <3>1. 0 \in 0 .. Mod - 1 /\ 0 \in 0 .. Blocks
      BY TftpConfig
    <3> QED
      BY <2>1, <3>1, MadeToClient DEF Foreign
  <2>4. LinkOK'
    BY <1>0, <1>5, FaultOK DEF Disturb, TypeOK, LinkOK
  <2>5. TypeOK'
    BY <1>0, <2>1, <2>2, <2>3, <2>4, Zenon DEF TypeOK, CMsg, LinkOK
  <2>6. (op = "get" => GetRanges') /\ (op = "put" => PutRanges')
    BY <1>0, <2>1, <2>2, <2>3, Zenon DEF GetRanges, PutRanges
  <2> QED
    BY <2>2, <2>5, <2>6 DEF Ranges
<1> QED
  BY <1>1, <1>2, <1>3, <1>4, <1>5

(* tftpget_cb and tftpput_cb keep the block number in its 16 bits, the       *)
(* retries within TFTP_RETRIES and the offset within the file, and write or  *)
(* send nothing but blocks of the file, for files of any length: also those  *)
(* so long that block numbers wrap around.                                   *)
THEOREM TypeCorrect == Spec => []TypeOK
<1>1. Init => Ranges
  BY InitRanges
<1>2. Ranges /\ [Next]_vars => Ranges'
  <2> SUFFICES ASSUME Ranges, [Next]_vars PROVE Ranges'
    OBVIOUS
  <2>1. CASE UNCHANGED vars
    BY <2>1, Zenon DEF Ranges, TypeOK, GetRanges, PutRanges, vars, client
  <2>2. CASE ClientStep
    BY <2>2, GetRangesKept, PutRangesKept DEF ClientStep
  <2>3. CASE \E m \in toS : ServerReceive(m)
    BY <2>3, ServerRangesKept
  <2> QED
    BY <2>1, <2>2, <2>3, NetworkRangesKept DEF Next
<1>3. Ranges => TypeOK
  BY DEF Ranges
<1> QED
  BY <1>1, <1>2, <1>3, PTL DEF Spec

-----------------------------------------------------------------------------
(* What is written so far is the beginning of the file *)
Prefix(s) == s \in Seq(Nat) /\ Len(s) <= Blocks /\ \A i \in 1 .. Len(s) : s[i] = i

(* DATA on its way carries the number of its block, which its transfer has   *)
(* sent, and ACKs on their way are for blocks that were written              *)
GetWire ==
    /\ \A m \in toC : m.type = "DATA" =>
         /\ m.host = "server" /\ m.num = m.blk
         /\ m.blk \in 1 .. srv[m.port].n
    /\ \A m \in toS :
         /\ m.type \in {"RRQ", "ACK", "ERR"}
         /\ m.type = "ACK" => m.port = port /\ port \in Port /\ m.num \in 1 .. Len(local)
    /\ \A p \in Port : srv[p].stored = <<>> /\ (srv[p].st = "idle" <=> srv[p].n = 0)

GetClient ==
    /\ Prefix(local)
    /\ offset = 0
    /\ pc \in {"request", "recv", "ack", "done"}
    /\ pc = "request" => blockno = 1
    /\ pc \in {"request", "recv"} =>
         blockno = Len(local) + 1 /\ Len(local) < Blocks /\ retry < Retries
    /\ pc = "ack" => blockno = Len(local) /\ blockno > 0 /\ port \in Port
    /\ pc = "recv" /\ local # <<>> => port \in Port
    /\ port = WellKnown => local = <<>>
    /\ result = "OK" => Len(local) = Blocks

PutWire ==
    /\ \A m \in toC : m.type = "ACK" /\ m.host = "server" =>
         m.num \in 0 .. Len(srv[m.port].stored)
    /\ \A m \in toS :
         /\ m.type \in {"WRQ", "DATA", "ERR"}
         /\ m.type = "DATA" =>
              /\ m.port = port /\ port \in Port
              /\ m.num = m.blk /\ m.blk \in 1 .. offset + 1
    /\ \A p \in Port : Prefix(srv[p].stored) /\ srv[p].n = 0

PutClient ==
    /\ local = <<>>
    /\ blockno = offset + 1
    /\ pc \in {"request", "wrqack", "data", "rcvack", "done"}
    /\ pc \in {"request", "wrqack"} =>
         /\ offset = 0
         /\ \A p \in Port : srv[p].stored = <<>>
         /\ \A m \in toS : m.type # "DATA"
    /\ pc \in {"data", "rcvack"} => port \in Port
    /\ pc # "done" => retry <= Retries
    /\ result = "OK" => port \in Port /\ Len(srv[port].stored) = Blocks

GetInv == GetClient /\ GetWire
PutInv == PutClient /\ PutWire

IInv == TypeOK /\ LockStep /\ (op = "get" => GetInv) /\ (op = "put" => PutInv)

-----------------------------------------------------------------------------
(* Sequences *)

(* Nothing written is a prefix of the file *)
LEMMA EmptyPrefix == Prefix(<<>>)
  BY TftpConfig DEF Prefix

(* A prefix and the block after it are a prefix *)
LEMMA LongerPrefix ==
  ASSUME NEW s, Prefix(s), Len(s) < Blocks
  PROVE  /\ Prefix(Append(s, Len(s) + 1))
         /\ Len(Append(s, Len(s) + 1)) = Len(s) + 1
         /\ Append(s, Len(s) + 1) # <<>>
         /\ Append(s, Len(s) + 1)[Len(s) + 1] = Len(s) + 1
  BY TftpConfig DEF Prefix

-----------------------------------------------------------------------------
(* A transfer starts with the invariant *)
LEMMA InitInv == Init => IInv
<1> SUFFICES ASSUME Init PROVE IInv
  OBVIOUS
<1>1. TypeOK
  BY TftpConfig DEF Init, TypeOK, WellKnown, Place
<1>2. LockStep
  BY TftpConfig DEF Init, LockStep, WellKnown
<1>3. GetInv
  BY EmptyPrefix, TftpConfig DEF Init, GetInv, GetClient, GetWire, WellKnown
<1>4. op = "put" => PutInv
  BY EmptyPrefix, TftpConfig DEF Init, PutInv, PutClient, PutWire, WellKnown
<1> QED
  BY <1>1, <1>2, <1>3, <1>4 DEF IInv

-----------------------------------------------------------------------------
(* tftpget_cb *)

(* tftpget sends the RRQ *)
LEMMA GetRequestInv ==
  ASSUME Blocks < Mod, IInv, GetRequest
  PROVE  IInv'
<1> USE DEF WellKnown
<1>0. local = <<>> /\ op = "get"
  BY DEF IInv, GetInv, GetClient, GetRequest, Prefix
<1>1. TypeOK'
  BY TftpConfig DEF IInv, TypeOK, GetRequest, ToServer, Place
<1>2. LockStep'
  BY <1>0, TftpConfig DEF IInv, TypeOK, LockStep, GetRequest, GetInv, GetWire
<1>3. GetClient'
  BY <1>0, TftpConfig DEF IInv, TypeOK, GetInv, GetClient, GetRequest
<1>4. GetWire'
  BY <1>0, TftpConfig DEF IInv, TypeOK, GetInv, GetWire, GetRequest, ToServer
<1> QED
  BY <1>0, <1>1, <1>2, <1>3, <1>4 DEF IInv, GetInv, GetRequest

(* tftpget waits in vain: the retry is counted *)
LEMMA GetTimeoutInv ==
  ASSUME Blocks < Mod, IInv, GetTimeout
  PROVE  IInv'
<1> USE DEF WellKnown
<1>0. op = "get" /\ retry < Retries
  BY DEF GetTimeout, IInv, GetInv, GetClient
<1>1. TypeOK'
  BY <1>0, TftpConfig DEF IInv, TypeOK, GetTimeout, TryAgain, Return, Place
<1>2. LockStep'
  BY <1>0, TftpConfig DEF IInv, TypeOK, LockStep, GetTimeout
<1>3. GetClient'
  BY <1>0, TftpConfig DEF IInv, TypeOK, GetInv, GetClient, GetTimeout, TryAgain, Return
<1>4. GetWire'
  BY <1>0, TftpConfig DEF IInv, TypeOK, GetInv, GetWire, GetTimeout
<1> QED
  BY <1>0, <1>1, <1>2, <1>3, <1>4 DEF IInv, GetInv, GetTimeout

(* What tftpget_cb does with a packet *)
GetTakes(m) ==
    /\ op = "get" /\ pc = "recv"
    /\ m \in toC
    /\ Received(m)
    /\ GetStranger(m) \/ GetWrongPort(m) \/ GetUnexpected(m)
    /\ UNCHANGED <<op, offset, tries, srv>>

(* tftpget receives what it does not want: an error, a stranger, another block *)
LEMMA GetRejectInv ==
  ASSUME Blocks < Mod, IInv, NEW m, GetTakes(m)
  PROVE  IInv'
<1> USE DEF WellKnown
<1>0. /\ op = "get" /\ op' = "get" /\ m \in toC /\ pc = "recv" /\ retry < Retries
      /\ toC' \subseteq toC
      /\ UNCHANGED <<blockno, port, local, offset, tries, srv>>
      /\ \E r \in {retry, retry + 1} : TryAgain(r)
      /\ \A x \in toS' : x \in toS \/ x = ToServer("ERR", m.port, 0, 0)
  BY DEF GetTakes, Received, Fault, GetStranger, GetWrongPort, GetUnexpected,
         IInv, GetInv, GetClient
<1>1. TypeOK'
  <2>1. LinkOK'
    BY FaultOK DEF GetTakes, Received, IInv, TypeOK, LinkOK
  <2>2. m.port \in Port
    BY <1>0 DEF IInv, TypeOK
  <2>3. toS' \subseteq [type : {"RRQ", "WRQ", "DATA", "ACK", "ERR"},
                        port : Port \cup {WellKnown},
                        num : 0 .. Mod - 1, blk : 0 .. Blocks]
    BY <1>0, <2>2, TftpConfig DEF IInv, TypeOK, ToServer
  <2>4. PICK r \in {retry, retry + 1} : TryAgain(r)
    BY <1>0
  <2>5. retry' \in 0 .. Retries + 1 /\ pc' \in Place
          /\ result' \in {"none", "OK", "ERROR", "crash"}
          /\ (pc' = "done" <=> result' # "none")
    BY <1>0, <2>4, TftpConfig DEF IInv, TypeOK, TryAgain, Return, Place
  <2> QED
    BY <1>0, <2>1, <2>3, <2>5, Zenon DEF IInv, TypeOK, LinkOK
<1>2. LockStep'
  BY <1>0 DEF IInv, LockStep
<1>3. GetClient'
  <2>1. PICK r \in {retry, retry + 1} : TryAgain(r)
    BY <1>0, Zenon
  <2>2. retry < Retries /\ retry \in 0 .. Retries + 1
    BY <1>0, Zenon DEF IInv, TypeOK, GetInv, GetClient
  <2>3. r # Retries => r < Retries
    BY <2>1, <2>2, TftpConfig
  <2> QED
    BY <1>0, <2>1, <2>3, Zenon DEF IInv, GetInv, GetClient, TryAgain, Return
<1>4. GetWire'
  BY <1>0 DEF IInv, GetInv, GetWire, ToServer
<1> QED
  BY <1>0, <1>1, <1>2, <1>3, <1>4 DEF IInv, GetInv

(* tftpget writes the block it waits for and knows its number from then on *)
LEMMA GetDataInv ==
  ASSUME Blocks < Mod, IInv, op = "get", pc = "recv",
         NEW m \in toC, Received(m), GetData(m), UNCHANGED <<op, offset, tries, srv>>
  PROVE  IInv'
<1> USE DEF WellKnown
<1>1. /\ m.port \in Port
      /\ m.blk = Len(local) + 1 /\ m.blk = blockno
      /\ m.blk \in 1 .. Blocks
      /\ srv[m.port].n = Len(local) + 1
      /\ Len(local) < Blocks /\ Prefix(local) /\ local \in Seq(1 .. Blocks)
      /\ port # WellKnown => port = m.port
  <2>1. /\ m.port \in Port /\ m.blk \in 0 .. Blocks
        /\ m.num = blockno /\ m.type = "DATA" /\ port \in {WellKnown, m.port}
        /\ local \in Seq(1 .. Blocks)
        /\ srv[m.port].n \in 0 .. Blocks
    BY DEF GetData, FromServer, IInv, TypeOK
  <2>2. /\ m.num = m.blk /\ m.blk \in 1 .. srv[m.port].n
        /\ blockno = Len(local) + 1 /\ Len(local) < Blocks /\ Prefix(local)
        /\ port = WellKnown => local = <<>>
    BY <2>1 DEF IInv, GetInv, GetClient, GetWire
  <2>3. m.blk = blockno /\ m.blk = Len(local) + 1
    BY <2>1, <2>2, Zenon
  <2>4. srv[m.port].n = Len(local) + 1
    <3>0. Len(local) \in Nat /\ srv[m.port].n \in Nat
      BY <2>1
    <3>1. CASE port = WellKnown
      <4>1. srv[m.port].n <= 1
        BY <2>1, <3>1, TftpConfig, Zenon DEF IInv, LockStep
      <4>2. Len(local) = 0
        BY <2>2, <3>1
      <4> QED
        BY <2>2, <3>0, <4>1, <4>2
    <3>2. CASE port = m.port
      <4>1. srv[m.port].n - Len(local) \in {0, 1}
        BY <2>1, <3>2 DEF IInv, LockStep
      <4>2. Len(local) + 1 \in 1 .. srv[m.port].n
        BY <2>2, <2>3
      <4> QED
        BY <3>0, <4>1, <4>2
    <3> QED
      BY <2>1, <3>1, <3>2
  <2>5. m.blk \in 1 .. Blocks
    BY <2>1, <2>2, TftpConfig
  <2> QED
    BY <2>1, <2>2, <2>3, <2>4, <2>5
<1>2. /\ toC' \subseteq toC /\ port' = m.port
      /\ UNCHANGED <<op, blockno, retry, offset, tries, srv, toS>>
      /\ \/ local' = Append(local, Len(local) + 1) /\ pc' = "ack" /\ result' = result
         \/ local' = local /\ pc' = "done" /\ result' = "ERROR"
  BY <1>1 DEF GetData, Received, Fault, Return
<1>3. /\ Prefix(local') /\ local' \in Seq(1 .. Blocks)
      /\ Len(local') \in {Len(local), Len(local) + 1}
      /\ pc' = "ack" => Len(local') = Len(local) + 1
  <2>1. Prefix(Append(local, Len(local) + 1))
          /\ Len(Append(local, Len(local) + 1)) = Len(local) + 1
    BY <1>1, LongerPrefix
  <2>2. Append(local, Len(local) + 1) \in Seq(1 .. Blocks)
    BY <1>1, AppendType
  <2> QED
    BY <1>1, <1>2, <2>1, <2>2, Zenon
<1>4. TypeOK'
  <2>1. LinkOK'
    BY FaultOK DEF Received, IInv, TypeOK, LinkOK
  <2> QED
    BY <1>1, <1>2, <1>3, <2>1, Zenon DEF IInv, TypeOK, Place, LinkOK
<1>5. LockStep'
  <2> SUFFICES ASSUME NEW p \in Port
               PROVE  IF p = port' THEN srv[p].n - Len(local') \in {0, 1}
                      ELSE srv[p].n <= 1 /\ srv[p].stored = <<>>
    BY <1>2 DEF LockStep
  <2>1. CASE p = m.port
    BY <1>1, <1>2, <1>3, <2>1 DEF Prefix
  <2>2. CASE p # m.port
    BY <1>1, <1>2, <2>2, TftpConfig DEF IInv, LockStep
  <2> QED
    BY <2>1, <2>2
<1>6. GetClient'
  BY <1>1, <1>2, <1>3, TftpConfig DEF IInv, TypeOK, GetInv, GetClient
<1>7. GetWire'
  <2>1. Len(local) \in Nat /\ Len(local') \in Nat /\ Len(local') >= Len(local)
    BY <1>1, <1>3 DEF Prefix
  <2>2. ASSUME NEW k \in toS', k.type = "ACK"
        PROVE  k.port = port' /\ port' \in Port /\ k.num \in 1 .. Len(local')
    BY <1>1, <1>2, <2>1, <2>2, TftpConfig DEF IInv, GetInv, GetWire
  <2> QED
    BY <1>2, <2>2 DEF IInv, GetInv, GetWire
<1> QED
  BY <1>2, <1>4, <1>5, <1>6, <1>7 DEF IInv, GetInv

(* tftpget acknowledges the block it has written, and ends or waits for the next *)
LEMMA GetAckInv ==
  ASSUME Blocks < Mod, IInv, GetAck
  PROVE  IInv'
<1> USE DEF WellKnown
<1>1. /\ op = "get" /\ op' = "get" /\ port \in Port /\ blockno = Len(local)
      /\ Len(local) \in 1 .. Blocks /\ local[Len(local)] = Len(local)
      /\ blockno \in 0 .. Mod - 1
  BY DEF GetAck, IInv, TypeOK, GetInv, GetClient, Prefix
<1>2. /\ UNCHANGED <<op, link, offset, tries, port, local, srv, toC>>
      /\ toS' = toS \cup {ToServer("ACK", port, blockno, 0)}
      /\ retry' = 0
  BY DEF GetAck
<1>3. \/ /\ Len(local) = Blocks
         /\ pc' = "done" /\ result' = "OK" /\ blockno' = blockno
      \/ /\ Len(local) < Blocks
         /\ blockno' = Len(local) + 1 /\ blockno' \in 2 .. Blocks
         /\ pc' = "recv" /\ result' = result
  <2>1. CASE Len(local) = Blocks
    BY <1>1, <2>1 DEF GetAck, Return
  <2>2. CASE Len(local) # Blocks
    <3>1. Len(local) + 1 \in 2 .. Blocks /\ Len(local) + 1 \in 0 .. Mod - 1
      BY <1>1, <2>2, TftpConfig
    <3>2. (blockno + 1) % Mod = Len(local) + 1
      BY <1>1, <3>1, ModSmall
    <3> QED
      BY <1>1, <2>2, <3>1, <3>2, TftpConfig DEF GetAck
  <2> QED
    BY <2>1, <2>2
<1>4. TypeOK'
  <2>1. blockno' \in 0 .. Mod - 1 /\ retry' \in 0 .. Retries + 1 /\ pc' \in Place
          /\ result' \in {"none", "OK", "ERROR", "crash"}
          /\ (pc' = "done" <=> result' # "none")
    BY <1>1, <1>2, <1>3, TftpConfig DEF IInv, TypeOK, Place, GetAck
  <2>2. ToServer("ACK", port, blockno, 0) \in
          [type : {"RRQ", "WRQ", "DATA", "ACK", "ERR"}, port : Port \cup {WellKnown},
           num : 0 .. Mod - 1, blk : 0 .. Blocks]
    BY <1>1, TftpConfig DEF ToServer
  <2> QED
    BY <1>2, <2>1, <2>2, Zenon DEF IInv, TypeOK
<1>5. LockStep'
  BY <1>1, <1>2 DEF IInv, LockStep
<1>6. GetClient'
  <2>1. Prefix(local) /\ offset = 0 /\ (port = WellKnown => local = <<>>)
          /\ (result = "OK" => Len(local) = Blocks)
    BY <1>1 DEF IInv, GetInv, GetClient
  <2>2. 0 < Retries
    BY TftpConfig
  <2> QED
    BY <1>1, <1>2, <1>3, <2>1, <2>2 DEF GetClient
<1>7. GetWire'
  BY <1>1, <1>2 DEF IInv, GetInv, GetWire, ToServer
<1> QED
  BY <1>1, <1>4, <1>5, <1>6, <1>7 DEF IInv, GetInv

-----------------------------------------------------------------------------
(* tftpput_cb *)

(* tftpput sends the WRQ *)
LEMMA PutRequestInv ==
  ASSUME Blocks < Mod, IInv, PutRequest
  PROVE  IInv'
<1> USE DEF WellKnown
<1>0. op = "put" /\ op' = "put"
  BY DEF PutRequest
<1>1. TypeOK'
  BY TftpConfig DEF IInv, TypeOK, PutRequest, ToServer, Place
<1>2. LockStep'
  BY <1>0 DEF IInv, LockStep, PutRequest
<1>3. PutClient'
  BY <1>0 DEF IInv, PutInv, PutClient, PutRequest, ToServer
<1>4. PutWire'
  BY <1>0 DEF IInv, PutInv, PutWire, PutRequest, ToServer
<1> QED
  BY <1>0, <1>1, <1>2, <1>3, <1>4 DEF IInv, PutInv

(* tftpput sends the block at its offset *)
LEMMA PutDataInv ==
  ASSUME Blocks < Mod, IInv, PutData
  PROVE  IInv'
<1> USE DEF WellKnown
<1>0. /\ op = "put" /\ op' = "put" /\ port \in Port /\ blockno = offset + 1
      /\ offset \in 0 .. Blocks - 1 /\ offset + 1 \in 1 .. Blocks
      /\ blockno \in 0 .. Mod - 1
  BY TftpConfig DEF PutData, IInv, TypeOK, PutInv, PutClient
<1>1. TypeOK'
  BY <1>0, TftpConfig DEF IInv, TypeOK, PutData, ToServer, Place
<1>2. LockStep'
  BY <1>0 DEF IInv, LockStep, PutData
<1>3. PutClient'
  BY <1>0 DEF IInv, PutInv, PutClient, PutData
<1>4. PutWire'
  BY <1>0 DEF IInv, PutInv, PutWire, PutData, ToServer
<1> QED
  BY <1>0, <1>1, <1>2, <1>3, <1>4 DEF IInv, PutInv

(* A failed try, or the caller's reaction to it, concerns the counters only *)
LEMMA NoAckShape ==
  ASSUME IInv, op = "put", pc \in {"wrqack", "rcvack"}, NoAck \/ PutAgain
  PROVE  /\ UNCHANGED <<blockno, offset>>
         /\ retry' \in 0 .. Retries + 1
         /\ tries' \in 0 .. Retries - 1
         /\ \/ pc' = pc /\ result' = result /\ retry' <= Retries
            \/ pc' = "request" /\ pc = "wrqack" /\ result' = result /\ retry' <= Retries
            \/ pc' = "data" /\ pc = "rcvack" /\ result' = result /\ retry' <= Retries
            \/ pc' = "done" /\ result' = "ERROR"
<1>1. retry \in 0 .. Retries + 1 /\ retry <= Retries /\ tries \in 0 .. Retries - 1
  BY DEF IInv, TypeOK, PutInv, PutClient
<1>2. CASE PutAgain
  BY <1>1, <1>2, TftpConfig DEF PutAgain, Return
<1>3. CASE NoAck /\ ~PutAgain
  BY <1>1, <1>3, TftpConfig DEF NoAck
<1> QED
  BY <1>2, <1>3

(* A step of tftp_rcvack that moves on to no other block: it may learn the   *)
(* port, count, send an error, and go on or give up                          *)
PutStays ==
    /\ op = "put" /\ pc \in {"wrqack", "rcvack"}
    /\ UNCHANGED <<op, blockno, offset, local, srv>>
    /\ toC' \subseteq toC
    /\ \A x \in toS' : x \in toS \/ x = ToServer("ERR", port', 0, 0)
    /\ port' = port \/ (port = WellKnown /\ port' \in Port)
    /\ retry' \in 0 .. Retries + 1 /\ tries' \in 0 .. Retries - 1
    /\ \/ pc' = pc /\ result' = result /\ retry' <= Retries
       \/ pc' = "request" /\ pc = "wrqack" /\ result' = result /\ retry' <= Retries
       \/ pc' = "data" /\ port' \in Port /\ result' = result /\ retry' <= Retries
       \/ pc' = "done" /\ result' \in {"ERROR", "crash"}

(* tftpput waits on, sends again or gives up: its block stays the same *)
LEMMA PutStaysInv ==
  ASSUME Blocks < Mod, IInv, PutStays, Fault \/ UNCHANGED link
  PROVE  IInv'
<1> USE DEF WellKnown
<1>0. op = "put" /\ op' = "put"
  BY DEF PutStays
<1>1. TypeOK'
  <2>1. LinkOK'
    BY FaultOK DEF IInv, TypeOK, LinkOK
  <2>2. port' \in Port \cup {WellKnown}
    BY DEF IInv, TypeOK, PutStays
  <2>3. toS' \subseteq [type : {"RRQ", "WRQ", "DATA", "ACK", "ERR"},
                        port : Port \cup {WellKnown},
                        num : 0 .. Mod - 1, blk : 0 .. Blocks]
    BY <2>2, TftpConfig DEF IInv, TypeOK, PutStays, ToServer
  <2>4. pc' \in Place /\ result' \in {"none", "OK", "ERROR", "crash"}
          /\ (pc' = "done" <=> result' # "none")
    BY DEF IInv, TypeOK, PutStays, Place
  <2> QED
    BY <2>1, <2>2, <2>3, <2>4, Zenon DEF IInv, TypeOK, PutStays, LinkOK
<1>2. /\ port = WellKnown => pc = "wrqack"
      /\ pc = "wrqack" => offset = 0 /\ (\A p \in Port : srv[p].stored = <<>>)
                            /\ (\A m \in toS : m.type # "DATA")
      /\ \A p \in Port : srv[p].n = 0
  BY TftpConfig DEF IInv, PutInv, PutClient, PutWire, PutStays
<1>3. LockStep'
  <2>1. CASE port' = port
    BY <2>1 DEF IInv, LockStep, PutStays
  <2>2. CASE port' # port
    BY <1>0, <1>2, <2>2 DEF LockStep, PutStays
  <2> QED
    BY <2>1, <2>2
<1>4. PutClient'
  <2>1. result = "OK" => pc = "done"
    BY DEF IInv, TypeOK
  <2>2. pc' \in {"request", "wrqack"} => pc = "wrqack"
    BY DEF PutStays
  <2>3. \A m \in toS' : m \in toS \/ m.type = "ERR"
    BY DEF PutStays, ToServer
  <2>4. pc' \in {"data", "rcvack"} => port' \in Port
    BY TftpConfig DEF PutStays, IInv, PutInv, PutClient
  <2> QED
    BY <1>0, <1>2, <2>1, <2>2, <2>3, <2>4 DEF IInv, PutInv, PutClient, PutStays
<1>5. PutWire'
  <2>1. \A m \in toS' : m \in toS \/ m.type = "ERR"
    BY DEF PutStays, ToServer
  <2>2. (\E m \in toS : m.type = "DATA") => port' = port
    BY <1>2 DEF PutStays
  <2> QED
    BY <1>0, <2>1, <2>2 DEF IInv, PutInv, PutWire, PutStays
<1> QED
  BY <1>0, <1>1, <1>3, <1>4, <1>5 DEF IInv, PutInv

(* tftpput waits in vain *)
LEMMA PutTimeoutInv ==
  ASSUME Blocks < Mod, IInv, PutTimeout
  PROVE  IInv'
<1>1. op = "put" /\ pc \in {"wrqack", "rcvack"}
  BY DEF PutTimeout, Awaited
<1>2. NoAck
  BY DEF PutTimeout
<1>3. (pc = "rcvack" => port \in Port)
  BY <1>1 DEF IInv, PutInv, PutClient
<1>4. PutStays
  BY <1>1, <1>2, <1>3, NoAckShape DEF PutStays, PutTimeout
<1> QED
  BY <1>4, PutStaysInv DEF PutTimeout

(* tftpput receives what it does not want, or the ACK of the WRQ *)
LEMMA PutRejectInv ==
  ASSUME Blocks < Mod, IInv, Awaited, NEW m \in toC, Received(m),
         PutNotAck(m) \/ PutStranger(m) \/ PutBegins(m) \/ PutOtherAck(m),
         UNCHANGED <<op, local, srv>>
  PROVE  IInv'
<1> USE DEF WellKnown
<1>1. /\ op = "put" /\ pc \in {"wrqack", "rcvack"} /\ m.port \in Port
      /\ toC' \subseteq toC
      /\ Fault \/ UNCHANGED link
      /\ pc = "rcvack" => port \in Port
      /\ retry \in 0 .. Retries + 1 /\ retry <= Retries
      /\ tries \in 0 .. Retries - 1
      /\ port \in Port \cup {WellKnown}
      /\ PortOf(m) \in Port /\ (PortOf(m) = port \/ port = WellKnown)
  BY DEF Awaited, Received, IInv, TypeOK, PutInv, PutClient, PortOf
<1>2. CASE PutNotAck(m)
  <2>1. /\ port' = port \/ (port = WellKnown /\ port' \in Port)
        /\ \A x \in toS' : x \in toS \/ x = ToServer("ERR", port', 0, 0)
        /\ NoAck
    BY <1>1, <1>2 DEF PutNotAck
  <2>2. PutStays
    BY <1>1, <2>1, NoAckShape, TftpConfig DEF PutStays
  <2> QED
    BY <1>1, <2>2, PutStaysInv
<1>3. CASE PutStranger(m)
  <2>1. PutStays
    BY <1>1, <1>3 DEF PutStays, PutStranger
  <2> QED
    BY <1>1, <2>1, PutStaysInv
<1>4. CASE PutBegins(m)
  <2>1. PutStays
    BY <1>1, <1>4, TftpConfig DEF PutStays, PutBegins, Return
  <2> QED
    BY <1>1, <2>1, PutStaysInv
<1>5. CASE PutOtherAck(m)
  <2>1. PutAgain /\ UNCHANGED <<port, toS>>
    BY <1>5 DEF PutOtherAck
  <2>2. PutStays
    BY <1>1, <2>1, NoAckShape DEF PutStays
  <2> QED
    BY <1>1, <2>2, PutStaysInv
<1> QED
  BY <1>2, <1>3, <1>4, <1>5

(* tftpput goes on to the next block when its own is acknowledged *)
LEMMA PutAckedInv ==
  ASSUME Blocks < Mod, IInv, Awaited, NEW m \in toC, Received(m), PutAcked(m),
         UNCHANGED <<op, local, srv>>
  PROVE  IInv'
<1> USE DEF WellKnown
<1>1. /\ op = "put" /\ op' = "put" /\ pc = "rcvack" /\ port \in Port
      /\ m.port \in Port /\ m.num = offset + 1 /\ blockno = offset + 1
      /\ offset \in 0 .. Blocks - 1 /\ result = "none"
      /\ UNCHANGED <<op, local, srv, port, tries, toS>> /\ toC' \subseteq toC
  BY Zenon DEF Awaited, Received, PutAcked, IInv, TypeOK, PutInv, PutClient
<1>2. Len(srv[port].stored) = offset + 1
  <2>1. m.num \in 0 .. Len(srv[m.port].stored)
    BY <1>1, Zenon DEF PutAcked, IInv, PutInv, PutWire
  <2>2. Len(srv[m.port].stored) \in Nat /\ Len(srv[port].stored) \in Nat
    BY <1>1 DEF IInv, PutInv, PutWire, Prefix
  <2>3. Len(srv[m.port].stored) >= offset + 1
    BY <1>1, <2>1, <2>2
  <2>4. m.port = port
    BY <1>1, <2>3, <2>2 DEF IInv, LockStep
  <2>5. Len(srv[port].stored) - offset \in {0, 1}
    BY <1>1 DEF IInv, LockStep
  <2> QED
    BY <1>1, <2>2, <2>3, <2>4, <2>5
<1>3. \/ /\ offset + 1 = Blocks /\ pc' = "done" /\ result' = "OK"
         /\ UNCHANGED <<blockno, retry, offset>>
      \/ /\ offset + 1 < Blocks /\ blockno' = offset + 2 /\ offset' = offset + 1
         /\ retry' = 0 /\ pc' = "data" /\ result' = "none"
  <2>1. CASE offset + 1 = Blocks
    BY <1>1, <2>1 DEF PutAcked, Return
  <2>2. CASE offset + 1 # Blocks
    <3>1. offset + 1 < Blocks /\ offset + 2 \in 0 .. Mod - 1
      BY <1>1, <2>2, TftpConfig
    <3>2. (blockno + 1) % Mod = offset + 2
      BY <1>1, <3>1, ModSmall
    <3> QED
      BY <1>1, <2>2, <3>1, <3>2 DEF PutAcked
  <2> QED
    BY <2>1, <2>2
<1>4. TypeOK'
  <2>1. LinkOK'
    BY FaultOK DEF Received, IInv, TypeOK, LinkOK
  <2>2. blockno' \in 0 .. Mod - 1 /\ offset' \in 0 .. Blocks - 1
          /\ retry' \in 0 .. Retries + 1
    <3>1. blockno \in 0 .. Mod - 1 /\ retry \in 0 .. Retries + 1
      BY DEF IInv, TypeOK
    <3> QED
      BY <1>1, <1>3, <3>1, TftpConfig
  <2>3. pc' \in Place /\ result' \in {"none", "OK", "ERROR", "crash"}
          /\ (pc' = "done" <=> result' # "none")
    BY <1>3 DEF Place
  <2> QED
    BY <1>1, <2>1, <2>2, <2>3, Zenon DEF IInv, TypeOK, LinkOK
<1>5. LockStep'
  BY <1>1, <1>2, <1>3 DEF IInv, LockStep
<1>6. PutClient'
  <2>1. retry <= Retries /\ 0 <= Retries
    BY <1>1, TftpConfig DEF IInv, PutInv, PutClient
  <2> QED
    BY <1>1, <1>2, <1>3, <2>1 DEF IInv, PutInv, PutClient
<1>7. PutWire'
  <2>1. \A x \in toS : x.type = "DATA" => x.blk \in 1 .. offset + 1
    BY <1>1 DEF IInv, PutInv, PutWire
  <2>2. \A x \in toS : x.type = "DATA" => x.blk \in 1 .. offset' + 1
    BY <1>1, <1>3, <2>1
  <2> QED
    BY <1>1, <2>2, Zenon DEF IInv, PutInv, PutWire
<1> QED
  BY <1>1, <1>4, <1>5, <1>6, <1>7 DEF IInv, PutInv

(* An error of sendto ends the transfer *)
LEMMA SendFailsInv ==
  ASSUME Blocks < Mod, IInv, SendFails
  PROVE  IInv'
<1> USE DEF WellKnown
<1>1. /\ pc' = "done" /\ result' = "ERROR"
      /\ UNCHANGED <<op, link, blockno, retry, offset, tries, port, local, srv, toC, toS>>
  BY DEF SendFails, Return
<1>2. TypeOK'
  BY <1>1 DEF IInv, TypeOK, Place
<1>3. LockStep'
  BY <1>1 DEF IInv, LockStep
<1>4. op = "get" => GetClient' /\ GetWire'
  BY <1>1 DEF IInv, GetInv, GetClient, GetWire
<1>5. op = "put" => PutClient' /\ PutWire'
  BY <1>1 DEF IInv, PutInv, PutClient, PutWire
<1> QED
  BY <1>1, <1>2, <1>3, <1>4, <1>5 DEF IInv, GetInv, PutInv

-----------------------------------------------------------------------------
(* The server and the network *)

(* A step that leaves the client alone *)
Elsewhere == UNCHANGED <<op, client>> /\ (Fault \/ UNCHANGED link)

(* What happens away from the client keeps the types *)
LEMMA ElsewhereType ==
  ASSUME IInv, Elsewhere,
         toC' \subseteq CMsg,
         srv' \in [Port -> Transfer],
         toS' \subseteq toS
  PROVE  TypeOK'
<1>1. LinkOK'
  BY FaultOK DEF IInv, TypeOK, LinkOK, Elsewhere
<1> QED
  BY <1>1, Zenon DEF IInv, TypeOK, LinkOK, Elsewhere, client, CMsg, Transfer

(* What a get needs of such a step *)
GetMoves ==
    /\ srv' \in [Port -> Transfer]
    /\ toC' \subseteq CMsg
    /\ toS' \subseteq toS
    /\ \A p \in Port :
         /\ srv'[p].stored = srv[p].stored
         /\ srv'[p].st = "idle" <=> srv'[p].n = 0
         /\ \/ srv'[p].n = srv[p].n
            \/ srv[p].n = 0 /\ srv'[p].n = 1
            \/ p = port /\ srv[p].n = Len(local) /\ srv'[p].n = srv[p].n + 1
    /\ \A m \in toC' \ toC : m.type = "DATA" =>
         m.host = "server" /\ m.num = m.blk /\ m.blk \in 1 .. srv'[m.port].n

(* The server and the network keep the invariant of a get if they move as GetMoves says *)
LEMMA GetElsewhere ==
  ASSUME Blocks < Mod, IInv, Elsewhere, op = "get", GetMoves
  PROVE  IInv'
<1> USE DEF WellKnown
<1>1. TypeOK'
  BY ElsewhereType DEF GetMoves
<1>2. UNCHANGED <<op, pc, blockno, retry, offset, tries, port, result, local>>
  BY DEF Elsewhere, client
<1>3. \A p \in Port : srv[p].n \in Nat /\ srv'[p].n \in Nat /\ srv'[p].n >= srv[p].n
  <2>1. \A p \in Port : srv[p].n \in Nat /\ srv'[p].n \in Nat
    BY DEF IInv, TypeOK, Transfer, GetMoves
  <2>2. \A p \in Port : srv'[p].n \in {srv[p].n, srv[p].n + 1}
    BY <2>1 DEF GetMoves
  <2> QED
    BY <2>1, <2>2
<1>4. Len(local) \in Nat
  BY DEF IInv, TypeOK
<1>5. LockStep'
  <2> SUFFICES ASSUME NEW p \in Port
               PROVE  IF p = port THEN srv'[p].n - Len(local) \in {0, 1}
                      ELSE srv'[p].n <= 1 /\ srv'[p].stored = <<>>
    BY <1>2 DEF LockStep
  <2>1. IF p = port THEN srv[p].n - Len(local) \in {0, 1}
        ELSE srv[p].n <= 1 /\ srv[p].stored = <<>>
    BY DEF IInv, LockStep
  <2>2. CASE p = port
    BY <1>3, <1>4, <2>1, <2>2 DEF GetMoves
  <2>3. CASE p # port
    BY <1>3, <2>1, <2>3 DEF GetMoves
  <2> QED
    BY <2>2, <2>3
<1>6. GetClient'
  BY <1>2, Zenon DEF IInv, GetInv, GetClient
<1>7. GetWire'
  <2>1. ASSUME NEW m \in toC', m.type = "DATA"
        PROVE  m.host = "server" /\ m.num = m.blk /\ m.blk \in 1 .. srv'[m.port].n
    <3>1. CASE m \in toC
      <4>1. m.port \in Port
        BY <3>1 DEF IInv, TypeOK
      <4> QED
        BY <1>3, <2>1, <3>1, <4>1 DEF IInv, GetInv, GetWire
    <3> QED
      BY <2>1, <3>1 DEF GetMoves
  <2> QED
    BY <1>2, <2>1 DEF IInv, GetInv, GetWire, GetMoves
<1> QED
  BY <1>1, <1>2, <1>5, <1>6, <1>7 DEF IInv, GetInv

(* What a put needs of it *)
PutMoves ==
    /\ srv' \in [Port -> Transfer]
    /\ toC' \subseteq CMsg
    /\ toS' \subseteq toS
    /\ \A p \in Port :
         /\ srv'[p].n = 0
         /\ \/ srv'[p].stored = srv[p].stored
            \/ /\ p = port /\ pc \notin {"request", "wrqack"}
               /\ Len(srv[p].stored) = offset
               /\ srv'[p].stored = Append(srv[p].stored, offset + 1)
    /\ \A m \in toC' \ toC : m.type = "ACK" /\ m.host = "server" =>
         m.num \in 0 .. Len(srv'[m.port].stored)

(* The server and the network keep the invariant of a put if they move as PutMoves says *)
LEMMA PutElsewhere ==
  ASSUME Blocks < Mod, IInv, Elsewhere, op = "put", PutMoves
  PROVE  IInv'
<1> USE DEF WellKnown
<1>1. TypeOK'
  BY ElsewhereType DEF PutMoves
<1>2. UNCHANGED <<op, pc, blockno, retry, offset, tries, port, result, local>>
  BY DEF Elsewhere, client
<1>3. ASSUME NEW p \in Port
      PROVE  /\ Prefix(srv[p].stored) /\ Prefix(srv'[p].stored)
             /\ Len(srv[p].stored) \in Nat /\ Len(srv'[p].stored) \in Nat
             /\ \/ srv'[p].stored = srv[p].stored
                \/ /\ p = port /\ pc \notin {"request", "wrqack"}
                   /\ Len(srv[p].stored) = offset
                   /\ Len(srv'[p].stored) = offset + 1
  <2>1. Prefix(srv[p].stored) /\ offset \in 0 .. Blocks - 1
    BY DEF IInv, PutInv, PutWire, TypeOK
  <2>2. Len(srv[p].stored) = offset =>
          /\ Prefix(Append(srv[p].stored, offset + 1))
          /\ Len(Append(srv[p].stored, offset + 1)) = offset + 1
    <3> SUFFICES ASSUME Len(srv[p].stored) = offset
                 PROVE  /\ Prefix(Append(srv[p].stored, offset + 1))
                        /\ Len(Append(srv[p].stored, offset + 1)) = offset + 1
      OBVIOUS
    <3>1. Len(srv[p].stored) < Blocks
      BY <2>1, TftpConfig
    <3> QED
      BY <2>1, <3>1, LongerPrefix
  <2>3. Prefix(srv'[p].stored)
    BY <2>1, <2>2, Zenon DEF PutMoves
  <2>4. Len(srv[p].stored) \in Nat /\ Len(srv'[p].stored) \in Nat
    BY <2>1, <2>3 DEF Prefix
  <2> QED
    BY <2>1, <2>2, <2>3, <2>4 DEF PutMoves
<1>4. LockStep'
  <2> SUFFICES ASSUME NEW p \in Port
               PROVE  IF p = port THEN Len(srv'[p].stored) - offset \in {0, 1}
                      ELSE srv'[p].n <= 1 /\ srv'[p].stored = <<>>
    BY <1>2 DEF LockStep
  <2>1. IF p = port THEN Len(srv[p].stored) - offset \in {0, 1}
        ELSE srv[p].n <= 1 /\ srv[p].stored = <<>>
    BY DEF IInv, LockStep
  <2>2. offset \in Nat
    BY DEF IInv, TypeOK
  <2> QED
    BY <1>3, <2>1, <2>2 DEF PutMoves
<1>5. PutClient'
  <2>1. result = "OK" => port \in Port /\ Len(srv'[port].stored) = Blocks
    <3>1. offset \in 0 .. Blocks - 1
      BY DEF IInv, TypeOK
    <3>2. result = "OK" => port \in Port /\ Len(srv[port].stored) = Blocks
      BY DEF IInv, PutInv, PutClient
    <3>3. result = "OK" => Len(srv[port].stored) # offset
      BY <3>1, <3>2, TftpConfig
    <3>4. result = "OK" => srv'[port].stored = srv[port].stored
      BY <1>3, <3>2, <3>3
    <3> QED
      BY <3>2, <3>4
  <2>2. pc \in {"request", "wrqack"} => \A p \in Port : srv'[p].stored = <<>>
    BY <1>3, Zenon DEF IInv, PutInv, PutClient
  <2> QED
    BY <1>2, <2>1, <2>2 DEF IInv, PutInv, PutClient, PutMoves
<1>6. PutWire'
  <2>1. ASSUME NEW m \in toC', m.type = "ACK", m.host = "server"
        PROVE  m.num \in 0 .. Len(srv'[m.port].stored)
    <3>1. CASE m \in toC
      <4>1. m.port \in Port
        BY <3>1 DEF IInv, TypeOK
      <4>2. m.num \in 0 .. Len(srv[m.port].stored)
        BY <2>1, <3>1 DEF IInv, PutInv, PutWire
      <4> QED
        BY <1>3, <4>1, <4>2
    <3> QED
      BY <2>1, <3>1 DEF PutMoves
  <2> QED
    BY <1>2, <1>3, <2>1 DEF IInv, PutInv, PutWire, PutMoves
<1> QED
  BY <1>1, <1>2, <1>4, <1>5, <1>6 DEF IInv, PutInv

(* The server answers a datagram of tftpget: what it sends is in step with the client *)
LEMMA ServerGetInv ==
  ASSUME Blocks < Mod, IInv, op = "get", NEW m \in toS, ServerReceive(m)
  PROVE  IInv'
<1> USE DEF WellKnown
<1>1. Elsewhere /\ toS' \subseteq toS
  BY DEF ServerReceive, Elsewhere
<1>2. /\ m.type \in {"RRQ", "ACK", "ERR"}
      /\ m.type = "ACK" => m.port = port /\ port \in Port /\ m.num \in 1 .. Len(local)
  BY DEF IInv, GetInv, GetWire
<1>3. srv \in [Port -> Transfer] /\ toC \subseteq CMsg /\ Len(local) \in Nat
  BY DEF IInv, TypeOK, Transfer, CMsg
<1>4. \A p \in Port : srv[p].st = "idle" <=> srv[p].n = 0
  BY DEF IInv, GetInv, GetWire
<1>5. \A n \in 1 .. Blocks : n % Mod = n
  BY ModSmall, TftpConfig
<1>6. SUFFICES GetMoves
  BY <1>1, GetElsewhere
<1>7. CASE UNCHANGED <<srv, toC>>
  BY <1>1, <1>3, <1>4, <1>7 DEF GetMoves
<1>8. CASE \E p \in Port : /\ srv[p].st = "idle"
                           /\ srv' = [srv EXCEPT ![p] = [@ EXCEPT !.st = "open", !.n = 1]]
                           /\ toC' = toC \cup {Data(p, 1)}
  <2>1. PICK p \in Port : /\ srv[p].st = "idle"
                          /\ srv' = [srv EXCEPT ![p] = [@ EXCEPT !.st = "open", !.n = 1]]
                          /\ toC' = toC \cup {Data(p, 1)}
    BY <1>8, Zenon
  <2>2. /\ srv' \in [Port -> Transfer]
        /\ srv'[p].st = "open" /\ srv'[p].n = 1 /\ srv'[p].stored = srv[p].stored
        /\ \A q \in Port \ {p} : srv'[q] = srv[q]
    <3> DEFINE r == [srv[p] EXCEPT !.st = "open", !.n = 1]
    <3>1. srv' = [srv EXCEPT ![p] = r]
      BY <2>1
    <3>2. r \in Transfer /\ r.st = "open" /\ r.n = 1 /\ r.stored = srv[p].stored
      <4>1. srv[p] \in Transfer /\ 1 \in 0 .. Blocks
        BY <1>3, TftpConfig
      <4> QED
        BY <4>1, TransferOpens, Zenon
    <3> HIDE DEF r
    <3> QED
      BY <1>3, <3>1, <3>2
  <2>3. Data(p, 1) = [type |-> "DATA", host |-> "server", port |-> p, num |-> 1, blk |-> 1]
    BY <1>5, TftpConfig DEF Data, ToClient
  <2>4. toC' \subseteq CMsg
    BY <1>3, <2>1, <2>3, TftpConfig DEF CMsg
  <2>5. \A q \in Port :
          /\ srv'[q].stored = srv[q].stored
          /\ srv'[q].st = "idle" <=> srv'[q].n = 0
          /\ srv'[q].n = srv[q].n \/ (srv[q].n = 0 /\ srv'[q].n = 1)
    BY <1>4, <2>1, <2>2
  <2>6. \A k \in toC' \ toC :
          k.host = "server" /\ k.num = k.blk /\ k.blk \in 1 .. srv'[k.port].n
    BY <2>1, <2>2, <2>3
  <2> QED
    BY <1>1, <2>2, <2>4, <2>5, <2>6 DEF GetMoves
<1>9. CASE SendNext(m)
  <2>1. /\ m.port = port /\ port \in Port /\ srv[port].n \in 1 .. Blocks
        /\ srv[port].st = "open" /\ srv[port].n = Len(local)
    <3>1. m.port = port /\ port \in Port /\ srv[port].st = "open"
      BY <1>2, <1>9 DEF SendNext, Opened
    <3>2. srv[port].n \in 0 .. Blocks /\ srv[port].n # 0
      BY <1>3, <1>4, <3>1 DEF Transfer
    <3>3. srv[port].n \in 1 .. Len(local)
      BY <1>2, <1>5, <1>9, <3>1, <3>2, TftpConfig DEF SendNext
    <3>4. srv[port].n - Len(local) \in {0, 1}
      BY <3>1 DEF IInv, LockStep
    <3> QED
      BY <1>3, <3>1, <3>2, <3>3, <3>4
  <2>2. CASE srv[port].n + 1 > Blocks
    <3>1. srv' = [srv EXCEPT ![port].st = "closed"] /\ toC' = toC
      BY <1>9, <2>1, <2>2 DEF SendNext
    <3>2. srv' \in [Port -> Transfer]
      BY <1>3, <3>1, Zenon DEF Transfer
    <3>3. \A p \in Port : /\ srv'[p].stored = srv[p].stored /\ srv'[p].n = srv[p].n
                          /\ srv'[p].st = "idle" <=> srv[p].st = "idle"
      BY <1>3, <2>1, <3>1 DEF Transfer
    <3> QED
      BY <1>1, <1>3, <1>4, <3>1, <3>2, <3>3 DEF GetMoves
  <2>3. CASE ~(srv[port].n + 1 > Blocks)
    <3> DEFINE n == srv[port].n + 1
    <3>1. srv' = [srv EXCEPT ![port].n = n] /\ toC' = toC \cup {Data(port, n)}
      BY <1>9, <2>1, <2>3 DEF SendNext
    <3>2. n \in 1 .. Blocks /\ n # 0
      BY <2>1, <2>3, TftpConfig
    <3> HIDE DEF n
    <3>3. /\ srv' \in [Port -> Transfer]
          /\ srv'[port].st = "open" /\ srv'[port].n = n
          /\ srv'[port].stored = srv[port].stored
          /\ \A q \in Port \ {port} : srv'[q] = srv[q]
      <4> DEFINE r == [srv[port] EXCEPT !.n = n]
      <4>1. srv' = [srv EXCEPT ![port] = r]
        BY <3>1
      <4>2. r \in Transfer /\ r.st = "open" /\ r.n = n /\ r.stored = srv[port].stored
        <5>1. srv[port] \in Transfer /\ n \in 0 .. Blocks
          BY <1>3, <2>1, <3>2, TftpConfig
        <5> QED
          BY <2>1, <5>1, TransferNext
      <4> HIDE DEF r
      <4> QED
        BY <1>3, <2>1, <4>1, <4>2
    <3>4. Data(port, n) = [type |-> "DATA", host |-> "server", port |-> port,
                           num |-> n, blk |-> n]
      BY <1>5, <3>2 DEF Data, ToClient
    <3>5. toC' \subseteq CMsg
      BY <1>3, <2>1, <3>1, <3>2, <3>4, TftpConfig DEF CMsg
    <3>6. srv'[port].n = srv[port].n + 1
      BY <3>3 DEF n
    <3>7. \A k \in toC' \ toC :
            k.host = "server" /\ k.num = k.blk /\ k.blk \in 1 .. srv'[k.port].n
      BY <3>1, <3>2, <3>3, <3>4
    <3>8. \A q \in Port :
            /\ srv'[q].stored = srv[q].stored
            /\ srv'[q].st = "idle" <=> srv'[q].n = 0
            /\ \/ srv'[q].n = srv[q].n
               \/ q = port /\ srv[q].n = Len(local) /\ srv'[q].n = srv[q].n + 1
      BY <1>4, <2>1, <3>2, <3>3, <3>6
    <3> QED
      BY <1>1, <3>3, <3>5, <3>7, <3>8 DEF GetMoves
  <2> QED
    BY <2>2, <2>3
<1>10. CASE Abort(m)
  <2>1. /\ m.port \in Port /\ srv[m.port].st = "open"
        /\ srv' = [srv EXCEPT ![m.port].st = "closed"] /\ toC' = toC
    BY <1>10 DEF Abort, Opened
  <2>2. srv' \in [Port -> Transfer]
    BY <1>3, <2>1, Zenon DEF Transfer
  <2>3. \A p \in Port : /\ srv'[p].stored = srv[p].stored /\ srv'[p].n = srv[p].n
                        /\ srv'[p].st = "idle" <=> srv[p].st = "idle"
    BY <1>3, <2>1 DEF Transfer
  <2> QED
    BY <1>1, <1>3, <1>4, <2>1, <2>2, <2>3 DEF GetMoves
<1>11. Listen(m) => m.type = "RRQ"
  BY <1>2, Zenon DEF Listen
<1> QED
  BY <1>2, <1>7, <1>8, <1>9, <1>10, <1>11, Zenon DEF ServerReceive, Store, Listen, Ignore

(* The server answers a datagram of tftpput: what it stores is in step with the client *)
LEMMA ServerPutInv ==
  ASSUME Blocks < Mod, IInv, op = "put", NEW m \in toS, ServerReceive(m)
  PROVE  IInv'
<1> USE DEF WellKnown
<1>1. Elsewhere /\ toS' \subseteq toS
  BY Zenon DEF ServerReceive, Elsewhere
<1>2. /\ m.type \in {"WRQ", "DATA", "ERR"}
      /\ m.type = "DATA" =>
           /\ m.port = port /\ port \in Port /\ pc \notin {"request", "wrqack"}
           /\ m.num = m.blk /\ m.blk \in 1 .. offset + 1
  BY DEF IInv, PutInv, PutWire, PutClient
<1>3. srv \in [Port -> Transfer] /\ toC \subseteq CMsg /\ offset \in 0 .. Blocks - 1
  BY DEF IInv, TypeOK, Transfer, CMsg
<1>4. \A p \in Port : srv[p].n = 0 /\ Prefix(srv[p].stored)
  BY DEF IInv, PutInv, PutWire
<1>5. \A n \in 0 .. Blocks : n % Mod = n
  BY ModSmall, TftpConfig
<1>6. SUFFICES PutMoves
  BY <1>1, PutElsewhere
<1>7. CASE UNCHANGED <<srv, toC>>
  BY <1>1, <1>3, <1>4, <1>7, Zenon DEF PutMoves
<1>8. CASE \E p \in Port : /\ srv[p].st = "idle"
                           /\ srv' = [srv EXCEPT ![p] = [@ EXCEPT !.st = "open", !.n = 0]]
                           /\ toC' = toC \cup {Ack(p, 0)}
  <2>1. PICK p \in Port : /\ srv[p].st = "idle"
                          /\ srv' = [srv EXCEPT ![p] = [@ EXCEPT !.st = "open", !.n = 0]]
                          /\ toC' = toC \cup {Ack(p, 0)}
    BY <1>8, Zenon
  <2>2. /\ srv' \in [Port -> Transfer]
        /\ \A q \in Port : srv'[q].n = 0 /\ srv'[q].stored = srv[q].stored
    <3> DEFINE r == [srv[p] EXCEPT !.st = "open", !.n = 0]
    <3>1. srv' = [srv EXCEPT ![p] = r]
      BY <2>1
    <3>2. r \in Transfer /\ r.n = 0 /\ r.stored = srv[p].stored
      <4>1. srv[p] \in Transfer /\ 0 \in 0 .. Blocks
        BY <1>3, TftpConfig
      <4> QED
        BY <4>1, TransferOpens, Zenon
    <3> HIDE DEF r
    <3> QED
      BY <1>3, <1>4, <3>1, <3>2
  <2>3. Ack(p, 0) = [type |-> "ACK", host |-> "server", port |-> p, num |-> 0, blk |-> 0]
    BY <1>5, TftpConfig DEF Ack, ToClient
  <2>4. toC' \subseteq CMsg
    BY <1>3, <2>1, <2>3, TftpConfig DEF CMsg
  <2>5. \A k \in toC' \ toC : k.num \in 0 .. Len(srv'[k.port].stored)
    BY <1>4, <2>1, <2>2, <2>3 DEF Prefix
  <2> QED
    BY <1>1, <2>2, <2>4, <2>5 DEF PutMoves
<1>9. CASE Store(m)
  <2> DEFINE n == Len(srv[port].stored)
  <2>1. /\ m.port = port /\ port \in Port /\ pc \notin {"request", "wrqack"}
        /\ m.num = m.blk /\ m.blk \in 1 .. offset + 1
    BY <1>2, <1>9 DEF Store
  <2>2. n \in 0 .. Blocks /\ n \in {offset, offset + 1}
    <3>1. n - offset \in {0, 1}
      BY <2>1, Zenon DEF IInv, LockStep
    <3> QED
      BY <1>3, <1>4, <2>1, <3>1 DEF Prefix
  <2>3. CASE /\ m.num = (n + 1) % Mod
             /\ srv' = [srv EXCEPT ![port].stored = Append(@, m.blk)]
             /\ toC' = toC \cup {Ack(port, n + 1)}
    <3>1. n = offset /\ m.blk = n + 1 /\ n + 1 \in 1 .. Blocks
      <4>1. CASE n = Blocks
        <5>1. (n + 1) % Mod \in {0, Blocks + 1}
          <6>1. CASE Blocks + 1 = Mod
            BY <4>1, <6>1, TftpConfig
          <6>2. CASE Blocks + 1 < Mod
            <7>1. n + 1 = Blocks + 1 /\ Blocks + 1 \in 0 .. Mod - 1
              BY <4>1, <6>2, TftpConfig
            <7> QED
              BY <7>1, ModSmall
          <6>3. Blocks + 1 = Mod \/ Blocks + 1 < Mod
            BY TftpConfig
          <6> QED
            BY <6>1, <6>2, <6>3
        <5> QED
          BY <1>3, <2>1, <2>3, <5>1, TftpConfig
      <4>2. CASE n < Blocks
        <5>1. (n + 1) % Mod = n + 1
          <6>1. n + 1 \in 0 .. Blocks
            BY <2>2, <4>2, TftpConfig
          <6> QED
            BY <1>5, <6>1
        <5> QED
          BY <1>3, <2>1, <2>2, <2>3, <4>2, <5>1, TftpConfig
      <4> QED
        BY <2>2, <4>1, <4>2, TftpConfig
    <3> DEFINE r == [srv[port] EXCEPT !.stored = Append(srv[port].stored, n + 1)]
    <3>2. srv' = [srv EXCEPT ![port] = r]
      BY <2>3, <3>1
    <3>3. r \in Transfer /\ r.n = srv[port].n /\ r.stored = Append(srv[port].stored, n + 1)
      <4>1. srv[port] \in Transfer
        BY <1>3, <2>1
      <4> QED
        BY <3>1, <4>1, TransferStores
    <3> HIDE DEF r
    <3>4. /\ srv' \in [Port -> Transfer]
          /\ srv'[port] = r
          /\ \A q \in Port \ {port} : srv'[q] = srv[q]
      BY <1>3, <2>1, <3>2, <3>3
    <3>5. Ack(port, n + 1) = [type |-> "ACK", host |-> "server", port |-> port,
                              num |-> n + 1, blk |-> 0]
      BY <1>5, <3>1, TftpConfig DEF Ack, ToClient
    <3>6. toC' \subseteq CMsg
      BY <1>3, <2>1, <2>3, <3>1, <3>5, TftpConfig DEF CMsg
    <3>7. Len(Append(srv[port].stored, n + 1)) = n + 1
      <4>1. Prefix(srv[port].stored)
        BY <1>4, <2>1
      <4>2. n < Blocks
        BY <1>3, <3>1, TftpConfig
      <4> QED
        BY <4>1, <4>2, LongerPrefix
    <3>8. \A k \in toC' \ toC : k.num \in 0 .. Len(srv'[k.port].stored)
      BY <2>3, <3>1, <3>3, <3>4, <3>5, <3>7
    <3>9. \A q \in Port :
            /\ srv'[q].n = 0
            /\ \/ srv'[q].stored = srv[q].stored
               \/ /\ q = port
                  /\ Len(srv[q].stored) = offset
                  /\ srv'[q].stored = Append(srv[q].stored, offset + 1)
      BY <1>4, <2>1, <3>1, <3>3, <3>4
    <3> QED
      BY <1>1, <2>1, <3>4, <3>6, <3>8, <3>9 DEF PutMoves
  <2>4. CASE toC' = toC \cup {Ack(port, n)} /\ srv' = srv
    <3>1. Ack(port, n) = [type |-> "ACK", host |-> "server", port |-> port,
                          num |-> n, blk |-> 0]
      BY <1>5, <2>2, Zenon DEF Ack, ToClient
    <3>2. toC' \subseteq CMsg
      BY <1>3, <2>1, <2>2, <2>4, <3>1, TftpConfig DEF CMsg
    <3>3. \A k \in toC' \ toC : k.num \in 0 .. Len(srv'[k.port].stored)
      BY <2>2, <2>4, <3>1
    <3> QED
      BY <1>1, <1>3, <1>4, <2>4, <3>2, <3>3, Zenon DEF PutMoves
  <2> QED
    BY <1>9, <2>1, <2>3, <2>4 DEF Store
<1>10. CASE Abort(m)
  <2>1. /\ m.port \in Port
        /\ srv' = [srv EXCEPT ![m.port].st = "closed"] /\ toC' = toC
    BY <1>10 DEF Abort
  <2>2. srv' \in [Port -> Transfer]
    BY <1>3, <2>1, Zenon DEF Transfer
  <2>3. \A p \in Port : srv'[p].stored = srv[p].stored /\ srv'[p].n = srv[p].n
    BY <1>3, <2>1 DEF Transfer
  <2> QED
    BY <1>1, <1>3, <1>4, <2>1, <2>2, <2>3 DEF PutMoves
<1>11. Listen(m) => m.type = "WRQ"
  BY <1>2, Zenon DEF Listen
<1> QED
  BY <1>2, <1>7, <1>8, <1>9, <1>10, <1>11, Zenon DEF ServerReceive, SendNext, Listen, Ignore

(* The server sends its last block again *)
LEMMA ResendInv ==
  ASSUME Blocks < Mod, IInv, NEW p \in Port, Resend(p)
  PROVE  IInv'
<1>1. /\ op = "get" /\ Elsewhere /\ srv' = srv /\ toS' = toS
      /\ srv[p].st = "open" /\ toC' = toC \cup {Data(p, srv[p].n)}
  BY DEF Resend, Elsewhere, Opened
<1>2. srv \in [Port -> Transfer] /\ toC \subseteq CMsg
  BY Zenon DEF IInv, TypeOK, Transfer, CMsg
<1>3. \A q \in Port : srv[q].st = "idle" <=> srv[q].n = 0
  BY <1>1 DEF IInv, GetInv, GetWire
<1>4. srv[p].n \in 1 .. Blocks
  <2>1. srv[p].n \in 0 .. Blocks /\ srv[p].n # 0
    BY <1>1, <1>2, <1>3, Zenon DEF Transfer
  <2> QED
    BY <2>1, TftpConfig
<1>5. Data(p, srv[p].n) = [type |-> "DATA", host |-> "server", port |-> p,
                           num |-> srv[p].n, blk |-> srv[p].n]
  <2>1. srv[p].n \in 0 .. Mod - 1
    BY <1>4, TftpConfig
  <2> QED
    BY <2>1, ModSmall DEF Data, ToClient
<1>6. toC' \subseteq CMsg
  BY <1>1, <1>2, <1>4, <1>5, TftpConfig DEF CMsg
<1>7. \A k \in toC' \ toC :
        k.host = "server" /\ k.num = k.blk /\ k.blk \in 1 .. srv'[k.port].n
  <2> SUFFICES ASSUME NEW k \in toC' \ toC
               PROVE  k.host = "server" /\ k.num = k.blk /\ k.blk \in 1 .. srv'[k.port].n
    BY Zenon
  <2>1. k = [type |-> "DATA", host |-> "server", port |-> p,
             num |-> srv[p].n, blk |-> srv[p].n]
    BY <1>1, <1>5
  <2>2. k.host = "server" /\ k.num = k.blk /\ k.blk = srv[p].n /\ k.port = p
    BY <2>1
  <2>3. srv[p].n \in 1 .. srv[p].n /\ srv' = srv
    BY <1>1, <1>4, TftpConfig
  <2> QED
    BY <2>2, <2>3
<1>8. GetMoves
  BY <1>1, <1>2, <1>3, <1>6, <1>7 DEF GetMoves
<1> QED
  BY <1>1, <1>8, GetElsewhere, Zenon

(* A transfer that is closed, datagrams that are lost and packets that are   *)
(* neither DATA nor an ACK of the server                                     *)
LEMMA NoiseInv ==
  ASSUME Blocks < Mod, IInv, Elsewhere,
         srv' = srv \/ \E p \in Port : Opened(p) /\ srv' = [srv EXCEPT ![p].st = "closed"],
         toS' \subseteq toS,
         toC' \subseteq toC \cup Foreign
  PROVE  IInv'
<1>1. srv \in [Port -> Transfer] /\ toC \subseteq CMsg
  BY DEF IInv, TypeOK, Transfer, CMsg
<1>2. /\ srv' \in [Port -> Transfer]
      /\ \A q \in Port : /\ srv'[q].n = srv[q].n /\ srv'[q].stored = srv[q].stored
                         /\ srv'[q].st = "idle" <=> srv[q].st = "idle"
  <2>1. CASE srv' = srv
    BY <1>1, <2>1
  <2>2. ASSUME NEW p \in Port, Opened(p), srv' = [srv EXCEPT ![p].st = "closed"]
        PROVE  <1>2!1 /\ <1>2!2
    BY <1>1, <2>2 DEF Transfer, Opened
  <2> QED
    BY <2>1, <2>2
<1>3. /\ Foreign \subseteq CMsg
      /\ \A k \in Foreign : k.type # "DATA" /\ (k.type = "ACK" => k.host # "server")
  BY TftpConfig DEF Foreign, ToClient, CMsg
<1>4. toC' \subseteq CMsg
  BY <1>1, <1>3
<1>5. op = "get" => GetMoves
  BY <1>2, <1>3, <1>4 DEF GetMoves, IInv, GetInv, GetWire
<1>6. op = "put" => PutMoves
  BY <1>2, <1>3, <1>4 DEF PutMoves, IInv, PutInv, PutWire
<1>7. op \in {"get", "put"}
  BY DEF IInv, TypeOK
<1> QED
  BY <1>5, <1>6, <1>7, GetElsewhere, PutElsewhere

(* The server forgets a transfer *)
LEMMA GiveUpInv ==
  ASSUME Blocks < Mod, IInv, NEW p \in Port, GiveUp(p)
  PROVE  IInv'
  BY NoiseInv, Zenon DEF GiveUp, Elsewhere

(* A datagram is lost *)
LEMMA LoseInv ==
  ASSUME Blocks < Mod, IInv, Lose
  PROVE  IInv'
  BY NoiseInv DEF Lose, Elsewhere

(* A stranger's datagram arrives *)
LEMMA DisturbInv ==
  ASSUME Blocks < Mod, IInv, Disturb
  PROVE  IInv'
  BY NoiseInv DEF Disturb, Elsewhere

-----------------------------------------------------------------------------
(* Whatever tftpget receives *)
LEMMA GetReceiveInv ==
  ASSUME Blocks < Mod, IInv, GetReceive
  PROVE  IInv'
<1>1. PICK m \in toC :
        /\ Received(m)
        /\ GetStranger(m) \/ GetWrongPort(m) \/ GetUnexpected(m) \/ GetData(m)
  BY DEF GetReceive
<1>2. op = "get" /\ pc = "recv" /\ UNCHANGED <<op, offset, tries, srv>>
  BY DEF GetReceive
<1>3. CASE GetData(m)
  BY <1>1, <1>2, <1>3, GetDataInv
<1>4. CASE GetStranger(m) \/ GetWrongPort(m) \/ GetUnexpected(m)
  BY <1>1, <1>2, <1>4, GetRejectInv DEF GetTakes
<1> QED
  BY <1>1, <1>3, <1>4

(* Whatever tftpput receives *)
LEMMA PutReceiveInv ==
  ASSUME Blocks < Mod, IInv, PutReceive
  PROVE  IInv'
<1>1. PICK m \in toC :
        /\ Received(m)
        /\ \/ PutNotAck(m) \/ PutStranger(m) \/ PutBegins(m)
           \/ PutAcked(m) \/ PutOtherAck(m)
  BY DEF PutReceive
<1>2. Awaited /\ UNCHANGED <<op, local, srv>>
  BY DEF PutReceive
<1>3. CASE PutAcked(m)
  BY <1>1, <1>2, <1>3, PutAckedInv
<1>4. CASE PutNotAck(m) \/ PutStranger(m) \/ PutBegins(m) \/ PutOtherAck(m)
  BY <1>1, <1>2, <1>4, PutRejectInv
<1> QED
  BY <1>1, <1>3, <1>4

(* Whatever the server receives *)
LEMMA ServerInv ==
  ASSUME Blocks < Mod, IInv, NEW m \in toS, ServerReceive(m)
  PROVE  IInv'
<1>1. op \in {"get", "put"}
  BY DEF IInv, TypeOK
<1> QED
  BY <1>1, ServerGetInv, ServerPutInv

(* Nothing changes *)
LEMMA StutterInv ==
  ASSUME IInv, UNCHANGED vars
  PROVE  IInv'
<1>1. UNCHANGED <<op, link, pc, blockno, retry, offset, tries, port, result, local,
                  srv, toC, toS>>
  BY Zenon DEF vars, client
<1>2. TypeOK' /\ LockStep'
  BY <1>1, Zenon DEF IInv, TypeOK, LockStep
<1>3. op = "get" => GetInv'
  BY <1>1, Zenon DEF IInv, GetInv, GetClient, GetWire
<1>4. op = "put" => PutInv'
  BY <1>1 DEF IInv, PutInv, PutClient, PutWire
<1> QED
  BY <1>1, <1>2, <1>3, <1>4 DEF IInv

(* The invariant is inductive *)
LEMMA NextInv ==
  ASSUME Blocks < Mod, IInv, [Next]_vars
  PROVE  IInv'
<1>1. CASE ClientStep
  BY <1>1, GetRequestInv, GetTimeoutInv, GetReceiveInv, GetAckInv,
     PutRequestInv, PutDataInv, PutTimeoutInv, PutReceiveInv DEF ClientStep
<1>2. CASE SendFails
  BY <1>2, SendFailsInv
<1>3. CASE \E m \in toS : ServerReceive(m)
  BY <1>3, ServerInv
<1>4. CASE \E p \in Port : Resend(p) \/ GiveUp(p)
  BY <1>4, ResendInv, GiveUpInv
<1>5. CASE Lose
  BY <1>5, LoseInv
<1>6. CASE Disturb
  BY <1>6, DisturbInv
<1>7. CASE UNCHANGED vars
  BY <1>7, StutterInv
<1> QED
  BY <1>1, <1>2, <1>3, <1>4, <1>5, <1>6, <1>7 DEF Next

(* tftpget_cb and tftpput_cb keep their counters and the block number in      *)
(* range, and blocks and acknowledgements are never taken for one another, on *)
(* a network that loses, repeats, delays and reorders and with any number of  *)
(* repeated requests, as long as the file has fewer blocks than there are     *)
(* block numbers: past that, the 16-bit blockno wraps.                        *)
THEOREM TransferInvariant ==
  ASSUME Blocks < Mod
  PROVE  Spec => [](TypeOK /\ LockStep)
<1>1. Init => IInv
  BY InitInv
<1>2. IInv /\ [Next]_vars => IInv'
  BY NextInv
<1>3. IInv => TypeOK /\ LockStep
  BY DEF IInv
<1> QED
  BY <1>1, <1>2, <1>3, PTL DEF Spec

-----------------------------------------------------------------------------
(* Refinement of FileCopy *)

(* A step that writes nothing, and returns or does not *)
LEMMA ReturnMaps ==
  ASSUME IInv, IInv', Destination' = Destination, result' = result \/ pc # "done"
  PROVE  [Copy!Next]_<<Destination, result>>
<1>1. CASE result' = result
  BY <1>1
<1>2. CASE result' # result
  <2>1. result = "none" /\ result' \in {"OK", "ERROR", "crash"}
    BY <1>2 DEF IInv, TypeOK
  <2>2. result' = "OK" => Len(Destination) = Blocks
    <3>1. result' = "OK" => Len(Destination') = Blocks
      BY TftpConfig, Zenon DEF IInv, TypeOK, GetInv, GetClient, PutInv, PutClient,
                        Destination, WellKnown
    <3> QED
      BY <3>1
  <2> QED
    BY <2>1, <2>2 DEF Copy!Next, Copy!Succeed, Copy!Fail
<1> QED
  BY <1>1, <1>2

(* A step that writes a block *)
LEMMA WriteMaps ==
  ASSUME IInv, Prefix(Destination), Prefix(Destination'), result' = result,
         NEW b, Destination' = Append(Destination, b)
  PROVE  [Copy!Next]_<<Destination, result>>
<1> DEFINE d == Destination
           e == Destination'
<1>1. d \in Seq(Nat) /\ e \in Seq(Nat) /\ e = Append(d, b) /\ Len(e) <= Blocks
      /\ \A i \in 1 .. Len(e) : e[i] = i
  BY DEF Prefix
<1> HIDE DEF d, e
<1>2. Len(e) = Len(d) + 1 /\ e[Len(d) + 1] = b
  BY <1>1
<1>3. b = Len(d) + 1 /\ Len(d) < Blocks
  BY <1>1, <1>2, TftpConfig
<1> QED
  BY <1>3 DEF Copy!Next, Copy!Copy, d, e

(* Steps of tftpget_cb other than the one that takes a block, steps of        *)
(* tftpput_cb, and steps elsewhere that store nothing                         *)
LEMMA GetWritesNothing ==
  ASSUME op = "get", op' = op, local' = local
  PROVE  Destination' = Destination
  BY DEF Destination

(* In a put the file at the destination changes only when the server stores a block *)
LEMMA PutWritesNothing ==
  ASSUME IInv, op = "put", op' = op, port' = port \/ port = WellKnown,
         port' \in Port \cup {WellKnown},
         \A p \in Port : srv'[p].stored = srv[p].stored
  PROVE  Destination' = Destination
<1>1. port = WellKnown => \A p \in Port : srv[p].stored = <<>>
  BY TftpConfig DEF IInv, LockStep, WellKnown
<1>2. port \in Port \cup {WellKnown}
  BY DEF IInv, TypeOK
<1> QED
  BY <1>1, <1>2, TftpConfig DEF Destination, WellKnown

(* A step of tftpget copies the next block, ends the copy or leaves it alone *)
LEMMA GetMaps ==
  ASSUME Blocks < Mod, IInv, IInv',
         GetRequest \/ GetTimeout \/ GetReceive \/ GetAck
  PROVE  [Copy!Next]_<<Destination, result>>
<1>1. op = "get" /\ op' = op /\ pc # "done"
  BY DEF GetRequest, GetTimeout, GetReceive, GetAck
<1>2. CASE local' = local
  BY <1>1, <1>2, GetWritesNothing, ReturnMaps
<1>3. CASE local' # local
  <2>1. PICK m \in toC : GetData(m)
    BY <1>3, Zenon DEF GetRequest, GetTimeout, GetReceive, GetAck, GetStranger, GetWrongPort,
                GetUnexpected
  <2>2. Destination' = Append(Destination, m.blk) /\ result' = result
    BY <1>1, <1>3, <2>1, Zenon DEF GetData, Destination
  <2>3. Prefix(Destination) /\ Prefix(Destination')
    BY <1>1, Zenon DEF IInv, GetInv, GetClient, Destination
  <2> QED
    BY <2>2, <2>3, WriteMaps, Zenon
<1> QED
  BY <1>2, <1>3

(* A step of tftpput ends the copy or leaves it alone *)
LEMMA PutMaps ==
  ASSUME Blocks < Mod, IInv, IInv',
         PutRequest \/ PutData \/ PutTimeout \/ PutReceive
  PROVE  [Copy!Next]_<<Destination, result>>
<1>1. op = "put" /\ op' = op /\ pc # "done" /\ srv' = srv
  BY Zenon DEF PutRequest, PutData, PutTimeout, PutReceive, Awaited
<1>2. port' = port \/ port = WellKnown
  BY Zenon DEF PutRequest, PutData, PutTimeout, PutReceive, PutNotAck, PutStranger, PutBegins,
         PutAcked, PutOtherAck, PortOf
<1>3. port' \in Port \cup {WellKnown}
  BY DEF IInv, TypeOK
<1> QED
  BY <1>1, <1>2, <1>3, PutWritesNothing, ReturnMaps

(* A step of the server copies the next block or leaves the copy alone *)
LEMMA ServerMaps ==
  ASSUME Blocks < Mod, IInv, IInv', NEW m \in toS, ServerReceive(m)
  PROVE  [Copy!Next]_<<Destination, result>>
<1>1. UNCHANGED <<op, port, result, local>>
  BY DEF ServerReceive, client
<1>2. CASE op = "get"
  BY <1>1, <1>2, GetWritesNothing, ReturnMaps
<1>3. CASE op = "put"
  <2>1. /\ m.type \in {"WRQ", "DATA", "ERR"}
        /\ m.type = "DATA" => m.port = port /\ port \in Port
    BY <1>3, Zenon DEF IInv, PutInv, PutWire
  <2>2. srv \in [Port -> Transfer] /\ port \in Port \cup {WellKnown}
    BY DEF IInv, TypeOK, Transfer
  <2>3. CASE \A p \in Port : srv'[p].stored = srv[p].stored
    BY <1>1, <1>3, <2>2, <2>3, PutWritesNothing, ReturnMaps
  <2>4. CASE ~(\A p \in Port : srv'[p].stored = srv[p].stored)
    <3>1. Store(m)
      <4>1. Listen(m) => \A p \in Port : srv'[p].stored = srv[p].stored
        <5>1. ASSUME NEW p \in Port, NEW n,
                     srv' = [srv EXCEPT ![p] = [@ EXCEPT !.st = "open", !.n = n]]
              PROVE  \A q \in Port : srv'[q].stored = srv[q].stored
          BY <2>2, <5>1 DEF Transfer
        <5> QED
          BY <5>1, Zenon DEF Listen
      <4>2. Abort(m) \/ Ignore(m) => \A p \in Port : srv'[p].stored = srv[p].stored
        <5>1. Ignore(m) => srv' = srv
          BY DEF Ignore
        <5>2. ASSUME Abort(m) PROVE \A p \in Port : srv'[p].stored = srv[p].stored
          <6>1. m.port \in Port /\ srv' = [srv EXCEPT ![m.port].st = "closed"]
            BY <5>2 DEF Abort
          <6> QED
            BY <2>2, <6>1 DEF Transfer
        <5> QED
          BY <5>1, <5>2
      <4>3. ~SendNext(m)
        BY <2>1 DEF SendNext
      <4> QED
        BY <2>4, <4>1, <4>2, <4>3 DEF ServerReceive
    <3>2. /\ m.port = port /\ port \in Port
          /\ srv' = [srv EXCEPT ![port].stored = Append(@, m.blk)]
      BY <2>1, <2>4, <3>1 DEF Store
    <3>3. srv'[port].stored = Append(srv[port].stored, m.blk)
      BY <2>2, <3>2 DEF Transfer
    <3>4. port # WellKnown
      BY <3>2, TftpConfig DEF WellKnown
    <3>5. Destination' = Append(Destination, m.blk)
      BY <1>1, <1>3, <3>3, <3>4 DEF Destination
    <3>6. Prefix(Destination) /\ Prefix(Destination')
      BY <1>1, <1>3, <3>2, <3>4 DEF IInv, PutInv, PutWire, Destination
    <3> QED
      BY <1>1, <3>5, <3>6, WriteMaps, Zenon
  <2> QED
    BY <2>3, <2>4, Zenon
<1> QED
  BY <1>2, <1>3 DEF IInv, TypeOK

(* No fault of the network or of the server changes the copy *)
LEMMA OtherMaps ==
  ASSUME Blocks < Mod, IInv, IInv',
         SendFails \/ Lose \/ Disturb \/ \E p \in Port : Resend(p) \/ GiveUp(p)
  PROVE  [Copy!Next]_<<Destination, result>>
<1>1. UNCHANGED <<op, port, local>> /\ (result' = result \/ pc # "done")
  BY Zenon DEF SendFails, Lose, Disturb, Resend, GiveUp, client
<1>2. srv \in [Port -> Transfer] /\ port \in Port \cup {WellKnown}
  BY DEF IInv, TypeOK, Transfer
<1>3. \A p \in Port : srv'[p].stored = srv[p].stored
  <2>1. srv' = srv \/ \E p \in Port : srv' = [srv EXCEPT ![p].st = "closed"]
    BY Zenon DEF SendFails, Lose, Disturb, Resend, GiveUp
  <2> QED
    BY <1>2, <2>1 DEF Transfer
<1>4. Destination' = Destination
  BY <1>1, <1>2, <1>3, GetWritesNothing, PutWritesNothing, Zenon DEF IInv, TypeOK
<1> QED
  BY <1>1, <1>4, ReturnMaps

(* Every step is a step of the copy or leaves it alone *)
LEMMA NextMaps ==
  ASSUME Blocks < Mod, IInv, IInv', [Next]_vars
  PROVE  [Copy!Next]_<<Destination, result>>
<1>1. CASE ClientStep
  BY <1>1, GetMaps, PutMaps DEF ClientStep
<1>2. CASE \E m \in toS : ServerReceive(m)
  BY <1>2, ServerMaps
<1>3. CASE SendFails \/ Lose \/ Disturb \/ \E p \in Port : Resend(p) \/ GiveUp(p)
  BY <1>3, OtherMaps, Zenon
<1>4. CASE UNCHANGED vars
  BY <1>4 DEF vars, client, Destination
<1> QED
  BY <1>1, <1>2, <1>3, <1>4 DEF Next

(* tftpget and tftpput copy a file of fewer blocks than there are block       *)
(* numbers: what the network does can end a transfer, but can neither skip,   *)
(* repeat or swap a block at the destination, nor make the function return OK *)
(* before all of the file is there.                                           *)
THEOREM TransferCopies ==
  ASSUME Blocks < Mod
  PROVE  Spec => ImplementsCopy
<1>1. Init => IInv /\ Copy!Init
  BY InitInv DEF Init, Copy!Init, Destination, WellKnown
<1>2. IInv /\ [Next]_vars => IInv'
  BY NextInv
<1>3. IInv /\ IInv' /\ [Next]_vars => [Copy!Next]_<<Destination, result>>
  BY NextMaps
<1> QED
  BY <1>1, <1>2, <1>3, PTL DEF Spec, ImplementsCopy, Copy!Spec

=============================================================================
