----------------------------- MODULE NtpServers -----------------------------
(***************************************************************************)
(* How the NTP client chooses the servers of a round of samples            *)
(* (ntp_get_next_hostip, ntpc_get_ntp_sample and the Kiss-o'-Death list in *)
(* netutils/ntpclient/ntpclient.c).                                        *)
(*                                                                         *)
(* Addresses are compared as the bytes of a union that is as long as an    *)
(* IPv6 address.  A slot of the server list is filled with memcpy: an IPv4 *)
(* address overwrites its head and leaves the tail as it was.              *)
(***************************************************************************)
EXTENDS Integers, Sequences, Functions

CONSTANTS Hosts,       \* the host names of the configuration, in order
          V4, V6,      \* addresses of the servers
          Answer(_),   \* host |-> the answers DNS may give, sequences of addresses
          NumSamples,  \* also the length of the list
          Zero         \* the bytes of a cleared slot

MAX_SERVER_SELECTION_RETRIES == 3

ASSUME ServersConfig ==
    /\ Len(Hosts) \in Nat \ {0}
    /\ Zero \notin V4 \cup V6
    /\ V4 \cap V6 = {}
    /\ NumSamples \in Nat \ {0}
    /\ \A h \in 1 .. Len(Hosts) : Answer(Hosts[h]) \subseteq Seq(V4 \cup V6)

VARIABLES kod_list,    \* Kiss-o'-Death exclusion list, as bytes
          list, num, pos, hostnext,     \* struct ntp_servers_s
          samples,     \* srv_addr of the samples of this round, as bytes
          i,           \* number of the sample in the round
          phase,       \* round, select or ask
          retry, server,                \* locals of ntpc_get_ntp_sample
          denied       \* history: servers that were put on the list

srvs == <<list, num, pos, hostnext>>
vars == <<kod_list, srvs, samples, i, phase, retry, server, denied>>

Bytes == [head : V4 \cup V6 \cup {Zero}, tail : V6 \cup {Zero}]
Cleared == [head |-> Zero, tail |-> Zero]

Init ==
    /\ kod_list = <<>>
    /\ list = [k \in 1 .. NumSamples |-> Cleared]
    /\ num = 0 /\ pos = 0
    /\ hostnext = 0
    /\ samples = <<>>
    /\ i = 0
    /\ phase = "round"
    /\ retry = 0
    /\ server = Cleared
    /\ denied = {}

(* memcpy of ai_addrlen bytes *)
memcpy(slot, addr) == [head |-> addr,
                       tail |-> IF addr \in V6 THEN addr ELSE slot.tail]

(* The loop of ntpc_daemon clears the list and the samples for each round    *)
NewRound ==
    /\ phase = "round"
    /\ list' = [k \in 1 .. NumSamples |-> Cleared]
    /\ num' = 0 /\ pos' = 0
    /\ hostnext' = 0
    /\ samples' = <<>>
    /\ i' = 0
    /\ phase' = "select"
    /\ retry' = 0
    /\ UNCHANGED <<kod_list, server, denied>>

(* The sample is done with, whatever came of it *)
Done ==
    /\ i' = i + 1
    /\ phase' = IF i + 1 < NumSamples THEN "select" ELSE "round"
    /\ retry' = 0
    /\ server' = Cleared

-----------------------------------------------------------------------------
(* hostnext: 0 is NULL.  The list of names starts over at its end. *)
Host == IF hostnext = 0 THEN 1 ELSE hostnext
NextHost == IF Host < Len(Hosts) THEN Host + 1 ELSE 0

(* The list after an answer of DNS: no more addresses than it has slots *)
Resolved(answer) ==
    [k \in 1 .. NumSamples |->
       IF k <= Len(answer) THEN memcpy(list[k], answer[k]) ELSE list[k]]

(* Mutant: the size of the list is not looked at *)
ntp_get_next_hostip_Unbounded ==
    IF pos < num
    THEN {[list |-> list, num |-> num, pos |-> pos + 1, hostnext |-> hostnext,
           addr |-> list[pos + 1]]}
    ELSE {[list |-> Resolved(answer), num |-> Len(answer),
           pos |-> 1, hostnext |-> NextHost, addr |-> Resolved(answer)[1]] :
             answer \in Answer(Hosts[Host]) \ {<<>>}}

(* What ntp_get_next_hostip may return, with the list it leaves behind *)
ntp_get_next_hostip ==
    IF pos < num
    THEN {[list |-> list, num |-> num, pos |-> pos + 1, hostnext |-> hostnext,
           addr |-> list[pos + 1]]}
    ELSE {[list |-> Resolved(answer),
           num |-> IF Len(answer) < NumSamples THEN Len(answer) ELSE NumSamples,
           pos |-> 1, hostnext |-> NextHost, addr |-> Resolved(answer)[1]] :
             answer \in Answer(Hosts[Host]) \ {<<>>}}

(* getaddrinfo() fails or finds nothing *)
LookupFails ==
    /\ phase = "select"
    /\ pos >= num
    /\ <<>> \in Answer(Hosts[Host])
    /\ num' = 0 /\ pos' = 0
    /\ hostnext' = NextHost
    /\ Done
    /\ UNCHANGED <<kod_list, list, samples, denied>>

(* Without memory for the list of names the next sample starts over as well *)
StrdupFails ==
    /\ phase = "select"
    /\ pos >= num
    /\ hostnext = 0
    /\ num' = 0 /\ pos' = 0
    /\ Done
    /\ UNCHANGED <<kod_list, list, hostnext, samples, denied>>

(* Mutant: only the first entry is looked at *)
ntp_address_in_kod_list_First(addr) == kod_list # <<>> /\ Head(kod_list) = addr

ntp_address_in_kod_list(addr) == \E k \in DOMAIN kod_list : kod_list[k] = addr

(* Mutant: the first sample is not compared with *)
AlreadySampled_NotFirst(addr) == \E k \in 2 .. Len(samples) : samples[k] = addr

AlreadySampled(addr) == \E k \in DOMAIN samples : samples[k] = addr

(* Mutant: the attempt is not counted *)
TryNext_NotCounted == UNCHANGED <<retry, i, phase, server>>

TryNext ==
    /\ retry < MAX_SERVER_SELECTION_RETRIES
    /\ retry' = retry + 1
    /\ UNCHANGED <<i, phase, server>>

(* One turn of the loop that selects a server *)
Select ==
    /\ phase = "select"
    /\ \E r \in ntp_get_next_hostip :
         /\ list' = r.list /\ num' = r.num /\ pos' = r.pos
         /\ hostnext' = r.hostnext
         /\ \/ /\ ntp_address_in_kod_list(r.addr)
               /\ retry >= MAX_SERVER_SELECTION_RETRIES
               /\ Done
            \/ /\ ntp_address_in_kod_list(r.addr) \/ AlreadySampled(r.addr)
               /\ TryNext
            \/ /\ ~ntp_address_in_kod_list(r.addr)
               /\ AlreadySampled(r.addr) => retry >= MAX_SERVER_SELECTION_RETRIES
               /\ server' = r.addr
               /\ phase' = "ask"
               /\ UNCHANGED <<i, retry>>
    /\ UNCHANGED <<kod_list, samples, denied>>

-----------------------------------------------------------------------------
(* The exchange with the server ends with a sample, with an error, or with a *)
(* Kiss-o'-Death, which puts the server on the list if there is memory       *)
SampleTaken ==
    /\ phase = "ask"
    /\ samples' = Append(samples, server)
    /\ Done
    /\ UNCHANGED <<kod_list, srvs, denied>>

SampleFails ==
    /\ phase = "ask"
    /\ Done
    /\ UNCHANGED <<kod_list, srvs, samples, denied>>

ntp_is_kiss_of_death ==
    /\ phase = "ask"
    /\ kod_list' = Append(kod_list, server)
    /\ denied' = denied \cup {server.head}
    /\ Done
    /\ UNCHANGED <<srvs, samples>>

Next == NewRound \/ LookupFails \/ StrdupFails \/ Select \/ SampleTaken \/ SampleFails
          \/ ntp_is_kiss_of_death

Spec == Init /\ [][Next]_vars

(* DNS and the socket answer or time out *)
FairSpec == Spec /\ WF_vars(Next)

-----------------------------------------------------------------------------
(* Shape of the state *)
TypeOK ==
    /\ kod_list \in Seq(Bytes)
    /\ list \in [1 .. NumSamples -> Bytes]
    /\ num \in 0 .. NumSamples /\ pos \in 0 .. NumSamples
    /\ hostnext \in 0 .. Len(Hosts)
    /\ samples \in Seq(Bytes) /\ Len(samples) <= i
    /\ i \in 0 .. NumSamples
    /\ phase \in {"round", "select", "ask"}
    /\ retry \in 0 .. MAX_SERVER_SELECTION_RETRIES
    /\ server \in Bytes
    /\ denied \subseteq V4 \cup V6

(* "Make sure that server not in exclusion list": a server that sent a       *)
(* Kiss-o'-Death is not asked again, in this round or a later one, and the   *)
(* list, which nothing ever shortens, names it once.  Nor is a slot asked    *)
(* that lies past the end of the last answer of DNS.                         *)
DeniedIsNotAsked ==
    /\ phase = "ask" => server.head \notin denied \cup {Zero}
    /\ IsInjective(kod_list)

(* "Make sure that this sample is from new server": two samples of a round   *)
(* come from one server only where four selections found no other.           *)
FreshServer ==
    phase = "ask" /\ retry < MAX_SERVER_SELECTION_RETRIES
      => server.head \notin {samples[k].head : k \in 1 .. Len(samples)}

(* The selection of a server ends, however DNS repeats itself *)
SelectionEnds == (phase = "select") ~> (phase # "select")
=============================================================================
