# TLA+ models of the NuttX applications

This directory models services of the NuttX application repository in TLA+.
TLC checks the models on small instances, and TLAPS proves the main safety
properties for every value of the constants.

The repository is a collection of independent programs. The core chosen here is
the set of services that keep state over time, run beside other tasks and depend
on an unreliable network or on a device that calls back:

- the DHCP server (`netutils/dhcpd/dhcpd.c`),
- the DHCP client (`netutils/dhcpc/dhcpc.c`),
- the NTP client (`netutils/ntpclient/ntpclient.c`),
- the TFTP client (`netutils/tftpc`),
- the audio player (`system/nxplayer/nxplayer.c`).

`PROJECT.json` lists every part of the repository, the source lines each
definition models, the runs, the theorems, the hazards and the findings.

## 1. Inventory

| Part | State | Operations | What makes it hard |
|---|---|---|---|
| DHCP server, lease table | a slot per address (client, allocated mark, expiry), the clock | DISCOVER, REQUEST, DECLINE, RELEASE, anything else, expiry, restart | lazy expiry, sends that fail half-way, clients in any order |
| DHCP server, option parser | a position in the packet | parse, append | fields that overflow into other fields |
| DHCP server, daemon | state, pid, `ds_lock`, `ds_sync`, the task's socket | `dhcpd_start`, `dhcpd_stop`, `dhcpd_run` | the task changes the state without the lock; a signal can be lost |
| DHCP client | transaction id, result, interface address, cancel flag, thread | `dhcpc_request`, `dhcpc_request_async`, `dhcpc_cancel` | losses, late replies, rival servers, cancel at any point |
| NTP client, daemon | state, pid, `lock`, `sync`, saved samples | `ntpc_start`, `ntpc_stop`, `ntpc_status`, `ntpc_daemon` | daemon and callers share a lock and signal each other |
| NTP client, servers | server list, exclusion list, samples of the round | next address, select, ask, Kiss-o'-Death | DNS that repeats itself, addresses of two lengths |
| NTP client, time | 64-bit timestamps, two clocks | offset, median, set the clock | wrap-around, wrong servers, another task that sets the clock |
| TFTP client | block number, port, retries, the file written | get, put | duplicates, lost ACKs, second transfers, a 16-bit block number |
| Audio player | context, mutex, message queue, buffers, references | play, stop, pause, resume, release, the play thread | two threads and a driver that calls back |
| Network start-up | interface state, a semaphore | monitor loop, signal handler | an absolute timeout on a clock that is set |
| Audio recorder, looper | as the player | record, loop, stop, pause, release | as the player, with two devices in the looper |
| ZMODEM, Modbus | protocol state, timers | send, receive | timeouts and retransmission |
| Everything else | see `components` in `PROJECT.json` | | mostly I/O, parsing, or ports of other projects |

How the parts interact: DHCP clients and servers exchange broadcast datagrams.
The NTP client sets the clock that the DHCP server uses for its leases. The
network start-up (`netutils/netinit`) runs the DHCP client once and starts the
NTP client.

What must be right:

- an address is never leased to two clients, and a lease that was acknowledged
  lasts as long as the server said;
- a client uses only an address that its server reserves for it;
- one instance of a daemon runs, calls of its API exclude each other, return and
  have their effect;
- the clock that is set is right as long as most servers are, and a server that
  asked to be left alone is;
- a transferred file is the file, whatever the network does, and success is not
  reported for a part of it;
- the player's context outlives everyone who uses it, no buffer is freed that
  the device still has, and no call hangs.

## 2. Modules

| Module | Models | Relation |
|---|---|---|
| `AddressPool` | what a DHCP server promises: an exclusive pool of addresses | abstract |
| `DhcpdLeases` | the lease table operators and the four handlers of `dhcpd.c` | pure operators |
| `Dhcpd` | one server against every message, a clock and restarts | EXTENDS `DhcpdLeases`, implements `AddressPool` |
| `DhcpdProofs` | theorems about `Dhcpd` and `DhcpdDaemon` | |
| `DhcpWire` | UDP sockets: bounded queues, broadcast (external to the repository) | |
| `Dhcpc` | the client thread and `dhcpc_cancel` | EXTENDS `DhcpWire` |
| `DhcpNet` | clients and servers on one network | composes `Dhcpc` and `DhcpdLeases` |
| `DhcpNetProofs` | theorem about `DhcpNet`: the shape of its state; what each action does | |
| `DhcpNetLeaseProofs` | theorem about `DhcpNet`: a client asleep has its lease | EXTENDS `DhcpNetProofs` |
| `DhcpNetCalmProofs` | theorems about `DhcpNet` on a network that works | EXTENDS `DhcpNetLeaseProofs` |
| `DhcpdDaemon` | start and stop of the server task | |
| `NtpcDaemon` | start, stop, status and the daemon loop | |
| `NtpServers` | the choice of servers | |
| `NtpTime` | timestamp arithmetic | pure operators |
| `NtpcProofs` | theorems about `NtpcDaemon`, `NtpServers` and `NtpTime` | |
| `NtpClock` | a round of samples and the clock it sets | EXTENDS `NtpTime` |
| `FileCopy` | what a file transfer promises: blocks in order, success for the whole | abstract |
| `Tftp`, `TftpProofs` | `tftpget_cb`, `tftpput_cb`, `tftp_rcvack`, a server and a network | implements `FileCopy` |
| `NxPlayer` | the player's calls, its play thread and the device | |
| `NxPlayerProofs` | theorem about `NxPlayer`: the context outlives its users | |
| `NxPlayerStopProofs` | theorems about `NxPlayer`: buffers come back, stop stops | EXTENDS `NxPlayerProofs` |

A module `MCx` with its `.cfg` files instantiates the module `x`. A definition
whose comment starts with "Mutant" is a deliberately wrong variant. Replacing
the right definition by it makes TLC report the property named for it in
`PROJECT.json`, which shows that the property depends on that code.

### State and actions against the code

**Server table.** `leases` is `ds_leases`. A handler (`dhcpd_discover`,
`dhcpd_request`, `dhcpd_decline`, `dhcpd_release`) is an operator that returns
the set of its outcomes: the table and the reply that is sent, if any. A failed
send is an outcome of its own. It leaves the table changed in `dhcpd_sendoffer`,
which reserves first, and unchanged in `dhcpd_sendack`, which sends first.
`dhcpd_leaseexpired` clears a slot as a side effect, and so do the operators
that call it. `promise` is a history variable: who was ACKed each address and
until when. Messages are records of the options the handlers read.

**Client.** `st[c].pc` is the place of the client's thread in `dhcpc_run` and
`dhcpc_request`. The send, the wait, the three kinds of answers, the timeout,
the error returns and the check of the cancel flag are actions. `ifaddr` is the
address of the interface, which the code changes before the REQUEST and puts
back on some of the ways out. `acked` in `DhcpNet` is a history variable.

**Daemons.** The models have one action per access to shared state, so that
every interleaving of the callers and the task is explored. `at[c]` and
`place[t]` are the places of callers and tasks. A signal ends a `recv()`, a
sleep or an exchange. It also ends a `sem_wait()`, whose result neither file
looks at: an interrupted caller (`Interrupted`), and in `NtpcDaemon` an
interrupted daemon (`SaveInterrupted`), goes on without the lock and posts it at
the end all the same. The history variables `barged` and `forced` count how
often. A signal to a `dhcpd` task that is not in `recv()` has no effect; the
place `ready` is the moment between the loop's test and the call of `recv()`, and
the history variable `signal` says whether the last signal was taken or missed.

**NTP servers.** An address is modelled as a head and a tail of bytes, since
`memcpy` of an IPv4 address leaves the tail of the slot as it was and `memcmp`
compares both.

**NTP time.** Timestamps are integers modulo `SecMod * Frac`. The conversion to
and from timespecs, the translation between 1900 and 1970, the halving before
subtraction, the average of two offsets and the width of `time_t` are those of
the code with smaller moduli.

**TFTP.** `pc` is the place of the client in `tftpget_cb` or `tftpput_cb`,
whichever `op` says, and `retry` and `tries` are the two counters that are both
called `retry` in the code. Block n of the file is the number n, so that a block
in the wrong place shows; on the wire it has the number n modulo `Mod`. The
server and the network are external. `srv` has one transfer per port, because a
server opens one for every request it receives, repeated ones included. A `link`
says whether answers arrive in time, whether files and sockets may fail, and how
many datagrams may be lost, repeated or foreign.

**Player.** A section under `pplayer->mutex` is one action. What the code does
without the mutex is split where another thread can come between: the test of
the state and the rest of `nxplayer_playfile`, the test, the ioctl and the
assignment of `nxplayer_pause`, the test and the message of `nxplayer_stop`. A
descriptor is the number of the call that opened it, so that a thread that uses
or closes the file of another call shows. `at` and `th` are the places and locals
of the play threads. `env` says whether the application may overtake the play
thread (`sched`), and whether ioctls and allocations may fail. The thread has a
high priority (`nxplayer.c:1983`), and `sched = "priority"` is the case in which
that is enough: its reads and ioctls do not block, so that the application runs
only while the thread waits for a message. A `read()` or an ioctl that blocks is
the case `any`.
The device (`drv`) follows the protocol stated in the comment at
`nxplayer.c:971`.

## 3. Runs

Passing runs:

| Run | Question | Instance |
|---|---|---|
| `dhcpd` | Does the table keep what was promised, and is it an exclusive pool? | 2 clients, 3 addresses across a .255/.0 boundary, 5 ticks |
| `net_safe` | Does a client asleep on its lease really have it? | losses, timeouts, 2 transmissions; 2 clients for 1 address, or 1 client and 2 rival servers |
| `net_live` | Does every exchange that begins on a network that works end with a lease, and does `dhcpc_cancel` return on one that does not? | 2 clients, 2 addresses, ids that wrap around; or 1 client, send and receive errors, losses, restarts |
| `daemon` | How far do start and stop of the server exclude each other, do they have their effect and return? | 2 callers, 2 task ids, failing sockets and task creation, direct calls of `dhcpd_run`, interrupted waits |
| `ntpc` | Does the NTP daemon run once, with whole samples, and stop when told to? | 2 callers of all functions, 2 task ids, 2 samples, 1 retry, failures of creation and allocation, interrupted waits |
| `ntpc_once` | Does a daemon without STAY_ON end, and do start and status return? | the same without `ntpc_stop` and with memory for the samples |
| `ntp_servers` | Are servers chosen as the comments say, and does the choice end? | 2 host names, 3 servers, a list of 2 |
| `ntp_clock` | Is the clock that is set right? | 3 samples, wrong servers, unequal delays, late answers, another setter |
| `tftp` | Is the file copied, and do the calls return? | 3 blocks, 4 block numbers, 2 ports, 2 tries, 1 loss, repetition or foreign packet, any delay and order |
| `nxplayer` | Does the context outlive its users, do buffers come back, does stop stop, do calls return? | 2 plays of files of 1 or 3 buffers, 2 buffers in the device, with and without failures |

Runs in which TLC finds a counterexample to what a comment of the code says
(`findings` in `PROJECT.json` quotes it):

| Run | What happens |
|---|---|
| `net_requested` | a client is ACKed another address than the one it requested |
| `ntpc_deadlock` | `ntpc_stop` holds the lock and waits for the daemon, which waits for the lock |

### Known deviations

The properties of the passing runs hold under conditions that the constants or a
history variable state. Outside them the models violate the properties. These
cases were found while the models were built. They have no listed run; the
second column says how to see each one.

| What happens | How to see it |
|---|---|
| A renewal starts with a DISCOVER, which cuts the lease in force to the offer time (`dhcpd.c:1187`). If the rest of the exchange is lost, another client is given the address. | `NoSharedAddress` without `Reliable`, for `[Loss EXCEPT !.maxclock = 4]` with `Retries = 1`, `MaxXid = 3` |
| A NAK of the server that was not chosen ends the exchange (`dhcpc.c:850`, `dhcpd.c:1246`). | `ExchangeSucceeds` in `net_live` for `Calm` with one client and the two servers of `Rivals` |
| An answer that is 256 exchanges old is taken for a new one, because only the last byte of the transaction id changes (`dhcpc.c:706`). | `BoundLeaseHeld` in `net_safe` with `XidMod = 2` |
| When no answer to the REQUEST arrives, the client keeps the address it was only offered (`dhcpc.c:900`). | in `Dhcpc`, `Return` leaves `ifaddr` as it is |
| Without traffic `dhcpd_stop` may wait forever, with the lock held: its signal is lost on a task that is on its way to `recv()` (`dhcpd.c:1687`). | `CallsReturn` of `DhcpdDaemon` without `SignalLost` |
| A caller of `dhcpd_start` or `dhcpd_stop` whose wait for `ds_lock` is interrupted goes on without it and posts it at the end: from then on the lock admits one caller more, and two servers may run (`dhcpd.c:1618`, `:1673`). | `OneServer` of `DhcpdDaemon` without `Barged`, in `daemon` without its constraint |
| A stop request overwrites the STOPPED of a task that ended by itself, and every later start does nothing (`dhcpd.c:1679`, `ntpclient.c:1552`). | `ds_state = "STOP_REQUESTED" ~> ds_state # "STOP_REQUESTED"`, and the same for `state` |
| A `dhcpd_run` called directly and a task of `dhcpd_start` serve from one table (`dhcpd.c:1487`). | `OneServer` without `Direct` |
| The same in the NTP client: the daemon that `ntpc_stop` interrupts in `sem_wait` (`ntpclient.c:1371`), or an interrupted caller (`:1473`, `:1546`, `:1585`), releases a lock it does not hold. | `OneDaemon` or `StatusOfOneRound` of `NtpcDaemon` without `Forced`, in `ntpc` without its constraint |
| A daemon that cannot allocate its samples leaves `ntpc_start` waiting (`ntpclient.c:1234`). | `CallsReturn` in `ntpc_once` with `AllocFails = TRUE` |
| An IPv4 address copied over an IPv6 address keeps its tail and matches no entry of the exclusion list (`ntpclient.c:945`). | `DeniedIsNotAsked` in `ntp_servers` with `V4 = {a}`, `V6 = {b, c}` |
| With a `time_t` wider than 32 bits a clock that is ahead is set 2^32 seconds forward (`ntpclient.c:587`). | `SetTimeIsTrue` in `ntp_clock` with `TimeMod = 128` |
| An exchange across the end of the NTP era moves a right clock by half an era (`ntpclient.c:524`). | `SetTimeIsTrue` in `ntp_clock` with `Epoch = 80` and no skews, errors or alterations |
| A DATA block that is repeated uses up a retry of `tftpget` and is not acknowledged again (`tftpc_get.c:212`): when an ACK is lost the transfer fails. | `Completes` of `Tftp` without its last disjunct |
| After the last block number `tftpget` sends its request again and writes the first block at the end of the file (`tftpc_get.c:154`). | `ImplementsCopy` in `tftp` with `Blocks = 5` |
| `tftp_rcvack` writes the block number through a NULL pointer when it awaits the ACK of the request (`tftpc_put.c:233`, `:314`). | `NullWrite` has both outcomes; `result # "crash"` is violated |
| `tftp_rcvack` compares the port with itself (`tftpc_put.c:188`) and so takes ACKs of any port of the server. | in `Tftp`, `PutAcked` does not test `m.port`; `LockStep` holds nevertheless |
| `nxplayer_stop` does nothing before the play thread has set PLAYING (`nxplayer.c:1719`), or when START or the first buffers failed; the playback goes on. | `StopStops` without the condition on `env.sched`, or without the one on `env.faults` |
| A pause that meets the end of the file leaves PAUSED behind (`nxplayer.c:1438`); every later play returns `-EBUSY`. | `state = "PAUSED" /\ app.pc = "idle" => \E t \in Play : Alive(t)` in `nxplayer`, also with `sched = "priority"` and no faults |
| A second `nxplayer_playfile` before PLAYING overwrites the descriptors of the first; when its RESERVE fails they become -1. The first thread then waits forever, and release with it, or frees buffers the device has (`nxplayer.c:1791`, `:2008`). | `CallsReturn` and `BuffersBack` with `env.faults = "none"` in place of `env.sched = "priority"` |
| When `pthread_create` fails the reference taken for the thread is kept (`nxplayer.c:1993`) and the context is never freed. | `ContextAlive` without `env.faults = "none"` in its last line |

### Bounds

- `MaxClock`, and `net.maxclock` in `DhcpNet`, bounds the clock. In `dhcpd` it
  is long enough for an offer (1 tick), a quarantine (2) and a lease (2 to 4) to
  run out and the address to be given away again.
- `MaxXid` bounds the exchanges of a client. Where `XidMod` is 2 the
  transaction id wraps around instead and the exchanges are not bounded.
- `net` is chosen once, from the networks that `MCDhcpNet` lists. `net.room` is
  the room of a socket; a datagram that does not fit is dropped. `net.quick` says
  that an exchange is over before the clock ticks, since a tick stands for a
  large part of a lease. `net.prompt` says that an answer on its way arrives
  before the timeout, and only the network that works has it. `Reliable` joins
  the conditions under which a network works.
- Two callers are enough to compete for a lock. Two task ids are enough for a
  second daemon beside a first; the proofs cover any number.
- `MaxSem` is `SEM_VALUE_MAX`, at which `sem_post` fails. `MaxBarged` and
  `MaxForced` bound the count of those that went on without the lock; from the
  bound on `LockBalance` claims nothing, below it the count is exact.
- In `NtpClock` a round has three exchanges, so that one wrong sample meets two
  right ones and a round with a lost answer has an even number. Another task
  sets the clock at most once in a round, and of the answers that were given up
  the last is still on its way. `Tolerance` is half the difference of the delays,
  the rounding, and the second below which an alteration goes unnoticed.
- After a wait for the lock has been interrupted the other properties of the
  daemons claim nothing, only `LockBalance` does. `daemon` and `ntpc` therefore
  follow such behaviours only while at most one task exists and, in `daemon`,
  nobody has called `dhcpd_run` directly, in `ntpc`, the count is exact
  (`Followed`). `ntpc_once`, which does not check `LockBalance`, does not follow
  them (`LockIntact`).
- `Tftp`: three blocks are a first, a middle and a last one; four block numbers
  are enough for them, as 2^16 are for files of up to 65535 blocks. Two ports are
  a transfer and the one a repeated request opens. One fault is a loss, a
  repetition or a foreign packet at any point; where answers may be late, every
  timeout adds a repetition that is not counted.
- `NxPlayer`: two plays are a playback and the next one, or the one that
  overtakes it. A file of one buffer ends while the pipeline is filled, one of
  three while the device plays. `Lengths` counts up to the buffer marked final.
- Symmetry is used in `dhcpd`, `net_safe` and `ntpc`. In the last two only
  invariants are checked; in `dhcpd` the action properties and the pool specification treat all
  clients alike and have no liveness part.

### Fairness

- `DhcpNet`: threads and servers that can run do, the clock advances, and a
  caller that has raised the cancel flag goes on. No fairness says that a
  datagram arrives; the network `Calm` of `net_live` loses none.
- `DhcpdDaemon`: callers and tasks that can run do. The lock is strongly fair,
  because NuttX semaphores wake waiters in order of priority and arrival.
  Nothing says that a datagram arrives or that a signal interrupts a caller, so
  a task in `recv()` may stay there for ever unless it is signalled.
- `NtpcDaemon`: the same, and every exchange ends, since the socket has a
  receive timeout.
- `NtpServers`: DNS and the socket answer or time out.
- `Tftp`: the client runs, its receive timeout included (`SO_RCVTIMEO`), and the
  server reads what has arrived. Nothing is assumed of its retransmissions.
- `NxPlayer`: a call and a play thread that can go on do, and the device returns
  the buffers it has played. The application need not call anything.

Deadlock is checked except where the system really may stop: at the bound of the
clock or of the rounds, when a transfer or the player is done, and where a hung
call stops an `NtpcDaemon` instance.

## 4. Theorems

**`DhcpdProofs`**, for any set of clients, any pool, any configured times and
any messages. The inductive invariant `IInv` joins the type invariant,
`LeaseHonoured` and `RepliesBacked` with `TableOK`: a client is in one slot at
most, a slot with a client is marked allocated, and an unallocated slot is
blank. The last clause is the strengthening: `dhcpd_request` grants an address
on which `dhcpd_findbyipaddr` finds no lease, and that is safe only because a
slot without the mark has no client and no expiry. The proof first states the
effect of every handler: it changes nothing, grants one address that its client
may have (`MayGrant`), clears an expired slot, or gives up the sender's own slot.
Each effect then preserves `IInv`. From it follow `TypeCorrect`, `OneLease`,
`Honoured`, `Backed`, the action properties `GrantedOnce` and `QuarantineLasts`,
and `PoolImplemented`: each step is a step of `AddressPool` under the mapping
`Held`, the slots that have not expired.

The same module has the theorems about `DhcpdDaemon`, for any number of callers
and task ids. `DaemonTypeCorrect` and `CallersExclude` hold always. The latter is
`LockBalance`: the value of `ds_lock` and the callers inside add up to one, and to
one more for every wait that was interrupted. Its proof (`LockEffect`,
`NextBalance`) follows what each step does to the lock, the count and the set of
callers inside, with the library's theorems about cardinalities. `Calls`, what
the callers do among themselves, holds until a wait is interrupted, and with it
`StartsEffectively`. `Tasks`, what they know of the tasks, holds until then or
until `dhcpd_run` is called directly, which the history variable `origin`
records. It says what the place of a task tells
about the state: a task that has not yet said that it runs finds STARTED, watched
over by the caller that wrote it, and a task that serves finds RUNNING or
STOP_REQUESTED. So nobody creates a second one (`ServesAlone`), and `dhcpd_stop`
has its effect (`StopsEffectively`).

**`DhcpNetProofs`, `DhcpNetLeaseProofs`, `DhcpNetCalmProofs`**, for any number of
clients, servers and addresses and any configured times. The theorems are about
`NetInit` and `NetNext` and need no fairness.

- `NetTypeCorrect` holds on every network, whatever it loses and whatever fails.
  Its invariant `NetTyped` adds to the types what the server tables must satisfy
  for a handler to be called at all: a client has one slot at most.
- `NetLeaseHeld` (`BoundLeaseHeld`) has the hypothesis `MaxXid < XidMod`: no
  client starts more exchanges than there are transaction ids. Without it an old
  answer could have the id of the current exchange. What a client holds while it
  sleeps depends on every message of the exchange that is still in some socket,
  so the inductive invariant `LInv` follows the exchange. While a client
  discovers, an OFFER with its id names an address its server holds for it. Once
  it has asked, that address is its own, no DISCOVER of it waits behind a REQUEST,
  and an ACK with its id names that address for a whole lease. Once it is ACKed,
  nothing it has sent is left that would cut the lease, and it wakes up before the
  lease ends. Each action then has two lemmas: what it does to its own client,
  and that it leaves the leases and the messages of the others alone.
- `NetExchangeSucceeds` and `NetNoSharedAddress` have in addition the hypothesis
  `AmpleNets`: a network on which both properties claim something (`Reliable`) has
  one server, with a usable address for every client and room for a message of
  each, and nobody cancels. `Calm` of `net_live` is such a network. Known
  deviations has the case of two servers. The invariant `CalmInv` says that a
  client waits for nothing that is not on its way: either its question is the
  only message it has at the server, or the answer is the only message in its
  socket. Every slot belongs to a client or is blank. Since a client has one slot
  at most, a client without one leaves fewer slots in use than there are usable
  addresses, so `dhcpd_allocipaddr` finds one (`AddressLeft`, by counting). The
  steps of the proof use only `Enough`, that there is room and an address; the
  counting that gives it is at the end of the module (`EnoughLeft`). The server therefore answers every DISCOVER with an OFFER and every REQUEST with an
  ACK. The lease that was ACKed stays the client's own, and a slot has one client.

The run `net_live` also covers transaction ids that come round (`XidMod = 2`),
which the hypothesis on `MaxXid` leaves out of these theorems.

**`NtpcProofs`** has for the NTP daemon what `DhcpdProofs` has for the DHCP
server's, and `StatusIsWhole`. The invariant `NtpcInv` is `NtpcTypeOK`, the shape
of calls and rounds, and `Forced \/ Safe`: what makes the daemon correct holds
until the daemon or a caller goes on without the lock, which the history variable
`forced` counts. `CallersExclude` is `LockBalance` again, and holds always.

For the choice of servers, with any number of samples, hosts, addresses and
answers of DNS, `ServersTypeCorrect` says that the list and its indices stay in
their bounds. `ServersDenied` and `ServersFresh` are `DeniedIsNotAsked` and
`FreshServer` under the hypothesis `OneLength`: all addresses are IPv4 or all are
IPv6. Known deviations says what happens otherwise. The invariant is that every
slot, sample and entry of the exclusion list has the tail its head implies
(`Pure`), so that `memcmp` of two of them compares addresses.

For the time, with any width of the timestamps, the average of two offsets lies
between them (`AverageBetween`), and the offset of a round lies between its
middle samples (`MedianIsMiddle`). The smallest value of `int64_t`, whose negation
overflows, is excluded.

**`TftpProofs`**, for any file, retry limit, set of ports, number of faults and
behaviour of the network. `TypeCorrect` holds for files of any length: counters
and block numbers stay in range and nothing but blocks of the file is written.
The other two are for files with fewer blocks than there are block numbers
(`Blocks < Mod`). `TransferInvariant` is `TypeOK` and `LockStep`,
`TransferCopies` the implementation of `FileCopy`. `LockStep` is not inductive:
that the two ends are at most a block apart depends on what is on the wire. The
inductive invariant adds it: every DATA on its way to the client carries a block
its transfer has reached, every ACK to the server one the client has written, the
same the other way round for put, and the client acknowledges and sends blocks
only to the transfer it has chosen. What is written is a prefix of the file. With `Blocks < Mod`
a number on the wire then stands for one block only, and the block that is
accepted is the next one.

**`NxPlayerProofs`, `NxPlayerStopProofs`**, for any number of plays and buffers
and any file lengths.

- `PlayerContextAlive`, for any scheduling and any failures. The inductive
  invariant says who owns a thread. A thread that runs is in `play_id` or is the
  one the application is joining. While the application joins, creates or drops
  its reference, `play_id` is 0. So a thread is created only when no other runs,
  and the references, counted by these places, cover every user.
- `PlayerBuffersBack`, for any failures, says something where the application does
  not overtake the play thread. The invariant `PInv` relates the thread, the
  device and the queue: the thread that runs has the device and its queue, and
  counts as outstanding the buffers the device has and those in messages it has
  not read. The device says that it is done only when it has none, and that
  message is the last. So the count is 0 when the thread frees its buffers. A stop
  is sent only to a thread that waits at an empty queue, so the queue has room for
  it and for the messages of all buffers. `PInv`, the calls that
  play and the message that stops are in `NxPlayerProofs`, all other steps in
  `NxPlayerStopProofs`. They use the facts about finite sets in `Counting`, proved
  at the end of the second module.
- `PlayerStopStops` says something where nothing fails either. `FInv` adds that a
  thread gets its file and starts the device. It is then PLAYING when the
  application next runs, and `nxplayer_stop` joins it.

Assumptions on the constants are the named `ASSUME`s of the modules
(`LeaseConfig`, `ServerConfig`, `WireConfig`, `DaemonConfig`, `TimeConfig` and so
on). A hypothesis of one theorem only is in its `ASSUME ... PROVE`.

**Only model-checked:** all liveness properties, since the prover does not handle
fairness: `Configured`, `CancelReturns`, `SelectionEnds`, `Returns`, `Completes`,
`DaemonEnds` and `CallsReturn` of the daemons and the player; and `SetTimeIsTrue`
of `NtpClock`, which needs an induction over the sorted samples and products of
moduli that are variables. `RequestedIsAcked` and `CallsReturn` of `ntpc_deadlock`
are the two that the code violates.


## 5. What is not modelled

- The bytes of packets: option parsing and encoding in the DHCP server and
  client, and the fields of an NTP packet that are only compared with constants.
- `dhcpc_open`, `dhcpc_close` and the sockets they set up.
- DNS inside the NTP daemon: in `NtpcDaemon` a signal makes the current exchange
  fail with EINTR, wherever in the exchange it arrives.
- A clock that is set under the DHCP server, and the wrap-around of `time_t` in
  lease expiries.
- Two alterations of the clock in one NTP round that cancel each other.
- Opening and closing the local file of a TFTP transfer, and the text of its
  packets.
- In the player: volume, balance, tone, fast forward, rewind and the preferred
  device, which only pass settings to the driver; the decoders and the HTTP
  source; a read error, which the code treats as the end of the file.
- The parts listed as `not_modelled` in `PROJECT.json`, with the reason for each.

## 6. Plan

Modelled: the DHCP server, client and network, both daemons, server selection
and time, the TFTP client and the player. What could follow, in this order:

1. `DhcpOptions`: the option parser as operators over short packets, against a
   reference parser that follows the overload rules in the comments.
2. The recorder and the looper, from `NxPlayer`.
3. `NetMonitor`: the monitor of `netinit` with a clock that the NTP client sets.
4. A composition of the DHCP server with a clock that is set, to replace the
   monotonic clock of `Dhcpd`.
5. ZMODEM and the Modbus receive state machines.
