# TLA+ models of mkgo

mkgo is a UEFI x86-64 microkernel in C++ that runs every service as a
WebAssembly session. The services (file systems, network, login, terminal,
package manager, compiler, device drivers) are written in Go. This directory
models the parts whose correctness depends on the order in which several actors
take their steps, or on cases at the edge of a range. TLC checks the models on
small instances; TLAPS proves the main safety properties of the kernel, of file
calls and of several services, and three refinements, for every value of the
constants.

## The system and its parts

| part | state | operations that change it | interacts with |
|---|---|---|---|
| scheduler (`core/sched.cc`) | session table, `next_rr`, current session | spawn, yield, exit, kill, reap, scan | ports, registry |
| ports (`core/ports.cc`) | port table with a message ring each, handle tables | create, bind, send, receive, drain, clear handles | scheduler, registry |
| registry (`core/kernsvc.cc`) | capability masks, knobs, settings | request dispatch, replies through a port | scheduler, ports, log |
| spinlock (`arch/x86_64/lock.cc`) | two ticket counters | acquire, release, try | all CPUs |
| heap (`core/rt.cc`, `core/mm.cc`) | pool pointer, one list per class, list of large blocks | allocate, free, reallocate | everything in the kernel |
| log (`core/log.cc`) | byte ring and its total | push, read | registry, shell |
| file call routing (`core/fsroute.cc`, `core/fsimport.cc`) | pending table, call counter and open files of a slot | expect, intercept, wait, open, read, write, close | ports, fs server |
| fs server (`services/fs`) | KFS log or FAT16 volume, caches, users, bound inboxes | file operations, commit, replay, mount | routing, block device, image builder |
| init (`services/init`) | service records | spawn, sweep, restart, reload | registry |
| login (`services/login`) | user table, one request at a time | check, spawn, focus, register, answer | registry, fs server |
| network (`services/net`) | connections, caches, lease, sockets | segments, timers, calls | packet window, clients |
| devices (`services/usb`, `services/bt`) | transfer rings; UART and HCI state | submit, doorbell, process; command, scan, read | hardware |
| display and console (`services/display/terminal`, `services/console`) | grid, cursor, escape state; last prompt row | bytes, flush, tick; datagrams | shell, serial line |
| packages (`services/pkg`, `tools/modulesign`, `tools/module-sign`) | installed modules, trusted keys | stamp, sign; verify, install, update, remove | fs server |
| compiler (`services/jitc`) | decoded module, code buffer, operand depth | decode, emit; interpret | engine |
| guest library (`guests/lib`) | sequence counters, reply book | call, wait | ports |

`components` in `PROJECT.json` is the complete list, with what is left out of
each part.

What makes the system hard to test: sessions interleave at every yield; a slot
of the session table is reused while sid values of its former session survive in
ports, handles, queued messages and the records of init; a kill removes messages
from the middle of rings; tables and rings are small and fixed; replies to
different clients travel through one ring; power fails between two records of
one operation; the code a compiler emits is right or wrong at the edges of a
range.

## Modules

Kernel:

| module | models | state and actions against the code |
|---|---|---|
| `PortQueue` | the ring of a port (`core/ports.cc`) | operators on `[qn, qh, qt, slot]`: the enqueue of `port_send`, the dequeue of `port_recv`, `ports_drain_session` |
| `PortRing` | one ring under sends, receives and kills | `Send`, `Recv`, `Kill`; each holds the port's spinlock, so each is one step |
| `BoundedFifo` | what a port promises: a bounded FIFO mailbox | abstract; `PortRing` implements it until a kill drains the ring, `WindowRing` always |
| `SessionTable`, `Sched` | the scheduler loop and what a running session can do to the table | `Loop` is one iteration of `sched_run`; `Yield`, `Exit`, `Kill`, `Spawn`, `Halt` |
| `Kernel` | session table and port table together, with KILL and SPAWN of the registry | composes `SessionTable` and `PortQueue`; one action per port import and request |
| `TicketLock` | `arch/x86_64/lock.cc` | every shared access of acquire, release and try_acquire is a step; counters wrap at `Mod` |
| `FifoLock` | what the lock promises: one holder, service in arrival order | abstract; `TicketLock` implements it |
| `Heap` | `core/rt.cc` over `core/mm.cc` | `Malloc`, `Free`, `Realloc`, and `RawAlloc` for the users of the pool below |
| `KLog` | the log ring, LOGDUMP and `LogAll` | `log_push` by anyone, between the requests of one reader |

Files:

| module | models | state and actions against the code |
|---|---|---|
| `FileTree` | what a store promises: a tree of directories and files | operators; the ghost of `Kfs` and `FatStore` and the store of `FsCall` |
| `Kfs` | the log-structured store (`services/fs/kfs.go`) | `recs` holds the records an operation still has to append; each append is a step, so power can fail between two |
| `Fat16`, `FatStore` | the FAT16 store (`services/fs/fat16.go`) with its table, directories, long names and caches, at work on a volume | one action per store operation, read and remount; the first part of `FatStore` is the volume `tools/img` writes, from which it starts, and the independent reader it reads the device with |
| `FsCall` | file calls end to end: `fsimport.cc`, `fsroute.cc`, the client library, and the service loop with its path policy (`services/fs/server.go`) | `Authorize` and `Dispatch` are pure; the actions compose them with the pending table, the fs port, the inboxes and the session slots |

Services:

| module | models | state and actions against the code |
|---|---|---|
| `Supervisor` | `services/init` over a session table whose slots are reused | every registry call of boot, sweep, restart and reload is a step; sessions die and others spawn in between; an answer may be lost, or be another client's |
| `Login` | `services/login` between clients and the fs server | the steps of one AUTH request and each way `registerFS` can fail; the handle table; fs starts late, is slow or restarts |
| `Packages` | signing tools and package managers | host commands change one file; a manager's install is several writes, each of which can fail |
| `Terminal` | the escape machine and screens of `term.go` | one action per byte, `Flush`, `Tick` |
| `Console` | the relay of `console.go` | `Relay` of one datagram |
| `Tcp` | `tcp.go`, both ends | `Write`, `Recv`, `Close`, `Deliver`; the wire loses, repeats, reorders and resets |
| `Dhcp` | the lease client and its loop | one action per datagram and time-out; server external |
| `NetStack` | address resolution and ping under one lock | each pump of a frame is a step; peers external |
| `NetPort` | the socket service and its clients | requests, replies, clients that give up and whose replies then come late |
| `WindowRing` | the shared packet window (`packet.go`) | fill, publish, copy and release are separate steps |
| `Packets` | IPv4, ICMP, UDP, Ethernet, DHCP options, addresses | pure functions over bounded inputs |
| `UsbRing` | control transfers through a cycle-bit ring (`xfer.go`) | submit, doorbell, process |
| `Bluetooth` | one discovery and read cycle (`h4.go`, `hci.go`, `att.go`) | bytes arrive one at a time; controller external |
| `WasmDecode` | the module decoder | a recursive descent over bytes, against an encoder of its own that also pads its numbers |
| `JitAlu`, `JitFloat`, `JitMem` | integer, float and memory instructions | each twice: what the interpreter computes, what the emitted x86 code computes |
| `JitFunc` | function bodies with blocks, branches, calls and dead code | one instruction is written per step, after one of several openings; at the end both engines run the body |

`*Proofs` hold the theorems (see Proofs), `MC*` the instances for TLC. Operators
whose comment begins with "Fault:" are altered copies of the definition that
follows them. Nothing uses them; each is a mistake that one of the properties
must notice when it replaces the original.

## Runs

A passing run covers several parts that share no state. The variable `part` says
to which of them a behaviour belongs; the others stay in their initial states, so
the state space is the sum of theirs and every part is explored completely at its
bounds.

| run | parts | shows |
|---|---|---|
| `core` | port ring, scheduler, lock, init | `CountCoversRing`; without a drain the ring implements the mailbox and what is queued is received; `BoundedBypass`, `StackInUse`, runnable sessions run; mutual exclusion, arrival order and no starvation; init never has two live sessions of a service that it was told of, and a service comes back |
| `storage` | session and port tables, heap, log, KFS, FAT16 | a killed session leaves no mail; heap blocks never overlap and none is lost; a lapped reader gets the log in order; reads see writes and a mount restores what was promised, with power failures and device errors; the FAT16 store and the bare device hold the promised tree |
| `fs_calls` | routing, client library, fs server | replies reach their call, table entries are given back, homes are changed by their user or by user 0 |
| `net` | TCP, DHCP, resolution, sockets, window | streams are prefixes, acknowledged bytes have arrived, an orderly close is complete and takes effect; the address is a granted one; the service blocks itself only with cold tables; a read returns data in order and only what was taken for it; the window is a FIFO |
| `services` | login, packages, terminal, console, packets, compiler, USB, Bluetooth | registration precedes use; what verifies was signed; the screen is kept and drawn; the prompt stays; packets survive and damage is refused; modules decode exactly; emitted code and interpreter agree; transfers are whole; a cycle reads the right peer |
| `ring_drain_wedge` | port ring | violated: after a drain the ring can be full by count with an empty head, for ever |
| `kernel_exit` | tables | violated: a session that returns leaves its handles to the next one of its slot |
| `log_dump` | log | violated: a dump has four stray bytes per chunk and misses four between two chunks |
| `kfs_delete` | KFS | violated: the first delete record and all after it are dropped at the next mount |
| `fs_shared_seq` | routing | violated: two sessions wait with the same number and one takes the other's reply |
| `fat_recycled` | FAT16 | violated: a file in the cluster of a deleted directory reads as the old entries |
| `jit_call_trap` | function bodies | violated: a caller goes on after a call that trapped |

The seven violated runs are disagreements between the code and what its comments
or `abi/ABI.md` say; `findings` in `PROJECT.json` quotes both sides.

### Bounds

A bound must leave room for the case a property is about.

* `core`: the ring has three slots and four sends of each of two senders, so the
  cursors wrap. The lock has three CPUs and the smallest modulus the assumption
  `Cardinality(CPU) < Mod` allows, so the counters wrap often. init has two
  services in two slots, so that a slot is taken by another session, and takes
  one answer to another client for its own (`MaxMisread`).
* `storage`: two session slots, each used twice; three ports with rings of one.
  The heap has two classes, the upper one of the size at which the large list
  begins, as in the code, and a pool that six blocks fill. The log ring of twelve
  bytes is read in chunks of three and can be lapped on the way. KFS has room for
  two operations of two records after the format, a checkpoint between the
  records of one, and two faults. FAT16 has nine clusters of two bytes or four
  directory slots and four operations: files span clusters, a directory grows, the
  volume fills, two long names share a short form.
* `fs_calls`: queues of two. With one place, a request that outlived its session
  blocks its successor's, and a number used twice under one name cannot meet in
  the queue.
* `net`: TCP sequence numbers modulo 16 start at 13 and wrap within the first
  bytes; windows of two bytes, three written, one fault. DHCP has two tries per
  request and four faults, so two renewals in a row fail. The counters of the
  window wrap between its second and third frame.
* `services`: the terminal is two by three cells, with escape parameters beyond
  both; machine words are 8 and 16 bits with operands at all signed and unsigned
  limits; floats have 4 exponent bits and 2 or 4 of mantissa and integers are
  sized so that their limits are floats, as 2^31 and 2^63 are; memory has nine
  bytes of two bits and addresses that wrap; function bodies have up to five
  instructions (six in `jit_call_trap`) after an opening that may hold two nested
  blocks, a loop in a block, or an operand under a block, so that branches leave
  more than one frame and drop operands; modules hold every section, their numbers
  are encoded in the shortest form, with one group more and in the longest, and
  they are cut at every byte. An IPv4 packet may have four bytes of payload before
  it is too big (`EthPayloadM`). login has six handles, which two logins use up.
  The USB ring has four places and is filled and lapped within six transfers.

Larger instances were checked once, completely and with the same result:
`Kernel` with rings of 2, and with 3 session slots and one incarnation; `Sched`
with 4 slots; `PortRing` with 4 slots, and with 2 slots and 6 sends; `TicketLock`
modulo 6; `Kfs` with 8 records and two faults, and with 10 records and one fault.
`FsCall` with queues, table and handles of 3, more calls and restarts of both
sessions was explored for its invariants only and not to the end: 36 million
states, up to depth 21, without a violation.

Deadlock is not checked: every part has bounds on calls, messages, records or
operations, and stops when they are used up.

### Fairness

* `Sched`: the loop goes on, and a session that has the core yields, is made to
  yield at a continuation point of the engine after a timer request, or exits.
* `PortRing`: the owner of the port polls it.
* `TicketLock`: a CPU that spins, holds the lock or is inside a try goes on.
  Nothing obliges a CPU to ask for the lock.
* `Supervisor`: init finishes what it began (weak), and begins a sweep again and
  again (strong: it does so every so many turns, whatever else it is asked, and
  now and then its LIST is answered).
* `FsCall`: a session that waits in a routed call goes on to take its reply or to
  spend its budget. The scheduler comes back to it, and the budget is finite. The
  service itself need not make progress.
* `Tcp`: the pump runs for ever, so a segment at the head of the wire is handled.
  The run asks this only of a wire that has had no fault, which is all that
  `CloseTakesEffect` speaks of.

### What the conditions in the properties exclude

`Kfs` records in the ghost `past` which windows of the code a behaviour went
through. `ReadsSeeWrites` and `RestoredUntilDelete` speak of behaviours outside
them:

* `unformatted`: power fails after the superblock, before the root inode. The
  volume mounts with `nextIno` 0 and later hands out the root's number.
* `ungrown`: a growing write is cut after its data record. The bytes lie beyond
  the recorded size until a later write makes them visible.
* `failed`: an error half-way through an operation leaves its first record in the
  log and the image without it.
* `dropped`: a mount dropped complete records behind a delete record; later
  writes go over them and leave the rest as they were.

`FsCall` has two ghosts. `reused` is set when a call number is used twice among
the pending entries, or twice under one name among the queued requests: the
counter belongs to the session slot and outlives the session, so a session
restarted in another slot may count again from a lower number. `RepliesAreOwn`
for routed sessions and `EntriesReturn` hold until then. `orphans` are the
entries nobody will wait for: `fs_roundtrip` does not give its entry back when
the fs port is full, and a kill leaves the entry of the call it cuts off.

`StoreIsTree` in the `storage` run is about operations on names as they are
stored and without deletion of directories; `fat_recycled` shows what that
deletion does. `NeverTwo` speaks of sessions init was told of: one whose SPAWN
answer was lost, or that is not in a list which was another client's answer, runs
on beside the next (`told`; all clients of the registry share its reply ring).
`ComesBack` excludes `Mistaken`: init takes another session in the slot of a dead
service for the service. `RegisteredBeforeUse` excludes users whose registration
fs lost in a restart (`lost`), and those whose registration was not queued and who
are reported (`missed` and `failed`). `CloseTakesEffect`
excludes `Stranded`, a tail still queued in CLOSE-WAIT. `GattReadIsRight` excludes
cycles whose scan ended on half a frame (`cut`). `ScreenHolds` is checked for
scroll regions that end on the screen (`RegionMax`). `EmittersAgree` and
`EnginesAgree` are checked on the instructions left after the disagreements of the
compiler listed below are taken out: the operations are missing from `MCOps` and
`MCLoads`, the bodies from `Tried` (`Quirks`, `LacksElse`), overlapping copies by
`Overlaps`. `AluAgrees` compares whole stacks, but of the least integer divided by
-1 only the result (`LeavesPin`); `EnginesAgree` leaves out the runs that are cut
by the budget of steps.

## Proofs

Each theorem is about a module that a run extends and states the property that
run checks, for every value of the constants that meets the assumptions below.

| theorem | module | states | for every |
|---|---|---|---|
| `RingSafe` | `KernelProofs` | `CountCoversRing` | ring size, set of senders, interleaving with kills |
| `RingIsMailbox` | `KernelProofs` | `ImplementsMailbox` | the same |
| `BypassIsBounded` | `CoreProofs` | `BoundedBypass` | table size |
| `StackInUseHolds` | `CoreProofs` | `StackInUse` | table size |
| `LockSafe` | `CoreProofs` | mutual exclusion | finite set of CPUs, modulus above its size |
| `LockIsFifo` | `CoreProofs` | `ImplementsFifo` | the same |
| `HeapSafe` (with `HeapTyped`) | `HeapNetProofs` | `HeapSound` | set of classes, threshold, pool, sequence of requests |
| `KilledLeavesNothing` | `KernelProofs` | `NoMailFromKilled`, `KilledHoldsNoHandle` | number of session slots, ports, handles and ring slots |
| `LogIsReadInOrder` | `RingProofs` | `DumpInOrder` | ring size above 0, chunk size |
| `WindowIsWire` | `RingProofs` | `WindowIsFifo` | window size that divides the counter range |
| `RepliesReachTheirCall` | `FsProofs` | `RepliesAreOwn` | set of sessions, table, queue, handles, calls |
| `HomesStayOwn` | `HomeProofs` | `HomesAreOwn` | the same, and set of users and paths |
| `InitNeverRunsTwo` | `ServiceProofs` | `NeverTwo` | list of services, number of slots, limit of failures, number of misread answers |
| `LoginRegistersFirst` | `ServiceProofs` | `RegisteredBeforeUse` | set of users, tables, handles, number of restarts of fs |
| `PromptIsRedrawn` | `ServiceProofs` | `PromptStays` | set of texts, length of the session |
| `LeaseIsGranted` | `ServiceProofs` | `AddressIsGranted` | set of addresses, lease time, tries, faults |
| `WarmStackServes` | `HeapNetProofs` | `StuckOnlyWhenCold` | set of hosts, queue sizes, budget |
| `ReadsKeepOrder` | `SockProofs` | `ReadsInOrder` | set of clients of either kind, ports, amount of data |

### Arguments

* `RingSafe`: the type invariant with `CountCoversRing` is inductive. The count
  alone is not: a drain subtracts one per drained slot, and only because the
  count covers the occupied slots does it stay above zero.
* `RingIsMailbox`: until a drain the occupied slots are the `qn` slots from `qh`
  on, without a gap (`CalmInv`). So a receive takes the oldest and a send
  lengthens the row at its end, wherever the cursors wrap.
* `BypassIsBounded`, `StackInUseHolds`: bypasses so far plus the distance of the
  scan to the session never exceed the number of other slots (`BypassInv`); a
  pick of another session raises the first by one and lowers the second by at
  least one.
* `LockSafe`: tickets in use are pairwise different and lie between `owner` and
  `next` (`TicketsInOrder`); there are as many as CPUs waiting (`NoLap`), so the
  counters cannot lap; a try knows how far `next` is from the owner it read
  (`TryKnows`).
* `LockIsFifo`: in addition the line of the abstract lock is the CPUs by ticket
  (`LineInv`), so a release serves its head.
* `HeapSafe`: `HeapSound` with `Shaped` (a block of a class has the size of the
  class) is inductive. Each operation is two halves around `Between`, a heap in
  which one block is in nobody's hands: taken off its list and not yet given
  (`TakeGood`, `GiveGood`), or taken back and not yet listed (`PutGood`).
* `KilledLeavesNothing`: every queued message and every handle belongs to a
  session that was not killed (`KInv`). A drain takes all messages of a session
  from a ring wherever they lie, and nothing is sent in the name of a session
  that is gone.
* `LogIsReadInOrder`: each of the last `LogSize` bytes is in its place in the
  ring, and what the reader has is older than the offset it asks for next
  (`LogInv`).
* `WindowIsWire`: `head` and `tail` are the numbers of frames received and sent
  modulo the counter range, at most a window apart, and the slots between them
  hold those frames (`WinInv`). That the slots divide the range makes the slot of
  a frame independent of the wraps.
* `RepliesReachTheirCall`: a routed session that waits has one entry of its own
  in the pending table, and an answered entry holds the reply to that call
  (`Claim` in `CallInv`); while numbers are distinct, a reply can fill no other.
  The requests and replies of a library client carry the number of its call.
* `HomesStayOwn`: all paths in queued requests, open files and files a slot's last
  session left are sequences (`PathInv`), so what `Authorize` granted for a clean
  path is what the store does with it, and a granted change outside the caller's
  home touches nobody's.
* `InitNeverRunsTwo`: a live session of a service that init was told of is the one
  its record names (`OnRecord`), and init spawns only when that one is gone, was
  killed or was not in the list. The list of sids it read may be stale; a sid that
  is not in it cannot come alive as this service in the meantime, since only init
  spawns services.
* `LoginRegistersFirst`: ahead of every call in the queue of fs the user is
  registered, has a registration queued, or is excused (`Granted`, `Excused`); so
  is a user about to be answered, unless the registration was dropped, and then no
  request in the queue names its reply port and login is bound to report it
  (`Dropped` in `AheadOfCalls`). That reply ports are never used twice makes a late
  reply to an earlier registration harmless.
* `PromptIsRedrawn`: `prevEcho` is set exactly when the last echo was left open on
  the row (`EchoRemembered`).
* `LeaseIsGranted`: every ACK under way is covered by the server's binding, and
  the offer in a request is the server's address while its binding runs
  (`DhcpInv`).
* `WarmStackServes`: a peer that knows this host is in the cache, or a frame that
  teaches it is on the wire before the frames it asks with (`Warm`).
* `ReadsKeepOrder`: a queue holds the last data of its source (`Tails`); what a
  client has read, then what is in its inbox, then what is in the queue is in
  order (`InOrder`). A reply with the number of the client's last request holds a
  datum above the mark of its source when that request was made, and no reply or
  request has a higher number (`Later` in `FreshInv`).

### Assumptions

Those on the constants, named `...Assumption` in the module that declares them;
TLC evaluates them in the runs. They ask for sizes that are numbers and, where
the code needs it, above zero; for fewer CPUs than the lock's counters can tell
apart; for a window whose slots divide the counter range, as 256 divides 2^32; for
sessions that are routed or library clients and not both, and paths that are
sequences of names. For the lock there is also the guard `NoRoundDuringTry`:
between the two reads and the exchange of one `try_acquire` the other CPUs issue
fewer than `Mod - 1` tickets, 2^32 - 1 in the code.

### Only model-checked

* The liveness properties `QueuedIsReceived`, `SessionsRun`, `NoStarvation`,
  `ComesBack`, `EntriesReturn` and `CloseTakesEffect`: fairness and ENABLED are
  out of the prover's reach.
* `Tcp`, `UsbRing`, `Bluetooth`, `Terminal`, `Packets`, `Kfs`, `Fat16`,
  `FatStore`, `WasmDecode` and the compiler modules. Their properties rest on what
  recursive definitions, folds or bit operations compute (a reassembled stream, a
  replayed log, a cluster chain, a decoded module). For every input that takes
  induction over data, which the provers cannot do.
* `Packages`: `AcceptedIsSigned` is checked on its instance only.

## Stated and not part of a run

These properties are defined in the modules and were each checked once on the
instance of the run their module belongs to.

They hold: `ScanFindsSession`, `KilledOffCoreStayDead`, `ZombieReaped` (`Sched`);
`OneOwnerPerName`, `KilledHoldsNoHandle` (`Kernel`; the second is also proved);
`HeapTypeOK` (also proved);
`InodesDistinct` (`Kfs`); `PendingIsAwaited`, `DescriptorsUsable` (`FsCall`);
`RetransmitsCover`, `BackoffSpacesFailures` (`Dhcp`); `RepliesMatch` (`NetStack`);
`LostOnlyByGivingUp`, `SocketsAreHeld` (`NetPort`); `ReadersAgree` (`Packages`);
the types in `NetTypeOK`.

They are violated:

| property | the code says | what happens |
|---|---|---|
| `Sched.DeadStayDead` | a zombie becomes free (`sched_reap_zombies`) | a session that kills itself and then yields is runnable again (`core/sched.cc:306`) |
| `Heap.Recycled` | a freed block is "reusable by the next guest that wants something this big or smaller" (`core/rt.cc:132`) | blocks of the largest class go to the large list when freed, but requests of that class look in their bin, which is never filled; only larger requests take them |
| `Supervisor.RetryAppliesToAny` | "Retry applies to any respawn=yes service that isn't currently alive" (`init.go`) | a session in the slot of a dead service is taken for it |
| `Dhcp.RenewedOncePerPeriod` | a renewal "only runs once per lease period" (`netport.go:98`) | it runs at T1 and again at T2 |
| `Tcp.TailIsSent` | closing "must not abandon stream tail" (`tcp.go:252`) | in CLOSE-WAIT the tail of a window-limited write stays queued, and so does the FIN |
| `NetPort.AcceptFindsConnection` | "Accept blocks until a handshake completes" (`netclient.go:371`) | after the service has taken the connection over, a poll is answered with success and no data, which the client takes for no connection |
| `Terminal.CursorUnseen` | dirty is "any pending change since last Flush" | cursor moves are not marked |
| `JitAlu.StackIsOperands` | "DivRem sequences push RDX on entry and pop it before joining" | INT_MIN / -1 leaves RDX on the stack |
| `JitFloat.TruncTrapsExactly` | "exact trap conditions" (`interp.go`) | fractions just outside the range trap although their truncation is inside |
| `JitFunc.ImportsAligned` | the pad for the C call "derives from compile-time depth" | an odd depth can reach the call |

## Disagreements met while modelling

Found by reading the code for the models, and left out of the instances as said
above. Compiler: `f64.neg` is emitted with the opcode of OR (`float.go:222`);
`max` tests the AND of its operands where it means to test for two zeros, so
`max(1.0, 2.0)` is 0 (`float.go:106`); `sqrt` pops a pair; `i64.load32_s` takes the unsigned case
(`emit64.go:233`); `memory.copy` with overlapping ranges; unsigned truncation to
32 bits converts as signed; the interpreter treats `local.tee` as `local.get`
(`interp.go:444`) and keeps the inner frames when it branches to an outer loop.
A branch that drops operands under a result keeps the lowest operands and not the
result, in both engines, where `interp.go:614` speaks of "preserving exactly the
arity result values on top". The compiler takes an `if` with a result and no `else`,
at which the interpreter stops. `s32leb` and `s64leb` ignore the unused bits of the
longest group.

FAT16: `Create` and `Mkdir` look only for short names, so a long name can be
created twice; a name `validate83` refuses is created and then not found; `Delete`
leaves long-name slots; a write that runs out of space keeps the clusters it
took; opened files are cached by the spelling of their path.

login: handles are never given back, and each login takes one for the shell, one
for fs and one for the port of its registration, of the 16 a session has
(`login.go:328`, `core/ports.cc:12`), where `frame.go:250` says that servers "MUST
cache per name"; a client whose reply port cannot be bound is not answered;
`registerFS` does not look at the status in the reply of fs (`login.go:345`), which
refuses names over 32 bytes; a request that finds the ring of fs full is dropped and
waited for (`frame.go:224`).

Elsewhere: a scroll region may end below the screen (`term.go`); a package
manager keeps the keys it read although one was revoked, and a failed write in
the middle of an update leaves a truncated module (which does not verify); login
by name stamps the first session called "shell"; a USB transfer submitted while a
doorbell is outstanding shares it; `bt` commands fail at once where `hci.go:4`
says they block; `input_focus_set` refuses another session's port, which
`abi/ABI.md:280` expects login to pass, and the focus stays with a dead session's
number; `rt.cc:3` gives the header as 16 bytes and it has 32; in the editor, `p`
moves the cursor to a line without clamping its column, which `D` then slices by
(`vi.go:275`, `vi.go:339`).

## Not modelled

Byte layouts, formatting and console output throughout, except where a property is
about them (packets, modules, log replies). In the modelled parts: registry
operations other than KILL, SPAWN and LOGDUMP, native sessions, direct mode of the
client library, restarts of library clients, the 16-bit wrap of call numbers,
letter case in user names, user names fs refuses, a store that is full or fails under `FsCall` (`Kfs`
and `Fat16` have both), power failure within a FAT16 operation (the code has no
recovery for it), the rounding of float arithmetic (the hardware's in both
engines), `call_indirect` and the byte encoding of instructions.
`finalizeLogData`, `padToSectorBoundary` and `cacheFileData` of `kfs.go` have no
callers. The application processors run no sessions (they park in `sched_run_ap`),
so `Sched`, `Kernel` and `FsCall` have one core.

Without a module: the wasm engine and the WASI bridge (sequential; their yield
points are the `Yield` of `Sched`), the virtio, PCI and IOMMU code (right or wrong
only against the hardware), interrupts and the start of processors (registers, and
one flag per processor), boot, the shell and its editor (text), console input,
ahci, e1000 and wlan, and ssh (a wrapper over a library). `components` in
`PROJECT.json` gives the reason for each.
