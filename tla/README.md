# vsid in TLA+

vsid classifies network flows by the statistics of their first packets. A packet
source (a netfilter queue or a pcap file) hands packets to a `FlowManager`; the
manager finds or makes the `Flow` of each packet and lets a worker thread feed
the packet to it; the flow measures it (attribute meters), compares the
measurements with the models of a protocol database and may be classified; at
the end observers hear of the flow. A trainer uses the same path to update the
database. The paths below are relative to `src/src/`.

## Inventory

| part | state | operations | what is hard | what makes it correct |
|---|---|---|---|---|
| `FlowManager` (`common/src/FlowManager.cpp`) | table of flows by hash, one queue per worker, mutex of the table, round-robin counter, shutdown flag | `addPacket`, `processPacket(s)`, `getFlow`, `deleteFlow`, `notifyFlow...`, `finished`, `shutdown`, destructor | the table is locked, the flows are not; the counter that protects a flow from deletion is raised after the lock is gone; timeouts race with packets in hand; full queues; shutdown with packets queued | until shutdown no packet is lost; none is freed or decided twice; a flow is not removed under its packets; a flow is reported once; every packet is decided; `finished` returns |
| `ThreadWaiter` (`common/inc/ThreadWaiter.h`) | condition variable | `wait`, `notify` | a notify can come before the wait | a worker with packets runs again |
| `Flow`, connection (`common/src/Flow.cpp` 63-263) | state, counters, time of the last data packet | `addPacket` | two threads in one flow | follows SYN, data, FIN/RST; closed flows stay closed |
| `Flow`, classification (`Flow.cpp` 265-425) | classified, best match | `addPacket` | limits; a best match only at exactly the defining limit | classified once, and not beyond the limits |
| packets (`common/inc/IPv4.h`, `common/src/IPv4.cpp`) | buffer, verdict callback | `setVerdict`, `dropPkt`, destructor | ownership of the buffer | one verdict per packet |
| hash (`common/inc/Hasher.h`) | none | hash of a five-tuple | collisions | both directions of a flow have one hash |
| `PacketHandler` (`netfilter/src/PacketHandler.cpp`) | netfilter queue, receive buffer, verdict statistics, shutdown flag, a manager | receive loop, callback, `setVerdict(Local)`, `setAccept`, `setDrop`, `shutdown`, destructor | the buffer changes owner in the middle of a packet; two threads may give verdicts; verdict before or after queueing; order of destruction | each kernel packet gets one verdict, each buffer is freed once, statistics are the verdicts |
| `Process` (`netfilter/src/Process.cpp`, `main.cpp`) | handlers, their threads, shutdown flag | `initialise`, `run`, `shutdown` from a signal | the signal handler runs on any thread, at any moment, and takes locks | a signal ends the process, and nothing is destroyed under it |
| `nfqueue_test/` | as the two above, without manager and database | the same | the same | the same |
| `ProtocolModelDb` (`protocol_model/src/ProtocolModelDb.cpp`) | models, their order, order per port, times | `read`, `at`, `find`, `write` | crash and failing calls while writing; files that are half right | the latest database is never lost; what is written is read back; all models are reached |
| attribute meters (`protocol_model/src/`) | counts, totals, last packet | `calculateMeasurement`, `at`, `merge` | totals that do not follow the counts; bytes that are not there | frequencies sum to 1, indices stay inside |
| training (`training/src/`) | current file, updated flag | read a file, `flowFinished`, merge, write | one failing file among several; flows that outlive their file | each flow is merged once, under its own file; the training is saved |
| pcap classifier (`pcap_classifier/src/`) | manager, logger of results | read, `flowClassified`, `flowFinished` | two calls that report one flow | one result per flow |
| `Config`, `CommonConfig` | settings of each program | `init` | files that are missing or mistyped | defaults; no start on a bad file |

Vendored code (`contrib/`) and the text of log lines are not modelled.

## Modules

* **FlowStates** is the pure part of `Flow::addPacket`: which kinds of packet
  there are, what state a packet leads to and whether it counts as a data packet.
  `FINISHING` is never assigned in the code and is not in `State`.
* **FlowManager** is the threaded manager. The reader (thread -1) reads packets
  and runs `addPacket`, later perhaps `finished` and the destructor; the workers
  (0 .. NumWorkers - 1) run `processPackets`. A step is a stretch of code between
  two accesses to something another thread writes:

  | `pc` of the reader | code about to run | | `pc` of a worker | code about to run |
  |---|---|---|---|---|
  | `idle` | read the next packet | | `loop` | the test of `_shutdown` and `pop` |
  | `get`, `replace` | `getFlow(packet)` | | `to_wait`, `waiting` | `ThreadWaiter::wait` |
  | `inc` | `incPktsInQueue` | | `get`, `replace` | `getFlow(packet)` |
  | `push` | `push`, `notify` or the drop | | `dec` | `decPktsInQueue` |
  | `wait_empty` | `finished`, first loop | | `arrive`, `establish`, `add` | `Flow::addPacket`, its reads, the first write of a new flow's state, its other writes |
  | `finish`, `finish_flow` | `finished`, second loop, mutex held | | `check` | the tests after `addPacket` |
  | `closing`, `join`, `done` | `~FlowManager` | | `notify`, `notified`, `delete` | `notifyFlowFinished`, `deleteFlow` |

  `packets` and `flows` are histories: a packet or a flow object is named by its
  position, so an object that another thread still points to can be spoken of
  after it left the table. `replace` and `notified` exist because observers run
  there: a shared pointer to the flow is in their hands, in `getFlow` with the
  mutex held and in a worker without it. Definitions named `Bad...` are mistakes
  the code does not make; no action uses them, each one breaks a property when it
  takes the place of the definition after it.
* **PacketVerdicts** is what a user of the manager may rely on: each packet is
  decided at most once, and the decision stands. `DecidesOnce` says that
  `FlowManager` implements it, with the verdicts of `packets` as `decision`.
* **MCFlowManager** gives the constants their values; **FlowManagerProofs** holds
  the theorems about packets, **SharedFlowProofs** those about the flows that threads
  share.
* **Settings** is what the `Config` classes of the four programs make of a file.
* **Netfilter** is the process on netfilter queues, `netfilter` or `nfqueue_test`.
  Threads: main (`mainPc`), one receiving thread per queue, the workers of each
  manager (`pc`), and the signal handler (`signal`), which stops the thread it runs
  on (`Runs`). The manager is replaced by what **PacketVerdicts** promises: a set
  `held` of packets that workers take in any order. `stats`, `counted`, `verdict`
  are the three stretches of `setVerdict` between its locks, `delete` the end of
  the packet object; `UsageExits` to `AllCreated` are `initialise` and the first
  loop of `run`; `StartPrint` to `AllJoined` the rest of it; `DestroyQueue` to
  `AllDestroyed` the destructors; `BeginShutdown` to `NextLoop` `shutdown()`.
  A use of a destroyed queue or handler may take the process down (`Crash`) or pass
  unnoticed (`late`). **MCNetfilter** holds configuration files, **NetfilterProofs** the
  theorems.
* **FlowHash**: five-tuples, `Ipv4FlowHasher`, `Flow::sameFlow` and directions.
  MurmurHash3 itself is a parameter, any function.
* **Meters**: the fifteen attribute meters, the factory and `merge`. A fingerprint
  is `[size, fp, total]`, counts over a total; numbers are exact. `junk` is what
  the uninitialised `_lastPacket` happens to hold.
* **ProtocolModelDb**: `read`, `write`, `find`, `at` over YAML maps as functions.
* **Flows**: one `Flow` as a value with all its data, for one thread.
* **InlineManager**: `FlowManager` without workers, on top of it: `addPacket` does
  everything before it returns, and observers' calls are a list of events. `training`
  always has such a manager; `pcap_classifier` has one if `NumWorkerThreadsPerQueue` is
  0 or missing, which `PcapAssumption` says of every scenario. With workers it is
  FlowManager's case (`bug_finished`).
* **PcapPrograms**: `training` and `pcap_classifier` from options to exit, started
  one after the other on the same disk, with `InlineManager` and `ProtocolModelDb`
  in the middle. A step is a call of the file system, a packet, or a flow that
  `finished()` takes out of the table; `Crash` may come between any two.
  **DatabaseStore** is the abstract promise about the disk, `LatestDatabaseKept`
  the refinement. **MCPcapPrograms** holds databases, captures and scenarios,
  **PcapProofs**, **TrainingProofs** and **PcapFlowProofs** the theorems: what is done
  once, what is learned and saved, and what flows and meters are like.
* **PureProofs**: theorems about `FlowHash` and `Meters`. **ProofLemmas**: facts about
  sequences, cardinalities and sums that the proofs share.

Abstractions: a key is the 32-bit hash the table is indexed by, so packets of
colliding connections are packets of one key. Time is the second a packet was
stamped with and does not go backwards. A data packet may or may not classify a
flow that is not classified yet. The two unlocked increments of a flow
(`_overallPktCount`, `_pktCount`) can lose an update when two threads are in one
flow; reads and writes of one word are taken to be whole. `_shutdown` is an
unsynchronised flag that every thread sees at its next test. `finished` tests the
queues one after the other; as the reader that runs it is the only thread that
pushes, a queue found empty stays empty, and one test of all stands for them.
The verdict is the one the manager gives through `PacketVerdict`; the netfilter
handler ignores it unless `VerdictAfterClassification` is set.

In `Netfilter`: one datagram of the queue holds one packet; one signal; the verdict
mutex is held for one library call and is part of that step; waiting of the logger
on its own locks, and `_packetHandlers` being read while it grows, are left out.
An error of `recv` ends one handler and no other thread hears of it. A throwing
constructor of a handler means `exit(1)`, which is no orderly exit ("aborted") once
there are `std::thread` objects. Exceptions of the configuration are caught in
`main` ("failed"); the pcap programs do not catch them ("aborted").

In `PcapPrograms`: the divergence of a flow from a model is any of a few numbers;
entropy is a stand-in, since logarithms have no place here; numbers are not rounded
when written as text. The file of the database is one YAML map in braces, so that
no proper part of it can be read. `rename` is atomic and what a program wrote
survives it: the code calls no `fsync`, and a loss of power that drops written
pages is not modelled. A backup with the name of the database is excluded: then
there would be no backup at all. After repeated failures to rename, the file `.new`
is overwritten. `-d` replaces the name of the database only; `-l` of
`pcap_classifier` has no argument in its option string and ends the program on a
null pointer. `TcpFlowTimeout` is a setting that no `Config` reads.

## Runs

| run | instance | shows |
|---|---|---|
| `fm_tcp` | 2 workers, queues of 2, 3 packets of one TCP connection, 1 s that outlasts the close wait, shutdown at any time | `TypeOK`; `OnePlace`: until the destructor is through, a packet without a verdict is in one queue slot or in one thread's hands, and one with a verdict is never in any; `CountsAddUp`: although an increment and its decrement may hit different flows, the counters of all flows sum to the packets under way; `ClosedFlowAwaited`: a flow that is over stays in the table only while a packet or a worker is coming to erase it, unless a full queue dropped one of its own packets; `DecidesOnce` |
| `fm_udp` | 2 workers, queues of 2, 3 UDP packets over 2 s with a timeout of 1 s, `finished` at any time | `UdpCountExact`, `UdpOneWorker`, `UdpClassifiedOnce` until getFlow replaces a flow; `UdpReportedOnce` always |
| `fm_live` | 2 workers, queues that hold all 3 packets, fairness | `EveryPacketDecided`, `ClosedFlowLeaves` |
| `bug_finished` | 1 worker, 1 packet | violates `FinishedReturns`: `finished` holds the mutex and waits for a counter that the worker cannot lower without it |
| `bug_worker_per_flow` | 2 workers, 3 packets | violates `OneWorkerPerFlow`: two workers in one flow |
| `bug_deleted_with_packets` | 1 worker, 3 packets | violates `NoneDeletedWithPackets`: the flow is deleted between `getFlow` and `incPktsInQueue` |
| `bug_undecided_at_end` | 1 worker, 3 packets, shutdown | violates `AllDecidedAtEnd`: queued packets get no verdict |
| `bug_tcp_timeout` | 1 worker, 3 packets, 3 s | violates `IdleTcpTimesOut`: the test compares a truth value with the timeout |
| `nf_handlers` | one queue with a worker and verdicts from it, the same with verdicts at once, no worker, two queues of `nfqueue_test`, bad files; 2 packets, receive errors, a signal anywhere, one printing of statistics | `BufferFreedOnce`, `DeletedHasVerdict`, `AcceptedBeforeQueued`, `StatsAddUp`; `HandlersOutliveSignal`; `LateVerdicts`: the queue is destroyed before the workers stop, and at most one verdict per worker comes too late; under fairness `EveryPacketDecided`, `SignalEndsProcess` |
| `bug_signal` | 2 queues, 1 packet | violates `ExitsCleanly`: a signal during start-up leaves handlers that nobody stops |
| `pcap` | up to 2 programs on one disk; captures of up to 12 packets of 4 connections, 2 of which share a hash; broken and missing databases, inputs and captures; all calls may fail, a kill anywhere | `TrainedUnderOwnFile`, `CountsGrowTogether`, `TrainingIsSaved`, `WrittenIsReadBack`, `LatestDatabaseKept` for training; `OneResultPerFlow` (a line for each flow that was known well enough and is gone, and no second one), `LimitsRespected`, `EveryModelHasItsTurn`, `OneFlowPerConnection` for classification; `BinsInRange`, `ProbabilitiesAddUp` for the meters; `EveryRunEnds` |
| `bug_sums` | 1 program that measures with every meter | violates `First8AddsUp`: more than all bytes were some byte |

The seven `bug_` runs state what a comment, a setting's description or the
documentation says; PROJECT.json quotes each.

Why the bounds are enough to be interesting: three packets are the least for
which one flow can be opened, reported and closed (`notifyFlowFinished` asks for
three); two workers are the least that can meet in a flow, and a third packet of
a closed flow makes them; a queue of two overflows when the third packet finds
its worker asleep, and has an order to keep. One key is enough because flows of
different keys share only queues, mutex and the round-robin counter, which packets
of successive flows of one key share too; that a packet of one key dropped by a full queue
strands no flow of another is left to the proof of `ClosedIsAwaited`. Traffic is any sequence of the kinds
given, not only well-formed connections, as the manager sees what the wire gives.
`MaxPackets` and `MaxClock` bound the traffic, not the manager.

For the process: two queues in `bug_signal` let the signal also come between the
creation of two handlers; in `nf_handlers` two packets are the least for which one is
with a worker while another is received into the buffer that the first one left, and
the queues of `nfqueue_test` are the case of two handlers that end. More
queues share nothing but main and the signal handler, which take them in turn.
For the pcap programs: two runs are the least for which a write is read back or a
kill followed by a restart; the training captures are two that can be read and two
that cannot, with a connection that is in both under different protocols. Only a run of
training is followed by another, since `pcap_classifier` writes nothing to disk; the
limits of the databases (1 to 3) lie below, at and above the packets of a flow,
and the last scenario has more packets than the largest window of any meter (ten).
Whatever a meter does depends on a few leading bytes and the direction, so a few
payloads reach its branches. `MaxRuns`, `MaxPackets`, `MaxPrints` and the lengths of
the captures bound the environment only.

`CHECK_DEADLOCK FALSE` is set where the system may come to rest: when the manager
was destroyed (`fm_tcp`, `bug_undecided_at_end`) and when `finished` blocks for
ever (`fm_udp`, `bug_finished`), and in the runs of `Netfilter` and `PcapPrograms`,
where programs end. In the other runs workers poll and never rest.

Fairness (`FairSpec`) is weak fairness of the reader's own steps and of each
worker: the operating system runs every thread that can run. It does not promise
packets, a `finished` or a `shutdown`, and weak fairness asks nothing of the
order in which threads get the mutex. `WaitTimeout` is fair because `wait_for`
returns after ten milliseconds; with a plain `wait` `EveryPacketDecided` fails, a
notify may come between the failed pop and the wait.

In `Netfilter` fairness is weak fairness of the main thread, of each other thread and
of the signal handler. The kernel need not send, errors need not happen, signals need
not come. `recv` has a timeout of a second, which is why a receiving thread sees its
shutdown flag without traffic. `EveryPacketDecided` allows for a signal, since packets
left in a queue at shutdown stay undecided (`bug_undecided_at_end`); that it survives
an error of `recv` is what it is there for. In `PcapPrograms` it is weak fairness of
the running program: captures are files and come to an end.

`LateVerdicts` speaks of a signal that found all handlers started and hit no worker
for a reason: a worker in the middle of a packet that is interrupted comes back after
the managers are stopped. `HandlersOutliveSignal` needs the interrupted thread to be
main or a receiving one, which main joins; workers are joined by the destructors only.

## Proofs

Every theorem holds for all values of the constants that satisfy the named
assumptions. Each invariant is proved inductive relative to those before it in its
list, so that a proof of one says what it needs of the others; all of them were
checked by TLC on the instances of the runs before they were proved.

`FlowManagerProofs`, from `ConfigAssumption` and `TrafficAssumption` (natural numbers,
at least one worker and one slot, a UDP key has UDP packets):

* `TypeCorrect`: `Spec => []TypeOK`. `TypeOK` is inductive as it stands since it
  ties `pc` to `pkt` and `flow`: a thread about to use a packet or flow has one.
* `AlwaysOnePlace`: `Spec => []OnePlace`. Inductive together with `TypeOK`. Only
  five actions touch `packets`, `queue` and `pkt` (`WhatMovesPackets`): a packet is
  read, pushed, popped, or disposed of by the reader or by a worker. That nobody
  holds a packet that also sits in a queue is what makes a push and a pop keep it. The
  destructor deletes the queues with the packets in them: that none is lost is said
  of the time before it is through, and `bug_undecided_at_end` shows what comes then.
* `DecidesPackets`: `Spec => DecidesOnce`, the refinement: `Receive` is a `Take`,
  `Dispose` a `Decide`, everything else a stutter (`VerdictsOfAppend`,
  `VerdictsOfExcept`).

`SharedFlowProofs`, for any number of workers, keys, packets and flows, full queues,
timeouts and `finished` at any time:

* `UdpReportsOnce`: a UDP flow is reported as finished at most once. It needs
  `KeysAgree` (a thread's flow is of its packet's key), `MutexHeld` (what `getFlow`
  and `finished` do to the table happens with the mutex) and `UdpStaysOpen` (no packet
  finishes a UDP flow): then only the thread with the mutex reports one, and it takes
  the flow out before it gives the mutex back.
* `UdpStaysWithWorker`: until `getFlow` replaces a UDP flow, its packets are with one
  worker. Neither the property nor the table alone is inductive: `UdpKept` says that
  the flow of a key with packets under way stays in the table until `finished` is at
  its last loop, `UdpPacketsWithWorker` that every packet in a queue or in hand is
  with the worker of a flow of its key.
* `UdpClassifiedAtMostOnce`: `addPacket` tests `flowClassified` before and after, both
  times unlocked. `UdpFirstReport` says that a worker that read "not classified" is
  the one that will report it; `UdpStaysWithWorker` rules out another worker between.
* `UdpCountsExactly`: the counter of a UDP flow is the number of its packets between
  `inc` and `dec` (`CountingSteps`: an increment or decrement goes with one packet
  entering or leaving that stretch, everything else moves the packets inside of it).
* `ClosedIsAwaited`: `ClosedFlowAwaited`, by the counter: a flow that is over and has a
  packet counted was left to that packet, and one whose counter is at zero is with the
  worker that will find it so. `CountBound` is what this rests on: the counter of a flow
  in the table is never above the number of its packets that are still on the way.
* `CountersAddUp`: `CountsAddUp` needs none of this: one thread's increment and
  decrement may hit different flows. Its sum over all flows is a recursive function;
  that two such functions that agree up to one flow differ by as much as that flow
  is shown by the least index where they do not (`Least`, `SumsDiffer`), as there is
  no induction here.

`NetfilterProofs`, for any number of queues, workers, packets and any configuration
files, a signal on any thread, errors of `recv` and use after destruction included:

* `TypeCorrect`: `TypeOK` with `Structure`: which threads and queues exist, by how far
  main has come, and that a thread has a packet just in the middle of its work.
* `HandlersAreThere`: `HandlersOutliveSignal` with `Shutdown`: main joins the readers
  before it destroys anything, and gets there only after the signal handler began;
  an interrupted thread stays where it is, so one that main joins holds main up.
* `FreedOnce`: `Custody` (`Places`, `BufferOK`): a packet is with one thread or one
  manager, of the queue it came from, and has not been freed then, and only then. The
  receive buffer that changes owner in the middle of a packet is `BufferOK`.
* `DeletedWithVerdict`, `AcceptedFirst`: `Heard`, how far `setVerdict` has come with
  each packet, and that a packet in nobody's hands had its verdict or missed it.
* `StatsAreVerdicts`: a step of `setVerdict` moves one thread or one verdict from one
  of the sets that `StatsAddUp` counts to the next (`StatsMove`).
* `FewAreLate`: `LateCount`: late verdicts plus the workers that can still be late are
  at most the workers. It is inductive only with `StoppedOK`, that the signal handler
  stops every manager before the queue it takes from is destroyed.

`PcapProofs`, for all captures, options, databases and settings, from `PcapAssumption`:
scenarios name a program and the captures it may be given; addresses, ports and times
are natural numbers, payloads are bytes and the threshold is an integer;
`pcap_classifier` has no worker threads; what the text
of a database says has the types that `as<T>()` asks for, or it would throw, and a
fingerprint in it is counts, their total and the size they were made for (a file that
is partial, or lacks any of it, is allowed); divergences are in range; memory
that was not written holds bytes. What the proofs need of `InlineManager` and `Flows` is
stated first: which fields a flow has after `addPacket`, which calls the observers
hear in a packet (`AddIs`), and what such calls do one after the other (`Chain`,
`ObservedIs`). `PacketStep` then says in one place what a packet does to table and
memory, `FinishIs` the same of `finished`. `Shape` says which fields records have.

* `DatabaseIsKept`: `Spec => LatestDatabaseKept`, the refinement of `DatabaseStore`,
  with failing calls and a kill anywhere. `StoreInv` is the invariant: a backup is not
  later than a complete database; while the database is being replaced nothing
  complete has its name; and whoever writes has read all of what is there.
* `OneResult`: `OneResultPerFlow`, with `TableInv` (flows in the table are open,
  numbered and under their hash) and `ResultsInv` (the flows in the table that have a
  line are the classified ones, and those that left it, `gone`, have one if their packets
  were enough for `notifyFlowFinished`). `Erase` is the one way out of the table.
* `TrainedOnce`: `TrainedUnderOwnFile`, with `TableInv` (each flow is of the file that
  is being read) and `TrainedInv` (who was trained with has left the table).

`TrainingProofs` and `PcapFlowProofs`, from the same assumption. `ProgramsInv` is the
invariant of both programs, the conjunction of `Shape`, `StoreInv`, `TableInv` and

* `ProgramInv`: where a program is in its list of files, and that it has not ended
  while it runs;
* `DiskInv`: every complete file on disk is well typed, those the programs write too,
  so that a later run can read them;
* `LessonsInv`: `history.trained` accounts for the database in memory. A model has the
  flows it was read with and those noted for it; each of its measured meters, at the
  first place with its name, has just as many more; `_updated` was set if any flow was
  noted for a model with a measured meter. Training keeps the names of the models, what
  they hint at and the order of each port, which `read()` left complete;
* `SavedInv`: what the program notes of its last save: nothing is noted while it still
  reads or trains, and once the database was saved the file on disk is `Content`, the
  database in memory as `write()` puts it down.

The theorems:

* `ProgramsTypeOK`: `TypeOK` follows from them.
* `MetersGrowTogether`: `CountsGrowTogether` needs of a flow that reaches the trainer
  that it has every meter that is enabled: flows get their meters when they are made,
  and the factory enables none after `read()`. A model may name an attribute twice:
  then the first meter of the name grows, as `FindMeter` finds no other.
* `LearnedIsSaved`: `TrainingIsSaved`. `main` tests `_updated` at the end, so that it
  is `LessonsInv` that says what `_updated` stands for.
* `EveryModelCompared`: `EveryModelHasItsTurn`. `read()` leaves no name twice, since it
  refuses a later model of a known name. Each model either hints at a port or not, so
  for a port that no model hints at twice, the models `BadPortHintOrder` lists first and
  those it appends after them are as many as the models (`OrderIs`, by counting).
* `OneFlowEach`: `OneFlowPerConnection`. `TableInv` has a flow under the hash of its
  tuple, and `BothDirections` gives both directions one hash input. `ConnectionInv` says
  of a flow without direction that a packet of another connection has come to it.
* `LimitsAreRespected`: `LimitsRespected`. The nearest model is remembered over packets,
  before the defining limit too; `NearestInv` says that what is remembered is not zero,
  and `ClassifiedIn` that either way of deciding gives a divergence below the
  threshold. That the nearest of several places exists is `Nearest`.
* `WrittenIsRead`: `WrittenIsReadBack`, what a run has saved is what the next one reads.
  `SavedInv` names the file, `DiskInv` and `Shape` give it types. The rest is
  the round trip in `PureProofs` (`DbReadBack`): a meter, then a model, then a sequence
  of models that was written and read is the same again (`KeptReadBack`), except that
  `read()` refuses a model that was written without meters. That the database keeps the
  models with a meter, and those in order, is all it loses.
* `SumsAreKept`: `ProbabilitiesAddUp`. `SumsInv` says of each flow in the table that its
  meters are registered ones and add up after `pktCount` data packets (`Adds`): the
  counts sum up to the total; those of the bytes of the directions lag behind it by at
  most two a packet. `MetersAddUp` in `PureProofs` is the step.
* `BinsStayInRange`: `BinsInRange`, from `BinsInv` (the meters of a flow are those the
  factory registered, within their arrays) and `MetersStayInRange`.

`Shape`, `StoreInv`, `TableInv`, `ProgramInv`, `DiskInv`, `LessonsInv`, `ConnectionInv`,
`NearestInv`, `BinsInv` and `SavedInv` were also checked as invariants on the instance of
`pcap`. `SumsInv` quantifies over all ways to sum up and TLC cannot evaluate it; what it
says of the sums is `ProbabilitiesAddUp`, which `pcap` checks.

`PureProofs` proves for all addresses, ports, bytes and databases:

* `HashInputNamesConnection`: two tuples have one hash input exactly if they are one
  connection. `PortsInjective` is the heart of it: the word made of two ports loses
  neither; `HashInputSymmetric` is the other direction. What `OneFlowPerConnection`
  checks over whole flows rests on it, and collisions are left to Murmur.
* `MixedInRange`: the index that `ActionReactionFirst3ByteHashMeter` computes is in its
  fingerprint for any six bytes, since a digit sum of a byte is at most 19.
* `MetersStayInRange`: a meter of any registered attribute that is within its array,
  and remembers nothing or three bytes (`InArray`), is so after `calculateMeasurement`;
  and so is a new one. There is one lemma for each kind of array: bytes (256 places),
  bits of four bytes (64), two places, and the hash of two packets (115).
* `MetersAddUp`: a new meter adds up, and one that does still does after
  `calculateMeasurement`, for any flow and payload. Most meters add as much to the counts
  as to the total, or set both. The byte counts of the directions lose up to one byte for
  either to a truncated double (`Truncated`), hence two a packet. Which counts of a total
  lose one is the constant `Lossy`: the runs give it the pairs that lose one in IEEE
  doubles, for all totals they can reach, and the proofs use only `LossyAssumption`, that
  such a count is at least one and at most the total. The first eight packets
  of `ByteFrequencyFirst8PacketsMeter` and the bits of `FirstBitPositionsMeter` do not
  add up (`SumDiffers`), and the theorem says nothing of them.
* `DbReadBack`: `read()` of what `write()` wrote, as in `WrittenIsRead`.

`Over`, `Joined`, `Subsequence` and `Mass` in `Meters` and the recursive function in
`Observed` stand where `@@`, `FlattenSeq`, `SelectSeq` and folds would do: the provers
know nothing of the operators of `TLC` and of folds, and `SelectSeq` has no definition
they can use. What such a function computes is shown by the least place where it would
be wrong (`Least`). `Mass` goes from one touched place of a fingerprint to the next, as
most of its 256 places are 0 and add nothing.

Every invariant, action property and refinement that a passing run checks is proved.
Only model-checked are the liveness properties, `EveryPacketDecided`, `ClosedFlowLeaves`,
`SignalEndsProcess` and `EveryRunEnds`, which are beyond the prover.

## Not modelled

* `FlowManager::init` growing its vectors while the first workers index them: it is
  undefined behaviour without outcomes to tell apart. Exceptions inside a worker: the
  code throws none of its own there. Clocks finer than a second, clocks that go back.
* Two threads in one flow and the limits of its classification at once: `FlowManager`
  has the threads, `Flows` the limits. `pcap_classifier` with worker threads is covered
  by `FlowManager`, its composition with the logger is not.
* A packet whose headers lie about their lengths; link layers; the layout of YAML, log
  lines and help; `CommonConfig::instance()` and the other singletons; daemon mode.
* `deleteFlow(packet)`, `deleteFlow(hash)`, `getFlow(hash)`, `flowExists`: no program
  calls them. Unit tests (`unit_test/`) and vendored code.
