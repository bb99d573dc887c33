------------------------------ MODULE Netfilter -------------------------------
(***************************************************************************)
(* The two programs that sit on netfilter queues: netfilter, which         *)
(* classifies what it accepts, and nfqueue_test, which only accepts.  The  *)
(* main thread starts one handler (a thread that receives packets) per     *)
(* queue and waits for a signal; the handler of netfilter hands TCP and    *)
(* UDP packets to its FlowManager, whose workers may be the ones to set    *)
(* the verdict.  The signal handler runs on whichever thread the system    *)
(* picked, in the middle of whatever that thread was doing.                *)
(*                                                                         *)
(* A FlowManager is here what PacketVerdicts says of it (FlowManager       *)
(* implements that): it takes packets and decides each at most once, in    *)
(* any order, until it is shut down.                                       *)
(* A packet is named by its position in `packets'; 0 is no packet.         *)
(***************************************************************************)
EXTENDS Integers, Sequences, FiniteSets, Settings

CONSTANTS
  Files,          \* the configuration files a run may start with, by program
  MaxQueues, MaxWorkers,   \* bounds that no file exceeds
  MaxPackets,     \* bounds: packets the kernel sends,
  MaxPrints       \* times the main loop prints the statistics

(* What Config::init of the program makes of a file. *)
ConfigOf(f) == IF f.program = "netfilter" THEN NetfilterConfig(f) ELSE NfqueueTestConfig(f)

(* A file that can be read has values of the types that as<T>() asks for,  *)
(* and does not exceed the bounds; the number of workers may be negative.  *)
ASSUME NetfilterAssumption ==
  /\ {MaxQueues, MaxWorkers, MaxPackets, MaxPrints} \subseteq Nat
  /\ \A f \in Files :
       /\ f.program \in {"netfilter", "nfqueue_test"}
       /\ InitResult(f) = "true" =>
            /\ ConfigOf(f).queues.numQueues \in 0 .. MaxQueues
            /\ ConfigOf(f).common.workerThreadsPerQueue \in Int
            /\ ConfigOf(f).common.workerThreadsPerQueue <= MaxWorkers
            /\ ConfigOf(f).verdictAfterClassification \in BOOLEAN

Queue == 1 .. MaxQueues
Main == <<"main", 0, 0>>
Reader(h) == <<"reader", h, 0>>
Worker(h, i) == <<"worker", h, i>>
Readers == {Reader(h) : h \in Queue}
Workers == {Worker(h, i) : h \in Queue, i \in 1 .. MaxWorkers}
Thread  == Readers \cup Workers      \* the threads that handle packets
NoThread == <<"none", 0, 0>>

QueueOf(t) == t[2]
IsWorker(t) == t[1] = "worker"

VARIABLES
  file, config,  \* the configuration file and what Config::init made of it
  mainPc, at,    \* the main thread, and the handler it is at in a loop
  prints,        \* times it has printed the statistics
  stopping,      \* Process::_shutdown
  created,       \* size of _packetHandlers
  nfQueue,       \* _nfQueue of each handler
  stop,          \* PacketHandler::_shutdown
  managerStop,   \* FlowManager::_shutdown
  statsMutex,    \* _statsMutex: the thread that holds it
  verdictStats,  \* _verdictStats
  buffer,        \* _buffer: the packet received into it
  held,          \* packets in the hands of each FlowManager
  packets,       \* every packet received, with what became of it
  pc, call,      \* each reader and worker, and the setVerdict it is in
  late,          \* nfq_set_verdict calls on a queue that was destroyed
  signal         \* the signal handler: where, on which thread, at which handler

processVars == <<file, config, mainPc, at, prints, stopping, created>>
handlerVars == <<nfQueue, stop, managerStop, statsMutex, verdictStats, buffer, held>>
packetVars  == <<packets, pc, call, late>>
vars == <<file, config, mainPc, at, prints, stopping, created, nfQueue, stop,
          managerStop, statsMutex, verdictStats, buffer, held, packets, pc, call, late, signal>>

NumQueues  == config.queues.numQueues
NumWorkers ==          \* init's loop starts none for 0 and below
  IF config.common.workerThreadsPerQueue > 0 THEN config.common.workerThreadsPerQueue ELSE 0
After      == config.verdictAfterClassification
Classifies == config.program = "netfilter"

MainPc == {"init", "read_db", "create", "loop", "print", "printed", "join",
           "destroy", "close", "exited", "failed", "aborted"}
Dead == mainPc \in {"exited", "failed", "aborted"}
SignalPc == {"none", "begin", "before", "stop", "after", "done"}

NoCall == [pkt |-> 0, verdict |-> "accept", back |-> "delete"]

(* The members of Process, *)
ProcessInit ==
  /\ mainPc = "init" /\ at = 1 /\ prints = 0 /\ stopping = FALSE /\ created = 0

(* and those of a PacketHandler, before it is built. *)
HandlersInit ==
  /\ nfQueue = [h \in Queue |-> "none"]
  /\ stop = [h \in Queue |-> FALSE]
  /\ managerStop = [h \in Queue |-> FALSE]
  /\ statsMutex = [h \in Queue |-> NoThread]
  /\ verdictStats = [h \in Queue |-> [v \in {"accept", "drop"} |-> 0]]
  /\ buffer = [h \in Queue |-> 0]
  /\ held = [h \in Queue |-> {}]

Init ==
  /\ file \in Files
  /\ config = ConfigOf(file)
  /\ ProcessInit /\ HandlersInit
  /\ packets = << >>
  /\ pc = [t \in Thread |-> "absent"] /\ call = [t \in Thread |-> NoCall]
  /\ late = [h \in Queue |-> 0]
  /\ signal = [pc |-> "none", victim |-> NoThread, at |-> 1, started |-> FALSE]

-------------------------------------------------------------------------------
(* Helpers *)

(* A thread runs unless the signal handler has interrupted it. *)
Interrupted(t) == signal.pc \notin {"none", "done"} /\ signal.victim = t
Runs(t) == ~Dead /\ ~Interrupted(t)

Goto(t, from, to) == Runs(t) /\ pc[t] = from /\ pc' = [pc EXCEPT ![t] = to]

GotoMain(from, to) == Runs(Main) /\ mainPc = from /\ mainPc' = to

(* Enter PacketHandler::setVerdict or setVerdictLocal. *)
CallSetVerdict(t, p, verdict, back) ==
  /\ pc' = [pc EXCEPT ![t] = "stats"]
  /\ call' = [call EXCEPT ![t] = [pkt |-> p, verdict |-> verdict, back |-> back]]

(* As in FlowManager, no action uses the operators named Bad...: they are  *)
(* mistakes that the code does not make, and break a property.             *)
BadSetIfAfter(t, p, verdict) == CallSetVerdict(t, p, verdict, "delete")   \* no test

(* PacketHandler::setAccept and setDrop, when the packet p is in t's hands *)
(* and is deleted afterwards.                                              *)
SetIfAfter(t, p, verdict) ==
  IF After THEN CallSetVerdict(t, p, verdict, "delete")
  ELSE /\ pc' = [pc EXCEPT ![t] = "delete"]
       /\ call' = [call EXCEPT ![t] = [NoCall EXCEPT !.pkt = p]]

-------------------------------------------------------------------------------
(* setVerdict and setVerdictLocal, on the reader or on a worker.  The      *)
(* second mutex is held for one call of the library and is part of a step. *)

BadCountVerdict(t) ==                   \* setVerdictLocal does not count
  LET h == QueueOf(t) IN
  /\ Goto(t, "stats", "counted")
  /\ statsMutex[h] = NoThread
  /\ statsMutex' = [statsMutex EXCEPT ![h] = t]
  /\ verdictStats' = IF call[t].back = "local" THEN verdictStats
                     ELSE [verdictStats EXCEPT ![h][call[t].verdict] = @ + 1]
  /\ UNCHANGED <<processVars, nfQueue, stop, managerStop, buffer, held, packets,
                 call, late, signal>>
CountVerdict(t) ==
  LET h == QueueOf(t) IN
  /\ Goto(t, "stats", "counted")
  /\ statsMutex[h] = NoThread
  /\ statsMutex' = [statsMutex EXCEPT ![h] = t]
  /\ verdictStats' = [verdictStats EXCEPT ![h][call[t].verdict] = @ + 1]
  /\ UNCHANGED <<processVars, nfQueue, stop, managerStop, buffer, held, packets,
                 call, late, signal>>

BadUnlockStats(t) ==                    \* an unlock is missing
  /\ Goto(t, "counted", "verdict")
  /\ UNCHANGED <<processVars, handlerVars, packets, call, late, signal>>
UnlockStats(t) ==
  /\ Goto(t, "counted", "verdict")
  /\ statsMutex' = [statsMutex EXCEPT ![QueueOf(t)] = NoThread]
  /\ UNCHANGED <<processVars, nfQueue, stop, managerStop, verdictStats, buffer, held,
                 packets, call, late, signal>>

(* What the kernel hears; the kernel forgets a packet that has its verdict.*)
(* On a destroyed queue the call reads freed memory: nothing is heard.     *)
KernelVerdict(t, frees) ==
  LET h == QueueOf(t)  p == call[t].pkt  heard == nfQueue[h] = "open"
  IN  /\ packets' = [packets EXCEPT ![p] =
           [queue |-> @.queue, kind |-> @.kind, frees |-> @.frees + frees,
            verdicts |-> IF heard THEN Append(@.verdicts, call[t].verdict) ELSE @.verdicts]]
      /\ late' = IF heard THEN late ELSE [late EXCEPT ![h] = @ + 1]

(* Nobody else has the packet: the end of setVerdictLocal frees _buffer. *)
SetVerdictLocal(t) ==
  LET h == QueueOf(t) IN
  /\ call[t].back = "local" /\ Goto(t, "verdict", "loop")
  /\ KernelVerdict(t, IF buffer[h] # 0 THEN 1 ELSE 0)
  /\ buffer' = [buffer EXCEPT ![h] = 0]
  /\ call' = [call EXCEPT ![t] = NoCall]
  /\ UNCHANGED <<processVars, nfQueue, stop, managerStop, statsMutex, verdictStats, held,
                 signal>>

BadSetVerdict(t) ==                     \* frees _buffer, as setVerdictLocal does
  /\ call[t].back # "local" /\ Goto(t, "verdict", call[t].back)
  /\ KernelVerdict(t, IF buffer[QueueOf(t)] # 0 THEN 1 ELSE 0)
  /\ buffer' = [buffer EXCEPT ![QueueOf(t)] = 0]
  /\ UNCHANGED <<processVars, nfQueue, stop, managerStop, statsMutex, verdictStats, held,
                 call, signal>>
SetVerdict(t) ==
  /\ call[t].back # "local" /\ Goto(t, "verdict", call[t].back)
  /\ KernelVerdict(t, 0)
  /\ UNCHANGED <<processVars, handlerVars, call, signal>>

(* ~IPv4Packet: the verdict is set by now, the buffer goes. *)
DeletePacket(t) ==
  /\ Goto(t, "delete", IF IsWorker(t) THEN "idle" ELSE "loop")
  /\ packets' = [packets EXCEPT ![call[t].pkt].frees = @ + 1]
  /\ call' = [call EXCEPT ![t] = NoCall]
  /\ UNCHANGED <<processVars, handlerVars, late, signal>>

-------------------------------------------------------------------------------
(* The receive loop, PacketHandler::run, and the callback *)

(* A packet is TCP or UDP ("flow") or anything else ("other"); to          *)
(* nfqueue_test they are all alike.                                        *)
Kind == IF Classifies THEN {"flow", "other"} ELSE {"other"}

(* The packet object, or where there is none the buffer: its verdict and   *)
(* its deletion are still to come.                                         *)
NewPacket(h, kind) == [queue |-> h, kind |-> kind, verdicts |-> << >>, frees |-> 0]

(* One turn of the loop reads _shutdown, allocates a buffer that _buffer   *)
(* points to from here on, and calls recv: the handler may be shut down    *)
(* while it waits there.                                                   *)
EnterReceive(h) ==
  /\ ~stop[h] /\ Goto(Reader(h), "loop", "recv")
  /\ buffer' = [buffer EXCEPT ![h] = 0]
  /\ UNCHANGED <<processVars, nfQueue, stop, managerStop, statsMutex, verdictStats, held,
                 packets, call, late, signal>>

Receive(h, kind) ==
  /\ nfQueue[h] = "open" /\ Len(packets) < MaxPackets
  /\ Goto(Reader(h), "recv", "handle")
  /\ packets' = Append(packets, NewPacket(h, kind))
  /\ buffer' = [buffer EXCEPT ![h] = Len(packets) + 1]
  /\ call' = [call EXCEPT ![Reader(h)] = [NoCall EXCEPT !.pkt = Len(packets) + 1]]
  /\ UNCHANGED <<processVars, nfQueue, stop, managerStop, statsMutex, verdictStats, held,
                 late, signal>>

(* recv ran into the timeout of a second: the fresh buffer is freed. *)
ReceiveNothing(h) ==
  /\ Goto(Reader(h), "recv", "loop")
  /\ UNCHANGED <<processVars, handlerVars, packets, call, late, signal>>

BadReceiveError(h) ==                   \* shuts the whole handler down
  /\ Goto(Reader(h), "recv", "loop")
  /\ stop' = [stop EXCEPT ![h] = TRUE]
  /\ managerStop' = [managerStop EXCEPT ![h] = TRUE]
  /\ UNCHANGED <<processVars, nfQueue, statsMutex, verdictStats, buffer, held, packets, call,
                 late, signal>>

(* Any other error, a full socket buffer or an interrupted call among them,*)
(* ends this handler and nothing else.                                     *)
ReceiveError(h) ==
  /\ Goto(Reader(h), "recv", "loop")
  /\ stop' = [stop EXCEPT ![h] = TRUE]
  /\ UNCHANGED <<processVars, nfQueue, managerStop, statsMutex, verdictStats, buffer, held,
                 packets, call, late, signal>>

LeaveLoop(h) ==
  /\ stop[h] /\ Goto(Reader(h), "loop", "exited")
  /\ UNCHANGED <<processVars, handlerVars, packets, call, late, signal>>

(* handlePacket: ICMP, SCTP, IPv6 and what is not understood gets its      *)
(* verdict from the receiving thread.                                      *)
HandleOther(h) ==
  LET t == Reader(h)  p == call[t].pkt IN
  /\ Runs(t) /\ pc[t] = "handle"
  /\ Classifies /\ packets[p].kind = "other"
  /\ CallSetVerdict(t, p, "accept", "local")
  /\ UNCHANGED <<processVars, handlerVars, packets, late, signal>>

(* In nfqueue_test every branch of handlePacket does that. *)
HandleInTest(h) ==
  LET t == Reader(h) IN
  /\ Runs(t) /\ pc[t] = "handle" /\ ~Classifies
  /\ CallSetVerdict(t, call[t].pkt, "accept", "local")
  /\ UNCHANGED <<processVars, handlerVars, packets, late, signal>>

BadHandleFlow(h) ==                     \* no test of verdictAfterClassification
  LET t == Reader(h)  p == call[t].pkt IN
  /\ Runs(t) /\ pc[t] = "handle"
  /\ Classifies /\ packets[p].kind = "flow"
  /\ CallSetVerdict(t, p, "accept", "add")
  /\ UNCHANGED <<processVars, handlerVars, packets, late, signal>>

(* A TCP or UDP packet: the packet object owns the buffer from here on.    *)
(* Unless the verdict is to wait for the classification it is given now.   *)
HandleFlow(h) ==
  LET t == Reader(h)  p == call[t].pkt IN
  /\ Runs(t) /\ pc[t] = "handle"
  /\ Classifies /\ packets[p].kind = "flow"
  /\ IF After THEN pc' = [pc EXCEPT ![t] = "add"] /\ UNCHANGED call
     ELSE CallSetVerdict(t, p, "accept", "add")
  /\ UNCHANGED <<processVars, handlerVars, packets, late, signal>>

(* FlowManager::addPacket.  A manager without workers, or one that was     *)
(* shut down, is done with the packet when it returns.                     *)
AddAtOnce(h) ==
  LET t == Reader(h) IN
  /\ Runs(t) /\ pc[t] = "add"
  /\ managerStop[h] \/ NumWorkers = 0
  /\ SetIfAfter(t, call[t].pkt, "accept")
  /\ UNCHANGED <<processVars, handlerVars, packets, late, signal>>

AddToQueue(h) ==
  LET t == Reader(h) IN
  /\ ~managerStop[h] /\ NumWorkers > 0
  /\ Goto(t, "add", "loop")
  /\ held' = [held EXCEPT ![h] = @ \cup {call[t].pkt}]
  /\ call' = [call EXCEPT ![t] = NoCall]
  /\ UNCHANGED <<processVars, nfQueue, stop, managerStop, statsMutex, verdictStats, buffer,
                 packets, late, signal>>

(* The queue of the worker was full. *)
AddOverflows(h) ==
  LET t == Reader(h) IN
  /\ Runs(t) /\ pc[t] = "add"
  /\ ~managerStop[h] /\ NumWorkers > 0
  /\ SetIfAfter(t, call[t].pkt, "drop")
  /\ UNCHANGED <<processVars, handlerVars, packets, late, signal>>

ReaderStep(h) ==
  \/ EnterReceive(h) \/ ReceiveNothing(h) \/ LeaveLoop(h)
  \/ HandleInTest(h) \/ HandleOther(h) \/ HandleFlow(h)
  \/ AddAtOnce(h) \/ AddToQueue(h) \/ AddOverflows(h)

-------------------------------------------------------------------------------
(* The workers of a FlowManager *)

Take(t, p) ==
  LET h == QueueOf(t) IN
  /\ Runs(t) /\ pc[t] = "idle" /\ ~managerStop[h] /\ p \in held[h]
  /\ held' = [held EXCEPT ![h] = @ \ {p}]
  /\ SetIfAfter(t, p, "accept")
  /\ UNCHANGED <<processVars, nfQueue, stop, managerStop, statsMutex, verdictStats, buffer,
                 packets, late, signal>>

WorkerExits(t) ==
  /\ managerStop[QueueOf(t)] /\ Goto(t, "idle", "exited")
  /\ UNCHANGED <<processVars, handlerVars, packets, call, late, signal>>

WorkerStep(t) == WorkerExits(t) \/ \E p \in held[QueueOf(t)] : Take(t, p)

-------------------------------------------------------------------------------
(* The main thread: Process::initialise, Process::run, the end of main *)

(* -h, an unknown option or one without its argument: exit.                *)
UsageExits ==
  /\ GotoMain("init", "failed")
  /\ UNCHANGED <<file, config, at, prints, stopping, created, handlerVars, packetVars, signal>>

(* A file that cannot be read or that throws: exit(1), with no thread yet. *)
LoadConfig ==
  /\ GotoMain("init", IF InitResult(file) # "true" THEN "failed"
                      ELSE IF Classifies THEN "read_db" ELSE "create")
  /\ UNCHANGED <<file, config, at, prints, stopping, created, handlerVars, packetVars, signal>>

(* A name given with -d goes before the one in the file.  Either is empty, *)
(* or ProtocolModelDb::read returns false: exit(1).                        *)
ReadDatabase(overridden, readable) ==
  /\ GotoMain("read_db", IF (config.protocolDatabase # "" \/ overridden) /\ readable
                         THEN "create" ELSE "failed")
  /\ UNCHANGED <<file, config, at, prints, stopping, created, handlerVars, packetVars, signal>>

(* The handler of one queue, its manager with the workers, and its thread. *)
CreateHandler ==
  /\ GotoMain("create", "create") /\ at <= NumQueues
  /\ at' = at + 1 /\ created' = at
  /\ nfQueue' = [nfQueue EXCEPT ![at] = "open"]
  /\ pc' = [t \in Thread |->
              IF QueueOf(t) # at THEN pc[t]
              ELSE IF ~IsWorker(t) THEN "loop"
              ELSE IF Classifies /\ t[3] <= NumWorkers THEN "idle" ELSE "exited"]
  /\ UNCHANGED <<file, config, prints, stopping, stop, managerStop, statsMutex, verdictStats, buffer,
                 held, packets, call, late, signal>>

(* The constructor throws: exit(1) destroys the Process, and with it the   *)
(* std::thread objects of the handlers made before, which are joinable.    *)
CreateFails ==
  /\ GotoMain("create", IF created > 0 THEN "aborted" ELSE "failed") /\ at <= NumQueues
  /\ UNCHANGED <<file, config, at, prints, stopping, created, handlerVars, packetVars, signal>>

AllCreated ==
  /\ GotoMain("create", "loop") /\ at > NumQueues
  /\ UNCHANGED <<file, config, at, prints, stopping, created, handlerVars, packetVars, signal>>

(* Every thirty seconds the loop prints what verdictStats() returns.       *)
StartPrint ==
  /\ ~stopping /\ GotoMain("loop", "print") /\ at' = 1
  /\ prints < MaxPrints /\ prints' = prints + 1
  /\ UNCHANGED <<file, config, stopping, created, handlerVars, packetVars, signal>>

PrintStats ==
  /\ GotoMain("print", "printed") /\ at <= created
  /\ statsMutex[at] = NoThread
  /\ statsMutex' = [statsMutex EXCEPT ![at] = Main]
  /\ UNCHANGED <<file, config, at, prints, stopping, created, nfQueue, stop, managerStop, verdictStats,
                 buffer, held, packetVars, signal>>

PrintedStats ==
  /\ GotoMain("printed", "print") /\ at' = at + 1
  /\ statsMutex' = [statsMutex EXCEPT ![at] = NoThread]
  /\ UNCHANGED <<file, config, prints, stopping, created, nfQueue, stop, managerStop, verdictStats,
                 buffer, held, packetVars, signal>>

EndPrint ==
  /\ GotoMain("print", "loop") /\ at > created
  /\ UNCHANGED <<file, config, at, prints, stopping, created, handlerVars, packetVars, signal>>

LeaveMainLoop ==
  /\ stopping /\ GotoMain("loop", "join") /\ at' = 1
  /\ UNCHANGED <<file, config, prints, stopping, created, handlerVars, packetVars, signal>>

BadJoin ==                              \* does not wait
  /\ GotoMain("join", "join") /\ at <= created
  /\ at' = at + 1
  /\ UNCHANGED <<file, config, prints, stopping, created, handlerVars, packetVars, signal>>

Join ==
  /\ GotoMain("join", "join") /\ at <= created
  /\ pc[Reader(at)] = "exited"
  /\ at' = at + 1
  /\ UNCHANGED <<file, config, prints, stopping, created, handlerVars, packetVars, signal>>

AllJoined ==
  /\ GotoMain("join", "destroy") /\ at > created /\ at' = 1
  /\ UNCHANGED <<file, config, prints, stopping, created, handlerVars, packetVars, signal>>

(* After main: ~PacketHandler destroys the queue, then its members, the    *)
(* FlowManager among them, which stops its workers and joins them.  (The   *)
(* database that ~Process has destroyed by then, and the logger that       *)
(* ~PacketHandler destroys first, are not modelled, nor what the workers   *)
(* still do with them.)                                                    *)
DestroyQueue ==
  /\ GotoMain("destroy", "close") /\ at <= created
  /\ nfQueue' = [nfQueue EXCEPT ![at] = "destroyed"]
  /\ UNCHANGED <<file, config, at, prints, stopping, created, stop, managerStop, statsMutex,
                 verdictStats, buffer, held, packetVars, signal>>

StopManager ==
  /\ GotoMain("close", "close") /\ ~managerStop[at]
  /\ managerStop' = [managerStop EXCEPT ![at] = TRUE]
  /\ UNCHANGED <<file, config, at, prints, stopping, created, nfQueue, stop, statsMutex, verdictStats,
                 buffer, held, packetVars, signal>>

(* The queues of the manager go with the pointers in them: nobody deletes  *)
(* those packets.                                                          *)
DestroyManager ==
  /\ GotoMain("close", "destroy") /\ managerStop[at]
  /\ \A t \in Workers : QueueOf(t) = at => pc[t] = "exited"
  /\ at' = at + 1 /\ held' = [held EXCEPT ![at] = {}]
  /\ UNCHANGED <<file, config, prints, stopping, created, nfQueue, stop, managerStop, statsMutex,
                 verdictStats, buffer, packetVars, signal>>

AllDestroyed ==
  /\ GotoMain("destroy", "exited") /\ at > created
  /\ UNCHANGED <<file, config, at, prints, stopping, created, handlerVars, packetVars, signal>>

MainStep ==
  \/ UsageExits \/ LoadConfig
  \/ (\E overridden, readable \in BOOLEAN : ReadDatabase(overridden, readable))
  \/ CreateHandler \/ CreateFails \/ AllCreated
  \/ StartPrint \/ PrintStats \/ PrintedStats \/ EndPrint \/ LeaveMainLoop
  \/ Join \/ AllJoined
  \/ DestroyQueue \/ StopManager \/ DestroyManager \/ AllDestroyed

-------------------------------------------------------------------------------
(* exitOnSignal and Process::shutdown.  One signal is enough: the handler  *)
(* does not come back to life.                                             *)

Alive(t) == IF t = Main THEN ~Dead ELSE pc[t] \notin {"absent", "exited"}

Started == mainPc \notin {"init", "read_db", "create"}    \* all the handlers

SignalArrives(t) ==
  /\ ~Dead /\ signal.pc = "none" /\ Alive(t)
  /\ signal' = [pc |-> "begin", victim |-> t, at |-> 1, started |-> Started]
  /\ UNCHANGED <<processVars, handlerVars, packetVars>>

SignalGoto(from, to) ==
  /\ ~Dead /\ signal.pc = from
  /\ signal' = [pc |-> to, victim |-> signal.victim, at |-> 1, started |-> signal.started]

BeginShutdown ==
  /\ SignalGoto("begin", "before") /\ stopping' = TRUE
  /\ UNCHANGED <<file, config, mainPc, at, prints, created, handlerVars, packetVars>>

(* The loops that print the statistics, before and after the one that      *)
(* stops: each turn locks a mutex, and lets go of it at once.              *)
ReportStats ==
  /\ ~Dead /\ signal.pc \in {"before", "after"} /\ signal.at <= created
  /\ statsMutex[signal.at] = NoThread
  /\ signal' = [signal EXCEPT !.at = @ + 1]
  /\ UNCHANGED <<processVars, handlerVars, packetVars>>

BadStopHandler ==                       \* the manager goes on
  /\ ~Dead /\ signal.pc = "stop" /\ signal.at <= created
  /\ stop' = [stop EXCEPT ![signal.at] = TRUE]
  /\ signal' = [signal EXCEPT !.at = @ + 1]
  /\ UNCHANGED <<processVars, nfQueue, managerStop, statsMutex, verdictStats, buffer, held,
                 packetVars>>
BadStopHandlers ==                      \* the last handler is left out
  /\ ~Dead /\ signal.pc = "stop" /\ signal.at <= created
  /\ stop' = [stop EXCEPT ![signal.at] = signal.at < created]
  /\ managerStop' = [managerStop EXCEPT ![signal.at] = Classifies]
  /\ signal' = [signal EXCEPT !.at = @ + 1]
  /\ UNCHANGED <<processVars, nfQueue, statsMutex, verdictStats, buffer, held, packetVars>>

(* PacketHandler::shutdown *)
StopHandler ==
  /\ ~Dead /\ signal.pc = "stop" /\ signal.at <= created
  /\ stop' = [stop EXCEPT ![signal.at] = TRUE]
  /\ managerStop' = [managerStop EXCEPT ![signal.at] = Classifies]
  /\ signal' = [signal EXCEPT !.at = @ + 1]
  /\ UNCHANGED <<processVars, nfQueue, statsMutex, verdictStats, buffer, held, packetVars>>

NextLoop ==
  /\ signal.at > created
  /\ SignalGoto("before", "stop") \/ SignalGoto("stop", "after") \/ SignalGoto("after", "done")
  /\ UNCHANGED <<processVars, handlerVars, packetVars>>

SignalStep == BeginShutdown \/ ReportStats \/ StopHandler \/ NextLoop

(* Somebody uses a queue or a handler that was destroyed.  The system may  *)
(* take the process down for it; in the other steps it goes unnoticed.     *)
UsesDestroyed ==
  \/ \E t \in Thread : pc[t] = "verdict" /\ nfQueue[QueueOf(t)] = "destroyed"
  \/ /\ signal.pc \in {"before", "stop", "after"} /\ signal.at <= created
     /\ nfQueue[signal.at] = "destroyed"

Crash ==
  /\ ~Dead /\ UsesDestroyed /\ mainPc' = "aborted"
  /\ UNCHANGED <<file, config, at, prints, stopping, created, handlerVars, packetVars, signal>>

-------------------------------------------------------------------------------
Environment ==
  \/ \E h \in Queue, kind \in Kind : Receive(h, kind)
  \/ \E h \in Queue : ReceiveError(h)
  \/ \E t \in Thread \cup {Main} : SignalArrives(t)
  \/ Crash

ThreadStep(t) ==
  \/ CountVerdict(t) \/ UnlockStats(t) \/ SetVerdictLocal(t) \/ SetVerdict(t)
  \/ DeletePacket(t)
  \/ IF IsWorker(t) THEN WorkerStep(t) ELSE ReaderStep(QueueOf(t))

Next == Environment \/ MainStep \/ SignalStep \/ \E t \in Thread : ThreadStep(t)

Spec == Init /\ [][Next]_vars

(* Every thread goes on while it can, and the signal handler, which runs   *)
(* on one of them.  The kernel need not send packets nor the user signals. *)
Fairness ==
  WF_vars(MainStep) /\ WF_vars(SignalStep) /\ \A t \in Thread : WF_vars(ThreadStep(t))

FairSpec == Spec /\ Fairness

-------------------------------------------------------------------------------
(* Properties *)

PacketRecord ==
  [queue : Queue, kind : {"flow", "other"}, verdicts : Seq({"accept", "drop"}), frees : Nat]
CallRecord ==
  [pkt : {0} \cup DOMAIN packets, verdict : {"accept", "drop"}, back : {"local", "add", "delete"}]
Pc == {"absent", "loop", "recv", "handle", "add", "idle", "stats", "counted", "verdict", "delete",
       "exited"}

(* Every variable has its type, and a mutex is held just by the thread     *)
(* that is about to release it.                                            *)
TypeOK ==
  /\ file \in Files /\ mainPc \in MainPc /\ at \in 1 .. MaxQueues + 1
  /\ prints \in Nat /\ stopping \in BOOLEAN /\ created \in 0 .. MaxQueues
  /\ nfQueue \in [Queue -> {"none", "open", "destroyed"}]
  /\ stop \in [Queue -> BOOLEAN] /\ managerStop \in [Queue -> BOOLEAN]
  /\ statsMutex \in [Queue -> Thread \cup {Main, NoThread}]
  /\ verdictStats \in [Queue -> [{"accept", "drop"} -> Nat]]
  /\ buffer \in [Queue -> {0} \cup DOMAIN packets]
  /\ held \in [Queue -> SUBSET DOMAIN packets]
  /\ packets \in Seq(PacketRecord)
  /\ pc \in [Thread -> Pc] /\ call \in [Thread -> CallRecord]
  /\ late \in [Queue -> Nat]
  /\ signal \in [pc : SignalPc, victim : Thread \cup {Main, NoThread},
                at : 1 .. MaxQueues + 1, started : BOOLEAN]
  /\ \A t \in Thread : pc[t] = "counted" <=> statsMutex[QueueOf(t)] = t

(* The buffer of a packet is freed once, when it is dealt with, and never  *)
(* while a queue, a worker or the receive loop still has the packet: the   *)
(* pointer the handler keeps after it gave the buffer to the packet object *)
(* (_buffer) frees nothing.  Only what is in the queues of a manager when  *)
(* it is destroyed is never freed.                                         *)
InHands(p) == (\E h \in Queue : p \in held[h]) \/ (\E t \in Thread : call[t].pkt = p)
ManagerGone(h) ==                       \* main is beyond it, or the process has ended
  mainPc \in {"exited", "aborted"} \/ (mainPc \in {"destroy", "close"} /\ h < at)
BufferFreedOnce ==
  \A p \in DOMAIN packets :
    /\ packets[p].frees \in (IF InHands(p) THEN {0} ELSE {0, 1})
    /\ ~InHands(p) /\ ~ManagerGone(packets[p].queue) => packets[p].frees = 1

(* A packet that is deleted has been given exactly one verdict, unless its *)
(* verdict came when the queue was destroyed already; no packet has two.   *)
DeletedHasVerdict ==
  \A p \in DOMAIN packets :
    /\ Len(packets[p].verdicts) <= 1
    /\ packets[p].frees > 0 /\ late[packets[p].queue] = 0 => Len(packets[p].verdicts) = 1

(* Unless VerdictAfterClassification is set, a packet the manager has is   *)
(* accepted already and no packet is dropped, a full queue or not.         *)
AcceptedBeforeQueued ==
  ~After => \A p \in DOMAIN packets :
    /\ "drop" \notin {packets[p].verdicts[i] : i \in DOMAIN packets[p].verdicts}
    /\ p \in held[packets[p].queue] => packets[p].verdicts = <<"accept">>

(* The statistics are the verdicts given, to the kernel or to a queue that *)
(* is gone, and those about to be given by a thread that counted first.    *)
StatsAddUp ==
  \A h \in Queue :
    verdictStats[h]["accept"] + verdictStats[h]["drop"]
      = Cardinality({p \in DOMAIN packets : packets[p].queue = h /\ packets[p].verdicts # << >>})
        + late[h]
        + Cardinality({t \in Thread : QueueOf(t) = h /\ pc[t] \in {"counted", "verdict"}})

(* A handler is not destroyed under the signal handler if that runs on the *)
(* main thread or on a receiving one, because main joins those first.  (On *)
(* a worker it is another matter.)                                         *)
HandlersOutliveSignal ==
  signal.pc \in {"begin", "before", "stop", "after"} /\ ~IsWorker(signal.victim)
    => \A h \in Queue : nfQueue[h] # "destroyed"

(* The workers run on when the queue is destroyed (~PacketHandler).  Only  *)
(* with VerdictAfterClassification do they set verdicts on it, and each    *)
(* just the one for the packet it had, if the signal stopped every manager *)
(* first: it found them all started and did not hit a worker.              *)
LateVerdicts ==
  \A h \in Queue :
    /\ ~After => late[h] = 0
    /\ signal.started /\ ~IsWorker(signal.victim) => late[h] <= NumWorkers

(* Each packet gets its verdict, unless a signal comes: also when its      *)
(* handler has ended on an error in the meantime.                          *)
EveryPacketDecided ==
  \A p \in 1 .. MaxPackets :
    p \in DOMAIN packets ~> \/ (p \in DOMAIN packets /\ packets[p].verdicts # << >>)
                            \/ signal.pc # "none" \/ Dead

(* A signal that finds all handlers started, and hits a thread that holds  *)
(* no _statsMutex, ends the process.                                       *)
SignalHarmless ==
  /\ signal.pc = "begin" /\ signal.started
  /\ \A h \in Queue : statsMutex[h] # signal.victim
SignalEndsProcess == SignalHarmless ~> Dead

(* The signals "exit process cleanly" (Process.cpp:64): whenever one comes,*)
(* the process ends.                                                       *)
ExitsCleanly == signal.pc = "begin" ~> Dead
===============================================================================
