--------------------------- MODULE NetfilterProofs ----------------------------
(***************************************************************************)
(* Theorems about Netfilter, for any number of queues, workers and packets *)
(* and any configuration files.  Each invariant rests on those before it:  *)
(* where the threads are (Structure), what a signal finds and leaves       *)
(* (Shutdown), who has which packet (Custody) and what the kernel has      *)
(* heard of it (Heard), and the counters (StatsAddUp, LateCount).          *)
(***************************************************************************)
EXTENDS Netfilter, ProofLemmas

-------------------------------------------------------------------------------
(* The invariants *)

WorkerPc == {"absent", "idle", "stats", "counted", "verdict", "delete", "exited"}
ReaderPc == Pc \ {"idle"}
EmptyPc  == {"absent", "loop", "recv", "idle", "exited"}     \* with no packet in hand
SettingPc == {"stats", "counted", "verdict"}          \* inside of setVerdict

(* A program goes beyond init only with a file that could be read.         *)
ConfigOK ==
  /\ config = ConfigOf(file)
  /\ mainPc \notin {"init", "failed"} =>
       NumQueues \in 0 .. MaxQueues /\ NumWorkers \in 0 .. MaxWorkers /\ After \in BOOLEAN

(* Main creates the handlers in order, and locks the mutex of the one it   *)
(* prints.                                                                 *)
MainOK ==
  /\ mainPc \in {"init", "read_db"} => at = 1 /\ created = 0
  /\ mainPc = "create" => created = at - 1
  /\ mainPc \in {"printed", "close"} => at <= created
  /\ mainPc = "printed" => statsMutex[at] = Main

(* A thread and a queue are there from the creation of their handler on;   *)
(* a thread has a packet in the middle of its work and only then.          *)
ThreadOK(t) ==
  /\ pc[t] = "absent" <=> QueueOf(t) > created
  /\ pc[t] \in IF IsWorker(t) THEN WorkerPc ELSE ReaderPc
  /\ call[t].pkt = 0 <=> pc[t] \in EmptyPc
  /\ call[t].back # "delete" => ~IsWorker(t) /\ pc[t] \in SettingPc \cup {"add"}
  /\ IsWorker(t) /\ pc[t] \notin {"absent", "exited"} => Classifies /\ t[3] <= NumWorkers

Structure ==
  /\ TypeOK /\ ConfigOK /\ MainOK
  /\ \A h \in Queue : nfQueue[h] = "none" <=> h > created
  /\ \A t \in Thread : ThreadOK(t)

(* Main comes to destroy the handlers after it has joined their readers,   *)
(* and to join them after the signal handler has begun.                    *)
JoinedOK ==
  /\ stopping => signal.pc \notin {"none", "begin"}
  /\ mainPc \in {"join", "destroy", "close", "exited"} => stopping
  /\ mainPc = "join" => \A h \in Queue : h < at => pc[Reader(h)] = "exited"
  /\ mainPc \in {"destroy", "close", "exited"} =>
       \A h \in Queue : h <= created => pc[Reader(h)] = "exited"
  /\ \A h \in Queue : nfQueue[h] = "destroyed" =>
       /\ mainPc \in {"destroy", "close", "exited", "aborted"}
       /\ pc[Reader(h)] = "exited" /\ signal.pc \notin {"none", "begin"}

(* The thread a signal has hit is alive and stays where it is.             *)
SignalOK ==
  /\ signal.pc = "none" <=> signal.victim = NoThread
  /\ \A t \in Thread : Interrupted(t) => pc[t] \notin {"absent", "exited"}
  /\ Interrupted(Main) => mainPc \notin {"join", "destroy", "close", "exited"}
  /\ signal.started => mainPc \notin {"init", "read_db", "create", "failed"}

(* It stops the managers in order, all of them if they were all created.   *)
StoppedOK ==
  Classifies => \A h \in Queue :
    /\ signal.pc = "stop" /\ h < signal.at => managerStop[h]
    /\ signal.pc \in {"after", "done"} /\ signal.started /\ h <= created => managerStop[h]

Shutdown == JoinedOK /\ SignalOK /\ StoppedOK /\ HandlersOutliveSignal

(* A packet is in one place at a time: with one thread or one manager, of  *)
(* the queue it came from; then it has not been freed, and then only.      *)
Places ==
  /\ \A t, u \in Thread : t # u /\ call[t].pkt # 0 => call[t].pkt # call[u].pkt
  /\ \A t \in Thread : call[t].pkt # 0 => packets[call[t].pkt].queue = QueueOf(t)
  /\ \A h \in Queue : \A p \in held[h] :
       packets[p].queue = h /\ \A t \in Thread : call[t].pkt # p
  /\ BufferFreedOnce

(* _buffer is the packet that setVerdictLocal is going to free.            *)
BufferOK ==
  \A t \in Thread : pc[t] = "handle" \/ call[t].back = "local" =>
    buffer[QueueOf(t)] = call[t].pkt

Custody == Places /\ BufferOK

(* How far setVerdict has come with each packet: t is still to call it, or *)
(* in it; or the packet has its verdict, or missed it.                     *)
Unheard(p) == packets[p].verdicts = << >>
HeardOnce(p) ==
  \E v \in {"accept", "drop"} :
    packets[p].verdicts = <<v>> /\ (~After => v = "accept")
Missed(p) == After /\ Unheard(p) /\ late[packets[p].queue] > 0
Dealt(p) == HeardOnce(p) \/ Missed(p)

ThreadHeard(t) ==
  LET p == call[t].pkt IN
  /\ pc[t] \in SettingPc \cup {"handle"} => Unheard(p)
  /\ pc[t] \in SettingPc /\ call[t].back # "local" => (After <=> call[t].back = "delete")
  /\ ~After => call[t].verdict = "accept"
  /\ pc[t] = "add" => IF After THEN Unheard(p) ELSE HeardOnce(p)
  /\ pc[t] = "delete" => Dealt(p)

Heard ==
  /\ \A t \in Thread : ThreadHeard(t)
  /\ \A h \in Queue : \A p \in held[h] : IF After THEN Unheard(p) ELSE HeardOnce(p)
  /\ \A p \in DOMAIN packets : packets[p].frees = 0 \/ Dealt(p)
  /\ \A p \in DOMAIN packets : Unheard(p) \/ HeardOnce(p)
  /\ \A h \in Queue : late[h] > 0 => After /\ nfQueue[h] = "destroyed"

(* With the managers stopped, a worker can be late with just the packet it *)
(* has.                                                                    *)
Latecomers(h) == {t \in Workers : QueueOf(t) = h /\ pc[t] \in SettingPc}
LateCount ==
  \A h \in Queue :
    signal.started /\ ~IsWorker(signal.victim) =>
      late[h] + Cardinality(Latecomers(h)) <= NumWorkers

-------------------------------------------------------------------------------
(* Threads *)

(* A reader is known by its queue; main and nobody are no such threads.    *)
LEMMA ThreadFacts ==
  /\ \A t \in Thread : QueueOf(t) \in Queue
  /\ \A h \in Queue : Reader(h) \in Thread /\ ~IsWorker(Reader(h)) /\ QueueOf(Reader(h)) = h
  /\ \A t \in Thread : ~IsWorker(t) => t = Reader(QueueOf(t))
  /\ \A t \in Thread : IsWorker(t) <=> t \in Workers
  /\ Main \notin Thread /\ NoThread \notin Thread /\ Main # NoThread
  /\ ~IsWorker(Main) /\ ~IsWorker(NoThread)
BY DEF Thread, Readers, Workers, Reader, Worker, Main, NoThread, IsWorker, QueueOf

(* The bounds are numbers, so the queues are.                              *)
LEMMA QueueFacts ==
  /\ MaxQueues \in Nat /\ MaxWorkers \in Nat /\ MaxPackets \in Nat
  /\ \A h \in Queue : h \in Nat /\ 1 <= h /\ h <= MaxQueues
  /\ \A n \in Int : 1 <= n /\ n <= MaxQueues => n \in Queue
BY NetfilterAssumption DEF Queue

(* 0 is no packet.                                                         *)
LEMMA ZeroIsNoPacket == TypeOK => 0 \notin DOMAIN packets
BY LenProperties DEF TypeOK

(* The packet of a thread.                                                 *)
LEMMA PacketOfCall ==
  ASSUME TypeOK, NEW t \in Thread
  PROVE  /\ call[t] \in CallRecord
         /\ call[t].pkt # 0 =>
              call[t].pkt \in DOMAIN packets /\ packets[call[t].pkt] \in PacketRecord
BY ElementOfSeq, LenProperties DEF TypeOK, CallRecord

(* What the end of a setVerdict does to the packets: the one of the thread *)
(* may get its verdict and may be freed, the others stay as they are.      *)
LEMMA KernelVerdictMoves ==
  ASSUME TypeOK, NEW t \in Thread, call[t].pkt # 0, NEW n \in {0, 1}, KernelVerdict(t, n)
  PROVE  LET p == call[t].pkt  h == QueueOf(t) IN
         /\ packets' \in Seq(PacketRecord) /\ DOMAIN packets' = DOMAIN packets
         /\ \A q \in DOMAIN packets : q # p => packets'[q] = packets[q]
         /\ packets'[p].queue = packets[p].queue
         /\ packets'[p].frees = packets[p].frees + n
         /\ packets'[p].verdicts = IF nfQueue[h] = "open"
                                   THEN Append(packets[p].verdicts, call[t].verdict)
                                   ELSE packets[p].verdicts
         /\ late' = IF nfQueue[h] = "open" THEN late ELSE [late EXCEPT ![h] = @ + 1]
         /\ late' \in [Queue -> Nat]
<1>. DEFINE p == call[t].pkt
            h == QueueOf(t)
            vs == IF nfQueue[h] = "open" THEN Append(packets[p].verdicts, call[t].verdict)
                  ELSE packets[p].verdicts
            r == [queue |-> packets[p].queue, kind |-> packets[p].kind,
                  frees |-> packets[p].frees + n, verdicts |-> vs]
<1>1. p \in DOMAIN packets /\ packets[p] \in PacketRecord /\ call[t] \in CallRecord
  BY PacketOfCall
<1>2. r \in PacketRecord
  <2>1. vs \in Seq({"accept", "drop"})
    BY <1>1 DEF PacketRecord, CallRecord
  <2>2. packets[p].frees + n \in Nat
    BY <1>1 DEF PacketRecord
  <2>. HIDE DEF vs
  <2>. QED
    BY <1>1, <2>1, <2>2 DEF PacketRecord
<1>3. packets' = [packets EXCEPT ![p] = r]
  BY DEF KernelVerdict
<1>4. packets' \in Seq(PacketRecord) /\ DOMAIN packets' = DOMAIN packets
  BY <1>1, <1>2, <1>3, SeqUpdate DEF TypeOK
<1>5. packets'[p] = r /\ \A q \in DOMAIN packets : q # p => packets'[q] = packets[q]
  BY <1>1, <1>3
<1>6. late' = IF nfQueue[h] = "open" THEN late ELSE [late EXCEPT ![h] = @ + 1]
  BY DEF KernelVerdict
<1>7. late' \in [Queue -> Nat]
  BY <1>6, ThreadFacts DEF TypeOK
<1>. QED
  BY <1>2, <1>4, <1>5, <1>6, <1>7

(* Deleting the packet of a thread frees it.                               *)
LEMMA DeleteMoves ==
  ASSUME TypeOK, NEW p \in DOMAIN packets,
         packets' = [packets EXCEPT ![p].frees = @ + 1]
  PROVE  /\ packets' \in Seq(PacketRecord) /\ DOMAIN packets' = DOMAIN packets
         /\ \A q \in DOMAIN packets : q # p => packets'[q] = packets[q]
         /\ packets'[p].queue = packets[p].queue
         /\ packets'[p].verdicts = packets[p].verdicts
         /\ packets'[p].frees = packets[p].frees + 1
<1>. DEFINE r == [packets[p] EXCEPT !.frees = @ + 1]
<1>1. packets[p] \in PacketRecord
  BY ElementOfSeq, LenProperties DEF TypeOK
<1>2. r \in PacketRecord
  BY <1>1 DEF PacketRecord
<1>3. packets' = [packets EXCEPT ![p] = r]
  OBVIOUS
<1>4. packets' \in Seq(PacketRecord) /\ DOMAIN packets' = DOMAIN packets
  BY <1>2, <1>3, SeqUpdate DEF TypeOK
<1>. QED
  BY <1>1, <1>3, <1>4 DEF PacketRecord

-------------------------------------------------------------------------------
(* Structure *)

(* Where neither the threads nor the number of handlers change, nothing    *)
(* said of the threads does.                                               *)
LEMMA SameThreads ==
  ASSUME Structure, UNCHANGED <<config, created, pc, call>>
  PROVE  \A t \in Thread : ThreadOK(t)'
BY DEF Structure, ThreadOK, Classifies, NumWorkers

(* A file that was loaded is a file of the assumption.                     *)
LEMMA LoadConfigStructure == Structure /\ LoadConfig => Structure'
<1>. SUFFICES ASSUME Structure, LoadConfig PROVE Structure'
  OBVIOUS
<1>. USE DEF LoadConfig, GotoMain, handlerVars, packetVars
<1>1. \A t \in Thread : ThreadOK(t)'
  BY SameThreads
<1>2. TypeOK' /\ MainOK' /\ (\A h \in Queue : nfQueue'[h] = "none" <=> h > created')
  BY DEF Structure, TypeOK, CallRecord, MainPc, MainOK
<1>3. ConfigOK'
  <2>1. config' = ConfigOf(file') /\ file' \in Files /\ config' = config /\ file' = file
    BY DEF Structure, ConfigOK, TypeOK
  <2>2. CASE InitResult(file) = "true"
    <3>1. /\ config.queues.numQueues \in 0 .. MaxQueues
          /\ config.common.workerThreadsPerQueue \in Int
          /\ config.common.workerThreadsPerQueue <= MaxWorkers
          /\ config.verdictAfterClassification \in BOOLEAN
      BY <2>1, <2>2, NetfilterAssumption
    <3>2. NumQueues \in 0 .. MaxQueues /\ NumWorkers \in 0 .. MaxWorkers /\ After \in BOOLEAN
      BY <3>1, QueueFacts DEF NumQueues, NumWorkers, After
    <3>. QED
      BY <2>1, <3>2 DEF ConfigOK, NumQueues, NumWorkers, After
  <2>3. CASE InitResult(file) # "true"
    BY <2>1, <2>3 DEF ConfigOK
  <2>. QED
    BY <2>2, <2>3
<1>. QED
  BY <1>1, <1>2, <1>3 DEF Structure

(* Main alone, but for the creation of a handler.                          *)
LEMMA MainStructure ==
  ASSUME Structure,
         \/ UsageExits \/ LoadConfig \/ (\E o, readable \in BOOLEAN : ReadDatabase(o, readable))
         \/ CreateFails \/ AllCreated
         \/ StartPrint \/ PrintStats \/ PrintedStats \/ EndPrint \/ LeaveMainLoop
         \/ Join \/ AllJoined
         \/ DestroyQueue \/ StopManager \/ DestroyManager \/ AllDestroyed \/ Crash
  PROVE  Structure'
<1>. USE DEF GotoMain, handlerVars, packetVars
<1>. DEFINE Kept == /\ UNCHANGED <<file, config, created, pc, call, packets, buffer, stop,
                                    verdictStats, late, signal>>
                    /\ held' \in [Queue -> SUBSET DOMAIN packets]
                    /\ mainPc \notin {"init", "failed"} \/ mainPc' = "failed"
            Rest == /\ mainPc' \in MainPc /\ at' \in 1 .. MaxQueues + 1
                    /\ prints' \in Nat /\ stopping' \in BOOLEAN
                    /\ nfQueue' \in [Queue -> {"none", "open", "destroyed"}]
                    /\ managerStop' \in [Queue -> BOOLEAN]
                    /\ statsMutex' \in [Queue -> Thread \cup {Main, NoThread}]
                    /\ \A t \in Thread : pc[t] = "counted" <=> statsMutex'[QueueOf(t)] = t
                    /\ \A h \in Queue : nfQueue'[h] = "none" <=> h > created
                    /\ MainOK'
<1>0. /\ mainPc \in MainPc /\ at \in 1 .. MaxQueues + 1
      /\ prints \in Nat /\ stopping \in BOOLEAN /\ created \in 0 .. MaxQueues
      /\ nfQueue \in [Queue -> {"none", "open", "destroyed"}]
      /\ managerStop \in [Queue -> BOOLEAN]
      /\ statsMutex \in [Queue -> Thread \cup {Main, NoThread}]
      /\ \A t \in Thread : pc[t] = "counted" <=> statsMutex[QueueOf(t)] = t
      /\ \A h \in Queue : nfQueue[h] = "none" <=> h > created
      /\ MainOK /\ held \in [Queue -> SUBSET DOMAIN packets]
  BY DEF Structure, TypeOK
<1>1. ASSUME Kept, Rest PROVE Structure'
  <2>1. \A t \in Thread : ThreadOK(t)'
    BY <1>1, SameThreads
  <2>2. ConfigOK'
    BY <1>1 DEF Structure, ConfigOK, NumQueues, NumWorkers, After
  <2>3. TypeOK'
    BY <1>1 DEF Structure, TypeOK, CallRecord
  <2>. QED
    BY <1>1, <2>1, <2>2, <2>3 DEF Structure
<1>2. CASE UsageExits
  <2>1. Kept
    BY <1>0, <1>2 DEF UsageExits
  <2>2. Rest
    BY <1>0, <1>2, ThreadFacts, QueueFacts DEF UsageExits, MainOK, MainPc
  <2>. QED
    BY <1>1, <2>1, <2>2
<1>3. CASE CreateFails
  <2>1. Kept
    BY <1>0, <1>3 DEF CreateFails
  <2>2. Rest
    BY <1>0, <1>3, ThreadFacts, QueueFacts DEF CreateFails, MainOK, MainPc
  <2>. QED
    BY <1>1, <2>1, <2>2
<1>4. CASE AllCreated
  <2>1. Kept
    BY <1>0, <1>4 DEF AllCreated
  <2>2. Rest
    BY <1>0, <1>4, ThreadFacts, QueueFacts DEF AllCreated, MainOK, MainPc
  <2>. QED
    BY <1>1, <2>1, <2>2
<1>5. CASE StartPrint
  <2>1. Kept
    BY <1>0, <1>5 DEF StartPrint
  <2>2. Rest
    BY <1>0, <1>5, ThreadFacts, QueueFacts DEF StartPrint, MainOK, MainPc
  <2>. QED
    BY <1>1, <2>1, <2>2
<1>6. CASE PrintStats
  <2>1. Kept
    BY <1>0, <1>6 DEF PrintStats
  <2>2. Rest
    BY <1>0, <1>6, ThreadFacts, QueueFacts DEF PrintStats, MainOK, MainPc
  <2>. QED
    BY <1>1, <2>1, <2>2
<1>7. CASE PrintedStats
  <2>1. Kept
    BY <1>0, <1>7 DEF PrintedStats
  <2>2. Rest
    BY <1>0, <1>7, ThreadFacts, QueueFacts DEF PrintedStats, MainOK, MainPc
  <2>. QED
    BY <1>1, <2>1, <2>2
<1>8. CASE EndPrint
  <2>1. Kept
    BY <1>0, <1>8 DEF EndPrint
  <2>2. Rest
    BY <1>0, <1>8, ThreadFacts, QueueFacts DEF EndPrint, MainOK, MainPc
  <2>. QED
    BY <1>1, <2>1, <2>2
<1>9. CASE LeaveMainLoop
  <2>1. Kept
    BY <1>0, <1>9 DEF LeaveMainLoop
  <2>2. Rest
    BY <1>0, <1>9, ThreadFacts, QueueFacts DEF LeaveMainLoop, MainOK, MainPc
  <2>. QED
    BY <1>1, <2>1, <2>2
<1>10. CASE Join
  <2>1. Kept
    BY <1>0, <1>10 DEF Join
  <2>2. Rest
    BY <1>0, <1>10, ThreadFacts, QueueFacts DEF Join, MainOK, MainPc
  <2>. QED
    BY <1>1, <2>1, <2>2
<1>11. CASE AllJoined
  <2>1. Kept
    BY <1>0, <1>11 DEF AllJoined
  <2>2. Rest
    BY <1>0, <1>11, ThreadFacts, QueueFacts DEF AllJoined, MainOK, MainPc
  <2>. QED
    BY <1>1, <2>1, <2>2
<1>12. CASE DestroyQueue
  <2>1. Kept
    BY <1>0, <1>12 DEF DestroyQueue
  <2>2. Rest
    BY <1>0, <1>12, ThreadFacts, QueueFacts DEF DestroyQueue, MainOK, MainPc
  <2>. QED
    BY <1>1, <2>1, <2>2
<1>13. CASE StopManager
  <2>1. Kept
    BY <1>0, <1>13 DEF StopManager
  <2>2. Rest
    BY <1>0, <1>13, ThreadFacts, QueueFacts DEF StopManager, MainOK, MainPc
  <2>. QED
    BY <1>1, <2>1, <2>2
<1>14. CASE DestroyManager
  <2>1. Kept
    BY <1>0, <1>14 DEF DestroyManager
  <2>2. Rest
    BY <1>0, <1>14, ThreadFacts, QueueFacts DEF DestroyManager, MainOK, MainPc
  <2>. QED
    BY <1>1, <2>1, <2>2
<1>15. CASE AllDestroyed
  <2>1. Kept
    BY <1>0, <1>15 DEF AllDestroyed
  <2>2. Rest
    BY <1>0, <1>15, ThreadFacts, QueueFacts DEF AllDestroyed, MainOK, MainPc
  <2>. QED
    BY <1>1, <2>1, <2>2
<1>16. CASE Crash
  <2>0. mainPc # "init"
    BY <1>0, <1>16, ThreadFacts, QueueFacts DEF Crash, UsesDestroyed, MainOK, Structure, TypeOK
  <2>1. Kept
    BY <1>0, <2>0, <1>16 DEF Crash, Dead
  <2>2. Rest
    BY <1>0, <1>16, ThreadFacts, QueueFacts DEF Crash, MainOK, MainPc, Dead
  <2>. QED
    BY <1>1, <2>1, <2>2
<1>17. CASE \E o, readable \in BOOLEAN : ReadDatabase(o, readable)
  <2>. PICK o, readable \in BOOLEAN : ReadDatabase(o, readable)
    BY <1>17
  <2>0. /\ mainPc = "read_db" /\ mainPc' \in {"create", "failed"}
        /\ UNCHANGED <<file, config, at, prints, stopping, created, handlerVars, packetVars,
                       signal>>
    BY DEF ReadDatabase
  <2>1. Kept
    BY <1>0, <2>0
  <2>2. Rest
    BY <1>0, <2>0 DEF MainOK, MainPc
  <2>. QED
    BY <1>1, <2>1, <2>2
<1>. QED
  BY LoadConfigStructure, <1>2, <1>3, <1>4, <1>5, <1>6, <1>7, <1>8, <1>9, <1>10, <1>11,
     <1>12, <1>13, <1>14, <1>15, <1>16, <1>17

(* A handler comes to be, with its reader and its workers.                 *)
LEMMA CreateStructure == Structure /\ CreateHandler => Structure'
<1>. SUFFICES ASSUME Structure, CreateHandler PROVE Structure'
  OBVIOUS
<1>1. /\ mainPc = "create" /\ mainPc' = "create" /\ at <= NumQueues
      /\ at' = at + 1 /\ created' = at /\ created = at - 1
      /\ nfQueue' = [nfQueue EXCEPT ![at] = "open"]
      /\ pc' = [t \in Thread |->
                  IF QueueOf(t) # at THEN pc[t]
                  ELSE IF ~IsWorker(t) THEN "loop"
                  ELSE IF Classifies /\ t[3] <= NumWorkers THEN "idle" ELSE "exited"]
      /\ UNCHANGED <<file, config, prints, stopping, stop, managerStop, statsMutex,
                     verdictStats, buffer, held, packets, call, late, signal>>
  BY DEF CreateHandler, GotoMain, Structure, MainOK
<1>2. at \in Queue /\ NumQueues \in 0 .. MaxQueues
  BY <1>1, QueueFacts DEF Structure, ConfigOK, TypeOK
<1>3. \A t \in Thread : QueueOf(t) = at => pc[t] = "absent"
  BY <1>1, <1>2, QueueFacts DEF Structure, ThreadOK
<1>4. ConfigOK' /\ MainOK'
  <2>1. ConfigOK'
    BY <1>1 DEF Structure, ConfigOK, NumQueues, NumWorkers, After
  <2>2. MainOK'
    BY <1>1, <1>2, QueueFacts DEF MainOK, Queue
  <2>. QED
    BY <2>1, <2>2
<1>5. \A h \in Queue : nfQueue'[h] = "none" <=> h > created'
  BY <1>1, <1>2, QueueFacts DEF Structure, TypeOK
<1>6. ASSUME NEW t \in Thread PROVE ThreadOK(t)'
  <2>1. QueueOf(t) \in Nat /\ ThreadOK(t)
    BY ThreadFacts, QueueFacts DEF Structure
  <2>2. CASE QueueOf(t) # at
    BY <1>1, <1>2, <2>1, <2>2, QueueFacts
       DEF ThreadOK, Classifies, NumWorkers
  <2>3. CASE QueueOf(t) = at
    BY <1>1, <1>2, <1>3, <2>1, <2>3, QueueFacts
       DEF ThreadOK, EmptyPc, SettingPc, WorkerPc, ReaderPc, Pc, Classifies, NumWorkers
  <2>. QED
    BY <2>2, <2>3
<1>7. pc' \in [Thread -> Pc]
  BY <1>1 DEF Structure, TypeOK, Pc
<1>8. \A t \in Thread : pc'[t] = "counted" <=> statsMutex'[QueueOf(t)] = t
  BY <1>1, <1>3 DEF Structure, TypeOK
<1>9. TypeOK'
  <2>1. call' \in [Thread -> CallRecord']
    BY <1>1 DEF Structure, TypeOK, CallRecord
  <2>2. signal' \in [pc : SignalPc, victim : Thread \cup {Main, NoThread},
                     at : 1 .. MaxQueues + 1, started : BOOLEAN]
    BY <1>1 DEF Structure, TypeOK
  <2>3. at' \in 1 .. MaxQueues + 1 /\ created' \in 0 .. MaxQueues
    BY <1>1, <1>2, QueueFacts DEF Structure, TypeOK
  <2>4. nfQueue' \in [Queue -> {"none", "open", "destroyed"}]
    BY <1>1, <1>2 DEF Structure, TypeOK
  <2>5. mainPc' \in MainPc
    BY <1>1 DEF Structure, TypeOK
  <2>. QED
    BY <1>1, <1>7, <1>8, <2>1, <2>2, <2>3, <2>4, <2>5 DEF Structure, TypeOK
<1>. QED
  BY <1>4, <1>5, <1>6, <1>9 DEF Structure

(* The signal handler touches none of it.                                  *)
LEMMA SignalStructure ==
  ASSUME Structure, SignalStep \/ \E t \in Thread \cup {Main} : SignalArrives(t)
  PROVE  Structure'
<1>. USE DEF SignalGoto, processVars, handlerVars, packetVars
<1>. DEFINE Kept == UNCHANGED <<file, config, mainPc, at, prints, created, nfQueue, statsMutex,
                               verdictStats, buffer, held, packets, pc, call, late>>
            Rest == /\ stopping' \in BOOLEAN
                    /\ stop' \in [Queue -> BOOLEAN] /\ managerStop' \in [Queue -> BOOLEAN]
                    /\ signal' \in [pc : SignalPc, victim : Thread \cup {Main, NoThread},
                                    at : 1 .. MaxQueues + 1, started : BOOLEAN]
<1>0. /\ stopping \in BOOLEAN /\ created \in 0 .. MaxQueues
      /\ stop \in [Queue -> BOOLEAN] /\ managerStop \in [Queue -> BOOLEAN]
      /\ signal \in [pc : SignalPc, victim : Thread \cup {Main, NoThread},
                     at : 1 .. MaxQueues + 1, started : BOOLEAN]
  BY DEF Structure, TypeOK
<1>1. ASSUME Kept, Rest PROVE Structure'
  <2>1. \A t \in Thread : ThreadOK(t)'
    BY <1>1, SameThreads
  <2>2. ConfigOK' /\ MainOK'
    BY <1>1 DEF Structure, ConfigOK, MainOK, NumQueues, NumWorkers, After
  <2>3. TypeOK'
    BY <1>1 DEF Structure, TypeOK, CallRecord
  <2>. QED
    BY <1>1, <2>1, <2>2, <2>3 DEF Structure
<1>2. CASE BeginShutdown
  <2>1. Kept
    BY <1>2 DEF BeginShutdown
  <2>2. Rest
    BY <1>0, <1>2, QueueFacts DEF BeginShutdown, SignalPc
  <2>. QED
    BY <1>1, <2>1, <2>2
<1>3. CASE ReportStats
  <2>1. Kept
    BY <1>3 DEF ReportStats
  <2>2. Rest
    BY <1>0, <1>3, QueueFacts DEF ReportStats, SignalPc
  <2>. QED
    BY <1>1, <2>1, <2>2
<1>4. CASE StopHandler
  <2>1. Kept
    BY <1>4 DEF StopHandler
  <2>2. Rest
    BY <1>0, <1>4, QueueFacts DEF StopHandler, SignalPc, Classifies
  <2>. QED
    BY <1>1, <2>1, <2>2
<1>5. CASE NextLoop
  <2>1. Kept
    BY <1>5 DEF NextLoop
  <2>2. Rest
    BY <1>0, <1>5, QueueFacts DEF NextLoop, SignalPc
  <2>. QED
    BY <1>1, <2>1, <2>2
<1>6. ASSUME NEW t \in Thread \cup {Main}, SignalArrives(t) PROVE Structure'
  <2>1. Kept
    BY <1>6 DEF SignalArrives
  <2>2. Rest
    BY <1>0, <1>6, QueueFacts DEF SignalArrives, SignalPc, Started
  <2>. QED
    BY <1>1, <2>1, <2>2
<1>. QED
  BY <1>2, <1>3, <1>4, <1>5, <1>6 DEF SignalStep

(* What is to be shown of a step of one thread.                            *)
LEMMA ThreadStructure ==
  ASSUME Structure, NEW t \in Thread, pc[t] # "absent",
         pc' \in [Thread -> Pc], call' \in [Thread -> CallRecord'],
         \A u \in Thread : u # t => pc'[u] = pc[u] /\ call'[u] = call[u],
         ThreadOK(t)',
         UNCHANGED <<processVars, nfQueue, managerStop, signal>>,
         packets' \in Seq(PacketRecord),
         stop' \in [Queue -> BOOLEAN],
         statsMutex' \in [Queue -> Thread \cup {Main, NoThread}],
         verdictStats' \in [Queue -> [{"accept", "drop"} -> Nat]],
         buffer' \in [Queue -> {0} \cup DOMAIN packets'],
         held' \in [Queue -> SUBSET DOMAIN packets'],
         late' \in [Queue -> Nat],
         \A u \in Thread : pc'[u] = "counted" <=> statsMutex'[QueueOf(u)] = u,
         mainPc = "printed" => statsMutex'[at] = Main
  PROVE  Structure'
<1>1. ASSUME NEW u \in Thread PROVE ThreadOK(u)'
  <2>1. CASE u # t
    <3>1. ThreadOK(u) /\ pc'[u] = pc[u] /\ call'[u] = call[u]
      BY <2>1 DEF Structure
    <3>. QED
      BY <3>1 DEF ThreadOK, Classifies, NumWorkers, processVars
  <2>. QED
    BY <2>1
<1>2. ConfigOK' /\ MainOK'
  BY DEF Structure, ConfigOK, MainOK, NumQueues, NumWorkers, After, processVars
<1>3. TypeOK'
  BY DEF Structure, TypeOK, processVars
<1>. QED
  BY <1>1, <1>2, <1>3 DEF Structure, processVars

(* setVerdict and the deletion, on any thread.                             *)
LEMMA SetVerdictStructure ==
  ASSUME Structure, NEW t \in Thread,
         \/ CountVerdict(t) \/ UnlockStats(t) \/ SetVerdictLocal(t) \/ SetVerdict(t)
         \/ DeletePacket(t)
  PROVE  Structure'
<1>. DEFINE h == QueueOf(t)
            Others == \A u \in Thread : u # t => pc'[u] = pc[u] /\ call'[u] = call[u]
            Mutex == \A u \in Thread : pc'[u] = "counted" <=> statsMutex'[QueueOf(u)] = u
            Printed == mainPc = "printed" => statsMutex'[at] = Main
<1>0. /\ h \in Queue /\ ThreadOK(t) /\ call[t] \in CallRecord
      /\ pc \in [Thread -> Pc] /\ call \in [Thread -> CallRecord]
      /\ stop \in [Queue -> BOOLEAN]
      /\ statsMutex \in [Queue -> Thread \cup {Main, NoThread}]
      /\ verdictStats \in [Queue -> [{"accept", "drop"} -> Nat]]
      /\ buffer \in [Queue -> {0} \cup DOMAIN packets]
      /\ held \in [Queue -> SUBSET DOMAIN packets]
      /\ late \in [Queue -> Nat]
      /\ packets \in Seq(PacketRecord)
      /\ \A u \in Thread : pc[u] = "counted" <=> statsMutex[QueueOf(u)] = u
      /\ mainPc = "printed" => statsMutex[at] = Main
      /\ at \in 1 .. MaxQueues + 1
  BY ThreadFacts DEF Structure, TypeOK, MainOK
<1>1. NoCall.pkt = 0 /\ NoCall.back = "delete" /\ NoCall \in CallRecord'
  BY DEF NoCall, CallRecord
<1>2. CASE CountVerdict(t)
  <2>1. /\ pc[t] = "stats" /\ pc' = [pc EXCEPT ![t] = "counted"]
        /\ statsMutex[h] = NoThread /\ statsMutex' = [statsMutex EXCEPT ![h] = t]
        /\ verdictStats' = [verdictStats EXCEPT ![h][call[t].verdict] = @ + 1]
        /\ UNCHANGED <<processVars, nfQueue, stop, managerStop, buffer, held, packets,
                       call, late, signal>>
    BY <1>2 DEF CountVerdict, Goto
  <2>2. verdictStats' \in [Queue -> [{"accept", "drop"} -> Nat]]
    BY <1>0, <2>1 DEF CallRecord
  <2>3. pc' \in [Thread -> Pc] /\ call' \in [Thread -> CallRecord'] /\ Others
    BY <1>0, <2>1 DEF CallRecord, Pc
  <2>4. ThreadOK(t)'
    BY <1>0, <2>1 DEF ThreadOK, EmptyPc, SettingPc, WorkerPc, ReaderPc, Pc, Classifies, NumWorkers,
                      processVars
  <2>5. Mutex /\ Printed
    BY <1>0, <2>1, ThreadFacts
  <2>. QED
    BY <1>0, <2>1, <2>2, <2>3, <2>4, <2>5, ThreadStructure
<1>3. CASE UnlockStats(t)
  <2>1. /\ pc[t] = "counted" /\ pc' = [pc EXCEPT ![t] = "verdict"]
        /\ statsMutex[h] = t /\ statsMutex' = [statsMutex EXCEPT ![h] = NoThread]
        /\ UNCHANGED <<processVars, nfQueue, stop, managerStop, verdictStats, buffer, held,
                       packets, call, late, signal>>
    BY <1>0, <1>3 DEF UnlockStats, Goto
  <2>2. pc' \in [Thread -> Pc] /\ call' \in [Thread -> CallRecord'] /\ Others
    BY <1>0, <2>1 DEF CallRecord, Pc
  <2>3. ThreadOK(t)'
    BY <1>0, <2>1 DEF ThreadOK, EmptyPc, SettingPc, WorkerPc, ReaderPc, Pc, Classifies, NumWorkers,
                      processVars
  <2>4. Mutex /\ Printed
    BY <1>0, <2>1, ThreadFacts
  <2>. QED
    BY <1>0, <2>1, <2>2, <2>3, <2>4, ThreadStructure
<1>4. CASE SetVerdictLocal(t)
  <2>1. /\ pc[t] = "verdict" /\ pc' = [pc EXCEPT ![t] = "loop"] /\ ~IsWorker(t)
        /\ call' = [call EXCEPT ![t] = NoCall] /\ buffer' = [buffer EXCEPT ![h] = 0]
        /\ UNCHANGED <<processVars, nfQueue, stop, managerStop, statsMutex, verdictStats,
                       held, signal>>
        /\ KernelVerdict(t, IF buffer[h] # 0 THEN 1 ELSE 0)
    BY <1>0, <1>4 DEF SetVerdictLocal, Goto, ThreadOK
  <2>2. call[t].pkt # 0
    BY <1>0, <2>1 DEF ThreadOK, EmptyPc
  <2>3. packets' \in Seq(PacketRecord) /\ DOMAIN packets' = DOMAIN packets
        /\ late' \in [Queue -> Nat]
    BY <2>1, <2>2, KernelVerdictMoves DEF Structure
  <2>4. pc' \in [Thread -> Pc] /\ call' \in [Thread -> CallRecord'] /\ Others
    BY <1>0, <1>1, <2>1, <2>3 DEF CallRecord, Pc
  <2>5. ThreadOK(t)'
    BY <1>0, <1>1, <2>1 DEF ThreadOK, EmptyPc, SettingPc, WorkerPc, ReaderPc, Pc, Classifies,
                            NumWorkers, processVars
  <2>6. Mutex /\ Printed
    BY <1>0, <2>1
  <2>. QED
    BY <1>0, <2>1, <2>3, <2>4, <2>5, <2>6, ThreadStructure
<1>5. CASE SetVerdict(t)
  <2>1. /\ pc[t] = "verdict" /\ call[t].back \in {"add", "delete"}
        /\ pc' = [pc EXCEPT ![t] = call[t].back]
        /\ UNCHANGED <<processVars, handlerVars, call, signal>>
        /\ KernelVerdict(t, 0)
    BY <1>0, <1>5 DEF SetVerdict, Goto, CallRecord
  <2>2. call[t].pkt # 0
    BY <1>0, <2>1 DEF ThreadOK, EmptyPc
  <2>3. packets' \in Seq(PacketRecord) /\ DOMAIN packets' = DOMAIN packets
        /\ late' \in [Queue -> Nat]
    BY <2>1, <2>2, KernelVerdictMoves DEF Structure
  <2>4. pc' \in [Thread -> Pc] /\ call' \in [Thread -> CallRecord'] /\ Others
    BY <1>0, <2>1, <2>3 DEF CallRecord, Pc
  <2>5. ThreadOK(t)'
    BY <1>0, <2>1 DEF ThreadOK, EmptyPc, SettingPc, WorkerPc, ReaderPc, Pc, Classifies,
                      NumWorkers, processVars
  <2>6. Mutex /\ Printed
    BY <1>0, <2>1 DEF handlerVars
  <2>. QED
    BY <1>0, <2>1, <2>3, <2>4, <2>5, <2>6, ThreadStructure DEF handlerVars
<1>6. CASE DeletePacket(t)
  <2>1. /\ pc[t] = "delete" /\ pc' = [pc EXCEPT ![t] = IF IsWorker(t) THEN "idle" ELSE "loop"]
        /\ call' = [call EXCEPT ![t] = NoCall]
        /\ packets' = [packets EXCEPT ![call[t].pkt].frees = @ + 1]
        /\ UNCHANGED <<processVars, handlerVars, late, signal>>
    BY <1>6 DEF DeletePacket, Goto
  <2>2. call[t].pkt \in DOMAIN packets
    BY <1>0, <2>1 DEF ThreadOK, EmptyPc, CallRecord
  <2>3. packets' \in Seq(PacketRecord) /\ DOMAIN packets' = DOMAIN packets
    BY <2>1, <2>2, DeleteMoves DEF Structure
  <2>4. pc' \in [Thread -> Pc] /\ call' \in [Thread -> CallRecord'] /\ Others
    BY <1>0, <1>1, <2>1, <2>3 DEF CallRecord, Pc
  <2>5. ThreadOK(t)'
    BY <1>0, <1>1, <2>1 DEF ThreadOK, EmptyPc, SettingPc, WorkerPc, ReaderPc, Pc, Classifies,
                            NumWorkers, processVars
  <2>6. Mutex /\ Printed
    BY <1>0, <2>1 DEF handlerVars
  <2>. QED
    BY <1>0, <2>1, <2>3, <2>4, <2>5, <2>6, ThreadStructure DEF handlerVars
<1>. QED
  BY <1>2, <1>3, <1>4, <1>5, <1>6

(* A packet comes in: one more in the sequence, and it is the reader's.    *)
LEMMA ReceiveMoves ==
  ASSUME TypeOK, NEW h \in Queue, NEW kind \in Kind, Receive(h, kind)
  PROVE  LET t == Reader(h)  p == Len(packets) + 1 IN
         /\ nfQueue[h] = "open" /\ pc[t] = "recv"
         /\ pc' = [pc EXCEPT ![t] = "handle"]
         /\ call' = [call EXCEPT ![t] = [pkt |-> p, verdict |-> "accept", back |-> "delete"]]
         /\ buffer' = [buffer EXCEPT ![h] = p]
         /\ packets' \in Seq(PacketRecord)
         /\ DOMAIN packets' = DOMAIN packets \cup {p} /\ p \notin DOMAIN packets
         /\ \A q \in DOMAIN packets : packets'[q] = packets[q]
         /\ packets'[p] = NewPacket(h, kind) /\ p # 0
         /\ UNCHANGED <<processVars, nfQueue, stop, managerStop, statsMutex, verdictStats, held,
                        late, signal>>
<1>1. NewPacket(h, kind) \in PacketRecord
  BY DEF NewPacket, PacketRecord, Kind
<1>2. packets' = Append(packets, NewPacket(h, kind)) /\ packets \in Seq(PacketRecord)
  BY DEF Receive, TypeOK
<1>3. /\ packets' \in Seq(PacketRecord)
      /\ DOMAIN packets' = DOMAIN packets \cup {Len(packets) + 1}
      /\ Len(packets) + 1 \notin DOMAIN packets /\ Len(packets) + 1 # 0
      /\ \A q \in DOMAIN packets : packets'[q] = packets[q]
      /\ packets'[Len(packets) + 1] = NewPacket(h, kind)
  <2>. HIDE DEF NewPacket
  <2>. QED
    BY <1>1, <1>2, SeqAppend
<1>4. \A n : [NoCall EXCEPT !.pkt = n] = [pkt |-> n, verdict |-> "accept", back |-> "delete"]
  BY DEF NoCall
<1>5. call' = [call EXCEPT ![Reader(h)] =
                [pkt |-> Len(packets) + 1, verdict |-> "accept", back |-> "delete"]]
  BY <1>4 DEF Receive
<1>. QED
  BY <1>3, <1>5 DEF Receive, Goto

(* The reader.                                                             *)
LEMMA ReaderStructure ==
  ASSUME Structure, NEW h \in Queue,
         \/ \E kind \in Kind : Receive(h, kind)
         \/ ReceiveError(h) \/ ReaderStep(h)
  PROVE  Structure'
<1>. DEFINE t == Reader(h)
            Others == \A u \in Thread : u # t => pc'[u] = pc[u] /\ call'[u] = call[u]
            Mutex == \A u \in Thread : pc'[u] = "counted" <=> statsMutex'[QueueOf(u)] = u
            Threads == /\ pc' \in [Thread -> Pc] /\ call' \in [Thread -> CallRecord']
                       /\ Others /\ ThreadOK(t)' /\ pc[t] # "absent" /\ Mutex
<1>0. /\ t \in Thread /\ QueueOf(t) = h /\ ~IsWorker(t) /\ ThreadOK(t) /\ call[t] \in CallRecord
      /\ pc \in [Thread -> Pc] /\ call \in [Thread -> CallRecord]
      /\ stop \in [Queue -> BOOLEAN]
      /\ statsMutex \in [Queue -> Thread \cup {Main, NoThread}]
      /\ verdictStats \in [Queue -> [{"accept", "drop"} -> Nat]]
      /\ buffer \in [Queue -> {0} \cup DOMAIN packets]
      /\ held \in [Queue -> SUBSET DOMAIN packets]
      /\ late \in [Queue -> Nat]
      /\ packets \in Seq(PacketRecord)
      /\ \A u \in Thread : pc[u] = "counted" <=> statsMutex[QueueOf(u)] = u
      /\ mainPc = "printed" => statsMutex[at] = Main
      /\ at \in 1 .. MaxQueues + 1
  BY ThreadFacts DEF Structure, TypeOK, MainOK
<1>. HIDE DEF t
<1>1. \A x \in Pc, c \in CallRecord' :
         /\ [pc EXCEPT ![t] = x] \in [Thread -> Pc]
         /\ (DOMAIN packets \subseteq DOMAIN packets' =>
               [call EXCEPT ![t] = c] \in [Thread -> CallRecord'])
  BY <1>0 DEF CallRecord
<1>2. NoCall \in CallRecord' /\ NoCall = [pkt |-> 0, verdict |-> "accept", back |-> "delete"]
  BY DEF NoCall, CallRecord
<1>3. ASSUME NEW kind \in Kind, Receive(h, kind) PROVE Structure'
  <2>. DEFINE p == Len(packets) + 1
              c == [pkt |-> p, verdict |-> "accept", back |-> "delete"]
  <2>1. /\ pc[t] = "recv" /\ pc' = [pc EXCEPT ![t] = "handle"] /\ call' = [call EXCEPT ![t] = c]
        /\ buffer' = [buffer EXCEPT ![h] = p]
        /\ packets' \in Seq(PacketRecord)
        /\ DOMAIN packets' = DOMAIN packets \cup {p} /\ p # 0
        /\ UNCHANGED <<processVars, nfQueue, stop, managerStop, statsMutex, verdictStats, held,
                       late, signal>>
    BY <1>3, ReceiveMoves DEF Structure, t
  <2>. HIDE DEF p
  <2>2. Threads
    BY <1>0, <1>1, <2>1 DEF CallRecord, ThreadOK, EmptyPc, SettingPc, WorkerPc, ReaderPc, Pc, Classifies,
                            NumWorkers, processVars
  <2>3. /\ verdictStats' \in [Queue -> [{"accept", "drop"} -> Nat]] /\ late' \in [Queue -> Nat]
        /\ stop' \in [Queue -> BOOLEAN] /\ statsMutex' \in [Queue -> Thread \cup {Main, NoThread}]
    BY <1>0, <2>1
  <2>4. buffer' \in [Queue -> {0} \cup DOMAIN packets'] /\ held' \in [Queue -> SUBSET DOMAIN packets']
    BY <1>0, <2>1
  <2>5. UNCHANGED <<processVars, nfQueue, managerStop, signal>>
    BY <2>1
  <2>6. packets' \in Seq(PacketRecord)
    BY <2>1
  <2>7. t \in Thread /\ (mainPc = "printed" => statsMutex'[at] = Main)
    BY <1>0, <2>1
  <2>. QED
    BY <2>2, <2>3, <2>4, <2>5, <2>6, <2>7, ThreadStructure
<1>4. CASE EnterReceive(h)
  <2>1. /\ pc[t] = "loop" /\ pc' = [pc EXCEPT ![t] = "recv"] /\ UNCHANGED <<packets, call, late>>
        /\ buffer' = [buffer EXCEPT ![h] = 0]
        /\ UNCHANGED <<processVars, nfQueue, stop, managerStop, statsMutex, verdictStats, held,
                       signal>>
    BY <1>4 DEF EnterReceive, Goto, t, packetVars
  <2>2. Threads
    BY <1>0, <1>1, <1>2, <2>1 DEF CallRecord, ThreadOK, EmptyPc, SettingPc, WorkerPc, ReaderPc, Pc, Classifies,
                            NumWorkers, processVars, handlerVars
  <2>. QED
    BY <1>0, <2>1, <2>2, ThreadStructure DEF handlerVars
<1>5. CASE ReceiveNothing(h) \/ ReceiveError(h)
  <2>1. /\ pc[t] = "recv" /\ pc' = [pc EXCEPT ![t] = "loop"] /\ UNCHANGED <<packets, call, late>>
        /\ stop' = stop \/ stop' = [stop EXCEPT ![h] = TRUE]
        /\ UNCHANGED <<processVars, nfQueue, managerStop, statsMutex, verdictStats, buffer, held,
                       signal>>
    BY <1>5 DEF ReceiveNothing, ReceiveError, Goto, t, packetVars, handlerVars
  <2>2. Threads
    BY <1>0, <1>1, <1>2, <2>1 DEF CallRecord, ThreadOK, EmptyPc, SettingPc, WorkerPc, ReaderPc, Pc, Classifies,
                            NumWorkers, processVars, handlerVars
  <2>3. stop' \in [Queue -> BOOLEAN]
    BY <1>0, <2>1
  <2>. QED
    BY <1>0, <2>1, <2>2, <2>3, ThreadStructure DEF handlerVars
<1>6. CASE LeaveLoop(h)
  <2>1. /\ pc[t] = "loop" /\ pc' = [pc EXCEPT ![t] = "exited"]
        /\ UNCHANGED <<processVars, handlerVars, packets, call, late, signal>>
    BY <1>6 DEF LeaveLoop, Goto, t, packetVars
  <2>2. Threads
    BY <1>0, <1>1, <1>2, <2>1 DEF CallRecord, ThreadOK, EmptyPc, SettingPc, WorkerPc, ReaderPc, Pc, Classifies,
                            NumWorkers, processVars, handlerVars
  <2>. QED
    BY <1>0, <2>1, <2>2, ThreadStructure DEF handlerVars
<1>7. CASE HandleOther(h)
  <2>1. /\ pc[t] = "handle" /\ pc' = [pc EXCEPT ![t] = "stats"]
        /\ call' = [call EXCEPT ![t] =
                      [pkt |-> call[t].pkt, verdict |-> "accept", back |-> "local"]]
        /\ UNCHANGED <<processVars, handlerVars, packets, late, signal>>
    BY <1>7 DEF HandleOther, Goto, t, packetVars, CallSetVerdict
  <2>2. Threads
    BY <1>0, <1>1, <1>2, <2>1 DEF CallRecord, ThreadOK, EmptyPc, SettingPc, WorkerPc, ReaderPc, Pc, Classifies,
                            NumWorkers, processVars, handlerVars
  <2>. QED
    BY <1>0, <2>1, <2>2, ThreadStructure DEF handlerVars
<1>8. CASE HandleInTest(h)
  <2>1. /\ pc[t] = "handle" /\ pc' = [pc EXCEPT ![t] = "stats"]
        /\ call' = [call EXCEPT ![t] =
                      [pkt |-> call[t].pkt, verdict |-> "accept", back |-> "local"]]
        /\ UNCHANGED <<processVars, handlerVars, packets, late, signal>>
    BY <1>8 DEF HandleInTest, Goto, t, packetVars, CallSetVerdict
  <2>2. Threads
    BY <1>0, <1>1, <1>2, <2>1 DEF CallRecord, ThreadOK, EmptyPc, SettingPc, WorkerPc, ReaderPc, Pc, Classifies,
                            NumWorkers, processVars, handlerVars
  <2>. QED
    BY <1>0, <2>1, <2>2, ThreadStructure DEF handlerVars
<1>9. CASE HandleFlow(h)
  <2>1. pc[t] = "handle" /\ UNCHANGED <<processVars, handlerVars, packets, late, signal>>
    BY <1>9 DEF HandleFlow, t
  <2>2. CASE pc' = [pc EXCEPT ![t] = "add"] /\ UNCHANGED call
    <3>1. Threads
      BY <1>0, <1>1, <2>1, <2>2 DEF CallRecord, ThreadOK, EmptyPc, SettingPc, WorkerPc, ReaderPc,
                                    Pc, Classifies, NumWorkers, processVars, handlerVars
    <3>. QED
      BY <1>0, <2>1, <2>2, <3>1, ThreadStructure DEF handlerVars
  <2>3. CASE CallSetVerdict(t, call[t].pkt, "accept", "add")
    <3>1. Threads
      BY <1>0, <1>1, <2>1, <2>3 DEF CallSetVerdict, CallRecord, ThreadOK, EmptyPc, SettingPc,
                    WorkerPc, ReaderPc, Pc, Classifies, NumWorkers, processVars, handlerVars
    <3>. QED
      BY <1>0, <2>1, <2>3, <3>1, ThreadStructure DEF handlerVars
  <2>. QED
    BY <1>9, <2>2, <2>3 DEF HandleFlow, t
<1>10. CASE AddAtOnce(h)
  <2>1. /\ pc[t] = "add"
        /\ \E x \in {"stats", "delete"}, v \in {"accept", "drop"} :
             /\ pc' = [pc EXCEPT ![t] = x]
             /\ call' = [call EXCEPT ![t] = [pkt |-> call[t].pkt, verdict |-> v, back |-> "delete"]]
        /\ UNCHANGED <<processVars, handlerVars, packets, late, signal>>
    BY <1>10 DEF AddAtOnce, Goto, t, packetVars, SetIfAfter, CallSetVerdict, NoCall
  <2>2. Threads
    BY <1>0, <1>1, <1>2, <2>1 DEF CallRecord, ThreadOK, EmptyPc, SettingPc, WorkerPc, ReaderPc, Pc, Classifies,
                            NumWorkers, processVars, handlerVars
  <2>. QED
    BY <1>0, <2>1, <2>2, ThreadStructure DEF handlerVars
<1>12. CASE AddOverflows(h)
  <2>1. /\ pc[t] = "add"
        /\ \E x \in {"stats", "delete"}, v \in {"accept", "drop"} :
             /\ pc' = [pc EXCEPT ![t] = x]
             /\ call' = [call EXCEPT ![t] = [pkt |-> call[t].pkt, verdict |-> v, back |-> "delete"]]
        /\ UNCHANGED <<processVars, handlerVars, packets, late, signal>>
    BY <1>12 DEF AddOverflows, Goto, t, packetVars, SetIfAfter, CallSetVerdict, NoCall
  <2>2. Threads
    BY <1>0, <1>1, <1>2, <2>1 DEF CallRecord, ThreadOK, EmptyPc, SettingPc, WorkerPc, ReaderPc, Pc, Classifies,
                            NumWorkers, processVars, handlerVars
  <2>. QED
    BY <1>0, <2>1, <2>2, ThreadStructure DEF handlerVars
<1>11. CASE AddToQueue(h)
  <2>1. /\ pc[t] = "add" /\ pc' = [pc EXCEPT ![t] = "loop"]
        /\ call' = [call EXCEPT ![t] = NoCall]
        /\ held' = [held EXCEPT ![h] = @ \cup {call[t].pkt}]
        /\ UNCHANGED <<processVars, nfQueue, stop, managerStop, statsMutex, verdictStats, buffer,
                       packets, late, signal>>
    BY <1>11 DEF AddToQueue, Goto, t
  <2>3. held' \in [Queue -> SUBSET DOMAIN packets']
    <3>1. call[t].pkt \in DOMAIN packets
      BY <1>0, <2>1 DEF CallRecord, ThreadOK, EmptyPc
    <3>. QED
      BY <1>0, <2>1, <3>1
  <2>2. Threads
    BY <1>0, <1>1, <1>2, <2>1 DEF CallRecord, ThreadOK, EmptyPc, SettingPc, WorkerPc, ReaderPc, Pc, Classifies,
                            NumWorkers, processVars, handlerVars
  <2>. QED
    BY <1>0, <2>1, <2>2, <2>3, ThreadStructure
<1>. QED
  BY <1>3, <1>4, <1>5, <1>6, <1>7, <1>8, <1>9, <1>10, <1>11, <1>12 DEF ReaderStep

(* The worker.                                                             *)
LEMMA WorkerStructure ==
  ASSUME Structure, NEW t \in Thread, IsWorker(t), WorkerStep(t)
  PROVE  Structure'
<1>. DEFINE h == QueueOf(t)
            Others == \A u \in Thread : u # t => pc'[u] = pc[u] /\ call'[u] = call[u]
            Mutex == \A u \in Thread : pc'[u] = "counted" <=> statsMutex'[QueueOf(u)] = u
            Threads == /\ pc' \in [Thread -> Pc] /\ call' \in [Thread -> CallRecord']
                       /\ Others /\ ThreadOK(t)' /\ pc[t] # "absent" /\ Mutex
<1>0. /\ h \in Queue /\ ThreadOK(t) /\ call[t] \in CallRecord
      /\ pc \in [Thread -> Pc] /\ call \in [Thread -> CallRecord]
      /\ stop \in [Queue -> BOOLEAN]
      /\ statsMutex \in [Queue -> Thread \cup {Main, NoThread}]
      /\ verdictStats \in [Queue -> [{"accept", "drop"} -> Nat]]
      /\ buffer \in [Queue -> {0} \cup DOMAIN packets]
      /\ held \in [Queue -> SUBSET DOMAIN packets]
      /\ late \in [Queue -> Nat]
      /\ packets \in Seq(PacketRecord)
      /\ \A u \in Thread : pc[u] = "counted" <=> statsMutex[QueueOf(u)] = u
      /\ mainPc = "printed" => statsMutex[at] = Main
      /\ at \in 1 .. MaxQueues + 1
  BY ThreadFacts DEF Structure, TypeOK, MainOK
<1>1. CASE WorkerExits(t)
  <2>1. /\ pc[t] = "idle" /\ pc' = [pc EXCEPT ![t] = "exited"]
        /\ UNCHANGED <<processVars, handlerVars, packets, call, late, signal>>
    BY <1>1 DEF WorkerExits, Goto
  <2>2. Threads
    BY <1>0, <2>1 DEF CallRecord, ThreadOK, EmptyPc, SettingPc, WorkerPc, ReaderPc, Pc, Classifies,
                      NumWorkers, processVars, handlerVars
  <2>. QED
    BY <1>0, <2>1, <2>2, ThreadStructure DEF handlerVars
<1>2. ASSUME NEW p \in held[h], Take(t, p) PROVE Structure'
  <2>1. /\ pc[t] = "idle" /\ held' = [held EXCEPT ![h] = @ \ {p}]
        /\ \E x \in {"stats", "delete"} :
             /\ pc' = [pc EXCEPT ![t] = x]
             /\ call' = [call EXCEPT ![t] = [pkt |-> p, verdict |-> "accept", back |-> "delete"]]
        /\ UNCHANGED <<processVars, nfQueue, stop, managerStop, statsMutex, verdictStats, buffer,
                       packets, late, signal>>
    BY <1>2 DEF Take, SetIfAfter, CallSetVerdict, NoCall
  <2>2. p \in DOMAIN packets /\ p # 0
    BY <1>0, ZeroIsNoPacket DEF Structure
  <2>3. Threads
    BY <1>0, <2>1, <2>2 DEF CallRecord, ThreadOK, EmptyPc, SettingPc, WorkerPc, ReaderPc, Pc,
                            Classifies, NumWorkers, processVars
  <2>4. held' \in [Queue -> SUBSET DOMAIN packets']
    BY <1>0, <2>1
  <2>. QED
    BY <1>0, <2>1, <2>3, <2>4, ThreadStructure
<1>. QED
  BY <1>1, <1>2 DEF WorkerStep

(* Nothing has happened yet.                                               *)
LEMMA InitStructure == Init => Structure
<1>. SUFFICES ASSUME Init PROVE Structure
  OBVIOUS
<1>. USE DEF Init, ProcessInit, HandlersInit
<1>1. packets \in Seq(PacketRecord) /\ DOMAIN packets = {}
  BY EmptySeq, LenProperties
<1>2. TypeOK
  <2>1. /\ mainPc \in MainPc /\ at \in 1 .. MaxQueues + 1 /\ created \in 0 .. MaxQueues
        /\ signal \in [pc : SignalPc, victim : Thread \cup {Main, NoThread},
                       at : 1 .. MaxQueues + 1, started : BOOLEAN]
    BY QueueFacts DEF MainPc, SignalPc
  <2>2. pc \in [Thread -> Pc] /\ call \in [Thread -> CallRecord]
    BY DEF Pc, NoCall, CallRecord
  <2>3. \A t \in Thread : pc[t] = "counted" <=> statsMutex[QueueOf(t)] = t
    BY ThreadFacts
  <2>4. /\ buffer \in [Queue -> {0} \cup DOMAIN packets]
        /\ held \in [Queue -> SUBSET DOMAIN packets]
        /\ verdictStats \in [Queue -> [{"accept", "drop"} -> Nat]]
        /\ late \in [Queue -> Nat] /\ prints \in Nat
    OBVIOUS
  <2>5. /\ nfQueue \in [Queue -> {"none", "open", "destroyed"}]
        /\ stop \in [Queue -> BOOLEAN] /\ managerStop \in [Queue -> BOOLEAN]
        /\ statsMutex \in [Queue -> Thread \cup {Main, NoThread}]
        /\ file \in Files /\ stopping \in BOOLEAN
    OBVIOUS
  <2>. QED
    BY <1>1, <2>1, <2>2, <2>3, <2>4, <2>5 DEF TypeOK
<1>3. ConfigOK /\ MainOK
  BY DEF ConfigOK, MainOK
<1>4. \A t \in Thread : ThreadOK(t)
  BY ThreadFacts, QueueFacts DEF ThreadOK, EmptyPc, NoCall, WorkerPc, ReaderPc, Pc
<1>. QED
  BY <1>2, <1>3, <1>4, QueueFacts DEF Structure

(* Every step keeps it: those of main, of the signal, and of a thread.     *)
LEMMA NextStructure == Structure /\ [Next]_vars => Structure'
<1>. SUFFICES ASSUME Structure, [Next]_vars PROVE Structure'
  OBVIOUS
<1>1. CASE Environment
  BY <1>1, ReaderStructure, SignalStructure, MainStructure DEF Environment
<1>2. CASE MainStep
  BY <1>2, CreateStructure, MainStructure DEF MainStep
<1>3. CASE SignalStep
  BY <1>3, SignalStructure
<1>4. ASSUME NEW t \in Thread, ThreadStep(t) PROVE Structure'
  <2>1. CASE IsWorker(t)
    BY <1>4, <2>1, SetVerdictStructure, WorkerStructure DEF ThreadStep
  <2>2. CASE ~IsWorker(t)
    BY <1>4, <2>2, ThreadFacts, SetVerdictStructure, ReaderStructure DEF ThreadStep
  <2>. QED
    BY <2>1, <2>2
<1>5. CASE UNCHANGED vars
  BY <1>5 DEF vars, Structure, TypeOK, ConfigOK, MainOK, ThreadOK, CallRecord, NumQueues,
              NumWorkers, After, Classifies
<1>. QED
  BY <1>1, <1>2, <1>3, <1>4, <1>5 DEF Next

(* Where the threads are, and every variable's type; a mutex is held just  *)
(* by the thread about to release it.                                      *)
LEMMA AlwaysStructure == Spec => []Structure
BY InitStructure, NextStructure, PTL DEF Spec

(* TypeOK is the first part of the structure: what each variable may       *)
(* hold, from start-up over the receive loops and setVerdict to the        *)
(* destructors.                                                            *)
THEOREM TypeCorrect == Spec => []TypeOK
<1>1. Structure => TypeOK
  BY DEF Structure
<1>. QED
  BY <1>1, AlwaysStructure, PTL

-------------------------------------------------------------------------------
(* Shutdown *)

(* A step of a thread that handles packets, the kernel's share included.   *)
HandlerStep(t) ==
  \/ ThreadStep(t)
  \/ \E h \in Queue :
       t = Reader(h) /\ (ReceiveError(h) \/ \E kind \in Kind : Receive(h, kind))

(* The step moves t, which runs, and nothing of main and the signal.       *)
OnlyMoves(t) ==
  /\ UNCHANGED <<processVars, nfQueue, managerStop, signal>>
  /\ \A u \in Thread : u # t => pc'[u] = pc[u] /\ call'[u] = call[u]
  /\ pc[t] \notin {"absent", "exited"} /\ ~Interrupted(t) /\ ~Dead

(* Each stretch of the receive loop, the callback and setVerdict is such   *)
(* a step.                                                                 *)
LEMMA HandlerFrame ==
  ASSUME Structure, NEW t \in Thread, HandlerStep(t)
  PROVE  OnlyMoves(t)
<1>. USE DEF OnlyMoves, processVars, handlerVars, packetVars, Goto, Runs
<1>0. pc \in [Thread -> Pc] /\ call \in [Thread -> CallRecord]
  BY DEF Structure, TypeOK
<1>1. CASE CountVerdict(t) \/ UnlockStats(t) \/ SetVerdictLocal(t) \/ SetVerdict(t)
           \/ DeletePacket(t)
  BY <1>0, <1>1 DEF CountVerdict, UnlockStats, SetVerdictLocal, SetVerdict, DeletePacket
<1>2. ASSUME WorkerStep(t) PROVE OnlyMoves(t)
  BY <1>0, <1>2 DEF WorkerStep, WorkerExits, Take, SetIfAfter, CallSetVerdict
<1>3. ASSUME NEW h \in Queue, t = Reader(h), ReaderStep(h) PROVE OnlyMoves(t)
  <2>1. CASE EnterReceive(h) \/ ReceiveNothing(h) \/ LeaveLoop(h) \/ AddToQueue(h)
    BY <1>0, <1>3, <2>1 DEF EnterReceive, ReceiveNothing, LeaveLoop, AddToQueue
  <2>2. CASE HandleInTest(h) \/ HandleOther(h) \/ HandleFlow(h)
    BY <1>0, <1>3, <2>2 DEF HandleInTest, HandleOther, HandleFlow, CallSetVerdict
  <2>3. CASE AddAtOnce(h) \/ AddOverflows(h)
    BY <1>0, <1>3, <2>3 DEF AddAtOnce, AddOverflows, SetIfAfter, CallSetVerdict
  <2>. QED
    BY <1>3, <2>1, <2>2, <2>3 DEF ReaderStep
<1>4. ASSUME NEW h \in Queue, t = Reader(h), ReceiveError(h) PROVE OnlyMoves(t)
  BY <1>0, <1>4 DEF ReceiveError
<1>5. ASSUME NEW h \in Queue, t = Reader(h), NEW kind \in Kind, Receive(h, kind) PROVE OnlyMoves(t)
  BY <1>0, <1>5 DEF Receive
<1>6. CASE ThreadStep(t)
  <2>1. ~IsWorker(t) => t = Reader(QueueOf(t)) /\ QueueOf(t) \in Queue
    BY ThreadFacts
  <2>. QED
    BY <1>1, <1>2, <1>3, <1>6, <2>1 DEF ThreadStep
<1>. HIDE DEF OnlyMoves
<1>. QED
  BY <1>4, <1>5, <1>6 DEF HandlerStep

(* The steps by who makes them.                                            *)
LEMMA NextByActor ==
  Next => \/ MainStep \/ Crash \/ SignalStep
          \/ \E t \in Thread \cup {Main} : SignalArrives(t)
          \/ \E t \in Thread : HandlerStep(t)
BY ThreadFacts DEF Next, Environment, HandlerStep

(* Threads that handle packets: none that was interrupted or is done moves.*)
LEMMA HandlerShutdown ==
  ASSUME Structure, Shutdown, NEW t \in Thread, HandlerStep(t)
  PROVE  Shutdown'
<1>1. OnlyMoves(t)
  BY HandlerFrame
<1>2. JoinedOK'
  BY <1>1, ThreadFacts DEF OnlyMoves, processVars, Shutdown, JoinedOK
<1>3. SignalOK'
  BY <1>1 DEF OnlyMoves, processVars, Shutdown, SignalOK, Interrupted
<1>4. StoppedOK' /\ HandlersOutliveSignal'
  BY <1>1 DEF OnlyMoves, processVars, Shutdown, StoppedOK, HandlersOutliveSignal, Classifies
<1>. QED
  BY <1>2, <1>3, <1>4 DEF Shutdown

(* Main: it runs, so no signal is being handled on it.                     *)
LEMMA MainShutdown ==
  ASSUME Structure, Shutdown, MainStep \/ Crash
  PROVE  Shutdown'
<1>. USE DEF GotoMain, handlerVars, packetVars, Runs
<1>0. /\ mainPc \in MainPc /\ at \in 1 .. MaxQueues + 1 /\ created \in 0 .. MaxQueues
      /\ nfQueue \in [Queue -> {"none", "open", "destroyed"}]
      /\ managerStop \in [Queue -> BOOLEAN]
      /\ signal.victim \in Thread \cup {Main, NoThread} /\ signal.at \in Nat
      /\ \A h \in Queue : nfQueue[h] = "none" <=> h > created
      /\ \A h \in Queue : pc[Reader(h)] = "absent" <=> h > created
      /\ MainOK
  <2>1. \A h \in Queue : pc[Reader(h)] = "absent" <=> h > created
    BY ThreadFacts DEF Structure, ThreadOK
  <2>. QED
    BY <2>1, QueueFacts DEF Structure, TypeOK
<1>1. UNCHANGED <<file, config, signal>>
  BY DEF MainStep, UsageExits, LoadConfig, ReadDatabase, CreateHandler, CreateFails, AllCreated,
         StartPrint, PrintStats, PrintedStats, EndPrint, LeaveMainLoop, Join, AllJoined,
         DestroyQueue, StopManager, DestroyManager, AllDestroyed, Crash
(* Where only main itself goes on. *)
<1>. DEFINE Quiet == UNCHANGED <<stopping, created, nfQueue, managerStop, pc>>
<1>2. ASSUME Quiet, JoinedOK',
             mainPc' \notin {"init", "read_db", "create", "failed"} \/ ~signal.started,
             ~Interrupted(Main) \/ mainPc' \notin {"join", "destroy", "close", "exited"}
      PROVE  Shutdown'
  BY <1>1, <1>2 DEF Shutdown, SignalOK, StoppedOK, HandlersOutliveSignal, Interrupted, Classifies
<1>3. CASE UsageExits
  BY <1>0, <1>1, <1>2, <1>3, QueueFacts DEF UsageExits, Shutdown, JoinedOK, SignalOK
<1>4. CASE LoadConfig
  BY <1>0, <1>1, <1>2, <1>4, QueueFacts DEF LoadConfig, Shutdown, JoinedOK, SignalOK
<1>5. CASE CreateFails
  BY <1>0, <1>1, <1>2, <1>5, QueueFacts DEF CreateFails, Shutdown, JoinedOK, SignalOK
<1>6. CASE AllCreated
  BY <1>0, <1>1, <1>2, <1>6, QueueFacts DEF AllCreated, Shutdown, JoinedOK, SignalOK
<1>7. CASE StartPrint
  BY <1>0, <1>1, <1>2, <1>7, QueueFacts DEF StartPrint, Shutdown, JoinedOK, SignalOK
<1>8. CASE PrintStats
  BY <1>0, <1>1, <1>2, <1>8, QueueFacts DEF PrintStats, Shutdown, JoinedOK, SignalOK
<1>9. CASE PrintedStats
  BY <1>0, <1>1, <1>2, <1>9, QueueFacts DEF PrintedStats, Shutdown, JoinedOK, SignalOK
<1>10. CASE EndPrint
  BY <1>0, <1>1, <1>2, <1>10, QueueFacts DEF EndPrint, Shutdown, JoinedOK, SignalOK
<1>11. CASE LeaveMainLoop
  BY <1>0, <1>1, <1>2, <1>11, QueueFacts DEF LeaveMainLoop, Shutdown, JoinedOK, SignalOK
<1>12. CASE Join
  BY <1>0, <1>1, <1>2, <1>12, QueueFacts DEF Join, Shutdown, JoinedOK, SignalOK
<1>13. CASE AllJoined
  BY <1>0, <1>1, <1>2, <1>13, QueueFacts DEF AllJoined, Shutdown, JoinedOK, SignalOK
<1>14. CASE DestroyManager
  BY <1>0, <1>1, <1>2, <1>14, QueueFacts DEF DestroyManager, Shutdown, JoinedOK, SignalOK
<1>15. CASE AllDestroyed
  BY <1>0, <1>1, <1>2, <1>15, QueueFacts DEF AllDestroyed, Shutdown, JoinedOK, SignalOK
<1>16. CASE Crash
  BY <1>0, <1>1, <1>2, <1>16, QueueFacts DEF Crash, Shutdown, JoinedOK, SignalOK, Dead
<1>17. ASSUME NEW o \in BOOLEAN, NEW readable \in BOOLEAN, ReadDatabase(o, readable) PROVE Shutdown'
  <2>1. /\ mainPc = "read_db" /\ mainPc' \in {"create", "failed"}
        /\ UNCHANGED <<at, stopping, created, handlerVars, packetVars>>
    BY <1>17 DEF ReadDatabase
  <2>. QED
    BY <1>0, <1>1, <1>2, <2>1 DEF Shutdown, JoinedOK, SignalOK
<1>18. CASE CreateHandler
  <2>1. /\ mainPc = "create" /\ mainPc' = "create" /\ at' = at + 1 /\ created' = at
        /\ created = at - 1 /\ at \in Queue /\ ~signal.started
        /\ nfQueue' = [nfQueue EXCEPT ![at] = "open"]
        /\ UNCHANGED <<stopping, managerStop>>
    <3>1. mainPc = "create" /\ at <= NumQueues /\ NumQueues \in 0 .. MaxQueues
      BY <1>18 DEF CreateHandler, Structure, ConfigOK
    <3>2. at \in Queue
      BY <1>0, <3>1, QueueFacts
    <3>3. ~signal.started /\ created = at - 1
      BY <1>0, <3>1 DEF MainOK, Shutdown, SignalOK
    <3>. QED
      BY <1>18, <3>1, <3>2, <3>3 DEF CreateHandler
  <2>2. \A t \in Thread : pc[t] # "absent" => pc'[t] = pc[t]
    BY <1>0, <1>18, <2>1 DEF CreateHandler, Structure, ThreadOK
  <2>3. JoinedOK'
    BY <1>0, <1>1, <2>1, <2>2, ThreadFacts DEF Shutdown, JoinedOK
  <2>4. SignalOK'
    BY <1>1, <2>1, <2>2 DEF Shutdown, SignalOK, Interrupted
  <2>5. StoppedOK'
    BY <1>1, <2>1 DEF Shutdown, StoppedOK, Classifies
  <2>6. HandlersOutliveSignal'
    BY <1>0, <1>1, <2>1 DEF Shutdown, HandlersOutliveSignal
  <2>. QED
    BY <2>3, <2>4, <2>5, <2>6 DEF Shutdown
<1>19. CASE DestroyQueue
  <2>1. /\ mainPc = "destroy" /\ mainPc' = "close" /\ at <= created /\ at \in Queue
        /\ nfQueue' = [nfQueue EXCEPT ![at] = "destroyed"] /\ ~Interrupted(Main)
        /\ UNCHANGED <<at, stopping, created, managerStop, pc>>
    BY <1>0, <1>19, QueueFacts DEF DestroyQueue
  <2>2. JoinedOK'
    BY <1>0, <1>1, <2>1, QueueFacts DEF Shutdown, JoinedOK
  <2>3. SignalOK' /\ StoppedOK'
    BY <1>1, <2>1 DEF Shutdown, SignalOK, StoppedOK, Interrupted, Classifies
  <2>4. ASSUME signal.pc \in {"begin", "before", "stop", "after"} PROVE IsWorker(signal.victim)
    <3>1. signal.victim \in Thread
      BY <1>0, <2>1, <2>4 DEF Shutdown, SignalOK, Interrupted
    <3>2. pc[signal.victim] \notin {"absent", "exited"}
      BY <2>4, <3>1 DEF Shutdown, SignalOK, Interrupted
    <3>3. ASSUME NEW h \in Queue PROVE signal.victim # Reader(h)
      BY <1>0, <2>1, <3>2, <3>3, QueueFacts DEF Shutdown, JoinedOK
    <3>. QED
      BY <3>1, <3>3, ThreadFacts
  <2>5. HandlersOutliveSignal'
    BY <1>1, <2>4 DEF HandlersOutliveSignal
  <2>. QED
    BY <2>2, <2>3, <2>5 DEF Shutdown
<1>20. CASE StopManager
  <2>1. /\ mainPc = "close" /\ mainPc' = "close" /\ at \in Queue
        /\ managerStop' = [managerStop EXCEPT ![at] = TRUE]
        /\ UNCHANGED <<at, stopping, created, nfQueue, pc>>
    BY <1>0, <1>20, QueueFacts DEF StopManager, MainOK
  <2>2. JoinedOK' /\ SignalOK' /\ HandlersOutliveSignal'
    BY <1>1, <2>1 DEF Shutdown, JoinedOK, SignalOK, HandlersOutliveSignal, Interrupted
  <2>3. StoppedOK'
    BY <1>0, <1>1, <2>1 DEF Shutdown, StoppedOK, Classifies
  <2>. QED
    BY <2>2, <2>3 DEF Shutdown
<1>. QED
  BY <1>3, <1>4, <1>5, <1>6, <1>7, <1>8, <1>9, <1>10, <1>11, <1>12, <1>13, <1>14, <1>15,
     <1>16, <1>17, <1>18, <1>19, <1>20 DEF MainStep

(* The signal handler.                                                     *)
LEMMA SignalShutdown ==
  ASSUME Structure, Shutdown, SignalStep \/ \E t \in Thread \cup {Main} : SignalArrives(t)
  PROVE  Shutdown'
<1>. USE DEF handlerVars, packetVars, processVars
<1>0. /\ signal \in [pc : SignalPc, victim : Thread \cup {Main, NoThread},
                     at : 1 .. MaxQueues + 1, started : BOOLEAN]
      /\ managerStop \in [Queue -> BOOLEAN] /\ created \in 0 .. MaxQueues
      /\ mainPc \in MainPc
  BY DEF Structure, TypeOK
<1>1. UNCHANGED <<file, config, mainPc, at, created, nfQueue, pc>>
  BY DEF SignalStep, BeginShutdown, ReportStats, StopHandler, NextLoop, SignalArrives
<1>2. ASSUME NEW t \in Thread \cup {Main}, SignalArrives(t) PROVE Shutdown'
  <2>1. /\ signal.pc = "none" /\ ~Dead /\ Alive(t) /\ UNCHANGED <<stopping, managerStop>>
        /\ signal' = [pc |-> "begin", victim |-> t, at |-> 1, started |-> Started]
    BY <1>2 DEF SignalArrives
  <2>2. ~stopping /\ mainPc \notin {"join", "destroy", "close", "exited"}
        /\ \A h \in Queue : nfQueue[h] # "destroyed"
    BY <2>1 DEF Shutdown, JoinedOK
  <2>3. JoinedOK' /\ HandlersOutliveSignal'
    BY <1>1, <2>1, <2>2 DEF JoinedOK, HandlersOutliveSignal
  <2>4. SignalOK'
    BY <1>1, <2>1, <2>2, ThreadFacts DEF SignalOK, Interrupted, Alive, Started, Dead
  <2>5. StoppedOK'
    BY <2>1 DEF StoppedOK
  <2>. QED
    BY <2>3, <2>4, <2>5 DEF Shutdown
<1>3. CASE BeginShutdown
  <2>1. /\ signal.pc = "begin" /\ stopping' = TRUE /\ UNCHANGED managerStop
        /\ signal' = [pc |-> "before", victim |-> signal.victim, at |-> 1,
                      started |-> signal.started]
    BY <1>3 DEF BeginShutdown, SignalGoto
  <2>2. JoinedOK' /\ HandlersOutliveSignal' /\ StoppedOK'
    BY <1>1, <2>1 DEF Shutdown, JoinedOK, HandlersOutliveSignal, StoppedOK
  <2>3. SignalOK'
    BY <1>1, <2>1 DEF Shutdown, SignalOK, Interrupted
  <2>. QED
    BY <2>2, <2>3 DEF Shutdown
<1>4. CASE ReportStats
  <2>1. /\ signal.pc \in {"before", "after"} /\ UNCHANGED <<stopping, managerStop>>
        /\ signal'.pc = signal.pc /\ signal'.victim = signal.victim
        /\ signal'.started = signal.started
    BY <1>0, <1>4 DEF ReportStats
  <2>2. JoinedOK' /\ HandlersOutliveSignal' /\ StoppedOK'
    BY <1>1, <2>1 DEF Shutdown, JoinedOK, HandlersOutliveSignal, StoppedOK, Classifies
  <2>3. SignalOK'
    BY <1>1, <2>1 DEF Shutdown, SignalOK, Interrupted
  <2>. QED
    BY <2>2, <2>3 DEF Shutdown
<1>5. CASE StopHandler
  <2>1. /\ signal.pc = "stop" /\ UNCHANGED stopping
        /\ signal'.pc = signal.pc /\ signal'.victim = signal.victim
        /\ signal'.started = signal.started /\ signal'.at = signal.at + 1
        /\ managerStop' = [managerStop EXCEPT ![signal.at] = Classifies]
    BY <1>0, <1>5 DEF StopHandler
  <2>2. JoinedOK' /\ HandlersOutliveSignal'
    BY <1>1, <2>1 DEF Shutdown, JoinedOK, HandlersOutliveSignal
  <2>3. SignalOK'
    BY <1>1, <2>1 DEF Shutdown, SignalOK, Interrupted
  <2>4. ASSUME Classifies PROVE \A h \in Queue : h < signal.at + 1 => managerStop'[h]
    <3>1. signal.at \in Nat
      BY <1>0, QueueFacts
    <3>2. \A h \in Queue : h < signal.at + 1 => h < signal.at \/ h = signal.at
      BY <3>1, QueueFacts
    <3>3. \A h \in Queue : h < signal.at => managerStop[h]
      BY <2>1, <2>4 DEF Shutdown, StoppedOK
    <3>. QED
      BY <1>0, <2>1, <2>4, <3>2, <3>3
  <2>5. StoppedOK'
    BY <1>1, <2>1, <2>4 DEF StoppedOK, Classifies
  <2>. QED
    BY <2>2, <2>3, <2>5 DEF Shutdown
<1>6. CASE NextLoop
  <2>1. /\ signal.at > created /\ UNCHANGED <<stopping, managerStop>>
        /\ signal'.victim = signal.victim /\ signal'.started = signal.started /\ signal'.at = 1
        /\ \/ signal.pc = "before" /\ signal'.pc = "stop"
           \/ signal.pc = "stop" /\ signal'.pc = "after"
           \/ signal.pc = "after" /\ signal'.pc = "done"
    BY <1>0, <1>6 DEF NextLoop, SignalGoto
  <2>2. JoinedOK' /\ HandlersOutliveSignal'
    BY <1>1, <2>1 DEF Shutdown, JoinedOK, HandlersOutliveSignal
  <2>3. SignalOK'
    BY <1>1, <2>1 DEF Shutdown, SignalOK, Interrupted
  <2>4. StoppedOK'
    <3>1. created \in Nat /\ signal.at \in Nat
      BY <1>0, QueueFacts
    <3>2. \A h \in Queue : ~(h < signal'.at) /\ (h <= created => h < signal.at)
      BY <2>1, <3>1, QueueFacts
    <3>. QED
      BY <1>1, <2>1, <3>2 DEF Shutdown, StoppedOK, Classifies
  <2>. QED
    BY <2>2, <2>3, <2>4 DEF Shutdown
<1>. QED
  BY <1>2, <1>3, <1>4, <1>5, <1>6 DEF SignalStep

(* Nobody was stopped before the process starts.                           *)
LEMMA InitShutdown == Init => Shutdown
BY ThreadFacts
   DEF Init, ProcessInit, HandlersInit, Shutdown, JoinedOK, SignalOK, StoppedOK, Interrupted,
       HandlersOutliveSignal

(* Starting, joining, stopping and destroying happen in the order that it  *)
(* says.                                                                   *)
LEMMA NextShutdown == Structure /\ Shutdown /\ [Next]_vars => Shutdown'
<1>. SUFFICES ASSUME Structure, Shutdown, [Next]_vars PROVE Shutdown'
  OBVIOUS
<1>1. CASE Next
  BY <1>1, NextByActor, HandlerShutdown, MainShutdown, SignalShutdown
<1>2. CASE UNCHANGED vars
  BY <1>2 DEF vars, Shutdown, JoinedOK, SignalOK, StoppedOK, Interrupted, HandlersOutliveSignal,
              Classifies
<1>. QED
  BY <1>1, <1>2

(* With the structure it is inductive.                                     *)
LEMMA AlwaysShutdown == Spec => []Shutdown
BY AlwaysStructure, InitShutdown, NextShutdown, PTL DEF Spec

(* The signal handler finds every handler it may turn to, unless it runs   *)
(* on a worker: main joins the readers, and itself, before it destroys any *)
(* (Process::shutdown, the end of main).                                   *)
THEOREM HandlersAreThere == Spec => []HandlersOutliveSignal
<1>1. Shutdown => HandlersOutliveSignal
  BY DEF Shutdown
<1>. QED
  BY <1>1, AlwaysShutdown, PTL

-------------------------------------------------------------------------------
(* Custody *)

(* A step at which no packet changes hands.                                *)
LEMMA KeepPlaces ==
  ASSUME Places, DOMAIN packets' = DOMAIN packets, UNCHANGED <<held, mainPc, at>>,
         \A t \in Thread : call'[t].pkt = call[t].pkt,
         \A p \in DOMAIN packets :
           packets'[p].queue = packets[p].queue /\ packets'[p].frees = packets[p].frees,
         TypeOK
  PROVE  Places'
<1>1. \A t \in Thread : call[t].pkt # 0 => call[t].pkt \in DOMAIN packets
  BY PacketOfCall
<1>2. \A h \in Queue : held[h] \subseteq DOMAIN packets
  BY DEF TypeOK
<1>3. \A p : InHands(p)' <=> InHands(p)
  BY DEF InHands
<1>. QED
  BY <1>1, <1>2, <1>3 DEF Places, BufferFreedOnce, ManagerGone

(* A thread frees its packet.                                              *)
LEMMA DropPlaces ==
  ASSUME Places, TypeOK, NEW t \in Thread, call[t].pkt # 0,
         DOMAIN packets' = DOMAIN packets, UNCHANGED <<held, mainPc, at>>,
         call'[t].pkt = 0, \A u \in Thread : u # t => call'[u] = call[u],
         \A p \in DOMAIN packets :
           /\ packets'[p].queue = packets[p].queue
           /\ packets'[p].frees = packets[p].frees + IF p = call[t].pkt THEN 1 ELSE 0
  PROVE  Places'
<1>1. \A u \in Thread : call[u].pkt # 0 => call[u].pkt \in DOMAIN packets
  BY PacketOfCall
<1>2. \A h \in Queue : held[h] \subseteq DOMAIN packets
  BY DEF TypeOK
<1>3. ASSUME NEW p \in DOMAIN packets PROVE p # 0 /\ packets[p].frees \in Nat
  <2>1. packets[p] \in PacketRecord
    BY ElementOfSeq, LenProperties DEF TypeOK
  <2>. QED
    BY <2>1, ZeroIsNoPacket DEF PacketRecord
<1>4. \A p \in DOMAIN packets : InHands(p)' <=> InHands(p) /\ p # call[t].pkt
  BY <1>3 DEF InHands, Places
<1>5. \A p \in DOMAIN packets :
        /\ packets[p].frees \in (IF InHands(p) THEN {0} ELSE {0, 1})
        /\ ~InHands(p) /\ ~ManagerGone(packets[p].queue) => packets[p].frees = 1
  BY DEF Places, BufferFreedOnce
<1>6. InHands(call[t].pkt)
  BY DEF InHands
<1>7. BufferFreedOnce'
  BY <1>3, <1>4, <1>5, <1>6 DEF BufferFreedOnce, ManagerGone
<1>8. \A u, v \in Thread : u # v /\ call'[u].pkt # 0 => call'[u].pkt # call'[v].pkt
  BY DEF Places
<1>9. \A u \in Thread : call'[u].pkt # 0 => packets'[call'[u].pkt].queue = QueueOf(u)
  BY <1>1 DEF Places
<1>10. \A h \in Queue : \A p \in held'[h] :
         packets'[p].queue = h /\ \A u \in Thread : call'[u].pkt # p
  BY <1>2, <1>3 DEF Places
<1>. QED
  BY <1>7, <1>8, <1>9, <1>10 DEF Places

(* The reader gives its packet to the manager.                             *)
LEMMA GivePlaces ==
  ASSUME Places, TypeOK, NEW t \in Thread, call[t].pkt # 0, UNCHANGED <<packets, mainPc, at>>,
         call'[t].pkt = 0, \A u \in Thread : u # t => call'[u] = call[u],
         held' = [held EXCEPT ![QueueOf(t)] = @ \cup {call[t].pkt}]
  PROVE  Places'
<1>1. \A u \in Thread : call[u].pkt # 0 => call[u].pkt \in DOMAIN packets
  BY PacketOfCall
<1>2. \A h \in Queue : held'[h] = held[h] \cup IF h = QueueOf(t) THEN {call[t].pkt} ELSE {}
  BY ThreadFacts DEF TypeOK
<1>3. \A p \in DOMAIN packets : p # 0
  BY ZeroIsNoPacket
<1>4. \A p \in DOMAIN packets : InHands(p)' <=> InHands(p)
  BY <1>2, <1>3, ThreadFacts DEF InHands
<1>5. \A u, v \in Thread : u # v /\ call'[u].pkt # 0 => call'[u].pkt # call'[v].pkt
  BY DEF Places
<1>6. \A u \in Thread : call'[u].pkt # 0 => packets'[call'[u].pkt].queue = QueueOf(u)
  BY <1>1 DEF Places
<1>7. ASSUME NEW h \in Queue, NEW p \in held'[h]
      PROVE  packets'[p].queue = h /\ \A u \in Thread : call'[u].pkt # p
  <2>1. CASE p \in held[h]
    <3>1. p # 0
      BY <1>3, <2>1 DEF TypeOK
    <3>. QED
      BY <2>1, <3>1 DEF Places
  <2>2. CASE p = call[t].pkt /\ h = QueueOf(t)
    BY <2>2 DEF Places
  <2>. QED
    BY <1>2, <1>7, <2>1, <2>2
<1>8. BufferFreedOnce'
  BY <1>4 DEF Places, BufferFreedOnce, ManagerGone
<1>. QED
  BY <1>5, <1>6, <1>7, <1>8 DEF Places

(* A worker takes a packet over.                                           *)
LEMMA TakePlaces ==
  ASSUME Places, TypeOK, NEW t \in Thread, call[t].pkt = 0, UNCHANGED <<packets, mainPc, at>>,
         NEW p \in held[QueueOf(t)],
         call'[t].pkt = p, \A u \in Thread : u # t => call'[u] = call[u],
         held' = [held EXCEPT ![QueueOf(t)] = @ \ {p}]
  PROVE  Places'
<1>1. \A h \in Queue : held'[h] = held[h] \ IF h = QueueOf(t) THEN {p} ELSE {}
  BY ThreadFacts DEF TypeOK
<1>2. p \in DOMAIN packets /\ p # 0
  BY ZeroIsNoPacket, ThreadFacts DEF TypeOK
<1>3. \A h \in Queue : p \notin held'[h]
  BY <1>1, ThreadFacts DEF Places
<1>4. \A q \in DOMAIN packets : InHands(q)' <=> InHands(q)
  BY <1>1, <1>2, ThreadFacts, ZeroIsNoPacket DEF InHands
<1>. QED
  BY <1>1, <1>2, <1>3, <1>4, ThreadFacts DEF Places, BufferFreedOnce, ManagerGone

(* A packet comes in.                                                      *)
LEMMA NewPlaces ==
  ASSUME Places, TypeOK, NEW t \in Thread, call[t].pkt = 0, NEW p, p \notin DOMAIN packets, p # 0,
         DOMAIN packets' = DOMAIN packets \cup {p}, UNCHANGED <<held, mainPc, at>>,
         \A q \in DOMAIN packets : packets'[q] = packets[q],
         packets'[p].queue = QueueOf(t), packets'[p].frees = 0,
         call'[t].pkt = p, \A u \in Thread : u # t => call'[u] = call[u]
  PROVE  Places'
<1>1. \A u \in Thread : call[u].pkt # 0 => call[u].pkt \in DOMAIN packets
  BY PacketOfCall
<1>2. \A h \in Queue : held[h] \subseteq DOMAIN packets
  BY DEF TypeOK
<1>3. \A q \in DOMAIN packets : InHands(q)' <=> InHands(q)
  BY <1>1, ZeroIsNoPacket DEF InHands
<1>4. InHands(p)'
  BY DEF InHands
<1>. QED
  BY <1>1, <1>2, <1>3, <1>4 DEF Places, BufferFreedOnce, ManagerGone

(* _buffer belongs to one reader.                                          *)
LEMMA BufferStays ==
  ASSUME Structure, BufferOK, NEW t \in Thread,
         \A u \in Thread : u # t => pc'[u] = pc[u] /\ call'[u] = call[u],
         \/ UNCHANGED buffer
         \/ ~IsWorker(t) /\ \E b : buffer' = [buffer EXCEPT ![QueueOf(t)] = b],
         pc'[t] = "handle" \/ call'[t].back = "local" => buffer'[QueueOf(t)] = call'[t].pkt
  PROVE  BufferOK'
<1>1. SUFFICES ASSUME NEW u \in Thread, u # t, pc[u] = "handle" \/ call[u].back = "local"
               PROVE  buffer'[QueueOf(u)] = call[u].pkt
  BY DEF BufferOK
<1>2. ~IsWorker(u)
  BY <1>1 DEF Structure, ThreadOK, WorkerPc
<1>3. ~IsWorker(t) => QueueOf(u) # QueueOf(t)
  BY <1>1, <1>2, ThreadFacts
<1>4. buffer \in [Queue -> {0} \cup DOMAIN packets] /\ QueueOf(u) \in Queue
  BY ThreadFacts DEF Structure, TypeOK
<1>. QED
  BY <1>1, <1>3, <1>4 DEF BufferOK

(* How often a packet was freed is a number.                               *)
LEMMA FreesIsNat == TypeOK => \A p \in DOMAIN packets : packets[p].frees \in Nat
<1>. SUFFICES ASSUME TypeOK, NEW p \in DOMAIN packets PROVE packets[p].frees \in Nat
  OBVIOUS
<1>1. packets[p] \in PacketRecord
  BY ElementOfSeq, LenProperties DEF TypeOK
<1>. QED
  BY <1>1 DEF PacketRecord

(* A packet comes in.                                                      *)
LEMMA ReceiveCustody ==
  ASSUME Structure, Custody, NEW h \in Queue, NEW kind \in Kind, Receive(h, kind)
  PROVE  Custody'
<1>. DEFINE p == Len(packets) + 1
            t == Reader(h)
<1>0. TypeOK /\ Places /\ BufferOK /\ t \in Thread /\ ~IsWorker(t) /\ QueueOf(t) = h
  BY ThreadFacts DEF Structure, Custody
<1>. HIDE DEF t
<1>1. /\ pc[t] = "recv" /\ pc' = [pc EXCEPT ![t] = "handle"] /\ UNCHANGED <<held, mainPc, at>>
      /\ buffer' = [buffer EXCEPT ![h] = p]
      /\ call' = [call EXCEPT ![t] = [pkt |-> p, verdict |-> "accept", back |-> "delete"]]
      /\ DOMAIN packets' = DOMAIN packets \cup {p} /\ p \notin DOMAIN packets /\ p # 0
      /\ \A q \in DOMAIN packets : packets'[q] = packets[q]
      /\ packets'[p] = NewPacket(h, kind)
  BY <1>0, ReceiveMoves DEF t, processVars
<1>2. NewPacket(h, kind).queue = h /\ NewPacket(h, kind).frees = 0
  BY DEF NewPacket
<1>. HIDE DEF p
<1>3. /\ call[t].pkt = 0 /\ call'[t].pkt = p /\ buffer'[h] = p
      /\ \A u \in Thread : u # t => pc'[u] = pc[u] /\ call'[u] = call[u]
  BY <1>0, <1>1 DEF Structure, ThreadOK, EmptyPc, TypeOK
<1>4. Places'
  BY <1>0, <1>1, <1>2, <1>3, NewPlaces
<1>5. BufferOK'
  BY <1>0, <1>1, <1>3, BufferStays
<1>. QED
  BY <1>4, <1>5 DEF Custody

(* The threads that handle packets.                                        *)
LEMMA HandlerCustody ==
  ASSUME Structure, Custody, NEW t \in Thread, HandlerStep(t)
  PROVE  Custody'
<1>. DEFINE h == QueueOf(t)
            Own == pc'[t] = "handle" \/ call'[t].back = "local" => buffer'[h] = call'[t].pkt
            Others == \A u \in Thread : u # t => pc'[u] = pc[u] /\ call'[u] = call[u]
<1>0. /\ pc \in [Thread -> Pc] /\ call \in [Thread -> CallRecord] /\ ThreadOK(t)
      /\ h \in Queue /\ buffer \in [Queue -> {0} \cup DOMAIN packets]
      /\ TypeOK /\ Places /\ BufferOK /\ Others /\ UNCHANGED <<mainPc, at>>
      /\ pc[t] = "handle" \/ call[t].back = "local" => buffer[h] = call[t].pkt
  <2>1. OnlyMoves(t) /\ h \in Queue
    BY HandlerFrame, ThreadFacts
  <2>2. pc \in [Thread -> Pc] /\ call \in [Thread -> CallRecord] /\ buffer \in [Queue -> {0} \cup DOMAIN packets]
    BY DEF Structure, TypeOK
  <2>3. TypeOK /\ ThreadOK(t) /\ Places /\ BufferOK
    BY DEF Structure, Custody
  <2>. QED
    BY <2>1, <2>2, <2>3 DEF OnlyMoves, BufferOK, processVars
<1>1. NoCall.pkt = 0 /\ NoCall.back = "delete"
  BY DEF NoCall
<1>. USE DEF Goto, handlerVars, packetVars
<1>2. CASE CountVerdict(t) \/ UnlockStats(t)
  <2>1. /\ UNCHANGED <<packets, held, buffer>> /\ call'[t].pkt = call[t].pkt
        /\ pc'[t] # "handle" /\ (call'[t].back = "local" => call[t].back = "local" \/ pc[t] = "handle")
    BY <1>0, <1>2 DEF CountVerdict, UnlockStats
  <2>2. Places'
    BY <1>0, <2>1, KeepPlaces
  <2>3. BufferOK'
    BY <1>0, <2>1, BufferStays
  <2>. QED
    BY <2>2, <2>3 DEF Custody
<1>3. CASE SetVerdictLocal(t)
  <2>1. /\ call[t].back = "local" /\ pc[t] = "verdict" /\ pc'[t] = "loop" /\ call'[t] = NoCall
        /\ buffer' = [buffer EXCEPT ![h] = 0] /\ UNCHANGED held
        /\ KernelVerdict(t, IF buffer[h] # 0 THEN 1 ELSE 0)
    BY <1>0, <1>3 DEF SetVerdictLocal
  <2>2. call[t].pkt # 0 /\ ~IsWorker(t) /\ buffer[h] = call[t].pkt
    BY <1>0, <2>1 DEF ThreadOK, EmptyPc
  <2>3. KernelVerdict(t, 1)
    BY <2>1, <2>2
  <2>4. Places'
    <3>1. /\ DOMAIN packets' = DOMAIN packets
          /\ \A p \in DOMAIN packets :
               /\ packets'[p].queue = packets[p].queue
               /\ packets'[p].frees = packets[p].frees + IF p = call[t].pkt THEN 1 ELSE 0
      <4>1. \A p \in DOMAIN packets : packets[p].frees \in Nat
        BY <1>0, FreesIsNat
      <4>. QED
        BY <1>0, <2>2, <2>3, <4>1, KernelVerdictMoves
    <3>. QED
      BY <1>0, <1>1, <2>1, <2>2, <3>1, DropPlaces
  <2>5. BufferOK'
    BY <1>0, <1>1, <2>1, <2>2, BufferStays
  <2>. QED
    BY <2>4, <2>5 DEF Custody
<1>4. CASE SetVerdict(t)
  <2>1. /\ call[t].back # "local" /\ pc[t] = "verdict" /\ pc'[t] = call[t].back
        /\ UNCHANGED <<call, held, buffer>> /\ KernelVerdict(t, 0)
    BY <1>0, <1>4 DEF SetVerdict
  <2>2. call[t].pkt # 0 /\ call[t].back # "handle"
    BY <1>0, <2>1 DEF ThreadOK, EmptyPc, CallRecord
  <2>3. /\ DOMAIN packets' = DOMAIN packets
        /\ \A p \in DOMAIN packets :
             packets'[p].queue = packets[p].queue /\ packets'[p].frees = packets[p].frees
    <3>1. \A p \in DOMAIN packets : packets[p].frees \in Nat
      BY <1>0, FreesIsNat
    <3>. QED
      BY <1>0, <2>1, <2>2, <3>1, KernelVerdictMoves
  <2>4. Places'
    BY <1>0, <2>1, <2>3, KeepPlaces
  <2>5. BufferOK'
    BY <1>0, <2>1, <2>2, BufferStays
  <2>. QED
    BY <2>4, <2>5 DEF Custody
<1>5. CASE DeletePacket(t)
  <2>1. /\ pc[t] = "delete" /\ pc'[t] \in {"idle", "loop"} /\ call'[t] = NoCall
        /\ packets' = [packets EXCEPT ![call[t].pkt].frees = @ + 1] /\ UNCHANGED <<held, buffer>>
    BY <1>0, <1>5 DEF DeletePacket
  <2>2. call[t].pkt # 0 /\ call[t].pkt \in DOMAIN packets
    BY <1>0, <2>1, PacketOfCall DEF ThreadOK, EmptyPc
  <2>3. /\ DOMAIN packets' = DOMAIN packets
        /\ \A p \in DOMAIN packets :
             /\ packets'[p].queue = packets[p].queue
             /\ packets'[p].frees = packets[p].frees + IF p = call[t].pkt THEN 1 ELSE 0
    <3>1. \A p \in DOMAIN packets : packets[p].frees \in Nat
      BY <1>0, FreesIsNat
    <3>. QED
      BY <1>0, <2>1, <2>2, <3>1, DeleteMoves
  <2>4. Places'
    BY <1>0, <1>1, <2>1, <2>2, <2>3, DropPlaces
  <2>5. BufferOK'
    BY <1>0, <1>1, <2>1, BufferStays
  <2>. QED
    BY <2>4, <2>5 DEF Custody
<1>6. CASE WorkerExits(t)
  <2>1. UNCHANGED <<packets, held, buffer, call>> /\ pc'[t] = "exited"
    BY <1>0, <1>6 DEF WorkerExits
  <2>2. Places'
    BY <1>0, <2>1, KeepPlaces
  <2>3. BufferOK'
    BY <1>0, <2>1, BufferStays
  <2>. QED
    BY <2>2, <2>3 DEF Custody
<1>7. ASSUME NEW p \in held[h], Take(t, p) PROVE Custody'
  <2>1. /\ pc[t] = "idle" /\ pc'[t] \in {"stats", "delete"} /\ UNCHANGED <<packets, buffer>>
        /\ held' = [held EXCEPT ![h] = @ \ {p}]
        /\ call'[t].pkt = p /\ call'[t].back = "delete"
    BY <1>0, <1>7 DEF Take, SetIfAfter, CallSetVerdict, NoCall
  <2>2. call[t].pkt = 0
    BY <1>0, <2>1 DEF ThreadOK, EmptyPc
  <2>3. Places'
    BY <1>0, <2>1, <2>2, TakePlaces
  <2>4. BufferOK'
    BY <1>0, <2>1, BufferStays
  <2>. QED
    BY <2>3, <2>4 DEF Custody
<1>8. ASSUME t = Reader(h), ReaderStep(h) \/ ReceiveError(h) PROVE Custody'
  <2>0. ~IsWorker(t)
    BY <1>0, <1>8, ThreadFacts
  <2>1. CASE EnterReceive(h)
    <3>1. UNCHANGED <<packets, held, call>> /\ buffer' = [buffer EXCEPT ![h] = 0]
          /\ pc[t] = "loop" /\ pc'[t] = "recv"
      BY <1>0, <1>8, <2>1 DEF EnterReceive
    <3>2. Places'
      BY <1>0, <3>1, KeepPlaces
    <3>3. call[t].back = "delete"
      BY <1>0, <3>1 DEF ThreadOK, SettingPc
    <3>4. BufferOK'
      BY <1>0, <2>0, <3>1, <3>3, BufferStays
    <3>. QED
      BY <3>2, <3>4 DEF Custody
  <2>2. CASE ReceiveNothing(h) \/ ReceiveError(h) \/ LeaveLoop(h)
             \/ HandleInTest(h) \/ HandleOther(h) \/ HandleFlow(h) \/ AddAtOnce(h) \/ AddOverflows(h)
    <3>1. /\ UNCHANGED <<packets, held, buffer>> /\ call'[t].pkt = call[t].pkt
          /\ pc'[t] # "handle"
          /\ call'[t].back = "local" => call[t].back = "local" \/ pc[t] = "handle"
      <4>0. CASE ReceiveNothing(h) \/ ReceiveError(h)
        BY <1>0, <1>8, <4>0 DEF ReceiveNothing, ReceiveError
      <4>1. CASE LeaveLoop(h) \/ HandleInTest(h) \/ HandleOther(h) \/ HandleFlow(h)
        BY <1>0, <1>8, <4>1 DEF LeaveLoop, HandleInTest, HandleOther, HandleFlow, CallSetVerdict
      <4>2. CASE AddAtOnce(h) \/ AddOverflows(h)
        BY <1>0, <1>8, <4>2 DEF AddAtOnce, AddOverflows, SetIfAfter, CallSetVerdict, NoCall
      <4>. QED
        BY <2>2, <4>0, <4>1, <4>2
    <3>2. Places'
      BY <1>0, <3>1, KeepPlaces
    <3>3. BufferOK'
      BY <1>0, <3>1, BufferStays
    <3>. QED
      BY <3>2, <3>3 DEF Custody
  <2>3. CASE AddToQueue(h)
    <3>1. /\ pc[t] = "add" /\ pc'[t] = "loop" /\ UNCHANGED <<packets, buffer>>
          /\ held' = [held EXCEPT ![h] = @ \cup {call[t].pkt}] /\ call'[t] = NoCall
      BY <1>0, <1>8, <2>3 DEF AddToQueue
    <3>2. call[t].pkt # 0
      BY <1>0, <3>1 DEF ThreadOK, EmptyPc
    <3>3. Places'
      BY <1>0, <1>1, <3>1, <3>2, GivePlaces
    <3>4. BufferOK'
      BY <1>0, <1>1, <3>1, BufferStays
    <3>. QED
      BY <3>3, <3>4 DEF Custody
  <2>. QED
    BY <1>8, <2>1, <2>2, <2>3 DEF ReaderStep
<1>9. ASSUME t = Reader(h), NEW kind \in Kind, Receive(h, kind) PROVE Custody'
  BY <1>0, <1>9, ReceiveCustody
<1>. QED
  <2>1. ~IsWorker(t) => t = Reader(h)
    BY ThreadFacts
  <2>2. \A g \in Queue : t = Reader(g) => g = h
    BY ThreadFacts
  <2>3. WorkerStep(t) => Custody'
    BY <1>6, <1>7 DEF WorkerStep
  <2>. QED
    BY <1>2, <1>3, <1>4, <1>5, <1>8, <1>9, <2>1, <2>2, <2>3 DEF HandlerStep, ThreadStep

(* The steps of main and of the signal handler leave the packets where     *)
(* they are, but for those of a manager that main destroys, and the        *)
(* threads but for those that main creates.                                *)
Bystanders ==
  /\ UNCHANGED <<file, config, packets, call, buffer, late, verdictStats>>
  /\ \A h \in Queue : held'[h] = held[h] \/ (held'[h] = {} /\ ManagerGone(h)')
  /\ \A h \in Queue : ManagerGone(h) => ManagerGone(h)'
  /\ \A t \in Thread : pc'[t] # pc[t] => pc[t] = "absent" /\ pc'[t] \in EmptyPc
  /\ \A h \in Queue : nfQueue[h] = "destroyed" => nfQueue'[h] = "destroyed"

(* main, the signal handler and a crash are bystanders of the packets.     *)
LEMMA OthersStandBy ==
  ASSUME Structure,
         \/ MainStep \/ Crash \/ SignalStep
         \/ \E t \in Thread \cup {Main} : SignalArrives(t)
         \/ UNCHANGED vars
  PROVE  Bystanders
<1>. USE DEF Bystanders, processVars, handlerVars, packetVars, GotoMain, SignalGoto
<1>0. at \in Nat /\ held \in [Queue -> SUBSET DOMAIN packets]
  BY QueueFacts DEF Structure, TypeOK
<1>1. CASE CreateHandler
  <2>1. /\ UNCHANGED <<file, config, packets, call, held, buffer, late, verdictStats>>
        /\ nfQueue' = [nfQueue EXCEPT ![at] = "open"] /\ created = at - 1
        /\ nfQueue \in [Queue -> {"none", "open", "destroyed"}]
        /\ at \in 1 .. MaxQueues + 1 /\ created \in 0 .. MaxQueues
        /\ \A h \in Queue : nfQueue[h] = "none" <=> h > created
    BY <1>1 DEF CreateHandler, Structure, TypeOK, MainOK
  <2>2. \A t \in Thread : pc'[t] # pc[t] => QueueOf(t) = at /\ pc'[t] \in EmptyPc
    BY <1>1 DEF CreateHandler, EmptyPc
  <2>3. \A t \in Thread : QueueOf(t) = at => pc[t] = "absent"
    BY <2>1 DEF Structure, ThreadOK
  <2>4. \A h \in Queue : ~ManagerGone(h)
    BY <1>1 DEF CreateHandler, ManagerGone
  <2>. QED
    BY <2>1, <2>2, <2>3, <2>4, QueueFacts
<1>2. CASE DestroyQueue
  BY <1>2 DEF DestroyQueue, Structure, TypeOK, ManagerGone
<1>3. CASE UsageExits \/ LoadConfig \/ (\E o, readable \in BOOLEAN : ReadDatabase(o, readable))
           \/ CreateFails \/ AllCreated \/ StartPrint \/ PrintStats \/ PrintedStats \/ EndPrint
           \/ LeaveMainLoop \/ Join \/ AllJoined
  <2>1. /\ UNCHANGED <<file, config, packets, call, held, buffer, late, verdictStats, pc, nfQueue>>
        /\ mainPc \notin {"exited", "aborted", "destroy", "close"}
    BY <1>3 DEF UsageExits, LoadConfig, ReadDatabase, CreateFails, AllCreated,
         StartPrint, PrintStats, PrintedStats, EndPrint, LeaveMainLoop, Join, AllJoined
  <2>. QED
    BY <2>1 DEF ManagerGone
<1>4. CASE StopManager \/ AllDestroyed \/ Crash
  <2>1. /\ UNCHANGED <<file, config, packets, call, held, buffer, late, verdictStats, pc, nfQueue>>
        /\ mainPc' \in {"exited", "aborted"} \/ UNCHANGED <<mainPc, at>>
    BY <1>4 DEF StopManager, AllDestroyed, Crash
  <2>. QED
    BY <2>1 DEF ManagerGone
<1>5. CASE DestroyManager
  <2>1. /\ UNCHANGED <<file, config, packets, call, buffer, late, verdictStats, pc, nfQueue>>
        /\ held' = [held EXCEPT ![at] = {}] /\ at' = at + 1
        /\ mainPc = "close" /\ mainPc' = "destroy"
    BY <1>5 DEF DestroyManager
  <2>2. \A h \in Queue : held'[h] = held[h] \/ (held'[h] = {} /\ ManagerGone(h)')
    BY <1>0, <2>1, QueueFacts DEF ManagerGone
  <2>3. \A h \in Queue : ManagerGone(h) => ManagerGone(h)'
    BY <1>0, <2>1, QueueFacts DEF ManagerGone
  <2>. QED
    BY <2>1, <2>2, <2>3
<1>6. CASE SignalStep \/ \E t \in Thread \cup {Main} : SignalArrives(t)
  BY <1>6 DEF SignalStep, SignalArrives, BeginShutdown, ReportStats, StopHandler, NextLoop,
              ManagerGone
<1>7. CASE UNCHANGED vars
  BY <1>7 DEF vars, ManagerGone
<1>. QED
  BY <1>1, <1>2, <1>3, <1>4, <1>5, <1>6, <1>7 DEF MainStep

(* Every step is one of a thread that handles packets, or leaves them.     *)
LEMMA NextByThread ==
  ASSUME Structure, [Next]_vars
  PROVE  (\E t \in Thread : HandlerStep(t)) \/ Bystanders
BY NextByActor, OthersStandBy

(* Whoever touches no packet keeps all packets where they are.             *)
LEMMA BystandersCustody == TypeOK /\ Custody /\ Bystanders => Custody'
<1>. SUFFICES ASSUME TypeOK, Custody, Bystanders PROVE Custody'
  OBVIOUS
<1>1. Places'
  <2>1. \A h \in Queue : held'[h] \subseteq held[h] /\ (~ManagerGone(h)' => held'[h] = held[h])
    BY DEF Bystanders
  <2>2. \A p : InHands(p)' => InHands(p)
    BY <2>1 DEF InHands, Bystanders
  <2>3. ASSUME NEW p \in DOMAIN packets, InHands(p), ~ManagerGone(packets[p].queue)'
        PROVE  InHands(p)'
    <3>1. \A h \in Queue : p \in held[h] => h = packets[p].queue
      BY DEF Custody, Places
    <3>2. UNCHANGED <<packets, call>>
      BY DEF Bystanders
    <3>. QED
      BY <2>1, <2>3, <3>1, <3>2 DEF InHands
  <2>4. BufferFreedOnce'
    <3>0. UNCHANGED packets /\ BufferFreedOnce
      BY DEF Custody, Places, Bystanders
    <3>1. ASSUME NEW p \in DOMAIN packets
          PROVE  /\ packets[p].frees \in (IF InHands(p)' THEN {0} ELSE {0, 1})
                 /\ ~InHands(p)' /\ ~ManagerGone(packets[p].queue)' => packets[p].frees = 1
      <4>1. packets[p].queue \in Queue
        <5>1. packets[p] \in PacketRecord
          BY ElementOfSeq, LenProperties DEF TypeOK
        <5>. QED
          BY <5>1 DEF PacketRecord
      <4>2. ~ManagerGone(packets[p].queue)' => ~ManagerGone(packets[p].queue)
        BY <3>0, <4>1 DEF Bystanders
      <4>. QED
        BY <2>2, <2>3, <3>0, <4>2 DEF BufferFreedOnce
    <3>. QED
      BY <3>0, <3>1 DEF BufferFreedOnce
  <2>. QED
    BY <2>1, <2>4 DEF Custody, Places, Bystanders
<1>2. BufferOK'
  BY DEF Custody, BufferOK, Bystanders, EmptyPc
<1>. QED
  BY <1>1, <1>2 DEF Custody

(* There are no packets at the start.                                      *)
LEMMA InitCustody == Init => Custody
<1>. SUFFICES ASSUME Init PROVE Custody
  OBVIOUS
<1>1. DOMAIN packets = {}
  BY LenProperties, EmptySeq DEF Init
<1>2. \A t \in Thread : call[t].pkt = 0 /\ call[t].back # "local" /\ pc[t] # "handle"
  BY DEF Init, NoCall
<1>. QED
  BY <1>1, <1>2 DEF Init, HandlersInit, Custody, Places, BufferOK, BufferFreedOnce

(* The steps of threads and the others together.                           *)
LEMMA NextCustody == Structure /\ Custody /\ [Next]_vars => Custody'
BY NextByThread, HandlerCustody, BystandersCustody DEF Structure

(* With the structure it is inductive.                                     *)
LEMMA AlwaysCustody == Spec => []Custody
BY InitCustody, NextCustody, AlwaysStructure, PTL DEF Spec

(* The buffer of a packet is freed once, when the packet is dealt with:    *)
(* never by the manager and by the receive loop that still knows _buffer.  *)
THEOREM FreedOnce == Spec => []BufferFreedOnce
<1>1. Custody => BufferFreedOnce
  BY DEF Custody, Places
<1>. QED
  BY <1>1, AlwaysCustody, PTL

-------------------------------------------------------------------------------
(* Heard *)

(* A thread that handles packets is of a program that loaded its file.     *)
LEMMA HandlerConfig ==
  ASSUME Structure, NEW t \in Thread, HandlerStep(t)
  PROVE  After \in BOOLEAN /\ NumWorkers \in 0 .. MaxWorkers
<1>1. QueueOf(t) \in Nat /\ 1 <= QueueOf(t) /\ created \in Nat
  BY ThreadFacts, QueueFacts DEF Structure, TypeOK
<1>2. ~Dead /\ pc[t] # "absent"
  BY HandlerFrame DEF OnlyMoves
<1>3. mainPc \notin {"init", "failed"}
  BY <1>1, <1>2 DEF Structure, MainOK, ThreadOK, Dead
<1>. QED
  BY <1>3 DEF Structure, ConfigOK

(* What was heard of a packet that nobody touched.                         *)
Untouched(p) ==
  packets'[p].verdicts = packets[p].verdicts /\ packets'[p].queue = packets[p].queue

(* A packet that is not touched is heard of as before.                     *)
LEMMA UntouchedHeard ==
  ASSUME TypeOK, TypeOK', UNCHANGED config, NEW p \in DOMAIN packets, Untouched(p),
         \A h \in Queue : late'[h] >= late[h]
  PROVE  /\ Unheard(p)' <=> Unheard(p)
         /\ HeardOnce(p)' <=> HeardOnce(p)
         /\ Dealt(p) => Dealt(p)'
<1>1. packets[p].queue \in Queue
  <2>1. packets[p] \in PacketRecord
    BY ElementOfSeq, LenProperties DEF TypeOK
  <2>. QED
    BY <2>1 DEF PacketRecord
<1>2. late[packets[p].queue] \in Nat /\ late'[packets[p].queue] \in Nat
  BY <1>1 DEF TypeOK
<1>3. (Unheard(p)' <=> Unheard(p)) /\ (HeardOnce(p)' <=> HeardOnce(p))
  BY DEF Untouched, Unheard, HeardOnce, After
<1>4. Missed(p) => Missed(p)'
  BY <1>1, <1>2, <1>3 DEF Untouched, Missed, After
<1>. QED
  BY <1>3, <1>4 DEF Dealt

(* What a step of one thread leaves to show: its own stage, the packets    *)
(* the manager has got, and that no packet is lost.                        *)
LEMMA HeardStep ==
  ASSUME Structure, TypeOK', Places, Heard, NEW t \in Thread, UNCHANGED config,
         \A u \in Thread : u # t => pc'[u] = pc[u] /\ call'[u] = call[u],
         DOMAIN packets \subseteq DOMAIN packets',
         \A p \in DOMAIN packets : Untouched(p) \/ p = call[t].pkt,
         \A h \in Queue : late'[h] >= late[h],
         ThreadHeard(t)',
         \A h \in Queue : \A p \in held'[h] :
           p \in held[h] \/ IF After THEN Unheard(p)' ELSE HeardOnce(p)',
         \A p \in DOMAIN packets' : packets'[p].frees = 0 \/ Dealt(p)',
         \A p \in DOMAIN packets' : (p \in DOMAIN packets /\ Untouched(p))
                                    \/ Unheard(p)' \/ HeardOnce(p)',
         \A h \in Queue : late'[h] > 0 => After /\ nfQueue'[h] = "destroyed"
  PROVE  Heard'
<1>0. TypeOK
  BY DEF Structure
<1>1. \A p \in DOMAIN packets : Untouched(p) =>
        /\ Unheard(p)' <=> Unheard(p)
        /\ HeardOnce(p)' <=> HeardOnce(p)
        /\ Dealt(p) => Dealt(p)'
  BY <1>0, UntouchedHeard
<1>2. After' <=> After
  BY DEF After
<1>3. ASSUME NEW u \in Thread PROVE ThreadHeard(u)'
  <2>1. CASE u = t
    BY <2>1
  <2>2. CASE u # t
    <3>1. ThreadHeard(u) /\ pc'[u] = pc[u] /\ call'[u] = call[u]
      BY <2>2 DEF Heard
    <3>2. call[u].pkt # 0 => call[u].pkt \in DOMAIN packets /\ Untouched(call[u].pkt)
      BY <1>0, <2>2, PacketOfCall DEF Places
    <3>3. CASE call[u].pkt # 0
      BY <1>1, <1>2, <3>1, <3>2, <3>3 DEF ThreadHeard
    <3>4. CASE call[u].pkt = 0
      <4>1. pc[u] \in EmptyPc
        BY <3>4 DEF Structure, ThreadOK
      <4>. QED
        BY <1>2, <3>1, <4>1 DEF ThreadHeard, EmptyPc, SettingPc
    <3>. QED
      BY <3>3, <3>4
  <2>. QED
    BY <2>1, <2>2
<1>4. ASSUME NEW h \in Queue, NEW p \in held'[h]
      PROVE  IF After' THEN Unheard(p)' ELSE HeardOnce(p)'
  <2>1. CASE p \in held[h]
    <3>1. p \in DOMAIN packets /\ p # call[t].pkt
      BY <1>0, <2>1 DEF TypeOK, Places
    <3>2. IF After THEN Unheard(p) ELSE HeardOnce(p)
      BY <2>1 DEF Heard
    <3>. QED
      BY <1>1, <1>2, <3>1, <3>2
  <2>. QED
    BY <1>2, <1>4, <2>1
<1>5. \A p \in DOMAIN packets' : Unheard(p)' \/ HeardOnce(p)'
  BY <1>1 DEF Heard
<1>6. \A h \in Queue : late'[h] > 0 => After' /\ nfQueue'[h] = "destroyed"
  BY <1>2
<1>. QED
  BY <1>3, <1>4, <1>5, <1>6 DEF Heard

(* Where the kernel hears nothing.                                         *)
LEMMA HeardMoves ==
  ASSUME Structure, Structure', Places, Heard, NEW t \in Thread,
         UNCHANGED <<config, packets, late, nfQueue>>,
         \A u \in Thread : u # t => pc'[u] = pc[u] /\ call'[u] = call[u],
         ThreadHeard(t)',
         \A h \in Queue : \A p \in held'[h] :
           p \in held[h] \/ IF After THEN Unheard(p) ELSE HeardOnce(p)
  PROVE  Heard'
<1>1. TypeOK /\ TypeOK'
  BY DEF Structure
<1>2. \A p \in DOMAIN packets : Untouched(p)
  BY DEF Untouched
<1>3. \A h \in Queue : late'[h] >= late[h]
  BY <1>1 DEF TypeOK
<1>4. \A p : /\ Unheard(p)' <=> Unheard(p)
             /\ HeardOnce(p)' <=> HeardOnce(p)
             /\ Dealt(p)' <=> Dealt(p)
  BY DEF Unheard, HeardOnce, Missed, Dealt, After
<1>5. \A p \in DOMAIN packets : packets'[p].frees = 0 \/ Dealt(p)'
  BY <1>4 DEF Heard
<1>6. \A h \in Queue : late'[h] > 0 => After /\ nfQueue'[h] = "destroyed"
  BY DEF Heard
<1>. QED
  BY <1>1, <1>2, <1>3, <1>4, <1>5, <1>6, HeardStep

(* The kernel hears the verdict, or the queue is gone.                     *)
LEMMA VerdictHeard ==
  ASSUME Structure, Structure', Places, Shutdown, Heard, NEW t \in Thread, NEW n \in {0, 1},
         OnlyMoves(t), UNCHANGED held, pc[t] = "verdict", KernelVerdict(t, n),
         After \in BOOLEAN,
         \/ call[t].back # "local" /\ pc'[t] = call[t].back /\ UNCHANGED call
         \/ call[t].back = "local" /\ pc'[t] = "loop" /\ call'[t] = NoCall
  PROVE  Heard'
<1>. DEFINE h == QueueOf(t)
<1>p. PICK p : p = call[t].pkt
  OBVIOUS
<1>0. /\ TypeOK /\ TypeOK' /\ ThreadOK(t) /\ h \in Queue /\ UNCHANGED <<config, nfQueue>>
      /\ \A u \in Thread : u # t => pc'[u] = pc[u] /\ call'[u] = call[u]
      /\ p # 0 /\ p \in DOMAIN packets /\ call[t] \in CallRecord /\ ThreadHeard(t)
      /\ packets[p].queue = h
      /\ late \in [Queue -> Nat] /\ late' \in [Queue -> Nat]
  BY <1>p, ThreadFacts, PacketOfCall DEF Structure, OnlyMoves, ThreadOK, EmptyPc, Heard, Places,
     processVars, TypeOK
<1>1. /\ DOMAIN packets' = DOMAIN packets
      /\ \A q \in DOMAIN packets : q # p => packets'[q] = packets[q]
      /\ packets'[p].queue = packets[p].queue
      /\ packets'[p].verdicts = IF nfQueue[h] = "open"
                                THEN Append(packets[p].verdicts, call[t].verdict)
                                ELSE packets[p].verdicts
      /\ late' = IF nfQueue[h] = "open" THEN late ELSE [late EXCEPT ![h] = @ + 1]
  BY <1>p, <1>0, KernelVerdictMoves
<1>2. packets[p].verdicts = << >> /\ (~After => call[t].verdict = "accept")
  BY <1>p, <1>0 DEF ThreadHeard, SettingPc, Unheard
<1>. HIDE DEF h
<1>3. ASSUME nfQueue[h] = "open" PROVE HeardOnce(p)'
  <2>1. packets'[p].verdicts = <<call[t].verdict>>
    BY <1>1, <1>2, <1>3
  <2>. QED
    BY <1>0, <1>2, <2>1 DEF HeardOnce, CallRecord, After
<1>4. ASSUME nfQueue[h] # "open"
      PROVE  After /\ nfQueue[h] = "destroyed" /\ Unheard(p)' /\ Missed(p)' /\ call[t].back = "delete"
  <2>1. nfQueue[h] = "destroyed"
    BY <1>0, <1>4 DEF h, Structure, ThreadOK, TypeOK
  <2>2. IsWorker(t)
    BY <1>0, <2>1, ThreadFacts DEF h, Shutdown, JoinedOK
  <2>3. call[t].back = "delete"
    BY <1>0, <2>2 DEF ThreadOK
  <2>4. After
    BY <1>0, <2>3 DEF ThreadHeard, SettingPc
  <2>5. Unheard(p)' /\ late'[h] > 0
    BY <1>0, <1>1, <1>2, <1>4 DEF Unheard
  <2>6. Missed(p)'
    BY <1>0, <1>1, <2>4, <2>5 DEF Missed, After
  <2>. QED
    BY <2>1, <2>3, <2>4, <2>5, <2>6
<1>5. Dealt(p)' /\ (Unheard(p)' \/ HeardOnce(p)')
  BY <1>3, <1>4 DEF Dealt
<1>6. ThreadHeard(t)'
  <2>0. After' <=> After
    BY <1>0 DEF After
  <2>1. CASE call[t].back = "local"
    BY <1>0, <2>1 DEF ThreadHeard, NoCall, SettingPc
  <2>2. CASE call[t].back = "delete"
    <3>1. pc'[t] = "delete" /\ call'[t] = call[t]
      BY <2>2
    <3>. QED
      BY <1>p, <1>2, <1>5, <2>0, <3>1 DEF ThreadHeard, SettingPc
  <2>3. CASE call[t].back = "add"
    <3>1. pc'[t] = "add" /\ call'[t] = call[t]
      BY <2>3
    <3>2. ~After /\ nfQueue[h] = "open"
      BY <1>0, <1>4, <2>3 DEF ThreadHeard, SettingPc
    <3>. QED
      BY <1>p, <1>2, <1>3, <2>0, <3>1, <3>2 DEF ThreadHeard, SettingPc
  <2>. QED
    BY <1>0, <2>1, <2>2, <2>3 DEF CallRecord
<1>7. \A q \in DOMAIN packets : Untouched(q) \/ q = p
  BY <1>1 DEF Untouched
<1>8. \A g \in Queue : late'[g] >= late[g]
  BY <1>0, <1>1
<1>9. ASSUME NEW q \in DOMAIN packets' PROVE packets'[q].frees = 0 \/ Dealt(q)'
  <2>1. CASE q = p
    BY <1>5, <2>1
  <2>2. CASE q # p
    <3>1. q \in DOMAIN packets /\ Untouched(q) /\ (packets[q].frees = 0 \/ Dealt(q))
      BY <1>1, <1>7, <1>9, <2>2 DEF Heard
    <3>2. packets'[q] = packets[q]
      BY <1>1, <2>2, <3>1
    <3>3. Dealt(q) => Dealt(q)'
      BY <1>0, <1>8, <3>1, UntouchedHeard
    <3>. QED
      BY <3>1, <3>2, <3>3
  <2>. QED
    BY <2>1, <2>2
<1>10. \A g \in Queue : late'[g] > 0 => After /\ nfQueue'[g] = "destroyed"
  BY <1>0, <1>1, <1>4 DEF Heard
<1>11. \A g \in Queue : \A q \in held'[g] : q \in held[g]
  OBVIOUS
<1>. QED
  BY <1>0, <1>1, <1>5, <1>6, <1>7, <1>8, <1>9, <1>10, <1>11, <1>p, HeardStep

(* The receive loop.                                                       *)
LEMMA ReceiveHeard ==
  ASSUME Structure, Structure', Places, Heard, NEW h \in Queue, NEW kind \in Kind, Receive(h, kind)
  PROVE  Heard'
<1>. DEFINE t == Reader(h)
<1>1. PICK p : p = Len(packets) + 1
  OBVIOUS
<1>2. TypeOK /\ TypeOK' /\ t \in Thread /\ pc \in [Thread -> Pc] /\ call \in [Thread -> CallRecord]
  BY ThreadFacts DEF Structure, TypeOK
<1>3. /\ pc[t] = "recv" /\ pc' = [pc EXCEPT ![t] = "handle"] /\ UNCHANGED <<held, late, config, nfQueue>>
      /\ call' = [call EXCEPT ![t] = [pkt |-> p, verdict |-> "accept", back |-> "delete"]]
      /\ DOMAIN packets' = DOMAIN packets \cup {p} /\ p \notin DOMAIN packets /\ p # 0
      /\ \A q \in DOMAIN packets : packets'[q] = packets[q]
      /\ packets'[p] = NewPacket(h, kind)
  BY <1>1, <1>2, ReceiveMoves DEF processVars
<1>. HIDE DEF t
<1>4. /\ call'[t] = [pkt |-> p, verdict |-> "accept", back |-> "delete"] /\ pc'[t] = "handle"
      /\ \A u \in Thread : u # t => pc'[u] = pc[u] /\ call'[u] = call[u]
  BY <1>2, <1>3
<1>5. Unheard(p)' /\ ThreadHeard(t)' /\ packets'[p].frees = 0
  BY <1>2, <1>3, <1>4 DEF NewPacket, Unheard, ThreadHeard, SettingPc
<1>6. \A q \in DOMAIN packets : Untouched(q)
  BY <1>3 DEF Untouched
<1>7. \A g \in Queue : late'[g] >= late[g]
  BY <1>2, <1>3 DEF TypeOK
<1>9. ASSUME NEW q \in DOMAIN packets PROVE packets'[q].frees = 0 \/ Dealt(q)'
  <2>1. Dealt(q) => Dealt(q)'
    BY <1>2, <1>3, <1>6, <1>7, UntouchedHeard
  <2>. QED
    BY <1>3, <2>1 DEF Heard
<1>10. \A g \in Queue : late'[g] > 0 => After /\ nfQueue'[g] = "destroyed"
  BY <1>3 DEF Heard
<1>. QED
  BY <1>2, <1>3, <1>4, <1>5, <1>6, <1>7, <1>9, <1>10, HeardStep

(* What a reader decides of the packet it has.                             *)
LEMMA ReaderHeard ==
  ASSUME Structure, Structure', Places, Heard, NEW h \in Queue, After \in BOOLEAN,
         ReaderStep(h) \/ ReceiveError(h), OnlyMoves(Reader(h))
  PROVE  Heard'
<1>. DEFINE t == Reader(h)
<1>. USE DEF Goto, handlerVars, packetVars
<1>0. /\ TypeOK /\ t \in Thread /\ pc \in [Thread -> Pc] /\ call \in [Thread -> CallRecord]
      /\ QueueOf(t) = h /\ ThreadHeard(t) /\ ThreadOK(t) /\ UNCHANGED <<config, nfQueue>>
      /\ \A u \in Thread : u # t => pc'[u] = pc[u] /\ call'[u] = call[u]
  BY ThreadFacts DEF Structure, TypeOK, Heard, OnlyMoves, processVars
<1>1. /\ NoCall.pkt = 0 /\ NoCall.back = "delete" /\ NoCall.verdict = "accept"
      /\ \A n : [NoCall EXCEPT !.pkt = n] = [pkt |-> n, verdict |-> "accept", back |-> "delete"]
  BY DEF NoCall
<1>2. After' <=> After
  BY <1>0 DEF After
<1>3. PICK p : p = call[t].pkt
  OBVIOUS
<1>4. UNCHANGED packets => (Unheard(p)' <=> Unheard(p)) /\ (HeardOnce(p)' <=> HeardOnce(p))
  BY <1>2 DEF Unheard, HeardOnce
<1>5. ASSUME UNCHANGED <<packets, late, held>>, ThreadHeard(t)' PROVE Heard'
  BY <1>0, <1>5, HeardMoves
<1>6. CASE EnterReceive(h) \/ ReceiveNothing(h) \/ ReceiveError(h) \/ LeaveLoop(h)
  <2>1. UNCHANGED <<packets, late, held, call>> /\ pc'[t] \in {"loop", "recv", "exited"}
        /\ call[t].pkt = 0
    BY <1>0, <1>6 DEF EnterReceive, ThreadOK, EmptyPc, ReceiveNothing, ReceiveError, LeaveLoop
  <2>2. ThreadHeard(t)'
    BY <1>0, <1>2, <2>1 DEF ThreadHeard, SettingPc
  <2>. QED
    BY <1>5, <2>1, <2>2
<1>7. CASE HandleInTest(h) \/ HandleOther(h)
  <2>1. /\ UNCHANGED <<packets, late, held>> /\ pc[t] = "handle" /\ pc'[t] = "stats"
        /\ call'[t] = [pkt |-> p, verdict |-> "accept", back |-> "local"]
    BY <1>0, <1>3, <1>7 DEF HandleInTest, HandleOther, CallSetVerdict
  <2>2. ThreadHeard(t)'
    BY <1>0, <1>3, <1>4, <2>1 DEF ThreadHeard, SettingPc
  <2>. QED
    BY <1>5, <2>1, <2>2
<1>8. CASE HandleFlow(h)
  <2>1. /\ UNCHANGED <<packets, late, held>> /\ pc[t] = "handle"
        /\ IF After THEN pc'[t] = "add" /\ call'[t] = call[t]
           ELSE pc'[t] = "stats" /\ call'[t] = [pkt |-> p, verdict |-> "accept", back |-> "add"]
    BY <1>0, <1>3, <1>8 DEF HandleFlow, CallSetVerdict
  <2>2. Unheard(p)'
    BY <1>0, <1>3, <1>4, <2>1 DEF ThreadHeard
  <2>3. ThreadHeard(t)' /\ call'[t].pkt = p
    BY <1>2, <1>3, <2>1, <2>2 DEF ThreadHeard, SettingPc
  <2>. QED
    BY <1>5, <2>1, <2>3
<1>9. CASE AddAtOnce(h) \/ AddOverflows(h)
  <2>1. /\ UNCHANGED <<packets, late, held>> /\ pc[t] = "add"
        /\ \E v \in {"accept", "drop"} :
             IF After
             THEN pc'[t] = "stats" /\ call'[t] = [pkt |-> p, verdict |-> v, back |-> "delete"]
             ELSE pc'[t] = "delete" /\ call'[t] = [pkt |-> p, verdict |-> "accept", back |-> "delete"]
    BY <1>0, <1>1, <1>3, <1>9 DEF AddAtOnce, AddOverflows, SetIfAfter, CallSetVerdict
  <2>2. IF After THEN Unheard(p)' ELSE HeardOnce(p)'
    BY <1>0, <1>3, <1>4, <2>1 DEF ThreadHeard
  <2>3. ThreadHeard(t)' /\ call'[t].pkt = p
    <3>1. CASE After
      BY <1>2, <2>1, <2>2, <3>1 DEF ThreadHeard, SettingPc
    <3>2. CASE ~After
      BY <1>2, <2>1, <2>2, <3>2 DEF ThreadHeard, SettingPc, Dealt
    <3>. QED
      BY <3>1, <3>2
  <2>. QED
    BY <1>5, <2>1, <2>3
<1>10. CASE AddToQueue(h)
  <2>1. /\ UNCHANGED <<packets, late>> /\ pc[t] = "add" /\ pc'[t] = "loop" /\ call'[t] = NoCall
        /\ held' = [held EXCEPT ![h] = @ \cup {p}]
    BY <1>0, <1>3, <1>10 DEF AddToQueue
  <2>2. \A g \in Queue : held'[g] = held[g] \cup IF g = h THEN {p} ELSE {}
    BY <1>0, <2>1 DEF TypeOK
  <2>3. ThreadHeard(t)'
    BY <1>1, <2>1 DEF ThreadHeard, SettingPc
  <2>4. IF After THEN Unheard(p) ELSE HeardOnce(p)
    BY <1>0, <1>3, <2>1 DEF ThreadHeard
  <2>. QED
    BY <1>0, <2>1, <2>2, <2>3, <2>4, HeardMoves
<1>. QED
  BY <1>6, <1>7, <1>8, <1>9, <1>10 DEF ReaderStep

(* The workers, and deleting a packet.                                     *)
LEMMA WorkerHeard ==
  ASSUME Structure, Structure', Places, Heard, NEW t \in Thread, After \in BOOLEAN,
         WorkerStep(t) \/ DeletePacket(t), OnlyMoves(t)
  PROVE  Heard'
<1>. DEFINE h == QueueOf(t)
<1>. USE DEF Goto, handlerVars, packetVars
<1>0. /\ TypeOK /\ TypeOK' /\ pc \in [Thread -> Pc] /\ call \in [Thread -> CallRecord] /\ h \in Queue
      /\ ThreadHeard(t) /\ ThreadOK(t) /\ UNCHANGED <<config, nfQueue>>
      /\ \A u \in Thread : u # t => pc'[u] = pc[u] /\ call'[u] = call[u]
      /\ held \in [Queue -> SUBSET DOMAIN packets]
  BY ThreadFacts DEF Structure, TypeOK, Heard, OnlyMoves, processVars
<1>1. /\ NoCall.pkt = 0 /\ NoCall.back = "delete" /\ NoCall.verdict = "accept"
      /\ \A n : [NoCall EXCEPT !.pkt = n] = [pkt |-> n, verdict |-> "accept", back |-> "delete"]
  BY DEF NoCall
<1>2. After' <=> After
  BY <1>0 DEF After
<1>3. CASE WorkerExits(t)
  <2>1. UNCHANGED <<packets, late, held, call>> /\ pc'[t] = "exited"
    BY <1>0, <1>3 DEF WorkerExits
  <2>2. ThreadHeard(t)'
    BY <1>0, <1>2, <2>1 DEF ThreadHeard, SettingPc
  <2>. QED
    BY <1>0, <2>1, <2>2, HeardMoves
<1>4. ASSUME NEW p \in held[h], Take(t, p) PROVE Heard'
  <2>1. /\ UNCHANGED <<packets, late>> /\ pc[t] = "idle"
        /\ held' = [held EXCEPT ![h] = @ \ {p}]
        /\ call'[t] = [pkt |-> p, verdict |-> "accept", back |-> "delete"]
        /\ pc'[t] = IF After THEN "stats" ELSE "delete"
    BY <1>0, <1>1, <1>4 DEF Take, SetIfAfter, CallSetVerdict
  <2>2. \A g \in Queue : held'[g] = held[g] \ IF g = h THEN {p} ELSE {}
    BY <1>0, <2>1
  <2>3. /\ Unheard(p)' <=> Unheard(p)
        /\ HeardOnce(p)' <=> HeardOnce(p)
    BY <1>2, <2>1 DEF Unheard, HeardOnce
  <2>4. IF After THEN Unheard(p) ELSE HeardOnce(p)
    BY <1>0 DEF Heard
  <2>5. ThreadHeard(t)'
    BY <1>0, <1>2, <2>1, <2>3, <2>4 DEF ThreadHeard, SettingPc, Dealt
  <2>. QED
    BY <1>0, <2>1, <2>2, <2>5, HeardMoves
<1>5. CASE DeletePacket(t)
  <2>1. PICK p : p = call[t].pkt
    OBVIOUS
  <2>2. /\ pc[t] = "delete" /\ pc'[t] \in {"idle", "loop"} /\ call'[t] = NoCall
        /\ packets' = [packets EXCEPT ![p].frees = @ + 1] /\ UNCHANGED <<held, late>>
    BY <1>0, <1>5, <2>1 DEF DeletePacket
  <2>3. p # 0 /\ p \in DOMAIN packets
    BY <1>0, <2>1, <2>2, PacketOfCall DEF ThreadOK, EmptyPc
  <2>4. DOMAIN packets' = DOMAIN packets /\ \A q \in DOMAIN packets : Untouched(q)
    BY <1>0, <2>2, <2>3, DeleteMoves DEF Untouched
  <2>5. \A g \in Queue : late'[g] >= late[g]
    BY <1>0, <2>2 DEF TypeOK
  <2>6. \A q \in DOMAIN packets : Dealt(q) => Dealt(q)'
    BY <1>0, <2>4, <2>5, UntouchedHeard
  <2>7. Dealt(p)
    BY <1>0, <2>1, <2>2 DEF ThreadHeard
  <2>8. ThreadHeard(t)'
    BY <1>1, <2>2 DEF ThreadHeard, SettingPc
  <2>9. ASSUME NEW q \in DOMAIN packets PROVE packets'[q].frees = 0 \/ Dealt(q)'
    <3>1. packets[q].frees = 0 \/ Dealt(q)
      BY DEF Heard
    <3>2. q # p => packets'[q] = packets[q]
      BY <2>2, <2>3
    <3>. QED
      BY <2>6, <2>7, <3>1, <3>2
  <2>10. \A g \in Queue : late'[g] > 0 => After /\ nfQueue'[g] = "destroyed"
    BY <1>0, <2>2 DEF Heard
  <2>. QED
    BY <1>0, <2>2, <2>4, <2>5, <2>8, <2>9, <2>10, HeardStep
<1>. QED
  BY <1>3, <1>4, <1>5 DEF WorkerStep

(* The threads that handle packets.                                        *)
LEMMA HandlerHeard ==
  ASSUME Structure, Structure', Custody, Shutdown, Heard, NEW t \in Thread, HandlerStep(t)
  PROVE  Heard'
<1>0. /\ TypeOK /\ ThreadOK(t) /\ Places /\ BufferOK /\ OnlyMoves(t) /\ After \in BOOLEAN
      /\ pc \in [Thread -> Pc] /\ call \in [Thread -> CallRecord] /\ ThreadHeard(t)
      /\ QueueOf(t) \in Queue /\ call[t] \in CallRecord
      /\ \A u \in Thread : u # t => pc'[u] = pc[u] /\ call'[u] = call[u]
      /\ UNCHANGED <<config, nfQueue>>
  <2>1. OnlyMoves(t) /\ After \in BOOLEAN
    BY HandlerFrame, HandlerConfig
  <2>2. TypeOK /\ ThreadOK(t) /\ Places /\ BufferOK /\ ThreadHeard(t)
    BY DEF Structure, Custody, Heard
  <2>3. /\ \A u \in Thread : u # t => pc'[u] = pc[u] /\ call'[u] = call[u]
        /\ UNCHANGED <<config, nfQueue>>
    BY <2>1 DEF OnlyMoves, processVars
  <2>. QED
    BY <2>1, <2>2, <2>3, ThreadFacts DEF TypeOK
<1>. USE DEF Goto, handlerVars, packetVars
<1>1. CASE CountVerdict(t) \/ UnlockStats(t)
  <2>1. /\ UNCHANGED <<packets, late, held, call>> /\ pc[t] \in SettingPc /\ pc'[t] \in SettingPc
    BY <1>0, <1>1 DEF CountVerdict, UnlockStats, SettingPc
  <2>2. ThreadHeard(t)'
    BY <1>0, <2>1 DEF ThreadHeard, SettingPc, Unheard, After
  <2>. QED
    BY <1>0, <2>1, <2>2, HeardMoves
<1>2. CASE SetVerdictLocal(t)
  <2>1. /\ call[t].back = "local" /\ pc[t] = "verdict" /\ pc'[t] = "loop" /\ call'[t] = NoCall
        /\ UNCHANGED held /\ KernelVerdict(t, IF buffer[QueueOf(t)] # 0 THEN 1 ELSE 0)
    BY <1>0, <1>2 DEF SetVerdictLocal
  <2>2. \E n \in {0, 1} : KernelVerdict(t, n)
    BY <2>1
  <2>. QED
    BY <1>0, <2>1, <2>2, VerdictHeard
<1>3. CASE SetVerdict(t)
  <2>1. /\ call[t].back # "local" /\ pc[t] = "verdict" /\ pc'[t] = call[t].back
        /\ UNCHANGED <<call, held>> /\ KernelVerdict(t, 0)
    BY <1>0, <1>3 DEF SetVerdict
  <2>. QED
    BY <1>0, <2>1, VerdictHeard
<1>4. WorkerStep(t) \/ DeletePacket(t) => Heard'
  BY <1>0, WorkerHeard
<1>5. ASSUME NEW h \in Queue, t = Reader(h), ReaderStep(h) \/ ReceiveError(h) PROVE Heard'
  BY <1>0, <1>5, ReaderHeard
<1>6. ASSUME NEW h \in Queue, NEW kind \in Kind, Receive(h, kind) PROVE Heard'
  BY <1>0, <1>6, ReceiveHeard
<1>7. ~IsWorker(t) => t = Reader(QueueOf(t))
  BY ThreadFacts
<1>. QED
  BY <1>0, <1>1, <1>2, <1>3, <1>4, <1>5, <1>6, <1>7 DEF HandlerStep, ThreadStep

(* Whoever touches no packet gives no verdict.                             *)
LEMMA BystandersHeard == Heard /\ Bystanders => Heard'
<1>. SUFFICES ASSUME Heard, Bystanders PROVE Heard'
  OBVIOUS
<1>1. /\ UNCHANGED <<config, packets, call, late>>
      /\ \A h \in Queue : held'[h] \subseteq held[h]
      /\ \A t \in Thread : pc'[t] # pc[t] => pc'[t] \in EmptyPc
      /\ \A h \in Queue : nfQueue[h] = "destroyed" => nfQueue'[h] = "destroyed"
  BY DEF Bystanders
<1>2. After' <=> After
  BY <1>1 DEF After
<1>3. \A p : /\ Unheard(p)' <=> Unheard(p)
             /\ HeardOnce(p)' <=> HeardOnce(p)
             /\ Dealt(p)' <=> Dealt(p)
  BY <1>1, <1>2 DEF Unheard, HeardOnce, Missed, Dealt
<1>4. ASSUME NEW t \in Thread PROVE ThreadHeard(t)'
  <2>1. ThreadHeard(t) /\ UNCHANGED call[t].pkt
    BY <1>1 DEF Heard
  <2>2. CASE pc'[t] = pc[t]
    BY <1>1, <1>2, <1>3, <2>1, <2>2 DEF ThreadHeard
  <2>3. CASE pc'[t] \in EmptyPc
    BY <1>1, <1>2, <2>1, <2>3 DEF ThreadHeard, EmptyPc, SettingPc
  <2>. QED
    BY <1>1, <2>2, <2>3
<1>. QED
  BY <1>1, <1>2, <1>3, <1>4 DEF Heard

(* No verdict was given at the start.                                      *)
LEMMA InitHeard == Init => Heard
<1>. SUFFICES ASSUME Init PROVE Heard
  OBVIOUS
<1>1. DOMAIN packets = {}
  BY LenProperties, EmptySeq DEF Init
<1>2. \A t \in Thread : pc[t] = "absent" /\ call[t].verdict = "accept"
  BY DEF Init, NoCall
<1>. QED
  BY <1>1, <1>2 DEF Init, HandlersInit, Heard, ThreadHeard, SettingPc

(* The steps of threads and the others together.                           *)
LEMMA NextHeard == Structure /\ Structure' /\ Custody /\ Shutdown /\ Heard /\ [Next]_vars => Heard'
BY NextByThread, HandlerHeard, BystandersHeard

(* With structure, custody and shutdown it is inductive.                   *)
LEMMA AlwaysHeard == Spec => []Heard
BY InitHeard, NextHeard, AlwaysStructure, AlwaysCustody, AlwaysShutdown, PTL DEF Spec

(* No packet is deleted before its one verdict reached the kernel, unless  *)
(* main has destroyed the queue in the meantime.                           *)
THEOREM DeletedWithVerdict == Spec => []DeletedHasVerdict
<1>1. ASSUME TypeOK, Heard PROVE DeletedHasVerdict
  <2>1. SUFFICES ASSUME NEW p \in DOMAIN packets
                 PROVE  /\ Len(packets[p].verdicts) <= 1
                        /\ packets[p].frees > 0 /\ late[packets[p].queue] = 0
                             => Len(packets[p].verdicts) = 1
    BY DEF DeletedHasVerdict
  <2>2. /\ Unheard(p) => Len(packets[p].verdicts) = 0
        /\ HeardOnce(p) => Len(packets[p].verdicts) = 1
    <3>1. ASSUME HeardOnce(p) PROVE Len(packets[p].verdicts) = 1
      <4>1. PICK v : packets[p].verdicts = <<v>>
        BY <3>1 DEF HeardOnce
      <4>. QED
        BY <4>1
    <3>2. ASSUME Unheard(p) PROVE Len(packets[p].verdicts) = 0
      BY <3>2 DEF Unheard
    <3>. QED
      BY <3>1, <3>2
  <2>3. late[packets[p].queue] = 0 => ~Missed(p)
    BY DEF Missed
  <2>4. (Unheard(p) \/ HeardOnce(p)) /\ (packets[p].frees = 0 \/ HeardOnce(p) \/ Missed(p))
    BY <1>1, <2>1 DEF Heard, Dealt
  <2>5. Len(packets[p].verdicts) = 0 \/ Len(packets[p].verdicts) = 1
    BY <2>2, <2>4, Zenon
  <2>6. Len(packets[p].verdicts) <= 1
    <3>1. 0 <= 1 /\ 1 <= 1
      OBVIOUS
    <3>. QED
      BY <2>5, <3>1, Zenon
  <2>7. packets[p].frees > 0 /\ late[packets[p].queue] = 0 => Len(packets[p].verdicts) = 1
    <3>1. packets[p].frees > 0 => packets[p].frees # 0
      OBVIOUS
    <3>. QED
      BY <2>2, <2>3, <2>4, <3>1, Zenon
  <2>. QED
    BY <2>6, <2>7, Zenon
<1>2. Structure => TypeOK
  BY DEF Structure
<1>. QED
  BY <1>1, <1>2, AlwaysStructure, AlwaysHeard, PTL

(* Without VerdictAfterClassification a packet is accepted before the      *)
(* manager has it, and no packet is dropped.                               *)
THEOREM AcceptedFirst == Spec => []AcceptedBeforeQueued
<1>1. ASSUME TypeOK, Custody, Heard PROVE AcceptedBeforeQueued
  <2>1. SUFFICES ASSUME ~After, NEW p \in DOMAIN packets
                 PROVE  /\ "drop" \notin {packets[p].verdicts[i] : i \in DOMAIN packets[p].verdicts}
                        /\ p \in held[packets[p].queue] => packets[p].verdicts = <<"accept">>
    BY DEF AcceptedBeforeQueued
  <2>2. packets[p].verdicts = << >> \/ packets[p].verdicts = <<"accept">>
    BY <1>1, <2>1 DEF Heard, Unheard, HeardOnce
  <2>3. \A i \in DOMAIN packets[p].verdicts : packets[p].verdicts[i] # "drop"
    BY <2>2
  <2>4. packets[p].queue \in Queue
    <3>1. packets[p] \in PacketRecord
      BY <1>1, ElementOfSeq, LenProperties DEF TypeOK
    <3>. QED
      BY <3>1 DEF PacketRecord
  <2>5. p \in held[packets[p].queue] => packets[p].verdicts = <<"accept">>
    BY <1>1, <2>1, <2>2, <2>4 DEF Heard, HeardOnce
  <2>. QED
    BY <2>3, <2>5
<1>2. Structure => TypeOK
  BY DEF Structure
<1>. QED
  BY <1>1, <1>2, AlwaysStructure, AlwaysCustody, AlwaysHeard, PTL

-------------------------------------------------------------------------------
(* The statistics *)

(* There are finitely many threads, and of packets and workers at work no  *)
(* more than there are.                                                    *)
LEMMA ThreadsFinite == IsFiniteSet(Thread)
<1>1. IsFiniteSet(Queue) /\ IsFiniteSet(0 .. MaxWorkers) /\ IsFiniteSet({"reader", "worker"})
  <2>1. IsFiniteSet({"reader"} \cup {"worker"})
    BY FS_Singleton, FS_Union
  <2>2. {"reader", "worker"} = {"reader"} \cup {"worker"}
    OBVIOUS
  <2>. QED
    BY <2>1, <2>2, QueueFacts, FS_Interval DEF Queue
<1>. DEFINE P == ({"reader", "worker"} \X Queue) \X (0 .. MaxWorkers)
            f == [t \in Thread |-> <<<<t[1], t[2]>>, t[3]>>]
<1>2. IsFiniteSet(P)
  BY <1>1, FS_Product
<1>3. f \in [Thread -> P]
  BY QueueFacts DEF Thread, Readers, Workers, Reader, Worker
<1>4. \A t, u \in Thread : f[t] = f[u] => t = u
  BY DEF Thread, Readers, Workers, Reader, Worker
<1>. HIDE DEF f, P
<1>. QED
  BY <1>2, <1>3, <1>4, OneToOne

HeardOf(h) == {p \in DOMAIN packets : packets[p].queue = h /\ packets[p].verdicts # << >>}
Counting(h) == {t \in Thread : QueueOf(t) = h /\ pc[t] \in {"counted", "verdict"}}

(* The sets that are counted are finite, so that their sizes are numbers.  *)
LEMMA StatsFinite ==
  ASSUME TypeOK, NEW h \in Queue
  PROVE  /\ IsFiniteSet(HeardOf(h)) /\ Cardinality(HeardOf(h)) \in Nat
         /\ IsFiniteSet(Counting(h)) /\ Cardinality(Counting(h)) \in Nat
         /\ late[h] \in Nat /\ verdictStats[h]["accept"] \in Nat /\ verdictStats[h]["drop"] \in Nat
<1>1. IsFiniteSet(DOMAIN packets)
  BY LenProperties, FS_Interval DEF TypeOK
<1>2. HeardOf(h) \in SUBSET DOMAIN packets /\ Counting(h) \in SUBSET Thread
  BY DEF HeardOf, Counting
<1>3. IsFiniteSet(HeardOf(h)) /\ IsFiniteSet(Counting(h))
  BY <1>1, <1>2, ThreadsFinite, FS_Subset
<1>. QED
  BY <1>3, FS_CardinalityType DEF TypeOK

(* What StatsAddUp says of one handler.                                    *)
Counted(h) == verdictStats[h]["accept"] + verdictStats[h]["drop"]
AddsUp(h) == Counted(h) = Cardinality(HeardOf(h)) + late[h] + Cardinality(Counting(h))

(* StatsAddUp speaks of each handler on its own.                           *)
LEMMA StatsByHandler == StatsAddUp <=> \A h \in Queue : AddsUp(h)
BY DEF StatsAddUp, AddsUp, Counted, HeardOf, Counting

(* Nothing is counted and nothing heard.                                   *)
LEMMA StatsStay ==
  ASSUME TypeOK, StatsAddUp, UNCHANGED <<verdictStats, late>>,
         DOMAIN packets \subseteq DOMAIN packets',
         \A p \in DOMAIN packets : Untouched(p),
         \A p \in DOMAIN packets' : p \notin DOMAIN packets => Unheard(p)',
         \A t \in Thread : pc'[t] \in {"counted", "verdict"} <=> pc[t] \in {"counted", "verdict"}
  PROVE  StatsAddUp'
<1>1. SUFFICES ASSUME NEW h \in Queue PROVE AddsUp(h)'
  BY DEF StatsAddUp, AddsUp, Counted, HeardOf, Counting
<1>2. HeardOf(h)' = HeardOf(h)
  BY DEF HeardOf, Untouched, Unheard
<1>3. Counting(h)' = Counting(h)
  BY DEF Counting
<1>. QED
  BY <1>2, <1>3, StatsByHandler DEF AddsUp, Counted

(* The statistics of one handler change, in step with what they count.     *)
LEMMA StatsMove ==
  ASSUME StatsAddUp, NEW g \in Queue, AddsUp(g)',
         \A h \in Queue : h # g =>
           HeardOf(h)' = HeardOf(h) /\ Counting(h)' = Counting(h)
           /\ late'[h] = late[h] /\ verdictStats'[h] = verdictStats[h]
  PROVE  StatsAddUp'
<1>1. SUFFICES ASSUME NEW h \in Queue PROVE AddsUp(h)'
  BY DEF StatsAddUp, AddsUp, Counted, HeardOf, Counting
<1>2. CASE h # g
  BY <1>2, StatsByHandler DEF AddsUp, Counted
<1>. QED
  BY <1>2

(* setVerdict counts its verdict before it gives it.                       *)
LEMMA CountVerdictStats ==
  ASSUME Structure, StatsAddUp, NEW t \in Thread, CountVerdict(t)
  PROVE  StatsAddUp'
<1>. DEFINE h == QueueOf(t)
            v == call[t].verdict
<1>1. /\ TypeOK /\ h \in Queue /\ v \in {"accept", "drop"} /\ UNCHANGED <<packets, late>>
      /\ pc \in [Thread -> Pc] /\ verdictStats \in [Queue -> [{"accept", "drop"} -> Nat]]
      /\ pc[t] = "stats" /\ pc' = [pc EXCEPT ![t] = "counted"]
      /\ verdictStats' = [verdictStats EXCEPT ![h][v] = @ + 1]
  BY ThreadFacts, PacketOfCall DEF Structure, TypeOK, CountVerdict, Goto, CallRecord
<1>. HIDE DEF v, h
<1>2. \A g : HeardOf(g)' = HeardOf(g)
  BY <1>1 DEF HeardOf
<1>3. t \notin Counting(h) /\ Counting(h)' = Counting(h) \cup {t}
  BY <1>1 DEF Counting, h
<1>4. \A g \in Queue : g # h => Counting(g)' = Counting(g) /\ verdictStats'[g] = verdictStats[g]
  BY <1>1 DEF Counting, h
<1>5. verdictStats'[h]["accept"] + verdictStats'[h]["drop"]
        = verdictStats[h]["accept"] + verdictStats[h]["drop"] + 1
  BY <1>1
<1>6. Cardinality(Counting(h)') = Cardinality(Counting(h)) + 1
  BY <1>1, <1>3, StatsFinite, OneMore
<1>7. Counted(h)' = Counted(h) + 1 /\ late'[h] = late[h] /\ HeardOf(h)' = HeardOf(h)
  BY <1>1, <1>2, <1>5 DEF Counted
<1>8. AddsUp(h) /\ Counted(h) \in Nat /\ Cardinality(HeardOf(h)) \in Nat
      /\ late[h] \in Nat /\ Cardinality(Counting(h)) \in Nat
  BY <1>1, StatsByHandler, StatsFinite DEF Counted
<1>9. AddsUp(h)'
  BY <1>6, <1>7, <1>8 DEF AddsUp
<1>. QED
  BY <1>1, <1>2, <1>4, <1>9, StatsMove

(* The kernel hears it, or the queue is gone and the call is late.         *)
LEMMA KernelVerdictStats ==
  ASSUME Structure, StatsAddUp, Places, Heard, NEW t \in Thread, NEW n \in {0, 1},
         pc[t] = "verdict", KernelVerdict(t, n), UNCHANGED verdictStats,
         pc'[t] \notin {"counted", "verdict"}, \A u \in Thread : u # t => pc'[u] = pc[u]
  PROVE  StatsAddUp'
<1>. DEFINE h == QueueOf(t)
<1>p. PICK p : p = call[t].pkt
  OBVIOUS
<1>1. /\ TypeOK /\ h \in Queue /\ p # 0 /\ p \in DOMAIN packets
      /\ packets[p].queue = h /\ packets[p].verdicts = << >> /\ call[t] \in CallRecord
  BY <1>p, ThreadFacts, PacketOfCall DEF Structure, ThreadOK, EmptyPc, Places, Heard, ThreadHeard,
     SettingPc, Unheard
<1>2. /\ DOMAIN packets' = DOMAIN packets
      /\ \A q \in DOMAIN packets : q # p => packets'[q] = packets[q]
      /\ packets'[p].queue = packets[p].queue
      /\ packets'[p].verdicts = IF nfQueue[h] = "open"
                                THEN Append(packets[p].verdicts, call[t].verdict)
                                ELSE packets[p].verdicts
      /\ late' = IF nfQueue[h] = "open" THEN late ELSE [late EXCEPT ![h] = @ + 1]
  BY <1>p, <1>1, KernelVerdictMoves
<1>. HIDE DEF h
<1>3. t \in Counting(h) /\ Counting(h)' = Counting(h) \ {t}
  BY DEF Counting, h
<1>4. Cardinality(Counting(h)) = Cardinality(Counting(h)') + 1 /\ Cardinality(Counting(h)') \in Nat
  BY <1>1, <1>3, StatsFinite, OneLess
<1>5. late \in [Queue -> Nat]
  BY <1>1 DEF TypeOK
<1>6. \A g \in Queue : g # h =>
         HeardOf(g)' = HeardOf(g) /\ Counting(g)' = Counting(g) /\ late'[g] = late[g]
  <2>1. ASSUME NEW g \in Queue, g # h PROVE HeardOf(g)' = HeardOf(g)
    BY <1>1, <1>2, <2>1 DEF HeardOf
  <2>2. ASSUME NEW g \in Queue, g # h PROVE Counting(g)' = Counting(g)
    BY <2>2 DEF Counting, h
  <2>. QED
    BY <1>1, <1>2, <1>5, <2>1, <2>2
<1>7. AddsUp(h) /\ Counted(h)' = Counted(h) /\ Counted(h) \in Nat /\ Cardinality(HeardOf(h)) \in Nat
      /\ late[h] \in Nat
  BY <1>1, StatsByHandler, StatsFinite DEF Counted
<1>8. p \notin HeardOf(h)
  BY <1>1 DEF HeardOf
<1>9. Cardinality(HeardOf(h)') + late'[h] = Cardinality(HeardOf(h)) + late[h] + 1
  <2>1. CASE nfQueue[h] = "open"
    <3>1. packets'[p].verdicts = <<call[t].verdict>>
      BY <1>1, <1>2, <2>1
    <3>2. HeardOf(h)' = HeardOf(h) \cup {p}
      BY <1>1, <1>2, <3>1 DEF HeardOf
    <3>3. Cardinality(HeardOf(h)') = Cardinality(HeardOf(h)) + 1
      BY <1>1, <1>8, <3>2, StatsFinite, OneMore
    <3>. QED
      BY <1>2, <1>7, <2>1, <3>3
  <2>2. CASE nfQueue[h] # "open"
    <3>1. HeardOf(h)' = HeardOf(h)
      BY <1>1, <1>2, <2>2 DEF HeardOf
    <3>2. late'[h] = late[h] + 1
      BY <1>1, <1>2, <1>5, <2>2
    <3>. QED
      BY <1>7, <3>1, <3>2
  <2>. QED
    BY <2>1, <2>2
<1>10. AddsUp(h)'
  BY <1>4, <1>7, <1>9 DEF AddsUp
<1>. QED
  BY <1>1, <1>6, <1>10, StatsMove

(* Each step of a thread keeps the sums: counting and giving a verdict     *)
(* are two.                                                                *)
LEMMA HandlerStats ==
  ASSUME Structure, Custody, Heard, StatsAddUp, NEW t \in Thread, HandlerStep(t)
  PROVE  StatsAddUp'
<1>0. /\ TypeOK /\ ThreadOK(t) /\ Places /\ pc \in [Thread -> Pc]
      /\ \A u \in Thread : u # t => pc'[u] = pc[u]
  BY HandlerFrame DEF Structure, Custody, TypeOK, OnlyMoves
<1>. USE DEF Goto, handlerVars, packetVars
<1>1. CASE CountVerdict(t)
  BY <1>1, CountVerdictStats
<1>2. CASE SetVerdictLocal(t)
  <2>1. /\ pc[t] = "verdict" /\ pc'[t] = "loop" /\ UNCHANGED verdictStats
        /\ KernelVerdict(t, IF buffer[QueueOf(t)] # 0 THEN 1 ELSE 0)
    BY <1>0, <1>2 DEF SetVerdictLocal
  <2>2. \E n \in {0, 1} : KernelVerdict(t, n)
    BY <2>1
  <2>. QED
    BY <1>0, <2>1, <2>2, KernelVerdictStats
<1>3. CASE SetVerdict(t)
  <2>1. /\ call[t].back # "local" /\ pc[t] = "verdict" /\ pc'[t] = call[t].back
        /\ KernelVerdict(t, 0) /\ UNCHANGED verdictStats
    BY <1>0, <1>3 DEF SetVerdict
  <2>2. call[t].back \in {"add", "delete"}
    BY <1>0, <2>1, PacketOfCall DEF CallRecord
  <2>. QED
    BY <1>0, <2>1, <2>2, KernelVerdictStats
(* All the others count nothing. *)
<1>. DEFINE Quiet == /\ UNCHANGED <<verdictStats, late>>
                     /\ pc'[t] \in {"counted", "verdict"} <=> pc[t] \in {"counted", "verdict"}
<1>4. ASSUME Quiet, UNCHANGED packets PROVE StatsAddUp'
  BY <1>0, <1>4, StatsStay DEF Untouched
<1>5. CASE UnlockStats(t)
  BY <1>0, <1>4, <1>5 DEF UnlockStats
<1>6. CASE DeletePacket(t)
  <2>1. call[t].pkt # 0
    BY <1>0, <1>6 DEF DeletePacket, ThreadOK, EmptyPc
  <2>2. PICK p \in DOMAIN packets : packets' = [packets EXCEPT ![p].frees = @ + 1]
    BY <1>0, <1>6, <2>1, PacketOfCall DEF DeletePacket
  <2>3. DOMAIN packets' = DOMAIN packets /\ \A q \in DOMAIN packets : Untouched(q)
    BY <1>0, <2>2, DeleteMoves DEF Untouched
  <2>4. Quiet
    BY <1>0, <1>6 DEF DeletePacket
  <2>. QED
    BY <1>0, <2>3, <2>4, StatsStay
<1>7. ASSUME WorkerStep(t) PROVE StatsAddUp'
  <2>1. pc[t] = "idle" /\ pc'[t] \in {"exited", "stats", "delete"}
        /\ UNCHANGED <<verdictStats, late, packets>>
    BY <1>0, <1>7 DEF WorkerStep, WorkerExits, Take, SetIfAfter, CallSetVerdict
  <2>. QED
    BY <1>4, <2>1
<1>8. ASSUME NEW h \in Queue, t = Reader(h), ReaderStep(h) \/ ReceiveError(h) PROVE StatsAddUp'
  <2>1. CASE \/ EnterReceive(h) \/ ReceiveNothing(h) \/ LeaveLoop(h) \/ ReceiveError(h)
             \/ AddToQueue(h)
    BY <1>0, <1>4, <1>8, <2>1 DEF EnterReceive, ReceiveNothing, LeaveLoop, ReceiveError, AddToQueue
  <2>2. CASE HandleInTest(h) \/ HandleOther(h) \/ HandleFlow(h)
    BY <1>0, <1>4, <1>8, <2>2 DEF HandleInTest, HandleOther, HandleFlow, CallSetVerdict
  <2>3. CASE AddAtOnce(h) \/ AddOverflows(h)
    BY <1>0, <1>4, <1>8, <2>3 DEF AddAtOnce, AddOverflows, SetIfAfter, CallSetVerdict
  <2>. QED
    BY <1>8, <2>1, <2>2, <2>3 DEF ReaderStep
<1>9. ASSUME NEW h \in Queue, t = Reader(h), NEW kind \in Kind, Receive(h, kind) PROVE StatsAddUp'
  <2>1. PICK p : p = Len(packets) + 1
    OBVIOUS
  <2>2. /\ pc[t] = "recv" /\ pc'[t] = "handle" /\ UNCHANGED <<verdictStats, late>>
    BY <1>0, <1>9 DEF Receive
  <2>3. /\ DOMAIN packets' = DOMAIN packets \cup {p}
        /\ \A q \in DOMAIN packets : packets'[q] = packets[q]
        /\ packets'[p] = NewPacket(h, kind)
    BY <1>0, <1>9, <2>1, ReceiveMoves
  <2>4. Unheard(p)' /\ \A q \in DOMAIN packets : Untouched(q)
    BY <2>3 DEF Unheard, Untouched, NewPacket
  <2>. QED
    BY <1>0, <2>2, <2>3, <2>4, StatsStay
<1>10. ~IsWorker(t) => t = Reader(QueueOf(t)) /\ QueueOf(t) \in Queue
  BY ThreadFacts
<1>. QED
  BY <1>1, <1>2, <1>3, <1>5, <1>6, <1>7, <1>8, <1>9, <1>10 DEF HandlerStep, ThreadStep

(* The steps of threads and the others together.                           *)
LEMMA NextStats == Structure /\ Custody /\ Heard /\ StatsAddUp /\ [Next]_vars => StatsAddUp'
<1>. SUFFICES ASSUME Structure, Custody, Heard, StatsAddUp, Bystanders PROVE StatsAddUp'
  BY NextByThread, HandlerStats
<1>. QED
  BY StatsStay DEF Structure, Bystanders, Untouched, EmptyPc

(* All of the numbers are 0 at the start.                                  *)
LEMMA InitStats == Init => StatsAddUp
<1>. SUFFICES ASSUME Init, NEW h \in Queue PROVE AddsUp(h)
  BY StatsByHandler
<1>1. HeardOf(h) = {} /\ Counting(h) = {}
  BY LenProperties, EmptySeq DEF Init, HeardOf, Counting
<1>2. Counted(h) = 0 /\ late[h] = 0
  BY DEF Init, HandlersInit, Counted
<1>. QED
  BY <1>1, <1>2, FS_EmptySet DEF AddsUp

(* Whenever main or the signal handler prints them, the statistics are the *)
(* verdicts given and those that a thread counted and is about to give.    *)
THEOREM StatsAreVerdicts == Spec => []StatsAddUp
BY InitStats, NextStats, AlwaysStructure, AlwaysCustody, AlwaysHeard, PTL DEF Spec

-------------------------------------------------------------------------------
(* Late verdicts *)

(* There are no more latecomers than workers.                              *)
FewLate ==
  \A h \in Queue : /\ IsFiniteSet(Latecomers(h)) /\ Cardinality(Latecomers(h)) \in Nat
                  /\ Cardinality(Latecomers(h)) <= NumWorkers

(* Latecomers are workers of the handler, which are as many as NumWorkers  *)
(* says.                                                                   *)
LEMMA FewLatecomers == Structure /\ NumWorkers \in Nat => FewLate
<1>. SUFFICES ASSUME Structure, NumWorkers \in Nat, NEW h \in Queue
              PROVE  /\ IsFiniteSet(Latecomers(h)) /\ Cardinality(Latecomers(h)) \in Nat
                     /\ Cardinality(Latecomers(h)) <= NumWorkers
  BY DEF FewLate
<1>. DEFINE f == [t \in Latecomers(h) |-> t[3]]
<1>1. f \in [Latecomers(h) -> 1 .. NumWorkers]
  <2>1. ASSUME NEW t \in Latecomers(h) PROVE t[3] \in 1 .. NumWorkers
    <3>1. t \in Workers /\ pc[t] \in SettingPc /\ t \in Thread /\ IsWorker(t)
      BY ThreadFacts DEF Latecomers, Thread
    <3>2. t[3] <= NumWorkers
      BY <3>1 DEF Structure, ThreadOK, SettingPc
    <3>3. t[3] \in 1 .. MaxWorkers
      BY <3>1 DEF Workers, Worker
    <3>. QED
      BY <3>2, <3>3, QueueFacts
  <2>. QED
    BY <2>1
<1>2. \A t, u \in Latecomers(h) : f[t] = f[u] => t = u
  BY DEF Latecomers, Workers, Worker, QueueOf
<1>3. IsFiniteSet(1 .. NumWorkers) /\ Cardinality(1 .. NumWorkers) = NumWorkers
  BY FS_Interval
<1>. HIDE DEF f
<1>. QED
  BY <1>1, <1>2, <1>3, OneToOne

(* Once a signal that found the handlers started is dealt with, and did    *)
(* not hit a worker, no worker takes a packet for a queue that is gone.    *)
LEMMA ManagersStopped ==
  ASSUME Structure, Shutdown, Heard, NEW h \in Queue, late[h] > 0,
         signal.started, ~IsWorker(signal.victim), Classifies
  PROVE  managerStop[h] /\ nfQueue[h] = "destroyed"
<1>1. nfQueue[h] = "destroyed"
  BY DEF Heard
<1>2. h <= created
  BY <1>1, QueueFacts DEF Structure, TypeOK
<1>3. signal.pc = "done"
  BY <1>1 DEF Shutdown, JoinedOK, HandlersOutliveSignal, Structure, TypeOK, SignalPc
<1>. QED
  BY <1>1, <1>2, <1>3 DEF Shutdown, StoppedOK

(* A file was loaded by then.                                              *)
LEMMA StartedConfig == Structure /\ Shutdown /\ signal.started => NumWorkers \in Nat
BY QueueFacts DEF Structure, ConfigOK, Shutdown, SignalOK

(* A worker that enters setVerdict has taken a packet.                     *)
LEMMA WhoEnters ==
  ASSUME Structure, NEW t \in Thread, HandlerStep(t), IsWorker(t),
         pc[t] \notin SettingPc, pc'[t] \in SettingPc
  PROVE  ~managerStop[QueueOf(t)] /\ Classifies
<1>. USE DEF Goto, handlerVars, packetVars
<1>0. pc \in [Thread -> Pc] /\ ThreadOK(t) /\ pc[t] \notin {"absent", "exited"}
  BY HandlerFrame DEF Structure, TypeOK, OnlyMoves
<1>1. Classifies
  BY <1>0 DEF ThreadOK
<1>2. \A h \in Queue : t # Reader(h)
  BY ThreadFacts
<1>3. ~(CountVerdict(t) \/ UnlockStats(t) \/ SetVerdictLocal(t) \/ SetVerdict(t) \/ DeletePacket(t))
  BY <1>0, ThreadFacts DEF CountVerdict, UnlockStats, SetVerdictLocal, SetVerdict, DeletePacket,
     SettingPc, ThreadOK
<1>4. WorkerStep(t)
  BY <1>2, <1>3 DEF HandlerStep, ThreadStep
<1>5. ~WorkerExits(t)
  BY <1>0 DEF WorkerExits, SettingPc
<1>6. \E p \in held[QueueOf(t)] : Take(t, p)
  BY <1>4, <1>5 DEF WorkerStep
<1>. QED
  BY <1>1, <1>6 DEF Take

(* Who is late has been a latecomer, and is none any more.                 *)
LEMMA WhoIsLate ==
  ASSUME Structure, NEW t \in Thread, HandlerStep(t), NEW h \in Queue, late'[h] # late[h]
  PROVE  /\ QueueOf(t) = h /\ pc[t] = "verdict" /\ pc'[t] \notin SettingPc
         /\ late'[h] = late[h] + 1
<1>. USE DEF Goto, handlerVars, packetVars
<1>0. pc \in [Thread -> Pc] /\ ThreadOK(t) /\ TypeOK /\ call[t] \in CallRecord
  BY PacketOfCall DEF Structure, TypeOK
<1>1. CASE SetVerdict(t) \/ SetVerdictLocal(t)
  <2>1. /\ pc[t] = "verdict" /\ pc'[t] \in {"loop", "add", "delete"}
        /\ \E n \in {0, 1} : KernelVerdict(t, n)
    BY <1>0, <1>1 DEF SetVerdict, SetVerdictLocal, CallRecord
  <2>2. late' = IF nfQueue[QueueOf(t)] = "open" THEN late
                ELSE [late EXCEPT ![QueueOf(t)] = @ + 1]
    BY <2>1 DEF KernelVerdict
  <2>. QED
    BY <1>0, <2>1, <2>2 DEF SettingPc, TypeOK
<1>2. ~(CountVerdict(t) \/ UnlockStats(t) \/ DeletePacket(t) \/ WorkerStep(t))
  BY DEF CountVerdict, UnlockStats, DeletePacket, WorkerStep, WorkerExits, Take
<1>3. ASSUME NEW g \in Queue PROVE ~ReaderStep(g)
  BY DEF ReaderStep, EnterReceive, ReceiveNothing, LeaveLoop, HandleInTest, HandleOther, HandleFlow,
         AddAtOnce, AddToQueue, AddOverflows
<1>4. ASSUME NEW g \in Queue PROVE ~ReceiveError(g) /\ \A kind \in Kind : ~Receive(g, kind)
  BY DEF ReceiveError, Receive
<1>. QED
  BY <1>1, <1>2, <1>3, <1>4, ThreadFacts DEF HandlerStep, ThreadStep

(* Only its arrival says what a signal has found.                          *)
LEMMA SignalKept ==
  ASSUME Structure, MainStep \/ Crash \/ SignalStep \/ UNCHANGED vars
  PROVE  signal'.started = signal.started /\ signal'.victim = signal.victim
<1>1. CASE MainStep \/ Crash \/ UNCHANGED vars
  BY <1>1 DEF vars, MainStep, UsageExits, LoadConfig, ReadDatabase, CreateHandler, CreateFails,
         AllCreated, StartPrint, PrintStats, PrintedStats, EndPrint, LeaveMainLoop, Join, AllJoined,
         DestroyQueue, StopManager, DestroyManager, AllDestroyed, Crash
<1>2. CASE SignalStep
  BY <1>2 DEF SignalStep, BeginShutdown, ReportStats, StopHandler, NextLoop, SignalGoto,
         Structure, TypeOK
<1>. QED
  BY <1>1, <1>2

(* What one thread does to the lateness of a queue.                        *)
LEMMA HandlerLate ==
  ASSUME Structure, Structure', Shutdown, Heard, Heard', LateCount,
         NEW t \in Thread, HandlerStep(t), NEW h \in Queue,
         signal.started, ~IsWorker(signal.victim)
  PROVE  late'[h] + Cardinality(Latecomers(h)') <= NumWorkers
<1>0. /\ OnlyMoves(t) /\ NumWorkers \in Nat /\ late[h] \in Nat /\ late'[h] \in Nat
      /\ UNCHANGED <<config, nfQueue, signal>> /\ NumWorkers' = NumWorkers
      /\ late[h] + Cardinality(Latecomers(h)) <= NumWorkers
      /\ \A u \in Thread : u # t => pc'[u] = pc[u]
  <2>1. OnlyMoves(t) /\ NumWorkers \in Nat
    BY HandlerFrame, StartedConfig
  <2>2. UNCHANGED <<config, nfQueue, signal>> /\ NumWorkers' = NumWorkers
    BY <2>1 DEF OnlyMoves, processVars, NumWorkers
  <2>. QED
    BY <2>1, <2>2 DEF OnlyMoves, LateCount, Structure, TypeOK
<1>1. FewLate /\ FewLate'
  <2>1. Structure' /\ (NumWorkers \in Nat)' => FewLate'
    BY FewLatecomers, PTL
  <2>. QED
    BY <1>0, <2>1, FewLatecomers
<1>2. /\ IsFiniteSet(Latecomers(h)) /\ Cardinality(Latecomers(h)) \in Nat
      /\ Cardinality(Latecomers(h)') \in Nat /\ Cardinality(Latecomers(h)') <= NumWorkers
  BY <1>0, <1>1 DEF FewLate
<1>3. CASE late'[h] = 0
  BY <1>2, <1>3
<1>4. CASE late'[h] # 0 /\ late'[h] # late[h]
  <2>1. QueueOf(t) = h /\ pc[t] = "verdict" /\ pc'[t] \notin SettingPc /\ late'[h] = late[h] + 1
    BY <1>4, WhoIsLate
  <2>2. nfQueue[h] = "destroyed"
    BY <1>0, <1>4 DEF Heard
  <2>3. IsWorker(t)
    BY <2>1, <2>2, ThreadFacts DEF Shutdown, JoinedOK
  <2>4. t \in Latecomers(h) /\ Latecomers(h)' = Latecomers(h) \ {t}
    BY <1>0, <2>1, <2>3, ThreadFacts DEF Latecomers, SettingPc, Thread
  <2>5. Cardinality(Latecomers(h)) = Cardinality(Latecomers(h)') + 1
    BY <1>2, <2>4, OneLess
  <2>. QED
    BY <1>0, <1>2, <2>1, <2>5
<1>5. CASE late[h] > 0 /\ late'[h] = late[h]
  <2>1. Classifies => managerStop[h]
    BY <1>5, ManagersStopped
  <2>2. IsWorker(t) /\ QueueOf(t) = h => pc[t] \in SettingPc \/ pc'[t] \notin SettingPc
    BY <2>1, WhoEnters
  <2>3. Latecomers(h)' \in SUBSET Latecomers(h)
    BY <1>0, <2>2, ThreadFacts DEF Latecomers, Thread
  <2>4. Cardinality(Latecomers(h)') <= Cardinality(Latecomers(h))
    BY <1>2, <2>3, FS_Subset
  <2>. QED
    BY <1>0, <1>2, <1>5, <2>4
<1>. QED
  BY <1>0, <1>3, <1>4, <1>5

(* A signal comes before any queue is destroyed, so before any verdict can *)
(* be late.                                                                *)
LEMMA NextLate ==
  Structure /\ Structure' /\ Shutdown /\ Shutdown' /\ Heard /\ Heard' /\ LateCount /\ [Next]_vars
    => LateCount'
<1>. SUFFICES ASSUME Structure, Structure', Shutdown, Shutdown', Heard, Heard', LateCount, [Next]_vars,
                     NEW h \in Queue, signal'.started, ~IsWorker(signal'.victim)
              PROVE  late'[h] + Cardinality(Latecomers(h)') <= NumWorkers'
  BY DEF LateCount
<1>1. CASE \E t \in Thread : HandlerStep(t)
  <2>1. UNCHANGED <<config, signal>> /\ NumWorkers' = NumWorkers
    BY <1>1, HandlerFrame DEF OnlyMoves, processVars, NumWorkers
  <2>. QED
    BY <1>1, <2>1, HandlerLate
<1>2. CASE Bystanders
  <2>1. UNCHANGED <<config, late>> /\ NumWorkers' = NumWorkers /\ Latecomers(h)' = Latecomers(h)
    BY <1>2 DEF Bystanders, NumWorkers, Latecomers, Thread, EmptyPc, SettingPc
  <2>2. CASE signal'.started = signal.started /\ signal'.victim = signal.victim
    BY <2>1, <2>2 DEF LateCount
  <2>3. CASE \E t \in Thread \cup {Main} : SignalArrives(t)
    <3>1. signal.pc = "none"
      BY <2>3 DEF SignalArrives
    <3>2. late[h] = 0
      BY <3>1 DEF Shutdown, JoinedOK, Heard, Structure, TypeOK
    <3>3. (NumWorkers \in Nat)'
      <4>1. Structure' /\ Shutdown' /\ (signal.started)' => (NumWorkers \in Nat)'
        BY StartedConfig, PTL
      <4>. QED
        BY <4>1
    <3>4. FewLate'
      BY <3>3, FewLatecomers, PTL
    <3>. QED
      BY <2>1, <3>2, <3>4 DEF FewLate
  <2>4. CASE MainStep \/ Crash \/ SignalStep \/ UNCHANGED vars
    <3>1. signal'.started = signal.started /\ signal'.victim = signal.victim
      BY <2>4, SignalKept
    <3>. QED
      BY <2>2, <3>1
  <2>. QED
    BY <1>1, <2>3, <2>4, NextByActor
<1>. QED
  BY <1>1, <1>2, NextByThread

(* With the structure and shutdown it is inductive.                        *)
LEMMA AlwaysLate == Spec => []LateCount
<1>1. Init => LateCount
  BY DEF Init, LateCount
<1>. QED
  BY <1>1, NextLate, AlwaysStructure, AlwaysShutdown, AlwaysHeard, PTL DEF Spec

(* After a signal that found the handlers started and hit no worker, a     *)
(* worker is late with one verdict at most; and none is without            *)
(* VerdictAfterClassification.                                             *)
THEOREM FewAreLate == Spec => []LateVerdicts
<1>1. ASSUME Structure, Shutdown, Heard, LateCount PROVE LateVerdicts
  <2>1. SUFFICES ASSUME NEW h \in Queue
                 PROVE  /\ ~After => late[h] = 0
                        /\ signal.started /\ ~IsWorker(signal.victim) => late[h] <= NumWorkers
    BY DEF LateVerdicts
  <2>2. late[h] \in Nat
    BY <1>1 DEF Structure, TypeOK
  <2>3. ~After => late[h] = 0
    BY <1>1, <2>2 DEF Heard
  <2>4. ASSUME signal.started, ~IsWorker(signal.victim) PROVE late[h] <= NumWorkers
    <3>1. NumWorkers \in Nat
      BY <1>1, <2>4, StartedConfig
    <3>2. Cardinality(Latecomers(h)) \in Nat
      BY <1>1, <3>1, FewLatecomers DEF FewLate
    <3>. QED
      BY <1>1, <2>2, <2>4, <3>1, <3>2 DEF LateCount
  <2>. QED
    BY <2>3, <2>4
<1>. QED
  BY <1>1, AlwaysStructure, AlwaysShutdown, AlwaysHeard, AlwaysLate, PTL
===============================================================================
