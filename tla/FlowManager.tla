----------------------------- MODULE FlowManager ------------------------------
(***************************************************************************)
(* FlowManager with worker threads: one thread that reads packets (the     *)
(* netfilter callback or the pcap loop) hands them to NumWorkers worker    *)
(* threads through bounded single-producer queues; all of them share the   *)
(* table of flows under _flowsMutex, and share the flows themselves under  *)
(* nothing at all.  A step is a stretch of code between two accesses to    *)
(* something another thread writes.                                        *)
(*                                                                         *)
(* A packet is named by its position in `packets', a flow object by its    *)
(* position in `flows'; 0 is no packet and no flow.  A key stands for the  *)
(* 32-bit flow hash, which is what the table is indexed by.                *)
(***************************************************************************)
EXTENDS Integers, Sequences, FiniteSets, FlowStates

CONSTANTS
  Key,                       \* flow hashes
  UdpKey,                    \* those whose packets are UDP
  NumWorkers,                \* CommonConfig::workerThreadsPerQueue
  QueueSize,                 \* CommonConfig::workerThreadQueueSize
  UdpFlowTimeout, TcpFlowTimeout, TcpFlowCloseWaitTimeout,
  Traffic,                   \* the packets that may arrive: [key, kind, side]
  MaxPackets, MaxClock,      \* bounds: packets read, seconds that pass
  CanShutdown,               \* shutdown() may be called (netfilter)
  CanFinish,                 \* finished() may be called (pcap_classifier)
  MayClassify                \* a data packet may classify its flow

ASSUME ConfigAssumption ==
  /\ NumWorkers \in Nat \ {0}
  /\ QueueSize \in Nat \ {0}
  /\ UdpFlowTimeout \in Nat /\ TcpFlowTimeout \in Nat
  /\ TcpFlowCloseWaitTimeout \in Nat
  /\ MaxPackets \in Nat /\ MaxClock \in Nat
  /\ {CanShutdown, CanFinish, MayClassify} \subseteq BOOLEAN

ASSUME TrafficAssumption ==
  /\ UdpKey \subseteq Key
  /\ Traffic \subseteq [key : Key, kind : Kind, side : Side]
  /\ \A s \in Traffic : s.kind = "udp" <=> s.key \in UdpKey

Worker == 0 .. NumWorkers - 1
Reader == -1
Thread == Worker \cup {Reader}
NoThread == -2

VARIABLES
  packets,       \* every packet read so far, with the verdict it was given
  queue,         \* _threadQueues
  flows,         \* every Flow constructed so far
  table,         \* _flows
  lock,          \* the thread that holds _flowsMutex, or NoThread
  shutdown,      \* _shutdown
  currentQueue,  \* _currentQueue
  pc,            \* where each thread is
  pkt,           \* the packet a thread owns
  flow,          \* the flow it is working on
  seen           \* what it read of that flow

shared == <<packets, queue, flows, table, lock, shutdown, currentQueue>>
local  == <<pc, pkt, flow, seen>>
vars   == <<packets, queue, flows, table, lock, shutdown, currentQueue,
            pc, pkt, flow, seen>>

ReaderPc == {"idle", "get", "replace", "inc", "push",
             "wait_empty", "finish", "finish_flow", "closing", "join", "done"}
WorkerPc == {"loop", "to_wait", "waiting", "get", "replace", "dec", "arrive",
             "establish", "add", "check", "notify", "notified", "delete", "exited"}
Verdict  == {"none", "accept", "drop"}

NothingSeen == [state |-> "NEW", pktCount |-> 0, overall |-> 0, classified |-> FALSE]

Init ==
  /\ packets = << >>
  /\ queue = [w \in Worker |-> << >>]
  /\ flows = << >>
  /\ table = [k \in Key |-> 0]
  /\ lock = NoThread
  /\ shutdown = FALSE
  /\ currentQueue = 0
  /\ pc = [t \in Thread |-> IF t = Reader THEN "idle" ELSE "loop"]
  /\ pkt = [t \in Thread |-> 0]
  /\ flow = [t \in Thread |-> 0]
  /\ seen = [t \in Thread |-> NothingSeen]

-------------------------------------------------------------------------------
(* Helpers *)

Goto(t, from, to) == pc[t] = from /\ pc' = [pc EXCEPT ![t] = to]

Clock == IF packets = << >> THEN 0 ELSE packets[Len(packets)].ts

(* Variants named Bad... are mistakes the code might contain and does not; *)
(* no action uses them.  Put in the place of the definition that follows,  *)
(* each of them breaks a property.                                         *)
BadDispose(t, verdict) ==               \* an early return that skips the verdict
  /\ UNCHANGED packets
  /\ pkt' = [pkt EXCEPT ![t] = 0]

(* IPv4Packet::setVerdict or dropPkt, and the delete that follows. *)
Dispose(t, verdict) ==
  /\ packets' = [packets EXCEPT ![pkt[t]].verdict = verdict]
  /\ pkt' = [pkt EXCEPT ![t] = 0]

(* Flow::Flow(packet) *)
NewFlow(p, tq) ==
  [key |-> p.key, orig |-> p.side, state |-> "NEW", count |-> 0, pktCount |-> 0,
   overall |-> 0, last |-> p.ts, tq |-> tq, classified |-> FALSE,
   finReports |-> 0, clsReports |-> 0]

BadHavePktsInQueue(f) == flows[f].count >= 0    \* off by one
HavePktsInQueue(f) == flows[f].count > 0
IncPktsInQueue(f)  == [flows EXCEPT ![f].count = @ + 1]
BadDecPktsInQueue(f) ==                 \* stops at zero
  [flows EXCEPT ![f].count = IF @ > 0 THEN @ - 1 ELSE @]
DecPktsInQueue(f)  == [flows EXCEPT ![f].count = @ - 1]

(* The tests of getFlow(packet) on a flow found in the table.  In the one  *)
(* for an idle TCP flow the comparison is outside the parentheses: it      *)
(* compares the truth value of "no packets queued and some time passed",   *)
(* 0 or 1, with the timeout.                                               *)
UdpTimedOut(f, p) ==
  p.kind = "udp" /\ ~HavePktsInQueue(f) /\ p.ts - flows[f].last > UdpFlowTimeout

TcpTimedOut(f, p) ==
  LET idle == IF ~HavePktsInQueue(f) /\ p.ts # flows[f].last THEN 1 ELSE 0
  IN  p.kind # "udp" /\ idle > TcpFlowTimeout

TcpCloseWaitOver(f, p) ==
  /\ p.kind # "udp" /\ flows[f].state \in Closed
  /\ ~HavePktsInQueue(f)
  /\ p.ts - flows[f].last > TcpFlowCloseWaitTimeout

Stale(f, p) == UdpTimedOut(f, p) \/ TcpTimedOut(f, p) \/ TcpCloseWaitOver(f, p)

(* notifyFlowFinished calls the observers unless they were called already  *)
(* or the flow is too short; then, or instead, it marks the flow.          *)
TooShort(f) ==
  \/ flows[f].pktCount = 0
  \/ flows[f].overall < (IF flows[f].key \in UdpKey THEN 2 ELSE 3)
Reportable(f) == flows[f].state # "FINISHED_NOTIFIED" /\ ~TooShort(f)
ReportFinished(f) == [flows EXCEPT ![f].finReports = @ + 1]
BadMarkNotified(f) == [flows EXCEPT ![f].state = "FINISHED"]
MarkNotified(f)   == [flows EXCEPT ![f].state = "FINISHED_NOTIFIED"]

-------------------------------------------------------------------------------
(* The reader: FlowManager::addPacket *)

(* After shutdown, the return after setVerdict and delete is missing. *)
BadReceive(shape, ts) ==
  /\ pc[Reader] = "idle" /\ Len(packets) < MaxPackets
  /\ packets' = Append(packets,
       [key |-> shape.key, kind |-> shape.kind, side |-> shape.side, ts |-> ts,
        verdict |-> IF shutdown THEN "accept" ELSE "none"])
  /\ pc' = [pc EXCEPT ![Reader] = "get"]
  /\ pkt' = [pkt EXCEPT ![Reader] = Len(packets) + 1]
  /\ UNCHANGED <<queue, flows, table, lock, shutdown, currentQueue, flow, seen>>

(* A packet is read.  After shutdown it is accepted on the spot. *)
Receive(shape, ts) ==
  /\ pc[Reader] = "idle" /\ Len(packets) < MaxPackets
  /\ packets' = Append(packets,
       [key |-> shape.key, kind |-> shape.kind, side |-> shape.side, ts |-> ts,
        verdict |-> IF shutdown THEN "accept" ELSE "none"])
  /\ IF shutdown THEN UNCHANGED <<pc, pkt>>
     ELSE /\ pc' = [pc EXCEPT ![Reader] = "get"]
          /\ pkt' = [pkt EXCEPT ![Reader] = Len(packets) + 1]
  /\ UNCHANGED <<queue, flows, table, lock, shutdown, currentQueue, flow, seen>>

(* incPktsInQueue, after the mutex was released. *)
Inc ==
  /\ Goto(Reader, "inc", "push")
  /\ flows' = IncPktsInQueue(flow[Reader])
  /\ UNCHANGED <<packets, queue, table, lock, shutdown, currentQueue, pkt, flow, seen>>

(* The queue whose turn it is when the reader makes a flow, and the queue  *)
(* a packet goes to: that of its flow.                                     *)
BadNextQueue == IF currentQueue > NumWorkers THEN 0 ELSE currentQueue
NextQueue == IF currentQueue >= NumWorkers THEN 0 ELSE currentQueue
PushQueue == flows[flow[Reader]].tq

(* The push succeeds and one waiting worker is woken. *)
PushOk ==
  LET q == PushQueue IN
  /\ pc[Reader] = "push"
  /\ Len(queue[q]) < QueueSize
  /\ queue' = [queue EXCEPT ![q] = Append(@, pkt[Reader])]
  /\ pc' = [pc EXCEPT ![Reader] = "idle",
                      ![q] = IF @ = "waiting" THEN "loop" ELSE @]
  /\ pkt' = [pkt EXCEPT ![Reader] = 0]
  /\ flow' = [flow EXCEPT ![Reader] = 0]
  /\ UNCHANGED <<packets, flows, table, lock, shutdown, currentQueue, seen>>

BadPushFull ==                          \* the packet stays counted
  /\ Goto(Reader, "push", "idle")
  /\ Len(queue[PushQueue]) >= QueueSize
  /\ Dispose(Reader, "drop")
  /\ flow' = [flow EXCEPT ![Reader] = 0]
  /\ UNCHANGED <<queue, flows, table, lock, shutdown, currentQueue, seen>>

(* The queue is full: the packet is dropped. *)
PushFull ==
  /\ Goto(Reader, "push", "idle")
  /\ Len(queue[PushQueue]) >= QueueSize
  /\ flows' = DecPktsInQueue(flow[Reader])
  /\ Dispose(Reader, "drop")
  /\ flow' = [flow EXCEPT ![Reader] = 0]
  /\ UNCHANGED <<queue, table, lock, shutdown, currentQueue, seen>>

-------------------------------------------------------------------------------
(* getFlow(packet), by the reader and by the workers, under _flowsMutex *)

AfterGet(t) == IF t = Reader THEN "inc" ELSE "dec"

(* Insert a new flow for t's packet; fs is `flows' as left so far.  A flow *)
(* made by a worker stays on it, the others go round the queues.           *)
InsertFlow(t, fs) ==
  LET p == packets[pkt[t]]
  IN  /\ flows' = Append(fs, NewFlow(p, IF t = Reader THEN NextQueue ELSE t))
      /\ table' = [table EXCEPT ![p.key] = Len(fs) + 1]
      /\ flow' = [flow EXCEPT ![t] = Len(fs) + 1]
      /\ currentQueue' = IF t = Reader THEN NextQueue + 1 ELSE currentQueue

GetFlowNew(t) ==
  /\ lock = NoThread /\ Goto(t, "get", AfterGet(t))
  /\ table[packets[pkt[t]].key] = 0
  /\ InsertFlow(t, flows)
  /\ UNCHANGED <<packets, queue, lock, shutdown, pkt, seen>>

GetFlowFound(t) ==
  LET f == table[packets[pkt[t]].key] IN
  /\ lock = NoThread /\ Goto(t, "get", AfterGet(t))
  /\ f # 0 /\ ~Stale(f, packets[pkt[t]])
  /\ flow' = [flow EXCEPT ![t] = f]
  /\ UNCHANGED <<packets, queue, flows, table, lock, shutdown, currentQueue, pkt, seen>>

(* The flow found is stale and there is nothing to report. *)
GetFlowReplaceQuietly(t) ==
  LET f == table[packets[pkt[t]].key] IN
  /\ lock = NoThread /\ Goto(t, "get", AfterGet(t))
  /\ f # 0 /\ Stale(f, packets[pkt[t]]) /\ ~Reportable(f)
  /\ InsertFlow(t, MarkNotified(f))
  /\ UNCHANGED <<packets, queue, lock, shutdown, pkt, seen>>

(* The flow found is stale: its observers run with the mutex held. *)
GetFlowReport(t) ==
  LET f == table[packets[pkt[t]].key] IN
  /\ lock = NoThread /\ lock' = t /\ Goto(t, "get", "replace")
  /\ f # 0 /\ Stale(f, packets[pkt[t]]) /\ Reportable(f)
  /\ flows' = ReportFinished(f)
  /\ flow' = [flow EXCEPT ![t] = f]
  /\ UNCHANGED <<packets, queue, table, shutdown, currentQueue, pkt, seen>>

GetFlowReplace(t) ==
  /\ Goto(t, "replace", AfterGet(t)) /\ lock' = NoThread
  /\ InsertFlow(t, MarkNotified(flow[t]))
  /\ UNCHANGED <<packets, queue, shutdown, pkt, seen>>

GetFlow(t) ==
  \/ GetFlowNew(t) \/ GetFlowFound(t) \/ GetFlowReplaceQuietly(t)
  \/ GetFlowReport(t) \/ GetFlowReplace(t)

-------------------------------------------------------------------------------
(* A worker: processPackets and ThreadWaiter::wait *)

Pop(w) ==
  /\ ~shutdown /\ queue[w] # << >> /\ Goto(w, "loop", "get")
  /\ pkt' = [pkt EXCEPT ![w] = Head(queue[w])]
  /\ queue' = [queue EXCEPT ![w] = Tail(@)]
  /\ UNCHANGED <<packets, flows, table, lock, shutdown, currentQueue, flow, seen>>

FindEmpty(w) ==
  /\ ~shutdown /\ queue[w] = << >> /\ Goto(w, "loop", "to_wait")
  /\ UNCHANGED <<shared, pkt, flow, seen>>

(* A notify_one between FindEmpty and BeginWait wakes nobody. *)
BeginWait(w) ==
  /\ Goto(w, "to_wait", "waiting")
  /\ UNCHANGED <<shared, pkt, flow, seen>>

BadWaitTimeout(w) == FALSE              \* wait where the code has wait_for

(* wait_for gives up after ten milliseconds. *)
WaitTimeout(w) ==
  /\ Goto(w, "waiting", "loop")
  /\ UNCHANGED <<shared, pkt, flow, seen>>

(* What is still queued stays queued. *)
Exit(w) ==
  /\ shutdown /\ Goto(w, "loop", "exited")
  /\ UNCHANGED <<shared, pkt, flow, seen>>

-------------------------------------------------------------------------------
(* processPacket, after getFlow; nothing here holds the mutex but the end *)

Dec(w) ==
  /\ Goto(w, "dec", "arrive")
  /\ seen' = [seen EXCEPT ![w].classified = flows[flow[w]].classified]
  /\ flows' = DecPktsInQueue(flow[w])
  /\ UNCHANGED <<packets, queue, table, lock, shutdown, currentQueue, pkt, flow>>

(* Flow::addPacket reads the state upon arrival and the counters ... *)
Arrive(w) ==
  LET f == flows[flow[w]] IN
  /\ Goto(w, "arrive", IF f.state = "NEW" THEN "establish" ELSE "add")
  /\ seen' = [seen EXCEPT ![w].state = f.state, ![w].pktCount = f.pktCount,
                          ![w].overall = f.overall]
  /\ UNCHANGED <<shared, pkt, flow>>

(* ... opens a flow that was new, even if its packet closes it next ...    *)
Establish(w) ==
  /\ Goto(w, "establish", "add")
  /\ flows' = [flows EXCEPT ![flow[w]].state = "ESTABLISHING"]
  /\ UNCHANGED <<packets, queue, table, lock, shutdown, currentQueue, pkt, flow, seen>>

(* ... and later writes what it computed from them.                        *)
AfterPacket(f, s, p, overall, pktCount, classified) ==
  LET dir == Direction(f.orig, p.side) IN
  [f EXCEPT !.overall = overall, !.pktCount = pktCount, !.classified = classified,
            !.last = IF CountsAsData(s.state, p.kind) THEN p.ts ELSE @,
            !.state = IF AssignsState(s.state, p.kind, dir)
                      THEN StateAfter(s.state, p.kind, dir) ELSE @]

(* An unlocked increment may undo one that another thread made meanwhile.  *)
AddPacket(w) ==
  LET p == packets[pkt[w]]
      f == flows[flow[w]]
      s == seen[w]
      isData == CountsAsData(s.state, p.kind)
  IN
  /\ Goto(w, "add", "check")
  /\ \E overall \in {f.overall + 1, s.overall + 1},
        pktCount \in IF isData THEN {f.pktCount + 1, s.pktCount + 1} ELSE {f.pktCount},
        classified \in IF isData /\ MayClassify THEN {f.classified, TRUE}
                       ELSE {f.classified} :
       flows' = [flows EXCEPT ![flow[w]] =
                   AfterPacket(@, s, p, overall, pktCount, classified)]
  /\ Dispose(w, "accept")
  /\ UNCHANGED <<queue, table, lock, shutdown, currentQueue, flow, seen>>

(* Release the flow and go back to the loop, forgetting what was read. *)
BackToLoop(w, from) ==
  /\ Goto(w, from, "loop")
  /\ flow' = [flow EXCEPT ![w] = 0]
  /\ seen' = [seen EXCEPT ![w] = NothingSeen]

(* notifyFlowClassified if this packet classified the flow, then see       *)
(* whether the flow is over.                                               *)
BadReportClassified(w) ==               \* not compared with the earlier value
  flows' = IF flows[flow[w]].classified
           THEN [flows EXCEPT ![flow[w]].clsReports = @ + 1] ELSE flows
ReportClassified(w) ==
  LET f == flow[w] IN
  flows' = IF flows[f].classified /\ ~seen[w].classified
           THEN [flows EXCEPT ![f].clsReports = @ + 1] ELSE flows

BadOver(w) == flows[flow[w]].state = "FINISHED"   \* the second branch is missing
Over(w) == flows[flow[w]].state \in Closed

CheckOpen(w) ==
  /\ BackToLoop(w, "check") /\ ~Over(w)
  /\ ReportClassified(w)
  /\ UNCHANGED <<packets, queue, table, lock, shutdown, currentQueue, pkt>>

CheckClosed(w) ==
  /\ pc[w] = "check" /\ Over(w)
  /\ ReportClassified(w)
  /\ pc' = [pc EXCEPT ![w] = IF flows[flow[w]].state = "FINISHED" THEN "notify"
                             ELSE "delete"]
  /\ UNCHANGED <<packets, queue, table, lock, shutdown, currentQueue, pkt, flow, seen>>

NotifyQuietly(w) ==
  /\ Goto(w, "notify", "delete") /\ ~Reportable(flow[w])
  /\ flows' = MarkNotified(flow[w])
  /\ UNCHANGED <<packets, queue, table, lock, shutdown, currentQueue, pkt, flow, seen>>

NotifyReport(w) ==
  /\ Goto(w, "notify", "notified") /\ Reportable(flow[w])
  /\ flows' = ReportFinished(flow[w])
  /\ UNCHANGED <<packets, queue, table, lock, shutdown, currentQueue, pkt, flow, seen>>

NotifyMark(w) ==
  /\ Goto(w, "notified", "delete")
  /\ flows' = MarkNotified(flow[w])
  /\ UNCHANGED <<packets, queue, table, lock, shutdown, currentQueue, pkt, flow, seen>>

(* deleteFlow(flow) erases by hash, whichever flow is there by now. *)
DeleteFlow(w) ==
  LET f == flow[w] IN
  /\ lock = NoThread /\ BackToLoop(w, "delete")
  /\ IF HavePktsInQueue(f)
     THEN flows' = MarkNotified(f) /\ UNCHANGED table
     ELSE table' = [table EXCEPT ![flows[f].key] = 0] /\ UNCHANGED flows
  /\ UNCHANGED <<packets, queue, lock, shutdown, currentQueue, pkt>>

ProcessPacket(w) ==
  \/ Dec(w) \/ Arrive(w) \/ Establish(w) \/ AddPacket(w) \/ CheckOpen(w) \/ CheckClosed(w)
  \/ NotifyQuietly(w) \/ NotifyReport(w) \/ NotifyMark(w) \/ DeleteFlow(w)

-------------------------------------------------------------------------------
(* finished(), called by the reader after its last packet *)

CallFinished ==
  /\ CanFinish /\ Goto(Reader, "idle", "wait_empty")
  /\ UNCHANGED <<shared, pkt, flow, seen>>

(* The queues are empty; the mutex is taken for the whole of the loop. *)
LockTable ==
  /\ \A w \in Worker : queue[w] = << >>
  /\ lock = NoThread /\ lock' = Reader /\ Goto(Reader, "wait_empty", "finish")
  /\ UNCHANGED <<packets, queue, flows, table, shutdown, currentQueue, pkt, flow, seen>>

(* One turn of the loop over the table, in no particular order: it spins,  *)
(* with the mutex held, while the flow has packets to process.             *)
FinishFlowQuietly(k) ==
  LET f == table[k] IN
  /\ pc[Reader] = "finish" /\ f # 0 /\ ~HavePktsInQueue(f) /\ ~Reportable(f)
  /\ flows' = MarkNotified(f)
  /\ table' = [table EXCEPT ![k] = 0]
  /\ UNCHANGED <<packets, queue, lock, shutdown, currentQueue, local>>

FinishFlowReport(k) ==
  LET f == table[k] IN
  /\ Goto(Reader, "finish", "finish_flow")
  /\ f # 0 /\ ~HavePktsInQueue(f) /\ Reportable(f)
  /\ flows' = ReportFinished(f)
  /\ flow' = [flow EXCEPT ![Reader] = f]
  /\ UNCHANGED <<packets, queue, table, lock, shutdown, currentQueue, pkt, seen>>

FinishFlowErase ==
  /\ Goto(Reader, "finish_flow", "finish")
  /\ flows' = MarkNotified(flow[Reader])
  /\ table' = [table EXCEPT ![flows[flow[Reader]].key] = 0]
  /\ flow' = [flow EXCEPT ![Reader] = 0]
  /\ UNCHANGED <<packets, queue, lock, shutdown, currentQueue, pkt, seen>>

UnlockTable ==
  /\ Goto(Reader, "finish", "closing") /\ lock' = NoThread
  /\ \A k \in Key : table[k] = 0
  /\ UNCHANGED <<packets, queue, flows, table, shutdown, currentQueue, pkt, flow, seen>>

FinishFlow ==
  \/ \E k \in Key : FinishFlowQuietly(k) \/ FinishFlowReport(k)
  \/ FinishFlowErase

-------------------------------------------------------------------------------
(* shutdown(), called by the signal handler, and ~FlowManager() *)

Shutdown ==
  /\ CanShutdown /\ ~shutdown /\ shutdown' = TRUE
  /\ UNCHANGED <<packets, queue, flows, table, lock, currentQueue, local>>

(* The destructor runs when the reader is done with reading. *)
Destroy ==
  /\ pc[Reader] = "closing" \/ (pc[Reader] = "idle" /\ shutdown)
  /\ shutdown' = TRUE /\ pc' = [pc EXCEPT ![Reader] = "join"]
  /\ UNCHANGED <<packets, queue, flows, table, lock, currentQueue, pkt, flow, seen>>

(* The workers are joined and the queues deleted: what a queue held is     *)
(* lost without a verdict, since a queue of pointers frees no packet.      *)
Join ==
  /\ \A w \in Worker : pc[w] = "exited"
  /\ Goto(Reader, "join", "done")
  /\ queue' = [w \in Worker |-> << >>]
  /\ UNCHANGED <<packets, flows, table, lock, shutdown, currentQueue, pkt, flow, seen>>

-------------------------------------------------------------------------------
ReaderStep ==
  \/ GetFlow(Reader) \/ Inc \/ PushOk \/ PushFull
  \/ LockTable \/ FinishFlow \/ UnlockTable \/ Destroy \/ Join

WorkerStep(w) ==
  \/ Pop(w) \/ FindEmpty(w) \/ BeginWait(w) \/ WaitTimeout(w) \/ Exit(w)
  \/ GetFlow(w) \/ ProcessPacket(w)

Environment ==
  \/ \E shape \in Traffic, ts \in Clock .. MaxClock : Receive(shape, ts)
  \/ CallFinished
  \/ Shutdown

Next == Environment \/ ReaderStep \/ \E w \in Worker : WorkerStep(w)

Spec == Init /\ [][Next]_vars

(* Every thread that can take a step takes one in the end.  Packets need   *)
(* not arrive, and nobody needs to call finished() or shutdown().          *)
Fairness == WF_vars(ReaderStep) /\ \A w \in Worker : WF_vars(WorkerStep(w))

FairSpec == Spec /\ Fairness

-------------------------------------------------------------------------------
(* Properties *)

FlowRecord ==
  [key : Key, orig : Side, state : State, count : Int, pktCount : Nat,
   overall : Nat, last : Nat, tq : Worker, classified : BOOLEAN,
   finReports : Nat, clsReports : Nat]

SeenRecord == [state : State, pktCount : Nat, overall : Nat, classified : BOOLEAN]

PacketRecord == [key : Key, kind : Kind, side : Side, ts : Nat, verdict : Verdict]

(* Every variable has its type; a thread that is somewhere in the handling *)
(* of a packet or of a flow has one.                                       *)
TypeOK ==
  /\ packets \in Seq(PacketRecord)
  /\ queue \in [Worker -> Seq(DOMAIN packets)]
  /\ flows \in Seq(FlowRecord)
  /\ table \in [Key -> {0} \cup DOMAIN flows]
  /\ lock \in Thread \cup {NoThread}
  /\ shutdown \in BOOLEAN
  /\ currentQueue \in 0 .. NumWorkers
  /\ pc \in [Thread -> ReaderPc \cup WorkerPc]
  /\ pc[Reader] \in ReaderPc /\ \A w \in Worker : pc[w] \in WorkerPc
  /\ pkt \in [Thread -> {0} \cup DOMAIN packets]
  /\ flow \in [Thread -> {0} \cup DOMAIN flows]
  /\ seen \in [Thread -> SeenRecord]
  /\ \A t \in Thread :
       /\ pkt[t] # 0 <=> pc[t] \in {"get", "replace", "inc", "push",
                                    "dec", "arrive", "establish", "add"}
       /\ flow[t] # 0 <=> pc[t] \in {"replace", "inc", "push", "finish_flow",
                                     "dec", "arrive", "establish", "add", "check",
                                     "notify", "notified", "delete"}

(* Until the manager is destroyed, a packet that has no verdict yet is in  *)
(* exactly one place, a queue slot or the hands of one thread, and one     *)
(* that has a verdict (and so is deleted) is in none: addPacket,           *)
(* processPackets and Flow::addPacket lose no packet, free none twice and  *)
(* use none after its delete, whatever the interleaving of the threads and *)
(* whether or not the queues overflow.  The destructor loses those that    *)
(* are still queued (AllDecidedAtEnd), and frees none of them.             *)
Destroyed == pc[Reader] = "done"
Open(p)   == packets[p].verdict = "none"
Held(p)   == \E t \in Thread : pkt[t] = p
Queued(p) == \E w \in Worker : \E i \in DOMAIN queue[w] : queue[w][i] = p

NothingLost ==
  ~Destroyed => \A p \in DOMAIN packets : Open(p) => Held(p) \/ Queued(p)
NothingFreedInUse == \A p \in DOMAIN packets : Held(p) \/ Queued(p) => Open(p)
NothingShared ==
  /\ \A t, u \in Thread : pkt[t] = pkt[u] /\ pkt[t] # 0 => t = u
  /\ \A w, v \in Worker : \A i \in DOMAIN queue[w], j \in DOMAIN queue[v] :
       queue[w][i] = queue[v][j] => w = v /\ i = j
  /\ \A p \in DOMAIN packets : ~(Held(p) /\ Queued(p))

OnePlace == NothingLost /\ NothingFreedInUse /\ NothingShared

(* The packets counted in some _pktsInQueue: those between incPktsInQueue  *)
(* and decPktsInQueue.                                                     *)
Counted ==
  {p \in DOMAIN packets :
     \/ Queued(p)
     \/ \E t \in Thread : pkt[t] = p /\ pc[t] \in (IF t = Reader THEN {"push"}
                                                  ELSE {"get", "replace", "dec"})}

(* incPktsInQueue and decPktsInQueue may hit different flow objects, but   *)
(* over all of them the counters add up to the packets under way: the sum  *)
(* is back at zero whenever nothing is, which is what finished() waits for.*)
(* The destructor takes no packet off the counters that it loses.          *)
TotalCount ==
  LET sum[n \in 0 .. Len(flows)] ==
        IF n = 0 THEN 0 ELSE sum[n - 1] + flows[n].count
  IN  sum[Len(flows)]
CountsAddUp == ~Destroyed => TotalCount = Cardinality(Counted)

(* getFlow has replaced no UDP flow so far. *)
NoUdpFlowReplaced ==
  \A f, g \in DOMAIN flows :
    flows[f].key = flows[g].key /\ flows[f].key \in UdpKey => f = g

(* Until a UDP flow is replaced, the counter of each is exact: the flow in *)
(* the table has counted just the packets of its key that are under way,   *)
(* from incPktsInQueue by the reader to decPktsInQueue by a worker.  So    *)
(* getFlow times out no UDP flow that has packets under way, and finished  *)
(* waits for just those packets.                                           *)
UdpCountExact ==
  NoUdpFlowReplaced /\ ~Destroyed =>
    \A f \in DOMAIN flows : flows[f].key \in UdpKey =>
      flows[f].count = Cardinality({p \in Counted : packets[p].key = flows[f].key})

(* Until a UDP flow is replaced, each is handled by the worker it was      *)
(* assigned to and no other (config_netfilter.yaml:27): its packets wait   *)
(* in that worker's queue and only that worker touches the flow.           *)
UdpOneWorker ==
  NoUdpFlowReplaced =>
    /\ \A w \in Worker : flow[w] # 0 /\ flows[flow[w]].key \in UdpKey
                         => flows[flow[w]].tq = w
    /\ \A w \in Worker : \A i \in DOMAIN queue[w] :
         LET k == packets[queue[w][i]].key IN
         k \in UdpKey => table[k] # 0 /\ flows[table[k]].tq = w

(* Until a UDP flow is replaced, the observers hear at most once that it   *)
(* was classified, and never of a flow that is not: processPacket compares *)
(* two unlocked reads of _flowClassified around addPacket.                 *)
UdpClassifiedOnce ==
  NoUdpFlowReplaced =>
    \A f \in DOMAIN flows : flows[f].key \in UdpKey =>
      flows[f].clsReports <= IF flows[f].classified THEN 1 ELSE 0

(* The observers hear that a UDP flow is finished at most once, and when   *)
(* they have, the flow is out of the table or being taken out by a thread  *)
(* that holds the mutex: getFlow and finished() do not report one flow     *)
(* both, although a worker may be in the flow and overwrite its mark.      *)
BeingRemoved(f) ==
  \E t \in Thread : flow[t] = f /\ lock = t /\ pc[t] \in {"replace", "finish_flow"}
UdpReportedOnce ==
  \A f \in DOMAIN flows : flows[f].key \in UdpKey =>
    /\ flows[f].finReports <= 1
    /\ flows[f].finReports = 1 => table[flows[f].key] # f \/ BeingRemoved(f)

(* The packets under way with flow f's key that no thread handles in       *)
(* another flow: those are counted for f, or a worker will find f for them.*)
Elsewhere(p, f) ==
  \E t \in Thread : pkt[t] = p /\ pc[t] \in {"push", "dec"} /\ flow[t] # f
OnTheWay(f) ==
  {p \in Counted : packets[p].key = flows[f].key /\ ~Elsewhere(p, f)}
WorkersIn(f) ==
  {w \in Worker : flow[w] = f /\ pc[w] \in {"arrive", "establish", "add", "check",
                                          "notify", "notified", "delete"}}

(* A flow that is over stays in the table only while somebody is coming to *)
(* erase it, or if the queues overflowed: deleteFlow leaves it to packets  *)
(* on the way, and one of those may be the one that addPacket drops.       *)
ClosedInTable(k) == table[k] # 0 /\ flows[table[k]].state \in Closed
Dropped(k) == \E p \in DOMAIN packets : packets[p].key = k /\ packets[p].verdict = "drop"
ClosedFlowAwaited ==
  \A k \in Key : ClosedInTable(k) /\ ~Destroyed /\ ~Dropped(k) =>
    OnTheWay(table[k]) # {} \/ WorkersIn(table[k]) # {}

(* The packets and their verdicts are what PacketVerdicts allows.          *)
Verdicts == INSTANCE PacketVerdicts
              WITH decision <- [p \in DOMAIN packets |-> packets[p].verdict]
DecidesOnce == Verdicts!Spec

(* Every packet read gets its verdict while the manager runs: no wakeup of *)
(* a ThreadWaiter is lost for good and no thread waits for another for     *)
(* ever (addPacket, processPackets).                                       *)
EveryPacketDecided ==
  \A p \in 1 .. MaxPackets :
    (p \in DOMAIN packets /\ ~shutdown) ~>
      (shutdown \/ (p \in DOMAIN packets /\ ~Open(p)))

(* A flow that is over does not stay in the table: deleteFlow erases it or *)
(* leaves that to the packets still queued for it.  For queues that do not *)
(* overflow: the packet that was to erase the flow may be the one dropped. *)
ClosedFlowLeaves == \A k \in Key : ClosedInTable(k) ~> ~ClosedInTable(k)

-------------------------------------------------------------------------------
(* Statements of the repository that the threaded code does not keep       *)

(* finished() returns (FlowManager.h:140).                                 *)
FinishedReturns == pc[Reader] = "wait_empty" ~> pc[Reader] = "closing"

(* The thread a flow is assigned to handles all of its packets             *)
(* (config_netfilter.yaml:26-27): no two workers are in one flow at once.  *)
OneWorkerPerFlow ==
  \A w, v \in Worker : flow[w] # 0 /\ flow[w] = flow[v] => w = v

(* A flow with packets still to process is not deleted                     *)
(* (FlowManager.cpp:436): the counter of a deleted flow stays at zero.     *)
NoneDeletedWithPackets ==
  \A f \in DOMAIN flows : table[flows[f].key] # f => flows[f].count <= 0

(* Once the manager is destroyed, each packet has had its verdict set      *)
(* (IPv4.cpp:11).                                                          *)
AllDecidedAtEnd == pc[Reader] = "done" => \A p \in DOMAIN packets : ~Open(p)

(* No packet of p's key came within the timeout before p. *)
Silence(p, timeout) ==
  \A q \in 1 .. p - 1 : packets[q].key = packets[p].key
                        => packets[p].ts - packets[q].ts > timeout
ReaderGotFlow == pc[Reader] \in {"get", "replace"} /\ pc'[Reader] = "inc"

(* A TCP flow times out if no packets are seen for the time set            *)
(* (CommonConfig.h:44): a packet that comes later starts a new flow, when  *)
(* the old one has no packet left in a queue or in a worker's hands.       *)
IdleTcpTimesOut ==
  [][LET k == packets[pkt[Reader]].key IN
     ReaderGotFlow /\ k \notin UdpKey /\ Silence(pkt[Reader], TcpFlowTimeout)
       => \/ flow'[Reader] \notin DOMAIN flows
          \/ HavePktsInQueue(flow'[Reader])
          \/ \E w \in Worker : flow[w] = flow'[Reader]]_vars
===============================================================================
