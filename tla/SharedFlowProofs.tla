--------------------------- MODULE SharedFlowProofs ---------------------------
(***************************************************************************)
(* Theorems about the flows that the threads of FlowManager share: how     *)
(* often a UDP flow is reported, which worker handles it, what its counter *)
(* of queued packets counts, and who takes a closed flow out of the table, *)
(* for any number of workers, any queue size, any traffic and timeouts.    *)
(***************************************************************************)
EXTENDS FlowManagerProofs

-------------------------------------------------------------------------------
(* The invariants *)

IsUdp(f) == flows[f].key \in UdpKey

(* A thread works on a flow of its packet's key, and the table has each    *)
(* flow under its own key.                                                 *)
KeysAgree ==
  /\ \A p \in DOMAIN packets : packets[p].kind = "udp" <=> packets[p].key \in UdpKey
  /\ \A t \in Thread : pkt[t] # 0 /\ flow[t] # 0
                       => packets[pkt[t]].key = flows[flow[t]].key
  /\ \A k \in Key : table[k] # 0 => flows[table[k]].key = k

(* The code between the lock and the unlock of _flowsMutex runs with the   *)
(* mutex; finished() takes it once the queues are empty, and the reader    *)
(* fills none any more.                                                    *)
MutexHeld ==
  /\ \A t \in Thread : pc[t] = "replace" => lock = t
  /\ pc[Reader] \in {"finish", "finish_flow"}
       => lock = Reader /\ \A w \in Worker : queue[w] = << >>

(* No packet finishes a UDP flow, so no worker reports that one did.       *)
UdpStaysOpen ==
  /\ \A f \in DOMAIN flows : IsUdp(f) => flows[f].state # "FINISHED"
  /\ \A w \in Worker : pc[w] \in {"notify", "notified"} => ~IsUdp(flow[w])

(* finished() got to its loop over the table, with empty queues.           *)
Ending ==
  /\ pc[Reader] \in {"finish", "finish_flow", "closing", "join", "done"}
  /\ \A w \in Worker : queue[w] = << >>

(* Until a UDP flow is replaced, only finished() and the workers that      *)
(* still run by then mark one or take it out of the table.                 *)
UdpKept ==
  NoUdpFlowReplaced /\ ~Ending =>
    /\ \A f \in DOMAIN flows : IsUdp(f) =>
         flows[f].state # "FINISHED_NOTIFIED" /\ table[flows[f].key] # 0
    /\ \A w \in Worker : pc[w] = "delete" => ~IsUdp(flow[w])

(* Some flow of a key is assigned to a worker.                             *)
Assigned(k, w) == \E f \in DOMAIN flows : flows[f].key = k /\ flows[f].tq = w

(* Until a UDP flow is replaced, its packets are with its worker.          *)
UdpPacketsWithWorker ==
  NoUdpFlowReplaced =>
    /\ \A w \in Worker : \A i \in DOMAIN queue[w] :
         packets[queue[w][i]].key \in UdpKey => Assigned(packets[queue[w][i]].key, w)
    /\ \A w \in Worker : pkt[w] # 0 /\ packets[pkt[w]].key \in UdpKey
                         => Assigned(packets[pkt[w]].key, w)
    /\ \A w \in Worker : flow[w] # 0 /\ IsUdp(flow[w]) => flows[flow[w]].tq = w

(* A worker that read that its flow was not classified yet is the first to *)
(* report it.                                                              *)
UdpFirstReport ==
  NoUdpFlowReplaced =>
    \A w \in Worker :
      pc[w] \in {"arrive", "establish", "add", "check"} /\ IsUdp(flow[w]) /\ ~seen[w].classified
        => flows[flow[w]].clsReports = 0

-------------------------------------------------------------------------------
(* What a step does to the flows there are *)

SameIdentity == \A f \in DOMAIN flows :
  f \in DOMAIN flows' /\ flows'[f].key = flows[f].key /\ flows'[f].tq = flows[f].tq
SameCounts   == \A f \in DOMAIN flows : flows'[f].count = flows[f].count
SameStates   == \A f \in DOMAIN flows : flows'[f].state = flows[f].state
SameReports  == \A f \in DOMAIN flows : flows'[f].finReports = flows[f].finReports
SameClasses  == \A f \in DOMAIN flows :
  flows'[f].classified = flows[f].classified /\ flows'[f].clsReports = flows[f].clsReports

(* What the mark, the report and the count each change of a flow.          *)
LEMMA Marks ==
  ASSUME TypeOK, NEW f \in DOMAIN flows, flows' = MarkNotified(f)
  PROVE  /\ DOMAIN flows' = DOMAIN flows
         /\ SameIdentity /\ SameCounts /\ SameReports /\ SameClasses
         /\ \A g \in DOMAIN flows :
              flows'[g].state = IF g = f THEN "FINISHED_NOTIFIED" ELSE flows[g].state
<1>1. flows[f] \in FlowRecord
  BY ElementOfSeq, LenProperties DEF TypeOK
<1>. QED
  BY <1>1 DEF MarkNotified, FlowRecord, SameIdentity, SameCounts, SameReports, SameClasses

(* notifyFlowFinished reports one flow and leaves the rest of it.          *)
LEMMA Reports ==
  ASSUME TypeOK, NEW f \in DOMAIN flows, flows' = ReportFinished(f)
  PROVE  /\ DOMAIN flows' = DOMAIN flows
         /\ SameIdentity /\ SameCounts /\ SameStates /\ SameClasses
         /\ \A g \in DOMAIN flows :
              flows'[g].finReports = IF g = f THEN flows[g].finReports + 1 ELSE flows[g].finReports
<1>1. flows[f] \in FlowRecord
  BY ElementOfSeq, LenProperties DEF TypeOK
<1>. QED
  BY <1>1 DEF ReportFinished, FlowRecord, SameIdentity, SameCounts, SameStates, SameClasses

(* incPktsInQueue and decPktsInQueue move the counter of one flow.         *)
LEMMA Counts ==
  ASSUME TypeOK, NEW f \in DOMAIN flows, NEW d \in {1, -1},
         flows' = [flows EXCEPT ![f].count = @ + d]
  PROVE  /\ DOMAIN flows' = DOMAIN flows
         /\ SameIdentity /\ SameStates /\ SameReports /\ SameClasses
         /\ \A g \in DOMAIN flows :
              flows'[g].count = IF g = f THEN flows[g].count + d ELSE flows[g].count
<1>1. flows[f] \in FlowRecord
  BY ElementOfSeq, LenProperties DEF TypeOK
<1>. QED
  BY <1>1 DEF FlowRecord, SameIdentity, SameStates, SameReports, SameClasses

(* A worker opens the flow that its packet found new.                      *)
LEMMA Establishes ==
  ASSUME TypeOK, NEW w \in Worker, Establish(w)
  PROVE  /\ flow[w] \in DOMAIN flows /\ DOMAIN flows' = DOMAIN flows
         /\ SameIdentity /\ SameCounts /\ SameReports /\ SameClasses
         /\ \A g \in DOMAIN flows :
              flows'[g].state = IF g = flow[w] THEN "ESTABLISHING" ELSE flows[g].state
<1>1. flow[w] \in DOMAIN flows /\ flows[flow[w]] \in FlowRecord
  BY FlowOfThread DEF TypeOK, Establish, Goto, Thread
<1>2. flows' = [flows EXCEPT ![flow[w]].state = "ESTABLISHING"]
  BY DEF Establish
<1>. QED
  BY <1>1, <1>2 DEF FlowRecord, SameIdentity, SameCounts, SameReports, SameClasses

(* A step that assigns no flow leaves all of them as they are.             *)
LEMMA Same ==
  ASSUME flows' = flows
  PROVE  DOMAIN flows' = DOMAIN flows
         /\ SameIdentity /\ SameCounts /\ SameStates /\ SameReports /\ SameClasses
BY DEF SameIdentity, SameCounts, SameStates, SameReports, SameClasses

(* What Flow::addPacket and the report of a classification change.         *)
LEMMA Adds ==
  ASSUME TypeOK, NEW w \in Worker, AddPacket(w)
  PROVE  /\ flow[w] \in DOMAIN flows /\ DOMAIN flows' = DOMAIN flows
         /\ SameIdentity /\ SameCounts /\ SameReports
         /\ \A g \in DOMAIN flows :
              /\ flows'[g].clsReports = flows[g].clsReports
              /\ flows[g].classified => flows'[g].classified
              /\ LET p == packets[pkt[w]]
                     dir == Direction(flows[g].orig, p.side)
                     st == seen[w].state
                 IN  \/ flows'[g].state = flows[g].state
                     \/ /\ g = flow[w] /\ AssignsState(st, p.kind, dir)
                        /\ flows'[g].state = StateAfter(st, p.kind, dir)
<1>. DEFINE p == packets[pkt[w]]
            f == flow[w]
            s == seen[w]
            isData == CountsAsData(s.state, p.kind)
<1>1. f \in DOMAIN flows /\ flows[f] \in FlowRecord
  BY FlowOfThread DEF TypeOK, AddPacket, Goto, Thread
<1>2. PICK overall \in {flows[f].overall + 1, s.overall + 1},
           pktCount \in IF isData THEN {flows[f].pktCount + 1, s.pktCount + 1}
                        ELSE {flows[f].pktCount},
           classified \in IF isData /\ MayClassify THEN {flows[f].classified, TRUE}
                          ELSE {flows[f].classified} :
        flows' = [flows EXCEPT ![f] =
                    AfterPacket(flows[f], s, p, overall, pktCount, classified)]
  BY DEF AddPacket
<1>3. flows[f].classified => classified
  <2>1. classified = flows[f].classified \/ classified = TRUE
    BY <1>2, Zenon
  <2>. QED
    BY <2>1, Zenon
<1>. DEFINE dir == Direction(flows[f].orig, p.side)
            st  == IF AssignsState(s.state, p.kind, dir)
                   THEN StateAfter(s.state, p.kind, dir) ELSE flows[f].state
            lst == IF CountsAsData(s.state, p.kind) THEN p.ts ELSE flows[f].last
<1>4. AfterPacket(flows[f], s, p, overall, pktCount, classified) =
        [flows[f] EXCEPT !.overall = overall, !.pktCount = pktCount,
                  !.classified = classified, !.last = lst, !.state = st]
  BY DEF AfterPacket
<1>. HIDE DEF lst, isData
<1>5. flows' = [flows EXCEPT ![f] = [flows[f] EXCEPT !.overall = overall, !.pktCount = pktCount,
                  !.classified = classified, !.last = lst, !.state = st]]
  BY <1>2, <1>4
<1>. HIDE DEF st
<1>6. DOMAIN flows' = DOMAIN flows /\ \A g \in DOMAIN flows : g # f => flows'[g] = flows[g]
  BY <1>5
<1>7. /\ flows'[f].key = flows[f].key /\ flows'[f].tq = flows[f].tq
      /\ flows'[f].count = flows[f].count /\ flows'[f].finReports = flows[f].finReports
      /\ flows'[f].clsReports = flows[f].clsReports /\ flows'[f].classified = classified
      /\ flows'[f].state = st
  BY <1>1, <1>5 DEF FlowRecord
<1>. HIDE DEF f, p, s
<1>8. SameIdentity /\ SameCounts /\ SameReports
  BY <1>6, <1>7 DEF SameIdentity, SameCounts, SameReports
<1>9. ASSUME NEW g \in DOMAIN flows
      PROVE  flows'[g].clsReports = flows[g].clsReports /\ (flows[g].classified => flows'[g].classified)
  <2>1. CASE g = f
    BY <1>3, <1>7, <2>1, Zenon
  <2>2. CASE g # f
    BY <1>6, <2>2, Zenon
  <2>. QED
    BY <2>1, <2>2
<1>10. ASSUME NEW g \in DOMAIN flows
       PROVE  \/ flows'[g].state = flows[g].state
              \/ /\ g = f /\ AssignsState(s.state, p.kind, Direction(flows[g].orig, p.side))
                 /\ flows'[g].state = StateAfter(s.state, p.kind, Direction(flows[g].orig, p.side))
  BY <1>6, <1>7 DEF st
<1>. QED
  BY <1>1, <1>6, <1>8, <1>9, <1>10 DEF f, p, s

(* The tests after addPacket report a classification that is new.          *)
LEMMA Classifies ==
  ASSUME TypeOK, NEW w \in Worker, CheckOpen(w) \/ CheckClosed(w)
  PROVE  /\ flow[w] \in DOMAIN flows /\ DOMAIN flows' = DOMAIN flows
         /\ SameIdentity /\ SameCounts /\ SameStates /\ SameReports
         /\ \A g \in DOMAIN flows :
              /\ flows'[g].classified = flows[g].classified
              /\ flows'[g].clsReports =
                   IF g = flow[w] /\ flows[g].classified /\ ~seen[w].classified
                   THEN flows[g].clsReports + 1 ELSE flows[g].clsReports
<1>1. flow[w] \in DOMAIN flows /\ flows[flow[w]] \in FlowRecord
  BY FlowOfThread DEF TypeOK, CheckOpen, CheckClosed, BackToLoop, Goto, Thread
<1>2. ReportClassified(w)
  BY DEF CheckOpen, CheckClosed
<1>3. CASE flows[flow[w]].classified /\ ~seen[w].classified
  <2>1. flows' = [flows EXCEPT ![flow[w]].clsReports = @ + 1]
    BY <1>2, <1>3 DEF ReportClassified
  <2>. QED
    BY <1>1, <1>3, <2>1 DEF FlowRecord, SameIdentity, SameCounts, SameStates, SameReports
<1>4. CASE ~(flows[flow[w]].classified /\ ~seen[w].classified)
  <2>1. flows' = flows
    BY <1>2, <1>4 DEF ReportClassified
  <2>. QED
    BY <1>1, <1>4, <2>1, Same DEF SameIdentity, SameCounts, SameStates, SameReports
<1>. QED
  BY <1>3, <1>4

(* Thread t makes flow g for its packet, having marked flow m (0 is none). *)
Creates(t, g, m) ==
  /\ pkt[t] # 0 /\ pc[t] \in {"get", "replace"} /\ pc' = [pc EXCEPT ![t] = AfterGet(t)]
  /\ lock \in {NoThread, t} /\ lock' = NoThread
  /\ g \notin DOMAIN flows /\ g # 0 /\ DOMAIN flows' = DOMAIN flows \cup {g}
  /\ m \in DOMAIN flows \cup {0} /\ (m # 0 => flows[m].key = packets[pkt[t]].key)
  /\ m = 0 => table[packets[pkt[t]].key] = 0
  /\ SameIdentity /\ SameCounts /\ SameReports /\ SameClasses
  /\ \A f \in DOMAIN flows :
       flows'[f].state = IF f = m THEN "FINISHED_NOTIFIED" ELSE flows[f].state
  /\ flows'[g] = NewFlow(packets[pkt[t]], IF t = Reader THEN NextQueue ELSE t)
  /\ table' = [table EXCEPT ![packets[pkt[t]].key] = g]
  /\ flow' = [flow EXCEPT ![t] = g]
  /\ UNCHANGED <<packets, queue, shutdown, pkt, seen>>

(* An insertion after marking m, or nothing, is a creation.                *)
LEMMA InsertCreates ==
  ASSUME TypeOK, NEW t \in Thread, pkt[t] # 0, pc[t] \in {"get", "replace"},
         pc' = [pc EXCEPT ![t] = AfterGet(t)],
         lock \in {NoThread, t}, lock' = NoThread,
         UNCHANGED <<packets, queue, shutdown, pkt, seen>>,
         NEW m \in DOMAIN flows \cup {0}, m # 0 => flows[m].key = packets[pkt[t]].key,
         m = 0 => table[packets[pkt[t]].key] = 0,
         NEW fs \in Seq(FlowRecord), fs = IF m = 0 THEN flows ELSE MarkNotified(m),
         InsertFlow(t, fs)
  PROVE  \E g : Creates(t, g, m)
<1>. DEFINE p == packets[pkt[t]]
            tq == IF t = Reader THEN NextQueue ELSE t
            new == NewFlow(p, tq)
<1>. PICK g : g = Len(fs) + 1
  OBVIOUS
<1>1. p \in PacketRecord /\ 0 \notin DOMAIN flows
  BY PacketOfThread, ZeroIsNothing
<1>2. tq \in Worker
  BY ConfigAssumption DEF NextQueue, TypeOK, Worker, Thread
<1>3. new \in FlowRecord
  BY <1>1, <1>2 DEF NewFlow, FlowRecord, PacketRecord, State
<1>4. flows' = Append(fs, new) /\ table' = [table EXCEPT ![p.key] = g] /\ flow' = [flow EXCEPT ![t] = g]
  BY DEF InsertFlow
<1>5. DOMAIN fs = DOMAIN flows
  BY <1>1, NotifyFlow
<1>. HIDE DEF new
<1>6. /\ g \notin DOMAIN flows /\ g # 0 /\ DOMAIN flows' = DOMAIN flows \cup {g}
      /\ flows'[g] = new /\ \A f \in DOMAIN flows : flows'[f] = fs[f]
  <2>1. /\ g \in DOMAIN Append(fs, new) /\ DOMAIN Append(fs, new) = DOMAIN fs \cup {g}
        /\ g \notin DOMAIN fs /\ \A f \in DOMAIN fs : Append(fs, new)[f] = fs[f]
        /\ Append(fs, new)[g] = new /\ Len(fs) \in Nat
    BY <1>3, SeqAppend
  <2>. QED
    BY <1>4, <1>5, <2>1
<1>7. ASSUME NEW f \in DOMAIN flows
      PROVE  /\ fs[f].key = flows[f].key /\ fs[f].tq = flows[f].tq /\ fs[f].count = flows[f].count
             /\ fs[f].finReports = flows[f].finReports /\ fs[f].classified = flows[f].classified
             /\ fs[f].clsReports = flows[f].clsReports
             /\ fs[f].state = IF f = m THEN "FINISHED_NOTIFIED" ELSE flows[f].state
  <2>1. flows[f] \in FlowRecord
    BY ElementOfSeq, LenProperties DEF TypeOK
  <2>2. CASE m = 0
    BY <1>1, <2>2
  <2>3. CASE m # 0
    BY <2>1, <2>3 DEF MarkNotified, FlowRecord
  <2>. QED
    BY <2>2, <2>3
<1>8. SameIdentity /\ SameCounts /\ SameReports /\ SameClasses
  BY <1>6, <1>7 DEF SameIdentity, SameCounts, SameReports, SameClasses
<1>9. \A f \in DOMAIN flows : flows'[f].state = IF f = m THEN "FINISHED_NOTIFIED" ELSE flows[f].state
  BY <1>6, <1>7
<1>10. flows'[g] = NewFlow(packets[pkt[t]], IF t = Reader THEN NextQueue ELSE t)
  BY <1>6 DEF new
<1>. QED
  BY <1>4, <1>6, <1>8, <1>9, <1>10 DEF Creates

(* getFlow finds a flow, reports the one it found, or makes a new one.     *)
LEMMA GetFlowSteps ==
  ASSUME TypeOK, KeysAgree, MutexHeld, NEW t \in Thread, GetFlow(t)
  PROVE  GetFlowFound(t) \/ GetFlowReport(t) \/ \E g, m : Creates(t, g, m)
<1>1. pkt[t] # 0 /\ packets[pkt[t]].key \in Key
  <2>1. pc[t] \in {"get", "replace"}
    BY DEF GetFlow, GetFlowNew, GetFlowFound, GetFlowReplaceQuietly, GetFlowReport,
           GetFlowReplace, Goto
  <2>2. pkt[t] # 0
    BY <2>1 DEF TypeOK
  <2>. QED
    BY <2>2, PacketOfThread DEF PacketRecord
<1>2. flows \in Seq(FlowRecord) /\ 0 \notin DOMAIN flows
  BY ZeroIsNothing DEF TypeOK
<1>3. CASE GetFlowNew(t)
  <2>1. /\ pc[t] = "get" /\ pc' = [pc EXCEPT ![t] = AfterGet(t)] /\ lock = NoThread /\ lock' = NoThread
        /\ UNCHANGED <<packets, queue, shutdown, pkt, seen>> /\ InsertFlow(t, flows)
        /\ table[packets[pkt[t]].key] = 0
    BY <1>3 DEF GetFlowNew, Goto
  <2>2. \E g : Creates(t, g, 0)
    BY <1>1, <1>2, <2>1, InsertCreates
  <2>. QED
    BY <2>2
<1>4. CASE GetFlowReplaceQuietly(t)
  <2>. PICK m : m = table[packets[pkt[t]].key]
    OBVIOUS
  <2>1. /\ pc[t] = "get" /\ pc' = [pc EXCEPT ![t] = AfterGet(t)] /\ lock = NoThread /\ lock' = NoThread
        /\ UNCHANGED <<packets, queue, shutdown, pkt, seen>> /\ InsertFlow(t, MarkNotified(m))
        /\ m # 0
    BY <1>4 DEF GetFlowReplaceQuietly, Goto
  <2>2. m \in DOMAIN flows /\ flows[m].key = packets[pkt[t]].key
    BY <1>1, <2>1, FlowUnderKey DEF KeysAgree
  <2>3. MarkNotified(m) \in Seq(FlowRecord)
    BY <2>2, NotifyFlow
  <2>4. \E g : Creates(t, g, m)
    BY <1>1, <2>1, <2>2, <2>3, InsertCreates
  <2>. QED
    BY <2>4
<1>5. CASE GetFlowReplace(t)
  <2>. PICK m : m = flow[t]
    OBVIOUS
  <2>1. /\ pc[t] = "replace" /\ pc' = [pc EXCEPT ![t] = AfterGet(t)] /\ lock' = NoThread
        /\ UNCHANGED <<packets, queue, shutdown, pkt, seen>> /\ InsertFlow(t, MarkNotified(m))
    BY <1>5 DEF GetFlowReplace, Goto
  <2>2. lock = t
    BY <2>1 DEF MutexHeld
  <2>3. m # 0 /\ m \in DOMAIN flows /\ flows[m].key = packets[pkt[t]].key
    BY <1>1, <2>1, FlowOfThread DEF KeysAgree, TypeOK
  <2>4. MarkNotified(m) \in Seq(FlowRecord)
    BY <2>3, NotifyFlow
  <2>5. \E g : Creates(t, g, m)
    BY <1>1, <2>1, <2>2, <2>3, <2>4, InsertCreates
  <2>. QED
    BY <2>5
<1>. QED
  BY <1>3, <1>4, <1>5 DEF GetFlow

(* A step that moves thread t from a place without a packet or a flow to   *)
(* another, and nothing else but _shutdown; the last one ends the queues.  *)
Quiet(t) ==
  /\ UNCHANGED <<packets, flows, table, lock, pkt, flow, seen>>
  /\ queue' = queue \/ (t = Reader /\ Join)
  /\ \/ pc' = pc
     \/ \E x : /\ pc' = [pc EXCEPT ![t] = x]
               /\ IF t = Reader
                  THEN <<pc[t], x>> \in {<<"idle", "wait_empty">>, <<"idle", "join">>,
                                         <<"closing", "join">>, <<"join", "done">>}
                  ELSE /\ pc[t] \in {"loop", "to_wait", "waiting"}
                       /\ x \in {"loop", "to_wait", "waiting", "exited"}

(* The steps, with what is alike among them taken together.                *)
ReaderActs ==
  \/ \E shape \in Traffic, ts \in Clock .. MaxClock : Receive(shape, ts)
  \/ Inc \/ PushOk \/ PushFull \/ LockTable \/ UnlockTable
  \/ \E k \in Key : FinishFlowQuietly(k) \/ FinishFlowReport(k)
  \/ FinishFlowErase

WorkerActs(w) ==
  \/ Pop(w) \/ Dec(w) \/ Arrive(w) \/ Establish(w) \/ AddPacket(w)
  \/ CheckOpen(w) \/ CheckClosed(w)
  \/ NotifyQuietly(w) \/ NotifyReport(w) \/ NotifyMark(w) \/ DeleteFlow(w)

Gets(t) == GetFlowFound(t) \/ GetFlowReport(t) \/ \E g, m : Creates(t, g, m)

(* Every step is one of the reader on its packet, of a worker on its       *)
(* packet, a getFlow, or none of these.                                    *)
LEMMA Steps ==
  ASSUME TypeOK, KeysAgree, MutexHeld, [Next]_vars
  PROVE  \/ ReaderActs
         \/ \E w \in Worker : WorkerActs(w)
         \/ \E t \in Thread : Gets(t) \/ Quiet(t)
<1>. Reader \in Thread /\ \A w \in Worker : w \in Thread /\ w # Reader
  BY DEF Thread, Worker, Reader
<1>1. CallFinished \/ Shutdown \/ Destroy \/ Join \/ UNCHANGED vars => Quiet(Reader)
  BY DEF CallFinished, Shutdown, Destroy, Join, vars, shared, local, Goto, Quiet
<1>2. ASSUME NEW w \in Worker, FindEmpty(w) \/ BeginWait(w) \/ WaitTimeout(w) \/ Exit(w)
      PROVE  Quiet(w)
  BY <1>2 DEF FindEmpty, BeginWait, WaitTimeout, Exit, shared, Goto, Quiet
<1>3. ASSUME NEW t \in Thread, GetFlow(t) PROVE Gets(t)
  BY <1>3, GetFlowSteps DEF Gets
<1>4. Environment => ReaderActs \/ Quiet(Reader)
  BY <1>1 DEF Environment, ReaderActs
<1>5. ReaderStep => ReaderActs \/ Gets(Reader) \/ Quiet(Reader)
  BY <1>1, <1>3 DEF ReaderStep, ReaderActs, FinishFlow
<1>6. ASSUME NEW w \in Worker, WorkerStep(w) PROVE WorkerActs(w) \/ Gets(w) \/ Quiet(w)
  BY <1>2, <1>3, <1>6 DEF WorkerStep, WorkerActs, ProcessPacket
<1>. QED
  BY <1>1, <1>4, <1>5, <1>6 DEF Next

-------------------------------------------------------------------------------
(* Keys and the mutex *)

(* Packets keep what they are.                                             *)
LEMMA PacketsKept ==
  ASSUME TypeOK, OnePlace, [Next]_vars, NEW p \in DOMAIN packets
  PROVE  p \in DOMAIN packets' /\ packets'[p].key = packets[p].key /\ packets'[p].kind = packets[p].kind
<1>1. packets[p] \in PacketRecord
  BY ElementOfSeq, LenProperties DEF TypeOK
<1>2. /\ p \in DOMAIN packets'
      /\ \/ packets'[p] = packets[p]
         \/ packets'[p] = [packets[p] EXCEPT !.verdict = packets'[p].verdict]
  BY NextVerdict
<1>. QED
  BY <1>1, <1>2 DEF PacketRecord

(* The flow that a step changes in place is one there is.                  *)
LEMMA InPlace ==
  ASSUME TypeOK
  PROVE  /\ Inc => flow[Reader] \in DOMAIN flows /\ flows' = [flows EXCEPT ![flow[Reader]].count = @ + 1]
         /\ PushFull => flow[Reader] \in DOMAIN flows /\ flows' = [flows EXCEPT ![flow[Reader]].count = @ + (-1)]
         /\ \A k \in Key : FinishFlowQuietly(k) => table[k] \in DOMAIN flows /\ flows' = MarkNotified(table[k])
         /\ \A k \in Key : FinishFlowReport(k) => table[k] \in DOMAIN flows /\ flows' = ReportFinished(table[k])
         /\ FinishFlowErase => flow[Reader] \in DOMAIN flows /\ flows' = MarkNotified(flow[Reader])
         /\ \A w \in Worker :
              /\ Dec(w) => flow[w] \in DOMAIN flows /\ flows' = [flows EXCEPT ![flow[w]].count = @ + (-1)]
              /\ NotifyQuietly(w) => flow[w] \in DOMAIN flows /\ flows' = MarkNotified(flow[w])
              /\ NotifyReport(w) => flow[w] \in DOMAIN flows /\ flows' = ReportFinished(flow[w])
              /\ NotifyMark(w) => flow[w] \in DOMAIN flows /\ flows' = MarkNotified(flow[w])
              /\ DeleteFlow(w) => flow[w] \in DOMAIN flows /\ (flows' = flows \/ flows' = MarkNotified(flow[w]))
         /\ \A t \in Thread : GetFlowReport(t) =>
              /\ table[packets[pkt[t]].key] \in DOMAIN flows
              /\ flows' = ReportFinished(table[packets[pkt[t]].key])
<1>. Reader \in Thread /\ \A w \in Worker : w \in Thread
  BY DEF Thread
<1>1. ASSUME NEW t \in Thread, pc[t] \in {"inc", "push", "finish_flow", "dec", "notify", "notified", "delete"}
      PROVE  flow[t] \in DOMAIN flows /\ flows[flow[t]].count \in Int
  <2>1. flow[t] # 0
    BY <1>1 DEF TypeOK
  <2>. QED
    BY <2>1, FlowOfThread DEF FlowRecord
<1>2. \A i, f : i \in Int => i + (-1) = i - 1
  OBVIOUS
<1>3. ASSUME NEW f \in DOMAIN flows, flows[f].count \in Int
      PROVE  [flows EXCEPT ![f].count = @ - 1] = [flows EXCEPT ![f].count = @ + (-1)]
  BY <1>3
<1>4. Inc => flow[Reader] \in DOMAIN flows /\ flows' = [flows EXCEPT ![flow[Reader]].count = @ + 1]
  BY <1>1 DEF Inc, IncPktsInQueue, Goto
<1>5. PushFull => flow[Reader] \in DOMAIN flows /\ flows' = [flows EXCEPT ![flow[Reader]].count = @ + (-1)]
  BY <1>1, <1>3 DEF PushFull, DecPktsInQueue, Goto
<1>6. ASSUME NEW k \in Key
      PROVE  /\ FinishFlowQuietly(k) => table[k] \in DOMAIN flows /\ flows' = MarkNotified(table[k])
             /\ FinishFlowReport(k) => table[k] \in DOMAIN flows /\ flows' = ReportFinished(table[k])
  BY FlowUnderKey DEF FinishFlowQuietly, FinishFlowReport
<1>7. FinishFlowErase => flow[Reader] \in DOMAIN flows /\ flows' = MarkNotified(flow[Reader])
  BY <1>1 DEF FinishFlowErase, Goto
<1>8. ASSUME NEW w \in Worker
      PROVE  /\ Dec(w) => flow[w] \in DOMAIN flows /\ flows' = [flows EXCEPT ![flow[w]].count = @ + (-1)]
             /\ NotifyQuietly(w) => flow[w] \in DOMAIN flows /\ flows' = MarkNotified(flow[w])
             /\ NotifyReport(w) => flow[w] \in DOMAIN flows /\ flows' = ReportFinished(flow[w])
             /\ NotifyMark(w) => flow[w] \in DOMAIN flows /\ flows' = MarkNotified(flow[w])
             /\ DeleteFlow(w) => flow[w] \in DOMAIN flows /\ (flows' = flows \/ flows' = MarkNotified(flow[w]))
  <2>1. Dec(w) => flow[w] \in DOMAIN flows /\ flows' = [flows EXCEPT ![flow[w]].count = @ + (-1)]
    BY <1>1, <1>3 DEF Dec, DecPktsInQueue, Goto
  <2>. QED
    BY <1>1, <2>1 DEF NotifyQuietly, NotifyReport, NotifyMark, DeleteFlow, BackToLoop, Goto
<1>9. ASSUME NEW t \in Thread, GetFlowReport(t)
      PROVE  /\ table[packets[pkt[t]].key] \in DOMAIN flows
             /\ flows' = ReportFinished(table[packets[pkt[t]].key])
  <2>1. pkt[t] # 0
    BY <1>9 DEF GetFlowReport, Goto, TypeOK
  <2>2. packets[pkt[t]].key \in Key
    BY <2>1, PacketOfThread DEF PacketRecord
  <2>. QED
    BY <1>9, <2>2, FlowUnderKey DEF GetFlowReport
<1>. QED
  BY <1>4, <1>5, <1>6, <1>7, <1>8, <1>9

(* The steps that change no flow at all.                                   *)
LEMMA LeavesFlows ==
  /\ (\E shape \in Traffic, ts \in Clock .. MaxClock : Receive(shape, ts)) => flows' = flows
  /\ PushOk \/ LockTable \/ UnlockTable => flows' = flows
  /\ \A w \in Worker : Pop(w) \/ Arrive(w) => flows' = flows
  /\ \A t \in Thread : GetFlowFound(t) \/ Quiet(t) => flows' = flows
BY DEF Receive, PushOk, LockTable, UnlockTable, Pop, Arrive, shared, GetFlowFound, Quiet

(* A flow keeps its key and its worker, and flows only come by creation.   *)
LEMMA IdentityKept ==
  ASSUME TypeOK, KeysAgree, MutexHeld, [Next]_vars
  PROVE  /\ SameIdentity
         /\ DOMAIN flows' = DOMAIN flows \/ \E t \in Thread : \E g, m : Creates(t, g, m)
<1>1. CASE ReaderActs
  BY <1>1, InPlace, LeavesFlows, Marks, Reports, Counts, Same DEF ReaderActs
<1>2. ASSUME NEW w \in Worker, WorkerActs(w)
      PROVE  SameIdentity /\ DOMAIN flows' = DOMAIN flows
  BY <1>2, InPlace, LeavesFlows, Marks, Reports, Counts, Same, Adds, Classifies, Establishes DEF WorkerActs
<1>3. ASSUME NEW t \in Thread, Gets(t) \/ Quiet(t)
      PROVE  SameIdentity /\ (DOMAIN flows' = DOMAIN flows \/ \E g, m : Creates(t, g, m))
  <2>1. (\E g, m : Creates(t, g, m)) => SameIdentity
    BY DEF Creates
  <2>. QED
    BY <1>3, <2>1, InPlace, LeavesFlows, Reports, Same DEF Gets
<1>. QED
  BY <1>1, <1>2, <1>3, Steps

(* A thread gets a flow for a packet in getFlow only, and the table gets   *)
(* an entry in a creation only.                                            *)
LEMMA HandsAndTable ==
  ASSUME TypeOK, KeysAgree, MutexHeld, [Next]_vars
  PROVE  /\ \A t \in Thread : \/ pkt'[t] = 0 \/ flow'[t] = 0
                              \/ pkt'[t] = pkt[t] /\ flow'[t] = flow[t]
                              \/ Gets(t)
         /\ \/ \A k \in Key : table'[k] \in {0, table[k]}
            \/ \E t \in Thread : \E g, m : Creates(t, g, m)
<1>. DEFINE Hand(t) == \/ pkt'[t] = 0 \/ flow'[t] = 0
                       \/ pkt'[t] = pkt[t] /\ flow'[t] = flow[t]
<1>1. ASSUME ReaderActs
      PROVE  (\A t \in Thread : Hand(t)) /\ \A k \in Key : table'[k] \in {0, table[k]}
  <2>1. \A t \in Thread : pkt[t] \in {0} \cup DOMAIN packets
    BY DEF TypeOK
  <2>2. pc[Reader] \in {"idle", "finish"} => pkt[Reader] = 0 /\ (pc[Reader] = "idle" => flow[Reader] = 0)
    BY DEF TypeOK, Thread
  <2>3. ASSUME NEW shape \in Traffic, NEW ts \in Clock .. MaxClock, Receive(shape, ts)
        PROVE  (\A t \in Thread : Hand(t)) /\ table' = table
    <3>1. pc[Reader] = "idle" /\ flow' = flow /\ table' = table
          /\ (pkt' = pkt \/ pkt' = [pkt EXCEPT ![Reader] = Len(packets) + 1])
      BY <2>3 DEF Receive
    <3>2. \A t \in Thread : t # Reader => pkt'[t] = pkt[t]
      BY <3>1 DEF TypeOK
    <3>. QED
      BY <2>2, <3>1, <3>2
  <2>4. ASSUME Inc \/ LockTable \/ UnlockTable PROVE (\A t \in Thread : Hand(t)) /\ table' = table
    BY <2>4 DEF Inc, LockTable, UnlockTable
  <2>5. ASSUME PushOk \/ PushFull PROVE (\A t \in Thread : Hand(t)) /\ table' = table
    BY <2>5 DEF PushOk, PushFull, Dispose, TypeOK
  <2>6. ASSUME NEW k \in Key, FinishFlowQuietly(k) \/ FinishFlowReport(k)
        PROVE  (\A t \in Thread : Hand(t)) /\ \A j \in Key : table'[j] \in {0, table[j]}
    BY <2>2, <2>6 DEF FinishFlowQuietly, FinishFlowReport, Goto, local, TypeOK
  <2>7. ASSUME FinishFlowErase
        PROVE  (\A t \in Thread : Hand(t)) /\ \A j \in Key : table'[j] \in {0, table[j]}
    BY <2>2, <2>7 DEF FinishFlowErase, Goto, TypeOK
  <2>. QED
    BY <1>1, <2>3, <2>4, <2>5, <2>6, <2>7 DEF ReaderActs
<1>2. ASSUME NEW w \in Worker, WorkerActs(w)
      PROVE  (\A t \in Thread : Hand(t)) /\ \A k \in Key : table'[k] \in {0, table[k]}
  <2>1. w \in Thread
    BY DEF Thread
  <2>2. ASSUME Pop(w) PROVE (\A t \in Thread : Hand(t)) /\ table' = table
    BY <2>1, <2>2 DEF Pop, Goto, TypeOK
  <2>3. ASSUME Dec(w) \/ Arrive(w) \/ Establish(w) \/ CheckClosed(w) \/ NotifyQuietly(w) \/ NotifyReport(w) \/ NotifyMark(w)
        PROVE  (\A t \in Thread : Hand(t)) /\ table' = table
    BY <2>3 DEF Dec, Arrive, Establish, CheckClosed, NotifyQuietly, NotifyReport,
                NotifyMark, shared
  <2>4. ASSUME AddPacket(w) PROVE (\A t \in Thread : Hand(t)) /\ table' = table
    BY <2>4 DEF AddPacket, Dispose, TypeOK
  <2>5. ASSUME CheckOpen(w) \/ DeleteFlow(w)
        PROVE  (\A t \in Thread : Hand(t)) /\ \A j \in Key : table'[j] \in {0, table[j]}
    BY <2>5 DEF CheckOpen, DeleteFlow, BackToLoop, TypeOK
  <2>. QED
    BY <1>2, <2>2, <2>3, <2>4, <2>5 DEF WorkerActs
<1>3. ASSUME NEW u \in Thread, Gets(u) \/ Quiet(u)
      PROVE  /\ \A t \in Thread : Hand(t) \/ Gets(t)
             /\ table' = table \/ \E g, m : Creates(u, g, m)
  <2>1. ASSUME Quiet(u) PROVE (\A t \in Thread : Hand(t)) /\ table' = table
    BY <2>1 DEF Quiet
  <2>2. ASSUME GetFlowFound(u) \/ GetFlowReport(u)
        PROVE  (\A t \in Thread : t # u => Hand(t)) /\ table' = table
    BY <2>2 DEF GetFlowFound, GetFlowReport, TypeOK
  <2>3. ASSUME NEW g, NEW m, Creates(u, g, m) PROVE \A t \in Thread : t # u => Hand(t)
    BY <2>3 DEF Creates, TypeOK
  <2>. HIDE DEF Hand
  <2>. QED
    BY <1>3, <2>1, <2>2, <2>3 DEF Gets
<1>. QED
  BY <1>1, <1>2, <1>3, Steps

(* Threads go on working on flows of their packets' keys.                  *)
LEMMA KeysAgreeNext ==
  ASSUME TypeOK, OnePlace, KeysAgree, MutexHeld, [Next]_vars
  PROVE  KeysAgree'
<1>. TypeOK'
  BY NextType
<1>1. \A p \in DOMAIN packets' : packets'[p].kind = "udp" <=> packets'[p].key \in UdpKey
  <2>1. ASSUME NEW shape \in Traffic, NEW ts \in Clock .. MaxClock, Receive(shape, ts),
               NEW p \in DOMAIN packets', p \notin DOMAIN packets
        PROVE  packets'[p].kind = shape.kind /\ packets'[p].key = shape.key
    <3>. DEFINE e == [key |-> shape.key, kind |-> shape.kind, side |-> shape.side, ts |-> ts,
                      verdict |-> IF shutdown THEN "accept" ELSE "none"]
    <3>1. packets' = Append(packets, e) /\ packets \in Seq(PacketRecord)
      BY <2>1 DEF Receive, TypeOK
    <3>2. p = Len(packets) + 1 /\ packets'[p] = e
      BY <2>1, <3>1, LenProperties, AppendProperties DEF TypeOK
    <3>. QED
      BY <3>2
  <2>2. PushOk \/ PushFull \/ Join \/ (\E w \in Worker : Pop(w) \/ AddPacket(w))
          \/ UNCHANGED Where
          => DOMAIN packets' = DOMAIN packets
    BY DEF PushOk, Join, PushFull, Pop, AddPacket, Where, Dispose
  <2>. QED
    BY <2>1, <2>2, PacketsKept, WhatMovesPackets, TrafficAssumption DEF KeysAgree
<1>2. ASSUME NEW t \in Thread, pkt'[t] # 0, flow'[t] # 0
      PROVE  packets'[pkt'[t]].key = flows'[flow'[t]].key
  <2>1. ASSUME pkt'[t] = pkt[t], flow'[t] = flow[t]
        PROVE  packets'[pkt'[t]].key = flows'[flow'[t]].key
    BY <1>2, <2>1, PacketOfThread, FlowOfThread, PacketsKept, IdentityKept DEF KeysAgree, SameIdentity
  <2>2. ASSUME pkt' = pkt, flow'[t] \in DOMAIN flows', flows'[flow'[t]].key = packets[pkt[t]].key
        PROVE  packets'[pkt'[t]].key = flows'[flow'[t]].key
    BY <1>2, <2>2, PacketOfThread, PacketsKept
  <2>3. ASSUME GetFlowFound(t) \/ GetFlowReport(t)
        PROVE  packets'[pkt'[t]].key = flows'[flow'[t]].key
    <3>. PICK k : k = packets[pkt[t]].key
      OBVIOUS
    <3>1. pkt' = pkt /\ table[k] # 0 /\ flow' = [flow EXCEPT ![t] = table[k]]
      BY <2>3 DEF GetFlowFound, GetFlowReport
    <3>2. k \in Key
      BY <1>2, <3>1, PacketOfThread DEF PacketRecord
    <3>3. table[k] \in DOMAIN flows /\ flows[table[k]].key = k
      BY <3>1, <3>2, FlowUnderKey DEF KeysAgree
    <3>4. flow'[t] = table[k]
      BY <3>1 DEF TypeOK
    <3>. QED
      BY <2>2, <3>1, <3>3, <3>4, IdentityKept DEF SameIdentity
  <2>4. ASSUME NEW g, NEW m, Creates(t, g, m)
        PROVE  packets'[pkt'[t]].key = flows'[flow'[t]].key
    BY <2>2, <2>4 DEF Creates, TypeOK, NewFlow
  <2>. QED
    BY <1>2, <2>1, <2>3, <2>4, HandsAndTable DEF Gets
<1>3. ASSUME NEW k \in Key, table'[k] # 0 PROVE flows'[table'[k]].key = k
  <2>1. CASE table'[k] = table[k]
    BY <1>3, <2>1, FlowUnderKey, IdentityKept DEF KeysAgree, SameIdentity
  <2>2. ASSUME NEW t \in Thread, NEW g, NEW m, Creates(t, g, m), table'[k] # table[k]
        PROVE  flows'[table'[k]].key = k
    BY <2>2 DEF Creates, TypeOK, NewFlow
  <2>. QED
    BY <1>3, <2>1, <2>2, HandsAndTable
<1>. QED
  BY <1>1, <1>2, <1>3 DEF KeysAgree

(* Locking and unlocking are paired, and the reader fills no queue after   *)
(* it found all of them empty.                                             *)
LEMMA MutexHeldNext ==
  ASSUME TypeOK, KeysAgree, MutexHeld, [Next]_vars
  PROVE  MutexHeld'
<1>. Reader \in Thread /\ NoThread \notin Thread /\ \A w \in Worker : w \in Thread /\ w # Reader
  BY ConfigAssumption DEF Thread, Worker, Reader, NoThread
<1>0. pc \in [Thread -> ReaderPc \cup WorkerPc]
  BY DEF TypeOK
<1>1. CASE ReaderActs
  <2>1. ASSUME NEW shape \in Traffic, NEW ts \in Clock .. MaxClock, Receive(shape, ts)
        PROVE  MutexHeld'
    BY <1>0, <2>1 DEF Receive, MutexHeld
  <2>2. CASE Inc
    BY <1>0, <2>2 DEF Inc, Goto, MutexHeld
  <2>3. CASE PushOk
    <3>1. flow[Reader] # 0
      BY <2>3 DEF PushOk, TypeOK
    <3>2. flows[flow[Reader]].tq \in Worker
      BY <3>1, FlowOfThread DEF FlowRecord
    <3>3. pc'[Reader] = "idle" /\ \A w \in Worker : pc'[w] = pc[w] \/ pc'[w] = "loop"
      BY <1>0, <2>3, <3>2 DEF PushOk, PushQueue
    <3>4. lock' = lock
      BY <2>3 DEF PushOk
    <3>. QED
      BY <3>3, <3>4 DEF MutexHeld, Thread
  <2>4. CASE PushFull
    BY <1>0, <2>4 DEF PushFull, Goto, MutexHeld
  <2>5. CASE LockTable
    BY <1>0, <2>5 DEF LockTable, Goto, MutexHeld
  <2>6. CASE UnlockTable
    BY <1>0, <2>6 DEF UnlockTable, Goto, MutexHeld
  <2>7. ASSUME NEW k \in Key, FinishFlowQuietly(k) \/ FinishFlowReport(k) PROVE MutexHeld'
    BY <1>0, <2>7 DEF FinishFlowQuietly, FinishFlowReport, Goto, local, MutexHeld
  <2>8. CASE FinishFlowErase
    BY <1>0, <2>8 DEF FinishFlowErase, Goto, MutexHeld
  <2>. QED
    BY <1>1, <2>1, <2>2, <2>3, <2>4, <2>5, <2>6, <2>7, <2>8 DEF ReaderActs
<1>2. ASSUME NEW w \in Worker, WorkerActs(w) PROVE MutexHeld'
  <2>1. ASSUME Pop(w) PROVE MutexHeld'
    BY <1>0, <2>1 DEF Pop, Goto, MutexHeld
  <2>2. ASSUME UNCHANGED <<queue, lock>>, NEW x, x # "replace", pc' = [pc EXCEPT ![w] = x]
        PROVE  MutexHeld'
    BY <1>0, <2>2 DEF MutexHeld
  <2>3. ASSUME ~Pop(w)
        PROVE  UNCHANGED <<queue, lock>> /\ \E x : x # "replace" /\ pc' = [pc EXCEPT ![w] = x]
    BY <1>2, <2>3 DEF WorkerActs, Dec, Arrive, Establish, AddPacket, CheckOpen, CheckClosed, NotifyQuietly,
                      NotifyReport, NotifyMark, DeleteFlow, BackToLoop, Goto, shared
  <2>. QED
    BY <2>1, <2>2, <2>3
<1>3. ASSUME NEW t \in Thread, Gets(t) \/ Quiet(t) PROVE MutexHeld'
  <2>1. CASE Quiet(t)
    BY <1>0, <2>1 DEF Quiet, Join, Goto, MutexHeld
  <2>2. CASE GetFlowFound(t)
    BY <1>0, <2>2 DEF GetFlowFound, Goto, AfterGet, MutexHeld
  <2>3. CASE GetFlowReport(t)
    BY <1>0, <2>3 DEF GetFlowReport, Goto, MutexHeld
  <2>4. ASSUME NEW g, NEW m, Creates(t, g, m) PROVE MutexHeld'
    BY <1>0, <2>4 DEF Creates, AfterGet, MutexHeld
  <2>. QED
    BY <1>3, <2>1, <2>2, <2>3, <2>4 DEF Gets
<1>. QED
  BY <1>1, <1>2, <1>3, Steps

(* Both hold from the start.                                               *)
LEMMA KeysAndMutex == Spec => [](KeysAgree /\ MutexHeld)
<1>1. Init => KeysAgree /\ MutexHeld
  <2>. SUFFICES ASSUME Init PROVE KeysAgree /\ MutexHeld
    OBVIOUS
  <2>1. DOMAIN packets = {} /\ Reader \in Thread
    BY DEF Init, Thread
  <2>2. /\ \A t \in Thread : pkt[t] = 0 /\ pc[t] \in {"idle", "loop"}
        /\ \A k \in Key : table[k] = 0
    BY DEF Init
  <2>. QED
    BY <2>1, <2>2 DEF KeysAgree, MutexHeld
<1>2. TypeOK /\ OnePlace /\ KeysAgree /\ MutexHeld /\ [Next]_vars => (KeysAgree /\ MutexHeld)'
  BY KeysAgreeNext, MutexHeldNext
<1>. QED
  BY <1>1, <1>2, TypeCorrect, AlwaysOnePlace, PTL DEF Spec

-------------------------------------------------------------------------------
(* UDP flows stay open, and are reported once *)

(* No UDP packet takes a flow to FINISHED.                                 *)
LEMMA UdpKeepsOpen ==
  ASSUME NEW state, NEW dir, AssignsState(state, "udp", dir)
  PROVE  StateAfter(state, "udp", dir) \notin Closed
BY DEF AssignsState, StateAfter, Closed

(* Where a worker can be after a step that is not its own.                 *)
LEMMA WorkerMoves ==
  ASSUME TypeOK, KeysAgree, MutexHeld, [Next]_vars, NEW w \in Worker
  PROVE  \/ UNCHANGED <<pc[w], pkt[w], flow[w], seen[w]>>
         \/ WorkerActs(w) \/ Gets(w)
         \/ pc'[w] \in {"loop", "to_wait", "waiting", "exited"} /\ UNCHANGED <<pkt[w], flow[w], seen[w]>>
<1>. w \in Thread /\ w # Reader /\ Reader \in Thread /\ \A v \in Worker : v \in Thread
  BY DEF Thread, Worker, Reader
<1>. DEFINE Stays == UNCHANGED <<pc[w], pkt[w], flow[w], seen[w]>>
            Loops == pc'[w] \in {"loop", "to_wait", "waiting", "exited"}
                     /\ UNCHANGED <<pkt[w], flow[w], seen[w]>>
<1>0. /\ pc \in [Thread -> ReaderPc \cup WorkerPc] /\ pkt \in [Thread -> {0} \cup DOMAIN packets]
      /\ flow \in [Thread -> {0} \cup DOMAIN flows] /\ seen \in [Thread -> SeenRecord]
  BY DEF TypeOK
<1>1. ASSUME ReaderActs PROVE Stays \/ Loops
  <2>1. ASSUME NEW shape \in Traffic, NEW ts \in Clock .. MaxClock, Receive(shape, ts) PROVE Stays
    BY <1>0, <2>1 DEF Receive
  <2>2. ASSUME PushOk PROVE Stays \/ Loops
    BY <1>0, <2>2 DEF PushOk
  <2>3. ASSUME Inc \/ PushFull \/ LockTable \/ UnlockTable \/ FinishFlowErase PROVE Stays
    BY <1>0, <2>3 DEF Inc, PushFull, Dispose, LockTable, UnlockTable, FinishFlowErase, Goto
  <2>4. ASSUME NEW k \in Key, FinishFlowQuietly(k) \/ FinishFlowReport(k) PROVE Stays
    BY <1>0, <2>4 DEF FinishFlowQuietly, FinishFlowReport, local, Goto
  <2>. QED
    BY <1>1, <2>1, <2>2, <2>3, <2>4 DEF ReaderActs
<1>2. ASSUME NEW v \in Worker, WorkerActs(v), v # w PROVE Stays
  <2>1. ASSUME Pop(v) \/ Dec(v) \/ Arrive(v) \/ Establish(v) \/ AddPacket(v) PROVE Stays
    BY <1>0, <1>2, <2>1 DEF Pop, Dec, Arrive, Establish, AddPacket, Dispose, Goto, shared
  <2>2. ASSUME CheckOpen(v) \/ CheckClosed(v) \/ NotifyQuietly(v) \/ NotifyReport(v)
               \/ NotifyMark(v) \/ DeleteFlow(v)
        PROVE  Stays
    BY <1>0, <1>2, <2>2 DEF CheckOpen, CheckClosed, NotifyQuietly, NotifyReport, NotifyMark,
                            DeleteFlow, BackToLoop, Goto
  <2>. QED
    BY <1>2, <2>1, <2>2 DEF WorkerActs
<1>3. ASSUME NEW t \in Thread, Gets(t) \/ Quiet(t), t # w PROVE Stays
  BY <1>0, <1>3 DEF Gets, GetFlowFound, GetFlowReport, Creates, Quiet, Goto
<1>4. ASSUME Quiet(w) PROVE Stays \/ Loops
  BY <1>0, <1>4 DEF Quiet
<1>. HIDE DEF Stays, Loops
<1>5. Stays \/ Loops \/ WorkerActs(w) \/ Gets(w)
  BY <1>1, <1>2, <1>3, <1>4, Steps
<1>. QED
  BY <1>5 DEF Stays, Loops

(* Who takes a flow to one of the states in which it is over.              *)
Closes(f) ==
  \/ \E w \in Worker : flow[w] = f /\ AddPacket(w)
  \/ /\ flows'[f].state = "FINISHED_NOTIFIED"
     /\ \/ \E w \in Worker : flow[w] = f /\ (NotifyQuietly(w) \/ NotifyMark(w) \/ DeleteFlow(w))
        \/ \E t \in Thread : \E g : Creates(t, g, f)
        \/ \E k \in Key : FinishFlowQuietly(k) /\ table[k] = f
        \/ FinishFlowErase /\ flow[Reader] = f

(* A packet that closes the flow, or a mark.                               *)
LEMMA WhoCloses ==
  ASSUME TypeOK, KeysAgree, MutexHeld, [Next]_vars, NEW f \in DOMAIN flows
  PROVE  flows'[f].state = flows[f].state \/ flows'[f].state \notin Closed \/ Closes(f)
<1>. DEFINE Stays == flows'[f].state = flows[f].state
<1>1. CASE ReaderActs
  <2>1. CASE Inc \/ PushFull
    BY <2>1, InPlace, Counts DEF SameStates
  <2>2. ASSUME NEW k \in Key, FinishFlowQuietly(k) PROVE Stays \/ Closes(f)
    BY <2>2, InPlace, Marks DEF Closes
  <2>3. ASSUME NEW k \in Key, FinishFlowReport(k) PROVE Stays
    BY <2>3, InPlace, Reports DEF SameStates
  <2>4. ASSUME FinishFlowErase PROVE Stays \/ Closes(f)
    BY <2>4, InPlace, Marks DEF Closes
  <2>. QED
    BY <1>1, <2>1, <2>2, <2>3, <2>4, LeavesFlows DEF ReaderActs
<1>2. ASSUME NEW w \in Worker, WorkerActs(w)
      PROVE  Stays \/ flows'[f].state \notin Closed \/ Closes(f)
  <2>1. CASE Dec(w)
    BY <2>1, InPlace, Counts DEF SameStates
  <2>2. CASE AddPacket(w)
    BY <2>2, Adds DEF Closes
  <2>3. CASE CheckOpen(w) \/ CheckClosed(w)
    BY <2>3, Classifies DEF SameStates
  <2>4. CASE Establish(w)
    BY <2>4, Establishes DEF Closed
  <2>5. CASE NotifyReport(w)
    BY <2>5, InPlace, Reports DEF SameStates
  <2>6. CASE NotifyQuietly(w) \/ NotifyMark(w) \/ DeleteFlow(w)
    <3>1. flows' = flows \/ (flow[w] \in DOMAIN flows /\ flows' = MarkNotified(flow[w]))
      BY <2>6, InPlace
    <3>. QED
      BY <2>6, <3>1, Marks DEF Closes
  <2>. QED
    BY <1>2, <2>1, <2>2, <2>3, <2>4, <2>5, <2>6, LeavesFlows DEF WorkerActs
<1>3. ASSUME NEW t \in Thread, Gets(t) \/ Quiet(t) PROVE Stays \/ Closes(f)
  <2>1. CASE GetFlowReport(t)
    BY <2>1, InPlace, Reports DEF SameStates
  <2>2. ASSUME NEW g, NEW m, Creates(t, g, m), ~Stays
        PROVE  m = f /\ flows'[f].state = "FINISHED_NOTIFIED"
    BY <2>2 DEF Creates
  <2>. QED
    BY <1>3, <2>1, <2>2, LeavesFlows DEF Gets, Closes
<1>. QED
  BY <1>1, <1>2, <1>3, Steps

(* Who marks a UDP flow as notified.                                       *)
LEMMA WhoMarks ==
  ASSUME TypeOK, KeysAgree, MutexHeld, [Next]_vars, NEW f \in DOMAIN flows, IsUdp(f)
  PROVE  \/ flows'[f].state = flows[f].state
         \/ flows'[f].state \notin Closed
         \/ /\ flows'[f].state = "FINISHED_NOTIFIED"
            /\ \/ \E t \in Thread : \E g : Creates(t, g, f)
               \/ pc[Reader] \in {"finish", "finish_flow"}
               \/ \E w \in Worker : flow[w] = f /\ pc[w] \in {"notify", "notified", "delete"}
<1>1. ASSUME NEW w \in Worker, AddPacket(w), flow[w] = f
      PROVE  flows'[f].state = flows[f].state \/ flows'[f].state \notin Closed
  <2>1. pkt[w] # 0 /\ flow[w] # 0 /\ w \in Thread
    BY <1>1 DEF AddPacket, Goto, TypeOK, Thread
  <2>2. packets[pkt[w]].kind = "udp"
    BY <1>1, <2>1, PacketOfThread DEF KeysAgree, IsUdp
  <2>. QED
    BY <1>1, <2>2, Adds, UdpKeepsOpen
<1>2. ASSUME NEW w \in Worker, NotifyQuietly(w) \/ NotifyMark(w) \/ DeleteFlow(w)
      PROVE  pc[w] \in {"notify", "notified", "delete"}
  BY <1>2 DEF NotifyQuietly, NotifyMark, DeleteFlow, BackToLoop, Goto
<1>3. ASSUME FinishFlowErase \/ \E k \in Key : FinishFlowQuietly(k)
      PROVE  pc[Reader] \in {"finish", "finish_flow"}
  BY <1>3 DEF FinishFlowErase, FinishFlowQuietly, Goto
<1>. QED
  BY <1>1, <1>2, <1>3, WhoCloses DEF Closes

(* UDP flows never reach FINISHED.                                         *)
LEMMA UdpStaysOpenNext ==
  ASSUME TypeOK, KeysAgree, MutexHeld, UdpStaysOpen, [Next]_vars
  PROVE  UdpStaysOpen'
<1>1. ASSUME NEW f \in DOMAIN flows', flows'[f].key \in UdpKey PROVE flows'[f].state # "FINISHED"
  <2>1. CASE f \in DOMAIN flows
    <3>1. IsUdp(f)
      BY <1>1, <2>1, IdentityKept DEF SameIdentity, IsUdp
    <3>. QED
      BY <2>1, <3>1, WhoMarks DEF UdpStaysOpen, Closed
  <2>2. CASE f \notin DOMAIN flows
    <3>1. PICK t \in Thread : \E g, m : Creates(t, g, m)
      BY <1>1, <2>2, IdentityKept
    <3>. QED
      BY <1>1, <2>2, <3>1 DEF Creates, NewFlow
  <2>. QED
    BY <2>1, <2>2
<1>2. ASSUME NEW w \in Worker, pc'[w] \in {"notify", "notified"} PROVE ~IsUdp(flow[w])'
  <2>. w \in Thread
    BY DEF Thread
  <2>1. ASSUME flow'[w] = flow[w], pc[w] \in {"notify", "notified"} PROVE ~IsUdp(flow[w])'
    <3>1. flow[w] \in DOMAIN flows
      BY <2>1, FlowOfThread DEF TypeOK
    <3>. QED
      BY <2>1, <3>1, IdentityKept DEF UdpStaysOpen, SameIdentity, IsUdp
  <2>2. CASE CheckClosed(w)
    <3>1. flow'[w] = flow[w] /\ flow[w] \in DOMAIN flows
      BY <2>2, Classifies DEF CheckClosed
    <3>2. flows[flow[w]].state = "FINISHED"
      BY <1>2, <2>2 DEF CheckClosed, TypeOK
    <3>. QED
      BY <3>1, <3>2, IdentityKept DEF UdpStaysOpen, SameIdentity, IsUdp
  <2>3. CASE NotifyReport(w)
    BY <2>1, <2>3 DEF NotifyReport, Goto
  <2>4. ASSUME WorkerActs(w) \/ Gets(w), ~CheckClosed(w), ~NotifyReport(w) PROVE FALSE
    <3>1. PICK x : x \notin {"notify", "notified"} /\ pc' = [pc EXCEPT ![w] = x]
      BY <2>4 DEF WorkerActs, Gets, Pop, Dec, Arrive, Establish, AddPacket, CheckOpen, NotifyQuietly,
                  NotifyMark, DeleteFlow, BackToLoop, GetFlowFound, GetFlowReport, Creates,
                  AfterGet, Goto
    <3>. QED
      BY <1>2, <3>1 DEF TypeOK
  <2>. QED
    BY <1>2, <2>1, <2>2, <2>3, <2>4, WorkerMoves
<1>. QED
  BY <1>1, <1>2 DEF UdpStaysOpen, IsUdp

(* A UDP flow is reported from the table, by a thread that takes the mutex *)
(* or has it.                                                              *)
LEMMA WhoReports ==
  ASSUME TypeOK, KeysAgree, MutexHeld, UdpStaysOpen, [Next]_vars, NEW f \in DOMAIN flows, IsUdp(f)
  PROVE  \/ flows'[f].finReports = flows[f].finReports
         \/ /\ flows'[f].finReports = flows[f].finReports + 1
            /\ table[flows[f].key] = f
            /\ \E t \in Thread : /\ flow'[t] = f /\ lock' = t /\ pc'[t] \in {"replace", "finish_flow"}
                                 /\ \/ lock = NoThread
                                    \/ lock = t /\ pc[t] \notin {"replace", "finish_flow"}
<1>. Reader \in Thread /\ \A w \in Worker : w \in Thread
  BY DEF Thread
<1>1. CASE ReaderActs
  <2>1. CASE Inc \/ PushFull
    BY <2>1, InPlace, Counts DEF SameReports
  <2>2. ASSUME NEW k \in Key, FinishFlowQuietly(k) PROVE flows'[f].finReports = flows[f].finReports
    BY <2>2, InPlace, Marks DEF SameReports
  <2>3. ASSUME NEW k \in Key, FinishFlowReport(k), flows'[f].finReports # flows[f].finReports
        PROVE  /\ flows'[f].finReports = flows[f].finReports + 1
               /\ table[flows[f].key] = f
               /\ flow'[Reader] = f /\ lock' = Reader /\ pc'[Reader] = "finish_flow"
               /\ lock = Reader /\ pc[Reader] = "finish"
    <3>1. f = table[k] /\ flows'[f].finReports = flows[f].finReports + 1
      BY <2>3, InPlace, Reports
    <3>2. /\ flow' = [flow EXCEPT ![Reader] = f] /\ lock' = lock /\ pc[Reader] = "finish"
          /\ pc' = [pc EXCEPT ![Reader] = "finish_flow"] /\ table[k] # 0
      BY <2>3, <3>1 DEF FinishFlowReport, Goto
    <3>. QED
      BY <3>1, <3>2 DEF KeysAgree, MutexHeld, TypeOK
  <2>4. CASE FinishFlowErase
    BY <2>4, InPlace, Marks DEF SameReports
  <2>. QED
    BY <1>1, <2>1, <2>2, <2>3, <2>4, LeavesFlows DEF ReaderActs
<1>2. ASSUME NEW w \in Worker, WorkerActs(w) PROVE flows'[f].finReports = flows[f].finReports
  <2>1. CASE Dec(w)
    BY <2>1, InPlace, Counts DEF SameReports
  <2>2. CASE AddPacket(w)
    BY <2>2, Adds DEF SameReports
  <2>3. CASE CheckOpen(w) \/ CheckClosed(w)
    BY <2>3, Classifies DEF SameReports
  <2>4. CASE NotifyQuietly(w) \/ NotifyMark(w) \/ DeleteFlow(w)
    BY <2>4, InPlace, Marks, Same DEF SameReports
  <2>5. CASE NotifyReport(w)
    <3>1. flow[w] # f
      BY <2>5 DEF NotifyReport, Goto, UdpStaysOpen
    <3>2. flow[w] \in DOMAIN flows /\ flows' = ReportFinished(flow[w])
      BY <2>5, InPlace
    <3>. QED
      BY <3>1, <3>2, Reports
  <2>6. CASE Establish(w)
    BY <2>6, Establishes DEF SameReports
  <2>. QED
    BY <1>2, <2>1, <2>2, <2>3, <2>4, <2>5, <2>6, LeavesFlows DEF WorkerActs
<1>3. ASSUME NEW t \in Thread, Gets(t) \/ Quiet(t), flows'[f].finReports # flows[f].finReports
      PROVE  /\ flows'[f].finReports = flows[f].finReports + 1
             /\ table[flows[f].key] = f
             /\ flow'[t] = f /\ lock' = t /\ pc'[t] = "replace" /\ lock = NoThread
  <2>1. \A g, m : ~Creates(t, g, m)
    BY <1>3 DEF Creates, SameReports
  <2>2. GetFlowReport(t)
    BY <1>3, <2>1, LeavesFlows DEF Gets
  <2>. PICK k : k = packets[pkt[t]].key
    OBVIOUS
  <2>3. f = table[k] /\ flows'[f].finReports = flows[f].finReports + 1
    BY <1>3, <2>2, InPlace, Reports
  <2>4. /\ flow' = [flow EXCEPT ![t] = f] /\ lock' = t /\ lock = NoThread /\ pc[t] = "get"
        /\ pc' = [pc EXCEPT ![t] = "replace"] /\ table[k] # 0
    BY <2>2, <2>3 DEF GetFlowReport, Goto
  <2>5. k \in Key
    BY <2>4, PacketOfThread DEF PacketRecord, TypeOK
  <2>. QED
    BY <2>3, <2>4, <2>5 DEF KeysAgree, TypeOK
<1>. QED
  BY <1>1, <1>2, <1>3, Steps

(* What happens to a thread that is taking a flow out of the table.        *)
LEMMA Remover ==
  ASSUME TypeOK, KeysAgree, MutexHeld, [Next]_vars,
         NEW t \in Thread, lock = t, pc[t] \in {"replace", "finish_flow"}
  PROVE  \/ lock' = t /\ UNCHANGED <<pc[t], flow[t]>>
         \/ table'[flows[flow[t]].key] # flow[t]
<1>. Reader \in Thread /\ NoThread \notin Thread /\ \A w \in Worker : w \in Thread /\ w # Reader
  BY ConfigAssumption DEF Thread, Worker, Reader, NoThread
<1>0. /\ pc \in [Thread -> ReaderPc \cup WorkerPc] /\ flow \in [Thread -> {0} \cup DOMAIN flows]
      /\ flow[t] # 0 /\ pc[t] \in {"replace", "finish_flow"}
      /\ flow[t] \in DOMAIN flows /\ flows[flow[t]].key \in Key
  BY FlowOfThread DEF TypeOK, FlowRecord
<1>. DEFINE Goes == \/ lock' = t /\ UNCHANGED <<pc[t], flow[t]>>
                    \/ table'[flows[flow[t]].key] # flow[t]
<1>1. CASE ReaderActs
  <2>1. ASSUME NEW shape \in Traffic, NEW ts \in Clock .. MaxClock, Receive(shape, ts) PROVE Goes
    BY <1>0, <2>1 DEF Receive
  <2>2. CASE PushOk
    <3>1. flow[Reader] # 0
      BY <2>2 DEF PushOk, TypeOK
    <3>2. flows[flow[Reader]].tq \in Worker
      BY <3>1, FlowOfThread DEF FlowRecord
    <3>. QED
      BY <1>0, <2>2, <3>2 DEF PushOk, PushQueue
  <2>3. CASE Inc \/ PushFull \/ LockTable \/ UnlockTable
    BY <1>0, <2>3 DEF Inc, PushFull, LockTable, UnlockTable, Goto, MutexHeld
  <2>4. ASSUME NEW k \in Key, FinishFlowQuietly(k) \/ FinishFlowReport(k) PROVE Goes
    BY <1>0, <2>4 DEF FinishFlowQuietly, FinishFlowReport, local, Goto, MutexHeld
  <2>5. CASE FinishFlowErase
    <3>1. t = Reader /\ table' = [table EXCEPT ![flows[flow[Reader]].key] = 0]
      BY <1>0, <2>5 DEF FinishFlowErase, Goto, MutexHeld
    <3>. QED
      BY <1>0, <3>1 DEF TypeOK
  <2>. QED
    BY <1>1, <2>1, <2>2, <2>3, <2>4, <2>5 DEF ReaderActs
<1>2. ASSUME NEW w \in Worker, WorkerActs(w) PROVE Goes
  <2>1. CASE Pop(w) \/ Dec(w) \/ Arrive(w) \/ Establish(w) \/ AddPacket(w)
    BY <1>0, <2>1 DEF Pop, Dec, Arrive, Establish, AddPacket, Goto, shared
  <2>2. CASE CheckOpen(w) \/ CheckClosed(w) \/ NotifyQuietly(w) \/ NotifyReport(w) \/ NotifyMark(w) \/ DeleteFlow(w)
    BY <1>0, <2>2 DEF CheckOpen, CheckClosed, NotifyQuietly, NotifyReport, NotifyMark,
                      DeleteFlow, BackToLoop, Goto
  <2>. QED
    BY <1>2, <2>1, <2>2 DEF WorkerActs
<1>3. ASSUME NEW u \in Thread, Gets(u) \/ Quiet(u) PROVE Goes
  <2>1. CASE GetFlowFound(u) \/ GetFlowReport(u)
    BY <1>0, <2>1 DEF GetFlowFound, GetFlowReport, Goto
  <2>2. CASE Quiet(u)
    BY <1>0, <2>2 DEF Quiet
  <2>3. ASSUME NEW g, NEW m, Creates(u, g, m) PROVE Goes
    <3>1. u = t /\ pkt[t] # 0 /\ g \notin DOMAIN flows /\ table' = [table EXCEPT ![packets[pkt[t]].key] = g]
      BY <2>3 DEF Creates
    <3>2. packets[pkt[t]].key = flows[flow[t]].key
      BY <1>0, <3>1 DEF KeysAgree
    <3>. QED
      BY <1>0, <3>1, <3>2 DEF TypeOK
  <2>. QED
    BY <1>3, <2>1, <2>2, <2>3 DEF Gets
<1>. QED
  BY <1>1, <1>2, <1>3, Steps

(* One report per UDP flow, by the thread that takes it out of the table.  *)
LEMMA UdpReportedOnceNext ==
  ASSUME TypeOK, KeysAgree, MutexHeld, UdpStaysOpen, UdpReportedOnce, [Next]_vars
  PROVE  UdpReportedOnce'
<1>. NoThread \notin Thread
  BY ConfigAssumption DEF Thread, Worker, Reader, NoThread
<1>1. ASSUME NEW f \in DOMAIN flows', f \notin DOMAIN flows PROVE flows'[f].finReports = 0
  <2>1. PICK t \in Thread : \E g, m : Creates(t, g, m)
    BY <1>1, IdentityKept
  <2>. QED
    BY <1>1, <2>1 DEF Creates, NewFlow
<1>2. ASSUME NEW f \in DOMAIN flows, IsUdp(f)
      PROVE  /\ flows'[f].finReports <= 1
             /\ flows'[f].finReports = 1 => table'[flows'[f].key] # f \/ BeingRemoved(f)'
  <2>1. flows'[f].key = flows[f].key
    BY IdentityKept DEF SameIdentity
  <2>2. /\ flows[f].finReports \in Nat /\ flows[f].finReports <= 1
        /\ flows[f].finReports = 1 => table[flows[f].key] # f \/ BeingRemoved(f)
        /\ flows[f].key \in Key /\ f # 0
    <3>1. flows[f] \in FlowRecord /\ f # 0
      BY ZeroIsNothing, ElementOfSeq, LenProperties DEF TypeOK
    <3>. QED
      BY <1>2, <3>1 DEF UdpReportedOnce, FlowRecord, IsUdp
  <2>3. CASE flows'[f].finReports = flows[f].finReports
    <3>1. ASSUME table[flows[f].key] # f PROVE table'[flows[f].key] # f
      <4>1. ASSUME NEW t, NEW g, NEW m, Creates(t, g, m) PROVE table'[flows[f].key] # f
        BY <2>2, <3>1, <4>1 DEF Creates, TypeOK
      <4>. QED
        BY <2>2, <3>1, <4>1, HandsAndTable
    <3>2. ASSUME BeingRemoved(f) PROVE table'[flows[f].key] # f \/ BeingRemoved(f)'
      <4>1. PICK t \in Thread : flow[t] = f /\ lock = t /\ pc[t] \in {"replace", "finish_flow"}
        BY <3>2 DEF BeingRemoved
      <4>. QED
        BY <4>1, Remover DEF BeingRemoved
    <3>. QED
      BY <2>1, <2>2, <2>3, <3>1, <3>2
  <2>4. CASE flows'[f].finReports # flows[f].finReports
    <3>1. PICK t \in Thread : /\ flow'[t] = f /\ lock' = t /\ pc'[t] \in {"replace", "finish_flow"}
                              /\ \/ lock = NoThread
                                 \/ lock = t /\ pc[t] \notin {"replace", "finish_flow"}
      BY <1>2, <2>4, WhoReports
    <3>2. flows'[f].finReports = flows[f].finReports + 1 /\ table[flows[f].key] = f
      BY <1>2, <2>4, WhoReports
    <3>3. ~BeingRemoved(f)
      BY <3>1 DEF BeingRemoved
    <3>4. BeingRemoved(f)'
      BY <3>1 DEF BeingRemoved
    <3>. QED
      BY <2>2, <3>2, <3>3, <3>4
  <2>. QED
    BY <2>3, <2>4
<1>3. \A f \in DOMAIN flows : flows'[f].key = flows[f].key
  BY IdentityKept DEF SameIdentity
<1>. QED
  BY <1>1, <1>2, <1>3 DEF UdpReportedOnce, IsUdp

(* UDP flows stay open, for all that packets do.                           *)
LEMMA UdpOpen == Spec => []UdpStaysOpen
<1>1. Init => UdpStaysOpen
  <2>. SUFFICES ASSUME Init PROVE UdpStaysOpen
    OBVIOUS
  <2>1. DOMAIN flows = {} /\ \A t \in Thread : pc[t] \in {"idle", "loop"}
    BY DEF Init
  <2>. QED
    BY <2>1 DEF UdpStaysOpen, Thread
<1>2. TypeOK /\ KeysAgree /\ MutexHeld /\ UdpStaysOpen /\ [Next]_vars => UdpStaysOpen'
  BY UdpStaysOpenNext
<1>. QED
  BY <1>1, <1>2, TypeCorrect, KeysAndMutex, PTL DEF Spec

(* Observers hear at most once that a UDP flow is finished, and then it is *)
(* out of the table or on its way out under _flowsMutex: getFlow and       *)
(* finished() never both report a flow, whatever the workers that are in   *)
(* the flow at the time write into it.                                     *)
THEOREM UdpReportsOnce == Spec => []UdpReportedOnce
<1>1. Init => UdpReportedOnce
  BY DEF Init, UdpReportedOnce
<1>2. TypeOK /\ KeysAgree /\ MutexHeld /\ UdpStaysOpen /\ UdpReportedOnce /\ [Next]_vars
        => UdpReportedOnce'
  BY UdpReportedOnceNext
<1>. QED
  BY <1>1, <1>2, TypeCorrect, KeysAndMutex, UdpOpen, PTL DEF Spec

-------------------------------------------------------------------------------
(* One worker per UDP flow *)

(* If no UDP flow is replaced by the end of a step then none was before,   *)
(* and the step has not made a second flow of a UDP key.                   *)
LEMMA NoneReplaced ==
  ASSUME TypeOK, KeysAgree, MutexHeld, [Next]_vars, NoUdpFlowReplaced'
  PROVE  /\ NoUdpFlowReplaced
         /\ \A t \in Thread : \A g, m : Creates(t, g, m) =>
              \A f \in DOMAIN flows : IsUdp(f) => flows[f].key # packets[pkt[t]].key
<1>1. SameIdentity
  BY IdentityKept
<1>2. NoUdpFlowReplaced
  BY <1>1 DEF NoUdpFlowReplaced, SameIdentity
<1>3. ASSUME NEW t \in Thread, NEW g, NEW m, Creates(t, g, m), NEW f \in DOMAIN flows, IsUdp(f),
             flows[f].key = packets[pkt[t]].key
      PROVE  FALSE
  <2>1. g \in DOMAIN flows' /\ g # f /\ flows'[g].key = flows[f].key
    BY <1>3 DEF Creates, NewFlow
  <2>2. f \in DOMAIN flows' /\ flows'[f].key = flows[f].key
    BY <1>1 DEF SameIdentity
  <2>. QED
    BY <1>3, <2>1, <2>2 DEF NoUdpFlowReplaced, IsUdp
<1>. QED
  BY <1>2, <1>3

(* Once finished() is in its loop nothing is queued any more.              *)
LEMMA EndingStays ==
  ASSUME TypeOK, KeysAgree, MutexHeld, [Next]_vars, Ending
  PROVE  Ending'
<1>. Reader \in Thread /\ \A w \in Worker : w \in Thread /\ w # Reader
  BY DEF Thread, Worker, Reader
<1>0. pc \in [Thread -> ReaderPc \cup WorkerPc]
  BY DEF TypeOK
<1>1. CASE ReaderActs
  <2>1. ASSUME NEW shape \in Traffic, NEW ts \in Clock .. MaxClock, Receive(shape, ts) PROVE FALSE
    BY <2>1 DEF Receive, Ending
  <2>2. ~Inc /\ ~PushOk /\ ~PushFull /\ ~LockTable
    BY DEF Inc, PushOk, PushFull, LockTable, Goto, Ending
  <2>3. ASSUME NEW k \in Key, FinishFlowQuietly(k) \/ FinishFlowReport(k) PROVE Ending'
    BY <1>0, <2>3 DEF FinishFlowQuietly, FinishFlowReport, local, Goto, Ending
  <2>4. CASE FinishFlowErase \/ UnlockTable
    BY <1>0, <2>4 DEF FinishFlowErase, UnlockTable, Goto, Ending
  <2>. QED
    BY <1>1, <2>1, <2>2, <2>3, <2>4 DEF ReaderActs
<1>2. ASSUME NEW w \in Worker, WorkerActs(w) PROVE Ending'
  <2>1. ~Pop(w)
    BY DEF Pop, Ending
  <2>2. queue' = queue /\ \E x : pc' = [pc EXCEPT ![w] = x]
    BY <1>2, <2>1 DEF WorkerActs, Dec, Arrive, Establish, AddPacket, CheckOpen, CheckClosed, NotifyQuietly,
                      NotifyReport, NotifyMark, DeleteFlow, BackToLoop, Goto, shared
  <2>. QED
    BY <1>0, <2>2 DEF Ending
<1>3. ASSUME NEW t \in Thread, Gets(t) \/ Quiet(t) PROVE Ending'
  <2>1. CASE Quiet(t)
    BY <1>0, <2>1 DEF Quiet, Join, Goto, Ending
  <2>2. CASE Gets(t)
    <3>1. /\ queue' = queue /\ pc[t] \in {"get", "replace"}
          /\ \E x : pc' = [pc EXCEPT ![t] = x]
      BY <2>2 DEF Gets, GetFlowFound, GetFlowReport, Creates, Goto
    <3>. QED
      BY <1>0, <3>1 DEF Ending
  <2>. QED
    BY <1>3, <2>1, <2>2
<1>. QED
  BY <1>1, <1>2, <1>3, Steps

(* Who takes the entry of a key out of the table.                          *)
LEMMA WhoErases ==
  ASSUME TypeOK, KeysAgree, MutexHeld, [Next]_vars, NEW k \in Key, table[k] # 0, table'[k] = 0
  PROVE  \/ pc[Reader] \in {"finish", "finish_flow"}
         \/ \E w \in Worker : pc[w] = "delete" /\ flow[w] # 0 /\ flows[flow[w]].key = k
<1>0. table \in [Key -> {0} \cup DOMAIN flows]
  BY DEF TypeOK
<1>1. ASSUME ReaderActs PROVE pc[Reader] \in {"finish", "finish_flow"}
  BY <1>1 DEF ReaderActs, Receive, Inc, PushOk, PushFull, LockTable, UnlockTable,
              FinishFlowQuietly, FinishFlowReport, FinishFlowErase, Goto
<1>2. ASSUME NEW w \in Worker, WorkerActs(w)
      PROVE  pc[w] = "delete" /\ flow[w] # 0 /\ flows[flow[w]].key = k
  <2>1. DeleteFlow(w)
    BY <1>2 DEF WorkerActs, Pop, Dec, Arrive, Establish, AddPacket, CheckOpen, CheckClosed, NotifyQuietly,
                NotifyReport, NotifyMark, shared
  <2>2. pc[w] = "delete" /\ flow[w] # 0
    BY <2>1 DEF DeleteFlow, BackToLoop, Goto, TypeOK, Thread
  <2>3. table' = table \/ table' = [table EXCEPT ![flows[flow[w]].key] = 0]
    BY <2>1 DEF DeleteFlow
  <2>. QED
    BY <1>0, <2>2, <2>3
<1>3. ASSUME NEW t \in Thread, Gets(t) \/ Quiet(t) PROVE FALSE
  BY <1>0, <1>3 DEF Gets, Quiet, GetFlowFound, GetFlowReport, Creates
<1>. QED
  BY <1>1, <1>2, <1>3, Steps

(* Until a UDP flow is replaced, only finished() ends one.                 *)
LEMMA UdpKeptNext ==
  ASSUME TypeOK, KeysAgree, MutexHeld, UdpStaysOpen, UdpKept, [Next]_vars
  PROVE  UdpKept'
<1>. SUFFICES ASSUME NoUdpFlowReplaced', ~Ending'
     PROVE  /\ \A f \in DOMAIN flows' : flows'[f].key \in UdpKey =>
                 flows'[f].state # "FINISHED_NOTIFIED" /\ table'[flows'[f].key] # 0
            /\ \A w \in Worker : pc'[w] = "delete" => flows'[flow'[w]].key \notin UdpKey
  BY DEF UdpKept, IsUdp
<1>. \A w \in Worker : w \in Thread
  BY DEF Thread
<1>1. NoUdpFlowReplaced /\ ~Ending
  BY NoneReplaced, EndingStays
<1>2. pc[Reader] \notin {"finish", "finish_flow"}
  BY <1>1 DEF MutexHeld, Ending
<1>3. /\ \A f \in DOMAIN flows : IsUdp(f) =>
           flows[f].state # "FINISHED_NOTIFIED" /\ table[flows[f].key] # 0
      /\ \A w \in Worker : pc[w] = "delete" => ~IsUdp(flow[w])
  BY <1>1 DEF UdpKept
<1>4. ASSUME NEW f \in DOMAIN flows, IsUdp(f)
      PROVE  flows'[f].state # "FINISHED_NOTIFIED" /\ table'[flows[f].key] # 0
  <2>1. flows[f].key \in Key
    BY <1>4, TrafficAssumption DEF IsUdp
  <2>2. flows'[f].state # "FINISHED_NOTIFIED"
    <3>1. ASSUME NEW t \in Thread, NEW g, Creates(t, g, f) PROVE FALSE
      <4>1. flows[f].key = packets[pkt[t]].key
        BY <3>1, ZeroIsNothing DEF Creates
      <4>. QED
        BY <1>4, <3>1, <4>1, NoneReplaced
    <3>2. ASSUME NEW w \in Worker, flow[w] = f, pc[w] \in {"notify", "notified", "delete"} PROVE FALSE
      BY <1>3, <1>4, <3>2 DEF UdpStaysOpen
    <3>. QED
      BY <1>2, <1>3, <1>4, <3>1, <3>2, WhoMarks DEF Closed
  <2>3. table'[flows[f].key] # 0
    BY <1>2, <1>3, <1>4, <2>1, WhoErases DEF IsUdp
  <2>. QED
    BY <2>2, <2>3
<1>5. ASSUME NEW f \in DOMAIN flows', f \notin DOMAIN flows
      PROVE  flows'[f].state # "FINISHED_NOTIFIED" /\ table'[flows'[f].key] # 0
  <2>1. PICK t \in Thread : \E g, m : Creates(t, g, m)
    BY <1>5, IdentityKept
  <2>2. packets[pkt[t]].key \in Key
    BY <2>1, PacketOfThread DEF Creates, PacketRecord
  <2>. QED
    BY <1>5, <2>1, <2>2 DEF Creates, NewFlow, TypeOK
<1>6. ASSUME NEW w \in Worker, pc'[w] = "delete" PROVE flows'[flow'[w]].key \notin UdpKey
  <2>1. ASSUME flow'[w] = flow[w], flow[w] \in DOMAIN flows, ~IsUdp(flow[w])
        PROVE  flows'[flow'[w]].key \notin UdpKey
    BY <2>1, IdentityKept DEF SameIdentity, IsUdp
  <2>2. CASE pc[w] = "delete" /\ flow'[w] = flow[w]
    BY <1>3, <2>1, <2>2, FlowOfThread DEF TypeOK
  <2>3. CASE CheckClosed(w)
    <3>1. flow'[w] = flow[w] /\ flow[w] \in DOMAIN flows
      BY <2>3, Classifies DEF CheckClosed
    <3>2. flows[flow[w]].state = "FINISHED_NOTIFIED"
      BY <1>6, <2>3 DEF CheckClosed, Over, Closed, TypeOK
    <3>. QED
      BY <1>3, <2>1, <3>1, <3>2
  <2>4. CASE NotifyQuietly(w) \/ NotifyMark(w)
    <3>1. flow'[w] = flow[w] /\ pc[w] \in {"notify", "notified"}
      BY <2>4 DEF NotifyQuietly, NotifyMark, Goto
    <3>. QED
      BY <2>1, <3>1, FlowOfThread DEF UdpStaysOpen, TypeOK
  <2>5. ASSUME WorkerActs(w) \/ Gets(w), ~CheckClosed(w), ~NotifyQuietly(w), ~NotifyMark(w) PROVE FALSE
    <3>1. PICK x : x # "delete" /\ pc' = [pc EXCEPT ![w] = x]
      BY <2>5 DEF WorkerActs, Gets, Pop, Dec, Arrive, Establish, AddPacket, CheckOpen, NotifyReport,
                  DeleteFlow, BackToLoop, GetFlowFound, GetFlowReport, Creates, AfterGet, Goto
    <3>. QED
      BY <1>6, <3>1 DEF TypeOK
  <2>. QED
    BY <1>6, <2>2, <2>3, <2>4, <2>5, WorkerMoves
<1>. QED
  BY <1>4, <1>5, <1>6, IdentityKept DEF SameIdentity, IsUdp

(* What is in a queue was there before, or was pushed by the reader.       *)
LEMMA QueueMoves ==
  ASSUME TypeOK, [Next]_vars, NEW w \in Worker, NEW i \in DOMAIN queue'[w]
  PROVE  \/ \E j \in DOMAIN queue[w] : queue[w][j] = queue'[w][i]
         \/ PushOk /\ w = PushQueue /\ queue'[w][i] = pkt[Reader] /\ pkt[Reader] # 0 /\ flow[Reader] # 0
<1>0. queue \in [Worker -> Seq(DOMAIN packets)]
  BY DEF TypeOK
<1>1. CASE queue'[w] = queue[w]
  BY <1>1
<1>2. CASE PushOk /\ queue'[w] # queue[w]
  <2>1. pkt[Reader] # 0 /\ flow[Reader] # 0 /\ Reader \in Thread
    BY <1>2 DEF PushOk, TypeOK, Thread
  <2>2. pkt[Reader] \in DOMAIN packets
    BY <2>1, PacketOfThread
  <2>3. w = PushQueue /\ queue'[w] = Append(queue[w], pkt[Reader])
    BY <1>0, <1>2 DEF PushOk
  <2>4. queue[w] \in Seq(DOMAIN packets)
    BY <1>0
  <2>5. /\ DOMAIN Append(queue[w], pkt[Reader]) = DOMAIN queue[w] \cup {Len(queue[w]) + 1}
        /\ \A j \in DOMAIN queue[w] : Append(queue[w], pkt[Reader])[j] = queue[w][j]
        /\ Append(queue[w], pkt[Reader])[Len(queue[w]) + 1] = pkt[Reader]
    <3>. DEFINE S == DOMAIN packets
    <3>1. queue[w] \in Seq(S) /\ pkt[Reader] \in S
      BY <2>2, <2>4
    <3>. HIDE DEF S
    <3>. QED
      BY <3>1, SeqAppend
  <2>. QED
    BY <1>2, <2>1, <2>3, <2>5
<1>3. ASSUME NEW v \in Worker, Pop(v), queue'[w] # queue[w]
      PROVE  \E j \in DOMAIN queue[w] : queue[w][j] = queue'[w][i]
  <2>1. v = w /\ queue'[w] = Tail(queue[w]) /\ queue[w] # << >> /\ queue[w] \in Seq(DOMAIN packets)
    BY <1>0, <1>3 DEF Pop
  <2>2. Len(queue[w]) \in Nat /\ DOMAIN queue[w] = 1 .. Len(queue[w])
    BY <2>1, LenProperties
  <2>3. /\ DOMAIN Tail(queue[w]) = 1 .. Len(queue[w]) - 1
        /\ \A j \in 1 .. Len(queue[w]) - 1 : Tail(queue[w])[j] = queue[w][j + 1]
    BY <2>1, <2>2, HeadTailProperties, LenProperties
  <2>4. i + 1 \in DOMAIN queue[w] /\ queue[w][i + 1] = queue'[w][i]
    BY <2>1, <2>2, <2>3
  <2>. QED
    BY <2>4
<1>4. CASE Join
  BY <1>4 DEF Join
<1>5. PushOk \/ Join \/ (\E v \in Worker : Pop(v)) \/ queue' = queue
  BY WhatMovesPackets DEF Receive, PushFull, AddPacket, Where
<1>. QED
  BY <1>1, <1>2, <1>3, <1>4, <1>5

(* Until a UDP flow is replaced, the packets of each go to one worker.     *)
LEMMA UdpPacketsWithWorkerNext ==
  ASSUME TypeOK, OnePlace, KeysAgree, MutexHeld, UdpPacketsWithWorker, [Next]_vars
  PROVE  UdpPacketsWithWorker'
<1>. SUFFICES ASSUME NoUdpFlowReplaced'
     PROVE  /\ \A w \in Worker : \A i \in DOMAIN queue'[w] :
                 packets'[queue'[w][i]].key \in UdpKey => Assigned(packets[queue[w][i]].key, w)'
            /\ \A w \in Worker : pkt'[w] # 0 /\ packets'[pkt'[w]].key \in UdpKey
                                 => Assigned(packets[pkt[w]].key, w)'
            /\ \A w \in Worker : flow'[w] # 0 /\ IsUdp(flow[w])' => flows'[flow'[w]].tq = w
  BY DEF UdpPacketsWithWorker
<1>. \A w \in Worker : w \in Thread /\ w # Reader
  BY DEF Thread, Worker, Reader
<1>1. NoUdpFlowReplaced /\ SameIdentity
  BY NoneReplaced, IdentityKept
<1>2. ASSUME NEW k, NEW w, Assigned(k, w)
      PROVE  \E f \in DOMAIN flows' : flows'[f].key = k /\ flows'[f].tq = w
  BY <1>1, <1>2 DEF Assigned, SameIdentity
<1>3. /\ \A w \in Worker : \A i \in DOMAIN queue[w] :
           packets[queue[w][i]].key \in UdpKey => Assigned(packets[queue[w][i]].key, w)
      /\ \A w \in Worker : pkt[w] # 0 /\ packets[pkt[w]].key \in UdpKey
                           => Assigned(packets[pkt[w]].key, w)
      /\ \A w \in Worker : flow[w] # 0 /\ IsUdp(flow[w]) => flows[flow[w]].tq = w
  BY <1>1 DEF UdpPacketsWithWorker
<1>4. \A w \in Worker : \A i \in DOMAIN queue[w] : queue[w][i] \in DOMAIN packets
  BY ElementOfSeq, LenProperties DEF TypeOK
<1>5. ASSUME NEW w \in Worker, NEW i \in DOMAIN queue'[w], packets'[queue'[w][i]].key \in UdpKey
      PROVE  Assigned(packets[queue[w][i]].key, w)'
  <2>1. ASSUME NEW j \in DOMAIN queue[w], queue[w][j] = queue'[w][i]
        PROVE  \E f \in DOMAIN flows' : flows'[f].key = packets'[queue'[w][i]].key /\ flows'[f].tq = w
    <3>1. packets'[queue'[w][i]].key = packets[queue[w][j]].key
      BY <1>4, <2>1, PacketsKept
    <3>. QED
      BY <1>2, <1>3, <1>5, <3>1
  <2>2. ASSUME w = PushQueue, queue'[w][i] = pkt[Reader], pkt[Reader] # 0, flow[Reader] # 0
        PROVE  \E f \in DOMAIN flows' : flows'[f].key = packets'[queue'[w][i]].key /\ flows'[f].tq = w
    <3>1. Reader \in Thread
      BY DEF Thread
    <3>2. pkt[Reader] \in DOMAIN packets /\ flow[Reader] \in DOMAIN flows
      BY <2>2, <3>1, PacketOfThread, FlowOfThread
    <3>3. packets[pkt[Reader]].key = flows[flow[Reader]].key
      BY <2>2, <3>1 DEF KeysAgree
    <3>4. packets'[queue'[w][i]].key = flows[flow[Reader]].key
      BY <2>2, <3>2, <3>3, PacketsKept
    <3>. QED
      BY <1>1, <2>2, <3>2, <3>4 DEF SameIdentity, PushQueue
  <2>. QED
    BY <2>1, <2>2, QueueMoves DEF Assigned
<1>6. ASSUME NEW w \in Worker, pkt'[w] # 0, packets'[pkt'[w]].key \in UdpKey
      PROVE  Assigned(packets[pkt[w]].key, w)'
  <2>1. ASSUME pkt'[w] = pkt[w]
        PROVE  \E f \in DOMAIN flows' : flows'[f].key = packets'[pkt'[w]].key /\ flows'[f].tq = w
    <3>1. packets'[pkt'[w]].key = packets[pkt[w]].key
      BY <1>6, <2>1, PacketOfThread, PacketsKept
    <3>. QED
      BY <1>2, <1>3, <1>6, <2>1, <3>1
  <2>2. ASSUME Pop(w)
        PROVE  \E f \in DOMAIN flows' : flows'[f].key = packets'[pkt'[w]].key /\ flows'[f].tq = w
    <3>1. pkt'[w] = Head(queue[w]) /\ queue[w] # << >> /\ queue[w] \in Seq(DOMAIN packets)
      BY <2>2 DEF Pop, TypeOK
    <3>2. 1 \in DOMAIN queue[w] /\ pkt'[w] = queue[w][1]
      BY <3>1, HeadTailProperties, LenProperties, EmptySeq
    <3>3. packets'[pkt'[w]].key = packets[queue[w][1]].key
      BY <1>4, <3>2, PacketsKept
    <3>. QED
      BY <1>2, <1>3, <1>6, <3>2, <3>3
  <2>3. ASSUME WorkerActs(w) \/ Gets(w), ~Pop(w) PROVE pkt'[w] = pkt[w]
    <3>1. ~AddPacket(w)
      BY <1>6 DEF AddPacket, Dispose, TypeOK
    <3>. QED
      BY <2>3, <3>1 DEF WorkerActs, Gets, Dec, Arrive, Establish, CheckOpen, CheckClosed, NotifyQuietly,
                        NotifyReport, NotifyMark, DeleteFlow, shared, GetFlowFound,
                        GetFlowReport, Creates
  <2>. QED
    BY <2>1, <2>2, <2>3, WorkerMoves DEF Assigned
<1>7. ASSUME NEW w \in Worker, flow'[w] # 0, IsUdp(flow[w])' PROVE flows'[flow'[w]].tq = w
  <2>1. ASSUME flow'[w] = flow[w] PROVE flows'[flow'[w]].tq = w
    BY <1>1, <1>3, <1>7, <2>1, FlowOfThread DEF SameIdentity, IsUdp
  <2>2. ASSUME WorkerActs(w) PROVE flow'[w] = flow[w]
    <3>1. ~CheckOpen(w) /\ ~DeleteFlow(w)
      BY <1>7 DEF CheckOpen, DeleteFlow, BackToLoop, TypeOK
    <3>. QED
      BY <2>2, <3>1 DEF WorkerActs, Pop, Dec, Arrive, Establish, AddPacket, CheckClosed, NotifyQuietly,
                        NotifyReport, NotifyMark, shared
  <2>3. ASSUME GetFlowFound(w) \/ GetFlowReport(w) PROVE flows'[flow'[w]].tq = w
    <3>. PICK k : k = packets[pkt[w]].key
      OBVIOUS
    <3>1. pkt[w] # 0 /\ table[k] # 0 /\ flow'[w] = table[k]
      BY <2>3 DEF GetFlowFound, GetFlowReport, Goto, TypeOK
    <3>2. table[k] \in DOMAIN flows /\ flows[table[k]].key = k
      BY <3>1, PacketOfThread, FlowUnderKey DEF PacketRecord, KeysAgree
    <3>3. k \in UdpKey
      BY <1>1, <1>7, <3>1, <3>2 DEF SameIdentity, IsUdp
    <3>4. Assigned(k, w)
      BY <1>3, <3>1, <3>3
    <3>5. flows[table[k]].tq = w
      BY <1>1, <3>2, <3>3, <3>4 DEF Assigned, NoUdpFlowReplaced
    <3>. QED
      BY <1>1, <3>1, <3>2, <3>5 DEF SameIdentity
  <2>4. ASSUME NEW g, NEW m, Creates(w, g, m) PROVE flows'[flow'[w]].tq = w
    BY <2>4 DEF Creates, NewFlow, TypeOK
  <2>. QED
    BY <2>1, <2>2, <2>3, <2>4, WorkerMoves DEF Gets
<1>. QED
  BY <1>5, <1>6, <1>7

(* So the worker a UDP flow was assigned to is the one that has its        *)
(* packets.                                                                *)
LEMMA WithWorker ==
  ASSUME TypeOK, KeysAgree, UdpKept, UdpPacketsWithWorker
  PROVE  UdpOneWorker
<1>. SUFFICES ASSUME NoUdpFlowReplaced
     PROVE  /\ \A w \in Worker : flow[w] # 0 /\ flows[flow[w]].key \in UdpKey
                                 => flows[flow[w]].tq = w
            /\ \A w \in Worker : \A i \in DOMAIN queue[w] :
                 packets[queue[w][i]].key \in UdpKey
                   => /\ table[packets[queue[w][i]].key] # 0
                      /\ flows[table[packets[queue[w][i]].key]].tq = w
  BY DEF UdpOneWorker
<1>1. ASSUME NEW w \in Worker, NEW i \in DOMAIN queue[w], packets[queue[w][i]].key \in UdpKey
      PROVE  /\ table[packets[queue[w][i]].key] # 0
             /\ flows[table[packets[queue[w][i]].key]].tq = w
  <2>. PICK k : k = packets[queue[w][i]].key
    OBVIOUS
  <2>1. k \in UdpKey /\ k \in Key
    BY <1>1, TrafficAssumption
  <2>2. PICK f \in DOMAIN flows : flows[f].key = k /\ flows[f].tq = w
    BY <1>1 DEF UdpPacketsWithWorker, Assigned
  <2>3. ~Ending
    BY <1>1 DEF Ending
  <2>4. table[k] # 0
    BY <2>1, <2>2, <2>3 DEF UdpKept, IsUdp
  <2>5. table[k] \in DOMAIN flows /\ flows[table[k]].key = k
    BY <2>1, <2>4, FlowUnderKey DEF KeysAgree
  <2>6. table[k] = f
    BY <2>1, <2>2, <2>5 DEF NoUdpFlowReplaced
  <2>. QED
    BY <2>2, <2>4, <2>6
<1>. QED
  BY <1>1 DEF UdpPacketsWithWorker, IsUdp

(* Both hold in every state, since their steps need no more than the       *)
(* invariants before.                                                      *)
LEMMA UdpInvariants == Spec => [](UdpKept /\ UdpPacketsWithWorker)
<1>1. Init => UdpKept /\ UdpPacketsWithWorker
  <2>. SUFFICES ASSUME Init PROVE UdpKept /\ UdpPacketsWithWorker
    OBVIOUS
  <2>1. /\ DOMAIN flows = {}
        /\ \A t \in Thread : pc[t] \in {"idle", "loop"} /\ pkt[t] = 0 /\ flow[t] = 0
        /\ \A w \in Worker : w \in Thread /\ DOMAIN queue[w] = {}
    BY DEF Init, Thread
  <2>. QED
    BY <2>1 DEF UdpKept, UdpPacketsWithWorker
<1>2. TypeOK /\ OnePlace /\ KeysAgree /\ MutexHeld /\ UdpStaysOpen /\ UdpKept /\ UdpPacketsWithWorker
      /\ [Next]_vars => (UdpKept /\ UdpPacketsWithWorker)'
  BY UdpKeptNext, UdpPacketsWithWorkerNext
<1>. QED
  BY <1>1, <1>2, TypeCorrect, AlwaysOnePlace, KeysAndMutex, UdpOpen, PTL DEF Spec

(* Until getFlow replaces a UDP flow, the packets of each flow are queued  *)
(* for the worker it was assigned to, and no other worker touches the      *)
(* flow; the flow stays in the table meanwhile.                            *)
THEOREM UdpStaysWithWorker == Spec => []UdpOneWorker
<1>. QED
  BY WithWorker, TypeCorrect, KeysAndMutex, UdpInvariants, PTL

-------------------------------------------------------------------------------
(* A UDP flow is reported as classified once *)

(* Who reports that a flow was classified; nothing unclassifies one.       *)
LEMMA WhoClassifies ==
  ASSUME TypeOK, KeysAgree, MutexHeld, [Next]_vars, NEW f \in DOMAIN flows
  PROVE  \/ /\ flows'[f].clsReports = flows[f].clsReports
            /\ flows[f].classified => flows'[f].classified
         \/ \E w \in Worker :
              /\ CheckOpen(w) \/ CheckClosed(w)
              /\ pc[w] = "check" /\ flow[w] = f
              /\ flows[f].classified /\ ~seen[w].classified
              /\ flows'[f].classified /\ flows'[f].clsReports = flows[f].clsReports + 1
<1>. DEFINE Quietly == /\ flows'[f].clsReports = flows[f].clsReports
                       /\ flows[f].classified => flows'[f].classified
<1>1. SameClasses => Quietly
  BY DEF SameClasses
<1>. HIDE DEF Quietly
<1>2. CASE ReaderActs
  <2>1. SameClasses
    BY <1>2, InPlace, LeavesFlows, Marks, Reports, Counts, Same DEF ReaderActs
  <2>. QED
    BY <1>1, <2>1 DEF Quietly
<1>3. ASSUME NEW w \in Worker, WorkerActs(w), ~(CheckOpen(w) \/ CheckClosed(w)) PROVE Quietly
  <2>1. CASE AddPacket(w)
    BY <2>1, Adds DEF Quietly
  <2>2. ASSUME ~AddPacket(w) PROVE SameClasses
    <3>1. CASE Pop(w) \/ Arrive(w)
      BY <3>1, LeavesFlows, Same
    <3>2. CASE Dec(w)
      BY <3>2, InPlace, Counts
    <3>3. CASE NotifyQuietly(w) \/ NotifyMark(w) \/ DeleteFlow(w)
      BY <3>3, InPlace, Marks, Same
    <3>4. CASE NotifyReport(w)
      BY <3>4, InPlace, Reports
    <3>5. CASE Establish(w)
      BY <3>5, Establishes
    <3>. QED
      BY <1>3, <2>2, <3>1, <3>2, <3>3, <3>4, <3>5 DEF WorkerActs
  <2>. QED
    BY <1>1, <2>1, <2>2
<1>4. ASSUME NEW w \in Worker, CheckOpen(w) \/ CheckClosed(w)
      PROVE  \/ Quietly
             \/ /\ pc[w] = "check" /\ flow[w] = f
                /\ flows[f].classified /\ ~seen[w].classified
                /\ flows'[f].classified /\ flows'[f].clsReports = flows[f].clsReports + 1
  <2>1. pc[w] = "check"
    BY <1>4 DEF CheckOpen, CheckClosed, BackToLoop, Goto
  <2>2. /\ flows'[f].classified = flows[f].classified
        /\ flows'[f].clsReports = IF f = flow[w] /\ flows[f].classified /\ ~seen[w].classified
                                  THEN flows[f].clsReports + 1 ELSE flows[f].clsReports
    BY <1>4, Classifies
  <2>3. CASE f = flow[w] /\ flows[f].classified /\ ~seen[w].classified
    <3>1. flows'[f].clsReports = flows[f].clsReports + 1
      BY <2>2, <2>3
    <3>2. flows'[f].classified
      BY <2>2, <2>3, Zenon
    <3>. QED
      BY <2>1, <2>3, <3>1, <3>2
  <2>4. CASE ~(f = flow[w] /\ flows[f].classified /\ ~seen[w].classified)
    <3>1. flows'[f].clsReports = flows[f].clsReports
      BY <2>2, <2>4
    <3>2. flows[f].classified => flows'[f].classified
      BY <2>2, Zenon
    <3>. QED
      BY <3>1, <3>2 DEF Quietly
  <2>. QED
    BY <2>3, <2>4
<1>5. ASSUME NEW t \in Thread, Gets(t) \/ Quiet(t) PROVE SameClasses
  <2>1. CASE GetFlowReport(t)
    BY <2>1, InPlace, Reports
  <2>2. (\E g, m : Creates(t, g, m)) => SameClasses
    BY DEF Creates
  <2>. QED
    BY <1>5, <2>1, <2>2, LeavesFlows, Same DEF Gets
<1>. QED
  BY <1>1, <1>2, <1>3, <1>4, <1>5, Steps DEF Quietly

(* The worker of a UDP flow is alone in comparing two reads of             *)
(* _flowClassified.                                                        *)
LEMMA UdpClassifiedNext ==
  ASSUME TypeOK, KeysAgree, MutexHeld, UdpPacketsWithWorker, UdpFirstReport, UdpClassifiedOnce,
         [Next]_vars
  PROVE  (UdpFirstReport /\ UdpClassifiedOnce)'
<1>. SUFFICES ASSUME NoUdpFlowReplaced'
     PROVE  /\ \A w \in Worker :
                 pc'[w] \in {"arrive", "establish", "add", "check"} /\ IsUdp(flow[w])' /\ ~seen'[w].classified
                   => flows'[flow'[w]].clsReports = 0
            /\ \A f \in DOMAIN flows' : flows'[f].key \in UdpKey =>
                 flows'[f].clsReports <= IF flows'[f].classified THEN 1 ELSE 0
  BY DEF UdpFirstReport, UdpClassifiedOnce
<1>. \A w \in Worker : w \in Thread /\ w # Reader
  BY DEF Thread, Worker, Reader
<1>1. NoUdpFlowReplaced /\ SameIdentity
  BY NoneReplaced, IdentityKept
<1>2. \A w \in Worker : pc[w] \in {"arrive", "establish", "add", "check"} /\ IsUdp(flow[w]) /\ ~seen[w].classified
                        => flows[flow[w]].clsReports = 0
  BY <1>1 DEF UdpFirstReport
<1>3. ASSUME NEW f \in DOMAIN flows, IsUdp(f)
      PROVE  flows[f].clsReports \in Nat /\ flows[f].clsReports <= IF flows[f].classified THEN 1 ELSE 0
  <2>1. flows[f] \in FlowRecord
    BY ElementOfSeq, LenProperties DEF TypeOK
  <2>. QED
    BY <1>1, <1>3, <2>1 DEF UdpClassifiedOnce, FlowRecord, IsUdp
<1>4. \A w \in Worker : flow[w] # 0 /\ IsUdp(flow[w]) => flows[flow[w]].tq = w
  BY <1>1 DEF UdpPacketsWithWorker
<1>5. ASSUME NEW f \in DOMAIN flows', flows'[f].key \in UdpKey
      PROVE  flows'[f].clsReports <= IF flows'[f].classified THEN 1 ELSE 0
  <2>1. CASE f \notin DOMAIN flows
    <3>1. PICK t \in Thread : \E g, m : Creates(t, g, m)
      BY <2>1, <1>5, IdentityKept
    <3>. QED
      BY <1>5, <2>1, <3>1 DEF Creates, NewFlow
  <2>2. CASE f \in DOMAIN flows
    <3>1. IsUdp(f)
      BY <1>1, <1>5, <2>2 DEF SameIdentity, IsUdp
    <3>2. CASE /\ flows'[f].clsReports = flows[f].clsReports
               /\ flows[f].classified => flows'[f].classified
      <4>1. CASE flows[f].classified
        <5>1. flows[f].clsReports <= 1
          BY <1>3, <2>2, <3>1, <4>1
        <5>2. flows'[f].classified
          BY <3>2, <4>1, Zenon
        <5>. QED
          BY <3>2, <5>1, <5>2
      <4>2. CASE ~flows[f].classified
        <5>1. flows[f].clsReports = 0
          BY <1>3, <2>2, <3>1, <4>2
        <5>. QED
          BY <3>2, <5>1
      <4>. QED
        BY <4>1, <4>2
    <3>3. ASSUME NEW w \in Worker, pc[w] = "check", flow[w] = f, ~seen[w].classified,
                 flows'[f].classified, flows'[f].clsReports = flows[f].clsReports + 1
          PROVE  flows'[f].clsReports <= IF flows'[f].classified THEN 1 ELSE 0
      <4>1. flows[f].clsReports = 0
        BY <1>2, <3>1, <3>3
      <4>. QED
        BY <3>3, <4>1
    <3>. QED
      BY <2>2, <3>2, <3>3, WhoClassifies
  <2>. QED
    BY <2>1, <2>2
<1>6. ASSUME NEW w \in Worker, pc'[w] \in {"arrive", "establish", "add", "check"}, IsUdp(flow[w])',
             ~seen'[w].classified
      PROVE  flows'[flow'[w]].clsReports = 0
  <2>1. /\ flow'[w] = flow[w] /\ flow[w] \in DOMAIN flows /\ ~CheckOpen(w) /\ ~CheckClosed(w)
        /\ \/ pc[w] \in {"arrive", "establish", "add", "check"} /\ seen'[w].classified = seen[w].classified
           \/ Dec(w)
    <3>1. CASE UNCHANGED <<pc[w], pkt[w], flow[w], seen[w]>>
      <4>1. flow[w] \in DOMAIN flows
        BY <1>6, <3>1, FlowOfThread DEF TypeOK
      <4>2. ~CheckOpen(w) /\ ~CheckClosed(w)
        BY <1>6, <3>1 DEF CheckOpen, CheckClosed, BackToLoop, Goto, TypeOK
      <4>. QED
        BY <1>6, <3>1, <4>1, <4>2
    <3>2. CASE WorkerActs(w) \/ Gets(w)
      <4>1. Dec(w) \/ Arrive(w) \/ Establish(w) \/ AddPacket(w)
        <5>1. ASSUME NEW x, x \notin {"arrive", "establish", "add", "check"}, pc' = [pc EXCEPT ![w] = x] PROVE FALSE
          BY <1>6, <5>1 DEF TypeOK
        <5>. QED
          BY <3>2, <5>1 DEF WorkerActs, Gets, Pop, CheckOpen, CheckClosed, NotifyQuietly,
                     NotifyReport, NotifyMark, DeleteFlow, BackToLoop, Goto, GetFlowFound,
                     GetFlowReport, Creates, AfterGet
      <4>2. pc[w] \in {"dec", "arrive", "establish", "add"} /\ flow' = flow
        BY <4>1 DEF Dec, Arrive, Establish, AddPacket, Goto, shared
      <4>3. flow[w] \in DOMAIN flows /\ ~CheckOpen(w) /\ ~CheckClosed(w)
        BY <4>2, FlowOfThread DEF TypeOK, CheckOpen, CheckClosed, BackToLoop, Goto
      <4>4. Arrive(w) \/ Establish(w) \/ AddPacket(w)
              => pc[w] \in {"arrive", "establish", "add", "check"} /\ seen'[w].classified = seen[w].classified
        <5>1. seen \in [Thread -> SeenRecord] /\ seen[w] \in SeenRecord
          BY DEF TypeOK
        <5>. DEFINE f == flows[flow[w]]
        <5>2. Arrive(w) => seen'[w] = [seen[w] EXCEPT !.state = f.state, !.pktCount = f.pktCount,
                                                      !.overall = f.overall]
          BY <5>1 DEF Arrive
        <5>. HIDE DEF f
        <5>3. Arrive(w) => seen'[w].classified = seen[w].classified
          BY <5>1, <5>2 DEF SeenRecord
        <5>. QED
          BY <5>3 DEF Arrive, Establish, AddPacket, Goto
      <4>. QED
        BY <4>1, <4>2, <4>3, <4>4
    <3>. QED
      BY <1>6, <3>1, <3>2, WorkerMoves
  <2>2. IsUdp(flow[w])
    BY <1>1, <1>6, <2>1 DEF SameIdentity, IsUdp
  <2>3. flows[flow[w]].clsReports = 0
    <3>1. CASE Dec(w)
      <4>1. seen'[w].classified = flows[flow[w]].classified
        BY <3>1 DEF Dec, TypeOK, SeenRecord
      <4>2. ~flows[flow[w]].classified
        BY <1>6, <4>1, Zenon
      <4>. QED
        BY <1>3, <2>1, <2>2, <4>2
    <3>2. CASE pc[w] \in {"arrive", "establish", "add", "check"} /\ seen'[w].classified = seen[w].classified
      <4>1. ~seen[w].classified
        BY <1>6, <3>2, Zenon
      <4>. QED
        BY <1>2, <2>2, <3>2, <4>1
    <3>. QED
      BY <2>1, <3>1, <3>2
  <2>4. ASSUME NEW v \in Worker, CheckOpen(v) \/ CheckClosed(v), flow[v] = flow[w] PROVE FALSE
    <3>1. flow[v] # 0
      BY <2>1, <2>4, ZeroIsNothing
    <3>2. v = w
      BY <1>4, <2>2, <2>4, <3>1
    <3>. QED
      BY <2>1, <2>4, <3>2
  <2>. QED
    BY <2>1, <2>3, <2>4, WhoClassifies
<1>. QED
  BY <1>5, <1>6

(* Until getFlow replaces a UDP flow, the observers hear at most once that *)
(* it was classified, and never of a flow that is not.                     *)
THEOREM UdpClassifiedAtMostOnce == Spec => []UdpClassifiedOnce
<1>1. Init => UdpFirstReport /\ UdpClassifiedOnce
  <2>. SUFFICES ASSUME Init PROVE UdpFirstReport /\ UdpClassifiedOnce
    OBVIOUS
  <2>1. DOMAIN flows = {} /\ \A w \in Worker : pc[w] \in {"idle", "loop"}
    BY DEF Init, Thread
  <2>. QED
    BY <2>1 DEF UdpFirstReport, UdpClassifiedOnce
<1>2. /\ TypeOK /\ KeysAgree /\ MutexHeld /\ UdpKept /\ UdpPacketsWithWorker
      /\ UdpFirstReport /\ UdpClassifiedOnce /\ [Next]_vars
      => (UdpFirstReport /\ UdpClassifiedOnce)'
  BY UdpClassifiedNext
<1>. QED
  BY <1>1, <1>2, TypeCorrect, KeysAndMutex, UdpInvariants, PTL DEF Spec

-------------------------------------------------------------------------------
(* The counters *)

(* The code between incPktsInQueue and decPktsInQueue.                     *)
CountedBy(t) == pc[t] \in (IF t = Reader THEN {"push"} ELSE {"get", "replace", "dec"})

(* A thread is alone with its packet.                                      *)
LEMMA Alone ==
  ASSUME TypeOK, OnePlace, NEW t \in Thread, pkt[t] # 0
  PROVE  /\ pkt[t] \in DOMAIN packets /\ ~Queued(pkt[t])
         /\ \A u \in Thread : pkt[u] = pkt[t] => u = t
BY PacketOfThread DEF OnePlace, NothingShared, Held

(* If no queue changes and no thread enters or leaves the counted code,    *)
(* the packets counted are the same.                                       *)
LEMMA SameCounted ==
  ASSUME TypeOK, TypeOK', DOMAIN packets \subseteq DOMAIN packets', UNCHANGED queue,
         \A t \in Thread : /\ CountedBy(t) <=> CountedBy(t)'
                           /\ CountedBy(t) => pkt'[t] = pkt[t]
  PROVE  Counted' = Counted
<1>1. \A p : Queued(p)' <=> Queued(p)
  BY DEF Queued
<1>2. \A p : Queued(p) => p \in DOMAIN packets
  BY ElementOfSeq, LenProperties DEF Queued, TypeOK
<1>3. \A t \in Thread : CountedBy(t) => pkt[t] # 0 /\ pkt[t] \in DOMAIN packets
  <2>1. ASSUME NEW t \in Thread, CountedBy(t) PROVE pkt[t] # 0
    BY <2>1 DEF CountedBy, TypeOK
  <2>. QED
    BY <2>1, PacketOfThread
<1>4. Counted = {p \in DOMAIN packets : Queued(p) \/ \E t \in Thread : pkt[t] = p /\ CountedBy(t)}
  BY DEF Counted, CountedBy
<1>5. Counted' = {p \in DOMAIN packets' : Queued(p)' \/ \E t \in Thread : pkt'[t] = p /\ CountedBy(t)'}
  BY DEF Counted, CountedBy
<1>6. \A p : p \in Counted' <=> p \in Counted
  BY <1>1, <1>2, <1>3, <1>4, <1>5
<1>. QED
  BY <1>6

(* A thread that enters or leaves the counted code with its packet.        *)
LEMMA OneCounted ==
  ASSUME TypeOK, OnePlace, DOMAIN packets' = DOMAIN packets, UNCHANGED queue,
         NEW t \in Thread, pkt[t] # 0, CountedBy(t) # CountedBy(t)',
         CountedBy(t)' => pkt'[t] = pkt[t],
         \A u \in Thread : u # t => pkt'[u] = pkt[u] /\ pc'[u] = pc[u]
  PROVE  IF CountedBy(t)' THEN pkt[t] \notin Counted /\ Counted' = Counted \cup {pkt[t]}
                          ELSE pkt[t] \in Counted /\ Counted' = Counted \ {pkt[t]}
<1>. PICK q : q = pkt[t]
  OBVIOUS
<1>1. q \in DOMAIN packets /\ ~Queued(q) /\ \A u \in Thread : pkt[u] = q => u = t
  BY Alone
<1>2. \A p : Queued(p)' <=> Queued(p)
  BY DEF Queued
<1>3. \A u \in Thread : u # t => (CountedBy(u)' <=> CountedBy(u))
  BY DEF CountedBy
<1>4. Counted = {p \in DOMAIN packets : Queued(p) \/ \E u \in Thread : pkt[u] = p /\ CountedBy(u)}
  BY DEF Counted, CountedBy
<1>5. Counted' = {p \in DOMAIN packets : Queued(p)' \/ \E u \in Thread : pkt'[u] = p /\ CountedBy(u)'}
  BY DEF Counted, CountedBy
<1>6. CASE CountedBy(t)'
  <2>1. ~CountedBy(t) /\ pkt'[t] = q
    BY <1>6 DEF CountedBy
  <2>2. q \notin Counted
    BY <1>1, <1>4, <2>1
  <2>3. \A p : p \in Counted' <=> p \in Counted \/ p = q
    BY <1>1, <1>2, <1>3, <1>4, <1>5, <1>6, <2>1
  <2>. QED
    BY <1>6, <2>2, <2>3
<1>7. CASE ~CountedBy(t)'
  <2>1. CountedBy(t)
    BY <1>7 DEF CountedBy
  <2>2. q \in Counted
    BY <1>1, <1>4, <2>1
  <2>3. \A p : p \in Counted' <=> p \in Counted /\ p # q
    BY <1>1, <1>2, <1>3, <1>4, <1>5, <1>7, <2>1
  <2>. QED
    BY <1>7, <2>2, <2>3
<1>. QED
  BY <1>6, <1>7

(* A push and a pop pass a packet on, counted.                             *)
LEMMA PassedOn ==
  ASSUME TypeOK, OnePlace, PushOk \/ \E w \in Worker : Pop(w)
  PROVE  Counted' = Counted
<1>0. /\ pc \in [Thread -> ReaderPc \cup WorkerPc] /\ pkt \in [Thread -> {0} \cup DOMAIN packets]
      /\ Reader \in Thread /\ \A w \in Worker : w \in Thread /\ w # Reader
  BY DEF TypeOK, Thread, Worker, Reader
<1>1. packets' = packets
  BY DEF PushOk, Pop
<1>4. Counted = {p \in DOMAIN packets : Queued(p) \/ \E u \in Thread : pkt[u] = p /\ CountedBy(u)}
  BY DEF Counted, CountedBy
<1>5. Counted' = {p \in DOMAIN packets : Queued(p)' \/ \E u \in Thread : pkt'[u] = p /\ CountedBy(u)'}
  BY <1>1 DEF Counted, CountedBy
<1>6. CASE PushOk
  <2>1. pkt' = [pkt EXCEPT ![Reader] = 0] /\ pkt[Reader] # 0 /\ flow[Reader] # 0 /\ CountedBy(Reader)
    BY <1>0, <1>6 DEF PushOk, TypeOK, CountedBy
  <2>2. flows[flow[Reader]].tq \in Worker
    BY <1>0, <2>1, FlowOfThread DEF FlowRecord
  <2>3. pc'[Reader] = "idle" /\ \A w \in Worker : pc'[w] = pc[w] \/ (pc[w] = "waiting" /\ pc'[w] = "loop")
    BY <1>0, <1>6, <2>2 DEF PushOk, PushQueue
  <2>4. ~CountedBy(Reader)' /\ \A w \in Worker : CountedBy(w)' <=> CountedBy(w)
    BY <1>0, <2>3 DEF CountedBy
  <2>5. /\ \A p : Queued(p)' <=> Queued(p) \/ p = pkt[Reader]
        /\ pkt[Reader] \in DOMAIN packets
    BY <1>6, PushedQueue
  <2>6. \A u \in Thread : u # Reader => u \in Worker /\ pkt'[u] = pkt[u]
    BY <1>0, <2>1 DEF Thread
  <2>7. \A p : p \in Counted' <=> p \in Counted
    BY <1>0, <1>4, <1>5, <2>1, <2>4, <2>5, <2>6
  <2>. QED
    BY <2>7
<1>7. ASSUME NEW w \in Worker, Pop(w) PROVE Counted' = Counted
  <2>. PICK q : q = Head(queue[w])
    OBVIOUS
  <2>1. Queued(q) /\ q \in DOMAIN packets /\ \A p : Queued(p)' <=> Queued(p) /\ p # q
    BY <1>7, PoppedQueue
  <2>2. /\ pkt' = [pkt EXCEPT ![w] = q] /\ pc' = [pc EXCEPT ![w] = "get"] /\ pc[w] = "loop"
    BY <1>7 DEF Pop, Goto
  <2>3. CountedBy(w)' /\ ~CountedBy(w) /\ pkt'[w] = q
    BY <1>0, <2>2 DEF CountedBy
  <2>4. \A u \in Thread : u # w => pkt'[u] = pkt[u] /\ (CountedBy(u)' <=> CountedBy(u))
    BY <1>0, <2>2 DEF CountedBy
  <2>5. \A p : p \in Counted' <=> p \in Counted
    BY <1>0, <1>4, <1>5, <2>1, <2>3, <2>4
  <2>. QED
    BY <2>5
<1>. QED
  BY <1>6, <1>7

(* Thread t counts its packet in its flow (d = 1), or counts it out.       *)
Ticks(t, d) ==
  /\ d = 1 => t = Reader /\ Inc
  /\ d = -1 => IF t = Reader THEN PushFull ELSE t \in Worker /\ Dec(t)
  /\ pkt[t] \in DOMAIN packets /\ flow[t] \in DOMAIN flows
  /\ packets[pkt[t]].key = flows[flow[t]].key
  /\ DOMAIN flows' = DOMAIN flows
  /\ \A f \in DOMAIN flows :
       flows'[f].count = IF f = flow[t] THEN flows[f].count + d ELSE flows[f].count
  /\ d = 1 => pkt[t] \notin Counted /\ Counted' = Counted \cup {pkt[t]}
  /\ d = -1 => pkt[t] \in Counted /\ Counted' = Counted \ {pkt[t]}

(* What goes in and out of the counted code goes in and out of a counter.  *)
LEMMA CountingSteps ==
  ASSUME TypeOK, OnePlace, KeysAgree, MutexHeld, [Next]_vars, ~Destroyed'
  PROVE  \/ \E t \in Thread : Ticks(t, 1) \/ Ticks(t, -1)
         \/ Counted' = Counted /\ SameCounts
<1>. TypeOK'
  BY NextType
<1>0. /\ pc \in [Thread -> ReaderPc \cup WorkerPc] /\ pkt \in [Thread -> {0} \cup DOMAIN packets]
      /\ Reader \in Thread /\ \A w \in Worker : w \in Thread /\ w # Reader
  BY DEF TypeOK, Thread, Worker, Reader
<1>1. \A p \in DOMAIN packets : p \in DOMAIN packets'
  BY PacketsKept
<1>2. ASSUME UNCHANGED <<queue, pkt>>, NEW t \in Thread, NEW x, pc' = [pc EXCEPT ![t] = x],
             CountedBy(t) <=> x \in (IF t = Reader THEN {"push"} ELSE {"get", "replace", "dec"})
      PROVE  Counted' = Counted
  <2>1. CountedBy(t)' <=> CountedBy(t)
    BY <1>0, <1>2 DEF CountedBy
  <2>2. \A u \in Thread : u # t => (CountedBy(u)' <=> CountedBy(u))
    BY <1>0, <1>2 DEF CountedBy
  <2>. QED
    BY <1>1, <1>2, <2>1, <2>2, SameCounted
<1>3. ASSUME UNCHANGED <<queue, pkt, pc>> PROVE Counted' = Counted
  <2>1. \A t \in Thread : CountedBy(t)' <=> CountedBy(t)
    BY <1>3 DEF CountedBy
  <2>. QED
    BY <1>1, <1>3, <2>1, SameCounted
<1>4. ASSUME NEW t \in Thread, pc[t] \in {"inc", "push", "dec"}
      PROVE  /\ pkt[t] # 0 /\ pkt[t] \in DOMAIN packets /\ flow[t] \in DOMAIN flows
             /\ packets[pkt[t]].key = flows[flow[t]].key
  <2>1. pkt[t] # 0 /\ flow[t] # 0
    BY <1>4 DEF TypeOK
  <2>. QED
    BY <2>1, PacketOfThread, FlowOfThread DEF KeysAgree
<1>5. ASSUME ReaderActs
      PROVE  Ticks(Reader, 1) \/ Ticks(Reader, -1) \/ (Counted' = Counted /\ SameCounts)
  <2>1. ASSUME NEW shape \in Traffic, NEW ts \in Clock .. MaxClock, Receive(shape, ts)
        PROVE  Counted' = Counted
    <3>1. /\ queue' = queue /\ pc[Reader] = "idle"
          /\ pc' = pc \/ pc' = [pc EXCEPT ![Reader] = "get"]
          /\ pkt' = pkt \/ pkt' = [pkt EXCEPT ![Reader] = Len(packets) + 1]
      BY <2>1 DEF Receive
    <3>2. \A u \in Thread : u # Reader => pkt'[u] = pkt[u] /\ (CountedBy(u)' <=> CountedBy(u))
      BY <1>0, <3>1 DEF CountedBy
    <3>3. ~CountedBy(Reader) /\ ~CountedBy(Reader)'
      BY <1>0, <2>1 DEF Receive, CountedBy
    <3>. QED
      BY <1>1, <3>1, <3>2, <3>3, SameCounted
  <2>2. CASE Inc
    <3>1. /\ pc[Reader] = "inc" /\ pc' = [pc EXCEPT ![Reader] = "push"]
          /\ UNCHANGED <<packets, queue, pkt>>
      BY <2>2 DEF Inc, Goto
    <3>2. CountedBy(Reader)' /\ ~CountedBy(Reader)
      BY <1>0, <3>1 DEF CountedBy
    <3>3. \A u \in Thread : u # Reader => pc'[u] = pc[u]
      BY <1>0, <3>1
    <3>4. pkt[Reader] \notin Counted /\ Counted' = Counted \cup {pkt[Reader]}
      BY <1>0, <1>4, <3>1, <3>2, <3>3, OneCounted
    <3>. QED
      BY <1>0, <1>4, <2>2, <3>1, <3>4, InPlace, Counts DEF Ticks
  <2>3. CASE PushOk
    BY <2>3, PassedOn, LeavesFlows, Same
  <2>4. CASE PushFull
    <3>1. /\ pc[Reader] = "push" /\ pc' = [pc EXCEPT ![Reader] = "idle"]
          /\ UNCHANGED queue /\ pkt' = [pkt EXCEPT ![Reader] = 0] /\ DOMAIN packets' = DOMAIN packets
      BY <2>4 DEF PushFull, Goto, Dispose
    <3>2. ~CountedBy(Reader)' /\ CountedBy(Reader)
      BY <1>0, <3>1 DEF CountedBy
    <3>3. \A u \in Thread : u # Reader => pc'[u] = pc[u] /\ pkt'[u] = pkt[u]
      BY <1>0, <3>1
    <3>4. pkt[Reader] \in Counted /\ Counted' = Counted \ {pkt[Reader]}
      BY <1>0, <1>4, <3>1, <3>2, <3>3, OneCounted
    <3>. QED
      BY <1>0, <1>4, <2>4, <3>1, <3>4, InPlace, Counts DEF Ticks
  <2>5. CASE LockTable \/ UnlockTable
    <3>1. /\ UNCHANGED <<queue, pkt>>
          /\ \E x \in {"finish", "closing"} : pc' = [pc EXCEPT ![Reader] = x]
          /\ pc[Reader] \in {"wait_empty", "finish"}
      BY <2>5 DEF LockTable, UnlockTable, Goto
    <3>2. Counted' = Counted
      BY <1>0, <1>2, <3>1 DEF CountedBy
    <3>. QED
      BY <2>5, <3>2, LeavesFlows, Same
  <2>6. ASSUME NEW k \in Key, FinishFlowQuietly(k) PROVE Counted' = Counted /\ SameCounts
    BY <1>3, <2>6, InPlace, Marks DEF FinishFlowQuietly, local
  <2>7. ASSUME NEW k \in Key, FinishFlowReport(k) PROVE Counted' = Counted /\ SameCounts
    <3>1. /\ UNCHANGED <<queue, pkt>> /\ pc' = [pc EXCEPT ![Reader] = "finish_flow"]
          /\ pc[Reader] = "finish"
      BY <2>7 DEF FinishFlowReport, Goto
    <3>2. Counted' = Counted
      BY <1>0, <1>2, <3>1 DEF CountedBy
    <3>. QED
      BY <2>7, <3>2, InPlace, Reports
  <2>8. CASE FinishFlowErase
    <3>1. /\ UNCHANGED <<queue, pkt>> /\ pc' = [pc EXCEPT ![Reader] = "finish"]
          /\ pc[Reader] = "finish_flow"
      BY <2>8 DEF FinishFlowErase, Goto
    <3>2. Counted' = Counted
      BY <1>0, <1>2, <3>1 DEF CountedBy
    <3>. QED
      BY <2>8, <3>2, InPlace, Marks
  <2>. QED
    BY <1>5, <2>1, <2>2, <2>3, <2>4, <2>5, <2>6, <2>7, <2>8, LeavesFlows, Same DEF ReaderActs
<1>6. ASSUME NEW w \in Worker, WorkerActs(w)
      PROVE  Ticks(w, -1) \/ (Counted' = Counted /\ SameCounts)
  <2>1. CASE Pop(w)
    BY <2>1, PassedOn, LeavesFlows, Same
  <2>2. CASE Dec(w)
    <3>1. /\ pc[w] = "dec" /\ pc' = [pc EXCEPT ![w] = "arrive"]
          /\ UNCHANGED <<packets, queue, pkt>>
      BY <2>2 DEF Dec, Goto
    <3>2. ~CountedBy(w)' /\ CountedBy(w)
      BY <1>0, <3>1 DEF CountedBy
    <3>3. \A u \in Thread : u # w => pc'[u] = pc[u]
      BY <1>0, <3>1
    <3>4. pkt[w] \in Counted /\ Counted' = Counted \ {pkt[w]}
      BY <1>0, <1>4, <3>1, <3>2, <3>3, OneCounted
    <3>5. flow[w] \in DOMAIN flows /\ flows' = [flows EXCEPT ![flow[w]].count = @ + (-1)]
      BY <2>2, InPlace
    <3>. QED
      BY <1>0, <1>4, <2>2, <3>1, <3>4, <3>5, Counts DEF Ticks
  <2>3. CASE AddPacket(w)
    <3>1. /\ pc[w] = "add" /\ pc' = [pc EXCEPT ![w] = "check"]
          /\ UNCHANGED queue /\ pkt' = [pkt EXCEPT ![w] = 0]
      BY <2>3 DEF AddPacket, Goto, Dispose
    <3>2. ~CountedBy(w) /\ ~CountedBy(w)'
      BY <1>0, <3>1 DEF CountedBy
    <3>3. \A u \in Thread : u # w => pkt'[u] = pkt[u] /\ (CountedBy(u)' <=> CountedBy(u))
      BY <1>0, <3>1 DEF CountedBy
    <3>4. Counted' = Counted
      BY <1>1, <3>1, <3>2, <3>3, SameCounted
    <3>. QED
      BY <2>3, <3>4, Adds
  <2>4. ASSUME ~Pop(w), ~Dec(w), ~AddPacket(w) PROVE Counted' = Counted
    <3>1. /\ UNCHANGED <<queue, pkt>> /\ pc[w] \in {"arrive", "establish", "check", "notify", "notified", "delete"}
          /\ \E x \in {"establish", "add", "loop", "notify", "delete", "notified"} : pc' = [pc EXCEPT ![w] = x]
      BY <1>6, <2>4 DEF WorkerActs, Arrive, Establish, CheckOpen, CheckClosed, NotifyQuietly, NotifyReport,
                        NotifyMark, DeleteFlow, BackToLoop, Goto, shared
    <3>. QED
      BY <1>0, <1>2, <3>1 DEF CountedBy
  <2>5. CheckOpen(w) \/ CheckClosed(w) => SameCounts
    BY Classifies
  <2>6. NotifyQuietly(w) \/ NotifyMark(w) \/ DeleteFlow(w) => SameCounts
    BY InPlace, Marks, Same
  <2>7. NotifyReport(w) => SameCounts
    BY InPlace, Reports
  <2>8. Arrive(w) \/ Establish(w) => SameCounts
    BY LeavesFlows, Same, Establishes
  <2>. QED
    BY <1>6, <2>1, <2>2, <2>3, <2>4, <2>5, <2>6, <2>7, <2>8 DEF WorkerActs
<1>7. ASSUME NEW t \in Thread, Gets(t) \/ Quiet(t) PROVE Counted' = Counted /\ SameCounts
  <2>1. CASE Quiet(t)
    <3>1. pc' # pc => \E x : /\ pc' = [pc EXCEPT ![t] = x]
                             /\ pc[t] \notin {"push", "get", "replace", "dec"}
                             /\ x \notin {"push", "get", "replace", "dec"}
      BY <2>1 DEF Quiet
    <3>2. ~Join
      BY <1>0 DEF Join, Goto, Destroyed
    <3>3. Counted' = Counted
      BY <1>2, <1>3, <2>1, <3>1, <3>2 DEF Quiet, CountedBy
    <3>. QED
      BY <2>1, <3>3, LeavesFlows, Same
  <2>2. CASE Gets(t)
    <3>1. UNCHANGED <<queue, pkt>> /\ pc[t] \in {"get", "replace"}
          /\ \E x \in {AfterGet(t), "replace"} : pc' = [pc EXCEPT ![t] = x]
      BY <2>2 DEF Gets, GetFlowFound, GetFlowReport, Creates, Goto
    <3>2. Counted' = Counted
      BY <1>0, <1>2, <3>1 DEF CountedBy, AfterGet
    <3>3. GetFlowReport(t) => SameCounts
      BY InPlace, Reports
    <3>4. (\E g, m : Creates(t, g, m)) => SameCounts
      BY DEF Creates
    <3>. QED
      BY <2>2, <3>2, <3>3, <3>4, LeavesFlows, Same DEF Gets
  <2>. QED
    BY <1>7, <2>1, <2>2
<1>. QED
  BY <1>0, <1>5, <1>6, <1>7, Steps

(* The packets counted are finitely many, and were all read.               *)
LEMMA CountedFinite ==
  ASSUME TypeOK
  PROVE  Counted \subseteq DOMAIN packets /\ IsFiniteSet(Counted)
<1>1. DOMAIN packets = 1 .. Len(packets) /\ Len(packets) \in Nat
  BY LenProperties DEF TypeOK
<1>2. IsFiniteSet(DOMAIN packets)
  BY <1>1, FS_Interval
<1>3. Counted \subseteq DOMAIN packets
  BY DEF Counted
<1>. QED
  BY <1>2, <1>3, FS_Subset

(* A UDP packet that is counted has a flow.                                *)
LEMMA CountedHasFlow ==
  ASSUME TypeOK, KeysAgree, UdpPacketsWithWorker, NoUdpFlowReplaced,
         NEW p \in Counted, packets[p].key \in UdpKey
  PROVE  \E f \in DOMAIN flows : flows[f].key = packets[p].key
<1>1. CASE Queued(p)
  BY <1>1 DEF Queued, UdpPacketsWithWorker, Assigned
<1>2. ASSUME NEW w \in Worker, pkt[w] = p
      PROVE  \E f \in DOMAIN flows : flows[f].key = packets[p].key
  <2>1. pkt[w] # 0
    BY <1>2, ZeroIsNothing DEF Counted
  <2>. QED
    BY <1>2, <2>1 DEF UdpPacketsWithWorker, Assigned
<1>3. ASSUME pkt[Reader] = p, pc[Reader] = "push"
      PROVE  \E f \in DOMAIN flows : flows[f].key = packets[p].key
  <2>1. pkt[Reader] # 0 /\ flow[Reader] # 0 /\ Reader \in Thread
    BY <1>3 DEF TypeOK, Thread
  <2>. QED
    BY <1>3, <2>1, FlowOfThread DEF KeysAgree
<1>. QED
  BY <1>1, <1>2, <1>3 DEF Counted, Thread

(* A flow's packets go in and out of its own counter.                      *)
LEMMA UdpCountExactNext ==
  ASSUME TypeOK, OnePlace, KeysAgree, MutexHeld, UdpPacketsWithWorker, UdpCountExact, [Next]_vars
  PROVE  UdpCountExact'
<1>. DEFINE Of(k) == {p \in Counted : packets[p].key = k}
<1>. SUFFICES ASSUME NoUdpFlowReplaced', ~Destroyed', NEW f \in DOMAIN flows', flows'[f].key \in UdpKey
     PROVE  flows'[f].count = Cardinality({p \in Counted' : packets'[p].key = flows'[f].key})
  BY DEF UdpCountExact
<1>1. NoUdpFlowReplaced /\ SameIdentity /\ ~Destroyed
  BY NoneReplaced, IdentityKept, StaysDestroyed
<1>2. Counted \subseteq DOMAIN packets /\ IsFiniteSet(Counted)
  BY CountedFinite
<1>3. \A p \in Counted : packets'[p].key = packets[p].key
  BY <1>2, PacketsKept
<1>4. \A k : Of(k) \subseteq Counted /\ IsFiniteSet(Of(k))
  BY <1>2, FS_Subset
<1>5. CASE f \notin DOMAIN flows
  <2>1. PICK t \in Thread : \E g, m : Creates(t, g, m)
    BY <1>5, IdentityKept
  <2>2. f \in DOMAIN flows' /\ DOMAIN flows' # DOMAIN flows
    BY <1>5
  <2>3. Counted' = Counted
    BY <2>2, CountingSteps DEF Ticks
  <2>4. flows'[f].key = packets[pkt[t]].key /\ flows'[f].count = 0
    BY <1>5, <2>1 DEF Creates, NewFlow
  <2>5. ASSUME NEW p \in Counted, packets[p].key = flows'[f].key PROVE FALSE
    <3>1. PICK h \in DOMAIN flows : flows[h].key = packets[p].key
      BY <1>1, <2>5, CountedHasFlow
    <3>2. IsUdp(h) /\ flows[h].key = packets[pkt[t]].key
      BY <2>4, <2>5, <3>1 DEF IsUdp
    <3>. QED
      BY <2>1, <3>2, NoneReplaced
  <2>6. {p \in Counted' : packets'[p].key = flows'[f].key} = {}
    BY <1>3, <2>3, <2>5
  <2>. QED
    BY <2>4, <2>6, FS_EmptySet
<1>6. CASE f \in DOMAIN flows
  <2>. PICK k : k = flows[f].key
    OBVIOUS
  <2>1. flows'[f].key = k /\ k \in UdpKey /\ flows[f].count = Cardinality(Of(k))
    BY <1>1, <1>6 DEF SameIdentity, UdpCountExact
  <2>2. CASE Counted' = Counted /\ SameCounts
    <3>1. {p \in Counted' : packets'[p].key = k} = Of(k)
      BY <1>3, <2>2
    <3>. QED
      BY <1>6, <2>1, <2>2, <3>1 DEF SameCounts
  <2>3. ASSUME NEW t \in Thread, Ticks(t, 1) \/ Ticks(t, -1), flow[t] # f
        PROVE  flows'[f].count = Cardinality({p \in Counted' : packets'[p].key = k})
    <3>1. packets[pkt[t]].key # k /\ flows'[f].count = flows[f].count /\ pkt[t] \in DOMAIN packets
      BY <1>1, <1>6, <2>1, <2>3 DEF Ticks, NoUdpFlowReplaced
    <3>2. packets'[pkt[t]].key # k
      BY <3>1, PacketsKept
    <3>3. {p \in Counted' : packets'[p].key = k} = Of(k)
      BY <1>3, <2>3, <3>1, <3>2 DEF Ticks
    <3>. QED
      BY <2>1, <3>1, <3>3
  <2>4. ASSUME NEW t \in Thread, Ticks(t, 1), flow[t] = f
        PROVE  flows'[f].count = Cardinality({p \in Counted' : packets'[p].key = k})
    <3>1. /\ packets[pkt[t]].key = k /\ flows'[f].count = flows[f].count + 1
          /\ pkt[t] \in DOMAIN packets /\ pkt[t] \notin Counted /\ Counted' = Counted \cup {pkt[t]}
      BY <1>6, <2>4 DEF Ticks
    <3>2. packets'[pkt[t]].key = k
      BY <3>1, PacketsKept
    <3>3. {p \in Counted' : packets'[p].key = k} = Of(k) \cup {pkt[t]} /\ pkt[t] \notin Of(k)
      BY <1>3, <3>1, <3>2
    <3>. PICK S, q : S = Of(k) /\ q = pkt[t]
      OBVIOUS
    <3>4. IsFiniteSet(S) /\ q \notin S
      <4>1. IsFiniteSet(Of(k))
        BY <1>4
      <4>. QED
        BY <3>3, <4>1
    <3>5. Cardinality(S \cup {q}) = Cardinality(S) + 1
      BY <3>4, OneMore
    <3>. QED
      BY <2>1, <3>1, <3>3, <3>5
  <2>5. ASSUME NEW t \in Thread, Ticks(t, -1), flow[t] = f
        PROVE  flows'[f].count = Cardinality({p \in Counted' : packets'[p].key = k})
    <3>1. /\ packets[pkt[t]].key = k /\ flows'[f].count = flows[f].count + (-1)
          /\ pkt[t] \in Counted /\ Counted' = Counted \ {pkt[t]}
      BY <1>6, <2>5 DEF Ticks
    <3>2. {p \in Counted' : packets'[p].key = k} = Of(k) \ {pkt[t]} /\ pkt[t] \in Of(k)
      BY <1>3, <3>1
    <3>3. IsFiniteSet(Of(k)) /\ pkt[t] \in Of(k)
      <4>1. IsFiniteSet(Of(k))
        BY <1>4
      <4>. QED
        BY <3>2, <4>1
    <3>. PICK S, q : S = Of(k) /\ q = pkt[t]
      OBVIOUS
    <3>4. IsFiniteSet(S) /\ q \in S
      BY <3>3
    <3>5. Cardinality(S) = Cardinality(S \ {q}) + 1 /\ Cardinality(S \ {q}) \in Nat
      BY <3>4, OneLess
    <3>. PICK n : n = Cardinality(S \ {q})
      OBVIOUS
    <3>6. n \in Nat /\ Cardinality(S) = n + 1
      BY <3>5
    <3>7. flows[f].count = n + 1
      BY <2>1, <3>6
    <3>8. flows'[f].count = n
      BY <3>1, <3>6, <3>7
    <3>9. Cardinality({p \in Counted' : packets'[p].key = k}) = n
      BY <3>2
    <3>. QED
      BY <3>8, <3>9
  <2>. QED
    BY <2>1, <2>2, <2>3, <2>4, <2>5, CountingSteps
<1>. QED
  BY <1>5, <1>6

(* Until getFlow replaces a UDP flow, the counter of each is the number of *)
(* its packets between incPktsInQueue and decPktsInQueue: the timeout in   *)
(* getFlow and the wait in finished() see exactly the packets under way.   *)
THEOREM UdpCountsExactly == Spec => []UdpCountExact
<1>1. Init => UdpCountExact
  <2>1. Init => DOMAIN flows = {}
    BY DEF Init
  <2>. QED
    BY <2>1 DEF UdpCountExact
<1>2. /\ TypeOK /\ OnePlace /\ KeysAgree /\ MutexHeld /\ UdpKept /\ UdpPacketsWithWorker
      /\ UdpCountExact /\ [Next]_vars
      => UdpCountExact'
  BY UdpCountExactNext
<1>. QED
  BY <1>1, <1>2, TypeCorrect, AlwaysOnePlace, KeysAndMutex, UdpInvariants, PTL DEF Spec

-------------------------------------------------------------------------------
(* The counters together *)

(* The total is a sum in the sense of the lemmas.                          *)
TotalSums ==
  \E g \in Sums([n \in DOMAIN flows |-> flows[n].count], Len(flows)) :
    TotalCount = g[Len(flows)]

(* The counters of the flows there are add up to some total.               *)
LEMMA TotalIsSum == TypeOK => TotalSums
<1>. SUFFICES ASSUME TypeOK PROVE TotalSums
  OBVIOUS
<1>. DEFINE c == [n \in DOMAIN flows |-> flows[n].count]
            l == Len(flows)
            h == CHOOSE s : s = [n \in 0 .. l |-> IF n = 0 THEN 0 ELSE s[n - 1] + c[n]]
<1>1. l \in Nat /\ DOMAIN flows = 1 .. l /\ \A n \in 1 .. l : flows[n] \in FlowRecord
  BY LenProperties, ElementOfSeq DEF TypeOK
<1>2. \A n \in 1 .. l : c[n] \in Int /\ c[n] = flows[n].count
  BY <1>1 DEF FlowRecord
<1>3. TotalCount = h[l]
  <2>1. \A s : [n \in 0 .. l |-> IF n = 0 THEN 0 ELSE s[n - 1] + c[n]]
             = [n \in 0 .. l |-> IF n = 0 THEN 0 ELSE s[n - 1] + flows[n].count]
    BY <1>1, <1>2
  <2>2. h = CHOOSE s : s = [n \in 0 .. l |-> IF n = 0 THEN 0 ELSE s[n - 1] + flows[n].count]
    BY <2>1
  <2>. QED
    BY <2>2 DEF TotalCount
<1>. HIDE DEF c, l
<1>4. h \in Sums(c, l)
  BY <1>1, <1>2, SumsDefined
<1>. QED
  BY <1>3, <1>4 DEF c, l, TotalSums

(* What is known of the counters there are.                                *)
LEMMA CountersTyped ==
  TypeOK => /\ Len(flows) \in Nat /\ DOMAIN flows = 1 .. Len(flows)
            /\ \A n \in DOMAIN flows : flows[n].count \in Int
<1>1. TypeOK => \A n \in DOMAIN flows : flows[n] \in FlowRecord
  BY LenProperties, ElementOfSeq DEF TypeOK
<1>. QED
  BY <1>1, LenProperties DEF TypeOK, FlowRecord

(* Counting a packet in or out changes the sum as much as the number.      *)
LEMMA CountsAddUpNext ==
  ASSUME TypeOK, OnePlace, KeysAgree, MutexHeld, CountsAddUp, [Next]_vars
  PROVE  CountsAddUp'
<1>. SUFFICES ASSUME ~Destroyed' PROVE CountsAddUp'
  BY DEF CountsAddUp
<1>. TypeOK' /\ ~Destroyed
  BY NextType, StaysDestroyed
<1>. DEFINE c == [n \in DOMAIN flows |-> flows[n].count]
            e == [n \in DOMAIN flows' |-> flows'[n].count]
            l == Len(flows)
            m == Len(flows')
<1>1. /\ l \in Nat /\ DOMAIN flows = 1 .. l /\ \A n \in 1 .. l : c[n] = flows[n].count /\ c[n] \in Int
      /\ m \in Nat /\ DOMAIN flows' = 1 .. m /\ \A n \in 1 .. m : e[n] = flows'[n].count
  <2>1. (/\ Len(flows) \in Nat /\ DOMAIN flows = 1 .. Len(flows)
         /\ \A n \in DOMAIN flows : flows[n].count \in Int)'
    BY CountersTyped, PTL
  <2>. QED
    BY <2>1, CountersTyped
<1>2. PICK g \in Sums(c, l) : TotalCount = g[l]
  BY TotalIsSum DEF TotalSums
<1>3. PICK h \in Sums(e, m) : TotalCount' = h[m]
  <2>1. TotalSums'
    BY TotalIsSum, PTL
  <2>. QED
    BY <2>1 DEF TotalSums
<1>. HIDE DEF c, e, l, m
<1>4. g[l] = Cardinality(Counted) /\ g[l] \in Int
  BY <1>1, <1>2 DEF CountsAddUp, Sums
<1>5. SUFFICES h[m] = Cardinality(Counted')
  BY <1>3 DEF CountsAddUp
<1>6. ASSUME NEW t \in Thread, NEW d \in {1, -1}, Ticks(t, d)
      PROVE  h[m] = Cardinality(Counted')
  <2>1. l = m /\ flow[t] \in 1 .. l
    BY <1>1, <1>6 DEF Ticks
  <2>2. \A n \in 1 .. l : e[n] = IF n = flow[t] THEN c[n] + d ELSE c[n]
    BY <1>1, <1>6, <2>1 DEF Ticks
  <2>3. h[m] = g[l] + d
    <3>. PICK f : f = flow[t]
      OBVIOUS
    <3>1. DiffersAt(c, e, l, f, d)
      BY <1>1, <2>2 DEF DiffersAt
    <3>2. d \in Int /\ f \in 1 .. l /\ l \in Nat /\ h \in Sums(e, l)
      BY <1>1, <1>3, <2>1
    <3>3. h[l] = g[l] + d
      BY <1>2, <3>1, <3>2, SumChanges
    <3>. QED
      BY <2>1, <3>3
  <2>4. h[m] = Cardinality(Counted) + d
    BY <1>1, <1>4, <2>1, <2>3
  <2>5. CASE d = 1
    BY <1>6, <2>4, <2>5, CountedFinite, OneMore DEF Ticks
  <2>6. CASE d = -1
    <3>1. pkt[t] \in Counted /\ Counted' = Counted \ {pkt[t]}
      BY <1>6, <2>6 DEF Ticks
    <3>2. Cardinality(Counted) = Cardinality(Counted') + 1 /\ Cardinality(Counted') \in Nat
      BY <3>1, CountedFinite, OneLess
    <3>. QED
      BY <2>4, <2>6, <3>2
  <2>. QED
    BY <2>5, <2>6
<1>7. ASSUME Counted' = Counted, SameCounts
      PROVE  h[m] = Cardinality(Counted')
  <2>1. DOMAIN flows \subseteq DOMAIN flows'
    BY IdentityKept DEF SameIdentity
  <2>2. l <= m /\ \A n \in 1 .. l : e[n] = c[n]
    BY <1>1, <1>7, <2>1 DEF SameCounts
  <2>3. l \in Nat /\ m \in Nat /\ l <= m /\ \A n \in 1 .. l : c[n] \in Int /\ e[n] = c[n]
    BY <1>1, <2>2
  <2>4. h[l] = g[l]
    BY <2>3, SumStays
  <2>5. h[l] = Cardinality(Counted')
    BY <1>4, <1>7, <2>4
  <2>6. CASE DOMAIN flows' = DOMAIN flows
    <3>1. l = m
      BY <1>1, <2>6
    <3>. QED
      BY <2>5, <3>1
  <2>7. ASSUME NEW t \in Thread, NEW f, NEW k, Creates(t, f, k)
        PROVE  h[m] = Cardinality(Counted')
    <3>0. f \notin DOMAIN flows /\ DOMAIN flows' = DOMAIN flows \cup {f} /\ flows'[f].count = 0
      BY <2>7 DEF Creates, NewFlow
    <3>1. f \notin 1 .. l /\ 1 .. m = (1 .. l) \cup {f} /\ flows'[f].count = 0
      BY <1>1, <3>0
    <3>2. f = m /\ m = l + 1
      <4>1. l \in Nat /\ m \in Nat /\ l <= m
        BY <1>1, <2>2
      <4>2. f \in 1 .. m
        BY <3>1
      <4>3. l < m /\ l + 1 \in 1 .. m /\ m \in 1 .. m
        BY <3>1, <4>1, <4>2
      <4>4. l + 1 \notin 1 .. l /\ m \notin 1 .. l
        BY <4>1, <4>3
      <4>. QED
        BY <3>1, <4>3, <4>4
    <3>3. h[m] = h[m - 1] + e[m]
      BY <1>1, <3>2 DEF Sums
    <3>4. e[m] = 0 /\ h[m - 1] = h[l] /\ h[l] \in Int
      BY <1>1, <1>4, <2>4, <3>1, <3>2
    <3>. QED
      BY <2>5, <3>3, <3>4
  <2>. QED
    BY <2>6, <2>7, IdentityKept
<1>. QED
  BY <1>6, <1>7, CountingSteps

(* Over all flows the counters add up to the packets under way, even after *)
(* getFlow replaced a flow while its packets were queued: the sum is zero  *)
(* whenever no packet waits, which is what the loop of finished() needs.   *)
THEOREM CountersAddUp == Spec => []CountsAddUp
<1>1. Init => CountsAddUp
  <2>. SUFFICES ASSUME Init PROVE CountsAddUp
    OBVIOUS
  <2>1. TypeOK /\ Len(flows) = 0 /\ DOMAIN packets = {}
    BY InitType DEF Init
  <2>2. TotalCount = 0
    BY <2>1, TotalIsSum DEF Sums, TotalSums
  <2>3. Counted = {}
    BY <2>1, CountedFinite
  <2>. QED
    BY <2>2, <2>3, FS_EmptySet DEF CountsAddUp
<1>2. TypeOK /\ OnePlace /\ KeysAgree /\ MutexHeld /\ CountsAddUp /\ [Next]_vars => CountsAddUp'
  BY CountsAddUpNext
<1>. QED
  BY <1>1, <1>2, TypeCorrect, AlwaysOnePlace, KeysAndMutex, PTL DEF Spec

-------------------------------------------------------------------------------
(* Closed flows are erased by somebody *)

(* The counter of a flow in the table counts no more than the packets that *)
(* come for it: deleteFlow may leave the flow to them.                     *)
CountBound ==
  ~Destroyed => \A k \in Key :
    table[k] # 0 => flows[table[k]].count <= Cardinality(OnTheWay(table[k]))

(* Where the reader and a worker can be when they come to the code between *)
(* getFlow and the counter.                                                *)
LEMMA EntersHandling ==
  ASSUME TypeOK, KeysAgree, MutexHeld, [Next]_vars, NEW t \in Thread, pc'[t] \in {"push", "dec"}
  PROVE  \/ UNCHANGED <<pc[t], pkt[t], flow[t]>>
         \/ t = Reader /\ Inc
         \/ GetFlowFound(t) \/ \E g, m : Creates(t, g, m)
<1>0. /\ pc \in [Thread -> ReaderPc \cup WorkerPc] /\ pkt \in [Thread -> {0} \cup DOMAIN packets]
      /\ flow \in [Thread -> {0} \cup DOMAIN flows]
      /\ Reader \in Thread /\ \A w \in Worker : w \in Thread /\ w # Reader
  BY DEF TypeOK, Thread, Worker, Reader
<1>1. CASE t \in Worker
  <2>1. ASSUME NEW x, x \notin {"push", "dec"}, pc' = [pc EXCEPT ![t] = x] PROVE FALSE
    BY <1>0, <2>1
  <2>2. ~WorkerActs(t)
    BY <2>1 DEF WorkerActs, Pop, Dec, Arrive, Establish, AddPacket, CheckOpen, CheckClosed,
                NotifyQuietly, NotifyReport, NotifyMark, DeleteFlow, BackToLoop, Goto
  <2>3. ~GetFlowReport(t)
    BY <2>1 DEF GetFlowReport, Goto
  <2>. QED
    BY <1>1, <2>2, <2>3, WorkerMoves DEF Gets
<1>2. CASE t = Reader
  <2>1. ASSUME NEW x, x \notin {"push", "dec"}, pc' = [pc EXCEPT ![Reader] = x] PROVE FALSE
    BY <1>0, <1>2, <2>1
  <2>2. ASSUME ReaderActs PROVE Inc \/ UNCHANGED <<pc[t], pkt[t], flow[t]>>
    <3>1. ASSUME PushOk PROVE FALSE
      <4>1. flow[Reader] # 0
        BY <1>0, <3>1 DEF PushOk, TypeOK
      <4>2. flows[flow[Reader]].tq \in Worker
        BY <1>0, <4>1, FlowOfThread DEF FlowRecord
      <4>. QED
        BY <1>0, <1>2, <3>1, <4>2 DEF PushOk, PushQueue
    <3>2. ASSUME NEW shape \in Traffic, NEW ts \in Clock .. MaxClock, Receive(shape, ts) PROVE FALSE
      BY <1>0, <1>2, <3>2 DEF Receive
    <3>3. ~PushFull /\ ~LockTable /\ ~UnlockTable /\ ~FinishFlowErase
      BY <2>1 DEF PushFull, LockTable, UnlockTable, FinishFlowErase, Goto
    <3>4. ASSUME NEW k \in Key, FinishFlowQuietly(k) \/ FinishFlowReport(k) PROVE FALSE
      BY <1>0, <1>2, <2>1, <3>4 DEF FinishFlowQuietly, FinishFlowReport, local, Goto
    <3>. QED
      BY <2>2, <3>1, <3>2, <3>3, <3>4 DEF ReaderActs
  <2>3. ASSUME NEW w \in Worker, WorkerActs(w) PROVE UNCHANGED <<pc[t], pkt[t], flow[t]>>
    <3>1. ASSUME Pop(w) \/ Dec(w) \/ Arrive(w) \/ Establish(w) \/ AddPacket(w)
          PROVE  UNCHANGED <<pc[t], pkt[t], flow[t]>>
      BY <1>0, <1>2, <3>1 DEF Pop, Dec, Arrive, Establish, AddPacket, Dispose, Goto, shared
    <3>2. ASSUME CheckOpen(w) \/ CheckClosed(w) \/ NotifyQuietly(w) \/ NotifyReport(w)
                 \/ NotifyMark(w) \/ DeleteFlow(w)
          PROVE  UNCHANGED <<pc[t], pkt[t], flow[t]>>
      BY <1>0, <1>2, <3>2 DEF CheckOpen, CheckClosed, NotifyQuietly, NotifyReport, NotifyMark,
                              DeleteFlow, BackToLoop, Goto
    <3>. QED
      BY <2>3, <3>1, <3>2 DEF WorkerActs
  <2>4. ASSUME NEW u \in Thread, u # t, Gets(u) \/ Quiet(u) PROVE UNCHANGED <<pc[t], pkt[t], flow[t]>>
    BY <1>0, <2>4 DEF Gets, GetFlowFound, GetFlowReport, Creates, Quiet, Goto
  <2>5. ASSUME Quiet(t) PROVE UNCHANGED <<pc[t], pkt[t], flow[t]>>
    BY <1>0, <1>2, <2>5 DEF Quiet
  <2>6. ~GetFlowReport(t)
    BY <1>2, <2>1 DEF GetFlowReport, Goto
  <2>. QED
    BY <1>2, <2>2, <2>3, <2>4, <2>5, <2>6, Steps DEF Gets
<1>. QED
  BY <1>1, <1>2 DEF Thread

(* A packet on the way to the flow of a key stays so, until it is counted  *)
(* out of that flow.                                                       *)
LEMMA StaysOnTheWay ==
  ASSUME TypeOK, OnePlace, KeysAgree, MutexHeld, [Next]_vars, ~Destroyed',
         NEW k \in Key, NEW f, f = table[k], table'[k] = f, f # 0, NEW p \in OnTheWay(f)
  PROVE  \/ p \in OnTheWay(f)'
         \/ \E t \in Thread : Ticks(t, -1) /\ pkt[t] = p /\ flow[t] = f
<1>1. p \in Counted /\ packets[p].key = flows[f].key /\ ~Elsewhere(p, f) /\ p \in DOMAIN packets
  BY CountedFinite DEF OnTheWay
<1>2. f \in DOMAIN flows /\ flows[f].key = k
  BY FlowUnderKey DEF KeysAgree
<1>3. packets'[p].key = k /\ flows'[f].key = k
  BY <1>1, <1>2, PacketsKept, IdentityKept DEF SameIdentity
<1>4. ASSUME NEW t \in Thread, Ticks(t, -1), pkt[t] = p PROVE flow[t] = f
  <2>1. pc[t] \in {"push", "dec"}
    BY <1>4 DEF Ticks, PushFull, Dec, Goto
  <2>. QED
    BY <1>1, <1>4, <2>1 DEF Elsewhere
<1>5. p \in Counted' \/ \E t \in Thread : Ticks(t, -1) /\ pkt[t] = p
  BY <1>1, CountingSteps DEF Ticks
<1>6. ASSUME NEW t \in Thread, pkt'[t] = p, pc'[t] \in {"push", "dec"}, flow'[t] # f PROVE FALSE
  <2>1. CASE UNCHANGED <<pc[t], pkt[t], flow[t]>>
    BY <1>1, <1>6, <2>1 DEF Elsewhere
  <2>2. CASE t = Reader /\ Inc
    <3>1. pkt[Reader] = p /\ pc[Reader] = "inc" /\ DOMAIN packets' = DOMAIN packets /\ UNCHANGED queue
      BY <1>6, <2>2 DEF Inc, Goto
    <3>2. ~CountedBy(Reader) /\ Reader \in Thread
      BY <3>1 DEF CountedBy, Thread
    <3>3. p # 0
      BY <1>1, ZeroIsNothing
    <3>4. ~Queued(p) /\ \A u \in Thread : pkt[u] = p => u = Reader
      BY <3>1, <3>2, <3>3, Alone
    <3>. QED
      BY <1>1, <3>2, <3>4 DEF Counted, CountedBy
  <2>3. CASE GetFlowFound(t)
    <3>1. pkt[t] = p /\ flow'[t] = table[packets[p].key]
      BY <1>6, <2>3 DEF GetFlowFound, TypeOK
    <3>. QED
      BY <1>1, <1>2, <1>6, <3>1
  <2>4. ASSUME NEW g, NEW m, Creates(t, g, m) PROVE FALSE
    <3>1. pkt[t] = p /\ table' = [table EXCEPT ![packets[p].key] = g] /\ g \notin DOMAIN flows
      BY <1>6, <2>4 DEF Creates
    <3>. QED
      BY <1>1, <1>2, <3>1 DEF TypeOK
  <2>. QED
    BY <1>6, <2>1, <2>2, <2>3, <2>4, EntersHandling
<1>7. ~Elsewhere(p, f)'
  BY <1>6 DEF Elsewhere
<1>. QED
  BY <1>3, <1>4, <1>5, <1>7 DEF OnTheWay

(* A bound on the packets of a set that loses at most one.                 *)
LEMMA LosesOne ==
  ASSUME NEW S, NEW T, IsFiniteSet(T), NEW p, S \ {p} \subseteq T
  PROVE  Cardinality(S) <= Cardinality(T) + 1 /\ (p \notin S => Cardinality(S) <= Cardinality(T))
<1>1. IsFiniteSet(S \ {p}) /\ Cardinality(S \ {p}) <= Cardinality(T) /\ Cardinality(T) \in Nat
  BY FS_Subset, FS_CardinalityType
<1>2. Cardinality(S \ {p}) \in Nat
  BY <1>1, FS_CardinalityType
<1>3. CASE p \in S
  <2>1. S = (S \ {p}) \cup {p} /\ p \notin S \ {p}
    BY <1>3
  <2>2. Cardinality(S) = Cardinality(S \ {p}) + 1
    BY <1>1, <2>1, OneMore
  <2>. QED
    BY <1>1, <1>2, <1>3, <2>2
<1>4. CASE p \notin S
  <2>1. S \ {p} = S
    BY <1>4
  <2>. QED
    BY <1>1, <1>2, <2>1
<1>. QED
  BY <1>3, <1>4

(* Packets on the way to a flow are finitely many.                         *)
FewOnTheWay == \A f : IsFiniteSet(OnTheWay(f)) /\ Cardinality(OnTheWay(f)) \in Nat
LEMMA OnTheWayFinite == TypeOK => FewOnTheWay
<1>1. \A f : OnTheWay(f) \subseteq Counted
  BY DEF OnTheWay
<1>. QED
  BY <1>1, CountedFinite, FS_Subset, FS_CardinalityType DEF FewOnTheWay

(* What is counted for a flow in the table is on the way to it.            *)
LEMMA CountBoundNext ==
  ASSUME TypeOK, OnePlace, KeysAgree, MutexHeld, CountBound, [Next]_vars
  PROVE  CountBound'
<1>. SUFFICES ASSUME ~Destroyed', NEW k \in Key, table'[k] # 0
     PROVE  flows'[table'[k]].count <= Cardinality(OnTheWay(table[k])')
  BY DEF CountBound
<1>. DEFINE f == table'[k]
            S == OnTheWay(f)
            T == OnTheWay(table[k])'
<1>1. ~Destroyed /\ TypeOK'
  BY NextType, StaysDestroyed
<1>2. IsFiniteSet(T) /\ Cardinality(T) \in Nat
  <2>1. FewOnTheWay'
    BY <1>1, OnTheWayFinite, PTL
  <2>. QED
    BY <2>1 DEF FewOnTheWay
<1>3. CASE table'[k] # table[k]
  <2>1. PICK t \in Thread : \E g, m : Creates(t, g, m)
    BY <1>3, HandsAndTable
  <2>2. flows'[f].count = 0
    BY <1>3, <2>1 DEF Creates, NewFlow, TypeOK
  <2>. QED
    BY <1>2, <2>2
<1>4. CASE table'[k] = table[k]
  <2>1. f \in DOMAIN flows /\ f = table[k] /\ flows[f].key = k /\ flows[f].count \in Int
    BY <1>4, FlowUnderKey DEF KeysAgree, FlowRecord
  <2>2. IsFiniteSet(S) /\ Cardinality(S) \in Nat /\ flows[f].count <= Cardinality(S)
    BY <1>1, <2>1, OnTheWayFinite DEF CountBound, FewOnTheWay
  <2>3. ASSUME NEW p \in S
        PROVE  p \in T \/ \E t \in Thread : Ticks(t, -1) /\ pkt[t] = p /\ flow[t] = f
    BY <1>4, <2>1, <2>3, StaysOnTheWay
  <2>4. CASE Counted' = Counted /\ SameCounts
    <3>1. \A t \in Thread : ~Ticks(t, -1)
      BY <2>4 DEF Ticks
    <3>2. S \subseteq T
      BY <2>3, <3>1
    <3>3. Cardinality(S) <= Cardinality(T)
      BY <1>2, <3>2, FS_Subset
    <3>. QED
      BY <1>2, <2>1, <2>2, <2>4, <3>3 DEF SameCounts
  <2>5. ASSUME NEW t \in Thread, Ticks(t, 1)
        PROVE  flows'[f].count <= Cardinality(T)
    <3>1. /\ t = Reader /\ Inc /\ pkt[t] \notin Counted /\ Counted' = Counted \cup {pkt[t]}
          /\ packets[pkt[t]].key = flows[flow[t]].key /\ pkt[t] \in DOMAIN packets
          /\ flows'[f].count = IF f = flow[t] THEN flows[f].count + 1 ELSE flows[f].count
      BY <2>1, <2>5 DEF Ticks
    <3>2. \A u \in Thread : ~Ticks(u, -1)
      BY <3>1 DEF Ticks
    <3>3. S \subseteq T /\ pkt[t] \notin S
      BY <2>3, <3>1, <3>2 DEF OnTheWay
    <3>4. ASSUME f = flow[t] PROVE pkt[t] \in T
      <4>1. packets'[pkt[t]].key = k /\ flows'[f].key = k
        BY <2>1, <3>1, <3>4, PacketsKept, IdentityKept DEF SameIdentity
      <4>2. pkt' = pkt /\ flow' = flow
        BY <3>1 DEF Inc
      <4>3. pkt[t] # 0
        BY <3>1, ZeroIsNothing
      <4>4. \A u \in Thread : pkt[u] = pkt[t] => u = t
        BY <4>3, Alone
      <4>5. \A u \in Thread : pkt'[u] = pkt[t] => flow'[u] = table'[k]
        BY <3>4, <4>2, <4>4
      <4>. QED
        BY <3>1, <4>1, <4>5 DEF OnTheWay, Elsewhere
    <3>5. CASE f = flow[t]
      <4>1. S \cup {pkt[t]} \subseteq T
        BY <3>3, <3>4, <3>5
      <4>2. Cardinality(S \cup {pkt[t]}) = Cardinality(S) + 1
        BY <2>2, <3>3, OneMore
      <4>3. Cardinality(S) + 1 <= Cardinality(T)
        BY <1>2, <4>1, <4>2, FS_Subset
      <4>. QED
        BY <1>2, <2>1, <2>2, <3>1, <3>5, <4>3
    <3>6. CASE f # flow[t]
      <4>1. Cardinality(S) <= Cardinality(T)
        BY <1>2, <3>3, FS_Subset
      <4>. QED
        BY <1>2, <2>1, <2>2, <3>1, <3>6, <4>1
    <3>. QED
      BY <3>5, <3>6
  <2>6. ASSUME NEW t \in Thread, Ticks(t, -1)
        PROVE  flows'[f].count <= Cardinality(T)
    <3>1. /\ pkt[t] \in Counted /\ Counted' = Counted \ {pkt[t]} /\ pkt[t] \in DOMAIN packets
          /\ flows'[f].count = IF f = flow[t] THEN flows[f].count + (-1) ELSE flows[f].count
          /\ pc[t] \in {"push", "dec"}
      BY <2>1, <2>6 DEF Ticks, PushFull, Dec, Goto
    <3>2. ASSUME NEW u \in Thread, Ticks(u, -1) PROVE u = t
      <4>1. pkt[u] \in Counted /\ Counted' = Counted \ {pkt[u]}
        BY <3>2 DEF Ticks
      <4>2. pkt[u] = pkt[t]
        BY <3>1, <4>1
      <4>3. pkt[t] # 0
        BY <3>1, ZeroIsNothing
      <4>. QED
        BY <4>2, <4>3, Alone
    <3>3. S \ {pkt[t]} \subseteq T
      BY <2>3, <3>2
    <3>4. f # flow[t] => pkt[t] \notin S
      BY <3>1 DEF OnTheWay, Elsewhere
    <3>5. Cardinality(S) <= Cardinality(T) + 1 /\ (f # flow[t] => Cardinality(S) <= Cardinality(T))
      BY <1>2, <3>3, <3>4, LosesOne
    <3>. QED
      BY <1>2, <2>1, <2>2, <3>1, <3>5
  <2>. QED
    BY <2>4, <2>5, <2>6, CountingSteps
<1>. QED
  BY <1>3, <1>4

(* A packet that was dropped stays dropped.                                *)
LEMMA StaysDropped ==
  ASSUME TypeOK, OnePlace, [Next]_vars, NEW k, Dropped(k) PROVE Dropped(k)'
<1>1. PICK p \in DOMAIN packets : packets[p].key = k /\ packets[p].verdict = "drop"
  BY DEF Dropped
<1>2. packets'[p] = packets[p] /\ p \in DOMAIN packets'
  BY <1>1, NextVerdict DEF Open
<1>. QED
  BY <1>1, <1>2 DEF Dropped

(* Whoever closes a flow of the table, or is the last to come for a closed *)
(* one, erases it or leaves a packet on the way that will.                 *)
LEMMA ClosedFlowAwaitedNext ==
  ASSUME TypeOK, OnePlace, KeysAgree, MutexHeld, CountBound, ClosedFlowAwaited, [Next]_vars
  PROVE  ClosedFlowAwaited'
<1>. SUFFICES ASSUME NEW k \in Key, ClosedInTable(k)', ~Destroyed', ~Dropped(k)'
     PROVE  OnTheWay(table[k])' # {} \/ WorkersIn(table[k])' # {}
  BY DEF ClosedFlowAwaited
<1>. DEFINE f == table'[k]
<1>0. /\ pc \in [Thread -> ReaderPc \cup WorkerPc] /\ flow \in [Thread -> {0} \cup DOMAIN flows]
      /\ Reader \in Thread /\ \A w \in Worker : w \in Thread /\ w # Reader
      /\ table \in [Key -> {0} \cup DOMAIN flows]
  BY DEF TypeOK, Thread, Worker, Reader
<1>1. ~Destroyed /\ ~Dropped(k) /\ f # 0 /\ flows'[f].state \in Closed
  BY StaysDestroyed, StaysDropped DEF ClosedInTable
<1>2. table'[k] = table[k]
  <2>1. ASSUME NEW t \in Thread, NEW g, NEW m, Creates(t, g, m), table'[k] # table[k] PROVE FALSE
    <3>1. flows'[f].state = "NEW"
      BY <1>0, <2>1 DEF Creates, NewFlow
    <3>. QED
      BY <1>1, <3>1 DEF Closed
  <2>. QED
    BY <1>1, <2>1, HandsAndTable
<1>3. f \in DOMAIN flows /\ f = table[k] /\ flows[f].key = k /\ flows[f].count \in Int
  BY <1>1, <1>2, FlowUnderKey DEF KeysAgree, FlowRecord
<1>4. ASSUME NEW w \in Worker, flow'[w] = f,
             pc'[w] \in {"arrive", "establish", "add", "check", "notify", "notified", "delete"}
      PROVE  w \in WorkersIn(table[k])'
  BY <1>4 DEF WorkersIn
<1>5. ASSUME NEW p \in OnTheWay(f) PROVE OnTheWay(table[k])' # {} \/ WorkersIn(table[k])' # {}
  <2>1. ASSUME NEW t \in Thread, Ticks(t, -1), pkt[t] = p, flow[t] = f
        PROVE  WorkersIn(table[k])' # {}
    <3>1. CASE t = Reader
      <4>1. /\ p \in DOMAIN packets /\ packets[p].key = k
            /\ packets' = [packets EXCEPT ![p].verdict = "drop"]
        BY <1>3, <2>1, <3>1 DEF Ticks, PushFull, Dispose
      <4>2. packets[p] \in PacketRecord
        BY <4>1, ElementOfSeq, LenProperties DEF TypeOK
      <4>3. Dropped(k)'
        BY <4>1, <4>2 DEF Dropped, PacketRecord
      <4>. QED
        BY <4>3
    <3>2. CASE t # Reader
      <4>1. t \in Worker /\ Dec(t)
        BY <2>1, <3>2 DEF Ticks
      <4>2. pc'[t] = "arrive" /\ flow'[t] = f
        BY <1>0, <2>1, <4>1 DEF Dec, Goto
      <4>. QED
        BY <1>4, <4>1, <4>2
    <3>. QED
      BY <3>1, <3>2
  <2>. QED
    BY <1>1, <1>2, <1>3, <1>5, <2>1, StaysOnTheWay
<1>6. ASSUME NEW w \in Worker, DeleteFlow(w), flow[w] = f PROVE OnTheWay(f) # {}
  <2>1. HavePktsInQueue(f)
    BY <1>0, <1>1, <1>3, <1>6 DEF DeleteFlow
  <2>2. flows[f].count > 0 /\ flows[f].count <= Cardinality(OnTheWay(f))
    BY <1>1, <1>3, <2>1 DEF HavePktsInQueue, CountBound
  <2>3. Cardinality(OnTheWay(f)) > 0
    BY <1>3, <2>2, OnTheWayFinite DEF FewOnTheWay
  <2>. QED
    BY <2>3, FS_EmptySet
<1>7. CASE flows[f].state \in Closed
  <2>1. OnTheWay(f) # {} \/ WorkersIn(f) # {}
    BY <1>1, <1>3, <1>7 DEF ClosedFlowAwaited, ClosedInTable
  <2>2. ASSUME NEW w \in WorkersIn(f)
        PROVE  OnTheWay(table[k])' # {} \/ WorkersIn(table[k])' # {}
    <3>1. w \in Worker /\ flow[w] = f /\ pc[w] \in {"arrive", "establish", "add", "check",
                                                    "notify", "notified", "delete"}
      BY <2>2 DEF WorkersIn
    <3>2. CASE UNCHANGED <<pc[w], flow[w]>>
      BY <1>4, <3>1, <3>2
    <3>3. CASE DeleteFlow(w)
      BY <1>5, <1>6, <3>1, <3>3
    <3>4. ~CheckOpen(w)
      BY <1>7, <3>1 DEF CheckOpen, Over
    <3>5. ASSUME WorkerActs(w), ~DeleteFlow(w)
          PROVE  /\ flow' = flow
                 /\ pc'[w] \in {"arrive", "establish", "add", "check", "notify", "notified", "delete"}
      BY <1>0, <3>1, <3>4, <3>5 DEF WorkerActs, Pop, Dec, Arrive, Establish, AddPacket, CheckClosed,
                                    NotifyQuietly, NotifyReport, NotifyMark, Goto, shared
    <3>6. ~Gets(w)
      BY <3>1 DEF Gets, GetFlowFound, GetFlowReport, Creates, Goto
    <3>7. ASSUME pc'[w] \in {"loop", "to_wait", "waiting", "exited"}, flow'[w] = flow[w] PROVE FALSE
      <4>1. TypeOK'
        BY NextType
      <4>. QED
        BY <1>0, <1>1, <3>1, <3>7, <4>1 DEF TypeOK
    <3>. QED
      BY <1>4, <3>1, <3>2, <3>3, <3>5, <3>6, <3>7, WorkerMoves
  <2>. QED
    BY <1>5, <2>1, <2>2
<1>8. CASE flows[f].state \notin Closed
  <2>1. Closes(f)
    BY <1>1, <1>3, <1>8, WhoCloses
  <2>2. ASSUME NEW w \in Worker, flow[w] = f, AddPacket(w) \/ NotifyQuietly(w) \/ NotifyMark(w)
        PROVE  w \in WorkersIn(table[k])'
    <3>1. flow'[w] = f /\ pc'[w] \in {"check", "delete"}
      BY <1>0, <2>2 DEF AddPacket, NotifyQuietly, NotifyMark, Goto
    <3>. QED
      BY <1>4, <3>1
  <2>3. ASSUME NEW t \in Thread, NEW g, Creates(t, g, f) PROVE FALSE
    <3>1. table' = [table EXCEPT ![k] = g] /\ g \notin DOMAIN flows
      BY <1>1, <1>3, <2>3 DEF Creates
    <3>. QED
      BY <1>0, <1>3, <3>1
  <2>4. ASSUME NEW j \in Key, FinishFlowQuietly(j), table[j] = f PROVE FALSE
    <3>1. j = k /\ table'[j] = 0
      BY <1>0, <1>1, <1>3, <2>4 DEF KeysAgree, FinishFlowQuietly
    <3>. QED
      BY <1>1, <3>1
  <2>5. ASSUME FinishFlowErase, flow[Reader] = f PROVE FALSE
    <3>1. table' = [table EXCEPT ![k] = 0]
      BY <1>3, <2>5 DEF FinishFlowErase
    <3>. QED
      BY <1>0, <1>1, <3>1
  <2>. QED
    BY <1>5, <1>6, <2>1, <2>2, <2>3, <2>4, <2>5 DEF Closes
<1>. QED
  BY <1>7, <1>8

(* While no packet of its key was dropped, a flow that is over and still   *)
(* in the table has somebody coming to erase it: a worker that will get to *)
(* deleteFlow, or a packet counted for the flow, which deleteFlow left it  *)
(* to.  The counter that deleteFlow trusts never counts a packet that will *)
(* not come (CountBound).                                                  *)
THEOREM ClosedIsAwaited == Spec => []ClosedFlowAwaited
<1>1. Init => CountBound /\ ClosedFlowAwaited
  <2>1. Init => \A k \in Key : table[k] = 0
    BY DEF Init
  <2>. QED
    BY <2>1 DEF CountBound, ClosedFlowAwaited, ClosedInTable
<1>2. /\ TypeOK /\ OnePlace /\ KeysAgree /\ MutexHeld /\ CountBound /\ ClosedFlowAwaited /\ [Next]_vars
      => (CountBound /\ ClosedFlowAwaited)'
  BY CountBoundNext, ClosedFlowAwaitedNext
<1>. QED
  BY <1>1, <1>2, TypeCorrect, AlwaysOnePlace, KeysAndMutex, PTL DEF Spec
===============================================================================
