-------------------------- MODULE FlowManagerProofs ---------------------------
(***************************************************************************)
(* Theorems about FlowManager, for any number of workers, any queue size,  *)
(* any traffic and any timeouts.                                           *)
(***************************************************************************)
EXTENDS FlowManager, ProofLemmas

-------------------------------------------------------------------------------
(* Types *)

(* What TypeOK says of the flow and the packet a thread has, and of the    *)
(* flow under a key.                                                       *)
LEMMA FlowOfThread ==
  ASSUME TypeOK, NEW t \in Thread, flow[t] # 0
  PROVE  flow[t] \in DOMAIN flows /\ flows[flow[t]] \in FlowRecord
BY ElementOfSeq, LenProperties DEF TypeOK

(* A thread that names a packet names one that was read.                   *)
LEMMA PacketOfThread ==
  ASSUME TypeOK, NEW t \in Thread, pkt[t] # 0
  PROVE  pkt[t] \in DOMAIN packets /\ packets[pkt[t]] \in PacketRecord
BY ElementOfSeq, LenProperties DEF TypeOK

(* The table points to flows that were constructed.                        *)
LEMMA FlowUnderKey ==
  ASSUME TypeOK, NEW k \in Key, table[k] # 0
  PROVE  table[k] \in DOMAIN flows /\ flows[table[k]] \in FlowRecord
BY ElementOfSeq, LenProperties DEF TypeOK

(* Positions start at 1, so 0 is no packet and no flow.                    *)
LEMMA ZeroIsNothing ==
  ASSUME TypeOK PROVE 0 \notin DOMAIN flows /\ 0 \notin DOMAIN packets
BY LenProperties DEF TypeOK

(* The three ways a flow record is updated in place keep its type.         *)
LEMMA UpdateFlow ==
  ASSUME TypeOK, NEW f \in DOMAIN flows, NEW r \in FlowRecord
  PROVE  /\ [flows EXCEPT ![f] = r] \in Seq(FlowRecord)
         /\ DOMAIN [flows EXCEPT ![f] = r] = DOMAIN flows
BY SeqUpdate DEF TypeOK

(* What notifyFlowFinished writes is a flow again.                         *)
LEMMA NotifyFlow ==
  ASSUME TypeOK, NEW f \in DOMAIN flows
  PROVE  /\ MarkNotified(f) \in Seq(FlowRecord)
         /\ DOMAIN MarkNotified(f) = DOMAIN flows
         /\ ReportFinished(f) \in Seq(FlowRecord)
         /\ DOMAIN ReportFinished(f) = DOMAIN flows
<1>1. flows[f] \in FlowRecord
  BY ElementOfSeq, LenProperties DEF TypeOK
<1>2. [flows[f] EXCEPT !.state = "FINISHED_NOTIFIED"] \in FlowRecord
  BY <1>1 DEF FlowRecord, State
<1>3. [flows[f] EXCEPT !.finReports = @ + 1] \in FlowRecord
  BY <1>1 DEF FlowRecord
<1>. QED
  BY <1>2, <1>3, UpdateFlow DEF MarkNotified, ReportFinished

(* Giving a verdict keeps the packets and empties the thread's hands.      *)
LEMMA DisposeType ==
  ASSUME TypeOK, NEW t \in Thread, pkt[t] # 0, NEW v \in Verdict, Dispose(t, v)
  PROVE  /\ packets' \in Seq(PacketRecord)
         /\ DOMAIN packets' = DOMAIN packets
         /\ pkt' = [pkt EXCEPT ![t] = 0]
<1>1. pkt[t] \in DOMAIN packets /\ packets[pkt[t]] \in PacketRecord
  BY PacketOfThread
<1>2. [packets[pkt[t]] EXCEPT !.verdict = v] \in PacketRecord
  BY <1>1 DEF PacketRecord
<1>. QED
  BY <1>1, <1>2, SeqUpdate DEF Dispose, TypeOK

(* Inserting a flow keeps the types and gives the thread the new flow.     *)
LEMMA InsertFlowType ==
  ASSUME TypeOK, NEW t \in Thread, pkt[t] # 0,
         NEW fs \in Seq(FlowRecord), DOMAIN fs = DOMAIN flows, InsertFlow(t, fs)
  PROVE  /\ flows' \in Seq(FlowRecord)
         /\ table' \in [Key -> {0} \cup DOMAIN flows']
         /\ \E g \in DOMAIN flows' \ {0} : flow' = [flow EXCEPT ![t] = g]
         /\ DOMAIN flows \subseteq DOMAIN flows'
         /\ currentQueue' \in 0 .. NumWorkers
<1>. DEFINE p == packets[pkt[t]]
            next == IF currentQueue >= NumWorkers THEN 0 ELSE currentQueue
            tq == IF t = Reader THEN next ELSE t
<1>1. p \in PacketRecord
  BY PacketOfThread
<1>2. next \in Worker /\ next + 1 \in 0 .. NumWorkers
  BY ConfigAssumption DEF TypeOK, Worker
<1>3. tq \in Worker
  BY <1>2 DEF Thread
<1>4. NewFlow(p, tq) \in FlowRecord
  BY <1>1, <1>3 DEF NewFlow, FlowRecord, PacketRecord, State
<1>5. /\ flows' \in Seq(FlowRecord)
      /\ DOMAIN flows' = DOMAIN flows \cup {Len(fs) + 1}
      /\ Len(fs) \in Nat
  BY <1>4, SeqAppend DEF InsertFlow, NextQueue
<1>6. table' = [table EXCEPT ![p.key] = Len(fs) + 1]
  BY DEF InsertFlow
<1>7. flow' = [flow EXCEPT ![t] = Len(fs) + 1]
  BY DEF InsertFlow
<1>8. currentQueue' \in 0 .. NumWorkers
  BY <1>2 DEF InsertFlow, NextQueue, TypeOK
<1>9. Len(fs) + 1 \in DOMAIN flows' \ {0}
  BY <1>5
<1>10. table' \in [Key -> {0} \cup DOMAIN flows']
  BY <1>5, <1>6, <1>9 DEF TypeOK
<1>. QED
  BY <1>5, <1>7, <1>8, <1>9, <1>10

(* addPacket appends the packet read and hands it to the reader.           *)
LEMMA ReceiveType ==
  ASSUME TypeOK, NEW shape \in Traffic, NEW ts \in Clock .. MaxClock, Receive(shape, ts)
  PROVE  TypeOK'
<1>. DEFINE p == [key |-> shape.key, kind |-> shape.kind, side |-> shape.side, ts |-> ts,
                  verdict |-> IF shutdown THEN "accept" ELSE "none"]
<1>1. Clock \in Nat
  <2>1. CASE packets = << >>
    BY <2>1 DEF Clock
  <2>2. CASE packets # << >>
    <3>1. Len(packets) \in 1 .. Len(packets)
      BY <2>2, EmptySeq, LenProperties DEF TypeOK
    <3>2. packets[Len(packets)] \in PacketRecord
      BY <3>1, ElementOfSeq DEF TypeOK
    <3>. QED
      BY <2>2, <3>2 DEF Clock, PacketRecord
  <2>. QED
    BY <2>1, <2>2
<1>2. p \in PacketRecord
  BY <1>1, ConfigAssumption, TrafficAssumption DEF PacketRecord, Verdict
<1>3. /\ packets' \in Seq(PacketRecord)
      /\ DOMAIN packets' = DOMAIN packets \cup {Len(packets) + 1}
      /\ Len(packets) \in Nat
  BY <1>2, SeqAppend DEF Receive, TypeOK
<1>4. queue' \in [Worker -> Seq(DOMAIN packets')]
  BY <1>3, SeqMonotonic DEF Receive, TypeOK
<1>5. Len(packets) + 1 \in DOMAIN packets' \ {0} /\ DOMAIN packets \subseteq DOMAIN packets'
  BY <1>3
<1>6. CASE shutdown
  BY <1>3, <1>4, <1>5, <1>6 DEF TypeOK, Receive
<1>7. CASE ~shutdown
  <2>1. pc' = [pc EXCEPT ![Reader] = "get"] /\ pkt' = [pkt EXCEPT ![Reader] = Len(packets) + 1]
    BY <1>7 DEF Receive
  <2>2. pc[Reader] = "idle" /\ Reader \in Thread /\ \A w \in Worker : w # Reader
    BY DEF Receive, Thread, Worker, Reader
  <2>3. /\ pc' \in [Thread -> ReaderPc \cup WorkerPc]
        /\ pc'[Reader] \in ReaderPc /\ \A w \in Worker : pc'[w] \in WorkerPc
    BY <2>1, <2>2 DEF TypeOK, Thread, ReaderPc
  <2>4. pkt' \in [Thread -> {0} \cup DOMAIN packets']
    BY <1>5, <2>1, <2>2 DEF TypeOK
  <2>5. \A t \in Thread :
          /\ pkt'[t] # 0 <=> pc'[t] \in {"get", "replace", "inc", "push", "dec", "arrive",
                                        "establish", "add"}
          /\ flow[t] # 0 <=> pc'[t] \in {"replace", "inc", "push", "finish_flow", "dec", "arrive",
                                         "establish", "add", "check", "notify", "notified", "delete"}
    BY <1>5, <2>1, <2>2 DEF TypeOK
  <2>. QED
    BY <1>3, <1>4, <2>3, <2>4, <2>5 DEF TypeOK, Receive
<1>. QED
  BY <1>6, <1>7

(* incPktsInQueue changes one counter.                                     *)
LEMMA IncType == TypeOK /\ Inc => TypeOK'
<1>. SUFFICES ASSUME TypeOK, Inc PROVE TypeOK'
  OBVIOUS
<1>1. flow[Reader] \in DOMAIN flows /\ flows[flow[Reader]] \in FlowRecord
  BY FlowOfThread DEF TypeOK, Inc, Goto, Thread
<1>2. [flows[flow[Reader]] EXCEPT !.count = @ + 1] \in FlowRecord
  BY <1>1 DEF FlowRecord
<1>3. flows' \in Seq(FlowRecord) /\ DOMAIN flows' = DOMAIN flows
  BY <1>1, <1>2, UpdateFlow DEF Inc, IncPktsInQueue
<1>. QED
  BY <1>3 DEF TypeOK, Inc, Goto, Thread, Worker, Reader, ReaderPc, WorkerPc

(* A successful push moves a packet to the queue of a worker that exists.  *)
LEMMA PushOkType == TypeOK /\ PushOk => TypeOK'
<1>. SUFFICES ASSUME TypeOK, PushOk PROVE TypeOK'
  OBVIOUS
<1>. DEFINE q == flows[flow[Reader]].tq
<1>1. flow[Reader] # 0 /\ pkt[Reader] # 0 /\ Reader \in Thread
  BY DEF TypeOK, PushOk, Thread
<1>2. q \in Worker
  BY <1>1, FlowOfThread DEF FlowRecord
<1>3. pkt[Reader] \in DOMAIN packets
  BY <1>1, PacketOfThread
<1>4. Append(queue[q], pkt[Reader]) \in Seq(DOMAIN packets)
  BY <1>2, <1>3, AppendProperties DEF TypeOK
<1>5. queue' \in [Worker -> Seq(DOMAIN packets)]
  BY <1>2, <1>4 DEF TypeOK, PushOk, PushQueue
<1>6. pc' = [pc EXCEPT ![Reader] = "idle", ![q] = IF pc[q] = "waiting" THEN "loop" ELSE pc[q]]
  BY <1>2 DEF PushOk, PushQueue, Worker, Reader
<1>7. pkt' = [pkt EXCEPT ![Reader] = 0] /\ flow' = [flow EXCEPT ![Reader] = 0]
  BY DEF PushOk
<1>. HIDE DEF q
<1>8. q # Reader /\ q \in Thread
  BY <1>2 DEF Worker, Reader, Thread
<1>9. \A t \in Thread : pc'[t] = IF t = Reader THEN "idle"
                                 ELSE IF t = q /\ pc[q] = "waiting" THEN "loop" ELSE pc[t]
  BY <1>1, <1>6, <1>8 DEF TypeOK
<1>10. /\ pc' \in [Thread -> ReaderPc \cup WorkerPc]
       /\ pc'[Reader] \in ReaderPc /\ \A w \in Worker : pc'[w] \in WorkerPc
  <2>1. \A w \in Worker : w \in Thread /\ w # Reader
    BY DEF Worker, Reader, Thread
  <2>2. pc'[Reader] \in ReaderPc /\ \A w \in Worker : pc'[w] \in WorkerPc
    BY <1>1, <1>9, <2>1 DEF TypeOK, ReaderPc, WorkerPc
  <2>3. pc' \in [Thread -> ReaderPc \cup WorkerPc]
    BY <1>1, <1>6, <1>8 DEF TypeOK, ReaderPc, WorkerPc
  <2>. QED
    BY <2>2, <2>3
<1>11. \A t \in Thread :
         /\ pkt'[t] # 0 <=> pc'[t] \in {"get", "replace", "inc", "push", "dec", "arrive",
                                       "establish", "add"}
         /\ flow'[t] # 0 <=> pc'[t] \in {"replace", "inc", "push", "finish_flow", "dec", "arrive",
                                        "establish", "add", "check", "notify", "notified", "delete"}
  BY <1>1, <1>7, <1>9 DEF TypeOK
<1>. QED
  BY <1>5, <1>7, <1>10, <1>11 DEF TypeOK, PushOk

(* A failed push disposes of the packet and takes back the count.          *)
LEMMA PushFullType == TypeOK /\ PushFull => TypeOK'
<1>. SUFFICES ASSUME TypeOK, PushFull PROVE TypeOK'
  OBVIOUS
<1>1. flow[Reader] # 0 /\ pkt[Reader] # 0 /\ Reader \in Thread
  BY DEF TypeOK, PushFull, Goto, Thread
<1>2. flow[Reader] \in DOMAIN flows /\ flows[flow[Reader]] \in FlowRecord
  BY <1>1, FlowOfThread
<1>3. [flows[flow[Reader]] EXCEPT !.count = @ - 1] \in FlowRecord
  BY <1>2 DEF FlowRecord
<1>4. flows' \in Seq(FlowRecord) /\ DOMAIN flows' = DOMAIN flows
  BY <1>2, <1>3, UpdateFlow DEF PushFull, DecPktsInQueue
<1>5. /\ packets' \in Seq(PacketRecord) /\ DOMAIN packets' = DOMAIN packets
      /\ pkt' = [pkt EXCEPT ![Reader] = 0]
  BY <1>1, DisposeType DEF PushFull, Verdict
<1>. QED
  BY <1>4, <1>5 DEF TypeOK, PushFull, Goto, Thread, Worker, Reader, ReaderPc, WorkerPc

(* After an insertion, the thread t of GetFlow is past it with a flow.     *)
LEMMA AfterInsertType ==
  ASSUME TypeOK, NEW t \in Thread, pkt[t] # 0,
         NEW from \in {"get", "replace"}, Goto(t, from, AfterGet(t)),
         NEW fs \in Seq(FlowRecord), DOMAIN fs = DOMAIN flows, InsertFlow(t, fs),
         lock' \in Thread \cup {NoThread}, UNCHANGED <<packets, queue, shutdown, pkt, seen>>
  PROVE  TypeOK'
<1>1. /\ flows' \in Seq(FlowRecord)
      /\ table' \in [Key -> {0} \cup DOMAIN flows']
      /\ DOMAIN flows \subseteq DOMAIN flows'
      /\ currentQueue' \in 0 .. NumWorkers
  BY InsertFlowType
<1>2. PICK g \in DOMAIN flows' \ {0} : flow' = [flow EXCEPT ![t] = g]
  BY InsertFlowType
<1>3. pc' = [pc EXCEPT ![t] = AfterGet(t)] /\ pc[t] \in {"get", "replace"}
  BY DEF Goto
<1>4. flow' \in [Thread -> {0} \cup DOMAIN flows']
  BY <1>1, <1>2 DEF TypeOK
<1>5. /\ pc' \in [Thread -> ReaderPc \cup WorkerPc]
      /\ pc'[Reader] \in ReaderPc /\ \A w \in Worker : pc'[w] \in WorkerPc
  BY <1>3 DEF TypeOK, AfterGet, Thread, Worker, Reader, ReaderPc, WorkerPc
<1>6. \A u \in Thread :
        /\ pkt'[u] # 0 <=> pc'[u] \in {"get", "replace", "inc", "push",
                                       "dec", "arrive", "establish", "add"}
        /\ flow'[u] # 0 <=> pc'[u] \in {"replace", "inc", "push", "finish_flow",
                                        "dec", "arrive", "establish", "add", "check", "notify",
                                        "notified", "delete"}
  BY <1>2, <1>3 DEF TypeOK, AfterGet
<1>. QED
  BY <1>1, <1>4, <1>5, <1>6 DEF TypeOK

(* getFlow leaves its thread with a flow, found or new.                    *)
LEMMA GetFlowType ==
  ASSUME TypeOK, NEW t \in Thread, GetFlow(t) PROVE TypeOK'
<1>. DEFINE k == packets[pkt[t]].key
            f == table[k]
<1>1. pkt[t] # 0
  BY DEF TypeOK, GetFlow, GetFlowNew, GetFlowFound, GetFlowReplaceQuietly,
         GetFlowReport, GetFlowReplace, Goto
<1>2. k \in Key
  BY <1>1, PacketOfThread DEF PacketRecord
<1>3. NoThread \in Thread \cup {NoThread} /\ flows \in Seq(FlowRecord)
  BY DEF TypeOK
<1>4. CASE GetFlowNew(t)
  BY <1>1, <1>3, <1>4, AfterInsertType DEF GetFlowNew
<1>5. CASE GetFlowFound(t)
  <2>1. f \in DOMAIN flows
    BY <1>2, <1>5, FlowUnderKey DEF GetFlowFound
  <2>2. f # 0
    BY <1>5 DEF GetFlowFound
  <2>. QED
    BY <1>5, <2>1, <2>2 DEF TypeOK, GetFlowFound, Goto, AfterGet, Thread, Worker, Reader,
                            ReaderPc, WorkerPc
<1>6. CASE GetFlowReplaceQuietly(t)
  <2>1. f \in DOMAIN flows
    BY <1>2, <1>6, FlowUnderKey DEF GetFlowReplaceQuietly
  <2>2. MarkNotified(f) \in Seq(FlowRecord) /\ DOMAIN MarkNotified(f) = DOMAIN flows
    BY <2>1, NotifyFlow
  <2>. QED
    BY <1>1, <1>3, <1>6, <2>2, AfterInsertType DEF GetFlowReplaceQuietly
<1>7. CASE GetFlowReport(t)
  <2>1. f \in DOMAIN flows
    BY <1>2, <1>7, FlowUnderKey DEF GetFlowReport
  <2>2. ReportFinished(f) \in Seq(FlowRecord) /\ DOMAIN ReportFinished(f) = DOMAIN flows
    BY <2>1, NotifyFlow
  <2>3. f # 0
    BY <1>7 DEF GetFlowReport
  <2>4. flows' \in Seq(FlowRecord) /\ DOMAIN flows' = DOMAIN flows
    BY <1>7, <2>2 DEF GetFlowReport
  <2>. QED
    BY <1>7, <2>1, <2>3, <2>4
    DEF TypeOK, GetFlowReport, Goto, Thread, Worker, Reader, ReaderPc, WorkerPc
<1>8. CASE GetFlowReplace(t)
  <2>1. flow[t] \in DOMAIN flows
    BY <1>8, FlowOfThread DEF TypeOK, GetFlowReplace, Goto
  <2>2. /\ MarkNotified(flow[t]) \in Seq(FlowRecord)
        /\ DOMAIN MarkNotified(flow[t]) = DOMAIN flows
    BY <2>1, NotifyFlow
  <2>. QED
    BY <1>1, <1>3, <1>8, <2>2, AfterInsertType DEF GetFlowReplace
<1>. QED
  BY <1>4, <1>5, <1>6, <1>7, <1>8 DEF GetFlow

(* The loop of processPackets and ThreadWaiter::wait move one program      *)
(* counter, and a pop one packet.                                          *)
LEMMA LoopType ==
  ASSUME TypeOK, NEW w \in Worker,
         Pop(w) \/ FindEmpty(w) \/ BeginWait(w) \/ WaitTimeout(w) \/ Exit(w)
  PROVE  TypeOK'
<1>1. CASE Pop(w)
  <2>1. Head(queue[w]) \in DOMAIN packets /\ Tail(queue[w]) \in Seq(DOMAIN packets)
    BY <1>1, HeadTailProperties DEF Pop, TypeOK
  <2>2. Head(queue[w]) # 0
    BY <2>1, ZeroIsNothing
  <2>3. queue' \in [Worker -> Seq(DOMAIN packets)]
    BY <1>1, <2>1 DEF Pop, TypeOK
  <2>4. w \in Thread /\ w # Reader /\ pc[w] = "loop"
    BY <1>1 DEF Pop, Goto, Thread, Worker, Reader
  <2>5. pc' = [pc EXCEPT ![w] = "get"] /\ pkt' = [pkt EXCEPT ![w] = Head(queue[w])]
    BY <1>1 DEF Pop, Goto
  <2>6. /\ pc' \in [Thread -> ReaderPc \cup WorkerPc]
        /\ pc'[Reader] \in ReaderPc /\ \A v \in Worker : pc'[v] \in WorkerPc
    BY <2>4, <2>5 DEF TypeOK, WorkerPc
  <2>7. pkt' \in [Thread -> {0} \cup DOMAIN packets]
    BY <2>1, <2>4, <2>5 DEF TypeOK
  <2>8. ASSUME NEW t \in Thread
        PROVE  /\ pkt'[t] # 0 <=> pc'[t] \in {"get", "replace", "inc", "push",
                                               "dec", "arrive", "establish", "add"}
               /\ flow[t] # 0 <=> pc'[t] \in {"replace", "inc", "push", "finish_flow",
                                               "dec", "arrive", "establish", "add", "check", "notify",
                                               "notified", "delete"}
    <3>1. CASE t = w
      BY <2>2, <2>4, <2>5, <3>1 DEF TypeOK
    <3>2. CASE t # w
      BY <2>5, <3>2 DEF TypeOK
    <3>. QED
      BY <3>1, <3>2
  <2>. QED
    BY <1>1, <2>3, <2>6, <2>7, <2>8 DEF TypeOK, Pop
<1>2. CASE FindEmpty(w) \/ BeginWait(w) \/ WaitTimeout(w) \/ Exit(w)
  <2>. USE DEF Goto, shared, Thread, Worker, Reader, ReaderPc, WorkerPc
  <2>1. CASE FindEmpty(w)
    BY <2>1 DEF TypeOK, FindEmpty
  <2>2. CASE BeginWait(w)
    BY <2>2 DEF TypeOK, BeginWait
  <2>3. CASE WaitTimeout(w)
    BY <2>3 DEF TypeOK, WaitTimeout
  <2>4. CASE Exit(w)
    BY <2>4 DEF TypeOK, Exit
  <2>. QED
    BY <1>2, <2>1, <2>2, <2>3, <2>4
<1>. QED
  BY <1>1, <1>2

(* The state machine of a flow stays within its states.                    *)
LEMMA StateAfterType ==
  ASSUME NEW st \in State, NEW kind \in Kind, NEW dir
  PROVE  StateAfter(st, kind, dir) \in State
BY DEF StateAfter, State, Kind, TcpKind

(* What a worker remembers of a flow is typed like the flow.               *)
LEMMA SeenUpdate ==
  ASSUME NEW s \in SeenRecord, NEW f \in FlowRecord
  PROVE  /\ [s EXCEPT !.classified = f.classified] \in SeenRecord
         /\ [s EXCEPT !.state = f.state, !.pktCount = f.pktCount,
                      !.overall = f.overall] \in SeenRecord
<1>1. f.classified \in BOOLEAN /\ f.state \in State /\ f.pktCount \in Nat /\ f.overall \in Nat
  BY DEF FlowRecord
<1>2. ASSUME NEW c \in BOOLEAN PROVE [s EXCEPT !.classified = c] \in SeenRecord
  BY DEF SeenRecord
<1>3. ASSUME NEW st \in State, NEW m \in Nat, NEW n \in Nat
      PROVE  [s EXCEPT !.state = st, !.pktCount = m, !.overall = n] \in SeenRecord
  BY DEF SeenRecord
<1>. QED
  BY <1>1, <1>2, <1>3

(* decPktsInQueue may take a counter below zero; it stays an integer.      *)
LEMMA DecType ==
  ASSUME TypeOK, NEW w \in Worker, Dec(w) PROVE TypeOK'
<1>1. flow[w] \in DOMAIN flows /\ flows[flow[w]] \in FlowRecord
  BY FlowOfThread DEF TypeOK, Dec, Goto, Thread
<1>2. [flows[flow[w]] EXCEPT !.count = @ - 1] \in FlowRecord
  BY <1>1 DEF FlowRecord
<1>3. flows' \in Seq(FlowRecord) /\ DOMAIN flows' = DOMAIN flows
  BY <1>1, <1>2, UpdateFlow DEF Dec, DecPktsInQueue
<1>4. [seen[w] EXCEPT !.classified = flows[flow[w]].classified] \in SeenRecord
  BY <1>1, SeenUpdate DEF TypeOK, Thread
<1>5. seen' \in [Thread -> SeenRecord]
  BY <1>4 DEF TypeOK, Dec, Thread
<1>. QED
  BY <1>3, <1>5 DEF TypeOK, Dec, Goto, Thread, Worker, Reader, ReaderPc, WorkerPc

(* What a worker reads of a flow has the types it has in the flow.         *)
LEMMA ArriveType ==
  ASSUME TypeOK, NEW w \in Worker, Arrive(w) PROVE TypeOK'
<1>1. flow[w] \in DOMAIN flows /\ flows[flow[w]] \in FlowRecord
  BY FlowOfThread DEF TypeOK, Arrive, Goto, Thread
<1>2. [seen[w] EXCEPT !.state = flows[flow[w]].state, !.pktCount = flows[flow[w]].pktCount,
                      !.overall = flows[flow[w]].overall] \in SeenRecord
  BY <1>1, SeenUpdate DEF TypeOK, Thread
<1>3. seen' \in [Thread -> SeenRecord]
  BY <1>2 DEF TypeOK, Arrive, Thread
<1>. QED
  BY <1>3 DEF TypeOK, Arrive, shared, Goto, Thread, Worker, Reader, ReaderPc, WorkerPc

(* A flow that opens is a flow.                                            *)
LEMMA EstablishType ==
  ASSUME TypeOK, NEW w \in Worker, Establish(w) PROVE TypeOK'
<1>1. flow[w] \in DOMAIN flows /\ flows[flow[w]] \in FlowRecord
  BY FlowOfThread DEF TypeOK, Establish, Goto, Thread
<1>2. [flows[flow[w]] EXCEPT !.state = "ESTABLISHING"] \in FlowRecord
  BY <1>1 DEF FlowRecord, State
<1>3. flows' \in Seq(FlowRecord) /\ DOMAIN flows' = DOMAIN flows
  BY <1>1, <1>2, UpdateFlow DEF Establish
<1>. QED
  BY <1>3 DEF TypeOK, Establish, Goto, Thread, Worker, Reader, ReaderPc, WorkerPc

(* Flow::addPacket leaves a flow, from whatever was read of it earlier.    *)
LEMMA AfterPacketType ==
  ASSUME NEW f \in FlowRecord, NEW s \in SeenRecord, NEW p \in PacketRecord,
         NEW overall \in Nat, NEW pktCount \in Nat, NEW classified \in BOOLEAN
  PROVE  AfterPacket(f, s, p, overall, pktCount, classified) \in FlowRecord
<1>. DEFINE dir == Direction(f.orig, p.side)
            st  == IF AssignsState(s.state, p.kind, dir)
                   THEN StateAfter(s.state, p.kind, dir) ELSE f.state
            lst == IF CountsAsData(s.state, p.kind) THEN p.ts ELSE f.last
<1>1. st \in State
  BY StateAfterType DEF FlowRecord, PacketRecord, SeenRecord
<1>2. lst \in Nat
  BY DEF FlowRecord, PacketRecord
<1>3. AfterPacket(f, s, p, overall, pktCount, classified) =
        [f EXCEPT !.overall = overall, !.pktCount = pktCount,
                  !.classified = classified, !.last = lst, !.state = st]
  BY DEF AfterPacket
<1>. HIDE DEF st, lst
<1>. QED
  BY <1>1, <1>2, <1>3 DEF FlowRecord

(* Flow::addPacket disposes of the packet and keeps the flow in hand.      *)
LEMMA AddPacketType ==
  ASSUME TypeOK, NEW w \in Worker, AddPacket(w) PROVE TypeOK'
<1>. DEFINE p == packets[pkt[w]]
            f == flows[flow[w]]
            s == seen[w]
            isData == CountsAsData(s.state, p.kind)
<1>1. w \in Thread /\ flow[w] # 0 /\ pkt[w] # 0
  BY DEF TypeOK, AddPacket, Goto, Thread
<1>2. flow[w] \in DOMAIN flows /\ f \in FlowRecord
  BY <1>1, FlowOfThread
<1>3. p \in PacketRecord /\ s \in SeenRecord
  BY <1>1, PacketOfThread DEF TypeOK
<1>4. PICK overall \in {f.overall + 1, s.overall + 1},
           pktCount \in IF isData THEN {f.pktCount + 1, s.pktCount + 1} ELSE {f.pktCount},
           classified \in IF isData /\ MayClassify THEN {f.classified, TRUE}
                          ELSE {f.classified} :
        flows' = [flows EXCEPT ![flow[w]] =
                    AfterPacket(f, s, p, overall, pktCount, classified)]
  BY DEF AddPacket
<1>5. overall \in Nat /\ pktCount \in Nat /\ classified \in BOOLEAN
  <2>1. overall = f.overall + 1 \/ overall = s.overall + 1
    BY <1>4
  <2>2. pktCount \in {f.pktCount, f.pktCount + 1, s.pktCount + 1}
    BY <1>4
  <2>3. classified = f.classified \/ classified = TRUE
    BY <1>4, Zenon
  <2>4. overall \in Nat /\ pktCount \in Nat
    BY <1>2, <1>3, <2>1, <2>2 DEF FlowRecord, SeenRecord
  <2>5. f.classified \in BOOLEAN
    BY <1>2 DEF FlowRecord
  <2>. QED
    BY <2>3, <2>4, <2>5, Zenon
<1>6. flows' \in Seq(FlowRecord) /\ DOMAIN flows' = DOMAIN flows
  BY <1>2, <1>3, <1>4, <1>5, AfterPacketType, UpdateFlow
<1>7. /\ packets' \in Seq(PacketRecord) /\ DOMAIN packets' = DOMAIN packets
      /\ pkt' = [pkt EXCEPT ![w] = 0]
  BY <1>1, DisposeType DEF AddPacket, Verdict
<1>. QED
  BY <1>1, <1>6, <1>7 DEF TypeOK, AddPacket, Goto, Thread, Worker, Reader, ReaderPc, WorkerPc

(* After addPacket the flow is let go, or kept in order to remove it.      *)
LEMMA CheckType ==
  ASSUME TypeOK, NEW w \in Worker, CheckOpen(w) \/ CheckClosed(w) PROVE TypeOK'
<1>1. flow[w] \in DOMAIN flows /\ flows[flow[w]] \in FlowRecord
  BY FlowOfThread DEF TypeOK, CheckOpen, CheckClosed, BackToLoop, Goto, Thread
<1>2. [flows[flow[w]] EXCEPT !.clsReports = @ + 1] \in FlowRecord
  BY <1>1 DEF FlowRecord
<1>3. ReportClassified(w)
  BY DEF CheckOpen, CheckClosed
<1>4. flows' \in Seq(FlowRecord) /\ DOMAIN flows' = DOMAIN flows
  BY <1>1, <1>2, <1>3, UpdateFlow DEF ReportClassified, TypeOK
<1>5. CASE CheckOpen(w)
  BY <1>4, <1>5 DEF TypeOK, CheckOpen, BackToLoop, Goto, NothingSeen, SeenRecord, State, Thread, Worker,
                    Reader, ReaderPc, WorkerPc
<1>6. CASE CheckClosed(w)
  BY <1>4, <1>6 DEF TypeOK, CheckClosed, Thread, Worker, Reader, ReaderPc, WorkerPc
<1>. QED
  BY <1>5, <1>6

(* The steps of notifyFlowFinished keep the flow in hand.                  *)
LEMMA NotifyType ==
  ASSUME TypeOK, NEW w \in Worker, NotifyQuietly(w) \/ NotifyReport(w) \/ NotifyMark(w)
  PROVE  TypeOK'
<1>1. flow[w] \in DOMAIN flows
  BY FlowOfThread DEF TypeOK, NotifyQuietly, NotifyReport, NotifyMark, Goto, Thread
<1>2. flows' = MarkNotified(flow[w]) \/ flows' = ReportFinished(flow[w])
  BY DEF NotifyQuietly, NotifyReport, NotifyMark
<1>3. flows' \in Seq(FlowRecord) /\ DOMAIN flows' = DOMAIN flows
  BY <1>1, <1>2, NotifyFlow
<1>. USE DEF Goto, Thread, Worker, Reader, ReaderPc, WorkerPc
<1>4. CASE NotifyQuietly(w)
  BY <1>3, <1>4 DEF TypeOK, NotifyQuietly
<1>5. CASE NotifyReport(w)
  BY <1>3, <1>5 DEF TypeOK, NotifyReport
<1>6. CASE NotifyMark(w)
  BY <1>3, <1>6 DEF TypeOK, NotifyMark
<1>. QED
  BY <1>4, <1>5, <1>6

(* deleteFlow lets go of the flow, which is in the table or not.           *)
LEMMA DeleteFlowType ==
  ASSUME TypeOK, NEW w \in Worker, DeleteFlow(w) PROVE TypeOK'
<1>1. flow[w] \in DOMAIN flows
  BY FlowOfThread DEF TypeOK, DeleteFlow, BackToLoop, Goto, Thread
<1>2. flows' \in Seq(FlowRecord) /\ DOMAIN flows' = DOMAIN flows
  BY <1>1, NotifyFlow DEF DeleteFlow, TypeOK
<1>3. table' \in [Key -> {0} \cup DOMAIN flows']
  BY <1>2 DEF DeleteFlow, TypeOK
<1>. QED
  BY <1>2, <1>3 DEF TypeOK, DeleteFlow, BackToLoop, Goto, NothingSeen, SeenRecord, State, Thread, Worker,
                    Reader, ReaderPc, WorkerPc

(* The loop of finished() takes flows out of the table.                    *)
LEMMA FinishType ==
  ASSUME TypeOK, FinishFlow PROVE TypeOK'
<1>. Reader \in Thread
  BY DEF Thread
<1>1. ASSUME NEW k \in Key, FinishFlowQuietly(k) PROVE TypeOK'
  <2>1. table[k] \in DOMAIN flows
    BY <1>1, FlowUnderKey DEF FinishFlowQuietly
  <2>2. flows' \in Seq(FlowRecord) /\ DOMAIN flows' = DOMAIN flows
    BY <1>1, <2>1, NotifyFlow DEF FinishFlowQuietly
  <2>. QED
    BY <1>1, <2>2 DEF TypeOK, FinishFlowQuietly, local
<1>2. ASSUME NEW k \in Key, FinishFlowReport(k) PROVE TypeOK'
  <2>1. table[k] \in DOMAIN flows /\ table[k] # 0
    BY <1>2, FlowUnderKey DEF FinishFlowReport
  <2>2. flows' \in Seq(FlowRecord) /\ DOMAIN flows' = DOMAIN flows
    BY <1>2, <2>1, NotifyFlow DEF FinishFlowReport
  <2>. QED
    BY <1>2, <2>1, <2>2 DEF TypeOK, FinishFlowReport, Goto, Thread, Worker, Reader, ReaderPc,
                            WorkerPc
<1>3. ASSUME FinishFlowErase PROVE TypeOK'
  <2>1. flow[Reader] \in DOMAIN flows
    BY <1>3, FlowOfThread DEF TypeOK, FinishFlowErase, Goto
  <2>2. flows' \in Seq(FlowRecord) /\ DOMAIN flows' = DOMAIN flows
    BY <1>3, <2>1, NotifyFlow DEF FinishFlowErase
  <2>. QED
    BY <1>3, <2>2 DEF TypeOK, FinishFlowErase, Goto, Thread, Worker, Reader, ReaderPc, WorkerPc
<1>. QED
  BY <1>1, <1>2, <1>3 DEF FinishFlow

(* Calling and leaving finished(), shutting down and destroying.           *)
LEMMA LifeCycleType ==
  ASSUME TypeOK,
         CallFinished \/ LockTable \/ UnlockTable \/ Shutdown \/ Destroy \/ Join
  PROVE  TypeOK'
<1>. USE DEF Goto, Thread, Worker, Reader, ReaderPc, WorkerPc
<1>1. CASE CallFinished
  BY <1>1 DEF TypeOK, CallFinished, shared
<1>2. CASE LockTable
  BY <1>2 DEF TypeOK, LockTable
<1>3. CASE UnlockTable
  BY <1>3 DEF TypeOK, UnlockTable, NoThread
<1>4. CASE Shutdown
  BY <1>4 DEF TypeOK, Shutdown, local
<1>5. CASE Destroy
  BY <1>5 DEF TypeOK, Destroy
<1>6. CASE Join
  <2>1. queue' \in [Worker -> Seq(DOMAIN packets')]
    BY <1>6, EmptySeq DEF Join
  <2>. QED
    BY <1>6, <2>1 DEF TypeOK, Join
<1>. QED
  BY <1>1, <1>2, <1>3, <1>4, <1>5, <1>6

(* What the constructor and init() leave is well typed.                    *)
LEMMA InitType == Init => TypeOK
<1>. SUFFICES ASSUME Init PROVE TypeOK
  OBVIOUS
<1>1. /\ packets \in Seq(PacketRecord) /\ flows \in Seq(FlowRecord)
      /\ queue \in [Worker -> Seq(DOMAIN packets)]
  BY EmptySeq DEF Init
<1>2. currentQueue \in 0 .. NumWorkers
  BY ConfigAssumption DEF Init
<1>3. /\ pc \in [Thread -> ReaderPc \cup WorkerPc] /\ pkt \in [Thread -> {0}]
      /\ flow \in [Thread -> {0}]
      /\ \A t \in Thread : pc[t] \in {"idle", "loop"} /\ pkt[t] = 0 /\ flow[t] = 0
  BY DEF Init, ReaderPc, WorkerPc
<1>4. pc[Reader] \in ReaderPc /\ \A w \in Worker : pc[w] \in WorkerPc
  BY DEF Init, Thread, Worker, Reader, ReaderPc, WorkerPc
<1>5. seen \in [Thread -> SeenRecord] /\ table \in [Key -> {0} \cup DOMAIN flows]
  BY DEF Init, NothingSeen, SeenRecord, State
<1>. QED
  BY <1>1, <1>2, <1>3, <1>4, <1>5 DEF Init, TypeOK

(* Every step keeps every variable's type.                                 *)
LEMMA NextType == TypeOK /\ [Next]_vars => TypeOK'
<1>. SUFFICES ASSUME TypeOK, [Next]_vars PROVE TypeOK'
  OBVIOUS
<1>1. CASE Environment
  BY <1>1, ReceiveType, LifeCycleType DEF Environment
<1>2. CASE ReaderStep
  BY <1>2, GetFlowType, IncType, PushOkType, PushFullType, FinishType, LifeCycleType
  DEF ReaderStep, Thread
<1>3. ASSUME NEW w \in Worker, WorkerStep(w) PROVE TypeOK'
  <2>1. w \in Thread
    BY DEF Thread
  <2>. QED
    BY <1>3, <2>1, GetFlowType, LoopType, DecType, ArriveType, EstablishType, AddPacketType,
       CheckType, NotifyType, DeleteFlowType
    DEF WorkerStep, ProcessPacket
<1>4. CASE UNCHANGED vars
  BY <1>4 DEF TypeOK, vars
<1>. QED
  BY <1>1, <1>2, <1>3, <1>4 DEF Next

(* Every variable of the manager keeps its type, and every thread has a    *)
(* packet and a flow at hand where its code uses one.                      *)
THEOREM TypeCorrect == Spec => []TypeOK
<1>. QED
  BY InitType, NextType, PTL DEF Spec

-------------------------------------------------------------------------------
(* Packets and verdicts *)

(* Where packets are and what became of them changes in six actions only.  *)
Where == <<packets, queue, pkt>>

(* In every other action packets, queues and hands stay what they are.     *)
LEMMA WhatMovesPackets ==
  ASSUME [Next]_vars
  PROVE  \/ \E shape \in Traffic, ts \in Clock .. MaxClock : Receive(shape, ts)
         \/ PushOk \/ PushFull \/ Join
         \/ \E w \in Worker : Pop(w) \/ AddPacket(w)
         \/ UNCHANGED Where
<1>1. ASSUME NEW t, GetFlow(t) PROVE UNCHANGED Where
  BY <1>1 DEF Where, GetFlow, GetFlowNew, GetFlowFound, GetFlowReplaceQuietly, GetFlowReport,
              GetFlowReplace
<1>2. Environment => \/ \E shape \in Traffic, ts \in Clock .. MaxClock : Receive(shape, ts)
                     \/ UNCHANGED Where
  BY DEF Where, Environment, CallFinished, Shutdown, shared, local
<1>3. ReaderStep => PushOk \/ PushFull \/ Join \/ UNCHANGED Where
  BY <1>1 DEF Where, ReaderStep, Inc, LockTable, FinishFlow, FinishFlowQuietly,
              FinishFlowReport, FinishFlowErase, UnlockTable, Destroy, shared, local
<1>4. ASSUME NEW w \in Worker, WorkerStep(w) PROVE Pop(w) \/ AddPacket(w) \/ UNCHANGED Where
  BY <1>1, <1>4 DEF Where, WorkerStep, ProcessPacket, FindEmpty, BeginWait, WaitTimeout, Exit,
                    Dec, Arrive, Establish, CheckOpen, CheckClosed, NotifyQuietly, NotifyReport,
                    NotifyMark, DeleteFlow, shared
<1>5. UNCHANGED vars => UNCHANGED Where
  BY DEF vars, Where
<1>. QED
  BY <1>2, <1>3, <1>4, <1>5 DEF Next

(* Nothing happens to a manager that is destroyed.                         *)
LEMMA StaysDestroyed ==
  ASSUME TypeOK, [Next]_vars PROVE Destroyed => Destroyed'
<1>. SUFFICES ASSUME pc[Reader] = "done" PROVE pc'[Reader] = "done"
  BY DEF Destroyed
<1>. Reader \in Thread /\ \A w \in Worker : w \in Thread /\ w # Reader
  BY DEF Thread, Worker, Reader
<1>1. pc \in [Thread -> ReaderPc \cup WorkerPc]
  BY DEF TypeOK
<1>2. ASSUME NEW t \in Thread, GetFlow(t) PROVE pc'[Reader] = "done"
  BY <1>1, <1>2 DEF GetFlow, GetFlowNew, GetFlowFound, GetFlowReplaceQuietly, GetFlowReport,
                    GetFlowReplace, Goto
<1>3. Environment => pc'[Reader] = "done"
  BY <1>1 DEF Environment, Receive, CallFinished, Shutdown, local, Goto
<1>4. ReaderStep => pc'[Reader] = "done"
  BY <1>1, <1>2 DEF ReaderStep, Inc, PushOk, PushFull, LockTable, FinishFlow, FinishFlowQuietly,
                    FinishFlowReport, FinishFlowErase, UnlockTable, Destroy, Join, Goto
<1>5. ASSUME NEW w \in Worker, WorkerStep(w) PROVE pc'[Reader] = "done"
  <2>1. ASSUME Pop(w) \/ FindEmpty(w) \/ BeginWait(w) \/ WaitTimeout(w) \/ Exit(w) \/ Dec(w)
               \/ Arrive(w) \/ Establish(w) \/ AddPacket(w)
        PROVE  pc'[Reader] = "done"
    BY <1>1, <2>1 DEF Pop, FindEmpty, BeginWait, WaitTimeout, Exit, Dec, Arrive, Establish,
                      AddPacket, Goto
  <2>2. ASSUME CheckOpen(w) \/ CheckClosed(w) \/ NotifyQuietly(w) \/ NotifyReport(w)
               \/ NotifyMark(w) \/ DeleteFlow(w)
        PROVE  pc'[Reader] = "done"
    BY <1>1, <2>2 DEF CheckOpen, CheckClosed, NotifyQuietly, NotifyReport, NotifyMark,
                      DeleteFlow, BackToLoop, Goto
  <2>. QED
    BY <1>2, <1>5, <2>1, <2>2 DEF WorkerStep, ProcessPacket
<1>6. UNCHANGED vars => pc'[Reader] = "done"
  BY DEF vars
<1>. QED
  BY <1>3, <1>4, <1>5, <1>6 DEF Next

(* A packet that has just been read is nowhere else.                       *)
LEMMA ReceivePlace ==
  ASSUME TypeOK, OnePlace, Destroyed => Destroyed',
         NEW shape \in Traffic, NEW ts \in Clock .. MaxClock, Receive(shape, ts)
  PROVE  OnePlace'
<1>. PICK new : new = Len(packets) + 1
  OBVIOUS
<1>. DEFINE p == [key |-> shape.key, kind |-> shape.kind, side |-> shape.side, ts |-> ts,
                  verdict |-> IF shutdown THEN "accept" ELSE "none"]
<1>1. packets' = Append(packets, p) /\ queue' = queue
  BY DEF Receive
<1>2. /\ DOMAIN packets' = DOMAIN packets \cup {new}
      /\ new \notin DOMAIN packets
      /\ \A q \in DOMAIN packets : packets'[q] = packets[q]
      /\ packets'[new] = p
  <2>1. TypeOK'
    BY ReceiveType
  <2>2. p \in PacketRecord
    <3>1. packets' \in Seq(PacketRecord)
      BY <2>1 DEF TypeOK
    <3>2. Len(packets) \in Nat /\ new \in 1 .. Len(packets')
      BY <1>1, LenProperties DEF TypeOK
    <3>. QED
      BY <1>1, <3>1, <3>2, ElementOfSeq DEF TypeOK
  <2>. QED
    BY <1>1, <2>2, SeqAppend DEF TypeOK
<1>3. \A w \in Worker : \A i \in DOMAIN queue[w] : queue[w][i] \in DOMAIN packets
  BY ElementOfSeq, LenProperties DEF TypeOK
<1>4. \A t \in Thread : pkt[t] \in DOMAIN packets \cup {0}
  BY DEF TypeOK
<1>5. new # 0 /\ Reader \in Thread
  BY LenProperties DEF TypeOK, Thread
<1>6. ~Queued(new)' /\ \A q \in DOMAIN packets : Queued(q)' <=> Queued(q)
  BY <1>1, <1>2, <1>3 DEF Queued
<1>7. CASE shutdown
  <2>1. pkt' = pkt
    BY <1>7 DEF Receive
  <2>2. ~Held(new)' /\ \A q \in DOMAIN packets : Held(q)' <=> Held(q)
    BY <1>2, <1>4, <1>5, <2>1 DEF Held
  <2>3. ~Open(new)' /\ \A q \in DOMAIN packets : Open(q)' <=> Open(q)
    BY <1>2, <1>7 DEF Open
  <2>. QED
    BY <1>1, <1>2, <1>6, <2>1, <2>2, <2>3
    DEF OnePlace, NothingLost, NothingFreedInUse, NothingShared
<1>8. CASE ~shutdown
  <2>1. pkt' = [pkt EXCEPT ![Reader] = new] /\ pkt[Reader] = 0
    BY <1>8 DEF Receive, TypeOK, Thread
  <2>2. Held(new)' /\ \A q \in DOMAIN packets : Held(q)' <=> Held(q)
    BY <1>2, <1>4, <1>5, <2>1, ZeroIsNothing DEF Held, TypeOK
  <2>3. Open(new)' /\ \A q \in DOMAIN packets : Open(q)' <=> Open(q)
    BY <1>2, <1>8 DEF Open
  <2>4. \A t, u \in Thread : pkt'[t] = pkt'[u] /\ pkt'[t] # 0 => t = u
    BY <1>2, <1>4, <1>5, <2>1 DEF OnePlace, NothingShared, TypeOK
  <2>. QED
    BY <1>1, <1>2, <1>6, <2>2, <2>3, <2>4
    DEF OnePlace, NothingLost, NothingFreedInUse, NothingShared
<1>. QED
  BY <1>7, <1>8

(* A thread that puts its packet down no longer holds it, and nothing else *)
(* changes hands.                                                          *)
LEMMA PutDown ==
  ASSUME TypeOK, OnePlace, NEW t \in Thread, pkt[t] # 0, pkt' = [pkt EXCEPT ![t] = 0]
  PROVE  /\ \A p \in DOMAIN packets : Held(p)' <=> Held(p) /\ p # pkt[t]
         /\ \A u, v \in Thread : pkt'[u] = pkt'[v] /\ pkt'[u] # 0 => u = v
<1>1. \A u \in Thread : pkt'[u] = IF u = t THEN 0 ELSE pkt[u]
  BY DEF TypeOK
<1>2. \A u, v \in Thread : pkt[u] = pkt[v] /\ pkt[u] # 0 => u = v
  BY DEF OnePlace, NothingShared
<1>. QED
  BY <1>1, <1>2, ZeroIsNothing DEF Held

(* Giving a held packet its verdict disposes of that packet and no other.  *)
LEMMA DisposePlace ==
  ASSUME TypeOK, OnePlace, NEW t \in Thread, pkt[t] # 0, NEW v \in {"accept", "drop"},
         Dispose(t, v), UNCHANGED queue, Destroyed => Destroyed'
  PROVE  OnePlace'
<1>. PICK q : q = pkt[t]
  OBVIOUS
<1>1. DOMAIN packets' = DOMAIN packets
  BY DisposeType DEF Verdict
<1>2. q \in DOMAIN packets
  BY PacketOfThread
<1>3. \A p \in DOMAIN packets : Open(p)' <=> Open(p) /\ p # q
  <2>1. packets[q] \in PacketRecord
    BY PacketOfThread
  <2>2. packets'[q].verdict = v
    BY <1>2, <2>1 DEF Dispose, PacketRecord
  <2>3. \A p \in DOMAIN packets : p # q => packets'[p] = packets[p]
    BY DEF Dispose
  <2>. QED
    BY <2>2, <2>3 DEF Open
<1>4. /\ \A p \in DOMAIN packets : Held(p)' <=> Held(p) /\ p # q
      /\ \A u, w \in Thread : pkt'[u] = pkt'[w] /\ pkt'[u] # 0 => u = w
  BY PutDown DEF Dispose
<1>5. \A p : Queued(p)' <=> Queued(p)
  BY DEF Queued
<1>6. ~Queued(q)
  BY <1>2 DEF OnePlace, NothingShared, Held
<1>. QED
  BY <1>1, <1>2, <1>3, <1>4, <1>5, <1>6 DEF OnePlace, NothingLost, NothingFreedInUse, NothingShared

(* A push adds the reader's packet at the end of one queue.                *)
LEMMA PushedQueue ==
  ASSUME TypeOK, PushOk
  PROVE  /\ pkt[Reader] \in DOMAIN packets
         /\ \E q \in Worker : \E n :
              /\ DOMAIN queue'[q] = DOMAIN queue[q] \cup {n}
              /\ n \notin DOMAIN queue[q]
              /\ queue'[q][n] = pkt[Reader]
              /\ \A i \in DOMAIN queue[q] : queue'[q][i] = queue[q][i]
              /\ \A w \in Worker : w # q => queue'[w] = queue[w]
         /\ \A p : Queued(p)' <=> Queued(p) \/ p = pkt[Reader]
<1>. PICK p0 : p0 = pkt[Reader]
  OBVIOUS
<1>. PICK q : q = flows[flow[Reader]].tq
  OBVIOUS
<1>1. Reader \in Thread /\ p0 # 0 /\ flow[Reader] # 0
  BY DEF Thread, TypeOK, PushOk
<1>2. p0 \in DOMAIN packets /\ q \in Worker
  BY <1>1, PacketOfThread, FlowOfThread DEF FlowRecord
<1>4. queue' = [queue EXCEPT ![q] = Append(queue[q], p0)]
  BY DEF PushOk, PushQueue
<1>5. queue \in [Worker -> Seq(DOMAIN packets)]
  BY DEF TypeOK
<1>6. PICK n : n = Len(queue[q]) + 1
  OBVIOUS
<1>7. /\ DOMAIN queue'[q] = DOMAIN queue[q] \cup {n}
      /\ n \notin DOMAIN queue[q]
      /\ queue'[q][n] = p0
      /\ \A i \in DOMAIN queue[q] : queue'[q][i] = queue[q][i]
      /\ \A w \in Worker : w # q => queue'[w] = queue[w]
  <2>1. queue[q] \in Seq(DOMAIN packets) /\ queue'[q] = Append(queue[q], p0)
    BY <1>2, <1>4, <1>5
  <2>2. \A w \in Worker : w # q => queue'[w] = queue[w]
    BY <1>4, <1>5
  <2>3. /\ DOMAIN Append(queue[q], p0) = DOMAIN queue[q] \cup {n}
        /\ n \notin DOMAIN queue[q]
        /\ \A i \in DOMAIN queue[q] : Append(queue[q], p0)[i] = queue[q][i]
        /\ Append(queue[q], p0)[n] = p0
    <3>. DEFINE S == DOMAIN packets
    <3>1. queue[q] \in Seq(S) /\ p0 \in S
      BY <1>2, <2>1
    <3>. HIDE DEF S
    <3>. QED
      BY <1>6, <3>1, SeqAppend
  <2>. QED
    BY <2>1, <2>2, <2>3
<1>8. \A p : Queued(p)' <=> Queued(p) \/ p = p0
  BY <1>2, <1>7 DEF Queued
<1>. QED
  BY <1>2, <1>7, <1>8

(* A push moves a packet from the reader's hands to the end of one queue.  *)
LEMMA PushOkPlace ==
  ASSUME TypeOK, OnePlace, PushOk, Destroyed => Destroyed' PROVE OnePlace'
<1>. PICK p0 : p0 = pkt[Reader]
  OBVIOUS
<1>1. Reader \in Thread /\ p0 # 0
  BY DEF Thread, TypeOK, PushOk
<1>2. p0 \in DOMAIN packets
  BY PushedQueue
<1>3. packets' = packets /\ pkt' = [pkt EXCEPT ![Reader] = 0]
  BY DEF PushOk
<1>. PICK q \in Worker : \E n :
       /\ DOMAIN queue'[q] = DOMAIN queue[q] \cup {n}
       /\ n \notin DOMAIN queue[q]
       /\ queue'[q][n] = p0
       /\ \A i \in DOMAIN queue[q] : queue'[q][i] = queue[q][i]
       /\ \A w \in Worker : w # q => queue'[w] = queue[w]
  BY PushedQueue
<1>7. PICK n :
       /\ DOMAIN queue'[q] = DOMAIN queue[q] \cup {n}
       /\ n \notin DOMAIN queue[q]
       /\ queue'[q][n] = p0
       /\ \A i \in DOMAIN queue[q] : queue'[q][i] = queue[q][i]
       /\ \A w \in Worker : w # q => queue'[w] = queue[w]
  OBVIOUS
<1>8. /\ \A p \in DOMAIN packets : Held(p)' <=> Held(p) /\ p # p0
      /\ \A u, w \in Thread : pkt'[u] = pkt'[w] /\ pkt'[u] # 0 => u = w
  BY <1>1, <1>3, PutDown
<1>9. \A p : Queued(p)' <=> Queued(p) \/ p = p0
  BY PushedQueue
<1>10. Held(p0) /\ ~Queued(p0)
  BY <1>1, <1>2 DEF OnePlace, NothingShared, Held
<1>11. \A w, v \in Worker : \A i \in DOMAIN queue'[w], j \in DOMAIN queue'[v] :
         queue'[w][i] = queue'[v][j] => w = v /\ i = j
  BY <1>7, <1>10 DEF OnePlace, NothingShared, Queued
<1>12. \A p : Open(p)' <=> Open(p)
  BY <1>3 DEF Open
<1>. QED
  BY <1>3, <1>8, <1>9, <1>10, <1>11, <1>12
  DEF OnePlace, NothingLost, NothingFreedInUse, NothingShared

(* A pop takes the head of one queue out, and out of the queues at all.    *)
LEMMA PoppedQueue ==
  ASSUME TypeOK, OnePlace, NEW w \in Worker, Pop(w)
  PROVE  /\ Queued(Head(queue[w])) /\ Head(queue[w]) \in DOMAIN packets
         /\ \A p : Queued(p)' <=> Queued(p) /\ p # Head(queue[w])
<1>. PICK p0 : p0 = Head(queue[w])
  OBVIOUS
<1>1. w \in Thread /\ pkt[w] = 0 /\ queue[w] # << >>
  BY DEF Thread, TypeOK, Pop, Goto
<1>2. packets' = packets /\ pkt' = [pkt EXCEPT ![w] = p0] /\ queue' = [queue EXCEPT ![w] = Tail(@)]
  BY DEF Pop
<1>3. /\ queue[w] \in Seq(DOMAIN packets) /\ Len(queue[w]) \in Nat \ {0}
      /\ DOMAIN queue[w] = 1 .. Len(queue[w])
  BY <1>1, EmptySeq, LenProperties DEF TypeOK
<1>4. p0 = queue[w][1] /\ p0 \in DOMAIN packets
  BY <1>1, <1>3, HeadTailProperties
<1>5. /\ DOMAIN queue'[w] = 1 .. Len(queue[w]) - 1
      /\ \A i \in DOMAIN queue'[w] : queue'[w][i] = queue[w][i + 1]
      /\ \A v \in Worker : v # w => queue'[v] = queue[v]
  <2>1. queue'[w] = Tail(queue[w]) /\ \A v \in Worker : v # w => queue'[v] = queue[v]
    BY <1>2 DEF TypeOK
  <2>. QED
    BY <1>1, <1>3, <2>1, HeadTailProperties, LenProperties
<1>6. \A v, u \in Worker : \A i \in DOMAIN queue[v], j \in DOMAIN queue[u] :
        queue[v][i] = queue[u][j] => v = u /\ i = j
  BY DEF OnePlace, NothingShared
<1>7. \A p : Queued(p)' <=> Queued(p) /\ p # p0
  <2>1. ASSUME NEW p, Queued(p)' PROVE Queued(p) /\ p # p0
    <3>1. PICK v \in Worker : \E i \in DOMAIN queue'[v] : queue'[v][i] = p
      BY <2>1 DEF Queued
    <3>2. PICK i \in DOMAIN queue'[v] : queue'[v][i] = p
      BY <3>1
    <3>3. CASE v = w
      <4>1. i \in 1 .. Len(queue[w]) - 1
        BY <1>5, <3>2, <3>3
      <4>2. i + 1 \in DOMAIN queue[w] /\ i + 1 # 1 /\ 1 \in DOMAIN queue[w]
        BY <1>3, <4>1
      <4>3. queue[w][i + 1] = p
        BY <1>5, <3>2, <3>3
      <4>. QED
        BY <1>4, <1>6, <4>2, <4>3 DEF Queued
    <3>4. CASE v # w
      <4>1. queue[v][i] = p /\ i \in DOMAIN queue[v] /\ 1 \in DOMAIN queue[w]
        BY <1>3, <1>5, <3>2, <3>4
      <4>. QED
        BY <1>4, <1>6, <3>4, <4>1 DEF Queued
    <3>. QED
      BY <3>3, <3>4
  <2>2. ASSUME NEW p, Queued(p), p # p0 PROVE Queued(p)'
    <3>1. PICK v \in Worker : \E i \in DOMAIN queue[v] : queue[v][i] = p
      BY <2>2 DEF Queued
    <3>2. PICK i \in DOMAIN queue[v] : queue[v][i] = p
      BY <3>1
    <3>3. CASE v = w
      <4>1. i - 1 \in DOMAIN queue'[w] /\ queue'[w][i - 1] = p
        BY <1>3, <1>4, <1>5, <2>2, <3>2, <3>3
      <4>. QED
        BY <4>1 DEF Queued
    <3>4. CASE v # w
      BY <1>5, <3>2, <3>4 DEF Queued
    <3>. QED
      BY <3>3, <3>4
  <2>. QED
    BY <2>1, <2>2
<1>8. Queued(p0)
  BY <1>3, <1>4 DEF Queued
<1>. QED
  BY <1>4, <1>7, <1>8

(* A pop moves a packet from the head of one queue to its worker's hands.  *)
LEMMA PopPlace ==
  ASSUME TypeOK, OnePlace, NEW w \in Worker, Pop(w), Destroyed => Destroyed' PROVE OnePlace'
<1>. PICK p0 : p0 = Head(queue[w])
  OBVIOUS
<1>1. w \in Thread /\ pkt[w] = 0 /\ queue[w] # << >>
  BY DEF Thread, TypeOK, Pop, Goto
<1>2. packets' = packets /\ pkt' = [pkt EXCEPT ![w] = p0] /\ queue' = [queue EXCEPT ![w] = Tail(@)]
  BY DEF Pop
<1>3. /\ queue[w] \in Seq(DOMAIN packets) /\ Len(queue[w]) \in Nat \ {0}
      /\ DOMAIN queue[w] = 1 .. Len(queue[w])
  BY <1>1, EmptySeq, LenProperties DEF TypeOK
<1>4. p0 = queue[w][1] /\ p0 \in DOMAIN packets
  BY <1>1, <1>3, HeadTailProperties
<1>5. /\ DOMAIN queue'[w] = 1 .. Len(queue[w]) - 1
      /\ \A i \in DOMAIN queue'[w] : queue'[w][i] = queue[w][i + 1]
      /\ \A v \in Worker : v # w => queue'[v] = queue[v]
  <2>1. queue'[w] = Tail(queue[w]) /\ \A v \in Worker : v # w => queue'[v] = queue[v]
    BY <1>2 DEF TypeOK
  <2>. QED
    BY <1>1, <1>3, <2>1, HeadTailProperties, LenProperties
<1>6. \A v, u \in Worker : \A i \in DOMAIN queue[v], j \in DOMAIN queue[u] :
        queue[v][i] = queue[u][j] => v = u /\ i = j
  BY DEF OnePlace, NothingShared
<1>7. \A p : Queued(p)' <=> Queued(p) /\ p # p0
  BY PoppedQueue
<1>8. Queued(p0) /\ ~Held(p0)
  BY <1>3, <1>4 DEF OnePlace, NothingShared, Queued
<1>9. /\ \A p \in DOMAIN packets : Held(p)' <=> Held(p) \/ p = p0
      /\ \A t, u \in Thread : pkt'[t] = pkt'[u] /\ pkt'[t] # 0 => t = u
  <2>1. \A t \in Thread : pkt'[t] = IF t = w THEN p0 ELSE pkt[t]
    BY <1>1, <1>2 DEF TypeOK
  <2>2. \A t \in Thread : pkt[t] # p0
    BY <1>8 DEF Held
  <2>3. \A t, u \in Thread : pkt[t] = pkt[u] /\ pkt[t] # 0 => t = u
    BY DEF OnePlace, NothingShared
  <2>. QED
    BY <1>1, <2>1, <2>2, <2>3, ZeroIsNothing DEF Held
<1>10. \A v, u \in Worker : \A i \in DOMAIN queue'[v], j \in DOMAIN queue'[u] :
         queue'[v][i] = queue'[u][j] => v = u /\ i = j
  <2>. DEFINE Slot(v, i) == IF v = w THEN i + 1 ELSE i
  <2>1. ASSUME NEW v \in Worker, NEW i \in DOMAIN queue'[v]
        PROVE  Slot(v, i) \in DOMAIN queue[v] /\ queue'[v][i] = queue[v][Slot(v, i)] /\ i \in Int
    <3>1. CASE v = w
      <4>1. i \in 1 .. Len(queue[w]) - 1
        BY <1>5, <2>1, <3>1
      <4>2. i + 1 \in DOMAIN queue[w] /\ i \in Int
        BY <1>3, <4>1
      <4>3. queue'[w][i] = queue[w][i + 1]
        BY <1>5, <4>1
      <4>. QED
        BY <3>1, <4>2, <4>3
    <3>2. CASE v # w
      <4>1. queue'[v] = queue[v]
        BY <1>5, <3>2
      <4>2. DOMAIN queue[v] = 1 .. Len(queue[v]) /\ Len(queue[v]) \in Nat
        BY LenProperties DEF TypeOK
      <4>. QED
        BY <2>1, <3>2, <4>1, <4>2
    <3>. QED
      BY <3>1, <3>2
  <2>2. SUFFICES ASSUME NEW v \in Worker, NEW u \in Worker,
                        NEW i \in DOMAIN queue'[v], NEW j \in DOMAIN queue'[u],
                        queue'[v][i] = queue'[u][j]
                 PROVE  v = u /\ i = j
    OBVIOUS
  <2>3. v = u /\ Slot(v, i) = Slot(u, j)
    <3>. HIDE DEF Slot
    <3>. QED
      BY <1>6, <2>1, <2>2
  <2>. QED
    BY <2>1, <2>3
<1>11. \A p : Open(p)' <=> Open(p)
  BY <1>2 DEF Open
<1>. QED
  BY <1>2, <1>7, <1>8, <1>9, <1>10, <1>11
  DEF OnePlace, NothingLost, NothingFreedInUse, NothingShared

(* Every step leaves each packet in its one place.                         *)
LEMMA NextPlace ==
  ASSUME TypeOK, OnePlace, [Next]_vars PROVE OnePlace'
<1>. USE DEF Thread
<1>0. Destroyed => Destroyed'
  BY StaysDestroyed
<1>1. CASE \E shape \in Traffic, ts \in Clock .. MaxClock : Receive(shape, ts)
  BY <1>0, <1>1, ReceivePlace
<1>2. CASE PushOk
  BY <1>0, <1>2, PushOkPlace
<1>3. CASE PushFull
  <2>1. pkt[Reader] # 0
    BY <1>3 DEF TypeOK, PushFull, Goto
  <2>2. Dispose(Reader, "drop") /\ UNCHANGED queue
    BY <1>3 DEF PushFull
  <2>. QED
    BY <1>0, <2>1, <2>2, DisposePlace
<1>4. ASSUME NEW w \in Worker, Pop(w) PROVE OnePlace'
  BY <1>0, <1>4, PopPlace
<1>5. ASSUME NEW w \in Worker, AddPacket(w) PROVE OnePlace'
  <2>1. pkt[w] # 0
    BY <1>5 DEF TypeOK, AddPacket, Goto
  <2>2. Dispose(w, "accept") /\ UNCHANGED queue
    BY <1>5 DEF AddPacket
  <2>. QED
    BY <1>0, <2>1, <2>2, DisposePlace
<1>6. CASE UNCHANGED Where
  BY <1>0, <1>6 DEF Where, OnePlace, NothingLost, NothingFreedInUse, NothingShared, Open, Held, Queued
<1>7. CASE Join
  <2>1. Destroyed' /\ UNCHANGED <<packets, pkt>> /\ \A w \in Worker : queue'[w] = << >>
    BY <1>7 DEF Join, Goto, Destroyed, TypeOK
  <2>2. /\ \A p : ~Queued(p)'
        /\ \A p : (Open(p)' <=> Open(p)) /\ (Held(p)' <=> Held(p))
    BY <2>1 DEF Queued, Open, Held
  <2>3. NothingLost'
    BY <2>1 DEF NothingLost
  <2>4. NothingFreedInUse'
    BY <2>1, <2>2 DEF OnePlace, NothingFreedInUse
  <2>5. NothingShared'
    BY <2>1, <2>2 DEF OnePlace, NothingShared
  <2>. QED
    BY <2>3, <2>4, <2>5 DEF OnePlace
<1>. QED
  BY <1>1, <1>2, <1>3, <1>4, <1>5, <1>6, <1>7, WhatMovesPackets

(* While the manager exists no packet is lost, and none is ever freed      *)
(* twice or used after it was freed, for any number of workers and any     *)
(* size of the queues: until it has its verdict it is in one queue slot or *)
(* in the hands of one thread, and afterwards in none (addPacket,          *)
(* processPackets, Flow::addPacket).  What the destructor finds in the     *)
(* queues is lost.                                                         *)
THEOREM AlwaysOnePlace == Spec => []OnePlace
<1>1. Init => OnePlace
  BY DEF Init, OnePlace, NothingLost, NothingFreedInUse, NothingShared, Held, Queued
<1>. QED
  BY <1>1, TypeCorrect, NextPlace, PTL DEF Spec

(* The packets themselves do not change, and each gets its verdict once.   *)
LEMMA NextVerdict ==
  ASSUME TypeOK, OnePlace, [Next]_vars
  PROVE  \A p \in DOMAIN packets :
           /\ p \in DOMAIN packets'
           /\ packets'[p] # packets[p] =>
                Open(p) /\ packets'[p] = [packets[p] EXCEPT !.verdict = packets'[p].verdict]
<1>. USE DEF Thread
<1>1. ASSUME NEW shape \in Traffic, NEW ts \in Clock .. MaxClock, Receive(shape, ts)
      PROVE  \A p \in DOMAIN packets : p \in DOMAIN packets' /\ packets'[p] = packets[p]
  <2>. DEFINE new == [key |-> shape.key, kind |-> shape.kind, side |-> shape.side, ts |-> ts,
                      verdict |-> IF shutdown THEN "accept" ELSE "none"]
  <2>1. packets' = Append(packets, new) /\ packets \in Seq(PacketRecord)
    BY <1>1 DEF Receive, TypeOK
  <2>. QED
    BY <2>1, AppendProperties, LenProperties
<1>2. ASSUME NEW t \in Thread, pkt[t] # 0, NEW v \in {"accept", "drop"}, Dispose(t, v),
             NEW p \in DOMAIN packets
      PROVE  /\ p \in DOMAIN packets'
             /\ packets'[p] # packets[p] =>
                  Open(p) /\ packets'[p] = [packets[p] EXCEPT !.verdict = packets'[p].verdict]
  <2>1. Open(pkt[t])
    BY <1>2, PacketOfThread DEF OnePlace, NothingFreedInUse, Held
  <2>2. packets[p] \in PacketRecord
    BY ElementOfSeq, LenProperties DEF TypeOK
  <2>3. packets' = [packets EXCEPT ![pkt[t]].verdict = v]
    BY <1>2 DEF Dispose
  <2>4. CASE p = pkt[t]
    <3>1. packets'[p] = [packets[p] EXCEPT !.verdict = v]
      BY <2>3, <2>4
    <3>2. packets'[p].verdict = v
      BY <2>2, <3>1 DEF PacketRecord
    <3>. QED
      BY <2>1, <2>3, <2>4, <3>1, <3>2
  <2>5. CASE p # pkt[t]
    BY <2>3, <2>5
  <2>. QED
    BY <2>4, <2>5
<1>3. CASE PushFull
  <2>1. pkt[Reader] # 0 /\ Dispose(Reader, "drop")
    BY <1>3 DEF TypeOK, PushFull, Goto
  <2>. QED
    BY <1>2, <2>1
<1>4. ASSUME NEW w \in Worker, AddPacket(w)
      PROVE  \A p \in DOMAIN packets :
               /\ p \in DOMAIN packets'
               /\ packets'[p] # packets[p] =>
                    Open(p) /\ packets'[p] = [packets[p] EXCEPT !.verdict = packets'[p].verdict]
  <2>1. pkt[w] # 0 /\ Dispose(w, "accept")
    BY <1>4 DEF TypeOK, AddPacket, Goto
  <2>. QED
    BY <1>2, <2>1
<1>5. (PushOk \/ Join \/ (\E w \in Worker : Pop(w)) \/ UNCHANGED Where) => packets' = packets
  BY DEF PushOk, Join, Pop, Where
<1>. QED
  BY <1>1, <1>3, <1>4, <1>5, WhatMovesPackets

-------------------------------------------------------------------------------
(* The manager implements PacketVerdicts *)

VerdictsOf(s) == [p \in DOMAIN s |-> s[p].verdict]

(* The verdicts of a sequence of packets are a sequence as long.           *)
LEMMA VerdictsOfType ==
  ASSUME NEW s \in Seq(PacketRecord)
  PROVE  VerdictsOf(s) \in Seq(Verdict) /\ Len(VerdictsOf(s)) = Len(s)
<1>1. DOMAIN s = 1 .. Len(s) /\ Len(s) \in Nat
  BY LenProperties
<1>2. \A p \in 1 .. Len(s) : s[p] \in PacketRecord
  BY ElementOfSeq
<1>3. VerdictsOf(s) \in [1 .. Len(s) -> Verdict]
  <2>1. \A e \in PacketRecord : e.verdict \in Verdict
    BY DEF PacketRecord
  <2>. QED
    BY <1>1, <1>2, <2>1 DEF VerdictsOf
<1>4. VerdictsOf(s) \in Seq(Verdict)
  BY <1>1, <1>3, SeqDef
<1>5. DOMAIN VerdictsOf(s) = 1 .. Len(VerdictsOf(s)) /\ Len(VerdictsOf(s)) \in Nat
  BY <1>4, LenProperties
<1>. QED
  BY <1>1, <1>3, <1>4, <1>5

(* One more packet adds its verdict at the end.                            *)
LEMMA VerdictsOfAppend ==
  ASSUME NEW s \in Seq(PacketRecord), NEW e \in PacketRecord
  PROVE  VerdictsOf(Append(s, e)) = Append(VerdictsOf(s), e.verdict)
<1>. DEFINE l == VerdictsOf(Append(s, e))
            r == Append(VerdictsOf(s), e.verdict)
<1>1. e.verdict \in Verdict
  BY DEF PacketRecord
<1>2. VerdictsOf(s) \in Seq(Verdict) /\ Len(VerdictsOf(s)) = Len(s)
  BY VerdictsOfType
<1>3. /\ Append(s, e) \in Seq(PacketRecord) /\ Len(Append(s, e)) = Len(s) + 1
      /\ DOMAIN s = 1 .. Len(s) /\ Len(s) \in Nat
      /\ DOMAIN Append(s, e) = 1 .. Len(s) + 1
  BY AppendProperties, LenProperties
<1>4. l \in Seq(Verdict) /\ Len(l) = Len(s) + 1
  BY <1>3, VerdictsOfType
<1>5. r \in Seq(Verdict) /\ Len(r) = Len(s) + 1
  BY <1>1, <1>2, AppendProperties
<1>6. ASSUME NEW i \in 1 .. Len(s) + 1 PROVE l[i] = r[i]
  <2>1. l[i] = Append(s, e)[i].verdict
    BY <1>3, <1>6 DEF VerdictsOf
  <2>2. CASE i = Len(s) + 1
    BY <1>1, <1>2, <2>1, <2>2, SeqAppend
  <2>3. CASE i # Len(s) + 1
    <3>1. i \in DOMAIN s
      BY <1>3, <2>3
    <3>2. i \in DOMAIN VerdictsOf(s) /\ VerdictsOf(s)[i] = s[i].verdict
      BY <3>1 DEF VerdictsOf
    <3>3. Append(s, e)[i] = s[i]
      BY <3>1, SeqAppend
    <3>4. r[i] = VerdictsOf(s)[i]
      BY <1>1, <1>2, <3>2, SeqAppend
    <3>. QED
      BY <2>1, <3>2, <3>3, <3>4
  <2>. QED
    BY <2>2, <2>3
<1>. HIDE DEF l, r
<1>7. l = r
  BY <1>4, <1>5, <1>6, SeqEqual
<1>. QED
  BY <1>7 DEF l, r

(* Giving one packet its verdict decides that packet and no other.         *)
LEMMA VerdictsOfExcept ==
  ASSUME NEW s, NEW i \in DOMAIN s, s[i] \in PacketRecord, NEW d
  PROVE  VerdictsOf([s EXCEPT ![i].verdict = d]) = [VerdictsOf(s) EXCEPT ![i] = d]
<1>1. [s EXCEPT ![i].verdict = d][i].verdict = d
  BY DEF PacketRecord
<1>2. \A p \in DOMAIN s : p # i => [s EXCEPT ![i].verdict = d][p] = s[p]
  OBVIOUS
<1>. QED
  BY <1>1, <1>2 DEF VerdictsOf

(* Every step of the threads is a Take, a Decide or no step at all of      *)
(* PacketVerdicts.                                                         *)
LEMMA NextDecides ==
  ASSUME TypeOK, OnePlace, [Next]_vars
  PROVE  [Verdicts!Next]_(VerdictsOf(packets))
<1>. USE DEF Thread
<1>0. packets \in Seq(PacketRecord)
  BY DEF TypeOK
<1>1. ASSUME NEW shape \in Traffic, NEW ts \in Clock .. MaxClock, Receive(shape, ts)
      PROVE  Verdicts!Take
  <2>. PICK d \in {"none", "accept"} : d = IF shutdown THEN "accept" ELSE "none"
    OBVIOUS
  <2>. DEFINE e == [key |-> shape.key, kind |-> shape.kind, side |-> shape.side, ts |-> ts,
                    verdict |-> d]
  <2>1. packets' = Append(packets, e)
    BY <1>1 DEF Receive
  <2>2. e \in PacketRecord
    <3>1. TypeOK'
      BY <1>1, ReceiveType
    <3>2. packets' \in Seq(PacketRecord)
      BY <3>1 DEF TypeOK
    <3>3. Len(packets) \in Nat /\ Len(packets') = Len(packets) + 1
      BY <1>0, <2>1, LenProperties, AppendProperties
    <3>4. packets'[Len(packets) + 1] = e
      BY <1>0, <2>1, AppendProperties
    <3>. QED
      BY <3>2, <3>3, <3>4, ElementOfSeq
  <2>3. VerdictsOf(packets') = Append(VerdictsOf(packets), d)
    BY <1>0, <2>1, <2>2, VerdictsOfAppend
  <2>. QED
    BY <2>3 DEF Verdicts!Take, VerdictsOf
<1>2. ASSUME NEW t \in Thread, pkt[t] # 0, NEW d \in {"accept", "drop"}, Dispose(t, d)
      PROVE  \E i \in DOMAIN VerdictsOf(packets) : Verdicts!Decide(i)
  <2>1. pkt[t] \in DOMAIN packets /\ packets[pkt[t]] \in PacketRecord
    BY <1>2, PacketOfThread
  <2>2. Open(pkt[t])
    BY <1>2, <2>1 DEF OnePlace, NothingFreedInUse, Held
  <2>3. VerdictsOf(packets') = [VerdictsOf(packets) EXCEPT ![pkt[t]] = d]
    BY <1>2, <2>1, VerdictsOfExcept DEF Dispose
  <2>. QED
    BY <2>1, <2>2, <2>3 DEF Verdicts!Decide, VerdictsOf, Open
<1>3. CASE PushFull
  <2>1. pkt[Reader] # 0 /\ Dispose(Reader, "drop")
    BY <1>3 DEF TypeOK, PushFull, Goto
  <2>. QED
    BY <1>2, <2>1 DEF Verdicts!Next, VerdictsOf
<1>4. ASSUME NEW w \in Worker, AddPacket(w) PROVE Verdicts!Next
  <2>1. pkt[w] # 0 /\ Dispose(w, "accept")
    BY <1>4 DEF TypeOK, AddPacket, Goto
  <2>. QED
    BY <1>2, <2>1 DEF Verdicts!Next, VerdictsOf
<1>5. (PushOk \/ Join \/ (\E w \in Worker : Pop(w)) \/ UNCHANGED Where) => packets' = packets
  BY DEF PushOk, Join, Pop, Where
<1>6. packets' = packets => UNCHANGED VerdictsOf(packets)
  BY DEF VerdictsOf
<1>. QED
  BY <1>1, <1>3, <1>4, <1>5, <1>6, WhatMovesPackets DEF Verdicts!Next

(* Threads, queues, mutex and table together do what PacketVerdicts allows *)
(* and nothing else: packets are taken over in the order they are read,    *)
(* and each of them is decided at most once.                               *)
THEOREM DecidesPackets == Spec => DecidesOnce
<1>1. Init => Verdicts!Init
  BY DEF Init, Verdicts!Init
<1>2. TypeOK /\ OnePlace /\ [Next]_vars
        => [Verdicts!Next]_[p \in DOMAIN packets |-> packets[p].verdict]
  BY NextDecides DEF VerdictsOf
<1>. QED
  BY <1>1, <1>2, TypeCorrect, AlwaysOnePlace, PTL DEF Spec, DecidesOnce, Verdicts!Spec
===============================================================================
