------------------------------ MODULE PcapProofs ------------------------------
(***************************************************************************)
(* Theorems about training and pcap_classifier: the database on disk, and  *)
(* what the observers make of the flows that a FlowManager without worker  *)
(* threads reports, for any captures, any files and any crashes.           *)
(***************************************************************************)
EXTENDS PcapPrograms, PureProofs

LOCAL INSTANCE SequencesExt
LOCAL INSTANCE FiniteSetsExt

-------------------------------------------------------------------------------
(* Flows *)

FlowFields ==
  {"tuple", "state", "pktsInQueue", "pktCount", "overallPktCount", "lastPacketTimestamp",
   "isFirstPacket", "firstSize", "lastDirection", "direction", "meters", "classified",
   "protocol", "divergence", "bestProtocol", "bestDivergence", "id", "tag"}

IsFlow(f) == f = [x \in FlowFields |-> f[x]]

(* What getFlow makes for a packet: the manager numbers and tags the flow. *)
NewFlow(p, enabled, id, tag) == Over(Flow(p, enabled), [id |-> id, tag |-> tag])

(* It is an idle flow in state NEW with the tuple of its packet.           *)
LEMMA NewFlowIs ==
  ASSUME NEW p, NEW enabled, NEW id, NEW tag
  PROVE  LET f == NewFlow(p, enabled, id, tag)
         IN  /\ IsFlow(f) /\ f.id = id /\ f.tag = tag /\ f.tuple = p.tuple /\ f.state = "NEW"
             /\ f.pktsInQueue = 0 /\ f.pktCount = 0 /\ f.overallPktCount = 0
             /\ f.classified \in BOOLEAN /\ ~f.classified /\ f.direction = "UNKNOWN"
             /\ f.meters = GetAllMeters(enabled) /\ f.bestDivergence = NoMatch
<1>. DEFINE g == Flow(p, enabled)
            e == [id |-> id, tag |-> tag]
            f == NewFlow(p, enabled, id, tag)
<1>1. /\ DOMAIN g = FlowFields \ {"id", "tag"}
      /\ g.tuple = p.tuple /\ g.state = "NEW" /\ g.pktsInQueue = 0 /\ g.pktCount = 0
      /\ g.overallPktCount = 0 /\ g.classified = FALSE /\ g.direction = "UNKNOWN"
      /\ g.meters = GetAllMeters(enabled) /\ g.bestDivergence = NoMatch
  BY DEF Flow, FlowFields
<1>2. DOMAIN e = {"id", "tag"} /\ e.id = id /\ e.tag = tag
  OBVIOUS
<1>3. {"tuple", "state", "pktsInQueue", "pktCount", "overallPktCount", "classified",
       "direction", "meters", "bestDivergence"} \subseteq FlowFields \ {"id", "tag"}
      /\ FlowFields = (FlowFields \ {"id", "tag"}) \cup {"id", "tag"}
  BY DEF FlowFields
<1>. HIDE DEF g, e
<1>4. f = [x \in FlowFields |-> IF x \in FlowFields \ {"id", "tag"} THEN g[x] ELSE e[x]]
  BY <1>1, <1>2, <1>3 DEF NewFlow, Over, g, e
<1>5. IsFlow(f) /\ f.id = id /\ f.tag = tag
  BY <1>2, <1>3, <1>4 DEF IsFlow
<1>6. \A x \in FlowFields \ {"id", "tag"} : f[x] = g[x]
  BY <1>4
<1>. HIDE DEF f
<1>7. f.tuple = g.tuple /\ f.state = g.state /\ f.pktsInQueue = g.pktsInQueue
      /\ f.pktCount = g.pktCount /\ f.overallPktCount = g.overallPktCount
      /\ f.classified = g.classified /\ f.direction = g.direction /\ f.meters = g.meters
      /\ f.bestDivergence = g.bestDivergence
  BY <1>3, <1>6
<1>. QED
  BY <1>1, <1>5, <1>7 DEF f

(* Every packet changes four fields of its flow. *)
LEMMA ArrivedIs ==
  ASSUME NEW f, IsFlow(f), NEW p
  PROVE  LET g == Arrived(f, p)
         IN  /\ IsFlow(g)
             /\ \A x \in FlowFields \ {"overallPktCount", "state", "isFirstPacket", "firstSize"} :
                  g[x] = f[x]
             /\ g.overallPktCount = f.overallPktCount + 1
             /\ g.state = StateAfter(f.state, p.kind, PacketDirection(f.tuple, p.tuple))
BY DEF Arrived, IsFlow, FlowFields

(* The counters of data packets and the direction.                         *)
LEMMA CountedIs ==
  ASSUME NEW f, IsFlow(f), NEW p
  PROVE  LET g == Counted(f, p)
         IN  /\ IsFlow(g)
             /\ \A x \in FlowFields \ {"pktCount", "lastDirection", "direction",
                                       "lastPacketTimestamp"} : g[x] = f[x]
             /\ g.pktCount = f.pktCount + 1
             /\ g.direction = PacketDirection(f.tuple, p.tuple)
BY DEF Counted, IsFlow, FlowFields

(* The meters that are enabled measure, no meter comes or goes.            *)
LEMMA MeasuredIs ==
  ASSUME NEW f, IsFlow(f), NEW p, NEW junk
  PROVE  LET g == Measured(f, p, junk)
         IN  /\ IsFlow(g)
             /\ \A x \in FlowFields \ {"meters"} : g[x] = f[x]
             /\ DOMAIN g.meters = DOMAIN f.meters
BY DEF Measured, IsFlow, FlowFields

(* The comparison assigns the result and nothing else.                     *)
LEMMA ClassifiedIs ==
  ASSUME NEW f, IsFlow(f), NEW d, NEW common, NEW div, f.classified \in BOOLEAN
  PROVE  LET g == Classified(f, d, common, div)
         IN  /\ IsFlow(g)
             /\ \A x \in FlowFields \ {"classified", "divergence", "protocol",
                                       "bestDivergence", "bestProtocol"} : g[x] = f[x]
             /\ g.classified \in BOOLEAN
<1>. DEFINE Rest == FlowFields \ {"classified", "divergence", "protocol",
                                  "bestDivergence", "bestProtocol"}
            Like(g) == IsFlow(g) /\ \A x \in Rest : g[x] = f[x]
            Took(g, x, y) == [g EXCEPT !.classified = TRUE, !.divergence = x, !.protocol = y]
<1>1. \A x, y : LET g == [f EXCEPT !.bestDivergence = x, !.bestProtocol = y]
                IN  Like(g) /\ g.classified \in BOOLEAN
  <2>. TAKE x, y
  <2>. DEFINE g == [f EXCEPT !.bestDivergence = x, !.bestProtocol = y]
  <2>1. IsFlow(g)
    BY DEF IsFlow
  <2>2. \A z \in Rest \cup {"classified"} : g[z] = f[z]
    BY DEF IsFlow, FlowFields
  <2>. QED
    BY <2>1, <2>2
<1>2. ASSUME NEW e, Like(e), NEW x, NEW y
      PROVE  Like(Took(e, x, y)) /\ Took(e, x, y).classified = TRUE
  BY <1>2 DEF IsFlow, FlowFields
<1>3. Like(f)
  OBVIOUS
<1>. HIDE DEF Like
<1>. DEFINE order == Candidates(f, d, common)
            hits == {k \in DOMAIN order : /\ f.pktCount >= d.definingLimit
                                          /\ div[order[k]] > 0
                                          /\ div[order[k]] < common.divergenceThreshold}
            hit == CHOOSE k \in hits : \A j \in hits : k <= j
            passed == IF hits = {} THEN DOMAIN order ELSE 1 .. hit - 1
            nearer == {k \in passed : div[order[k]] > 0 /\ div[order[k]] < f.bestDivergence}
            best == CHOOSE k \in nearer : \A j \in nearer :
                      \/ div[order[k]] < div[order[j]]
                      \/ div[order[k]] = div[order[j]] /\ k <= j
            h == IF nearer = {} THEN f
                 ELSE [f EXCEPT !.bestDivergence = div[order[best]],
                                !.bestProtocol = d.models[order[best]].name]
<1>4. Classified(f, d, common, div)
        = IF hits # {}
          THEN [h EXCEPT !.classified = TRUE, !.divergence = div[order[hit]],
                         !.protocol = d.models[order[hit]].name]
          ELSE IF /\ common.useBestMatch /\ h.pktCount = d.definingLimit
                  /\ h.bestDivergence < common.divergenceThreshold
               THEN [h EXCEPT !.classified = TRUE, !.divergence = h.bestDivergence,
                              !.protocol = h.bestProtocol]
               ELSE h
  BY DEF Classified, Decided
<1>. HIDE DEF order, hits, hit, passed, nearer, best
<1>5. Like(h) /\ h.classified \in BOOLEAN
  BY <1>1, <1>3
<1>. HIDE DEF h
<1>6. /\ Like(Classified(f, d, common, div))
      /\ Classified(f, d, common, div).classified \in BOOLEAN
  <2>0. \A x, y : Like(Took(h, x, y)) /\ Took(h, x, y).classified = TRUE
    BY <1>2, <1>5
  <2>1. CASE hits # {}
    <3>1. Classified(f, d, common, div) = Took(h, div[order[hit]], d.models[order[hit]].name)
      BY <1>4, <2>1
    <3>. HIDE DEF Took
    <3>. QED
      BY <2>0, <3>1
  <2>2. CASE ~(hits # {}) /\ /\ common.useBestMatch /\ h.pktCount = d.definingLimit
                          /\ h.bestDivergence < common.divergenceThreshold
    <3>1. Classified(f, d, common, div) = Took(h, h.bestDivergence, h.bestProtocol)
      BY <1>4, <2>2
    <3>. HIDE DEF Took
    <3>. QED
      BY <2>0, <3>1
  <2>3. CASE ~(hits # {}) /\ ~(/\ common.useBestMatch /\ h.pktCount = d.definingLimit
                              /\ h.bestDivergence < common.divergenceThreshold)
    BY <1>4, <1>5, <2>3
  <2>. QED
    BY <2>1, <2>2, <2>3
<1>. QED
  BY <1>6 DEF Like

(* addPacket changes neither who a flow is nor how many packets wait for   *)
(* it, and takes back no classification.                                   *)
LEMMA AddPacketIs ==
  ASSUME NEW f, IsFlow(f), f.classified \in BOOLEAN,
         NEW p, NEW d, NEW common, NEW div, NEW junk
  PROVE  LET g == AddPacket(f, p, d, common, div, junk)
             dir == PacketDirection(f.tuple, p.tuple)
         IN  /\ IsFlow(g) /\ g.classified \in BOOLEAN /\ (f.classified => g.classified)
             /\ g.id = f.id /\ g.tag = f.tag /\ g.tuple = f.tuple
             /\ g.pktsInQueue = f.pktsInQueue /\ DOMAIN g.meters = DOMAIN f.meters
             /\ g.state = StateAfter(f.state, p.kind, dir)
             /\ g.overallPktCount = f.overallPktCount + 1
             /\ \/ g.pktCount = f.pktCount /\ g.direction = f.direction
                \/ g.pktCount = f.pktCount + 1 /\ g.direction = dir
<1>. DEFINE g == AddPacket(f, p, d, common, div, junk)
            dir == PacketDirection(f.tuple, p.tuple)
            a == Arrived(f, p)
            c == Counted(a, p)
            m == Measured(c, p, junk)
            k == Classified(m, d, common, div)
<1>1. /\ IsFlow(a) /\ a.classified = f.classified /\ a.id = f.id /\ a.tag = f.tag
      /\ a.tuple = f.tuple /\ a.pktsInQueue = f.pktsInQueue /\ a.meters = f.meters
      /\ a.state = StateAfter(f.state, p.kind, dir)
      /\ a.overallPktCount = f.overallPktCount + 1
      /\ a.pktCount = f.pktCount /\ a.direction = f.direction
  <2>1. /\ IsFlow(a)
        /\ \A x \in FlowFields \ {"overallPktCount", "state", "isFirstPacket", "firstSize"} :
             a[x] = f[x]
        /\ a.overallPktCount = f.overallPktCount + 1 /\ a.state = StateAfter(f.state, p.kind, dir)
    BY ArrivedIs
  <2>. HIDE DEF a
  <2>. QED
    BY <2>1 DEF FlowFields
<1>. HIDE DEF a
<1>2. /\ IsFlow(c) /\ c.classified = a.classified /\ c.id = a.id /\ c.tag = a.tag
      /\ c.tuple = a.tuple /\ c.pktsInQueue = a.pktsInQueue /\ c.meters = a.meters
      /\ c.state = a.state /\ c.overallPktCount = a.overallPktCount
      /\ c.pktCount = a.pktCount + 1 /\ c.direction = PacketDirection(a.tuple, p.tuple)
  <2>1. /\ IsFlow(c)
        /\ \A x \in FlowFields \ {"pktCount", "lastDirection", "direction",
                                  "lastPacketTimestamp"} : c[x] = a[x]
        /\ c.pktCount = a.pktCount + 1 /\ c.direction = PacketDirection(a.tuple, p.tuple)
    BY <1>1, CountedIs
  <2>. HIDE DEF c
  <2>. QED
    BY <2>1 DEF FlowFields
<1>. HIDE DEF c
<1>3. /\ IsFlow(m) /\ m.classified = c.classified /\ m.id = c.id /\ m.tag = c.tag
      /\ m.tuple = c.tuple /\ m.pktsInQueue = c.pktsInQueue /\ DOMAIN m.meters = DOMAIN c.meters
      /\ m.state = c.state /\ m.overallPktCount = c.overallPktCount
      /\ m.pktCount = c.pktCount /\ m.direction = c.direction
  BY <1>2, MeasuredIs DEF FlowFields
<1>. HIDE DEF m
<1>4. /\ IsFlow(k) /\ k.classified \in BOOLEAN /\ k.id = m.id /\ k.tag = m.tag
      /\ k.tuple = m.tuple /\ k.pktsInQueue = m.pktsInQueue /\ k.meters = m.meters
      /\ k.state = m.state /\ k.overallPktCount = m.overallPktCount
      /\ k.pktCount = m.pktCount /\ k.direction = m.direction
  <2>1. /\ IsFlow(k) /\ k.classified \in BOOLEAN
        /\ \A x \in FlowFields \ {"classified", "divergence", "protocol",
                                  "bestDivergence", "bestProtocol"} : k[x] = m[x]
    BY <1>1, <1>2, <1>3, ClassifiedIs
  <2>. HIDE DEF k
  <2>. QED
    BY <2>1 DEF FlowFields
<1>. HIDE DEF k
<1>5. g = IF ~CountsAsData(f.state, p.kind) THEN a
          ELSE IF f.classified \/ c.pktCount > d.cutoffLimit THEN c
          ELSE IF common.learningMode THEN m ELSE k
  BY DEF AddPacket, a, c, m, k
<1>. HIDE DEF g
<1>6. \/ g = a \/ g = c \/ g = m \/ (~f.classified /\ g = k)
  BY <1>5
<1>. QED
  BY <1>1, <1>2, <1>3, <1>4, <1>6 DEF g

-------------------------------------------------------------------------------
(* Managers *)

IsManager(m) ==
  /\ m = [table |-> m.table, made |-> m.made, gone |-> m.gone, events |-> m.events]
  /\ m.table = [h \in DOMAIN m.table |-> m.table[h]]
  /\ AnySeq(m.events) /\ m.made \in Nat

With(t, h, f) == [k \in DOMAIN t \cup {h} |-> IF k = h THEN f ELSE t[k]]
Without(t, h) == [k \in DOMAIN t \ {h} |-> t[k]]
WithGone(s, f) == IF WellKnown(f) THEN s \cup {f.id} ELSE s

(* What the operations on the table and the calls of the observer change.  *)
LEMMA PutIs ==
  ASSUME NEW m, IsManager(m), NEW h, NEW f
  PROVE  LET r == Put(m, h, f)
         IN  /\ IsManager(r) /\ r.made = m.made /\ r.gone = m.gone /\ r.events = m.events
             /\ r.table = With(m.table, h, f)
BY DEF Put, Over, With, IsManager

(* The other change of the table: a flow leaves it.                        *)
LEMMA EraseIs ==
  ASSUME NEW m, IsManager(m), NEW h
  PROVE  LET r == Erase(m, h)
         IN  /\ IsManager(r) /\ r.made = m.made /\ r.events = m.events
             /\ r.table = Without(m.table, h) /\ r.gone = WithGone(m.gone, m.table[h])
<1>1. Erase(m, h) = [table |-> Without(m.table, h), made |-> m.made,
                    gone |-> WithGone(m.gone, m.table[h]), events |-> m.events]
  <2>. PICK gone : gone = WithGone(m.gone, m.table[h])
    OBVIOUS
  <2>1. Erase(m, h) = [m EXCEPT !.table = Without(m.table, h), !.gone = gone]
    BY DEF Erase, Without, WithGone
  <2>2. m = [table |-> m.table, made |-> m.made, gone |-> m.gone, events |-> m.events]
    BY DEF IsManager
  <2>. QED
    BY <2>1, <2>2
<1>2. Without(m.table, h) = [k \in DOMAIN Without(m.table, h) |-> Without(m.table, h)[k]]
  BY DEF Without
<1>. QED
  BY <1>1, <1>2 DEF IsManager

FinishedCall(f) == [kind |-> "finished", flow |-> f]
ClassifiedCall(f) == [kind |-> "classified", flow |-> f]

(* The calls made when flow f is finished, after the calls e. *)
CallsAt(e, f) ==
  IF f.state = "FINISHED_NOTIFIED" \/ TooShort(f) THEN e ELSE Append(e, FinishedCall(f))

(* notifyFlowFinished makes at most one call and leaves the table.         *)
LEMMA NotifyIs ==
  ASSUME NEW m, IsManager(m), NEW f
  PROVE  /\ NotifyFinished(m, f) = [table |-> m.table, made |-> m.made, gone |-> m.gone,
                                    events |-> CallsAt(m.events, f)]
         /\ IsManager(NotifyFinished(m, f))
<1>1. AnySeq(CallsAt(m.events, f))
  BY AppendAny DEF CallsAt, IsManager
<1>2. NotifyFinished(m, f)
        = [table |-> m.table, made |-> m.made, gone |-> m.gone,
           events |-> CallsAt(m.events, f)]
  BY DEF NotifyFinished, CallsAt, FinishedCall, IsManager
<1>. QED
  BY <1>1, <1>2 DEF IsManager

(* The last entry at a key is the one that stands.                         *)
LEMMA WithTwice ==
  ASSUME NEW t, NEW h, NEW f, NEW g
  PROVE  /\ With(With(t, h, f), h, g) = With(t, h, g)
         /\ With(Without(t, h), h, g) = With(t, h, g)
         /\ Without(With(t, h, f), h) = Without(t, h)
BY DEF With, Without

(* The entry at a key is what was put there.                               *)
LEMMA WithAt ==
  ASSUME NEW t, NEW h, NEW f
  PROVE  h \in DOMAIN With(t, h, f) /\ With(t, h, f)[h] = f
BY DEF With

(* getFlow makes a flow where there is none, or none that it keeps.        *)
Fresh(m, p, common) == Hash(p) \notin DOMAIN m.table \/ Stale(FlowOf(m, p), p, common)
FlowServed(m, p, d, common, tag) ==
  IF Fresh(m, p, common) THEN NewFlow(p, d.enabledAttributes, m.made + 1, tag) ELSE FlowOf(m, p)
CallsBefore(m, p, common) ==
  IF Fresh(m, p, common) /\ Hash(p) \in DOMAIN m.table THEN CallsAt(m.events, FlowOf(m, p))
  ELSE m.events
GoneBefore(m, p, common) ==
  IF Fresh(m, p, common) /\ Hash(p) \in DOMAIN m.table THEN WithGone(m.gone, FlowOf(m, p))
  ELSE m.gone

(* getFlow puts the flow that serves the packet into the table, after the  *)
(* call about the one it replaces.                                         *)
LEMMA GetFlowIs ==
  ASSUME NEW m, IsManager(m), NEW p, NEW d, NEW common, NEW tag
  PROVE  LET r == GetFlow(m, p, d, common, tag)
         IN  /\ IsManager(r)
             /\ r.made = IF Fresh(m, p, common) THEN m.made + 1 ELSE m.made
             /\ r.gone = GoneBefore(m, p, common) /\ r.events = CallsBefore(m, p, common)
             /\ r.table = With(m.table, Hash(p), FlowServed(m, p, d, common, tag))
<1>. DEFINE h == Hash(p)
            r == GetFlow(m, p, d, common, tag)
            new == NewFlow(p, d.enabledAttributes, m.made + 1, tag)
<1>1. ASSUME NEW n, IsManager(n), n.made = m.made
      PROVE  LET i == Insert(n, p, d, tag)
             IN  /\ IsManager(i) /\ i.made = m.made + 1 /\ i.gone = n.gone /\ i.events = n.events
                 /\ i.table = With(n.table, h, new)
  <2>. DEFINE put == Put(n, h, new)
  <2>1. /\ IsManager(put) /\ put.made = n.made /\ put.gone = n.gone /\ put.events = n.events
        /\ put.table = With(n.table, h, new)
    BY <1>1, PutIs
  <2>2. Insert(n, p, d, tag) = [put EXCEPT !.made = @ + 1]
    BY <1>1 DEF Insert, NewFlow
  <2>. HIDE DEF put, new
  <2>. QED
    BY <1>1, <2>1, <2>2 DEF IsManager
<1>. HIDE DEF new
<1>2. CASE h \notin DOMAIN m.table
  <2>1. r = Insert(m, p, d, tag)
    BY <1>2 DEF GetFlow
  <2>. QED
    BY <1>1, <1>2, <2>1 DEF Fresh, FlowServed, CallsBefore, GoneBefore, new
<1>3. CASE h \in DOMAIN m.table /\ Stale(FlowOf(m, p), p, common)
  <2>. DEFINE n == NotifyFinished(m, FlowOf(m, p))
              e == Erase(n, h)
  <2>1. IsManager(n) /\ n.made = m.made /\ n.gone = m.gone /\ n.table = m.table
        /\ n.events = CallsAt(m.events, FlowOf(m, p))
    BY NotifyIs
  <2>2. r = Insert(e, p, d, tag)
    BY <1>3 DEF GetFlow
  <2>. HIDE DEF n
  <2>3. /\ IsManager(e) /\ e.made = n.made /\ e.events = n.events
        /\ e.table = Without(n.table, h) /\ e.gone = WithGone(n.gone, n.table[h])
    <3>. HIDE DEF h
    <3>. QED
      BY <2>1, EraseIs
  <2>. HIDE DEF e
  <2>4. /\ IsManager(r) /\ r.made = m.made + 1 /\ r.gone = e.gone /\ r.events = e.events
        /\ r.table = With(Without(m.table, h), h, new)
    BY <1>1, <2>1, <2>2, <2>3
  <2>5. r.table = With(m.table, h, new)
    BY <2>4, WithTwice
  <2>. QED
    BY <1>3, <2>1, <2>3, <2>4, <2>5 DEF Fresh, FlowServed, CallsBefore, GoneBefore, FlowOf, new
<1>4. CASE h \in DOMAIN m.table /\ ~Stale(FlowOf(m, p), p, common)
  <2>1. r = m
    BY <1>4 DEF GetFlow
  <2>2. m.table = With(m.table, h, m.table[h])
    BY <1>4 DEF IsManager, With
  <2>. QED
    BY <1>4, <2>1, <2>2 DEF Fresh, FlowServed, CallsBefore, GoneBefore, FlowOf
<1>. QED
  BY <1>2, <1>3, <1>4

(* A flow with packets in the queue is not stale. *)
LEMMA WaitingIsNotStale ==
  ASSUME NEW f, f.pktsInQueue = 1, NEW p, NEW common, common.tcpFlowTimeout \in Nat
  PROVE  ~Stale(f, p, common)
BY DEF Stale, HavePktsInQueue

(* What incPktsInQueue counts, decPktsInQueue takes back.                  *)
LEMMA CountedInAndOut ==
  ASSUME NEW f, IsFlow(f), f.pktsInQueue = 0
  PROVE  LET g == [f EXCEPT !.pktsInQueue = @ + 1]
         IN  g.pktsInQueue = 1 /\ [g EXCEPT !.pktsInQueue = @ - 1] = f
<1>. DEFINE g == [f EXCEPT !.pktsInQueue = @ + 1]
            e == [g EXCEPT !.pktsInQueue = @ - 1]
<1>1. f = [x \in FlowFields |-> f[x]] /\ "pktsInQueue" \in FlowFields
  BY DEF IsFlow, FlowFields
<1>2. DOMAIN g = FlowFields /\ g.pktsInQueue = 1
      /\ \A x \in FlowFields : x # "pktsInQueue" => g[x] = f[x]
  BY <1>1
<1>. HIDE DEF g
<1>3. e = [x \in FlowFields |-> IF x = "pktsInQueue" THEN 0 ELSE g[x]]
  BY <1>2
<1>4. \A x \in FlowFields : (IF x = "pktsInQueue" THEN 0 ELSE g[x]) = f[x]
  BY <1>2
<1>5. e = [x \in FlowFields |-> f[x]]
  BY <1>3, <1>4
<1>. QED
  BY <1>1, <1>2, <1>5 DEF g

(* What addPacket of the manager does altogether. *)
CallsAfter(m, p, d, common, tag, g) ==
  LET e == CallsBefore(m, p, common)
      told == IF g.classified /\ ~FlowServed(m, p, d, common, tag).classified
              THEN Append(e, ClassifiedCall(g)) ELSE e
  IN  IF g.state = "FINISHED" THEN CallsAt(told, g) ELSE told
GoneAfter(m, p, common, g) ==
  IF g.state \in Closed THEN WithGone(GoneBefore(m, p, common), g) ELSE GoneBefore(m, p, common)

IdleFlow(f) == IsFlow(f) /\ f.pktsInQueue = 0 /\ f.classified \in BOOLEAN

(* addPacket without workers, from getFlow to deleteFlow, in one piece:    *)
(* which flow is served, what becomes of it, and the calls that are made.  *)
LEMMA AddIs ==
  ASSUME NEW m, IsManager(m), m.events = << >>, \A k \in DOMAIN m.table : IdleFlow(m.table[k]),
         NEW p, NEW d, NEW common, common.tcpFlowTimeout \in Nat, NEW div, NEW junk, NEW tag
  PROVE  LET r == AddToManager(m, p, d, common, div, junk, tag)
             f == FlowServed(m, p, d, common, tag)
             g == AddPacket(f, p, d, common, div, junk)
         IN  /\ IsManager(r) /\ IdleFlow(f)
             /\ r.made = IF Fresh(m, p, common) THEN m.made + 1 ELSE m.made
             /\ r.events = CallsAfter(m, p, d, common, tag, g)
             /\ r.gone = GoneAfter(m, p, common, g)
             /\ r.table = IF g.state \in Closed THEN Without(m.table, Hash(p))
                          ELSE With(m.table, Hash(p), g)
<1>. DEFINE h == Hash(p)
            r == AddToManager(m, p, d, common, div, junk, tag)
            f == FlowServed(m, p, d, common, tag)
            g == AddPacket(f, p, d, common, div, junk)
            found == GetFlow(m, p, d, common, tag)
            f1 == [f EXCEPT !.pktsInQueue = @ + 1]
            m1 == Put(found, h, f1)
            added == Put(m1, h, g)
            told == IF g.classified /\ ~f1.classified
                    THEN [added EXCEPT !.events = Append(@, ClassifiedCall(g))] ELSE added
<1>1. m = [m EXCEPT !.events = << >>]
  BY DEF IsManager
<1>2. /\ IsManager(found) /\ found.events = CallsBefore(m, p, common)
      /\ found.gone = GoneBefore(m, p, common)
      /\ found.made = IF Fresh(m, p, common) THEN m.made + 1 ELSE m.made
      /\ found.table = With(m.table, h, f)
  BY GetFlowIs
<1>3. IdleFlow(f)
  <2>1. CASE Fresh(m, p, common)
    <3>1. f = NewFlow(p, d.enabledAttributes, m.made + 1, tag)
      BY <2>1 DEF FlowServed
    <3>. PICK en, id : en = d.enabledAttributes /\ id = m.made + 1
      OBVIOUS
    <3>2. LET e == NewFlow(p, en, id, tag)
          IN  IsFlow(e) /\ e.pktsInQueue = 0 /\ e.classified \in BOOLEAN
      BY NewFlowIs
    <3>. HIDE DEF f
    <3>. QED
      BY <3>1, <3>2 DEF IdleFlow
  <2>2. CASE ~Fresh(m, p, common)
    BY <2>2 DEF FlowServed, Fresh, FlowOf
  <2>. QED
    BY <2>1, <2>2
<1>. HIDE DEF found, f
<1>4. f1.pktsInQueue = 1 /\ [f1 EXCEPT !.pktsInQueue = @ - 1] = f /\ f1.classified = f.classified
  BY <1>3, CountedInAndOut DEF IdleFlow, IsFlow, FlowFields
<1>. HIDE DEF f1
<1>5. /\ IsManager(m1) /\ m1.made = found.made /\ m1.gone = found.gone /\ m1.events = found.events
      /\ m1.table = With(m.table, h, f1)
  <2>0. IsManager(found)
    BY <1>2
  <2>1. /\ IsManager(m1) /\ m1.made = found.made /\ m1.gone = found.gone /\ m1.events = found.events
        /\ m1.table = With(found.table, h, f1)
    BY <2>0, PutIs
  <2>. QED
    BY <1>2, <2>1, WithTwice
<1>. HIDE DEF m1
<1>6. FlowOf(m1, p) = f1 /\ h \in DOMAIN m1.table
  BY <1>5, WithAt DEF FlowOf
<1>7. GetFlow(m1, p, d, common, tag) = m1
  BY <1>4, <1>6, WaitingIsNotStale DEF GetFlow
<1>8. /\ IsManager(added) /\ added.made = found.made /\ added.gone = found.gone
      /\ added.events = found.events /\ added.table = With(m.table, h, g)
  <2>0. IsManager(m1)
    BY <1>5
  <2>1. /\ IsManager(added) /\ added.made = m1.made /\ added.gone = m1.gone
        /\ added.events = m1.events /\ added.table = With(m1.table, h, g)
    <3>. HIDE DEF g, h
    <3>. QED
      BY <2>0, PutIs
  <2>. HIDE DEF added, g
  <2>. QED
    BY <1>5, <2>1, WithTwice
<1>9. r = IF g.state = "FINISHED" THEN Erase(NotifyFinished(told, g), h)
          ELSE IF g.state = "FINISHED_NOTIFIED" THEN Erase(told, h) ELSE told
  <2>1. FlowOf(found, p) = f
    <3>1. With(m.table, h, f)[h] = f
      BY DEF With
    <3>2. FlowOf(found, p) = With(m.table, h, f)[h]
      BY <1>2 DEF FlowOf
    <3>. QED
      BY <3>1, <3>2
  <2>2. r = ProcessPacket(m1, p, d, common, div, junk, tag)
    BY <1>1, <2>1 DEF AddToManager, m1, f1, found
  <2>3. r = LET after == AddPacket([f1 EXCEPT !.pktsInQueue = @ - 1], p, d, common, div, junk)
                added_1 == Put(m1, h, after)
                told_1 == IF after.classified /\ ~f1.classified
                        THEN [added_1 EXCEPT !.events = Append(@, [kind |-> "classified", flow |-> after])]
                        ELSE added_1
            IN  IF after.state = "FINISHED" THEN Erase(NotifyFinished(told_1, after), h)
                ELSE IF after.state = "FINISHED_NOTIFIED" THEN Erase(told_1, h)
                ELSE told_1
    BY <1>6, <1>7, <2>2 DEF ProcessPacket
  <2>. QED
    BY <1>4, <2>3 DEF ClassifiedCall
<1>. HIDE DEF added, g, r
<1>10. /\ IsManager(told) /\ told.made = added.made /\ told.gone = added.gone
       /\ told.table = added.table
       /\ told.events = IF g.classified /\ ~f.classified
                        THEN Append(found.events, ClassifiedCall(g)) ELSE found.events
  <2>. PICK call : call = ClassifiedCall(g)
    OBVIOUS
  <2>1. AnySeq(Append(added.events, call))
    BY <1>8, AppendAny DEF IsManager
  <2>. DEFINE a == [added EXCEPT !.events = Append(@, call)]
  <2>2. IsManager(a) /\ a.made = added.made /\ a.gone = added.gone
        /\ a.table = added.table /\ a.events = Append(added.events, call)
    <3>1. added = [table |-> added.table, made |-> added.made, gone |-> added.gone,
                   events |-> added.events]
          /\ added.table = [k \in DOMAIN added.table |-> added.table[k]] /\ added.made \in Nat
      BY <1>8 DEF IsManager
    <3>. PICK events : events = Append(added.events, call)
      OBVIOUS
    <3>2. a = [table |-> added.table, made |-> added.made, gone |-> added.gone,
               events |-> Append(added.events, call)]
      <4>1. a = [added EXCEPT !.events = events]
        OBVIOUS
      <4>. HIDE DEF a
      <4>. QED
        BY <3>1, <4>1
    <3>. HIDE DEF a
    <3>. QED
      BY <2>1, <3>1, <3>2 DEF IsManager
  <2>3. CASE g.classified /\ ~f1.classified
    <3>1. told = a
      BY <2>3
    <3>. HIDE DEF told
    <3>. QED
      BY <1>4, <1>8, <2>2, <2>3, <3>1
  <2>4. CASE ~(g.classified /\ ~f1.classified)
    <3>1. told = added
      BY <2>4
    <3>. HIDE DEF told
    <3>. QED
      BY <1>4, <1>8, <2>4, <3>1
  <2>. QED
    BY <2>3, <2>4
<1>. HIDE DEF told
<1>11. CASE g.state = "FINISHED"
  <2>. DEFINE n == NotifyFinished(told, g)
  <2>1. /\ IsManager(n) /\ n.table = told.table /\ n.made = told.made /\ n.gone = told.gone
        /\ n.events = CallsAt(told.events, g)
    BY <1>10, NotifyIs
  <2>. HIDE DEF n
  <2>2. /\ IsManager(r) /\ r.made = n.made /\ r.events = n.events
        /\ r.table = Without(n.table, h) /\ r.gone = WithGone(n.gone, n.table[h])
    BY <1>9, <1>11, <2>1, EraseIs DEF n
  <2>3. n.table[h] = g
    BY <1>8, <1>10, <2>1, WithAt
  <2>. QED
    BY <1>2, <1>3, <1>8, <1>10, <1>11, <2>1, <2>2, <2>3, WithTwice
    DEF CallsAfter, GoneAfter, Closed, r, f, g
<1>12. CASE g.state = "FINISHED_NOTIFIED"
  <2>1. r = Erase(told, h) /\ IsManager(told)
    BY <1>9, <1>10, <1>12
  <2>2. /\ IsManager(r) /\ r.made = told.made /\ r.events = told.events
        /\ r.table = Without(told.table, h) /\ r.gone = WithGone(told.gone, told.table[h])
    <3>. HIDE DEF h
    <3>. QED
      BY <2>1, EraseIs
  <2>3. told.table[h] = g
    BY <1>8, <1>10, WithAt
  <2>. QED
    BY <1>2, <1>3, <1>8, <1>10, <1>12, <2>2, <2>3, WithTwice
    DEF CallsAfter, GoneAfter, Closed, r, f, g
<1>13. CASE g.state \notin Closed
  BY <1>2, <1>3, <1>8, <1>9, <1>10, <1>13 DEF CallsAfter, GoneAfter, Closed, r, f, g
<1>. QED
  BY <1>11, <1>12, <1>13 DEF Closed

-------------------------------------------------------------------------------
(* What the observers make of the calls *)

(* The observers go from s to t when they hear the calls e.                *)
Heard(s, e, t) ==
  \E g : /\ g[0] = s /\ \A k \in 1 .. Len(e) : g[k] = Observe(g[k - 1], e[k])
         /\ t = g[Len(e)]

(* No call, no change.                                                     *)
LEMMA HeardNothing ==
  ASSUME NEW s, NEW t, Heard(s, << >>, t)
  PROVE  t = s
BY EmptyIsAny DEF Heard

(* The last call is heard after the others.                                *)
LEMMA HeardOneMore ==
  ASSUME NEW s, NEW t, NEW e, AnySeq(e), NEW x, Heard(s, Append(e, x), t)
  PROVE  \E u : Heard(s, e, u) /\ t = Observe(u, x)
<1>1. /\ Len(e) \in Nat /\ DOMAIN e = 1 .. Len(e) /\ Len(Append(e, x)) = Len(e) + 1
      /\ \A i \in DOMAIN e : Append(e, x)[i] = e[i]
      /\ Append(e, x)[Len(e) + 1] = x
  BY AppendAny
<1>2. PICK g : /\ g[0] = s
               /\ \A k \in 1 .. Len(e) + 1 : g[k] = Observe(g[k - 1], Append(e, x)[k])
               /\ t = g[Len(e) + 1]
  BY <1>1 DEF Heard
<1>3. \A k \in 1 .. Len(e) : g[k] = Observe(g[k - 1], e[k])
  BY <1>1, <1>2
<1>4. g[Len(e) + 1] = Observe(g[Len(e)], x)
  BY <1>1, <1>2
<1>. QED
  BY <1>2, <1>3, <1>4 DEF Heard

(* Every list of calls is heard, so that the recursive function exists.     *)
Chain(g, s, e, n) == g[0] = s /\ \A k \in 1 .. n : g[k] = Observe(g[k - 1], e[k])

(* By induction on the number of calls.                                    *)
LEMMA ChainExists ==
  ASSUME NEW s, NEW e, NEW n \in Nat
  PROVE  \E g : Chain(g, s, e, n)
<1>. DEFINE Ok == {k \in 0 .. n : \E g : Chain(g, s, e, k)}
<1>1. 0 \in Ok
  <2>1. Chain([k \in {0} |-> s], s, e, 0)
    BY DEF Chain
  <2>. QED
    BY <2>1
<1>2. ASSUME NEW k \in 1 .. n, k - 1 \in Ok
      PROVE  k \in Ok
  <2>1. PICK g : Chain(g, s, e, k - 1)
    BY <1>2
  <2>. DEFINE h == [i \in 0 .. k |-> IF i = k THEN Observe(g[k - 1], e[k]) ELSE g[i]]
  <2>2. h[k] = Observe(g[k - 1], e[k]) /\ \A i \in 0 .. k - 1 : h[i] = g[i]
    OBVIOUS
  <2>3. 0 \in 0 .. k - 1 /\ k - 1 \in 0 .. k - 1
        /\ \A i \in 1 .. k : i = k \/ (i \in 1 .. k - 1 /\ i \in 0 .. k - 1 /\ i - 1 \in 0 .. k - 1)
    OBVIOUS
  <2>. HIDE DEF h
  <2>4. Chain(h, s, e, k)
    BY <2>1, <2>2, <2>3 DEF Chain
  <2>. QED
    BY <2>4
<1>. HIDE DEF Ok
<1>3. \A k \in 0 .. n : k \in Ok
  BY <1>1, <1>2, UpTo
<1>4. n \in Ok
  BY <1>3
<1>. QED
  BY <1>4 DEF Ok

Memory == [db |-> db, updated |-> updated, history |-> history]

(* So Observed hands the calls to the observers one by one and empties     *)
(* the list.                                                               *)
LEMMA ObservedIs ==
  ASSUME NEW m, IsManager(m), Observed(m)
  PROVE  /\ \E t : /\ Heard(Memory, m.events, t)
                  /\ db' = t.db /\ updated' = t.updated /\ history' = t.history
         /\ IsManager(manager') /\ manager'.events = << >>
         /\ manager'.table = m.table /\ manager'.made = m.made /\ manager'.gone = m.gone
<1>. DEFINE N == Len(m.events)
            Step(h, k) == IF k = 0 THEN Memory ELSE Observe(h[k - 1], m.events[k])
            after == CHOOSE h : h = [k \in 0 .. N |-> Step(h, k)]
<1>1. /\ \E last \in {after[N]} :
           /\ db' = last.db /\ updated' = last.updated /\ history' = last.history
           /\ manager' = [m EXCEPT !.events = << >>]
  BY DEF Observed, Memory
<1>2. N \in Nat
  BY SeqIsAny DEF IsManager, AnySeq
<1>3. PICK g : Chain(g, Memory, m.events, N)
  BY <1>2, ChainExists
<1>. HIDE DEF N
<1>4. \E h : h = [k \in 0 .. N |-> Step(h, k)]
  <2>. DEFINE h == [k \in 0 .. N |-> g[k]]
  <2>1. \A k \in 0 .. N : h[k] = g[k]
    OBVIOUS
  <2>2. ASSUME NEW k \in 0 .. N PROVE h[k] = Step(h, k)
    <3>1. CASE k = 0
      BY <1>3, <2>1, <3>1 DEF Chain
    <3>2. CASE k # 0
      <4>1. k \in 1 .. N /\ k - 1 \in 0 .. N
        BY <3>2, <1>2
      <4>. QED
        BY <1>3, <2>1, <3>2, <4>1 DEF Chain
    <3>. QED
      BY <3>1, <3>2
  <2>3. h = [k \in 0 .. N |-> Step(h, k)]
    <3>1. h = [k \in 0 .. N |-> h[k]]
      OBVIOUS
    <3>. HIDE DEF h, Step
    <3>. QED
      BY <2>2, <3>1
  <2>. QED
    BY <2>3
<1>5. after = [k \in 0 .. N |-> Step(after, k)]
  <2>. HIDE DEF Step
  <2>. QED
    BY <1>4
<1>. HIDE DEF after
<1>6. after[0] = Memory /\ \A k \in 1 .. N : after[k] = Observe(after[k - 1], m.events[k])
  <2>1. 0 \in 0 .. N /\ \A k \in 1 .. N : k \in 0 .. N /\ k # 0
    BY <1>2
  <2>. QED
    BY <1>5, <2>1
<1>7. Heard(Memory, m.events, after[N])
  BY <1>6 DEF Heard, N
<1>8. manager' = [m EXCEPT !.events = << >>]
  BY <1>1
<1>9. /\ IsManager(manager') /\ manager'.events = << >>
      /\ manager'.table = m.table /\ manager'.made = m.made /\ manager'.gone = m.gone
  BY <1>8, EmptyIsAny DEF IsManager
<1>. QED
  BY <1>1, <1>7, <1>9

(* One call, if it is made.                                                *)
Told(s, made, call) == IF made THEN Observe(s, call) ELSE s
Reported(f) == f.state # "FINISHED_NOTIFIED" /\ ~TooShort(f)

(* A finished call is the last to be heard, if it is made.                 *)
LEMMA HeardAt ==
  ASSUME NEW s, NEW t, NEW e, AnySeq(e), NEW f, Heard(s, CallsAt(e, f), t)
  PROVE  \E u : Heard(s, e, u) /\ t = Told(u, Reported(f), FinishedCall(f))
<1>1. CASE Reported(f)
  <2>1. CallsAt(e, f) = Append(e, FinishedCall(f))
    BY <1>1 DEF CallsAt, Reported
  <2>. PICK call : call = FinishedCall(f)
    OBVIOUS
  <2>2. Heard(s, Append(e, call), t)
    BY <2>1
  <2>3. \E u : Heard(s, e, u) /\ t = Observe(u, call)
    BY <2>2, HeardOneMore
  <2>. QED
    BY <1>1, <2>3 DEF Told
<1>2. CASE ~Reported(f)
  BY <1>2 DEF CallsAt, Reported, Told
<1>. QED
  BY <1>1, <1>2

-------------------------------------------------------------------------------
(* The shape of the variables *)

IsHistory(h) ==
  h = [asRead |-> h.asRead, trained |-> h.trained, results |-> h.results, saved |-> h.saved]
IsMemory(s) ==
  /\ s = [db |-> s.db, updated |-> s.updated, history |-> s.history]
  /\ IsDb(s.db) /\ IsHistory(s.history)

IsConfig(c) ==
  /\ c = [x \in DOMAIN c |-> c[x]] /\ {"common", "protocolDatabase"} \subseteq DOMAIN c
  /\ c.common.tcpFlowTimeout \in Nat

Shape ==
  /\ disk = [n \in DiskFile |-> disk[n]]
  /\ IsConfig(config) /\ IsDb(db) /\ IsHistory(history)
  /\ IsManager(manager) /\ manager.events = << >>
  /\ \A h \in DOMAIN manager.table : IdleFlow(manager.table[h])

(* An observer writes a line, or trains a model and takes a note of it.    *)
LEMMA ObserveIs ==
  ASSUME NEW s, IsMemory(s), NEW call
  PROVE  LET t == Observe(s, call)
         IN  /\ IsMemory(t) /\ t.history.asRead = s.history.asRead
             /\ t.history.saved = s.history.saved
             /\ \A x \in {"initialised", "definingLimit", "cutoffLimit", "modifiedTimes",
                          "portHintOrder", "enabledAttributes"} : t.db[x] = s.db[x]
<1>1. LET t == LogResult(s, call)
      IN  IsMemory(t) /\ t.db = s.db /\ t.history.asRead = s.history.asRead
          /\ t.history.saved = s.history.saved
  BY DEF LogResult, IsMemory, IsHistory
<1>2. LET t == Train(s, call.flow)
      IN  /\ IsMemory(t) /\ t.history.asRead = s.history.asRead
          /\ t.history.saved = s.history.saved
          /\ \A x \in {"initialised", "definingLimit", "cutoffLimit", "modifiedTimes",
                       "portHintOrder", "enabledAttributes"} : t.db[x] = s.db[x]
  <2>. PICK m, f, x : m = TrainedModel(s.db, call.flow) /\ f = call.flow
         /\ x = [id |-> f.id, tag |-> f.tag, file |-> current, model |-> m]
    OBVIOUS
  <2>. DEFINE d == [s.db EXCEPT !.models[m] = TrainModel(@, f)]
              h == [s.history EXCEPT !.trained = Append(@, x)]
  <2>3. \/ Train(s, call.flow) = s
        \/ \E u : Train(s, call.flow) = [db |-> d, updated |-> u, history |-> h]
    BY DEF Train
  <2>4. /\ IsDb(d) /\ IsHistory(h) /\ h.asRead = s.history.asRead /\ h.saved = s.history.saved
        /\ \A y \in {"initialised", "definingLimit", "cutoffLimit",
                     "modifiedTimes", "portHintOrder", "enabledAttributes"} : d[y] = s.db[y]
    <3>. PICK trained : trained = Append(s.history.trained, x)
      OBVIOUS
    <3>0. h = [s.history EXCEPT !.trained = trained]
      OBVIOUS
    <3>1. IsHistory(h) /\ h.asRead = s.history.asRead /\ h.saved = s.history.saved
      <4>1. IsHistory(s.history)
        BY DEF IsMemory
      <4>. PICK old : old = s.history
        OBVIOUS
      <4>2. h = [old EXCEPT !.trained = trained] /\ IsHistory(old)
        BY <3>0, <4>1
      <4>. HIDE DEF h
      <4>. QED
        BY <4>2 DEF IsHistory
    <3>. PICK models : models = [s.db.models EXCEPT ![m] = TrainModel(s.db.models[m], f)]
      OBVIOUS
    <3>2. d = [s.db EXCEPT !.models = models]
      OBVIOUS
    <3>3. /\ IsDb(d)
          /\ \A y \in {"initialised", "definingLimit", "cutoffLimit",
                       "modifiedTimes", "portHintOrder", "enabledAttributes"} : d[y] = s.db[y]
      <4>. PICK old : old = s.db
        OBVIOUS
      <4>1. d = [old EXCEPT !.models = models] /\ IsDb(old)
        BY <3>2 DEF IsMemory
      <4>. HIDE DEF d
      <4>. QED
        BY <4>1 DEF IsDb
    <3>. QED
      BY <3>1, <3>3
  <2>. HIDE DEF d, h
  <2>. PICK t : t = Train(s, call.flow)
    OBVIOUS
  <2>5. CASE t = s
    BY <2>5
  <2>6. ASSUME NEW u, t = [db |-> d, updated |-> u, history |-> h]
        PROVE  IsMemory(t) /\ t.db = d /\ t.history = h
    BY <2>4, <2>6 DEF IsMemory
  <2>. QED
    BY <2>3, <2>4, <2>5, <2>6
<1>. QED
  BY <1>1, <1>2 DEF Observe

(* The observers change models, the updated flag and their history,        *)
(* nothing else.                                                           *)
LEMMA ToldIs ==
  ASSUME NEW s, IsMemory(s), NEW made, NEW call
  PROVE  LET t == Told(s, made, call)
         IN  /\ IsMemory(t) /\ t.history.asRead = s.history.asRead
             /\ t.history.saved = s.history.saved
             /\ \A x \in {"initialised", "definingLimit", "cutoffLimit", "modifiedTimes",
                          "portHintOrder", "enabledAttributes"} : t.db[x] = s.db[x]
BY ObserveIs DEF Told

-------------------------------------------------------------------------------
(* What a packet, and the end of a flow, do to the programs *)

(* The flow that leaves its place to another one, the calls the packet p   *)
(* makes, and what the observers have heard after each.                    *)
Replaced(p) == Fresh(manager, p, config.common) /\ Hash(p) \in DOMAIN manager.table
Served(p) == FlowServed(manager, p, db, config.common, current)
After(p, div, junk) == AddPacket(Served(p), p, db, config.common, div, junk)

HeardOld(p) ==
  Told(Memory, Replaced(p) /\ Reported(FlowOf(manager, p)), FinishedCall(FlowOf(manager, p)))
HeardNew(p, f, g) == Told(HeardOld(p), g.classified /\ ~f.classified, ClassifiedCall(g))
HeardLast(p, f, g) ==
  Told(HeardNew(p, f, g), g.state = "FINISHED" /\ Reported(g), FinishedCall(g))

Becomes(s) == db' = s.db /\ updated' = s.updated /\ history' = s.history

(* HandlePacket, for packet p of a flow that is f before and g afterwards. *)
PacketStep(p, f, g) ==
  /\ IsManager(manager') /\ manager'.events = << >> /\ IdleFlow(f) /\ IdleFlow(g)
  /\ manager'.made = IF Fresh(manager, p, config.common) THEN manager.made + 1 ELSE manager.made
  /\ manager'.table = IF g.state \in Closed THEN Without(manager.table, Hash(p))
                      ELSE With(manager.table, Hash(p), g)
  /\ manager'.gone = GoneAfter(manager, p, config.common, g)
  /\ Becomes(HeardLast(p, f, g))

(* The calls of addPacket are at most three: about the flow replaced, the  *)
(* classified and the finished one.                                        *)
LEMMA CallsHeard ==
  ASSUME NEW p, NEW f, f = Served(p), NEW g, NEW t,
         IsManager(manager), manager.events = << >>,
         Heard(Memory, CallsAfter(manager, p, db, config.common, current, g), t)
  PROVE  t = HeardLast(p, f, g)
<1>. DEFINE e == CallsBefore(manager, p, config.common)
            told == IF g.classified /\ ~f.classified THEN Append(e, ClassifiedCall(g)) ELSE e
<1>0. CallsAfter(manager, p, db, config.common, current, g)
        = IF g.state = "FINISHED" THEN CallsAt(told, g) ELSE told
  BY DEF CallsAfter, Served
<1>1. AnySeq(e) /\ \A u : Heard(Memory, e, u) => u = HeardOld(p)
  <2>1. CASE Replaced(p)
    <3>. PICK old : old = FlowOf(manager, p)
      OBVIOUS
    <3>1. e = CallsAt(<< >>, old)
      BY <2>1 DEF CallsBefore, Replaced
    <3>2. AnySeq(CallsAt(<< >>, old))
      BY EmptyIsAny, AppendAny DEF CallsAt
    <3>3. ASSUME NEW u, Heard(Memory, CallsAt(<< >>, old), u)
          PROVE  u = Told(Memory, Reported(old), FinishedCall(old))
      <4>1. PICK v : Heard(Memory, << >>, v) /\ u = Told(v, Reported(old), FinishedCall(old))
        BY <3>3, EmptyIsAny, HeardAt
      <4>2. v = Memory
        BY <4>1, HeardNothing
      <4>. QED
        BY <4>1, <4>2
    <3>. HIDE DEF e
    <3>. QED
      BY <2>1, <3>1, <3>2, <3>3 DEF HeardOld, Told
  <2>2. CASE ~Replaced(p)
    <3>1. e = << >>
      BY <2>2 DEF CallsBefore, Replaced
    <3>. HIDE DEF e
    <3>2. \A u : Heard(Memory, << >>, u) => u = Memory
      BY HeardNothing
    <3>. QED
      BY <2>2, <3>1, <3>2, EmptyIsAny DEF HeardOld, Told
  <2>. QED
    BY <2>1, <2>2
<1>. HIDE DEF e
<1>2. AnySeq(told) /\ \A u : Heard(Memory, told, u) => u = HeardNew(p, f, g)
  <2>1. CASE g.classified /\ ~f.classified
    <3>. PICK call : call = ClassifiedCall(g)
      OBVIOUS
    <3>1. told = Append(e, call) /\ AnySeq(Append(e, call))
      BY <1>1, <2>1, AppendAny
    <3>2. ASSUME NEW u, Heard(Memory, Append(e, call), u)
          PROVE  u = Observe(HeardOld(p), call)
      <4>1. PICK v : Heard(Memory, e, v) /\ u = Observe(v, call)
        BY <1>1, <3>2, HeardOneMore
      <4>. QED
        BY <1>1, <4>1
    <3>. HIDE DEF told
    <3>. QED
      BY <2>1, <3>1, <3>2 DEF HeardNew, Told
  <2>2. CASE ~(g.classified /\ ~f.classified)
    <3>1. told = e
      BY <2>2
    <3>. HIDE DEF told
    <3>. QED
      BY <1>1, <2>2, <3>1 DEF HeardNew, Told
  <2>. QED
    BY <2>1, <2>2
<1>. HIDE DEF told
<1>3. CASE g.state = "FINISHED"
  <2>1. Heard(Memory, CallsAt(told, g), t)
    BY <1>0, <1>3
  <2>2. PICK v : Heard(Memory, told, v) /\ t = Told(v, Reported(g), FinishedCall(g))
    BY <1>2, <2>1, HeardAt
  <2>. QED
    BY <1>2, <1>3, <2>2 DEF HeardLast, Told
<1>4. CASE g.state # "FINISHED"
  BY <1>0, <1>2, <1>4 DEF HeardLast, Told
<1>. QED
  BY <1>3, <1>4

(* The whole of handlePacket, from the packet read to the observers.       *)
LEMMA HandlePacketIs ==
  ASSUME Shape, NEW shape, HandlePacket(shape)
  PROVE  \E p, div, junk :
           /\ p = PacketFrom(shape, clock + shape.gap)
           /\ div \in Divergences /\ junk \in UnwrittenBytes
           /\ PacketStep(p, Served(p), After(p, div, junk))
<1>1. PICK p, div, junk :
        /\ p = PacketFrom(shape, clock + shape.gap)
        /\ div \in Divergences /\ junk \in UnwrittenBytes
        /\ Observed(AddToManager(manager, p, db, config.common, div, junk, current))
  BY DEF HandlePacket
<1>. DEFINE r == AddToManager(manager, p, db, config.common, div, junk, current)
            f == Served(p)
            g == After(p, div, junk)
<1>2. /\ IsManager(r) /\ IdleFlow(f)
      /\ r.made = IF Fresh(manager, p, config.common) THEN manager.made + 1 ELSE manager.made
      /\ r.events = CallsAfter(manager, p, db, config.common, current, g)
      /\ r.gone = GoneAfter(manager, p, config.common, g)
      /\ r.table = IF g.state \in Closed THEN Without(manager.table, Hash(p))
                   ELSE With(manager.table, Hash(p), g)
  BY AddIs DEF Shape, IsConfig, Served, After
<1>3. IdleFlow(g)
  <2>. PICK d, common : d = db /\ common = config.common
    OBVIOUS
  <2>1. IsFlow(f) /\ f.classified \in BOOLEAN
    BY <1>2 DEF IdleFlow
  <2>. HIDE DEF f
  <2>2. LET k == AddPacket(f, p, d, common, div, junk)
        IN  IsFlow(k) /\ k.classified \in BOOLEAN /\ k.pktsInQueue = f.pktsInQueue
    BY <2>1, AddPacketIs
  <2>. QED
    BY <1>2, <2>2 DEF IdleFlow, After, f
<1>. HIDE DEF r
<1>4. Observed(r) /\ IsManager(r)
  BY <1>1, <1>2 DEF r
<1>5. PICK t : Heard(Memory, r.events, t) /\ db' = t.db /\ updated' = t.updated /\ history' = t.history
  BY <1>4, ObservedIs
<1>6. /\ IsManager(manager') /\ manager'.events = << >>
      /\ manager'.table = r.table /\ manager'.made = r.made /\ manager'.gone = r.gone
  BY <1>4, ObservedIs
<1>. HIDE DEF f, g
<1>7. t = HeardLast(p, f, g)
  BY <1>2, <1>5, CallsHeard DEF Shape, f
<1>8. PacketStep(p, f, g)
  BY <1>2, <1>3, <1>5, <1>6, <1>7 DEF PacketStep, Becomes
<1>. QED
  BY <1>1, <1>8 DEF f, g

(* Finish takes a flow from the table and reports it.                      *)
LEMMA FinishIs ==
  ASSUME Shape, NEW h, Finish(h)
  PROVE  /\ h \in DOMAIN manager.table
         /\ IsManager(manager') /\ manager'.events = << >> /\ manager'.made = manager.made
         /\ manager'.table = Without(manager.table, h)
         /\ manager'.gone = WithGone(manager.gone, manager.table[h])
         /\ Becomes(Told(Memory, Reported(manager.table[h]), FinishedCall(manager.table[h])))
<1>. DEFINE f == manager.table[h]
            n == NotifyFinished(manager, f)
            r == FinishFlow(manager, h)
<1>1. manager = [manager EXCEPT !.events = << >>]
  BY DEF Shape, IsManager
<1>2. r = Erase(n, h)
  BY <1>1 DEF FinishFlow
<1>3. /\ IsManager(n) /\ n.table = manager.table /\ n.made = manager.made
      /\ n.gone = manager.gone /\ n.events = CallsAt(<< >>, f)
  BY NotifyIs DEF Shape
<1>. HIDE DEF n
<1>4. /\ IsManager(r) /\ r.made = n.made /\ r.events = n.events
      /\ r.table = Without(n.table, h) /\ r.gone = WithGone(n.gone, n.table[h])
  BY <1>2, <1>3, EraseIs
<1>5. Observed(r) /\ h \in DOMAIN manager.table
  BY DEF Finish
<1>. HIDE DEF r, f
<1>6. PICK t : Heard(Memory, r.events, t) /\ db' = t.db /\ updated' = t.updated /\ history' = t.history
  BY <1>4, <1>5, ObservedIs
<1>7. /\ IsManager(manager') /\ manager'.events = << >>
      /\ manager'.table = r.table /\ manager'.made = r.made /\ manager'.gone = r.gone
  BY <1>4, <1>5, ObservedIs
<1>8. Heard(Memory, CallsAt(<< >>, f), t)
  BY <1>3, <1>4, <1>6
<1>9. PICK u : Heard(Memory, << >>, u) /\ t = Told(u, Reported(f), FinishedCall(f))
  BY <1>8, EmptyIsAny, HeardAt
<1>10. u = Memory
  BY <1>9, HeardNothing
<1>. QED
  BY <1>3, <1>4, <1>5, <1>6, <1>7, <1>9, <1>10 DEF Becomes, f

-------------------------------------------------------------------------------
(* The shape of the variables stays                                        *)

(* Both programs read configurations with all of their fields.            *)
LEMMA ConfigsAre ==
  ASSUME NEW file
  PROVE  IsConfig(TrainingConfig(file)) /\ IsConfig(PcapClassifierConfig(file))
<1>. DEFINE common == [CommonConfig EXCEPT !.learningMode = TRUE,
                                           !.udpFlowTimeout = Setting(file, "UdpFlowTimeout", @)]
<1>1. CommonConfig.tcpFlowTimeout = 86400 /\ "tcpFlowTimeout" \in DOMAIN CommonConfig
  BY DEF CommonConfig
<1>2. common.tcpFlowTimeout \in Nat
  BY <1>1
<1>3. ClassifierConfig(file, 0).tcpFlowTimeout \in Nat
  BY <1>1 DEF ClassifierConfig
<1>. HIDE DEF common
<1>4. \E x, y : TrainingConfig(file) = [program |-> "training", protocolDatabase |-> x,
                 common |-> common, protocolDatabaseBackup |-> y]
  BY DEF TrainingConfig, common
<1>5. \E x : PcapClassifierConfig(file) = [program |-> "pcap_classifier", protocolDatabase |-> x,
                 common |-> ClassifierConfig(file, 0), protocolDatabaseBackup |-> ""]
  BY DEF PcapClassifierConfig
<1>6. \A program, x, c, y :
        c.tcpFlowTimeout \in Nat =>
          IsConfig([program |-> program, protocolDatabase |-> x, common |-> c,
                    protocolDatabaseBackup |-> y])
  BY DEF IsConfig
<1>. QED
  BY <1>2, <1>3, <1>4, <1>5, <1>6

(* It is so before the first program starts.                               *)
LEMMA ShapeInit == Init => Shape
<1>. SUFFICES ASSUME Init PROVE Shape
  OBVIOUS
<1>1. disk = [n \in DiskFile |-> disk[n]]
  BY DEF Init
<1>2. IsConfig(config)
  BY ConfigsAre DEF Init
<1>3. IsDb(db) /\ IsHistory(history)
  BY DEF Init, IsDb, IsHistory, UnreadDb, NoHistory
<1>4. IsManager(manager) /\ manager.events = << >> /\ DOMAIN manager.table = {}
  BY EmptyIsAny DEF Init, IsManager, NewManager
<1>. QED
  BY <1>1, <1>2, <1>3, <1>4 DEF Shape

(* All steps but those that handle packets and flows.                      *)
Preparation ==
  \/ \E s \in Scenarios : Start(s)
  \/ LoadConfig \/ ReadDatabase \/ ReadTrainingInput \/ Crash \/ Restore
Quiet == Preparation \/ NextFile \/ EndOfFiles \/ EndOfCapture \/ Finished \/ Save

(* The steps fall into those without a packet, and those with one or with  *)
(* a flow to finish.                                                       *)
LEMMA Steps ==
  ASSUME [Next]_vars
  PROVE  \/ Quiet
         \/ pc = "packets" /\ \E shape \in Capture.traffic : HandlePacket(shape)
         \/ \E h \in DOMAIN manager.table : Finish(h)
         \/ UNCHANGED vars
BY DEF Next, Program, Quiet, Preparation

(* And every step keeps it.                                                *)
LEMMA ShapeKept == Shape /\ [Next]_vars => Shape'
<1>. SUFFICES ASSUME Shape, [Next]_vars PROVE Shape'
  OBVIOUS
<1>1. ASSUME NEW s \in Scenarios, Start(s) PROVE Shape'
  <2>1. IsConfig(config')
    BY <1>1, ConfigsAre DEF Start
  <2>2. IsDb(db') /\ IsHistory(history')
    BY <1>1 DEF Start, IsDb, IsHistory, UnreadDb, NoHistory
  <2>3. IsManager(manager') /\ manager'.events = << >> /\ DOMAIN manager'.table = {}
    BY <1>1, EmptyIsAny DEF Start, IsManager, NewManager
  <2>. QED
    BY <1>1, <2>1, <2>2, <2>3 DEF Shape, Start
<1>2. CASE LoadConfig
  <2>1. IsConfig(config')
    BY <1>2 DEF LoadConfig, Shape, IsConfig
  <2>. QED
    BY <1>2, <2>1 DEF LoadConfig, Shape
<1>3. CASE ReadDatabase
  <2>1. IsDb(db') /\ IsHistory(history')
    BY <1>3 DEF ReadDatabase, Shape, ReadDb, IsDb, IsHistory
  <2>. QED
    BY <1>3, <2>1 DEF ReadDatabase, Shape, settings
<1>4. CASE ReadTrainingInput \/ Crash
  BY <1>4 DEF ReadTrainingInput, Crash, Shape, settings, memory
<1>5. CASE Restore
  <2>1. disk' = [n \in DiskFile |-> disk'[n]]
    BY <1>5 DEF Restore, Shape
  <2>. QED
    BY <1>5, <2>1 DEF Restore, Shape, memory
<1>6. CASE NextFile \/ EndOfFiles \/ EndOfCapture \/ Finished
  BY <1>6 DEF NextFile, EndOfFiles, EndOfCapture, Finished, Shape, settings
<1>7. CASE Save
  <2>1. disk' = [n \in DiskFile |-> disk'[n]]
    BY <1>7 DEF Save, Rename, RenameFails, OpenDatabase, OpenFails, WriteDatabase, WriteFails,
                OpenNew, WriteNew, Shape
  <2>2. IsHistory(history')
    BY <1>7 DEF Save, Rename, RenameFails, OpenDatabase, OpenFails, WriteDatabase, WriteFails,
                OpenNew, WriteNew, Shape, Saved, IsHistory, memory
  <2>3. UNCHANGED <<config, db, manager>>
    BY <1>7 DEF Save, Rename, RenameFails, OpenDatabase, OpenFails, WriteDatabase, WriteFails,
                OpenNew, WriteNew, memory, settings
  <2>. QED
    BY <2>1, <2>2, <2>3 DEF Shape
<1>8. ASSUME NEW shape, HandlePacket(shape) PROVE Shape'
  <2>1. PICK p, f, g : PacketStep(p, f, g)
    BY <1>8, HandlePacketIs
  <2>2. IsMemory(Memory)
    BY DEF IsMemory, Memory, Shape
  <2>3. IsMemory(HeardLast(p, f, g))
    BY <2>2, ToldIs DEF HeardLast, HeardNew, HeardOld
  <2>4. IsDb(db') /\ IsHistory(history')
    BY <2>1, <2>3 DEF PacketStep, Becomes, IsMemory
  <2>5. \A h \in DOMAIN manager'.table : IdleFlow(manager'.table[h])
    BY <2>1 DEF PacketStep, With, Without, Shape
  <2>6. UNCHANGED <<disk, config>>
    BY <1>8 DEF HandlePacket, settings
  <2>. QED
    BY <2>1, <2>4, <2>5, <2>6 DEF Shape, PacketStep
<1>9. ASSUME NEW h, Finish(h) PROVE Shape'
  <2>1. IsMemory(Memory)
    BY DEF IsMemory, Memory, Shape
  <2>2. PICK made, call : Becomes(Told(Memory, made, call))
    BY <1>9, FinishIs
  <2>3. IsMemory(Told(Memory, made, call))
    BY <2>1, ToldIs
  <2>4. IsDb(db') /\ IsHistory(history')
    BY <2>2, <2>3 DEF Becomes, IsMemory
  <2>5. \A k \in DOMAIN manager'.table : IdleFlow(manager'.table[k])
    BY <1>9, FinishIs DEF Without, Shape
  <2>6. UNCHANGED <<disk, config>>
    BY <1>9 DEF Finish, settings
  <2>. QED
    BY <1>9, <2>4, <2>5, <2>6, FinishIs DEF Shape
<1>10. CASE UNCHANGED vars
  BY <1>10 DEF vars, Shape
<1>. QED
  BY <1>1, <1>2, <1>3, <1>4, <1>5, <1>6, <1>7, <1>8, <1>9, <1>10, Steps
  DEF Quiet, Preparation

-------------------------------------------------------------------------------
(* The database on disk                                                    *)

(* The times a file holds are those of all writes it goes back to; what    *)
(* cannot be read holds none.                                              *)
Times(n) == Optional(disk[n].content, "ModifiedTime", << >>)
Generations(n) == IF disk[n].state = "complete" THEN Len(Times(n)) ELSE 0

HasRead == {"input", "next", "packets", "finishing", "save", "renamed", "writing",
            "rename_failed", "writing_new"}

(* While both are there, the backup is not the later one; the program has  *)
(* read all of what is on disk, and while the database is being replaced   *)
(* nothing under its name can be read.                                     *)
StoreInv ==
  /\ runs \in Nat
  /\ \A n \in DiskFile : disk[n].state = "complete" => Times(n) \in Seq(Nat)
  /\ disk["database"].state = "complete" => Generations("backup") <= Generations("database")
  /\ pc \in {"input", "next", "packets", "finishing", "save"} =>
       disk["database"].state = "complete"
  /\ pc \in {"renamed", "writing"} => disk["database"].state # "complete"
  /\ pc \in HasRead => /\ db.modifiedTimes \in Seq(Nat)
                       /\ Generations("database") <= Len(db.modifiedTimes)
                       /\ Generations("backup") <= Len(db.modifiedTimes)

(* The generation on disk is that of the newer of the two files.           *)
LEMMA GenerationIs ==
  Generation = IF Generations("database") >= Generations("backup")
               THEN Generations("database") ELSE Generations("backup")
BY DEF Generation, Generations, Times

(* Generations are numbers.                                                *)
LEMMA GenerationsAreNat ==
  ASSUME StoreInv, NEW n \in DiskFile
  PROVE  Generations(n) \in Nat
<1>1. \A s \in Seq(Nat) : Len(s) \in Nat
  BY LenProperties
<1>. QED
  BY <1>1 DEF StoreInv, Generations

(* What is written has one time more than what was read.                   *)
LEMMA ContentIs ==
  ASSUME runs \in Nat, db.modifiedTimes \in Seq(Nat)
  PROVE  LET t == Optional(Content.content, "ModifiedTime", << >>)
         IN  /\ Content.state = "complete" /\ t \in Seq(Nat)
             /\ Len(t) = Len(db.modifiedTimes) + 1 /\ Len(db.modifiedTimes) \in Nat
<1>. DEFINE w == WriteDb(db, runs)
            t == <<runs>> \o db.modifiedTimes
            c == [DefiningLimit |-> db.definingLimit, CutoffLimit |-> db.cutoffLimit,
                  ModifiedTime |-> t]
            m == [ProtocolModels |-> [i \in DOMAIN db.models |->
                                        WriteProtocolModel(db.models[i])]]
<1>1. <<runs>> \in Seq(Nat) /\ Len(<<runs>>) = 1
  OBVIOUS
<1>2. t \in Seq(Nat) /\ Len(t) = Len(db.modifiedTimes) + 1 /\ Len(db.modifiedTimes) \in Nat
  BY <1>1, ConcatProperties, LenProperties
<1>3. c["ModifiedTime"] = t /\ DOMAIN c = {"DefiningLimit", "CutoffLimit", "ModifiedTime"}
      /\ DOMAIN m = {"ProtocolModels"}
  OBVIOUS
<1>4. w = c \/ w = Over(c, m)
  BY DEF WriteDb
<1>. HIDE DEF c, m, t, w
<1>5. "ModifiedTime" \in DOMAIN w /\ w["ModifiedTime"] = t
  BY <1>3, <1>4 DEF Over
<1>. QED
  BY <1>2, <1>5 DEF Content, Complete, Optional, Has, w

(* It holds before the first program starts.                               *)
LEMMA StoreInit == Init => StoreInv /\ Store!Init
<1>. SUFFICES ASSUME Init PROVE StoreInv /\ Store!Init
  OBVIOUS
<1>0. PICK s \in Scenarios : \E file \in s.databases :
        disk = [n \in DiskFile |-> IF n = "database" THEN file ELSE NoFile]
  BY DEF Init
<1>1. PICK file \in s.databases :
        disk = [n \in DiskFile |-> IF n = "database" THEN file ELSE NoFile]
  BY <1>0
<1>2. disk["database"] = file /\ disk["backup"] = NoFile /\ disk["new"] = NoFile
  BY <1>1 DEF DiskFile
<1>3. file.state = "complete" => Times("database") \in Seq(Nat)
  BY <1>1, <1>2, PcapAssumption DEF Times, WellTyped
<1>4. disk["backup"].state # "complete" /\ disk["new"].state # "complete"
  BY <1>2 DEF NoFile
<1>5. \A n \in DiskFile : disk[n].state = "complete" => Times(n) \in Seq(Nat)
  BY <1>2, <1>3, <1>4 DEF DiskFile
<1>6. runs \in Nat /\ pc = "down"
  BY DEF Init
<1>7. Generations("backup") = 0 /\ Generations("database") \in Nat
  BY <1>2, <1>3, <1>4, LenProperties DEF Generations
<1>8. StoreInv
  BY <1>5, <1>6, <1>7 DEF StoreInv, HasRead
<1>. QED
  BY <1>7, <1>8, GenerationIs DEF Store!Init

(* A step that leaves the files alone, and has read no others.             *)
LEMMA SameFiles ==
  ASSUME StoreInv, runs' \in Nat, UNCHANGED disk, db'.modifiedTimes = db.modifiedTimes,
         \/ pc' \notin HasRead
         \/ /\ pc \in HasRead /\ pc' \in HasRead
            /\ pc \in {"input", "next", "packets", "finishing", "save"} \/ pc' = pc
            /\ pc' \notin {"renamed", "writing"} \/ pc' = pc
  PROVE  StoreInv' /\ Generation' = Generation
<1>1. /\ \A n \in DiskFile : Times(n)' = Times(n)
      /\ Generations("database")' = Generations("database")
      /\ Generations("backup")' = Generations("backup")
  BY DEF Times, Generations
<1>2. Generation' = Generation
  BY DEF Generation
<1>. QED
  BY <1>1, <1>2 DEF StoreInv, HasRead

(* Every step keeps it, and leaves the generation or makes the next one.   *)
LEMMA StoreKept ==
  Shape /\ StoreInv /\ [Next]_vars => StoreInv' /\ [Store!Save]_Generation
<1>. SUFFICES ASSUME Shape, StoreInv, [Next]_vars
              PROVE  StoreInv' /\ [Store!Save]_Generation
  OBVIOUS
<1>. USE DEF HasRead
<1>1. ASSUME NEW s \in Scenarios, Start(s)
      PROVE  StoreInv' /\ [Store!Save]_Generation
  <2>0. runs' = runs + 1 /\ UNCHANGED disk /\ pc' \in {"config", "down"}
    BY <1>1, Zenon DEF Start
  <2>1. runs' \in Nat /\ UNCHANGED disk /\ pc' \notin HasRead
    BY <2>0 DEF StoreInv
  <2>2. \A n \in DiskFile : Times(n)' = Times(n) /\ Generations(n)' = Generations(n)
    BY <2>1 DEF Times, Generations
  <2>3. Generation' = Generation
    BY <2>1 DEF Generation
  <2>. QED
    BY <2>1, <2>2, <2>3 DEF StoreInv, DiskFile
<1>2. CASE LoadConfig \/ ReadTrainingInput \/ Crash \/ NextFile \/ EndOfFiles
           \/ EndOfCapture \/ Finished
  <2>1. /\ runs' = runs /\ UNCHANGED <<disk, db>>
        /\ \/ pc' \notin HasRead
           \/ /\ pc \in HasRead /\ pc' \in HasRead
              /\ pc \in {"input", "next", "packets", "finishing"}
              /\ pc' \notin {"renamed", "writing"}
    BY <1>2 DEF LoadConfig, ReadTrainingInput, Crash, NextFile, EndOfFiles, EndOfCapture, Finished,
                Exits, Goto, settings, memory
  <2>2. runs' \in Nat
    BY <2>1 DEF StoreInv
  <2>. QED
    BY <2>1, <2>2, SameFiles
<1>3. CASE ReadDatabase
  <2>1. CASE db.initialised \/ ~ReadOk(disk["database"])
    <3>1. runs' \in Nat /\ UNCHANGED <<disk, db>> /\ pc' \notin HasRead
      BY <1>3, <2>1 DEF ReadDatabase, settings, Exits, Goto, StoreInv
    <3>. QED
      BY <3>1, SameFiles
  <2>2. CASE ~(db.initialised \/ ~ReadOk(disk["database"]))
    <3>1. /\ disk["database"].state = "complete" /\ pc' \in {"input", "next"}
          /\ db' = ReadDb(disk["database"].content, runs) /\ UNCHANGED <<disk, runs>>
      BY <1>3, <2>2 DEF ReadDatabase, settings, ReadOk
    <3>2. db'.modifiedTimes = Optional(disk["database"].content, "ModifiedTime", <<runs>>)
      BY <3>1 DEF ReadDb
    <3>3. Times("database") \in Seq(Nat)
      BY <3>1 DEF StoreInv, DiskFile
    <3>4. db'.modifiedTimes \in Seq(Nat) /\ Generations("database") <= Len(db'.modifiedTimes)
      <4>1. CASE Has(disk["database"].content, "ModifiedTime")
        <5>1. db'.modifiedTimes = Times("database")
          BY <3>2, <4>1 DEF Times, Optional
        <5>. QED
          BY <3>1, <3>3, <5>1, LenProperties DEF Generations
      <4>2. CASE ~Has(disk["database"].content, "ModifiedTime")
        <5>1. db'.modifiedTimes = <<runs>> /\ Times("database") = << >>
          BY <3>2, <4>2 DEF Times, Optional
        <5>2. <<runs>> \in Seq(Nat) /\ Len(<<runs>>) = 1
          BY DEF StoreInv
        <5>. QED
          BY <3>1, <5>1, <5>2 DEF Generations
      <4>. QED
        BY <4>1, <4>2
    <3>5. \A n \in DiskFile : Times(n)' = Times(n) /\ Generations(n)' = Generations(n)
      BY <3>1 DEF Times, Generations
    <3>6. Generation' = Generation
      BY <3>1 DEF Generation
    <3>7. Generations("backup") <= Len(db'.modifiedTimes)
      <4>1. Generations("backup") <= Generations("database")
        BY <3>1 DEF StoreInv
      <4>2. Generations("backup") \in Nat /\ Generations("database") \in Nat
        BY GenerationsAreNat DEF DiskFile
      <4>3. Len(db'.modifiedTimes) \in Nat
        BY <3>4, LenProperties
      <4>. QED
        BY <3>4, <4>1, <4>2, <4>3
    <3>. QED
      BY <3>1, <3>4, <3>5, <3>6, <3>7 DEF StoreInv, DiskFile
  <2>. QED
    BY <2>1, <2>2
<1>4. CASE Restore
  <2>1. /\ pc = "down" /\ pc' = "down" /\ runs' = runs
        /\ disk["database"].state # "complete" /\ disk["backup"].state = "complete"
        /\ disk'["database"] = disk["backup"] /\ disk'["backup"] = disk["backup"]
        /\ disk'["new"] = disk["new"]
    BY <1>4 DEF Restore, Shape, DiskFile
  <2>2. /\ Times("database")' = Times("backup") /\ Times("backup")' = Times("backup")
        /\ Times("new")' = Times("new")
        /\ Generations("database")' = Generations("backup")
        /\ Generations("backup")' = Generations("backup") /\ Generations("database") = 0
    BY <2>1 DEF Times, Generations
  <2>3. Generations("backup") \in Nat
    BY GenerationsAreNat DEF DiskFile
  <2>4. StoreInv'
    BY <2>1, <2>2, <2>3 DEF StoreInv, DiskFile
  <2>5. Generation' = Generation
    BY <2>2, <2>3, GenerationIs DEF Generation, Generations, Times
  <2>. QED
    BY <2>4, <2>5
<1>5. CASE Rename
  <2>1. /\ pc = "save" /\ pc' = "renamed" /\ UNCHANGED <<runs, db>>
        /\ disk'["database"] = NoFile /\ disk'["backup"] = disk["database"]
        /\ disk'["new"] = disk["new"] /\ disk["database"].state = "complete"
    BY <1>5 DEF Rename, Goto, Shape, DiskFile, memory, StoreInv
  <2>2. /\ disk'["database"].state # "complete" /\ Times("backup")' = Times("database")
        /\ Times("new")' = Times("new")
        /\ Generations("database")' = 0 /\ Generations("backup")' = Generations("database")
    BY <2>1 DEF Times, Generations, NoFile
  <2>3. /\ Generations("backup") \in Nat /\ Generations("database") \in Nat
        /\ Generations("backup") <= Generations("database")
    BY <2>1, GenerationsAreNat DEF DiskFile, StoreInv
  <2>4. Len(db.modifiedTimes) \in Nat
    BY <2>1, LenProperties DEF StoreInv
  <2>5. StoreInv'
    BY <2>1, <2>2, <2>3, <2>4 DEF StoreInv, DiskFile
  <2>6. Generation' = Generation
    BY <2>2, <2>3, GenerationIs DEF Generation, Generations, Times
  <2>. QED
    BY <2>5, <2>6
<1>6. CASE RenameFails
  <2>1. runs' \in Nat /\ UNCHANGED <<disk, db>> /\ pc = "save" /\ pc' = "rename_failed"
    BY <1>6 DEF RenameFails, Goto, memory, StoreInv
  <2>. QED
    BY <2>1, SameFiles
<1>7. CASE OpenFails \/ WriteFails
  <2>1. runs' \in Nat /\ UNCHANGED <<disk, db>> /\ pc' \notin HasRead
    BY <1>7 DEF OpenFails, WriteFails, Exits, Goto, settings, StoreInv
  <2>. QED
    BY <2>1, SameFiles
<1>8. CASE OpenDatabase
  <2>1. /\ pc = "renamed" /\ pc' = "writing" /\ UNCHANGED <<runs, db>>
        /\ disk'["database"] = Partial /\ disk'["backup"] = disk["backup"]
        /\ disk'["new"] = disk["new"] /\ disk["database"].state # "complete"
    BY <1>8 DEF OpenDatabase, Goto, Shape, DiskFile, memory, StoreInv
  <2>2. /\ disk'["database"].state # "complete" /\ Times("backup")' = Times("backup")
        /\ Times("new")' = Times("new")
        /\ Generations("database")' = 0 /\ Generations("backup")' = Generations("backup")
        /\ Generations("database") = 0
    BY <2>1 DEF Times, Generations, Partial
  <2>3. StoreInv'
    BY <2>1, <2>2 DEF StoreInv, DiskFile
  <2>4. Generation' = Generation
    BY <2>2, GenerationIs DEF Generation, Generations, Times
  <2>. QED
    BY <2>3, <2>4
<1>9. CASE WriteDatabase
  <2>1. /\ pc = "writing" /\ pc' = "down" /\ UNCHANGED runs
        /\ disk'["database"] = Content /\ disk'["backup"] = disk["backup"]
        /\ disk'["new"] = disk["new"] /\ disk["database"].state # "complete"
    BY <1>9 DEF WriteDatabase, Exits, Goto, Shape, DiskFile, settings, StoreInv
  <2>2. PICK t : t = Optional(Content.content, "ModifiedTime", << >>)
    OBVIOUS
  <2>3. /\ Content.state = "complete" /\ t \in Seq(Nat)
        /\ Len(t) = Len(db.modifiedTimes) + 1 /\ Len(db.modifiedTimes) \in Nat
    BY <2>1, <2>2, ContentIs DEF StoreInv
  <2>4. /\ Times("database")' = t /\ Times("backup")' = Times("backup")
        /\ Times("new")' = Times("new")
        /\ Generations("database")' = Len(t) /\ Generations("backup")' = Generations("backup")
        /\ Generations("database") = 0
    BY <2>1, <2>2, <2>3 DEF Times, Generations
  <2>5. Generations("backup") \in Nat /\ Generations("backup") < Len(t) /\ Len(t) \in Nat
    BY <2>1, <2>3, GenerationsAreNat DEF DiskFile, StoreInv
  <2>6. StoreInv'
    BY <2>1, <2>3, <2>4, <2>5 DEF StoreInv, DiskFile
  <2>7. Generation' \in Nat /\ Generation' > Generation
    BY <2>4, <2>5, GenerationIs DEF Generation, Generations, Times
  <2>. QED
    BY <2>6, <2>7 DEF Store!Save
<1>10. CASE OpenNew \/ WriteNew
  <2>1. /\ UNCHANGED <<runs, db>> /\ disk'["database"] = disk["database"]
        /\ disk'["backup"] = disk["backup"] /\ disk'["new"] \in {Partial, Content}
        /\ \/ pc = "rename_failed" /\ pc' = "writing_new"
           \/ pc = "writing_new" /\ pc' = "down"
    BY <1>10 DEF OpenNew, WriteNew, Exits, Goto, Shape, DiskFile, settings, memory
  <2>2. disk'["new"].state = "complete" => Times("new")' \in Seq(Nat)
    <3>1. runs \in Nat /\ db.modifiedTimes \in Seq(Nat)
      BY <2>1 DEF StoreInv
    <3>2. CASE disk'["new"] = Partial
      BY <3>2 DEF Partial
    <3>3. CASE disk'["new"] = Content
      <4>1. Times("new")' = Optional(Content.content, "ModifiedTime", << >>)
        BY <3>3 DEF Times
      <4>. QED
        BY <3>1, <4>1, ContentIs
    <3>. QED
      BY <2>1, <3>2, <3>3
  <2>3. /\ Times("backup")' = Times("backup") /\ Times("database")' = Times("database")
        /\ Generations("database")' = Generations("database")
        /\ Generations("backup")' = Generations("backup")
    BY <2>1 DEF Times, Generations
  <2>4. StoreInv'
    BY <2>1, <2>2, <2>3 DEF StoreInv, DiskFile
  <2>5. Generation' = Generation
    BY <2>1 DEF Generation
  <2>. QED
    BY <2>4, <2>5
<1>11. ASSUME NEW shape, HandlePacket(shape)
       PROVE  StoreInv' /\ [Store!Save]_Generation
  <2>1. PICK p, f, g : PacketStep(p, f, g)
    BY <1>11, HandlePacketIs
  <2>2. IsMemory(Memory) /\ Memory.db = db
    BY DEF IsMemory, Memory, Shape
  <2>3. HeardLast(p, f, g).db.modifiedTimes = db.modifiedTimes
    <3>1. IsMemory(HeardOld(p)) /\ HeardOld(p).db.modifiedTimes = db.modifiedTimes
      BY <2>2, ToldIs DEF HeardOld
    <3>2. IsMemory(HeardNew(p, f, g)) /\ HeardNew(p, f, g).db.modifiedTimes = db.modifiedTimes
      BY <3>1, ToldIs DEF HeardNew
    <3>. QED
      BY <3>2, ToldIs DEF HeardLast
  <2>4. db'.modifiedTimes = db.modifiedTimes
    BY <2>1, <2>3 DEF PacketStep, Becomes
  <2>5. UNCHANGED <<disk, pc>> /\ runs' \in Nat /\ pc = "packets"
    BY <1>11 DEF HandlePacket, settings, StoreInv
  <2>. QED
    BY <2>4, <2>5, SameFiles
<1>12. ASSUME NEW h, Finish(h)
       PROVE  StoreInv' /\ [Store!Save]_Generation
  <2>1. IsMemory(Memory) /\ Memory.db = db
    BY DEF IsMemory, Memory, Shape
  <2>2. PICK made, call : Becomes(Told(Memory, made, call))
    BY <1>12, FinishIs
  <2>3. db'.modifiedTimes = db.modifiedTimes
    BY <2>1, <2>2, ToldIs DEF Becomes
  <2>4. UNCHANGED <<disk, pc>> /\ runs' \in Nat /\ pc = "finishing"
    BY <1>12 DEF Finish, settings, StoreInv
  <2>. QED
    BY <2>3, <2>4, SameFiles
<1>13. CASE UNCHANGED vars
  <2>1. UNCHANGED <<disk, db, pc, runs>>
    BY <1>13 DEF vars
  <2>2. \A n \in DiskFile : Times(n)' = Times(n) /\ Generations(n)' = Generations(n)
    BY <2>1 DEF Times, Generations
  <2>3. Generation' = Generation
    BY <2>1 DEF Generation
  <2>. QED
    BY <2>1, <2>2, <2>3 DEF StoreInv, DiskFile
<1>. QED
  BY <1>1, <1>2, <1>3, <1>4, <1>5, <1>6, <1>7, <1>8, <1>9, <1>10, <1>11, <1>12, <1>13, Steps
  DEF Quiet, Preparation, Save

(* Whatever is killed, fails or is started again: training keeps the       *)
(* promise of DatabaseStore about what can be read of its database.        *)
THEOREM DatabaseIsKept == Spec => LatestDatabaseKept
<1>1. Init => Shape /\ StoreInv /\ Store!Init
  BY ShapeInit, StoreInit
<1>2. Shape /\ StoreInv /\ [Next]_vars => Shape' /\ StoreInv' /\ [Store!Save]_Generation
  BY ShapeKept, StoreKept
<1>. QED
  BY <1>1, <1>2, PTL DEF Spec, LatestDatabaseKept, Store!Spec

-------------------------------------------------------------------------------
(* The flows in the table                                                  *)

(* What a packet makes of its flow. *)
FlowStep(p, f, g) ==
  /\ g.id = f.id /\ g.tag = f.tag /\ g.tuple = f.tuple /\ (f.classified => g.classified)
  /\ g.overallPktCount = f.overallPktCount + 1 /\ DOMAIN g.meters = DOMAIN f.meters
  /\ f.state \notin Closed => g.state # "FINISHED_NOTIFIED"
  /\ \/ g.pktCount = f.pktCount /\ g.direction = f.direction
     \/ g.pktCount = f.pktCount + 1 /\ g.direction = PacketDirection(f.tuple, p.tuple)
  /\ Fresh(manager, p, config.common) =>
       /\ f.id = manager.made + 1 /\ f.tag = current /\ f.tuple = p.tuple /\ ~f.classified
       /\ f.pktCount = 0 /\ f.overallPktCount = 0 /\ f.direction = "UNKNOWN"
       /\ f.state = "NEW" /\ DOMAIN f.meters = db.enabledAttributes
  /\ ~Fresh(manager, p, config.common) =>
       Hash(p) \in DOMAIN manager.table /\ f = manager.table[Hash(p)]

(* addPacket does that to the flow that getFlow serves.                    *)
LEMMA ServedStep ==
  ASSUME NEW p, NEW div, NEW junk, IdleFlow(Served(p))
  PROVE  FlowStep(p, Served(p), After(p, div, junk))
<1>. DEFINE f == Served(p)
            g == After(p, div, junk)
<1>1. IdleFlow(f)
  OBVIOUS
<1>2. ASSUME Fresh(manager, p, config.common)
      PROVE  /\ f.id = manager.made + 1 /\ f.tag = current /\ f.tuple = p.tuple /\ ~f.classified
             /\ f.pktCount = 0 /\ f.overallPktCount = 0 /\ f.direction = "UNKNOWN"
             /\ f.state = "NEW" /\ DOMAIN f.meters = db.enabledAttributes
  <2>. PICK en, id, tag : en = db.enabledAttributes /\ id = manager.made + 1 /\ tag = current
    OBVIOUS
  <2>1. f = NewFlow(p, en, id, tag)
    BY <1>2 DEF Served, FlowServed
  <2>. HIDE DEF f
  <2>2. DOMAIN GetAllMeters(en) = en
    BY DEF GetAllMeters
  <2>. QED
    BY <2>1, <2>2, NewFlowIs
<1>3. ASSUME ~Fresh(manager, p, config.common)
      PROVE  Hash(p) \in DOMAIN manager.table /\ f = manager.table[Hash(p)]
  BY <1>3 DEF Served, FlowServed, Fresh, FlowOf
<1>4. /\ g.id = f.id /\ g.tag = f.tag /\ g.tuple = f.tuple /\ (f.classified => g.classified)
      /\ g.overallPktCount = f.overallPktCount + 1 /\ DOMAIN g.meters = DOMAIN f.meters
      /\ g.state = StateAfter(f.state, p.kind, PacketDirection(f.tuple, p.tuple))
      /\ \/ g.pktCount = f.pktCount /\ g.direction = f.direction
         \/ g.pktCount = f.pktCount + 1 /\ g.direction = PacketDirection(f.tuple, p.tuple)
  <2>. PICK d, common : d = db /\ common = config.common
    OBVIOUS
  <2>1. g = AddPacket(f, p, d, common, div, junk)
    BY DEF After
  <2>. HIDE DEF f, g
  <2>. QED
    BY <1>1, <2>1, AddPacketIs DEF IdleFlow
<1>. HIDE DEF f, g
<1>5. f.state \notin Closed => g.state # "FINISHED_NOTIFIED"
  BY <1>4 DEF StateAfter, Closed
<1>6. FlowStep(p, f, g)
  BY <1>2, <1>3, <1>4, <1>5 DEF FlowStep
<1>. QED
  BY <1>6 DEF f, g

(* handlePacket is a step of that kind.                                    *)
LEMMA FlowStepIs ==
  ASSUME Shape, NEW shape, HandlePacket(shape)
  PROVE  \E p, f, g : /\ p = PacketFrom(shape, clock + shape.gap)
                      /\ PacketStep(p, f, g) /\ FlowStep(p, f, g)
<1>1. PICK p, div, junk : /\ p = PacketFrom(shape, clock + shape.gap)
                          /\ PacketStep(p, Served(p), After(p, div, junk))
  BY HandlePacketIs
<1>2. IdleFlow(Served(p))
  BY <1>1 DEF PacketStep
<1>. QED
  BY <1>1, <1>2, ServedStep

(* Every flow is open, under the hash of its connection, and numbered; all *)
(* were made for the file that is being read.                              *)
Open(h, f, made) ==
  /\ f.id \in 1 .. made /\ Murmur(HashInput(f.tuple)) = h /\ f.state \notin Closed
  /\ f.pktCount \in Nat /\ f.overallPktCount \in Nat /\ f.pktCount <= f.overallPktCount

TableInv ==
  /\ \A h \in DOMAIN manager.table : Open(h, manager.table[h], manager.made)
  /\ \A h, k \in DOMAIN manager.table : manager.table[h].id = manager.table[k].id => h = k
  /\ pc \in {"packets", "finishing"} =>
       \A h \in DOMAIN manager.table : manager.table[h].tag = current
  /\ pc \notin {"packets", "finishing", "down"} => DOMAIN manager.table = {}

(* The table is empty before the first program starts.                     *)
LEMMA TableInit == Init => TableInv
BY DEF Init, TableInv, NewManager

(* Flows enter with a new number and the tag of the file, and finished()   *)
(* empties the table.                                                      *)
LEMMA TableKept == Shape /\ TableInv /\ [Next]_vars => TableInv'
<1>. SUFFICES ASSUME Shape, TableInv, [Next]_vars PROVE TableInv'
  OBVIOUS
<1>1. ASSUME NEW s \in Scenarios, Start(s) PROVE TableInv'
  <2>1. manager' = NewManager
    BY <1>1 DEF Start
  <2>2. DOMAIN manager'.table = {}
    BY <2>1 DEF NewManager
  <2>. QED
    BY <2>2 DEF TableInv
<1>. DEFINE Elsewhere == {"config", "database", "input", "next", "save", "renamed", "writing",
                          "rename_failed", "writing_new"}
<1>2. ASSUME UNCHANGED <<manager, current>>,
             \/ pc' \in {"down", pc}
             \/ pc \in Elsewhere /\ pc' \in Elsewhere
             \/ pc = "packets" /\ pc' = "finishing"
             \/ DOMAIN manager.table = {}
      PROVE  TableInv'
  <2>. QED
    BY <1>2 DEF TableInv
<1>3. CASE LoadConfig \/ ReadDatabase \/ ReadTrainingInput \/ Crash \/ Restore \/ EndOfFiles
           \/ EndOfCapture \/ Finished
  <2>1. CASE LoadConfig
    BY <1>2, <2>1 DEF LoadConfig, Exits, Goto
  <2>2. CASE ReadDatabase
    <3>1. pc = "database" /\ pc' \in {"down", "input", "next"} /\ UNCHANGED <<manager, current>>
      BY <2>2 DEF ReadDatabase, Exits, Goto
    <3>. QED
      BY <1>2, <3>1
  <2>3. CASE ReadTrainingInput
    BY <1>2, <2>3 DEF ReadTrainingInput, Exits, Goto
  <2>4. CASE Crash \/ Restore
    BY <1>2, <2>4 DEF Crash, Restore, Exits, Goto, memory
  <2>5. CASE EndOfFiles
    <3>1. pc = "next" /\ pc' \in {"down", "save"} /\ UNCHANGED <<manager, current>>
      BY <2>5 DEF EndOfFiles, Exits, Goto
    <3>. QED
      BY <1>2, <3>1
  <2>6. CASE EndOfCapture
    BY <1>2, <2>6 DEF EndOfCapture, Goto
  <2>7. CASE Finished
    BY <1>2, <2>7 DEF Finished, Goto
  <2>. QED
    BY <1>3, <2>1, <2>2, <2>3, <2>4, <2>5, <2>6, <2>7
<1>4. CASE Save
  <2>1. UNCHANGED <<manager, current>> /\ (pc' = "down" \/ (pc \in Elsewhere /\ pc' \in Elsewhere))
    BY <1>4 DEF Save, Rename, RenameFails, OpenDatabase, OpenFails, WriteDatabase, WriteFails,
                OpenNew, WriteNew, Exits, Goto, memory
  <2>. QED
    BY <1>2, <2>1
<1>5. CASE NextFile
  <2>1. DOMAIN manager'.table = {}
    BY <1>5 DEF NextFile, TableInv
  <2>. QED
    BY <2>1 DEF TableInv
<1>6. ASSUME NEW shape, HandlePacket(shape) PROVE TableInv'
  <2>1. PICK p, f, g : PacketStep(p, f, g) /\ FlowStep(p, f, g)
    BY <1>6, FlowStepIs
  <2>2. UNCHANGED <<pc, current>> /\ pc = "packets"
    BY <1>6 DEF HandlePacket
  <2>. DEFINE h == Hash(p)
              made == manager'.made
  <2>3. manager.made \in Nat /\ made \in Nat /\ manager.made <= made /\ f.id \in 1 .. made
        /\ f.tag = current /\ Murmur(HashInput(f.tuple)) = h
        /\ f.pktCount \in Nat /\ f.overallPktCount \in Nat /\ f.pktCount <= f.overallPktCount
    <3>1. manager.made \in Nat
      BY DEF Shape, IsManager
    <3>2. CASE Fresh(manager, p, config.common)
      BY <2>1, <3>1, <3>2 DEF PacketStep, FlowStep, Hash
    <3>3. CASE ~Fresh(manager, p, config.common)
      BY <2>1, <2>2, <3>1, <3>3 DEF PacketStep, FlowStep, TableInv, Open
    <3>. QED
      BY <3>2, <3>3
  <2>4. g.state \notin Closed => Open(h, g, made)
    BY <2>1, <2>3 DEF FlowStep, Open
  <2>5. \A k, e : Open(k, e, manager.made) => Open(k, e, made)
    BY <2>3 DEF Open
  <2>6. ASSUME NEW k \in DOMAIN manager'.table
        PROVE  \/ k \in DOMAIN manager.table /\ k # h /\ manager'.table[k] = manager.table[k]
               \/ k = h /\ manager'.table[k] = g /\ g.state \notin Closed
    BY <2>1 DEF PacketStep, With, Without
  <2>7. \A k \in DOMAIN manager.table : k # h => manager.table[k].id # g.id
    <3>1. CASE Fresh(manager, p, config.common)
      <4>1. g.id = manager.made + 1 /\ manager.made \in Nat
        BY <2>1, <2>3, <3>1 DEF FlowStep
      <4>. QED
        BY <4>1 DEF TableInv, Open
    <3>2. CASE ~Fresh(manager, p, config.common)
      <4>1. h \in DOMAIN manager.table /\ g.id = manager.table[h].id
        BY <2>1, <3>2 DEF FlowStep
      <4>. QED
        BY <4>1 DEF TableInv
    <3>. QED
      BY <3>1, <3>2
  <2>8. g.tag = current'
    BY <2>1, <2>2, <2>3 DEF FlowStep
  <2>. HIDE DEF h
  <2>9. \A k \in DOMAIN manager'.table : /\ Open(k, manager'.table[k], manager'.made)
                                         /\ manager'.table[k].tag = current'
    <3>1. ASSUME NEW k \in DOMAIN manager'.table
          PROVE  Open(k, manager'.table[k], manager'.made) /\ manager'.table[k].tag = current'
      <4>1. CASE k = h
        BY <2>4, <2>6, <2>8, <4>1
      <4>2. CASE k # h
        BY <2>2, <2>5, <2>6, <4>2 DEF TableInv
      <4>. QED
        BY <4>1, <4>2
    <3>. QED
      BY <3>1
  <2>10. \A k, l \in DOMAIN manager'.table : manager'.table[k].id = manager'.table[l].id => k = l
    BY <2>6, <2>7 DEF TableInv
  <2>. QED
    BY <2>2, <2>9, <2>10 DEF TableInv
<1>7. ASSUME NEW h, Finish(h) PROVE TableInv'
  <2>1. manager'.made = manager.made /\ manager'.table = Without(manager.table, h)
    BY <1>7, FinishIs
  <2>2. UNCHANGED <<pc, current>>
    BY <1>7 DEF Finish
  <2>3. \A k \in DOMAIN manager'.table : k \in DOMAIN manager.table
                                         /\ manager'.table[k] = manager.table[k]
    BY <2>1 DEF Without
  <2>4. \A k \in DOMAIN manager'.table : Open(k, manager'.table[k], manager'.made)
    BY <2>1, <2>3 DEF TableInv, Open
  <2>. QED
    BY <2>2, <2>3, <2>4 DEF TableInv
<1>8. CASE UNCHANGED vars
  <2>1. UNCHANGED <<manager, current, pc>>
    BY <1>8 DEF vars
  <2>. QED
    BY <1>2, <2>1
<1>. QED
  BY <1>1, <1>3, <1>4, <1>5, <1>6, <1>7, <1>8, Steps DEF Quiet, Preparation

-------------------------------------------------------------------------------
(* Lines of results                                                        *)

Entries(s) == {s[i] : i \in DOMAIN s}
Distinct(s) == AnySeq(s) /\ \A i, j \in DOMAIN s : i # j => s[i] # s[j]

(* A new entry keeps the entries distinct.                                 *)
LEMMA AppendDistinct ==
  ASSUME NEW s, Distinct(s), NEW x, x \notin Entries(s)
  PROVE  Distinct(Append(s, x)) /\ Entries(Append(s, x)) = Entries(s) \cup {x}
<1>. PICK t : t = Append(s, x)
  OBVIOUS
<1>1. AnySeq(s)
  BY DEF Distinct
<1>2. /\ AnySeq(t) /\ DOMAIN s = 1 .. Len(s) /\ Len(s) \in Nat /\ DOMAIN t = 1 .. Len(s) + 1
      /\ \A i \in DOMAIN s : t[i] = s[i]
      /\ t[Len(s) + 1] = x
  BY <1>1, AppendAny
<1>3. DOMAIN t = DOMAIN s \cup {Len(s) + 1} /\ Len(s) + 1 \notin DOMAIN s
  BY <1>2
<1>. QED
  BY <1>2, <1>3 DEF Distinct, Entries

(* A call leads to a line unless it finishes a flow that has one.          *)
Line(made, call) == made /\ ~(call.kind = "finished" /\ call.flow.classified)

(* LogResult writes a line for just such calls.                            *)
LEMMA LogIs ==
  ASSUME NEW s, IsMemory(s), run.program = "pcap_classifier", NEW made, NEW call
  PROVE  LET t == Told(s, made, call)
         IN  t.history.results = IF Line(made, call) THEN Append(s.history.results, call.flow.id)
                                 ELSE s.history.results
<1>. PICK r : r = Append(s.history.results, call.flow.id)
  OBVIOUS
<1>. DEFINE t == [s EXCEPT !.history.results = r]
<1>1. t.history.results = r
  <2>1. s.history = [asRead |-> s.history.asRead, trained |-> s.history.trained,
                     results |-> s.history.results, saved |-> s.history.saved]
        /\ s = [db |-> s.db, updated |-> s.updated, history |-> s.history]
    BY DEF IsMemory, IsHistory
  <2>. PICK h : h = [s.history EXCEPT !.results = r]
    OBVIOUS
  <2>2. t = [s EXCEPT !.history = h] /\ h.results = r
    BY <2>1
  <2>. QED
    BY <2>1, <2>2
<1>2. LogResult(s, call) = IF call.kind = "finished" /\ call.flow.classified THEN s ELSE t
  BY DEF LogResult
<1>. HIDE DEF t
<1>. QED
  BY <1>1, <1>2 DEF Told, Observe, Line

(* A flow that is known well enough when it leaves the table is reported.  *)
LEMMA KnownIsReported ==
  ASSUME NEW f, WellKnown(f), f.pktCount \in Nat, f.overallPktCount \in Nat,
         f.state # "FINISHED_NOTIFIED"
  PROVE  Reported(f)
BY DEF WellKnown, Reported, TooShort

(* The flows in the table that have a line are the classified ones; those  *)
(* that are gone all have one.                                             *)
ResultsInv ==
  run.program = "pcap_classifier" =>
    /\ Distinct(history.results) /\ Entries(history.results) \subseteq 1 .. manager.made
    /\ manager.gone \subseteq Entries(history.results)
    /\ \A h \in DOMAIN manager.table :
         manager.table[h].classified <=> manager.table[h].id \in Entries(history.results)

(* There are no lines at the start.                                        *)
LEMMA ResultsInit == Init => ResultsInv
BY EmptyIsAny DEF Init, ResultsInv, NewManager, NoHistory, Distinct, Entries

(* A line is written when a flow becomes classified or leaves without,     *)
(* and never before.                                                       *)
LEMMA ResultsKept == Shape /\ TableInv /\ ResultsInv /\ [Next]_vars => ResultsInv'
<1>. SUFFICES ASSUME Shape, TableInv, ResultsInv, [Next]_vars PROVE ResultsInv'
  OBVIOUS
<1>1. ASSUME NEW s \in Scenarios, Start(s) PROVE ResultsInv'
  BY <1>1, EmptyIsAny DEF Start, ResultsInv, NewManager, NoHistory, Distinct, Entries
<1>2. ASSUME UNCHANGED <<manager, run>>, history'.results = history.results
      PROVE  ResultsInv'
  BY <1>2 DEF ResultsInv
<1>3. CASE LoadConfig \/ ReadTrainingInput \/ Crash \/ Restore \/ NextFile \/ EndOfFiles
           \/ EndOfCapture \/ Finished
  BY <1>2, <1>3 DEF LoadConfig, ReadTrainingInput, Crash, Restore, NextFile, EndOfFiles,
                    EndOfCapture, Finished, memory, settings
<1>4. CASE ReadDatabase
  <2>1. UNCHANGED <<manager, run>> /\ history'.results = history.results
    BY <1>4 DEF ReadDatabase, settings, Shape, IsHistory
  <2>. QED
    BY <1>2, <2>1
<1>5. CASE Save
  <2>1. UNCHANGED <<manager, run>>
    BY <1>5 DEF Save, Rename, RenameFails, OpenDatabase, OpenFails, WriteDatabase, WriteFails,
                OpenNew, WriteNew, memory, settings
  <2>2. history'.results = history.results
    BY <1>5 DEF Save, Rename, RenameFails, OpenDatabase, OpenFails, WriteDatabase, WriteFails,
                OpenNew, WriteNew, memory, Saved, Shape, IsHistory
  <2>. QED
    BY <1>2, <2>1, <2>2
<1>6. ASSUME NEW shape, HandlePacket(shape) PROVE ResultsInv'
  <2>0. run' = run
    BY <1>6 DEF HandlePacket, settings
  <2>. SUFFICES ASSUME run.program = "pcap_classifier" PROVE ResultsInv'
    BY <2>0 DEF ResultsInv
  <2>1. PICK p, f, g : PacketStep(p, f, g) /\ FlowStep(p, f, g)
    BY <1>6, FlowStepIs
  <2>. DEFINE h == Hash(p)
              old == FlowOf(manager, p)
              r0 == history.results
              r1 == HeardOld(p).history.results
              r2 == HeardNew(p, f, g).history.results
              r3 == history'.results
  <2>2. /\ r1 = IF Replaced(p) /\ Reported(old) /\ ~old.classified THEN Append(r0, old.id) ELSE r0
        /\ r2 = IF g.classified /\ ~f.classified THEN Append(r1, g.id) ELSE r1
        /\ r3 = IF g.state = "FINISHED" /\ Reported(g) /\ ~g.classified THEN Append(r2, g.id)
                ELSE r2
    <3>1. IsMemory(Memory) /\ Memory.history = history
      BY DEF IsMemory, Memory, Shape
    <3>2. IsMemory(HeardOld(p))
      BY <3>1, ToldIs DEF HeardOld
    <3>3. IsMemory(HeardNew(p, f, g))
      BY <3>2, ToldIs DEF HeardNew
    <3>. PICK c1, c2, c3 : c1 = FinishedCall(old) /\ c2 = ClassifiedCall(g) /\ c3 = FinishedCall(g)
      OBVIOUS
    <3>4. /\ c1.kind = "finished" /\ c1.flow = old /\ c2.kind = "classified" /\ c2.flow = g
          /\ c3.kind = "finished" /\ c3.flow = g
      BY DEF FinishedCall, ClassifiedCall
    <3>5. r1 = IF Line(Replaced(p) /\ Reported(old), c1) THEN Append(r0, c1.flow.id) ELSE r0
      BY <3>1, LogIs DEF HeardOld
    <3>6. r2 = IF Line(g.classified /\ ~f.classified, c2) THEN Append(r1, c2.flow.id) ELSE r1
      BY <3>2, LogIs DEF HeardNew
    <3>7. r3 = IF Line(g.state = "FINISHED" /\ Reported(g), c3) THEN Append(r2, c3.flow.id) ELSE r2
      BY <2>1, <3>3, LogIs DEF HeardLast, PacketStep, Becomes
    <3>. HIDE DEF old, r0, r1, r2, r3
    <3>. QED
      BY <3>4, <3>5, <3>6, <3>7 DEF Line
  <2>. HIDE DEF r1, r2, r3
  <2>3. /\ Distinct(r0) /\ Entries(r0) \subseteq 1 .. manager.made
        /\ manager.gone \subseteq Entries(r0)
        /\ \A k \in DOMAIN manager.table :
             manager.table[k].classified <=> manager.table[k].id \in Entries(r0)
    BY DEF ResultsInv
  <2>4. manager.made \in Nat /\ manager'.made \in Nat /\ manager.made <= manager'.made
        /\ g.id \in 1 .. manager'.made /\ g.pktCount \in Nat /\ g.overallPktCount \in Nat
    <3>1. manager.made \in Nat
      BY DEF Shape, IsManager
    <3>2. CASE Fresh(manager, p, config.common)
      BY <2>1, <3>1, <3>2 DEF PacketStep, FlowStep
    <3>3. CASE ~Fresh(manager, p, config.common)
      BY <2>1, <3>1, <3>3 DEF PacketStep, FlowStep, TableInv, Open
    <3>. QED
      BY <3>2, <3>3
  <2>. DEFINE r1new == IF Replaced(p) THEN {old.id} ELSE {}
  <2>5. /\ Distinct(r1) /\ Entries(r0) \subseteq Entries(r1) /\ Entries(r1) \subseteq 1 .. manager.made
        /\ Entries(r1) \subseteq Entries(r0) \cup r1new
        /\ GoneBefore(manager, p, config.common) \subseteq Entries(r1)
    <3>1. CASE Replaced(p) /\ Reported(old) /\ ~old.classified
      <4>1. h \in DOMAIN manager.table /\ old = manager.table[h]
        BY <3>1 DEF Replaced, FlowOf
      <4>2. old.id \notin Entries(r0) /\ old.id \in 1 .. manager.made
        BY <2>3, <3>1, <4>1 DEF TableInv, Open
      <4>. HIDE DEF old
      <4>. PICK id : id = old.id
        OBVIOUS
      <4>3. r1 = Append(r0, id)
        BY <2>2, <3>1
      <4>4. Distinct(r1) /\ Entries(r1) = Entries(r0) \cup {id}
        BY <2>3, <4>2, <4>3, AppendDistinct
      <4>5. GoneBefore(manager, p, config.common) \subseteq manager.gone \cup {id}
        BY DEF GoneBefore, WithGone, old
      <4>. QED
        BY <2>3, <3>1, <4>2, <4>4, <4>5
    <3>2. CASE ~(Replaced(p) /\ Reported(old) /\ ~old.classified)
      <4>1. r1 = r0
        BY <2>2, <3>2
      <4>2. CASE Replaced(p) /\ WellKnown(old)
        <5>1. h \in DOMAIN manager.table /\ old = manager.table[h]
          BY <4>2 DEF Replaced, FlowOf
        <5>2. Reported(old)
          BY <4>2, <5>1, KnownIsReported DEF TableInv, Open, Closed
        <5>3. old.id \in Entries(r0)
          BY <2>3, <3>2, <4>2, <5>1, <5>2
        <5>4. GoneBefore(manager, p, config.common) \subseteq manager.gone \cup {old.id}
          BY DEF GoneBefore, WithGone
        <5>. QED
          BY <2>3, <4>1, <5>3, <5>4
      <4>3. CASE ~(Replaced(p) /\ WellKnown(old))
        <5>1. GoneBefore(manager, p, config.common) = manager.gone
          BY <4>3 DEF GoneBefore, WithGone, Replaced
        <5>. QED
          BY <2>3, <4>1, <5>1
      <4>. QED
        BY <4>2, <4>3
    <3>. QED
      BY <3>1, <3>2
  <2>6. IF f.classified THEN g.id \in Entries(r1) ELSE g.id \notin Entries(r1)
    <3>1. CASE Fresh(manager, p, config.common)
      BY <2>1, <2>4, <2>5, <3>1 DEF FlowStep
    <3>2. CASE ~Fresh(manager, p, config.common)
      <4>1. h \in DOMAIN manager.table /\ f = manager.table[h] /\ g.id = f.id /\ ~Replaced(p)
        BY <2>1, <3>2 DEF FlowStep, Replaced
      <4>. QED
        BY <2>2, <2>3, <4>1
    <3>. QED
      BY <3>1, <3>2
  <2>. HIDE DEF r1new, old
  <2>. PICK id : id = g.id
    OBVIOUS
  <2>7. /\ Distinct(r2) /\ Entries(r1) \subseteq Entries(r2)
        /\ Entries(r2) \subseteq Entries(r1) \cup {id}
        /\ IF g.classified THEN id \in Entries(r2) ELSE id \notin Entries(r2)
    <3>1. CASE g.classified /\ ~f.classified
      <4>1. r2 = Append(r1, id) /\ id \notin Entries(r1)
        BY <2>2, <2>6, <3>1
      <4>. QED
        BY <2>5, <3>1, <4>1, AppendDistinct
    <3>2. CASE ~(g.classified /\ ~f.classified)
      <4>1. r2 = r1 /\ (g.classified <=> f.classified)
        BY <2>1, <2>2, <3>2 DEF FlowStep
      <4>. QED
        BY <2>5, <2>6, <4>1
    <3>. QED
      BY <3>1, <3>2
  <2>8. /\ Distinct(r3) /\ Entries(r2) \subseteq Entries(r3)
        /\ Entries(r3) \subseteq Entries(r2) \cup {id}
        /\ (g.state \notin Closed => Entries(r3) = Entries(r2))
        /\ (g.state = "FINISHED" /\ Reported(g) => id \in Entries(r3))
    <3>1. CASE g.state = "FINISHED" /\ Reported(g) /\ ~g.classified
      <4>1. r3 = Append(r2, id) /\ id \notin Entries(r2)
        BY <2>2, <2>7, <3>1
      <4>. QED
        BY <2>7, <3>1, <4>1, AppendDistinct DEF Closed
    <3>2. CASE ~(g.state = "FINISHED" /\ Reported(g) /\ ~g.classified)
      BY <2>2, <2>7, <3>2
    <3>. QED
      BY <3>1, <3>2
  <2>9. Entries(r3) \subseteq 1 .. manager'.made
    <3>1. 1 .. manager.made \subseteq 1 .. manager'.made
      BY <2>4
    <3>. QED
      BY <2>4, <2>5, <2>7, <2>8, <3>1
  <2>10. ASSUME NEW k \in DOMAIN manager'.table
         PROVE  manager'.table[k].classified <=> manager'.table[k].id \in Entries(r3)
    <3>1. CASE k # h
      <4>1. k \in DOMAIN manager.table /\ manager'.table[k] = manager.table[k]
        BY <2>1, <3>1 DEF PacketStep, With, Without
      <4>2. Replaced(p) => manager.table[k].id # old.id
        BY <3>1, <4>1 DEF Replaced, TableInv, FlowOf, old
      <4>3. manager.table[k].id # id
        <5>1. CASE Fresh(manager, p, config.common)
          BY <2>1, <2>4, <4>1, <5>1 DEF FlowStep, TableInv, Open
        <5>2. CASE ~Fresh(manager, p, config.common)
          BY <2>1, <3>1, <4>1, <5>2 DEF FlowStep, TableInv
        <5>. QED
          BY <5>1, <5>2
      <4>4. manager.table[k].id \in Entries(r3) <=> manager.table[k].id \in Entries(r0)
        BY <2>5, <2>7, <2>8, <4>2, <4>3 DEF r1new
      <4>. QED
        BY <2>3, <4>1, <4>4
    <3>2. CASE k = h
      <4>1. manager'.table[k] = g /\ g.state \notin Closed
        BY <2>1, <3>2 DEF PacketStep, With, Without
      <4>. QED
        BY <2>7, <2>8, <4>1
    <3>. QED
      BY <3>1, <3>2
  <2>11. manager'.gone \subseteq Entries(r3)
    <3>1. GoneBefore(manager, p, config.common) \subseteq Entries(r3)
      BY <2>5, <2>7, <2>8
    <3>2. CASE g.state \in Closed /\ WellKnown(g)
      <4>1. g.state = "FINISHED" /\ g.pktCount \in Nat /\ g.overallPktCount \in Nat
        <5>1. f.state \notin Closed
          <6>1. CASE Fresh(manager, p, config.common)
            BY <2>1, <6>1 DEF FlowStep, Closed
          <6>2. CASE ~Fresh(manager, p, config.common)
            BY <2>1, <6>2 DEF FlowStep, TableInv, Open
          <6>. QED
            BY <6>1, <6>2
        <5>. QED
          BY <2>1, <2>4, <3>2, <5>1 DEF FlowStep, Closed
      <4>2. Reported(g)
        BY <3>2, <4>1, KnownIsReported
      <4>3. id \in Entries(r3)
        BY <2>8, <4>1, <4>2
      <4>. QED
        BY <2>1, <3>1, <4>3 DEF PacketStep, GoneAfter, WithGone
    <3>3. CASE ~(g.state \in Closed /\ WellKnown(g))
      BY <2>1, <3>1, <3>3 DEF PacketStep, GoneAfter, WithGone
    <3>. QED
      BY <3>2, <3>3
  <2>. QED
    BY <2>8, <2>9, <2>10, <2>11 DEF ResultsInv, r3
<1>7. ASSUME NEW h, Finish(h) PROVE ResultsInv'
  <2>0. run' = run
    BY <1>7 DEF Finish, settings
  <2>. SUFFICES ASSUME run.program = "pcap_classifier" PROVE ResultsInv'
    BY <2>0 DEF ResultsInv
  <2>. PICK f : f = manager.table[h]
    OBVIOUS
  <2>. PICK call : call = FinishedCall(f)
    OBVIOUS
  <2>1. /\ h \in DOMAIN manager.table /\ manager'.made = manager.made
        /\ manager'.table = Without(manager.table, h)
        /\ manager'.gone = WithGone(manager.gone, f)
        /\ Becomes(Told(Memory, Reported(f), call))
    BY <1>7, FinishIs
  <2>2. IsMemory(Memory) /\ Memory.history = history
    BY DEF IsMemory, Memory, Shape
  <2>3. history'.results = IF Line(Reported(f), call) THEN Append(history.results, call.flow.id)
                           ELSE history.results
    BY <2>1, <2>2, LogIs DEF Becomes
  <2>4. call.kind = "finished" /\ call.flow = f
    BY DEF FinishedCall
  <2>5. /\ Distinct(history'.results) /\ Entries(history.results) \subseteq Entries(history'.results)
        /\ Entries(history'.results) \subseteq Entries(history.results) \cup {f.id}
        /\ (Reported(f) => f.id \in Entries(history'.results))
    <3>1. CASE Line(Reported(f), call)
      <4>. PICK id : id = f.id
        OBVIOUS
      <4>1. history'.results = Append(history.results, id) /\ ~f.classified
        BY <2>3, <2>4, <3>1 DEF Line
      <4>2. id \notin Entries(history.results) /\ Distinct(history.results)
        BY <2>1, <4>1 DEF ResultsInv
      <4>. QED
        BY <4>1, <4>2, AppendDistinct
    <3>2. CASE ~Line(Reported(f), call)
      <4>1. history'.results = history.results /\ (Reported(f) => f.classified)
        BY <2>3, <2>4, <3>2 DEF Line
      <4>. QED
        BY <2>1, <4>1 DEF ResultsInv
    <3>. QED
      BY <3>1, <3>2
  <2>6. \A k \in DOMAIN manager'.table :
          /\ k \in DOMAIN manager.table /\ manager'.table[k] = manager.table[k]
          /\ manager.table[k].id # f.id
    BY <2>1 DEF Without, TableInv
  <2>7. manager'.gone \subseteq Entries(history'.results)
    <3>1. WellKnown(f) => Reported(f)
      BY <2>1, KnownIsReported DEF TableInv, Open, Closed
    <3>. QED
      BY <2>1, <2>5, <3>1 DEF ResultsInv, WithGone
  <2>. QED
    BY <2>1, <2>5, <2>6, <2>7 DEF ResultsInv, TableInv, Open
<1>8. CASE UNCHANGED vars
  <2>1. UNCHANGED <<manager, run>> /\ history'.results = history.results
    BY <1>8 DEF vars
  <2>. QED
    BY <1>2, <2>1
<1>. QED
  BY <1>1, <1>3, <1>4, <1>5, <1>6, <1>7, <1>8, Steps DEF Quiet, Preparation

(* pcap_classifier writes one line of results for each flow that was known *)
(* well enough when it left the table, none has two, and the flows in the  *)
(* table that have one are the classified ones.                            *)
THEOREM OneResult == Spec => []OneResultPerFlow
<1>1. Init => Shape /\ TableInv /\ ResultsInv
  BY ShapeInit, TableInit, ResultsInit
<1>2. Shape /\ TableInv /\ ResultsInv /\ [Next]_vars => Shape' /\ TableInv' /\ ResultsInv'
  BY ShapeKept, TableKept, ResultsKept
<1>3. ResultsInv => OneResultPerFlow
  BY DEF ResultsInv, OneResultPerFlow, Distinct, Entries, ToSet, FlowsInTable
<1>. QED
  BY <1>1, <1>2, <1>3, PTL DEF Spec

-------------------------------------------------------------------------------
(* Training                                                                *)

(* The meters are found by name, so it is the names that matter.           *)
LEMMA SameNames ==
  ASSUME NEW m, AnySeq(m.meters), NEW n, AnySeq(n.meters), Len(n.meters) = Len(m.meters),
         \A i \in DOMAIN m.meters : n.meters[i].name = m.meters[i].name, NEW name
  PROVE  FindMeter(n, name) = FindMeter(m, name)
<1>1. DOMAIN m.meters = 1 .. Len(m.meters)
  BY SeqIsAny DEF AnySeq
<1>2. {i \in 1 .. Len(n.meters) : n.meters[i].name = name}
        = {i \in 1 .. Len(m.meters) : m.meters[i].name = name}
  BY <1>1
<1>. QED
  BY <1>2 DEF FindMeter, SelectInSeq

(* The flow that was listed is in the list of the file.                    *)
LEMMA ListedIs ==
  ASSUME AnySeq(files[current].flows), NEW flow, Listed(flow) # 0
  PROVE  Listed(flow) \in DOMAIN files[current].flows
<1>. PICK flows : flows = files[current].flows
  OBVIOUS
<1>. DEFINE I == {i \in 1 .. Len(flows) :
                    Murmur(HashInput(flows[i].tuple)) = Murmur(HashInput(flow.tuple))}
<1>1. Listed(flow) = IF I # {} THEN Min(I) ELSE 0
  BY DEF Listed, SelectInSeq
<1>2. Len(flows) \in Nat /\ DOMAIN flows = 1 .. Len(flows)
  BY SeqIsAny DEF AnySeq
<1>3. I \subseteq DOMAIN flows /\ I \subseteq Nat
  BY <1>2
<1>. HIDE DEF I
<1>4. I # {}
  BY <1>1
<1>5. \E x \in I : \A y \in I : x <= y
  BY <1>3, <1>4, Least
<1>6. Min(I) \in I
  BY <1>5 DEF Min
<1>. QED
  BY <1>1, <1>3, <1>4, <1>6

(* A call trains a model if it reports the end of a flow in the list.      *)
Trains(made, call) ==
  run.program # "pcap_classifier" /\ made /\ call.kind = "finished" /\ Listed(call.flow) # 0
Note(flow, m) == [id |-> flow.id, tag |-> flow.tag, file |-> current, model |-> m]

(* A call that does not train changes no model.                            *)
LEMMA TrainIs ==
  ASSUME NEW s, IsMemory(s), NEW made, NEW call, ~Trains(made, call)
  PROVE  LET t == Told(s, made, call)
         IN  t.db = s.db /\ t.updated = s.updated /\ t.history.trained = s.history.trained
<1>1. LET t == LogResult(s, call)
      IN  t.db = s.db /\ t.updated = s.updated /\ t.history.trained = s.history.trained
  <2>. PICK r : r = Append(s.history.results, call.flow.id)
    OBVIOUS
  <2>. DEFINE h == [s.history EXCEPT !.results = r]
              t == [s EXCEPT !.history = h]
  <2>1. h.trained = s.history.trained
    BY DEF IsMemory, IsHistory
  <2>2. LogResult(s, call) = IF call.kind = "finished" /\ call.flow.classified THEN s ELSE t
    BY DEF LogResult
  <2>. HIDE DEF h
  <2>3. t.db = s.db /\ t.updated = s.updated /\ t.history = h
    BY DEF IsMemory
  <2>. QED
    BY <2>1, <2>2, <2>3
<1>2. CASE run.program = "pcap_classifier"
  BY <1>1, <1>2 DEF Told, Observe
<1>3. CASE run.program # "pcap_classifier"
  <2>1. Told(s, made, call) = s
    BY <1>3 DEF Told, Observe, Train, Trains
  <2>. QED
    BY <2>1
<1>. QED
  BY <1>2, <1>3

(* What it does then. *)
Trained(s, made, call) ==
  LET t == Told(s, made, call)
      m == TrainedModel(s.db, call.flow)
  IN  /\ t.db.models = [s.db.models EXCEPT ![m] = TrainModel(s.db.models[m], call.flow)]
      /\ t.updated \in BOOLEAN
      /\ t.updated <=> s.updated \/ HasMeterOf(s.db.models[m], call.flow)
      /\ t.history.trained = Append(s.history.trained, Note(call.flow, m))

(* A call that trains does so in one model, and is noted.                  *)
LEMMA TrainsIs ==
  ASSUME NEW s, IsMemory(s), NEW made, NEW call, Trains(made, call)
  PROVE  Trained(s, made, call)
<1>. PICK f : f = call.flow
  OBVIOUS
<1>. PICK m : m = TrainedModel(s.db, f)
  OBVIOUS
<1>. PICK models : models = [s.db.models EXCEPT ![m] = TrainModel(s.db.models[m], f)]
  OBVIOUS
<1>. PICK trained : trained = Append(s.history.trained, Note(f, m))
  OBVIOUS
<1>. DEFINE d == [s.db EXCEPT !.models = models]
            h == [s.history EXCEPT !.trained = trained]
            t == Told(s, made, call)
<1>1. d.models = models
  BY DEF IsMemory, IsDb
<1>2. h.trained = trained
  BY DEF IsMemory, IsHistory
<1>3. t = [db |-> d, updated |-> s.updated \/ HasMeterOf(s.db.models[m], f), history |-> h]
  BY DEF Trains, Told, Observe, Train, Note
<1>. HIDE DEF d, h, t
<1>4. /\ t.db = d /\ t.history = h /\ t.updated \in BOOLEAN
      /\ t.updated <=> s.updated \/ HasMeterOf(s.db.models[m], f)
  <2>. PICK u : u = (s.updated \/ HasMeterOf(s.db.models[m], f))
    OBVIOUS
  <2>1. t = [db |-> d, updated |-> u, history |-> h]
    BY <1>3
  <2>2. t.db = d /\ t.updated = u /\ t.history = h
    BY <2>1
  <2>3. t.updated \in BOOLEAN /\ (t.updated <=> s.updated \/ HasMeterOf(s.db.models[m], f))
    BY <2>2, Zenon
  <2>. QED
    BY <2>2, <2>3
<1>. QED
  BY <1>1, <1>2, <1>4 DEF t, Trained

TrainedIds(s) == {s[i].id : i \in DOMAIN s}
OwnFiles(s) ==
  /\ AnySeq(s) /\ \A i \in DOMAIN s : s[i].tag = s[i].file
  /\ \A i, j \in DOMAIN s : i # j => s[i].id # s[j].id

(* Noting a flow that was not noted, under its own file, keeps the notes   *)
(* in order.                                                               *)
LEMMA NoteDistinct ==
  ASSUME NEW s, OwnFiles(s), NEW f, f.id \notin TrainedIds(s), f.tag = current, NEW m
  PROVE  LET t == Append(s, Note(f, m))
         IN  OwnFiles(t) /\ TrainedIds(t) = TrainedIds(s) \cup {f.id}
<1>. PICK e : e = Note(f, m)
  OBVIOUS
<1>. PICK t : t = Append(s, e)
  OBVIOUS
<1>1. e.id = f.id /\ e.tag = e.file
  BY DEF Note
<1>2. AnySeq(s)
  BY DEF OwnFiles
<1>3. /\ AnySeq(t) /\ DOMAIN s = 1 .. Len(s) /\ Len(s) \in Nat /\ DOMAIN t = 1 .. Len(s) + 1
      /\ \A i \in DOMAIN s : t[i] = s[i]
      /\ t[Len(s) + 1] = e
  BY <1>2, AppendAny
<1>4. DOMAIN t = DOMAIN s \cup {Len(s) + 1} /\ Len(s) + 1 \notin DOMAIN s
  BY <1>3
<1>. QED
  BY <1>1, <1>3, <1>4 DEF OwnFiles, TrainedIds

(* A call that may report a flow is about one of the current file that was *)
(* not trained with: then only that flow is noted.                         *)
MayTrain(s, made, call) ==
  call.kind = "finished" /\ made =>
    call.flow.tag = current /\ call.flow.id \notin TrainedIds(s.history.trained)
Learned(s, made, call) ==
  LET t == Told(s, made, call)
  IN  /\ OwnFiles(t.history.trained)
      /\ TrainedIds(s.history.trained) \subseteq TrainedIds(t.history.trained)
      /\ TrainedIds(t.history.trained) \subseteq
           TrainedIds(s.history.trained)
             \cup (IF made /\ call.kind = "finished" THEN {call.flow.id} ELSE {})

(* So whatever is called, a flow is noted once, under its file.            *)
LEMMA LearnedIs ==
  ASSUME NEW s, IsMemory(s), OwnFiles(s.history.trained), NEW made, NEW call,
         MayTrain(s, made, call)
  PROVE  Learned(s, made, call)
<1>. PICK t : t = Told(s, made, call)
  OBVIOUS
<1>1. CASE Trains(made, call)
  <2>. PICK m : m = TrainedModel(s.db, call.flow)
    OBVIOUS
  <2>. PICK f : f = call.flow
    OBVIOUS
  <2>1. t.history.trained = Append(s.history.trained, Note(f, m))
    <3>1. Told(s, made, call).history.trained
            = Append(s.history.trained, Note(call.flow, TrainedModel(s.db, call.flow)))
      <4>1. Trained(s, made, call)
        BY <1>1, TrainsIs
      <4>. QED
        BY <4>1, Zenon DEF Trained
    <3>. QED
      BY <3>1
  <2>2. f.tag = current /\ f.id \notin TrainedIds(s.history.trained)
    BY <1>1 DEF Trains, MayTrain
  <2>. PICK old : old = s.history.trained
    OBVIOUS
  <2>3. LET new == Append(old, Note(f, m))
        IN  OwnFiles(new) /\ TrainedIds(new) = TrainedIds(old) \cup {f.id}
    BY <2>2, NoteDistinct
  <2>. QED
    BY <1>1, <2>1, <2>3 DEF Trains, Learned
<1>2. CASE ~Trains(made, call)
  <2>1. t.history.trained = s.history.trained
    BY <1>2, TrainIs
  <2>. QED
    BY <2>1 DEF Learned
<1>. QED
  BY <1>1, <1>2

(* A flow that was trained with has left the table.                        *)
TrainedInv ==
  /\ OwnFiles(history.trained) /\ TrainedIds(history.trained) \subseteq 1 .. manager.made
  /\ \A h \in DOMAIN manager.table : manager.table[h].id \notin TrainedIds(history.trained)

(* Nothing was trained at the start.                                       *)
LEMMA TrainedInit == Init => TrainedInv
BY EmptyIsAny DEF Init, TrainedInv, NewManager, NoHistory, OwnFiles, TrainedIds

(* A flow is reported as finished when it leaves the table, and then       *)
(* only.                                                                   *)
LEMMA TrainedKept == Shape /\ TableInv /\ TrainedInv /\ [Next]_vars => TrainedInv'
<1>. SUFFICES ASSUME Shape, TableInv, TrainedInv, [Next]_vars PROVE TrainedInv'
  OBVIOUS
<1>1. ASSUME NEW s \in Scenarios, Start(s) PROVE TrainedInv'
  BY <1>1, EmptyIsAny DEF Start, TrainedInv, NewManager, NoHistory, OwnFiles, TrainedIds
<1>2. ASSUME manager' = manager, history'.trained = history.trained
      PROVE  TrainedInv'
  BY <1>2 DEF TrainedInv
<1>3. CASE LoadConfig \/ ReadTrainingInput \/ Crash \/ Restore \/ NextFile \/ EndOfFiles
           \/ EndOfCapture \/ Finished
  BY <1>2, <1>3 DEF LoadConfig, ReadTrainingInput, Crash, Restore, NextFile, EndOfFiles,
                    EndOfCapture, Finished, memory
<1>4. CASE ReadDatabase
  <2>1. manager' = manager /\ history'.trained = history.trained
    BY <1>4 DEF ReadDatabase, Shape, IsHistory
  <2>. QED
    BY <1>2, <2>1
<1>5. CASE Save
  <2>1. manager' = manager
    BY <1>5 DEF Save, Rename, RenameFails, OpenDatabase, OpenFails, WriteDatabase, WriteFails,
                OpenNew, WriteNew, memory
  <2>2. history'.trained = history.trained
    BY <1>5 DEF Save, Rename, RenameFails, OpenDatabase, OpenFails, WriteDatabase, WriteFails,
                OpenNew, WriteNew, memory, Saved, Shape, IsHistory
  <2>. QED
    BY <1>2, <2>1, <2>2
<1>7. ASSUME NEW shape, HandlePacket(shape) PROVE TrainedInv'
  <2>0. pc = "packets"
    BY <1>7 DEF HandlePacket
  <2>1. PICK p, f, g : PacketStep(p, f, g) /\ FlowStep(p, f, g)
    BY <1>7, FlowStepIs
  <2>. DEFINE h == Hash(p)
              old == FlowOf(manager, p)
              r0 == history.trained
              r1 == HeardOld(p).history.trained
              r2 == HeardNew(p, f, g).history.trained
              r3 == history'.trained
              Gone == IF Replaced(p) THEN {old.id} ELSE {}
  <2>2. IsMemory(Memory) /\ Memory.history = history
    BY DEF IsMemory, Memory, Shape
  <2>3. IsMemory(HeardOld(p)) /\ IsMemory(HeardNew(p, f, g))
    BY <2>2, ToldIs DEF HeardOld, HeardNew
  <2>4. OwnFiles(r0) /\ TrainedIds(r0) \subseteq 1 .. manager.made
    BY DEF TrainedInv
  <2>5. manager.made \in Nat /\ manager'.made \in Nat /\ manager.made <= manager'.made
        /\ g.id \in 1 .. manager'.made /\ g.tag = current
    <3>1. manager.made \in Nat
      BY DEF Shape, IsManager
    <3>2. CASE Fresh(manager, p, config.common)
      BY <2>1, <3>1, <3>2 DEF PacketStep, FlowStep
    <3>3. CASE ~Fresh(manager, p, config.common)
      BY <2>0, <2>1, <3>1, <3>3 DEF PacketStep, FlowStep, TableInv, Open
    <3>. QED
      BY <3>2, <3>3
  <2>6. Replaced(p) => /\ h \in DOMAIN manager.table /\ old = manager.table[h] /\ old.tag = current
                       /\ old.id \in 1 .. manager.made /\ old.id \notin TrainedIds(r0)
    BY <2>0 DEF Replaced, FlowOf, TableInv, Open, TrainedInv
  <2>7. /\ OwnFiles(r1) /\ TrainedIds(r0) \subseteq TrainedIds(r1)
        /\ TrainedIds(r1) \subseteq TrainedIds(r0) \cup Gone
    <3>. PICK call, made : call = FinishedCall(old) /\ made = (Replaced(p) /\ Reported(old))
      OBVIOUS
    <3>1. call.kind = "finished" /\ call.flow = old /\ HeardOld(p) = Told(Memory, made, call)
      BY DEF FinishedCall, HeardOld
    <3>2. made => Replaced(p)
      OBVIOUS
    <3>. HIDE DEF old
    <3>3. MayTrain(Memory, made, call)
      BY <2>2, <2>6, <3>1, <3>2 DEF MayTrain
    <3>. PICK s : s = Memory
      OBVIOUS
    <3>4. Learned(s, made, call)
      BY <2>2, <2>4, <3>3, LearnedIs
    <3>. QED
      BY <2>2, <3>1, <3>2, <3>4 DEF Learned
  <2>8. g.id \notin TrainedIds(r1)
    <3>1. CASE Fresh(manager, p, config.common)
      <4>1. g.id = manager.made + 1
        BY <2>1, <3>1 DEF FlowStep
      <4>. HIDE DEF old, r1
      <4>. QED
        BY <2>4, <2>5, <2>6, <2>7, <4>1
    <3>2. CASE ~Fresh(manager, p, config.common)
      <4>1. h \in DOMAIN manager.table /\ f = manager.table[h] /\ g.id = f.id /\ ~Replaced(p)
        BY <2>1, <3>2 DEF FlowStep, Replaced
      <4>. HIDE DEF r1
      <4>. QED
        BY <2>7, <4>1 DEF TrainedInv
    <3>. QED
      BY <3>1, <3>2
  <2>9. r2 = r1
    <3>. PICK call, made : call = ClassifiedCall(g) /\ made = (g.classified /\ ~f.classified)
      OBVIOUS
    <3>1. ~Trains(made, call)
      BY DEF Trains, ClassifiedCall
    <3>2. HeardNew(p, f, g) = Told(HeardOld(p), made, call)
      BY DEF HeardNew
    <3>. QED
      BY <2>3, <3>1, <3>2, TrainIs
  <2>10. /\ OwnFiles(r3) /\ TrainedIds(r1) \subseteq TrainedIds(r3)
         /\ TrainedIds(r3) \subseteq TrainedIds(r1) \cup {g.id}
         /\ (g.state \notin Closed => TrainedIds(r3) \subseteq TrainedIds(r1))
    <3>. PICK call, made, s : /\ call = FinishedCall(g) /\ made = (g.state = "FINISHED" /\ Reported(g))
                              /\ s = HeardNew(p, f, g)
      OBVIOUS
    <3>1. call.kind = "finished" /\ call.flow = g /\ HeardLast(p, f, g) = Told(s, made, call)
      BY DEF FinishedCall, HeardLast
    <3>2. made => g.state \in Closed
      BY DEF Closed
    <3>3. IsMemory(s) /\ s.history.trained = r1 /\ OwnFiles(s.history.trained)
      BY <2>3, <2>7, <2>9
    <3>. HIDE DEF r1
    <3>4. Learned(s, made, call)
      <4>1. MayTrain(s, made, call)
        BY <2>5, <2>8, <3>1, <3>3 DEF MayTrain
      <4>. QED
        BY <3>3, <4>1, LearnedIs
    <3>5. r3 = HeardLast(p, f, g).history.trained
      BY <2>1 DEF PacketStep, Becomes
    <3>. QED
      BY <3>1, <3>2, <3>3, <3>4, <3>5 DEF Learned
  <2>. HIDE DEF r1, r2, r3
  <2>11. TrainedIds(r3) \subseteq 1 .. manager'.made
    <3>1. 1 .. manager.made \subseteq 1 .. manager'.made
      BY <2>5
    <3>. QED
      BY <2>4, <2>5, <2>6, <2>7, <2>10, <3>1
  <2>12. ASSUME NEW k \in DOMAIN manager'.table
         PROVE  manager'.table[k].id \notin TrainedIds(r3)
    <3>1. CASE k # h
      <4>1. k \in DOMAIN manager.table /\ manager'.table[k] = manager.table[k]
        BY <2>1, <3>1 DEF PacketStep, With, Without
      <4>2. Replaced(p) => manager.table[k].id # old.id
        BY <3>1, <4>1 DEF Replaced, TableInv, FlowOf
      <4>3. manager.table[k].id # g.id
        <5>1. CASE Fresh(manager, p, config.common)
          BY <2>1, <2>5, <4>1, <5>1 DEF FlowStep, TableInv, Open
        <5>2. CASE ~Fresh(manager, p, config.common)
          BY <2>1, <3>1, <4>1, <5>2 DEF FlowStep, TableInv
        <5>. QED
          BY <5>1, <5>2
      <4>4. manager.table[k].id \notin TrainedIds(r0)
        BY <4>1 DEF TrainedInv
      <4>. HIDE DEF old, r0
      <4>. QED
        BY <2>7, <2>10, <4>1, <4>2, <4>3, <4>4
    <3>2. CASE k = h
      <4>1. manager'.table[k] = g /\ g.state \notin Closed
        BY <2>1, <3>2 DEF PacketStep, With, Without
      <4>. QED
        BY <2>8, <2>10, <4>1
    <3>. QED
      BY <3>1, <3>2
  <2>. QED
    BY <2>10, <2>11, <2>12 DEF TrainedInv, r3
<1>8. ASSUME NEW h, Finish(h) PROVE TrainedInv'
  <2>. PICK f : f = manager.table[h]
    OBVIOUS
  <2>. PICK call, made, s : call = FinishedCall(f) /\ made = Reported(f) /\ s = Memory
    OBVIOUS
  <2>1. /\ h \in DOMAIN manager.table /\ manager'.made = manager.made
        /\ manager'.table = Without(manager.table, h)
        /\ Becomes(Told(s, made, call)) /\ pc = "finishing"
    BY <1>8, FinishIs DEF Finish
  <2>2. IsMemory(s) /\ s.history = history /\ OwnFiles(s.history.trained)
    BY DEF IsMemory, Memory, Shape, TrainedInv
  <2>3. call.kind = "finished" /\ call.flow = f
    BY DEF FinishedCall
  <2>4. f.tag = current /\ f.id \notin TrainedIds(s.history.trained) /\ f.id \in 1 .. manager.made
    BY <2>1, <2>2 DEF TableInv, TrainedInv, Open
  <2>5. Learned(s, made, call)
    <3>1. MayTrain(s, made, call)
      BY <2>3, <2>4 DEF MayTrain
    <3>. QED
      BY <2>2, <3>1, LearnedIs
  <2>6. /\ OwnFiles(history'.trained)
        /\ TrainedIds(history'.trained) \subseteq TrainedIds(history.trained) \cup {f.id}
    BY <2>1, <2>2, <2>3, <2>5 DEF Becomes, Learned
  <2>7. \A k \in DOMAIN manager'.table :
          /\ k \in DOMAIN manager.table /\ manager'.table[k] = manager.table[k]
          /\ manager.table[k].id # f.id
    BY <2>1 DEF Without, TableInv
  <2>. QED
    BY <2>1, <2>4, <2>6, <2>7 DEF TrainedInv
<1>9. CASE UNCHANGED vars
  <2>1. manager' = manager /\ history'.trained = history.trained
    BY <1>9 DEF vars
  <2>. QED
    BY <1>2, <2>1
<1>. QED
  BY <1>1, <1>3, <1>4, <1>5, <1>7, <1>8, <1>9, Steps DEF Quiet, Preparation

(* Training learns from a flow once, and as a flow of the file it is from. *)
THEOREM TrainedOnce == Spec => []TrainedUnderOwnFile
<1>1. Init => Shape /\ TableInv /\ TrainedInv
  BY ShapeInit, TableInit, TrainedInit
<1>2. Shape /\ TableInv /\ TrainedInv /\ [Next]_vars => Shape' /\ TableInv' /\ TrainedInv'
  BY ShapeKept, TableKept, TrainedKept
<1>3. TrainedInv => TrainedUnderOwnFile
  BY DEF TrainedInv, TrainedUnderOwnFile, OwnFiles
<1>. QED
  BY <1>1, <1>2, <1>3, PTL DEF Spec
===============================================================================
