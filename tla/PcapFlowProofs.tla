---------------------------- MODULE PcapFlowProofs ----------------------------
(***************************************************************************)
(* Theorems about the flows of the pcap programs: which connection a flow  *)
(* belongs to, when it is measured and classified, and where its meters    *)
(* count.                                                                  *)
(***************************************************************************)
EXTENDS TrainingProofs

-------------------------------------------------------------------------------
(* Connections *)

NatTuple == [srcIp : Nat, srcPort : Nat, dstIp : Nat, dstPort : Nat, protocol : {TCP, UDP}]

(* Both directions of a connection have one hash, whatever the numbers.    *)
LEMMA BothDirections ==
  ASSUME NEW t \in NatTuple
  PROVE  /\ Opposite(t) \in NatTuple /\ Opposite(Opposite(t)) = t
         /\ HashInput(Opposite(t)) = HashInput(t)
<1>1. Opposite(t) \in NatTuple /\ Opposite(Opposite(t)) = t
  BY DEF Opposite, NatTuple
<1>2. t.srcIp \in Nat /\ t.dstIp \in Nat /\ t.srcPort \in Nat /\ t.dstPort \in Nat
  BY DEF NatTuple
<1>3. CASE t.srcIp = t.dstIp /\ t.srcPort = t.dstPort
  <2>1. Opposite(t) = t
    BY <1>3 DEF Opposite, NatTuple
  <2>. QED
    BY <1>1, <2>1
<1>4. CASE ~(t.srcIp = t.dstIp /\ t.srcPort = t.dstPort)
  <2>1. /\ Opposite(t).srcIp = t.dstIp /\ Opposite(t).dstIp = t.srcIp
        /\ Opposite(t).srcPort = t.dstPort /\ Opposite(t).dstPort = t.srcPort
    BY DEF Opposite
  <2>2. HashInput(Opposite(t)) = HashInput(t)
    BY <1>1, <1>2, <1>4, <2>1 DEF HashInput
  <2>. QED
    BY <1>1, <2>2
<1>. QED
  BY <1>3, <1>4

(* A flow that met a packet from elsewhere did so since Murmur gave both   *)
(* connections one hash.                                                   *)
Collides(f) ==
  \E file \in DOMAIN run.captures : \E s \in run.captures[file].traffic :
    /\ ~SameFlow(s.tuple, f.tuple)
    /\ Murmur(HashInput(s.tuple)) = Murmur(HashInput(f.tuple))
ConnectionInv ==
  \A h \in DOMAIN manager.table :
    LET f == manager.table[h]
    IN  f.tuple \in NatTuple /\ (f.pktCount > 0 /\ f.direction = "UNKNOWN" => Collides(f))

(* There are no flows at the start.                                        *)
LEMMA ConnectionInit == Init => ConnectionInv
BY DEF Init, ConnectionInv, NewManager

(* Every step but those with packets leaves the flows that stay as they    *)
(* are.                                                                    *)
LEMMA TableStays ==
  ASSUME Shape, [Next]_vars
  PROVE  \/ DOMAIN manager'.table = {}
         \/ /\ run' = run
            /\ \A h \in DOMAIN manager'.table :
                 h \in DOMAIN manager.table /\ manager'.table[h] = manager.table[h]
         \/ /\ pc = "packets" /\ UNCHANGED <<pc, run, current, files, config, disk>>
            /\ \E shape \in Capture.traffic : HandlePacket(shape)
<1>1. ASSUME NEW s, Start(s) PROVE DOMAIN manager'.table = {}
  BY <1>1 DEF Start, NewManager
<1>2. ASSUME LoadConfig \/ ReadDatabase \/ ReadTrainingInput \/ Crash \/ Restore \/ NextFile
             \/ EndOfFiles \/ EndOfCapture \/ Finished \/ UNCHANGED vars
      PROVE  UNCHANGED <<manager, run>>
  BY <1>2 DEF LoadConfig, ReadDatabase, ReadTrainingInput, Crash, Restore, NextFile, EndOfFiles,
              EndOfCapture, Finished, vars, memory, settings
<1>3. ASSUME Save PROVE UNCHANGED <<manager, run>>
  BY <1>3 DEF Save, Rename, RenameFails, OpenDatabase, OpenFails, WriteDatabase, WriteFails,
              OpenNew, WriteNew, memory, settings
<1>4. ASSUME NEW shape, HandlePacket(shape)
      PROVE  UNCHANGED <<pc, run, current, files, config, disk>>
  BY <1>4 DEF HandlePacket, settings
<1>5. ASSUME NEW h, Finish(h)
      PROVE  run' = run /\ manager'.table = Without(manager.table, h)
  BY <1>5, FinishIs DEF Finish, settings
<1>. QED
  BY <1>1, <1>2, <1>3, <1>4, <1>5, Steps DEF Quiet, Preparation, Without

(* Every step keeps it.                                                    *)
LEMMA ConnectionKept == Shape /\ TableInv /\ ProgramInv /\ ConnectionInv /\ [Next]_vars => ConnectionInv'
<1>. SUFFICES ASSUME Shape, TableInv, ProgramInv, ConnectionInv, [Next]_vars PROVE ConnectionInv'
  OBVIOUS
<1>1. CASE DOMAIN manager'.table = {}
  BY <1>1 DEF ConnectionInv
<1>2. ASSUME run' = run,
             \A h \in DOMAIN manager'.table :
               h \in DOMAIN manager.table /\ manager'.table[h] = manager.table[h]
      PROVE  ConnectionInv'
  BY <1>2 DEF ConnectionInv, Collides
<1>3. ASSUME pc = "packets", UNCHANGED <<pc, run>>, NEW shape \in Capture.traffic, HandlePacket(shape)
      PROVE  ConnectionInv'
  <2>1. PICK p, f, g : /\ p = PacketFrom(shape, clock + shape.gap)
                       /\ PacketStep(p, f, g) /\ FlowStep(p, f, g)
    BY <1>3, FlowStepIs
  <2>. PICK t, name : t = p.tuple /\ name = files[current].name
    OBVIOUS
  <2>2. /\ t = shape.tuple /\ name \in DOMAIN run.captures /\ shape \in run.captures[name].traffic
    BY <1>3, <2>1 DEF PacketFrom, Capture, ProgramInv
  <2>3. t \in NatTuple
    <3>1. run \in Scenarios
      BY DEF ProgramInv
    <3>2. shape.tuple \in [srcIp : Nat, srcPort : Nat, dstIp : Nat, dstPort : Nat,
                           protocol : {TCP, UDP}]
      BY <2>2, <3>1, PcapAssumption
    <3>. QED
      BY <2>2, <3>2 DEF NatTuple
  <2>4. f.tuple \in NatTuple /\ Murmur(HashInput(f.tuple)) = Hash(p) /\ f.pktCount \in Nat
        /\ (f.pktCount > 0 /\ f.direction = "UNKNOWN" => Collides(f))
    <3>1. CASE Fresh(manager, p, config.common)
      BY <2>1, <2>3, <3>1 DEF FlowStep, Hash
    <3>2. CASE ~Fresh(manager, p, config.common)
      BY <2>1, <3>2 DEF FlowStep, ConnectionInv, TableInv, Open
    <3>. QED
      BY <3>1, <3>2
  <2>5. g.tuple = f.tuple
    BY <2>1 DEF FlowStep
  <2>6. ASSUME g.pktCount > 0, g.direction = "UNKNOWN" PROVE Collides(g)
    <3>1. CASE g.pktCount = f.pktCount /\ g.direction = f.direction
      BY <2>4, <2>5, <2>6, <3>1 DEF Collides
    <3>2. CASE g.direction = PacketDirection(f.tuple, t)
      <4>. PICK u : u = f.tuple
        OBVIOUS
      <4>1. t # u /\ t # Opposite(u)
        BY <2>6, <3>2 DEF PacketDirection
      <4>2. ~SameFlow(t, u)
        <5>1. u = Opposite(t) => t = Opposite(u)
          BY <2>3, BothDirections
        <5>. QED
          BY <4>1, <5>1 DEF SameFlow
      <4>3. Murmur(HashInput(t)) = Murmur(HashInput(u))
        BY <2>4 DEF Hash
      <4>. QED
        BY <2>2, <2>5, <4>2, <4>3 DEF Collides
    <3>. QED
      BY <2>1, <3>1, <3>2 DEF FlowStep
  <2>7. ASSUME NEW k \in DOMAIN manager'.table
        PROVE  \/ k \in DOMAIN manager.table /\ manager'.table[k] = manager.table[k]
               \/ manager'.table[k] = g
    BY <2>1 DEF PacketStep, With, Without
  <2>8. \A e : Collides(e) => Collides(e)'
    BY <1>3 DEF Collides
  <2>9. ASSUME NEW k \in DOMAIN manager'.table, NEW e, e = manager'.table[k]
        PROVE  e.tuple \in NatTuple /\ (e.pktCount > 0 /\ e.direction = "UNKNOWN" => Collides(e)')
    BY <2>4, <2>5, <2>6, <2>7, <2>8, <2>9 DEF ConnectionInv
  <2>. QED
    BY <2>9 DEF ConnectionInv, Collides
<1>. QED
  BY <1>1, <1>2, <1>3, TableStays

(* No connection has two flows, whichever way its packets go.              *)
THEOREM OneFlowEach == Spec => []OneFlowPerConnection
<1>1. Init => ConnectionInv
  BY ConnectionInit
<1>2. ProgramsInv /\ ConnectionInv /\ [Next]_vars => ConnectionInv'
  BY ConnectionKept DEF ProgramsInv
<1>3. ProgramsInv /\ ConnectionInv => OneFlowPerConnection
  <2>. SUFFICES ASSUME ProgramsInv, ConnectionInv PROVE OneFlowPerConnection
    OBVIOUS
  <2>1. ASSUME NEW h \in DOMAIN manager.table, NEW k \in DOMAIN manager.table,
               SameFlow(manager.table[h].tuple, manager.table[k].tuple)
        PROVE  manager.table[h] = manager.table[k]
    <3>. PICK t, u : t = manager.table[h].tuple /\ u = manager.table[k].tuple
      OBVIOUS
    <3>1. t \in NatTuple
      BY DEF ConnectionInv
    <3>2. HashInput(t) = HashInput(u)
      BY <2>1, <3>1, BothDirections DEF SameFlow
    <3>3. Murmur(HashInput(t)) = h /\ Murmur(HashInput(u)) = k
      BY DEF ProgramsInv, TableInv, Open
    <3>. QED
      BY <3>2, <3>3
  <2>2. ASSUME NEW h \in DOMAIN manager.table, manager.table[h].pktCount > 0,
               manager.table[h].direction = "UNKNOWN"
        PROVE  Collides(manager.table[h])
    BY <2>2 DEF ConnectionInv
  <2>. QED
    BY <2>1, <2>2 DEF OneFlowPerConnection, FlowsInTable, Collides
<1>. QED
  BY <1>1, <1>2, <1>3, ProgramsInductive, PTL DEF Spec

-------------------------------------------------------------------------------
(* Limits *)

Positive == Nat \ {0}

(* Of finitely or infinitely many places with numbers, one has the least   *)
(* number, and is the first that does.                                     *)
LEMMA Nearest ==
  ASSUME NEW S, S \subseteq Nat, S # {}, NEW v, \A k \in S : v[k] \in Nat
  PROVE  \E x \in S : \A y \in S : v[x] < v[y] \/ (v[x] = v[y] /\ x <= y)
<1>. DEFINE V == {v[k] : k \in S}
<1>1. PICK n \in V : \A y \in V : n <= y
  <2>1. V \subseteq Nat /\ V # {}
    OBVIOUS
  <2>. HIDE DEF V
  <2>. QED
    BY <2>1, Least
<1>. DEFINE T == {k \in S : v[k] = n}
<1>2. PICK x \in T : \A y \in T : x <= y
  <2>1. T \subseteq Nat /\ T # {}
    BY <1>1
  <2>. HIDE DEF T
  <2>. QED
    BY <2>1, Least
<1>3. x \in S /\ v[x] = n /\ n \in Nat
  BY <1>1, <1>2
<1>4. ASSUME NEW y \in S PROVE v[x] < v[y] \/ (v[x] = v[y] /\ x <= y)
  <2>1. n <= v[y] /\ v[y] \in Nat
    BY <1>1
  <2>2. CASE v[y] = n
    BY <1>2, <1>3, <2>2
  <2>3. CASE v[y] # n
    BY <1>3, <2>1, <2>3
  <2>. QED
    BY <2>2, <2>3
<1>. QED
  BY <1>3, <1>4

(* A function from 1 .. n is a sequence.                                   *)
LEMMA ListIsAny ==
  ASSUME NEW n \in Nat, NEW o, o = [i \in 1 .. n |-> o[i]]
  PROVE  AnySeq(o)
<1>. DEFINE S == {o[i] : i \in 1 .. n}
<1>1. o \in [1 .. n -> S]
  OBVIOUS
<1>. HIDE DEF S
<1>2. o \in Seq(S)
  BY <1>1, SeqDef
<1>. QED
  BY <1>2, SeqIsAny

(* A flow is compared with models of the database only.                    *)
LEMMA CandidatesAre ==
  ASSUME NEW f, NEW d, AnySeq(d.models), NEW common
  PROVE  LET order == Candidates(f, d, common)
         IN  AnySeq(order) /\ DOMAIN order \subseteq Nat /\ \A k \in DOMAIN order : order[k] \in DOMAIN d.models
<1>1. Len(d.models) \in Nat /\ DOMAIN d.models = 1 .. Len(d.models)
  BY SeqIsAny DEF AnySeq
<1>. PICK N : N = Len(d.models)
  OBVIOUS
<1>. DEFINE port == IF common.usePortHints THEN f.tuple.dstPort ELSE 0
            order == [i \in 1 .. SizeOf(d) |-> ModelAt(d, i - 1, port)]
            keep == {i \in DOMAIN order : order[i] # 0 /\ d.models[order[i]].enabled}
<1>2. \A name : Find(d, name) = 0 \/ Find(d, name) \in DOMAIN d.models
  BY DEF Find
<1>3. \A i \in 1 .. N : \A q : ModelAt(d, i - 1, q) = 0 \/ ModelAt(d, i - 1, q) \in DOMAIN d.models
  BY <1>1, <1>2 DEF ModelAt, SizeOf
<1>4. order = [i \in 1 .. N |-> order[i]] /\ \A i \in 1 .. N : order[i] = 0 \/ order[i] \in DOMAIN d.models
  BY <1>3 DEF SizeOf
<1>5. AnySeq(order)
  <2>1. order = [i \in 1 .. N |-> order[i]] /\ N \in Nat
    BY <1>1, <1>4
  <2>. HIDE DEF order
  <2>. QED
    BY <2>1, ListIsAny
<1>6. Candidates(f, d, common) = Subsequence(order, keep)
  BY DEF Candidates
<1>7. DOMAIN order = 1 .. N
  BY <1>4
<1>8. \A i \in keep : order[i] \in DOMAIN d.models
  BY <1>4, <1>7
<1>. HIDE DEF order, keep
<1>9. FromPlaces(Candidates(f, d, common), order, keep)
  BY <1>5, <1>6, SubsequenceIs
<1>10. \A q : AnySeq(q) => DOMAIN q \subseteq Nat
  BY SeqIsAny DEF AnySeq
<1>. QED
  BY <1>8, <1>9, <1>10 DEF FromPlaces

(* A divergence that decides is one of a model, and below the threshold;   *)
(* the nearest one that is remembered is never zero.                       *)
LEMMA ClassifiedIn ==
  ASSUME NEW f, IsFlow(f), f.classified \in BOOLEAN, f.pktCount \in Nat,
         f.bestDivergence \in Positive,
         NEW d, AnySeq(d.models), d.definingLimit \in Int,
         NEW common, common.divergenceThreshold \in Int,
         NEW div, \A m \in DOMAIN d.models : div[m] \in Nat
  PROVE  LET g == Classified(f, d, common, div)
         IN  /\ g.bestDivergence \in Positive
             /\ g.classified /\ ~f.classified =>
                  /\ f.pktCount >= d.definingLimit
                  /\ g.divergence \in 1 .. common.divergenceThreshold - 1
<1>. DEFINE order == Candidates(f, d, common)
            hits == {k \in DOMAIN order : /\ f.pktCount >= d.definingLimit
                                          /\ div[order[k]] > 0
                                          /\ div[order[k]] < common.divergenceThreshold}
            hit == CHOOSE k \in hits : \A j \in hits : k <= j
            passed == IF hits = {} THEN DOMAIN order ELSE 1 .. hit - 1
            nearer == {k \in passed : div[order[k]] > 0 /\ div[order[k]] < f.bestDivergence}
            best == CHOOSE k \in nearer : \A j \in nearer :
                      \/ div[order[k]] < div[order[j]]
                      \/ div[order[k]] = div[order[j]] /\ k <= j
            h == IF nearer = {} THEN f
                 ELSE [f EXCEPT !.bestDivergence = div[order[best]],
                                !.bestProtocol = d.models[order[best]].name]
            Took(x, y) == [h EXCEPT !.classified = TRUE, !.divergence = x, !.protocol = y]
<1>1. Classified(f, d, common, div)
        = IF hits # {} THEN Took(div[order[hit]], d.models[order[hit]].name)
          ELSE IF /\ common.useBestMatch /\ h.pktCount = d.definingLimit
                  /\ h.bestDivergence < common.divergenceThreshold
               THEN Took(h.bestDivergence, h.bestProtocol)
               ELSE h
  BY DEF Classified, Decided
<1>2. DOMAIN order \subseteq Nat /\ \A k \in DOMAIN order : order[k] \in DOMAIN d.models
  BY CandidatesAre
<1>. HIDE DEF order
<1>3. hits # {} => /\ hit \in hits /\ \A j \in hits : hit <= j
  <2>1. hits \subseteq Nat
    BY <1>2
  <2>. HIDE DEF hits
  <2>. QED
    BY <2>1, Least
<1>4. \A k \in DOMAIN order : div[order[k]] \in Nat
  BY <1>2
<1>5. hits # {} => /\ f.pktCount >= d.definingLimit
                   /\ div[order[hit]] \in 1 .. common.divergenceThreshold - 1
  <2>. HIDE DEF hit
  <2>. QED
    BY <1>3, <1>4
<1>6. passed \subseteq DOMAIN order
  <2>1. CASE hits = {}
    BY <2>1
  <2>2. CASE hits # {}
    <3>1. hit \in DOMAIN order
      BY <1>3, <2>2
    <3>2. DOMAIN order = 1 .. Len(order) /\ Len(order) \in Nat
      BY CandidatesAre, SeqIsAny DEF order, AnySeq
    <3>. HIDE DEF hit, hits
    <3>. QED
      BY <2>2, <3>1, <3>2
  <2>. QED
    BY <2>1, <2>2
<1>. HIDE DEF hits, hit, passed
<1>7. nearer # {} => div[order[best]] \in Positive
  <2>. DEFINE v == [k \in DOMAIN order |-> div[order[k]]]
  <2>. SUFFICES ASSUME nearer # {} PROVE div[order[best]] \in Positive
    OBVIOUS
  <2>1. nearer \subseteq DOMAIN order /\ nearer \subseteq Nat
    BY <1>2, <1>6
  <2>2. \A k \in nearer : v[k] = div[order[k]] /\ v[k] \in Nat /\ div[order[k]] > 0
    BY <1>4, <2>1
  <2>. HIDE DEF nearer, v
  <2>3. \E x \in nearer : \A y \in nearer : v[x] < v[y] \/ (v[x] = v[y] /\ x <= y)
    BY <2>1, <2>2, Nearest
  <2>4. \E x \in nearer : \A y \in nearer : \/ div[order[x]] < div[order[y]]
                                            \/ div[order[x]] = div[order[y]] /\ x <= y
    BY <2>2, <2>3
  <2>5. best \in nearer
    BY <2>4
  <2>6. div[order[best]] \in Nat
    BY <2>2, <2>5
  <2>. QED
    BY <2>2, <2>5, <2>6 DEF Positive
<1>. HIDE DEF nearer, best
<1>8. /\ IsFlow(h) /\ h.classified = f.classified /\ h.pktCount = f.pktCount
      /\ h.bestDivergence \in Positive
  BY <1>7 DEF IsFlow, FlowFields
<1>. HIDE DEF h
<1>9. \A x, y : Took(x, y).divergence = x /\ Took(x, y).bestDivergence = h.bestDivergence
  BY <1>8 DEF IsFlow, FlowFields
<1>. HIDE DEF Took
<1>10. CASE hits # {}
  <2>1. LET g == Classified(f, d, common, div)
        IN  g.bestDivergence = h.bestDivergence /\ g.divergence = div[order[hit]]
    BY <1>1, <1>9, <1>10
  <2>. QED
    BY <1>5, <1>8, <1>10, <2>1
<1>11. CASE hits = {} /\ common.useBestMatch /\ h.pktCount = d.definingLimit
            /\ h.bestDivergence < common.divergenceThreshold
  <2>1. LET g == Classified(f, d, common, div)
        IN  g.bestDivergence = h.bestDivergence /\ g.divergence = h.bestDivergence
    BY <1>1, <1>9, <1>11
  <2>. QED
    BY <1>8, <1>11, <2>1 DEF Positive
<1>12. CASE hits = {} /\ ~(common.useBestMatch /\ h.pktCount = d.definingLimit
                           /\ h.bestDivergence < common.divergenceThreshold)
  BY <1>1, <1>8, <1>12
<1>. QED
  BY <1>10, <1>11, <1>12

(* What LimitsRespected says of a flow before and after a packet.          *)
Within(f, g, d, common) ==
  /\ f.classified => g.classified /\ g.protocol = f.protocol /\ g.meters = f.meters
  /\ g.meters # f.meters => g.pktCount = f.pktCount + 1 /\ g.pktCount <= d.cutoffLimit
  /\ g.classified /\ ~f.classified =>
       /\ g.pktCount \in d.definingLimit .. d.cutoffLimit
       /\ g.divergence \in 1 .. common.divergenceThreshold - 1

(* addPacket is such a step: a packet is just counted when the flow is     *)
(* classified or beyond the cutoff limit.                                  *)
LEMMA AddPacketIn ==
  ASSUME NEW f, IsFlow(f), f.classified \in BOOLEAN, f.pktCount \in Nat,
         f.bestDivergence \in Positive,
         NEW d, AnySeq(d.models), d.definingLimit \in Int, d.cutoffLimit \in Int,
         NEW common, common.divergenceThreshold \in Int,
         NEW div, \A m \in DOMAIN d.models : div[m] \in Nat,
         NEW p, NEW junk
  PROVE  LET g == AddPacket(f, p, d, common, div, junk)
         IN  g.bestDivergence \in Positive /\ Within(f, g, d, common)
<1>. DEFINE a == Arrived(f, p)
            c == Counted(a, p)
            m == Measured(c, p, junk)
            k == Classified(m, d, common, div)
            Same(x, y) == /\ x.classified = y.classified /\ x.protocol = y.protocol
                          /\ x.bestDivergence = y.bestDivergence
<1>1. AddPacket(f, p, d, common, div, junk)
        = IF ~CountsAsData(f.state, p.kind) THEN a
          ELSE IF f.classified \/ c.pktCount > d.cutoffLimit THEN c
          ELSE IF common.learningMode THEN m ELSE k
  BY DEF AddPacket
<1>2. IsFlow(a) /\ Same(a, f) /\ a.meters = f.meters /\ a.pktCount = f.pktCount
  <2>1. /\ IsFlow(a)
        /\ \A x \in FlowFields \ {"overallPktCount", "state", "isFirstPacket", "firstSize"} :
             a[x] = f[x]
    BY ArrivedIs
  <2>. HIDE DEF a
  <2>. QED
    BY <2>1 DEF FlowFields
<1>. HIDE DEF a
<1>3. IsFlow(c) /\ Same(c, f) /\ c.meters = f.meters /\ c.pktCount = f.pktCount + 1
  <2>1. /\ IsFlow(c)
        /\ \A x \in FlowFields \ {"pktCount", "lastDirection", "direction",
                                  "lastPacketTimestamp"} : c[x] = a[x]
        /\ c.pktCount = a.pktCount + 1
    BY <1>2, CountedIs
  <2>. HIDE DEF c
  <2>. QED
    BY <1>2, <2>1 DEF FlowFields
<1>. HIDE DEF c
<1>4. IsFlow(m) /\ Same(m, f) /\ m.pktCount = f.pktCount + 1
  <2>1. IsFlow(m) /\ \A x \in FlowFields \ {"meters"} : m[x] = c[x]
    BY <1>3, MeasuredIs
  <2>. HIDE DEF m
  <2>. QED
    BY <1>3, <2>1 DEF FlowFields
<1>. HIDE DEF m
<1>5. /\ k.pktCount = m.pktCount /\ k.bestDivergence \in Positive /\ k.classified \in BOOLEAN
      /\ k.classified /\ ~m.classified =>
           m.pktCount >= d.definingLimit /\ k.divergence \in 1 .. common.divergenceThreshold - 1
  <2>1. m.classified \in BOOLEAN /\ m.pktCount \in Nat /\ m.bestDivergence \in Positive
    BY <1>4
  <2>2. \A x \in FlowFields \ {"classified", "divergence", "protocol",
                               "bestDivergence", "bestProtocol"} : k[x] = m[x]
    BY <1>4, <2>1, ClassifiedIs
  <2>3. k.classified \in BOOLEAN
    BY <1>4, <2>1, ClassifiedIs
  <2>4. /\ k.bestDivergence \in Positive
        /\ k.classified /\ ~m.classified =>
             m.pktCount >= d.definingLimit /\ k.divergence \in 1 .. common.divergenceThreshold - 1
    BY <1>4, <2>1, ClassifiedIn
  <2>. HIDE DEF k
  <2>. QED
    BY <2>2, <2>3, <2>4 DEF FlowFields
<1>. HIDE DEF k
<1>6. CASE ~CountsAsData(f.state, p.kind)
  BY <1>1, <1>2, <1>6 DEF Within
<1>7. CASE CountsAsData(f.state, p.kind) /\ (f.classified \/ c.pktCount > d.cutoffLimit)
  BY <1>1, <1>3, <1>7 DEF Within
<1>8. CASE CountsAsData(f.state, p.kind) /\ ~(f.classified \/ c.pktCount > d.cutoffLimit)
  <2>1. ~f.classified /\ f.pktCount + 1 <= d.cutoffLimit
    BY <1>3, <1>8
  <2>2. CASE common.learningMode
    BY <1>1, <1>4, <1>8, <2>1, <2>2 DEF Within
  <2>3. CASE ~common.learningMode
    <3>1. AddPacket(f, p, d, common, div, junk) = k
      BY <1>1, <1>8, <2>3
    <3>2. k.pktCount = f.pktCount + 1 /\ ~m.classified
      BY <1>4, <1>5, <2>1
    <3>3. Within(f, k, d, common)
      BY <1>4, <1>5, <2>1, <3>2 DEF Within
    <3>. QED
      BY <1>5, <3>1, <3>3
  <2>. QED
    BY <2>2, <2>3
<1>. QED
  BY <1>6, <1>7, <1>8

(* The threshold is a number, and what was nearest so far is another       *)
(* model's divergence than zero.                                           *)
NearestInv ==
  /\ config.common.divergenceThreshold \in Int
  /\ \A h \in DOMAIN manager.table : manager.table[h].bestDivergence \in Positive

(* Settings of both programs give the threshold as a number.               *)
LEMMA ThresholdIs ==
  ASSUME NEW s \in Scenarios
  PROVE  /\ TrainingConfig(s.config).common.divergenceThreshold \in Int
         /\ PcapClassifierConfig(s.config).common.divergenceThreshold \in Int
<1>1. Setting(s.config, "KLDivergenceThreshold", 0) \in Int
  BY PcapAssumption
<1>2. Setting(s.config, "KLDivergenceThreshold", 2) \in Int
  BY <1>1 DEF Setting
<1>. PICK file : file = s.config
  OBVIOUS
<1>. DEFINE common == [CommonConfig EXCEPT !.learningMode = TRUE,
                                           !.udpFlowTimeout = Setting(file, "UdpFlowTimeout", @)]
<1>3. CommonConfig.divergenceThreshold = 2 /\ "divergenceThreshold" \in DOMAIN CommonConfig
  BY DEF CommonConfig
<1>4. common.divergenceThreshold = 2
  BY <1>3
<1>5. ClassifierConfig(file, 0).divergenceThreshold = Setting(file, "KLDivergenceThreshold", 2)
  BY <1>3 DEF ClassifierConfig
<1>. HIDE DEF common
<1>6. TrainingConfig(file).common = common
  BY DEF TrainingConfig, common
<1>7. PcapClassifierConfig(file).common = ClassifierConfig(file, 0)
  BY DEF PcapClassifierConfig
<1>. QED
  BY <1>2, <1>4, <1>5, <1>6, <1>7

(* It holds before the first program starts.                               *)
LEMMA NearestInit == Init => NearestInv
<1>. SUFFICES ASSUME Init PROVE NearestInv
  OBVIOUS
<1>1. config.common.divergenceThreshold \in Int
  BY ThresholdIs DEF Init
<1>2. DOMAIN manager.table = {}
  BY DEF Init, NewManager
<1>. QED
  BY <1>1, <1>2 DEF NearestInv

(* Divergences are numbers, also those that are not computed.              *)
LEMMA DivergencesAre ==
  ASSUME NEW div \in Divergences
  PROVE  \A m \in DOMAIN db.models : div[m] \in Nat
<1>1. Divergence \subseteq Nat
  BY PcapAssumption DEF NoMatch
<1>2. CASE config.common.learningMode
  BY <1>2 DEF Divergences
<1>3. CASE ~config.common.learningMode
  <2>1. PICK d \in [Compared -> Divergence] :
          div = [m \in DOMAIN db.models |-> IF m \in Compared THEN d[m] ELSE 0]
    BY <1>3 DEF Divergences
  <2>. QED
    BY <1>1, <2>1
<1>. QED
  BY <1>2, <1>3

(* What handlePacket does to the flow of the packet.                       *)
LEMMA PacketWithin ==
  ASSUME ProgramsInv, NearestInv, NEW shape, HandlePacket(shape)
  PROVE  \E p, f, g : /\ PacketStep(p, f, g) /\ FlowStep(p, f, g)
                      /\ g.bestDivergence \in Positive /\ Within(f, g, db, config.common)
<1>1. PICK p, div, junk : div \in Divergences /\ PacketStep(p, Served(p), After(p, div, junk))
  BY HandlePacketIs DEF ProgramsInv
<1>. PICK f : f = Served(p)
  OBVIOUS
<1>. PICK g : g = After(p, div, junk)
  OBVIOUS
<1>2. IdleFlow(f) /\ FlowStep(p, f, g)
  BY <1>1, ServedStep DEF PacketStep
<1>3. f.pktCount \in Nat /\ f.bestDivergence \in Positive
  <2>1. CASE Fresh(manager, p, config.common)
    <3>. PICK en, id, tag : en = db.enabledAttributes /\ id = manager.made + 1 /\ tag = current
      OBVIOUS
    <3>1. f = NewFlow(p, en, id, tag)
      BY <2>1 DEF Served, FlowServed
    <3>2. f.pktCount = 0 /\ f.bestDivergence = NoMatch
      BY <3>1, NewFlowIs
    <3>. QED
      BY <3>2 DEF NoMatch, Positive
  <2>2. CASE ~Fresh(manager, p, config.common)
    BY <1>2, <2>2 DEF FlowStep, NearestInv, ProgramsInv, TableInv, Open
  <2>. QED
    BY <2>1, <2>2
<1>. PICK d, common : d = db /\ common = config.common
  OBVIOUS
<1>4. AnySeq(d.models) /\ d.definingLimit \in Int /\ d.cutoffLimit \in Int
  BY DEF ProgramsInv, LessonsInv, Learning, RightMemory, Memory, IsTypedDb, IsModels
<1>5. common.divergenceThreshold \in Int
  BY DEF NearestInv
<1>6. \A m \in DOMAIN d.models : div[m] \in Nat
  BY <1>1, DivergencesAre
<1>7. g = AddPacket(f, p, d, common, div, junk)
  BY DEF After
<1>8. g.bestDivergence \in Positive /\ Within(f, g, d, common)
  BY <1>2, <1>3, <1>4, <1>5, <1>6, <1>7, AddPacketIn DEF IdleFlow
<1>. QED
  BY <1>1, <1>2, <1>8

(* Every step but the start of a program leaves the threshold, and the     *)
(* start reads it from a configuration.                                    *)
LEMMA ThresholdKept ==
  ASSUME Shape, NearestInv, [Next]_vars
  PROVE  config'.common.divergenceThreshold \in Int
<1>1. ASSUME NEW s \in Scenarios, Start(s) PROVE config'.common.divergenceThreshold \in Int
  BY <1>1, ThresholdIs DEF Start
<1>2. CASE LoadConfig
  <2>. PICK x : x = DatabaseName
    OBVIOUS
  <2>1. config' = [config EXCEPT !.protocolDatabase = x]
    BY <1>2 DEF LoadConfig
  <2>2. config'.common = config.common
    BY <2>1 DEF Shape, IsConfig
  <2>. QED
    BY <2>2 DEF NearestInv
<1>3. ASSUME ReadDatabase \/ ReadTrainingInput \/ Crash \/ Restore \/ NextFile
             \/ EndOfFiles \/ EndOfCapture \/ Finished \/ UNCHANGED vars
      PROVE  config' = config
  BY <1>3 DEF ReadDatabase, ReadTrainingInput, Crash, Restore, NextFile, EndOfFiles,
              EndOfCapture, Finished, vars, memory, settings
<1>4. ASSUME Save PROVE config' = config
  BY <1>4 DEF Save, Rename, RenameFails, OpenDatabase, OpenFails, WriteDatabase, WriteFails,
              OpenNew, WriteNew, memory, settings
<1>5. ASSUME NEW shape, HandlePacket(shape) PROVE config' = config
  BY <1>5 DEF HandlePacket, settings
<1>6. ASSUME NEW h, Finish(h) PROVE config' = config
  BY <1>6 DEF Finish, settings
<1>. QED
  BY <1>1, <1>2, <1>3, <1>4, <1>5, <1>6, Steps DEF Quiet, Preparation, NearestInv

(* A flow that is in the table before and after a step is the same, or the *)
(* packet of the step went to it.                                          *)
LEMMA FlowBeforeAndAfter ==
  ASSUME ProgramsInv, NearestInv, [Next]_vars, NEW h \in DOMAIN manager'.table,
         NEW g, g = manager'.table[h]
  PROVE  /\ g.bestDivergence \in Positive
         /\ h \in DOMAIN manager.table /\ manager.table[h].id = g.id =>
              Within(manager.table[h], g, db, config.common)
<1>1. CASE h \in DOMAIN manager.table /\ g = manager.table[h]
  BY <1>1 DEF NearestInv, Within
<1>2. ASSUME NEW shape, HandlePacket(shape)
      PROVE  \/ h \in DOMAIN manager.table /\ g = manager.table[h]
             \/ /\ g.bestDivergence \in Positive
                /\ h \in DOMAIN manager.table /\ manager.table[h].id = g.id =>
                     Within(manager.table[h], g, db, config.common)
  <2>1. PICK p, e, k : /\ PacketStep(p, e, k) /\ FlowStep(p, e, k)
                       /\ k.bestDivergence \in Positive /\ Within(e, k, db, config.common)
    BY <1>2, PacketWithin
  <2>2. CASE h \in DOMAIN manager.table /\ g = manager.table[h]
    BY <2>2
  <2>3. CASE ~(h \in DOMAIN manager.table /\ g = manager.table[h])
    <3>1. h = Hash(p) /\ g = k
      BY <2>1, <2>3 DEF PacketStep, With, Without
    <3>2. ASSUME h \in DOMAIN manager.table, manager.table[h].id = g.id
          PROVE  e = manager.table[h]
      <4>1. CASE Fresh(manager, p, config.common)
        <5>1. g.id = manager.made + 1 /\ manager.made \in Nat
          BY <2>1, <3>1, <4>1 DEF FlowStep, ProgramsInv, Shape, IsManager
        <5>2. manager.table[h].id \in 1 .. manager.made
          BY <3>2 DEF ProgramsInv, TableInv, Open
        <5>. QED
          BY <3>2, <5>1, <5>2
      <4>2. CASE ~Fresh(manager, p, config.common)
        BY <2>1, <3>1, <4>2 DEF FlowStep
      <4>. QED
        BY <4>1, <4>2
    <3>. QED
      BY <2>1, <3>1, <3>2
  <2>. QED
    BY <2>2, <2>3
<1>. QED
  BY <1>1, <1>2, TableStays DEF ProgramsInv

(* Every step keeps it.                                                    *)
LEMMA NearestKept == ProgramsInv /\ NearestInv /\ [Next]_vars => NearestInv'
<1>. SUFFICES ASSUME ProgramsInv, NearestInv, [Next]_vars PROVE NearestInv'
  OBVIOUS
<1>1. config'.common.divergenceThreshold \in Int
  BY ThresholdKept DEF ProgramsInv
<1>2. \A h \in DOMAIN manager'.table : manager'.table[h].bestDivergence \in Positive
  BY FlowBeforeAndAfter
<1>. QED
  BY <1>1, <1>2 DEF NearestInv

(* Meters see no packet beyond the cutoff limit and none after the         *)
(* classification; a flow is classified between the limits, by a           *)
(* divergence below the threshold, and what it is classified as stays: for *)
(* all divergences, limits and thresholds.                                 *)
THEOREM LimitsAreRespected == Spec => LimitsRespected
<1>. DEFINE A == \A h \in DOMAIN manager.table \cap DOMAIN manager'.table :
                   LET f == manager.table[h]
                       g == manager'.table[h]
                   IN  f.id = g.id =>
                         /\ f.classified => /\ g.classified /\ g.protocol = f.protocol
                                            /\ g.meters = f.meters
                         /\ g.meters # f.meters => g.pktCount = f.pktCount + 1
                                                   /\ g.pktCount <= db.cutoffLimit
                         /\ g.classified /\ ~f.classified =>
                              /\ g.pktCount \in db.definingLimit .. db.cutoffLimit
                              /\ g.divergence \in 1 .. config.common.divergenceThreshold - 1
<1>1. Init => NearestInv
  BY NearestInit
<1>2. ProgramsInv /\ NearestInv /\ [Next]_vars => NearestInv'
  BY NearestKept
<1>3. ProgramsInv /\ NearestInv /\ [Next]_vars => [A]_vars
  <2>. SUFFICES ASSUME ProgramsInv, NearestInv, [Next]_vars,
                       NEW h \in DOMAIN manager.table, h \in DOMAIN manager'.table,
                       manager.table[h].id = manager'.table[h].id
                PROVE  Within(manager.table[h], manager'.table[h], db, config.common)
    BY DEF Within
  <2>. QED
    BY FlowBeforeAndAfter
<1>4. LimitsRespected <=> [][A]_vars
  BY DEF LimitsRespected
<1>. HIDE DEF A
<1>. QED
  BY <1>1, <1>2, <1>3, <1>4, ProgramsInductive, PTL DEF Spec

-------------------------------------------------------------------------------
(* Fingerprints *)

(* What a flow is counted with, and what a packet makes of the meters.     *)
Heading(c, f) ==
  c.pktCount = f.pktCount + 1 /\ c.direction \in {"ORIG_TO_DEST", "DEST_TO_ORIG", "UNKNOWN"}
Measures(meters, c, p, junk) ==
  [name \in DOMAIN meters |-> CalculateMeasurement(name, meters[name], c, p, junk)]

(* addPacket leaves the meters of a flow, or measures with them.           *)
LEMMA MetersAre ==
  ASSUME NEW f, IsFlow(f), f.classified \in BOOLEAN,
         NEW p, NEW d, NEW common, NEW div, NEW junk
  PROVE  LET g == AddPacket(f, p, d, common, div, junk)
         IN  \/ g.meters = f.meters /\ g.pktCount \in {f.pktCount, f.pktCount + 1}
             \/ /\ g.pktCount = f.pktCount + 1
                /\ \E c : Heading(c, f) /\ g.meters = Measures(f.meters, c, p, junk)
<1>. DEFINE a == Arrived(f, p)
            c == Counted(a, p)
            m == Measured(c, p, junk)
            k == Classified(m, d, common, div)
            g == AddPacket(f, p, d, common, div, junk)
<1>1. /\ IsFlow(a) /\ a.meters = f.meters /\ a.classified = f.classified
      /\ a.pktCount = f.pktCount
  <2>1. /\ IsFlow(a)
        /\ \A x \in FlowFields \ {"overallPktCount", "state", "isFirstPacket", "firstSize"} :
             a[x] = f[x]
    BY ArrivedIs
  <2>. HIDE DEF a
  <2>. QED
    BY <2>1 DEF FlowFields
<1>. HIDE DEF a
<1>2. /\ IsFlow(c) /\ c.meters = f.meters /\ c.classified = f.classified
      /\ Heading(c, f)
  <2>1. /\ IsFlow(c)
        /\ \A x \in FlowFields \ {"pktCount", "lastDirection", "direction",
                                  "lastPacketTimestamp"} : c[x] = a[x]
        /\ c.pktCount = a.pktCount + 1
        /\ c.direction = PacketDirection(a.tuple, p.tuple)
    BY <1>1, CountedIs
  <2>2. c.direction \in {"ORIG_TO_DEST", "DEST_TO_ORIG", "UNKNOWN"}
    BY <2>1 DEF PacketDirection
  <2>. HIDE DEF c
  <2>. QED
    BY <1>1, <2>1, <2>2 DEF FlowFields, Heading
<1>. HIDE DEF c
<1>3. IsFlow(m) /\ m.classified = f.classified /\ m.pktCount = c.pktCount
  BY <1>2, MeasuredIs DEF FlowFields
<1>4. m.meters = Measures(c.meters, c, p, junk)
  BY <1>2 DEF Measured, Measures, IsFlow, FlowFields
<1>. HIDE DEF m
<1>5. k.meters = m.meters /\ k.pktCount = m.pktCount
  BY <1>3, ClassifiedIs DEF FlowFields
<1>. HIDE DEF k
<1>6. c.pktCount = f.pktCount + 1
  BY <1>2 DEF Heading
<1>7. \A x : x \in {a, c} => x.meters = f.meters /\ x.pktCount \in {f.pktCount, f.pktCount + 1}
  BY <1>1, <1>2, <1>6
<1>8. \A x : x \in {m, k} => /\ x.pktCount = f.pktCount + 1
                           /\ x.meters = Measures(f.meters, c, p, junk)
  BY <1>2, <1>3, <1>4, <1>5, <1>6
<1>9. g \in {a, c, m, k}
  BY DEF AddPacket, a, c, m, k
<1>. HIDE DEF g
<1>10. g \in {a, c} \/ g \in {m, k}
  BY <1>9
<1>11. Heading(c, f)
  BY <1>2
<1>12. \/ g.meters = f.meters /\ g.pktCount \in {f.pktCount, f.pktCount + 1}
       \/ g.pktCount = f.pktCount + 1 /\ g.meters = Measures(f.meters, c, p, junk)
  BY <1>7, <1>8, <1>10
<1>. QED
  BY <1>11, <1>12 DEF g

(* Meters are those of the factory, and count within their arrays.         *)
Ranged(meters) ==
  \A name \in DOMAIN meters :
    name \in Registered /\ InArray(meters[name], Create(name).size)

BinsInv ==
  /\ db.enabledAttributes \subseteq Registered
  /\ \A h \in DOMAIN manager.table : Ranged(manager.table[h].meters)

(* There are no flows at the start.                                        *)
LEMMA BinsInit == Init => BinsInv
BY DEF Init, BinsInv, NewManager, UnreadDb

(* New meters are within their arrays, and measuring leaves them there.    *)
LEMMA RangedIs ==
  /\ \A enabled \in SUBSET Registered : Ranged(GetAllMeters(enabled))
  /\ \A meters, c, p, junk :
       Ranged(meters) /\ p.payload \in Seq(Byte) /\ junk \in Triple =>
         Ranged(Measures(meters, c, p, junk))
<1>. PICK q, w : q = [payload |-> << >>] /\ w = [i \in 1 .. 3 |-> 0]
  OBVIOUS
<1>1. q.payload \in Seq(Byte) /\ w \in Triple
  BY DEF Triple, Byte
<1>2. \A name \in Registered : InArray(Create(name), Create(name).size)
  BY <1>1, MetersStayInRange
<1>3. \A enabled \in SUBSET Registered : Ranged(GetAllMeters(enabled))
  BY <1>2 DEF Ranged, GetAllMeters
<1>4. ASSUME NEW meters, NEW c, NEW p, NEW junk,
             Ranged(meters), p.payload \in Seq(Byte), junk \in Triple
      PROVE  Ranged(Measures(meters, c, p, junk))
  <2>1. ASSUME NEW name \in DOMAIN meters
        PROVE  /\ name \in Registered
               /\ InArray(CalculateMeasurement(name, meters[name], c, p, junk), Create(name).size)
    BY <1>4, MetersStayInRange DEF Ranged
  <2>. QED
    BY <2>1 DEF Ranged, Measures
<1>. QED
  BY <1>3, <1>4

(* What _lastPacket may hold before it is written are three bytes.         *)
LEMMA UnwrittenAre == UnwrittenBytes \subseteq Triple
BY PcapAssumption DEF UnwrittenBytes, Triple

(* What a packet carries are bytes.                                        *)
LEMMA PayloadIs ==
  ASSUME ProgramInv, pc = "packets", NEW shape \in Capture.traffic, NEW now
  PROVE  PacketFrom(shape, now).payload \in Seq(Byte)
<1>. PICK name : name = files[current].name
  OBVIOUS
<1>1. run \in Scenarios /\ name \in DOMAIN run.captures /\ shape \in run.captures[name].traffic
  BY DEF ProgramInv, Capture
<1>2. shape.payload \in Seq(Byte)
  BY <1>1, PcapAssumption
<1>. QED
  BY <1>2 DEF PacketFrom

(* Reading is the only step after which other attributes are enabled, and  *)
(* it enables none that the factory does not know.                         *)
LEMMA AttributesKept ==
  ASSUME Shape, db.enabledAttributes \subseteq Registered, [Next]_vars
  PROVE  db'.enabledAttributes \subseteq Registered
<1>1. ASSUME NEW s, Start(s) PROVE db'.enabledAttributes \subseteq Registered
  BY <1>1 DEF Start, UnreadDb
<1>2. CASE ReadDatabase
  <2>1. \A content, now : ReadDb(content, now).enabledAttributes \subseteq Registered
    <3>1. \A node : Enables(node) \subseteq Registered
      BY Zenon DEF Enables
    <3>. QED
      BY <3>1 DEF ReadDb
  <2>. QED
    BY <1>2, <2>1 DEF ReadDatabase
<1>3. ASSUME LoadConfig \/ ReadTrainingInput \/ Crash \/ Restore \/ NextFile
             \/ EndOfFiles \/ EndOfCapture \/ Finished \/ UNCHANGED vars
      PROVE  db' = db
  BY <1>3 DEF LoadConfig, ReadTrainingInput, Crash, Restore, NextFile, EndOfFiles,
              EndOfCapture, Finished, vars, memory, settings
<1>4. ASSUME Save PROVE db' = db
  BY <1>4 DEF Save, Rename, RenameFails, OpenDatabase, OpenFails, WriteDatabase, WriteFails,
              OpenNew, WriteNew, memory, settings
<1>5. IsMemory(Memory) /\ Memory.db = db
  BY DEF IsMemory, Memory, Shape
<1>6. ASSUME NEW s, IsMemory(s), s.db.enabledAttributes = db.enabledAttributes, NEW made, NEW call
      PROVE  LET t == Told(s, made, call)
             IN  IsMemory(t) /\ t.db.enabledAttributes = db.enabledAttributes
  BY <1>6, ToldIs
<1>7. ASSUME NEW shape, HandlePacket(shape) PROVE db'.enabledAttributes = db.enabledAttributes
  <2>1. PICK p, f, g : PacketStep(p, f, g)
    BY <1>7, HandlePacketIs
  <2>2. HeardLast(p, f, g).db.enabledAttributes = db.enabledAttributes
    BY <1>5, <1>6 DEF HeardLast, HeardNew, HeardOld
  <2>. QED
    BY <2>1, <2>2 DEF PacketStep, Becomes
<1>8. ASSUME NEW h, Finish(h) PROVE db'.enabledAttributes = db.enabledAttributes
  <2>1. PICK made, call : Becomes(Told(Memory, made, call))
    BY <1>8, FinishIs
  <2>. QED
    BY <1>5, <1>6, <2>1 DEF Becomes
<1>. QED
  BY <1>1, <1>2, <1>3, <1>4, <1>7, <1>8, Steps DEF Quiet, Preparation

(* Every step keeps it.                                                    *)
LEMMA BinsKept == Shape /\ ProgramInv /\ BinsInv /\ [Next]_vars => BinsInv'
<1>. SUFFICES ASSUME Shape, ProgramInv, BinsInv, [Next]_vars PROVE BinsInv'
  OBVIOUS
<1>1. db'.enabledAttributes \subseteq Registered
  BY AttributesKept DEF BinsInv
<1>2. CASE DOMAIN manager'.table = {}
  BY <1>1, <1>2 DEF BinsInv
<1>3. ASSUME \A h \in DOMAIN manager'.table :
               h \in DOMAIN manager.table /\ manager'.table[h] = manager.table[h]
      PROVE  BinsInv'
  BY <1>1, <1>3 DEF BinsInv
<1>4. ASSUME pc = "packets", NEW shape \in Capture.traffic, HandlePacket(shape)
      PROVE  BinsInv'
  <2>1. PICK p, div, junk : /\ p = PacketFrom(shape, clock + shape.gap) /\ junk \in UnwrittenBytes
                            /\ PacketStep(p, Served(p), After(p, div, junk))
    BY <1>4, HandlePacketIs
  <2>. PICK f, g : f = Served(p) /\ g = After(p, div, junk)
    OBVIOUS
  <2>2. IdleFlow(f) /\ FlowStep(p, f, g)
    BY <2>1, ServedStep DEF PacketStep
  <2>3. p.payload \in Seq(Byte) /\ junk \in Triple
    BY <1>4, <2>1, PayloadIs, UnwrittenAre
  <2>4. Ranged(f.meters)
    <3>1. CASE Fresh(manager, p, config.common)
      <4>. PICK en, id, tag : en = db.enabledAttributes /\ id = manager.made + 1 /\ tag = current
        OBVIOUS
      <4>1. f = NewFlow(p, en, id, tag)
        BY <3>1 DEF Served, FlowServed
      <4>2. f.meters = GetAllMeters(en)
        BY <4>1, NewFlowIs
      <4>. QED
        BY <4>2, RangedIs DEF BinsInv
    <3>2. CASE ~Fresh(manager, p, config.common)
      BY <2>2, <3>2 DEF FlowStep, BinsInv
    <3>. QED
      BY <3>1, <3>2
  <2>5. Ranged(g.meters)
    <3>. PICK d, common : d = db /\ common = config.common
      OBVIOUS
    <3>1. g = AddPacket(f, p, d, common, div, junk)
      BY DEF After
    <3>2. g.meters = f.meters \/ \E c : g.meters = Measures(f.meters, c, p, junk)
      BY <2>2, <3>1, MetersAre DEF IdleFlow
    <3>. PICK meters : meters = f.meters
      OBVIOUS
    <3>3. \A c : Ranged(Measures(meters, c, p, junk))
      BY <2>3, <2>4, RangedIs
    <3>4. Ranged(meters)
      BY <2>4
    <3>. QED
      BY <3>2, <3>3, <3>4
  <2>6. ASSUME NEW k \in DOMAIN manager'.table
        PROVE  \/ k \in DOMAIN manager.table /\ manager'.table[k] = manager.table[k]
               \/ manager'.table[k] = g
    BY <2>1 DEF PacketStep, With, Without
  <2>. QED
    BY <1>1, <2>5, <2>6 DEF BinsInv
<1>. QED
  BY <1>2, <1>3, <1>4, TableStays

(* No flow counts outside of its fingerprints: for any captures, and       *)
(* whatever is in the bytes that are hashed before they are written.       *)
THEOREM BinsStayInRange == Spec => []BinsInRange
<1>1. Init => BinsInv
  BY BinsInit
<1>2. ProgramsInv /\ BinsInv /\ [Next]_vars => BinsInv'
  BY BinsKept DEF ProgramsInv
<1>3. BinsInv => BinsInRange
  <2>1. ASSUME BinsInv, NEW f \in FlowsInTable, NEW name \in DOMAIN f.meters
        PROVE  DOMAIN f.meters[name].fp \subseteq 0 .. f.meters[name].size - 1
    <3>1. InArray(f.meters[name], Create(name).size)
      BY <2>1 DEF BinsInv, Ranged, FlowsInTable
    <3>. QED
      BY <3>1 DEF InArray
  <2>. QED
    BY <2>1 DEF BinsInRange
<1>. QED
  BY <1>1, <1>2, <1>3, ProgramsInductive, PTL DEF Spec

-------------------------------------------------------------------------------
(* Probabilities *)

(* The meters of a flow add up, after its data packets.                    *)
Summed(meters, n) == \A name \in DOMAIN meters : name \in Registered /\ Adds(name, meters[name], n)

SumsInv ==
  /\ db.enabledAttributes \subseteq Registered
  /\ \A h \in DOMAIN manager.table :
       /\ manager.table[h].pktCount \in Nat
       /\ Summed(manager.table[h].meters, manager.table[h].pktCount)

(* There are no flows at the start.                                        *)
LEMMA SumsInit == Init => SumsInv
BY DEF Init, SumsInv, NewManager, UnreadDb

(* New meters add up, and measuring leaves it so.                          *)
LEMMA SummedIs ==
  /\ \A enabled \in SUBSET Registered : Summed(GetAllMeters(enabled), 0)
  /\ \A meters, n, f, c, p, junk :
       /\ Summed(meters, n) /\ n \in Nat /\ n = f.pktCount /\ Heading(c, f)
       /\ p.payload \in Seq(Byte) /\ junk \in Triple
       => Summed(Measures(meters, c, p, junk), n + 1)
<1>. PICK q, w, e : /\ q = [payload |-> << >>] /\ w = [i \in 1 .. 3 |-> 0]
                    /\ e = [pktCount |-> 1, direction |-> "UNKNOWN"]
  OBVIOUS
<1>1. /\ q.payload \in Seq(Byte) /\ w \in Triple /\ 0 \in Nat
      /\ e.pktCount \in Int /\ e.direction \in {"ORIG_TO_DEST", "DEST_TO_ORIG", "UNKNOWN"}
  BY DEF Triple, Byte
<1>2. \A name \in Registered : AddsAlways(name, e, q, w, 0)
  BY <1>1, MetersAddUp
<1>3. \A enabled \in SUBSET Registered : Summed(GetAllMeters(enabled), 0)
  BY <1>2 DEF Summed, GetAllMeters, AddsAlways
<1>4. ASSUME NEW meters, NEW n \in Nat, NEW f, NEW c, NEW p, NEW junk,
             Summed(meters, n), n = f.pktCount, Heading(c, f),
             p.payload \in Seq(Byte), junk \in Triple
      PROVE  Summed(Measures(meters, c, p, junk), n + 1)
  <2>1. c.pktCount \in Int /\ c.direction \in {"ORIG_TO_DEST", "DEST_TO_ORIG", "UNKNOWN"}
    BY <1>4 DEF Heading
  <2>2. ASSUME NEW name \in DOMAIN meters
        PROVE  /\ name \in Registered
               /\ Adds(name, CalculateMeasurement(name, meters[name], c, p, junk), n + 1)
    <3>1. name \in Registered /\ Adds(name, meters[name], n)
      BY <1>4 DEF Summed
    <3>2. AddsAlways(name, c, p, junk, n)
      BY <1>4, <2>1, <3>1, MetersAddUp
    <3>. QED
      BY <3>1, <3>2 DEF AddsAlways
  <2>. QED
    BY <2>2 DEF Summed, Measures
<1>. QED
  BY <1>3, <1>4

(* One more packet that is not measured lets nothing lag more.             *)
LEMMA SummedStays ==
  ASSUME NEW meters, NEW n \in Nat, Summed(meters, n)
  PROVE  Summed(meters, n + 1)
<1>1. \A m : Lags(m, n) => Lags(m, n + 1)
  <2>1. \A e \in Int : e <= 2 * n => e <= 2 * (n + 1)
    OBVIOUS
  <2>2. \A m, x : Summable(m, 2) /\ x \in Int => m.total - x \in Int
    BY DEF Summable
  <2>. QED
    BY <2>1, <2>2 DEF Lags
<1>2. \A name, m : Adds(name, m, n) => Adds(name, m, n + 1)
  BY <1>1 DEF Adds
<1>. QED
  BY <1>2 DEF Summed

(* Every step keeps it.                                                    *)
LEMMA SumsKept == Shape /\ ProgramInv /\ SumsInv /\ [Next]_vars => SumsInv'
<1>. SUFFICES ASSUME Shape, ProgramInv, SumsInv, [Next]_vars PROVE SumsInv'
  OBVIOUS
<1>1. db'.enabledAttributes \subseteq Registered
  BY AttributesKept DEF SumsInv
<1>2. CASE DOMAIN manager'.table = {}
  BY <1>1, <1>2 DEF SumsInv
<1>3. ASSUME \A h \in DOMAIN manager'.table :
               h \in DOMAIN manager.table /\ manager'.table[h] = manager.table[h]
      PROVE  SumsInv'
  BY <1>1, <1>3 DEF SumsInv
<1>4. ASSUME pc = "packets", NEW shape \in Capture.traffic, HandlePacket(shape)
      PROVE  SumsInv'
  <2>1. PICK p, div, junk : /\ p = PacketFrom(shape, clock + shape.gap) /\ junk \in UnwrittenBytes
                            /\ PacketStep(p, Served(p), After(p, div, junk))
    BY <1>4, HandlePacketIs
  <2>. PICK f, g : f = Served(p) /\ g = After(p, div, junk)
    OBVIOUS
  <2>2. IdleFlow(f) /\ FlowStep(p, f, g)
    BY <2>1, ServedStep DEF PacketStep
  <2>3. p.payload \in Seq(Byte) /\ junk \in Triple
    BY <1>4, <2>1, PayloadIs, UnwrittenAre
  <2>4. f.pktCount \in Nat /\ Summed(f.meters, f.pktCount)
    <3>1. CASE Fresh(manager, p, config.common)
      <4>. PICK en, id, tag : en = db.enabledAttributes /\ id = manager.made + 1 /\ tag = current
        OBVIOUS
      <4>1. f = NewFlow(p, en, id, tag)
        BY <3>1 DEF Served, FlowServed
      <4>2. f.meters = GetAllMeters(en) /\ f.pktCount = 0
        BY <4>1, NewFlowIs
      <4>. QED
        BY <4>2, SummedIs DEF SumsInv
    <3>2. CASE ~Fresh(manager, p, config.common)
      BY <2>2, <3>2 DEF FlowStep, SumsInv
    <3>. QED
      BY <3>1, <3>2
  <2>5. g.pktCount \in Nat /\ Summed(g.meters, g.pktCount)
    <3>. PICK d, common : d = db /\ common = config.common
      OBVIOUS
    <3>1. g = AddPacket(f, p, d, common, div, junk)
      BY DEF After
    <3>. PICK n, meters : n = f.pktCount /\ meters = f.meters
      OBVIOUS
    <3>2. \/ g.meters = meters /\ g.pktCount \in {n, n + 1}
          \/ /\ g.pktCount = n + 1
             /\ \E c : Heading(c, f) /\ g.meters = Measures(meters, c, p, junk)
      BY <2>2, <3>1, MetersAre DEF IdleFlow
    <3>3. n \in Nat /\ n + 1 \in Nat /\ Summed(meters, n)
      BY <2>4
    <3>4. Summed(meters, n + 1)
      BY <3>3, SummedStays
    <3>5. \A c : Heading(c, f) => Summed(Measures(meters, c, p, junk), n + 1)
      BY <2>3, <3>3, SummedIs
    <3>. QED
      BY <3>2, <3>3, <3>4, <3>5
  <2>6. ASSUME NEW k \in DOMAIN manager'.table
        PROVE  \/ k \in DOMAIN manager.table /\ manager'.table[k] = manager.table[k]
               \/ manager'.table[k] = g
    BY <2>1 DEF PacketStep, With, Without
  <2>. QED
    BY <1>1, <2>5, <2>6 DEF SumsInv
<1>. QED
  BY <1>2, <1>3, <1>4, TableStays

(* What adds up has the sum that Mass computes.                            *)
LEMMA MassInArray ==
  ASSUME NEW m, NEW size \in Nat, Summable(m, size)
  PROVE  \A x : IsMass(x, m.fp, size) => Mass(m) = x
<1>1. Numbers(m.fp) /\ m.size = size /\ DOMAIN m.fp \subseteq 0 .. size - 1
  BY DEF Summable, InArray
<1>2. IsMass(Mass(m), m.fp, size)
  BY <1>1, MassIs
<1>. QED
  BY <1>1, <1>2, OneMass

LEMMA AddsEnough ==
  ASSUME NEW name \in Registered, NEW n \in Nat, NEW m, Adds(name, m, n)
  PROVE  /\ name \notin SumDiffers => Mass(m) = m.total
         /\ name \in DirectionSums => m.total - Mass(m) \in 0 .. 2 * n
<1>1. \A size \in Nat : AddsUp(m, size) => Mass(m) = m.total
  BY MassInArray DEF AddsUp
<1>2. ASSUME name \notin SumDiffers PROVE Mass(m) = m.total
  <2>1. \E size \in {2, 115, 256} : AddsUp(m, size)
    BY <1>2 DEF Adds, SumDiffers, Registered, ByteSums, PairSums
  <2>2. {2, 115, 256} \subseteq Nat
    OBVIOUS
  <2>. QED
    BY <1>1, <2>1, <2>2
<1>3. ASSUME Lags(m, n) PROVE m.total - Mass(m) \in 0 .. 2 * n
  <2>1. PICK x \in Int : IsMass(x, m.fp, 2) /\ 0 <= m.total - x /\ m.total - x <= 2 * n
    BY <1>3 DEF Lags
  <2>2. Mass(m) = x
    BY <1>3, <2>1, MassInArray DEF Lags
  <2>3. m.total - x \in Int
    BY <1>3, <2>1 DEF Lags, Summable
  <2>. QED
    BY <2>1, <2>2, <2>3
<1>. QED
  BY <1>2, <1>3 DEF Adds

(* The probabilities in every fingerprint that a flow measures add up to   *)
(* one, for any captures; where they do not, the byte counts of the        *)
(* directions have lost two bytes a packet at the most.                    *)
THEOREM SumsAreKept == Spec => []ProbabilitiesAddUp
<1>1. Init => SumsInv
  BY SumsInit
<1>2. ProgramsInv /\ SumsInv /\ [Next]_vars => SumsInv'
  BY SumsKept DEF ProgramsInv
<1>3. SumsInv => ProbabilitiesAddUp
  <2>1. ASSUME SumsInv, NEW f \in FlowsInTable, NEW name \in DOMAIN f.meters
        PROVE  /\ name \notin SumDiffers => Mass(f.meters[name]) = f.meters[name].total
               /\ name \in DirectionSums =>
                    f.meters[name].total - Mass(f.meters[name]) \in 0 .. 2 * f.pktCount
    <3>. PICK n, m : n = f.pktCount /\ m = f.meters[name]
      OBVIOUS
    <3>1. n \in Nat /\ name \in Registered /\ Adds(name, m, n)
      BY <2>1 DEF SumsInv, Summed, FlowsInTable
    <3>. QED
      BY <3>1, AddsEnough
  <2>. QED
    BY <2>1 DEF ProbabilitiesAddUp, DirectionSums
<1>. QED
  BY <1>1, <1>2, <1>3, ProgramsInductive, PTL DEF Spec
===============================================================================
