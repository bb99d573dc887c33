--------------------------------- MODULE Flows ----------------------------------
(***************************************************************************)
(* One flow, as a value: what Flow::Flow and Flow::addPacket do when only  *)
(* one thread uses the flow.  FlowManager has the same calls with threads  *)
(* between them, and there the data are left out; here they are all there: *)
(* directions, meters, limits and the classification.                      *)
(*                                                                         *)
(* A packet is [tuple, kind, payload, ts], see FlowHash and FlowStates.    *)
(* The K-L divergence of a flow from a model is an arbitrary number `div'  *)
(* of the model: 0 is also a divergence that is not a number (a negative   *)
(* probability has no logarithm), since both fail every comparison.        *)
(***************************************************************************)
EXTENDS ProtocolModelDb, FlowStates, FlowHash

MaxBuffer == 2048                       \* PACKET_MAX_BUFFER_SIZE
NoMatch == 100                          \* the initial _bestMatchDivergence

(* Flow::Flow(packet, database) *)
Flow(p, enabledAttributes) ==
  [tuple |-> p.tuple, state |-> "NEW", pktsInQueue |-> 0,
   pktCount |-> 0, overallPktCount |-> 0, lastPacketTimestamp |-> p.ts,
   isFirstPacket |-> FALSE, firstSize |-> 0,
   lastDirection |-> "UNKNOWN", direction |-> "UNKNOWN",
   meters |-> GetAllMeters(enabledAttributes),
   classified |-> FALSE, protocol |-> "", divergence |-> 0,
   bestProtocol |-> "", bestDivergence |-> NoMatch]

HavePktsInQueue(flow) == flow.pktsInQueue > 0

(* The originator's first packet: a UDP flow's first one, or the first one *)
(* of an established TCP flow.  An empty TCP ACK may be it several times.  *)
IsFirstPacket(flow, p, dir) ==
  \/ flow.state = "NEW" /\ p.kind = "udp"
  \/ flow.state = "ESTABLISHED" /\ p.kind \in TcpKind \ {"fin"}
     /\ flow.firstSize = 0 /\ dir = "ORIG_TO_DEST"

(* What addPacket does to every packet.                                    *)
Arrived(flow, p) ==
  LET dir == PacketDirection(flow.tuple, p.tuple)
      first == IsFirstPacket(flow, p, dir)
  IN  [flow EXCEPT
         !.overallPktCount = @ + 1,
         !.state = StateAfter(@, p.kind, dir),
         !.isFirstPacket = first,
         !.firstSize = IF ~first THEN @
                       ELSE IF Size(p) > MaxBuffer THEN MaxBuffer ELSE Size(p)]

(* ... and what it does to the data packets among them.                    *)
Counted(flow, p) ==
  [flow EXCEPT !.pktCount = @ + 1,
               !.lastDirection = flow.direction,
               !.direction = PacketDirection(flow.tuple, p.tuple),
               !.lastPacketTimestamp = p.ts]

Measured(flow, p, junk) ==
  [flow EXCEPT !.meters = [name \in DOMAIN @ |->
                             CalculateMeasurement(name, @[name], flow, p, junk)]]

(* The models the packet is compared with, in this order.                  *)
Candidates(flow, db, common) ==
  LET port == IF common.usePortHints THEN flow.tuple.dstPort ELSE 0
      order == [i \in 1 .. SizeOf(db) |-> ModelAt(db, i - 1, port)]
      usable(m) == m # 0 /\ db.models[m].enabled
  IN  Subsequence(order, {i \in DOMAIN order : usable(order[i])})

(* The first model near enough decides, but not before the defining limit. *)
(* Until one does, the nearest of all is remembered, also from packets     *)
(* before that limit; at the limit exactly, it is taken if near enough.    *)
Decided(flow, db, common, div, order) ==
  LET d(k) == div[order[k]]
      hits == {k \in DOMAIN order : /\ flow.pktCount >= db.definingLimit
                                    /\ d(k) > 0 /\ d(k) < common.divergenceThreshold}
      hit == CHOOSE k \in hits : \A j \in hits : k <= j
      passed == IF hits = {} THEN DOMAIN order ELSE 1 .. hit - 1
      nearer == {k \in passed : d(k) > 0 /\ d(k) < flow.bestDivergence}
      best == CHOOSE k \in nearer : \A j \in nearer : d(k) < d(j) \/ (d(k) = d(j) /\ k <= j)
      f == IF nearer = {} THEN flow
           ELSE [flow EXCEPT !.bestDivergence = d(best),
                             !.bestProtocol = db.models[order[best]].name]
  IN  IF hits # {}
      THEN [f EXCEPT !.classified = TRUE, !.divergence = d(hit),
                     !.protocol = db.models[order[hit]].name]
      ELSE IF /\ common.useBestMatch /\ f.pktCount = db.definingLimit
              /\ f.bestDivergence < common.divergenceThreshold
           THEN [f EXCEPT !.classified = TRUE, !.divergence = f.bestDivergence,
                          !.protocol = f.bestProtocol]
           ELSE f

(* Flow::addPacket, all of the comparison with the models.                 *)
Classified(flow, db, common, div) ==
  Decided(flow, db, common, div, Candidates(flow, db, common))

(* Flow::addPacket *)
BadAddPacket(flow, p, db, common, div, junk) ==      \* no cutoff
  LET arrived == Arrived(flow, p)
      counted == Counted(arrived, p)
      measured == Measured(counted, p, junk)
  IN  IF ~CountsAsData(flow.state, p.kind) THEN arrived
      ELSE IF flow.classified THEN counted
      ELSE IF common.learningMode THEN measured
      ELSE Classified(measured, db, common, div)

AddPacket(flow, p, db, common, div, junk) ==
  LET arrived == Arrived(flow, p)
      counted == Counted(arrived, p)
      measured == Measured(counted, p, junk)
  IN  IF ~CountsAsData(flow.state, p.kind) THEN arrived
      ELSE IF flow.classified \/ counted.pktCount > db.cutoffLimit THEN counted
      ELSE IF common.learningMode THEN measured
      ELSE Classified(measured, db, common, div)
================================================================================
