------------------------------ MODULE InlineManager -------------------------------
(***************************************************************************)
(* FlowManager without worker threads, as the pcap programs use it unless  *)
(* they are configured otherwise: addPacket does everything before it      *)
(* returns.  A manager is [table, made, gone, events]: the flows by hash;  *)
(* for the properties, how many flows were made (which gives each its id)  *)
(* and which of them are no longer in the table though they were known     *)
(* well enough to be reported; and the calls of observers that the last    *)
(* operation made, in their order.                                         *)
(***************************************************************************)
EXTENDS Flows

(* Murmur(HashInput(tuple)) is the hash; Murmur may have collisions.       *)
CONSTANT Murmur(_)

NewManager == [table |-> [h \in {} |-> 0], made |-> 0, gone |-> {}, events |-> << >>]

Hash(p) == Murmur(HashInput(p.tuple))
FlowOf(m, p) == m.table[Hash(p)]
Put(m, h, flow) == [m EXCEPT !.table = Over([k \in {h} |-> flow], @)]

(* The flow at h leaves the table.  What the program has to say of it, it  *)
(* must have said by now, if it saw data and three packets of a TCP flow,  *)
(* or two of another one.                                                  *)
WellKnown(flow) ==
  flow.pktCount > 0 /\ flow.overallPktCount >= (IF flow.tuple.protocol = TCP THEN 3 ELSE 2)
Erase(m, h) ==
  [m EXCEPT !.table = [k \in DOMAIN @ \ {h} |-> @[k]],
            !.gone = IF WellKnown(m.table[h]) THEN @ \cup {m.table[h].id} ELSE @]

(* The three tests of getFlow(packet), see FlowManager. *)
Stale(flow, p, common) ==
  LET age == p.ts - flow.lastPacketTimestamp
      idle == IF ~HavePktsInQueue(flow) /\ age # 0 THEN 1 ELSE 0
  IN  IF p.kind = "udp" THEN ~HavePktsInQueue(flow) /\ age > common.udpFlowTimeout
      ELSE \/ idle > common.tcpFlowTimeout
           \/ /\ flow.state \in Closed /\ ~HavePktsInQueue(flow)
              /\ age > common.tcpFlowCloseWaitTimeout

TooShort(flow) ==
  \/ flow.pktCount = 0
  \/ flow.overallPktCount < (IF flow.tuple.protocol = TCP THEN 3 ELSE 2)

(* notifyFlowFinished; in every place the flow leaves the table thereafter.*)
NotifyFinished(m, flow) ==
  IF flow.state = "FINISHED_NOTIFIED" \/ TooShort(flow) THEN m
  ELSE [m EXCEPT !.events = Append(@, [kind |-> "finished", flow |-> flow])]

Insert(m, p, db, tag) ==
  [Put(m, Hash(p), Over(Flow(p, db.enabledAttributes), [id |-> m.made + 1, tag |-> tag]))
     EXCEPT !.made = @ + 1]

GetFlow(m, p, db, common, tag) ==
  IF Hash(p) \notin DOMAIN m.table THEN Insert(m, p, db, tag)
  ELSE IF Stale(FlowOf(m, p), p, common)
       THEN Insert(Erase(NotifyFinished(m, FlowOf(m, p)), Hash(p)), p, db, tag)
       ELSE m

(* processPacket *)
BadProcessPacket(m, p, db, common, div, junk, tag) ==       \* forgets to delete
  LET found == GetFlow(m, p, db, common, tag)
      before == FlowOf(found, p)
      after == AddPacket([before EXCEPT !.pktsInQueue = @ - 1], p, db, common, div, junk)
  IN  Put(IF after.state = "FINISHED" THEN NotifyFinished(found, after) ELSE found,
          Hash(p), after)

ProcessPacket(m, p, db, common, div, junk, tag) ==
  LET found == GetFlow(m, p, db, common, tag)
      before == FlowOf(found, p)
      after == AddPacket([before EXCEPT !.pktsInQueue = @ - 1], p, db, common, div, junk)
      added == Put(found, Hash(p), after)
      told == IF after.classified /\ ~before.classified
              THEN [added EXCEPT !.events = Append(@, [kind |-> "classified", flow |-> after])]
              ELSE added
  IN  IF after.state = "FINISHED" THEN Erase(NotifyFinished(told, after), Hash(p))
      ELSE IF after.state = "FINISHED_NOTIFIED" THEN Erase(told, Hash(p))
      ELSE told

(* FlowManager::addPacket *)
AddToManager(m, p, db, common, div, junk, tag) ==
  LET found == GetFlow([m EXCEPT !.events = << >>], p, db, common, tag)
      f == FlowOf(found, p)
  IN  ProcessPacket(Put(found, Hash(p), [f EXCEPT !.pktsInQueue = @ + 1]),
                    p, db, common, div, junk, tag)

(* One round of the loop in FlowManager::finished. *)
FinishFlow(m, h) ==
  Erase(NotifyFinished([m EXCEPT !.events = << >>], m.table[h]), h)
================================================================================
