------------------------------ MODULE FlowStates ------------------------------
(***************************************************************************)
(* The connection state machine of one flow: what Flow::addPacket does to  *)
(* Flow::_flowState, and which packets it counts as "data packets".  Pure  *)
(* operators, shared by every module that has flows in it.                 *)
(*                                                                         *)
(* Packets are told apart only as far as Flow::addPacket tells them apart. *)
(*   "udp"      a UDP datagram                                             *)
(*   "syn"      TCP, SYN set (with or without ACK), no payload             *)
(*   "syndata"  TCP, SYN set, with payload                                 *)
(*   "ack"      TCP, ACK set and neither SYN, FIN nor RST, no payload      *)
(*   "data"     TCP, no SYN, FIN or RST, with payload (or with no flags)   *)
(*   "fin"      TCP, FIN or RST set                                        *)
(***************************************************************************)

TcpKind == {"syn", "syndata", "ack", "data", "fin"}
Kind    == TcpKind \cup {"udp"}

(* The two orientations of a five-tuple: which end point sent the packet. *)
Side == {"a", "b"}

(* State::FINISHING exists in the code and is handled, but never assigned. *)
State == {"NEW", "ESTABLISHING", "ESTABLISHED", "FINISHED", "FINISHED_NOTIFIED"}

Closed == {"FINISHED", "FINISHED_NOTIFIED"}

(* Direction of a packet from end `side' in a flow opened by end `orig'. *)
Direction(orig, side) == IF side = orig THEN "ORIG_TO_DEST" ELSE "DEST_TO_ORIG"

(* The state Flow::addPacket computes from the state upon arrival. *)
StateAfter(state, kind, dir) ==
  CASE state = "NEW" ->
         IF kind \in {"udp", "syn", "syndata"} THEN "ESTABLISHING" ELSE "FINISHED"
    [] state = "ESTABLISHING" /\ kind = "udp" ->
         IF dir = "DEST_TO_ORIG" THEN "ESTABLISHED" ELSE "ESTABLISHING"
    [] state = "ESTABLISHING" /\ kind # "udp" ->
         IF kind = "fin" THEN "FINISHED"
         ELSE IF kind \in {"syn", "syndata"} THEN "ESTABLISHING" ELSE "ESTABLISHED"
    [] state = "ESTABLISHED" -> IF kind = "fin" THEN "FINISHED" ELSE "ESTABLISHED"
    [] OTHER -> state

(* Whether addPacket assigns StateAfter to _flowState once the flow is no  *)
(* longer NEW.  It matters only when another thread assigns it in between. *)
AssignsState(state, kind, dir) ==
  \/ state = "NEW" /\ kind \notin {"udp", "syn", "syndata"}
  \/ state = "ESTABLISHING" /\ (kind # "udp" \/ dir = "DEST_TO_ORIG")
  \/ state = "ESTABLISHED" /\ kind = "fin"

(* A packet of an open flow that reaches the counters, the time stamp and  *)
(* the meters: not one that closes the flow, not a bare SYN or ACK.  The   *)
(* first packet of a flow whose SYN was missed closes the flow and is      *)
(* counted all the same.                                                   *)
CountsAsData(state, kind) ==
  state \notin Closed /\ kind \in {"udp", "syndata", "data"}
===============================================================================
