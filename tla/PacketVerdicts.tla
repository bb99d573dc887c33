---------------------------- MODULE PacketVerdicts ----------------------------
(***************************************************************************)
(* What a flow manager promises whoever hands it packets: each packet is   *)
(* decided once, and the decision stands.  Packets are numbered in the     *)
(* order they come in; how they are queued, in which order they are        *)
(* decided and by which thread is left open.                               *)
(***************************************************************************)
EXTENDS Naturals, Sequences

VARIABLE decision      \* for each packet handed over, what became of it

Decision == {"none", "accept", "drop"}

Init == decision = << >>

(* A packet is taken over, to be decided later or (by a manager that was   *)
(* shut down) accepted at once.                                            *)
Take == \E d \in {"none", "accept"} : decision' = Append(decision, d)

Decide(i) ==
  /\ i \in DOMAIN decision /\ decision[i] = "none"
  /\ \E d \in {"accept", "drop"} : decision' = [decision EXCEPT ![i] = d]

Next == Take \/ \E i \in DOMAIN decision : Decide(i)

Spec == Init /\ [][Next]_decision
===============================================================================
