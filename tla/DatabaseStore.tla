------------------------------ MODULE DatabaseStore -------------------------------
(***************************************************************************)
(* What training promises of the database on disk, whatever happens to the *)
(* program: there is a latest generation that can be read, and it is only  *)
(* ever replaced by a later one.                                           *)
(***************************************************************************)
EXTENDS Naturals

VARIABLE generation     \* of the latest readable database; 0 when there is none

Init == generation \in Nat
Save == generation' \in Nat /\ generation' > generation

Spec == Init /\ [][Save]_generation
================================================================================
