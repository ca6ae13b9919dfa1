------------------------- MODULE MCDynamicScheduler -------------------------
(* TLC instances of DynamicScheduler. *)
EXTENDS DynamicScheduler

OneOrTwoBlocks == {[prompt |-> 2, maxNew |-> 1], [prompt |-> 3, maxNew |-> 1]}

Classes == [s \in Seqs |-> IF s = 1 THEN 0 ELSE 3]
Deadlines == [s \in Seqs |-> 1]
SharedText == [s \in Seqs |-> "x"]
=============================================================================
