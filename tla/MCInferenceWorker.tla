------------------------- MODULE MCInferenceWorker -------------------------
(* TLC instances of InferenceWorker. *)
EXTENDS InferenceWorker

\* With blocks of four tokens: one block and two, filled but not exceeded by
\* what is generated.
WithinPromptBlocks == {[prompt |-> 2, maxNew |-> 2], [prompt |-> 5, maxNew |-> 3]}

\* And one that needs a second block for its second token, and one whose
\* prompt is larger than a pool of two.
AlsoBeyond ==
    WithinPromptBlocks \cup {[prompt |-> 4, maxNew |-> 2], [prompt |-> 9, maxNew |-> 1]}
=============================================================================
