----------------------------- MODULE MCPipeline -----------------------------
(* TLC instances of Pipeline. *)
EXTENDS Pipeline

\* A request that grows to five tokens: it fits a pool of three blocks alone.
GrowingRequests == {[prompt |-> 2, maxNew |-> 3], [prompt |-> 1, maxNew |-> 3]}
=============================================================================
