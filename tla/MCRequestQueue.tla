--------------------------- MODULE MCRequestQueue ---------------------------
(* TLC instances of RequestQueue. *)
EXTENDS RequestQueue

\* Every client chooses an id of its own.
OwnIds == [o \in Reqs |-> o]

\* A low tier and a high one; the older request is of the low tier and larger
\* than the batch budget.
Mixed == {[priority |-> 1, arrived |-> 1, prompt |-> 3],
          [priority |-> 0, arrived |-> 2, prompt |-> 1]}
=============================================================================
