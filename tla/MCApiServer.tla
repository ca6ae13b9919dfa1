---------------------------- MODULE MCApiServer ----------------------------
(* TLC instances of ApiServer. *)
EXTENDS ApiServer

Mix ==
    <<[kind |-> "health", authorised |-> FALSE, maxTokens |-> 1],
      [kind |-> "whole", authorised |-> TRUE, maxTokens |-> 2],
      [kind |-> "stream", authorised |-> TRUE, maxTokens |-> 1],
      [kind |-> "empty", authorised |-> TRUE, maxTokens |-> 1],
      [kind |-> "stream", authorised |-> FALSE, maxTokens |-> 1]>>

\* Any three requests of the mix, up to a permutation of the requests.
Mixed ==
    {[r \in 1..3 |-> Mix[pick[r]]] :
        pick \in {p \in [1..3 -> DOMAIN Mix] : p[1] <= p[2] /\ p[2] <= p[3]}}
=============================================================================
