----------------------------- MODULE ApiServer -----------------------------
(***************************************************************************)
(* The HTTP gateway (nexuscache/server/api_server.py): the middleware that *)
(* counts and limits requests, the endpoints, the simulated token          *)
(* generator, and the drain at shutdown, all on one asyncio event loop.    *)
(*                                                                         *)
(* A request is two coroutines.  The middleware waits in call_next for a   *)
(* response and then gives its place back ("new", "inside", "out").  The   *)
(* endpoint's task produces the response: a probe and a whole completion   *)
(* before it answers, a stream while it is being sent,                     *)
(*                                                                         *)
(*   dispatch -> (unstarted ->) prefill -> decode <-> send -> finished     *)
(*                                                                         *)
(* with "left" and "lost" where a client that disconnects leaves a stream. *)
(* The two run independently once the stream's response has begun.         *)
(***************************************************************************)
EXTENDS Integers, FiniteSets

CONSTANTS
    Reqs,           \* HTTP requests
    Workloads,      \* what clients send: [kind, authorised, maxTokens] of each
    MaxConcurrent   \* max_concurrent_requests

\* A probe, a completion answered whole or streamed, and one whose list of
\* prompts is empty.
Kinds == {"health", "whole", "stream", "empty"}

ASSUME ServerAssumption ==
    /\ IsFiniteSet(Reqs)
    /\ Workloads \subseteq
           [Reqs -> [kind : Kinds, authorised : BOOLEAN, maxTokens : Nat \ {0}]]
    /\ MaxConcurrent \in Nat

VARIABLES
    req,       \* the requests, fixed in advance
    draining,  \* is_draining
    count,     \* active_request_count
    sessions,  \* ACTIVE_SESSIONS
    lifespan,  \* where lifespan() is
    place,     \* where the middleware of each request is
    task,      \* where its endpoint is
    sent,      \* how many tokens were generated for it
    reply      \* its status code

vars == <<req, draining, count, sessions, lifespan, place, task, sent, reply>>

Init ==
    /\ req \in Workloads
    /\ draining = FALSE
    /\ count = 0 /\ sessions = 0
    /\ lifespan = "serving"
    /\ place = [r \in Reqs |-> "new"]
    /\ task = [r \in Reqs |-> "none"]
    /\ sent = [r \in Reqs |-> 0]
    /\ reply = [r \in Reqs |-> "none"]

-----------------------------------------------------------------------------
(* The middleware *)

Answer(r, code) == reply' = [reply EXCEPT ![r] = code]

AtCapacity == count >= MaxConcurrent

Reject(r) ==
    /\ place[r] = "new" /\ (draining \/ AtCapacity)
    /\ place' = [place EXCEPT ![r] = "out"]
    /\ Answer(r, IF draining THEN "503" ELSE "429")
    /\ UNCHANGED <<req, draining, count, sessions, lifespan, task, sent>>

Admit(r) ==
    /\ place[r] = "new" /\ ~draining /\ ~AtCapacity
    /\ count' = count + 1
    /\ place' = [place EXCEPT ![r] = "inside"]
    /\ task' = [task EXCEPT ![r] = "dispatch"]
    /\ UNCHANGED <<req, draining, sessions, lifespan, sent, reply>>

\* Mutant: an endpoint that raises keeps its place.
Leave_UnlessRaised(r) ==
    /\ place[r] = "inside" /\ reply[r] # "none"
    /\ place' = [place EXCEPT ![r] = "out"]
    /\ count' = IF reply[r] = "500" THEN count ELSE count - 1
    /\ UNCHANGED <<req, draining, sessions, lifespan, task, sent, reply>>

\* The finally clause, when the endpoint has answered or raised; a stream has
\* answered with its headers.
Leave(r) ==
    /\ place[r] = "inside" /\ reply[r] # "none"
    /\ place' = [place EXCEPT ![r] = "out"]
    /\ count' = count - 1
    /\ UNCHANGED <<req, draining, sessions, lifespan, task, sent, reply>>

-----------------------------------------------------------------------------
(* The endpoints *)

Called(r, kind) ==
    /\ task[r] = "dispatch" /\ req[r].kind = kind
    /\ kind # "health" => req[r].authorised

Goto(r, step) == task' = [task EXCEPT ![r] = step]

\* verify_api_key.
Refuse(r) ==
    /\ task[r] = "dispatch" /\ req[r].kind # "health" /\ ~req[r].authorised
    /\ Goto(r, "finished") /\ Answer(r, "401")
    /\ UNCHANGED <<req, draining, count, sessions, lifespan, place, sent>>

\* status has no HTTP_530_SERVICE_UNAVAILABLE: the probe raises.
Probe(r) ==
    /\ Called(r, "health")
    /\ Goto(r, "finished") /\ Answer(r, IF draining THEN "500" ELSE "200")
    /\ UNCHANGED <<req, draining, count, sessions, lifespan, place, sent>>

\* prompt[0] of an empty list.
Raise(r) ==
    /\ Called(r, "empty")
    /\ Goto(r, "finished") /\ Answer(r, "500")
    /\ UNCHANGED <<req, draining, count, sessions, lifespan, place, sent>>

Generate(r) ==
    /\ Called(r, "whole")
    /\ Goto(r, "prefill")
    /\ UNCHANGED <<req, draining, count, sessions, lifespan, place, sent, reply>>

OpenStream(r) ==
    /\ Called(r, "stream")
    /\ sessions' = sessions + 1
    /\ Goto(r, "unstarted") /\ Answer(r, "200")
    /\ UNCHANGED <<req, draining, count, lifespan, place, sent>>

StartStream(r) ==
    /\ task[r] = "unstarted"
    /\ Goto(r, "prefill")
    /\ UNCHANGED <<req, draining, count, sessions, lifespan, place, sent, reply>>

-----------------------------------------------------------------------------
(* mock_llm_stream_generator and the two loops over it *)

\* Mutant: the session stays open.
End_KeepsSession(r) ==
    /\ Goto(r, "finished") /\ Answer(r, "200")
    /\ UNCHANGED sessions

\* The completion's answer, or the end of the stream: sending [DONE] and the
\* finally clause.
End(r) ==
    /\ Goto(r, "finished") /\ Answer(r, "200")
    /\ sessions' = IF req[r].kind = "stream" THEN sessions - 1 ELSE sessions

\* Mutant: the last token is left out.
More_OneShort(r, n) == n < req[r].maxTokens - 1 /\ ~draining

\* Whether the generator goes on after n tokens.
More(r, n) == n < req[r].maxTokens /\ ~draining

Continue(r, n) ==
    IF More(r, n) THEN Goto(r, "decode") /\ UNCHANGED <<sessions, reply>>
                  ELSE End(r)

Prefilled(r) ==
    /\ task[r] = "prefill"
    /\ Continue(r, 0)
    /\ UNCHANGED <<req, draining, count, lifespan, place, sent>>

\* A token for a whole completion is appended and the generator goes on.
Decoded(r) ==
    /\ task[r] = "decode"
    /\ sent' = [sent EXCEPT ![r] = @ + 1]
    /\ IF req[r].kind = "stream"
       THEN Goto(r, "send") /\ UNCHANGED <<sessions, reply>>
       ELSE Continue(r, sent[r] + 1)
    /\ UNCHANGED <<req, draining, count, lifespan, place>>

\* The chunk has been sent.
Sent(r) ==
    /\ task[r] = "send"
    /\ Continue(r, sent[r])
    /\ UNCHANGED <<req, draining, count, lifespan, place, sent>>

Open == {"unstarted", "prefill", "decode", "send"}

\* The finally clause of a generator that was never started does not run. That
\* of one suspended at a yield runs when the loop finalizes the generator.
Disconnect(r) ==
    /\ req[r].kind = "stream" /\ task[r] \in Open
    /\ IF task[r] = "unstarted"
       THEN Goto(r, "lost") /\ UNCHANGED sessions
       ELSE Goto(r, "left") /\ sessions' = sessions - 1
    /\ UNCHANGED <<req, draining, count, lifespan, place, sent, reply>>

-----------------------------------------------------------------------------
(* Shutdown *)

\* shutdown_handler.
Signal ==
    /\ ~draining
    /\ draining' = TRUE
    /\ UNCHANGED <<req, count, sessions, lifespan, place, task, sent, reply>>

\* The ASGI server ends the lifespan, after a signal or without one.
BeginDrain ==
    /\ lifespan = "serving"
    /\ lifespan' = "draining" /\ draining' = TRUE
    /\ UNCHANGED <<req, count, sessions, place, task, sent, reply>>

Drained ==
    /\ lifespan = "draining" /\ count = 0
    /\ lifespan' = "drained"
    /\ UNCHANGED <<req, draining, count, sessions, place, task, sent, reply>>

\* The grace period is over.
GiveUp ==
    /\ lifespan = "draining" /\ count > 0
    /\ lifespan' = "forced"
    /\ UNCHANGED <<req, draining, count, sessions, place, task, sent, reply>>

-----------------------------------------------------------------------------

Serve(r) ==
    \/ Refuse(r) \/ Probe(r) \/ Raise(r) \/ Generate(r)
    \/ OpenStream(r) \/ StartStream(r) \/ Prefilled(r) \/ Decoded(r)

Next ==
    \/ \E r \in Reqs :
           Reject(r) \/ Admit(r) \/ Leave(r) \/ Serve(r) \/ Sent(r) \/ Disconnect(r)
    \/ Signal \/ BeginDrain \/ Drained \/ GiveUp

Spec == Init /\ [][Next]_vars

\* The event loop runs every coroutine that is ready. Clients may or may not
\* come, read their streams and leave; so may signals and the end of the grace
\* period.
FairSpec ==
    /\ Spec
    /\ \A r \in Reqs : WF_vars(Leave(r)) /\ WF_vars(Serve(r))

-----------------------------------------------------------------------------
(* Properties *)

Inside == {r \in Reqs : place[r] = "inside"}

TypeOK ==
    /\ req \in Workloads
    /\ draining \in BOOLEAN
    /\ count \in Nat /\ sessions \in Nat
    /\ lifespan \in {"serving", "draining", "drained", "forced"}
    /\ place \in [Reqs -> {"new", "inside", "out"}]
    /\ task \in [Reqs -> {"none", "dispatch", "finished", "left", "lost"} \cup Open]
    /\ sent \in [Reqs -> Nat]
    /\ reply \in [Reqs -> {"none", "200", "401", "429", "500", "503"}]

\* The in-flight count, which decides about backpressure and about the end of
\* the drain, is the number of requests inside the middleware, whichever way
\* their endpoints end.
CountIsExact == count = Cardinality(Inside)

\* Backpressure works: the middleware never holds more requests than allowed.
WithinLimit == Cardinality(Inside) <= MaxConcurrent

Streams == {r \in Reqs : req[r].kind = "stream"}
OpenStreams == {r \in Streams : task[r] \in Open}
LostStreams == {r \in Streams : task[r] = "lost"}

\* ACTIVE_SESSIONS, the "number of currently open Server-Sent Events streams"
\* (api_server.py:76-79), is that number as long as no client has left a stream
\* before its first chunk, whichever way the other streams end.  From the first
\* such client on it is not: it is higher, and never right again.
GaugeRightUnlessLost ==
    /\ LostStreams = {} => sessions = Cardinality(OpenStreams)
    /\ LostStreams # {} => sessions > Cardinality(OpenStreams)

\* Only a drain cuts a completion short: one that ends by itself has all the
\* tokens that were asked for.
CutOnlyByDrain ==
    \A r \in Reqs :
        task[r] = "finished" /\ reply[r] = "200" /\ req[r].kind # "health" =>
            sent[r] = req[r].maxTokens \/ draining

\* Once lifespan() has found no request in flight, no probe and no whole
\* completion is being served, then or later.
DrainedIsIdle ==
    lifespan = "drained" =>
        \A r \in Reqs : req[r].kind # "stream" => task[r] \in {"none", "finished"}

\* A draining server runs out of requests by itself.
DrainEmpties == draining ~> count = 0
=============================================================================
