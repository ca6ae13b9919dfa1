-------------------------- MODULE AdmissionProofs --------------------------
(***************************************************************************)
(* Proofs about the two programs that admit requests up to a limit and     *)
(* keep counters across awaits.  ApiServer: its two counters are exact,    *)
(* backpressure holds, only a drain cuts completions short, and a drained  *)
(* server is idle.  ABTestingHarness: no lookup is counted more often than *)
(* requests run at a time, and the overall hit ratio is a mean.            *)
(***************************************************************************)
EXTENDS ApiServer, ABTestingHarness, DataLemmas

(* The server: its inductive invariant *)

\* An endpoint that is not a stream runs only while its middleware waits.
Staged(r) ==
    /\ place[r] = "new" => task[r] = "none" /\ reply[r] = "none"
    /\ task[r] = "dispatch" => place[r] = "inside" /\ reply[r] = "none"
    /\ req[r].kind # "stream" =>
           /\ task[r] \in {"none", "dispatch", "prefill", "decode", "finished"}
           /\ task[r] \in {"prefill", "decode"} => place[r] = "inside" /\ reply[r] = "none"

Progress(r) ==
    /\ task[r] \in {"none", "dispatch", "unstarted", "prefill"} => sent[r] = 0
    /\ task[r] = "decode" => sent[r] < req[r].maxTokens
    /\ task[r] = "send" => sent[r] <= req[r].maxTokens

Draining ==
    /\ lifespan # "serving" => draining
    /\ lifespan = "drained" => Inside = {}

\* What the gauge counts, a lost stream for ever.
Counted == OpenStreams \cup LostStreams

SessionsCounted == sessions = Cardinality(Counted)

IInv ==
    /\ TypeOK
    /\ CountIsExact /\ WithinLimit
    /\ SessionsCounted
    /\ \A r \in Reqs : Staged(r) /\ Progress(r)
    /\ CutOnlyByDrain
    /\ Draining

Step(r) == Reject(r) \/ Admit(r) \/ Leave(r) \/ Serve(r) \/ Sent(r) \/ Disconnect(r)

Shutdown == Signal \/ BeginDrain \/ Drained \/ GiveUp

-----------------------------------------------------------------------------
(* The two counters *)

LEMMA FiniteCounts ==
    /\ IsFiniteSet(Inside) /\ Cardinality(Inside) \in Nat
    /\ IsFiniteSet(Counted) /\ Cardinality(Counted) \in Nat
<1>1. Inside \subseteq Reqs /\ Counted \subseteq Reqs
  BY DEF Inside, Counted, OpenStreams, LostStreams, Streams
<1> QED  BY <1>1, ServerAssumption, FS_Subset, FS_CardinalityType

LEMMA RequestFacts ==
    ASSUME TypeOK, NEW r \in Reqs
    PROVE  req[r].kind \in Kinds /\ req[r].maxTokens \in Nat \ {0}
  BY ServerAssumption DEF TypeOK

\* Only the middleware moves requests in and out.
LEMMA CountStep ==
    ASSUME IInv, NEW r \in Reqs, Step(r)
    PROVE  CountIsExact' /\ WithinLimit'
<1>f. count = Cardinality(Inside) /\ count \in Nat /\ count <= MaxConcurrent
  BY DEF IInv, TypeOK, CountIsExact, WithinLimit
<1>1. CASE Admit(r)
  <2>1. Inside' = Inside \cup {r} /\ r \notin Inside
    BY <1>1 DEF Admit, Inside, IInv, TypeOK
  <2>2. Cardinality(Inside') = Cardinality(Inside) + 1
    BY <2>1, FiniteCounts, FS_AddElement
  <2>3. count' = count + 1 /\ ~(count >= MaxConcurrent)
    BY <1>1 DEF Admit, AtCapacity
  <2> QED  BY <1>f, <2>2, <2>3, ServerAssumption DEF CountIsExact, WithinLimit
<1>2. CASE Leave(r)
  <2>1. Inside' = Inside \ {r} /\ r \in Inside
    BY <1>2 DEF Leave, Inside, IInv, TypeOK
  <2>2. Cardinality(Inside') = Cardinality(Inside) - 1
    BY <2>1, FiniteCounts, FS_RemoveElement
  <2>3. count' = count - 1
    BY <1>2 DEF Leave
  <2> QED  BY <1>f, <2>2, <2>3, ServerAssumption DEF CountIsExact, WithinLimit
<1>3. CASE Reject(r) \/ Serve(r) \/ Sent(r) \/ Disconnect(r)
  <2>1. count' = count /\ (place' = place \/ Reject(r))
    BY <1>3 DEF Reject, Serve, Refuse, Probe, Raise, Generate, OpenStream, StartStream,
                Prefilled, Decoded, Sent, Disconnect
  <2>2. Inside' = Inside
    BY <2>1 DEF Reject, Inside, IInv, TypeOK
  <2> QED  BY <1>f, <2>1, <2>2 DEF CountIsExact, WithinLimit
<1> QED  BY <1>1, <1>2, <1>3 DEF Step

\* A stream that was counted and is not any more.
LEMMA Uncount ==
    ASSUME IInv, NEW r \in Reqs, req[r].kind = "stream", task[r] \in Open,
           NEW step, step \notin Open \cup {"lost"},
           req' = req, Goto(r, step), sessions' = sessions - 1
    PROVE  SessionsCounted'
<1>1. Counted' = Counted \ {r} /\ r \in Counted
  BY DEF IInv, TypeOK, Counted, OpenStreams, LostStreams, Streams, Goto
<1>2. Cardinality(Counted') = Cardinality(Counted) - 1
  BY <1>1, FiniteCounts, FS_RemoveElement
<1> QED  BY <1>2 DEF IInv, SessionsCounted

\* A step within an endpoint, of a stream or not.
LEMMA StillCounted ==
    ASSUME IInv, NEW r \in Reqs, NEW step, req' = req, Goto(r, step), sessions' = sessions,
           \/ req[r].kind # "stream"
           \/ task[r] \in Open /\ step \in Open \cup {"lost"}
           \/ task[r] \notin Open \cup {"lost"} /\ step \notin Open \cup {"lost"}
    PROVE  SessionsCounted'
<1>1. Counted' = Counted
  BY DEF IInv, TypeOK, Counted, OpenStreams, LostStreams, Streams, Goto
<1> QED  BY <1>1 DEF IInv, SessionsCounted

LEMMA EndSession ==
    ASSUME IInv, NEW r \in Reqs, task[r] \in Open, req' = req, End(r)
    PROVE  SessionsCounted'
<1>1. "finished" \notin Open \cup {"lost"}
  BY DEF Open
<1>2. CASE req[r].kind = "stream"
  BY <1>1, <1>2, Uncount DEF End
<1>3. CASE req[r].kind # "stream"
  BY <1>3, StillCounted DEF End
<1> QED  BY <1>2, <1>3

LEMMA ContinueSession ==
    ASSUME IInv, NEW r \in Reqs, NEW n, task[r] \in Open, req' = req, Continue(r, n)
    PROVE  SessionsCounted'
<1>1. CASE More(r, n)
  <2>1. Goto(r, "decode") /\ sessions' = sessions
    BY <1>1 DEF Continue
  <2> QED  BY <2>1, StillCounted DEF Open
<1>2. CASE ~More(r, n)
  BY <1>2, EndSession DEF Continue
<1> QED  BY <1>1, <1>2

LEMMA SessionStep ==
    ASSUME IInv, NEW r \in Reqs, Step(r)
    PROVE  SessionsCounted'
<1>1. CASE Reject(r) \/ Leave(r)
  <2>1. UNCHANGED <<req, task, sessions>>
    BY <1>1 DEF Reject, Leave
  <2> QED  BY <2>1 DEF IInv, SessionsCounted, Counted, OpenStreams, LostStreams, Streams
<1>2. CASE Admit(r) \/ Refuse(r) \/ Probe(r) \/ Raise(r)
  <2>1. /\ req' = req /\ sessions' = sessions
        /\ Goto(r, "dispatch") \/ Goto(r, "finished")
        /\ task[r] \notin Open \cup {"lost"}
    BY <1>2 DEF Admit, Refuse, Probe, Raise, Called, Goto, IInv, Staged, Open
  <2> QED  BY <2>1, StillCounted DEF Open
<1>3. CASE Generate(r)
  <2>1. req' = req /\ sessions' = sessions /\ Goto(r, "prefill") /\ req[r].kind # "stream"
    BY <1>3 DEF Generate, Called
  <2> QED  BY <2>1, StillCounted
<1>4. CASE OpenStream(r)
  <2>1. Counted' = Counted \cup {r} /\ r \notin Counted
    BY <1>4 DEF OpenStream, Called, Goto, Counted, OpenStreams, LostStreams, Streams, IInv, TypeOK, Open
  <2>2. Cardinality(Counted') = Cardinality(Counted) + 1
    BY <2>1, FiniteCounts, FS_AddElement
  <2> QED  BY <1>4, <2>2 DEF OpenStream, IInv, SessionsCounted
<1>5. CASE StartStream(r)
  <2>1. /\ req' = req /\ sessions' = sessions /\ Goto(r, "prefill")
        /\ task[r] \in Open /\ "prefill" \in Open
    BY <1>5 DEF StartStream, Open
  <2> QED  BY <2>1, StillCounted
<1>6. CASE Prefilled(r) \/ Sent(r)
  <2>1. req' = req /\ task[r] \in Open /\ (Continue(r, 0) \/ Continue(r, sent[r]))
    BY <1>6 DEF Prefilled, Sent, Open
  <2> QED  BY <2>1, ContinueSession
<1>7. CASE Decoded(r)
  <2>1. req' = req /\ task[r] \in Open
    BY <1>7 DEF Decoded, Open
  <2>2. \/ Continue(r, sent[r] + 1)
        \/ Goto(r, "send") /\ sessions' = sessions
    BY <1>7 DEF Decoded
  <2>3. "send" \in Open
    BY DEF Open
  <2> QED  BY <2>1, <2>2, <2>3, ContinueSession, StillCounted
<1>8. CASE Disconnect(r)
  <2>1. req' = req /\ req[r].kind = "stream" /\ task[r] \in Open
    BY <1>8 DEF Disconnect
  <2>2. \/ Goto(r, "lost") /\ sessions' = sessions
        \/ Goto(r, "left") /\ sessions' = sessions - 1
    BY <1>8 DEF Disconnect
  <2>3. "left" \notin Open \cup {"lost"}
    BY DEF Open
  <2> QED  BY <2>1, <2>2, <2>3, StillCounted, Uncount
<1> QED  BY <1>1, <1>2, <1>3, <1>4, <1>5, <1>6, <1>7, <1>8 DEF Step, Serve
-----------------------------------------------------------------------------
(* Types and stages *)

LEMMA Typed ==
    ASSUME IInv, [Next]_vars
    PROVE  /\ req' = req
           /\ draining' \in BOOLEAN /\ (draining => draining')
           /\ lifespan' \in {"serving", "draining", "drained", "forced"}
           /\ place' \in [Reqs -> {"new", "inside", "out"}]
           /\ task' \in [Reqs -> {"none", "dispatch", "finished", "left", "lost"} \cup Open]
           /\ sent' \in [Reqs -> Nat]
           /\ reply' \in [Reqs -> {"none", "200", "401", "429", "500", "503"}]
<1> USE DEF IInv, TypeOK, Open
<1>1. CASE \E r \in Reqs : Reject(r) \/ Admit(r) \/ Leave(r)
  BY <1>1 DEF Reject, Admit, Leave, Answer
<1>2. CASE \E r \in Reqs : Refuse(r) \/ Probe(r) \/ Raise(r) \/ Generate(r)
  BY <1>2 DEF Refuse, Probe, Raise, Generate, Answer, Goto
<1>3. CASE \E r \in Reqs : OpenStream(r) \/ StartStream(r) \/ Disconnect(r)
  BY <1>3 DEF OpenStream, StartStream, Disconnect, Answer, Goto
<1>4. CASE \E r \in Reqs : Prefilled(r) \/ Decoded(r) \/ Sent(r)
  BY <1>4 DEF Prefilled, Decoded, Sent, Continue, End, Answer, Goto
<1>5. CASE Shutdown \/ UNCHANGED vars
  BY <1>5 DEF Shutdown, Signal, BeginDrain, Drained, GiveUp, vars
<1> QED  BY <1>1, <1>2, <1>3, <1>4, <1>5 DEF Next, Serve, Shutdown

\* A step of one request leaves the others alone.
LEMMA OtherRequests ==
    ASSUME IInv, NEW r \in Reqs, Step(r)
    PROVE  \A o \in Reqs \ {r} : /\ place'[o] = place[o] /\ task'[o] = task[o]
                                 /\ sent'[o] = sent[o] /\ reply'[o] = reply[o]
<1>1. CASE Reject(r) \/ Admit(r) \/ Leave(r)
  BY <1>1 DEF Reject, Admit, Leave, Answer, IInv, TypeOK
<1>2. CASE Refuse(r) \/ Probe(r) \/ Raise(r) \/ Generate(r)
  BY <1>2 DEF Refuse, Probe, Raise, Generate, Answer, Goto, IInv, TypeOK
<1>3. CASE OpenStream(r) \/ StartStream(r) \/ Disconnect(r)
  BY <1>3 DEF OpenStream, StartStream, Disconnect, Answer, Goto, IInv, TypeOK
<1>4. CASE Prefilled(r) \/ Decoded(r) \/ Sent(r)
  BY <1>4 DEF Prefilled, Decoded, Sent, Continue, End, Answer, Goto, IInv, TypeOK
<1> QED  BY <1>1, <1>2, <1>3, <1>4 DEF Step, Serve

LEMMA StageStep ==
    ASSUME IInv, NEW r \in Reqs, Step(r)
    PROVE  Staged(r)'
<1> USE DEF IInv, TypeOK, Staged, Answer, Goto
<1>1. CASE Reject(r) \/ Admit(r)
  BY <1>1 DEF Reject, Admit
<1>2. CASE Leave(r)
  BY <1>2 DEF Leave
<1>3. CASE Refuse(r) \/ Probe(r) \/ Raise(r)
  BY <1>3 DEF Refuse, Probe, Raise, Called
<1>4. CASE Generate(r)
  BY <1>4 DEF Generate, Called
<1>5. CASE OpenStream(r)
  BY <1>5 DEF OpenStream, Called
<1>6. CASE StartStream(r)
  BY <1>6 DEF StartStream
<1>7. CASE Disconnect(r)
  BY <1>7 DEF Disconnect, Open
<1>8. CASE Prefilled(r)
  BY <1>8 DEF Prefilled, Continue, End
<1>9. CASE Decoded(r)
  BY <1>9 DEF Decoded, Continue, End
<1>10. CASE Sent(r)
  BY <1>10 DEF Sent, Continue, End
<1> QED  BY <1>1, <1>2, <1>3, <1>4, <1>5, <1>6, <1>7, <1>8, <1>9, <1>10 DEF Step, Serve

-----------------------------------------------------------------------------
(* The generator *)

Complete(r) ==
    task[r] = "finished" /\ reply[r] = "200" /\ req[r].kind # "health" =>
        sent[r] = req[r].maxTokens \/ draining

\* Going on after n tokens.
LEMMA ContinueProgress ==
    ASSUME IInv, NEW r \in Reqs, NEW n \in Nat, n <= req[r].maxTokens, Continue(r, n),
           req' = req, draining' = draining, sent'[r] = n
    PROVE  Progress(r)' /\ Complete(r)'
<1>m. req[r].maxTokens \in Nat
  BY RequestFacts DEF IInv
<1>1. CASE More(r, n)
  <2>1. task'[r] = "decode" /\ n < req[r].maxTokens
    BY <1>1 DEF Continue, More, Goto, IInv, TypeOK
  <2> QED  BY <2>1 DEF Progress, Complete
<1>2. CASE ~More(r, n)
  <2>1. task'[r] = "finished"
    BY <1>2 DEF Continue, End, Goto, IInv, TypeOK
  <2>2. ~(n < req[r].maxTokens) \/ draining
    BY <1>2 DEF More
  <2> QED  BY <1>m, <2>1, <2>2 DEF Progress, Complete
<1> QED  BY <1>1, <1>2

LEMMA ProgressStep ==
    ASSUME IInv, NEW r \in Reqs, Step(r)
    PROVE  Progress(r)' /\ Complete(r)'
<1>m. req[r].maxTokens \in Nat \ {0}
  BY RequestFacts DEF IInv
<1>s. sent[r] \in Nat /\ Progress(r) /\ Complete(r) /\ Staged(r)
  BY DEF IInv, TypeOK, CutOnlyByDrain, Complete
<1>t. task \in [Reqs -> {"none", "dispatch", "finished", "left", "lost"} \cup Open]
      /\ reply \in [Reqs -> {"none", "200", "401", "429", "500", "503"}]
  BY DEF IInv, TypeOK
<1>1. CASE Reject(r) \/ Leave(r)
  <2>1. /\ UNCHANGED <<req, draining, task, sent>>
        /\ reply'[r] = reply[r] \/ task[r] = "none"
    BY <1>1, <1>s DEF Reject, Leave, Staged
  <2> QED  BY <1>s, <2>1 DEF Progress, Complete
<1>2. CASE Admit(r) \/ Generate(r) \/ OpenStream(r) \/ StartStream(r)
  <2>1. /\ UNCHANGED <<req, draining, sent>> /\ sent[r] = 0
        /\ task'[r] \in {"dispatch", "prefill", "unstarted"}
    BY <1>2, <1>s, <1>t DEF Admit, Generate, OpenStream, StartStream, Called, Goto, Staged,
                            Progress
  <2> QED  BY <2>1 DEF Progress, Complete
<1>3. CASE Refuse(r) \/ Probe(r) \/ Raise(r)
  <2>1. /\ UNCHANGED <<req, draining, sent>> /\ task'[r] = "finished"
        /\ reply'[r] = "200" => req[r].kind = "health"
    BY <1>3, <1>t DEF Refuse, Probe, Raise, Called, Goto, Answer
  <2> QED  BY <2>1 DEF Progress, Complete
<1>4. CASE Disconnect(r)
  <2>1. UNCHANGED <<req, draining, sent>> /\ task'[r] \in {"lost", "left"}
    BY <1>4, <1>t DEF Disconnect, Goto
  <2> QED  BY <2>1 DEF Progress, Complete
<1>5. CASE Prefilled(r)
  <2>1. /\ Continue(r, 0) /\ req' = req /\ draining' = draining
        /\ sent'[r] = 0 /\ 0 <= req[r].maxTokens
    BY <1>5, <1>s, <1>m DEF Prefilled, Progress
  <2> QED  BY <2>1, ContinueProgress
<1>6. CASE Sent(r)
  <2>1. /\ Continue(r, sent[r]) /\ req' = req /\ draining' = draining
        /\ sent'[r] = sent[r] /\ sent[r] <= req[r].maxTokens
    BY <1>6, <1>s DEF Sent, Progress
  <2> QED  BY <1>s, <2>1, ContinueProgress
<1>7. CASE Decoded(r)
  <2> DEFINE n == sent[r] + 1
  <2>1. /\ req' = req /\ draining' = draining /\ sent'[r] = n
        /\ n \in Nat /\ n <= req[r].maxTokens
    BY <1>7, <1>s, <1>m DEF Decoded, Progress, IInv, TypeOK
  <2>2. Continue(r, n) \/ Goto(r, "send")
    BY <1>7 DEF Decoded
  <2>3. ASSUME Goto(r, "send") PROVE task'[r] = "send"
    BY <2>3, <1>t DEF Goto
  <2> HIDE DEF n
  <2>4. CASE Continue(r, n)
    BY <2>1, <2>4, ContinueProgress
  <2>5. CASE Goto(r, "send")
    BY <2>1, <2>3, <2>5 DEF Progress, Complete
  <2> QED  BY <2>2, <2>4, <2>5
<1> QED  BY <1>1, <1>2, <1>3, <1>4, <1>5, <1>6, <1>7 DEF Step, Serve

-----------------------------------------------------------------------------
(* Shutdown *)

LEMMA DrainStep ==
    ASSUME IInv, [Next]_vars
    PROVE  Draining'
<1>1. CASE \E r \in Reqs : Admit(r)
  BY <1>1 DEF Admit, IInv, TypeOK, Draining
<1>2. CASE \E r \in Reqs : Reject(r) \/ Leave(r)
  BY <1>2 DEF Reject, Leave, IInv, TypeOK, Draining, Inside
<1>3. CASE \E r \in Reqs : Serve(r) \/ Sent(r) \/ Disconnect(r)
  <2>1. UNCHANGED <<draining, lifespan, place>>
    BY <1>3 DEF Serve, Refuse, Probe, Raise, Generate, OpenStream, StartStream,
                Prefilled, Decoded, Sent, Disconnect
  <2> QED  BY <2>1 DEF IInv, Draining, Inside
<1>4. CASE Drained
  <2>1. Cardinality(Inside) = 0 /\ lifespan = "draining" /\ UNCHANGED <<draining, place>>
    BY <1>4 DEF Drained, IInv, CountIsExact
  <2>2. Inside = {} /\ Inside' = Inside
    BY <2>1, FiniteCounts, FS_EmptySet DEF Inside
  <2> QED  BY <2>1, <2>2 DEF IInv, Draining
<1>5. CASE Signal \/ BeginDrain \/ GiveUp \/ UNCHANGED vars
  BY <1>5 DEF Signal, BeginDrain, GiveUp, vars, IInv, Draining, Inside
<1> QED  BY <1>1, <1>2, <1>3, <1>4, <1>5 DEF Next

-----------------------------------------------------------------------------
(* The theorems *)

LEMMA ServerInit == Init => IInv
<1> SUFFICES ASSUME Init PROVE IInv
  OBVIOUS
<1>1. Inside = {} /\ Counted = {}
  BY DEF Init, Inside, Counted, OpenStreams, LostStreams, Streams, Open
<1>2. Cardinality(Inside) = 0 /\ Cardinality(Counted) = 0
  BY <1>1, FS_EmptySet
<1>3. TypeOK
  BY DEF Init, TypeOK, Open
<1>4. \A r \in Reqs : Staged(r) /\ Progress(r)
  BY DEF Init, Staged, Progress
<1> QED  BY <1>2, <1>3, <1>4, ServerAssumption
         DEF IInv, Init, CountIsExact, WithinLimit, SessionsCounted, CutOnlyByDrain, Draining

LEMMA ServerStep == IInv /\ [Next]_vars => IInv'
<1> SUFFICES ASSUME IInv, [Next]_vars PROVE IInv'
  OBVIOUS
<1>1. /\ CountIsExact' /\ WithinLimit' /\ SessionsCounted'
      /\ \A r \in Reqs : Staged(r)' /\ Progress(r)' /\ Complete(r)'
  <2>1. CASE \E r \in Reqs : Step(r)
    <3>1. PICK r \in Reqs : Step(r)
      BY <2>1
    <3>2. ASSUME NEW o \in Reqs \ {r} PROVE Staged(o)' /\ Progress(o)' /\ Complete(o)'
      <4>1. Staged(o) /\ Progress(o) /\ Complete(o)
        BY DEF IInv, CutOnlyByDrain, Complete
      <4> QED  BY <3>1, <4>1, OtherRequests, Typed DEF Staged, Progress, Complete
    <3> QED  BY <3>1, <3>2, CountStep, SessionStep, StageStep, ProgressStep
  <2>2. CASE Shutdown \/ UNCHANGED vars
    <3>1. UNCHANGED <<req, count, sessions, place, task, sent, reply>> /\ (draining => draining')
      BY <2>2, Typed DEF Shutdown, Signal, BeginDrain, Drained, GiveUp, vars
    <3> QED  BY <3>1 DEF IInv, CountIsExact, WithinLimit, SessionsCounted, Inside, Counted,
                         OpenStreams, LostStreams, Streams, Staged, Progress, CutOnlyByDrain, Complete
  <2> QED  BY <2>1, <2>2 DEF Next, Step, Shutdown
<1>2. TypeOK'
  <2>1. count' \in Nat /\ sessions' \in Nat
    <3>1. Inside' \subseteq Reqs /\ Counted' \subseteq Reqs
      BY DEF Inside, Counted, OpenStreams, LostStreams, Streams
    <3>2. Cardinality(Inside') \in Nat /\ Cardinality(Counted') \in Nat
      BY <3>1, ServerAssumption, FS_Subset, FS_CardinalityType
    <3> QED  BY <1>1, <3>2 DEF CountIsExact, SessionsCounted
  <2> QED  BY <2>1, Typed DEF IInv, TypeOK
<1> QED  BY <1>1, <1>2, DrainStep DEF IInv, CutOnlyByDrain, Complete

LEMMA Invariance == Spec => []IInv
  BY ServerInit, ServerStep, PTL DEF Spec

\* The gateway's state is well typed: neither counter falls below zero.
THEOREM TypeCorrect == Spec => []TypeOK
<1>1. IInv => TypeOK
  BY DEF IInv
<1> QED  BY <1>1, Invariance, PTL

\* active_request_count is exact, whichever way the endpoints end.
THEOREM ExactCount == Spec => []CountIsExact
<1>1. IInv => CountIsExact
  BY DEF IInv
<1> QED  BY <1>1, Invariance, PTL

\* The middleware never holds more requests than max_concurrent_requests.
THEOREM Backpressure == Spec => []WithinLimit
<1>1. IInv => WithinLimit
  BY DEF IInv
<1> QED  BY <1>1, Invariance, PTL

\* The gauge exceeds the number of open streams by that of the lost ones.
LEMMA GaugeExceedsByLost ==
    ASSUME IInv
    PROVE  /\ sessions = Cardinality(OpenStreams) + Cardinality(LostStreams)
           /\ Cardinality(OpenStreams) \in Nat /\ Cardinality(LostStreams) \in Nat
           /\ LostStreams = {} <=> Cardinality(LostStreams) = 0
<1>1. OpenStreams \subseteq Reqs /\ LostStreams \subseteq Reqs
  BY DEF OpenStreams, LostStreams, Streams
<1>2. IsFiniteSet(OpenStreams) /\ IsFiniteSet(LostStreams)
  BY <1>1, ServerAssumption, FS_Subset
<1>3. OpenStreams \cap LostStreams = {}
  BY DEF OpenStreams, LostStreams, Open
<1>4. Cardinality(OpenStreams \cap LostStreams) = 0
  BY <1>3, FS_EmptySet
<1>5. /\ Cardinality(OpenStreams) \in Nat /\ Cardinality(LostStreams) \in Nat
      /\ LostStreams = {} <=> Cardinality(LostStreams) = 0
  BY <1>2, FS_CardinalityType, FS_EmptySet
<1>6. Cardinality(Counted) = Cardinality(OpenStreams) + Cardinality(LostStreams)
  <2>1. Cardinality(OpenStreams \cup LostStreams) =
            Cardinality(OpenStreams) + Cardinality(LostStreams)
            - Cardinality(OpenStreams \cap LostStreams)
    BY <1>2, FS_Union, Zenon
  <2> QED  BY <1>4, <1>5, <2>1 DEF Counted
<1> QED  BY <1>5, <1>6 DEF IInv, SessionsCounted

\* ACTIVE_SESSIONS is the number of open streams, as it is documented, if and
\* only if no client has left a stream before its first chunk.
THEOREM GaugeOfStreams == Spec => []GaugeRightUnlessLost
<1>1. IInv => GaugeRightUnlessLost
  BY GaugeExceedsByLost DEF GaugeRightUnlessLost
<1> QED  BY <1>1, Invariance, PTL

\* A completion that ends by itself is complete, or the server is draining.
THEOREM OnlyDrainsCut == Spec => []CutOnlyByDrain
<1>1. IInv => CutOnlyByDrain
  BY DEF IInv
<1> QED  BY <1>1, Invariance, PTL

\* A server that found no request in flight serves no probe and no whole
\* completion any more.
THEOREM Idle == Spec => []DrainedIsIdle
<1>1. IInv => DrainedIsIdle
  <2> SUFFICES ASSUME IInv, lifespan = "drained", NEW r \in Reqs, req[r].kind # "stream"
               PROVE  task[r] \in {"none", "finished"}
    BY DEF DrainedIsIdle
  <2>1. place[r] # "inside" /\ Staged(r)
    BY DEF IInv, Draining, Inside
  <2> QED  BY <2>1 DEF Staged
<1> QED  BY <1>1, Invariance, PTL

-----------------------------------------------------------------------------
(* The harness: its inductive invariant *)

Counts == [hits : Nat, misses : Nat]
Stages == {"arriving", "waiting", "serving", "ok", "failed"}
Serving == {r \in Requests : stage[r] = "serving"}

\* What a request has on its account: what it has reported, or would report now.
Share(r) == IF stage[r] = "serving" THEN Growth(r)
            ELSE IF stage[r] = "ok" THEN metric[r] ELSE Zero

HarnessTypes ==
    /\ run \in Nat \ {0} /\ stage \in [Requests -> Stages]
    /\ slots \in Nat /\ waiters \in Seq(Requests) /\ granted \in SUBSET Requests
    /\ lookups \in Counts
    /\ initial \in [Requests -> Counts] /\ metric \in [Requests -> Counts]
    /\ \A r \in Requests : Share(r) \in Counts

\* No slot is handed out twice, and only those who wait are handed one.
Admission ==
    /\ slots + Cardinality(granted) + Cardinality(Serving) <= Limit
    /\ IsInjective(waiters) /\ ToSet(waiters) \cap granted = {}
    /\ \A r \in granted \cup ToSet(waiters) : stage[r] = "waiting"
    /\ \A r \in Requests : stage[r] # "arriving" => run <= Len(Strategies)

OwnCounted ==
    \A r \in Requests : stage[r] \in {"serving", "ok"} =>
        /\ OwnLookups(r).hits <= Share(r).hits
        /\ OwnLookups(r).misses <= Share(r).misses

SharedHits == [r \in Requests |-> Share(r).hits]
SharedMisses == [r \in Requests |-> Share(r).misses]

\* A lookup is on the account of at most Limit requests.
Attributed ==
    /\ SumFunctionOnSet(SharedHits, Requests) <= Limit * lookups.hits
    /\ SumFunctionOnSet(SharedMisses, Requests) <= Limit * lookups.misses

\* A bound on the ratio of every request's own lookups bounds every account's.
Balanced ==
    \A a, b \in Nat :
        /\ (\A r \in Requests : a * OwnLookups(r).misses <= b * OwnLookups(r).hits) =>
              \A r \in Requests : a * Share(r).misses <= b * Share(r).hits
        /\ (\A r \in Requests : a * OwnLookups(r).hits <= b * OwnLookups(r).misses) =>
              \A r \in Requests : a * Share(r).hits <= b * Share(r).misses

HInv == HarnessTypes /\ Admission /\ OwnCounted /\ Attributed /\ Balanced

-----------------------------------------------------------------------------
(* The semaphore *)

\* Slots that are handed over are not handed to anyone else.
LEMMA HandOver ==
    ASSUME waiters \in Seq(Requests), IsInjective(waiters),
           NEW k \in Nat, NEW n \in Nat, NEW holders \in SUBSET Requests,
           ToSet(waiters) \cap holders = {}, Wake(k, n, holders)
    PROVE  /\ slots' \in Nat /\ waiters' \in Seq(Requests) /\ granted' \in SUBSET Requests
           /\ slots' + Cardinality(granted') <= k + Cardinality(holders)
           /\ IsInjective(waiters') /\ ToSet(waiters') \cap granted' = {}
           /\ ToSet(waiters') \cup granted' = ToSet(waiters) \cup holders
<1> DEFINE given == CHOOSE g \in 0 .. Len(waiters) :
                       g <= n /\ g <= k /\ g \in {n, k, Len(waiters)}
<1>1. given \in 0 .. Len(waiters) /\ given <= k
  <2>1. Len(waiters) \in Nat
    OBVIOUS
  <2>2. \E g \in 0 .. Len(waiters) : g <= n /\ g <= k /\ g \in {n, k, Len(waiters)}
    <3>1. CASE n <= k /\ n <= Len(waiters)
      BY <2>1, <3>1
    <3>2. CASE k <= n /\ k <= Len(waiters)
      BY <2>1, <3>2
    <3>3. CASE Len(waiters) <= n /\ Len(waiters) <= k
      BY <2>1, <3>3
    <3> QED  BY <2>1, <3>1, <3>2, <3>3
  <2> QED  BY <2>2
<1> DEFINE front == SubSeq(waiters, 1, given)
           back == SubSeq(waiters, given + 1, Len(waiters))
<1>2. granted' = holders \cup ToSet(front) /\ waiters' = back /\ slots' = k - given
  BY DEF Wake
<1> HIDE DEF given
<1>3. /\ front \in Seq(Requests) /\ Len(front) = given
      /\ back \in Seq(Requests) /\ front \o back = waiters
  BY <1>1, SplitQueue
<1> HIDE DEF front, back
<1>4. /\ IsInjective(back) /\ ToSet(front) \cap ToSet(back) = {}
      /\ ToSet(waiters) = ToSet(front) \cup ToSet(back)
  <2>1. \A p, q \in Seq(Requests) :
           /\ ToSet(p \o q) = ToSet(p) \cup ToSet(q)
           /\ IsInjective(p \o q) => IsInjective(q) /\ ToSet(p) \cap ToSet(q) = {}
    BY ONLY ConcatenatedQueues
  <2> QED  BY <1>3, <2>1
<1>5. IsFiniteSet(ToSet(front)) /\ Cardinality(ToSet(front)) <= given
  BY <1>3, SizeOfQueue
<1>6. given \in Nat /\ k - given \in Nat
  <2>1. Len(waiters) \in Nat
    OBVIOUS
  <2> QED  BY <1>1, <2>1
<1>7. slots' + Cardinality(granted') <= k + Cardinality(holders)
  <2>1. IsFiniteSet(holders)
    BY WorkloadAssumption, FS_Subset
  <2>2. holders \cap ToSet(front) = {}
    BY <1>4
  <2>3. Cardinality(granted') = Cardinality(holders) + Cardinality(ToSet(front)) - 0
    BY <1>2, <1>5, <2>1, <2>2, FS_Union, FS_EmptySet
  <2>4. Cardinality(holders) \in Nat /\ Cardinality(ToSet(front)) \in Nat
    BY <1>5, <2>1, FS_CardinalityType
  <2> QED  BY <1>2, <1>5, <1>6, <2>3, <2>4
<1>8. ToSet(front) \subseteq Requests
  BY <1>3 DEF ToSet
<1> QED  BY <1>2, <1>3, <1>4, <1>6, <1>7, <1>8

LEMMA ServingFinite ==
    ASSUME NEW R \in SUBSET Requests
    PROVE  IsFiniteSet(R) /\ Cardinality(R) \in Nat
  BY WorkloadAssumption, FS_Subset, FS_CardinalityType

SemaphoreTypes ==
    slots \in Nat /\ waiters \in Seq(Requests) /\ granted \in SUBSET Requests

\* The tasks keep to the semaphore.
LEMMA AdmissionStep ==
    ASSUME HarnessTypes, Admission, NEW r \in Requests,
           Enter(r) \/ Wait(r) \/ Resume(r) \/ Succeed(r) \/ Fail(r)
    PROVE  SemaphoreTypes' /\ Admission'
<1> DEFINE taken == Cardinality(granted)
           busy == Cardinality(Serving)
<1>t. /\ slots \in Nat /\ waiters \in Seq(Requests) /\ granted \in SUBSET Requests
      /\ stage \in [Requests -> Stages]
  BY DEF HarnessTypes
<1>a. /\ slots + taken + busy <= Limit
      /\ IsInjective(waiters) /\ ToSet(waiters) \cap granted = {}
      /\ \A s \in granted \cup ToSet(waiters) : stage[s] = "waiting"
      /\ \A s \in Requests : stage[s] # "arriving" => run <= Len(Strategies)
  BY DEF Admission
<1>n. taken \in Nat /\ busy \in Nat /\ IsFiniteSet(Serving)
  BY <1>t, ServingFinite DEF Serving
<1>q. ToSet(waiters) \subseteq Requests
  BY <1>t DEF ToSet
<1>l. Limit \in Nat
  BY WorkloadAssumption
<1> HIDE DEF taken, busy
<1>1. CASE Enter(r)
  <2>1. /\ slots > 0 /\ slots' = slots - 1 /\ waiters' = waiters /\ granted' = granted
        /\ stage[r] = "arriving" /\ stage' = [stage EXCEPT ![r] = "serving"]
        /\ run' = run /\ run <= Len(Strategies)
    BY <1>1 DEF Enter, Begin, Running
  <2>2. Serving' = Serving \cup {r} /\ r \notin Serving
    BY <1>t, <2>1 DEF Serving
  <2>3. Cardinality(Serving') = busy + 1
    BY <1>n, <2>2, FS_AddElement DEF busy
  <2>4. slots' \in Nat /\ slots' + Cardinality(granted') + Cardinality(Serving') <= Limit
    BY <1>t, <1>a, <1>n, <1>l, <2>1, <2>3 DEF taken
  <2>5. \A s \in granted \cup ToSet(waiters) : stage'[s] = "waiting"
    BY <1>t, <1>a, <1>q, <2>1
  <2> QED  BY <1>t, <1>a, <2>1, <2>4, <2>5 DEF Admission, SemaphoreTypes
<1>2. CASE Wait(r)
  <2>1. /\ slots' = slots /\ waiters' = Append(waiters, r) /\ granted' = granted
        /\ stage[r] = "arriving" /\ stage' = [stage EXCEPT ![r] = "waiting"]
        /\ run' = run /\ run <= Len(Strategies)
    BY <1>2 DEF Wait, Running
  <2>2. Serving' = Serving
    BY <1>t, <2>1 DEF Serving
  <2>3. r \notin granted /\ r \notin ToSet(waiters)
    BY <1>a, <2>1
  <2>4. /\ waiters' \in Seq(Requests) /\ IsInjective(waiters')
        /\ ToSet(waiters') = ToSet(waiters) \cup {r}
    BY <1>t, <1>a, <2>1, <2>3, AppendedQueue
  <2>5. \A s \in granted \cup ToSet(waiters') : stage'[s] = "waiting"
    BY <1>t, <1>a, <1>q, <2>1, <2>4
  <2>6. slots' + Cardinality(granted') + Cardinality(Serving') <= Limit
    BY <1>a, <2>1, <2>2 DEF taken, busy
  <2>7. ToSet(waiters') \cap granted' = {}
    BY <1>a, <2>1, <2>3, <2>4
  <2> QED  BY <1>t, <1>a, <2>1, <2>4, <2>5, <2>6, <2>7 DEF Admission, SemaphoreTypes
<1>3. CASE Resume(r)
  <2> DEFINE holders == granted \ {r}
  <2>1. /\ r \in granted /\ Wake(slots, slots, holders)
        /\ stage' = [stage EXCEPT ![r] = "serving"] /\ run' = run
    BY <1>3 DEF Resume, Begin
  <2>2. stage[r] = "waiting" /\ run <= Len(Strategies)
    BY <1>a, <2>1
  <2>3. Serving' = Serving \cup {r} /\ r \notin Serving
    BY <1>t, <2>1, <2>2 DEF Serving
  <2>4. Cardinality(Serving') = busy + 1
    BY <1>n, <2>3, FS_AddElement DEF busy
  <2>5. Cardinality(holders) = taken - 1
    BY <1>t, <2>1, ServingFinite, FS_RemoveElement DEF taken
  <2>6. holders \in SUBSET Requests /\ ToSet(waiters) \cap holders = {}
    BY <1>t, <1>a
  <2> HIDE DEF holders
  <2>7. /\ slots' \in Nat /\ waiters' \in Seq(Requests) /\ granted' \in SUBSET Requests
        /\ slots' + Cardinality(granted') <= slots + Cardinality(holders)
        /\ IsInjective(waiters') /\ ToSet(waiters') \cap granted' = {}
        /\ ToSet(waiters') \cup granted' = ToSet(waiters) \cup holders
    BY <1>t, <1>a, <2>1, <2>6, HandOver
  <2>8. Cardinality(granted') \in Nat
    BY <2>7, ServingFinite
  <2>9. slots' + Cardinality(granted') + Cardinality(Serving') <= Limit
    BY <1>t, <1>a, <1>n, <1>l, <2>4, <2>5, <2>7, <2>8
  <2>10. \A s \in granted' \cup ToSet(waiters') : stage'[s] = "waiting"
    BY <1>t, <1>a, <1>q, <2>1, <2>7 DEF holders
  <2>11. \A s \in Requests : stage'[s] # "arriving" => run' <= Len(Strategies)
    BY <2>1, <2>2
  <2> QED  BY <2>7, <2>9, <2>10, <2>11 DEF Admission, SemaphoreTypes
<1>4. CASE Succeed(r) \/ Fail(r)
  <2>1. /\ stage[r] = "serving" /\ Wake(slots + 1, 1, granted) /\ run' = run
        /\ \E e \in {"ok", "failed"} : stage' = [stage EXCEPT ![r] = e]
    BY <1>4 DEF Succeed, Fail, Release
  <2>2. Serving' = Serving \ {r} /\ r \in Serving
    BY <1>t, <2>1 DEF Serving
  <2>3. Cardinality(Serving') = busy - 1
    BY <1>n, <2>2, FS_RemoveElement DEF busy
  <2>4. slots + 1 \in Nat /\ 1 \in Nat
    BY <1>t
  <2>5. /\ slots' \in Nat /\ waiters' \in Seq(Requests) /\ granted' \in SUBSET Requests
        /\ slots' + Cardinality(granted') <= slots + 1 + Cardinality(granted)
        /\ IsInjective(waiters') /\ ToSet(waiters') \cap granted' = {}
        /\ ToSet(waiters') \cup granted' = ToSet(waiters) \cup granted
    BY <1>t, <1>a, <2>1, <2>4, HandOver
  <2>6. Cardinality(granted') \in Nat
    BY <2>5, ServingFinite
  <2>7. slots' + Cardinality(granted') + Cardinality(Serving') <= Limit
    BY <1>t, <1>a, <1>n, <1>l, <2>3, <2>5, <2>6 DEF taken
  <2>8. \A s \in granted' \cup ToSet(waiters') : stage'[s] = "waiting"
    BY <1>t, <1>a, <1>q, <2>1, <2>5
  <2>9. \A s \in Requests : stage'[s] # "arriving" => run' <= Len(Strategies)
    BY <1>a, <2>1
  <2> QED  BY <2>5, <2>7, <2>8, <2>9 DEF Admission, SemaphoreTypes
<1> QED  BY <1>1, <1>2, <1>3, <1>4

-----------------------------------------------------------------------------
(* The accounts *)

LEMMA OwnFacts ==
    ASSUME run \in Nat \ {0}, run <= Len(Strategies), NEW r \in Requests
    PROVE  /\ OwnLookups(r) \in Counts
           /\ OwnLookups(r).hits + OwnLookups(r).misses > 0
<1> DEFINE p == PromptTokens[r]
           c == Reach[run]
           hits == IF r \notin SharesPrefix THEN 0 ELSE IF p <= c THEN p ELSE c
<1>1. p \in Nat \ {0} /\ c \in Nat
  <2>1. Len(Strategies) \in Nat
    BY WorkloadAssumption
  <2>2. run \in 1 .. Len(Strategies)
    BY <2>1
  <2> QED  BY <2>2, WorkloadAssumption
<1>2. OwnLookups(r) = [hits |-> hits, misses |-> p - hits]
  BY DEF OwnLookups
<1> HIDE DEF p, c
<1>3. hits \in Nat /\ p - hits \in Nat
  BY <1>1
<1> HIDE DEF hits
<1> QED  BY <1>1, <1>2, <1>3 DEF Counts

\* A request that begins looks up its own; everyone being served is charged.
LEMMA BeginShares ==
    ASSUME HarnessTypes, NEW r \in Requests, stage[r] \in {"arriving", "waiting"},
           run <= Len(Strategies), Begin(r), NEW o \in Counts, o = OwnLookups(r)
    PROVE  /\ run' = run /\ run' \in Nat \ {0} /\ stage' \in [Requests -> Stages]
           /\ lookups' \in Counts
           /\ initial' \in [Requests -> Counts] /\ metric' \in [Requests -> Counts]
           /\ lookups'.hits = lookups.hits + o.hits
           /\ lookups'.misses = lookups.misses + o.misses
           /\ Serving' = Serving \cup {r} /\ r \notin Serving
           /\ stage'[r] = "serving"
           /\ \A s \in Requests \ {r} : stage'[s] = stage[s]
           /\ Share(r) = Zero /\ Share(r)' = o
           /\ \A s \in Serving : Share(s)' = Plus(Share(s), o)
           /\ \A s \in Requests \ Serving' : Share(s)' = Share(s)
<1>t. /\ run \in Nat \ {0} /\ stage \in [Requests -> Stages] /\ lookups \in Counts
      /\ initial \in [Requests -> Counts] /\ metric \in [Requests -> Counts]
  BY DEF HarnessTypes
<1>1. /\ run' = run /\ metric' = metric
      /\ stage' = [stage EXCEPT ![r] = "serving"]
      /\ initial' = [initial EXCEPT ![r] = lookups]
      /\ lookups' = Plus(lookups, o)
  BY DEF Begin
<1>2. /\ lookups' = [hits |-> lookups.hits + o.hits, misses |-> lookups.misses + o.misses]
      /\ lookups.hits \in Nat /\ lookups.misses \in Nat
      /\ o.hits \in Nat /\ o.misses \in Nat
  BY <1>t, <1>1 DEF Plus, Counts
<1>3. /\ lookups'.hits = lookups.hits + o.hits
      /\ lookups'.misses = lookups.misses + o.misses /\ lookups' \in Counts
  BY <1>2 DEF Counts
<1>4. /\ stage' \in [Requests -> Stages] /\ initial' \in [Requests -> Counts]
      /\ stage'[r] = "serving" /\ initial'[r] = lookups
      /\ \A s \in Requests \ {r} : stage'[s] = stage[s] /\ initial'[s] = initial[s]
  BY <1>t, <1>1 DEF Stages
<1>5. Serving' = Serving \cup {r} /\ r \notin Serving
  BY <1>t, <1>4 DEF Serving
<1>6. Share(r) = Zero
  BY DEF Share
<1>7. Share(r)' = o
  <2>1. Share(r)' = [hits |-> lookups'.hits - lookups.hits, misses |-> lookups'.misses - lookups.misses]
    BY <1>4 DEF Share, Growth, Minus
  <2>2. lookups'.hits - lookups.hits = o.hits /\ lookups'.misses - lookups.misses = o.misses
    BY <1>2, <1>3
  <2>3. o = [hits |-> o.hits, misses |-> o.misses]
    BY DEF Counts
  <2> QED  BY <2>1, <2>2, <2>3
<1>8. ASSUME NEW s \in Serving PROVE Share(s)' = Plus(Share(s), o)
  <2>1. s \in Requests \ {r} /\ stage[s] = "serving"
    BY <1>5 DEF Serving
  <2>2. Share(s) = Minus(lookups, initial[s]) /\ Share(s)' = Minus(lookups', initial[s])
    BY <1>4, <2>1 DEF Share, Growth
  <2>3. initial[s] \in Counts
    BY <1>t, <2>1
  <2> DEFINE i == initial[s]
  <2>4. i.hits \in Nat /\ i.misses \in Nat
    BY <2>3 DEF Counts
  <2>5. /\ lookups'.hits - i.hits = lookups.hits - i.hits + o.hits
        /\ lookups'.misses - i.misses = lookups.misses - i.misses + o.misses
    BY <1>2, <1>3, <2>4
  <2> QED  BY <2>2, <2>5 DEF Minus, Plus
<1>9. ASSUME NEW s \in Requests \ Serving' PROVE Share(s)' = Share(s)
  <2>1. s # r /\ stage[s] # "serving" /\ stage'[s] = stage[s]
    BY <1>4, <1>5 DEF Serving
  <2> QED  BY <1>1, <2>1 DEF Share
<1> QED  BY <1>t, <1>1, <1>3, <1>4, <1>5, <1>6, <1>7, <1>8, <1>9

\* Charging a counter to at most Limit accounts while it grows by b.
LEMMA ChargedOnce ==
    ASSUME NEW f, NEW g, NEW R \in SUBSET Requests, Cardinality(R) <= Limit,
           NEW b \in Nat, NEW c \in Nat,
           \A x \in Requests : f[x] \in Nat /\ g[x] \in Nat,
           \A x \in R : g[x] <= f[x] + b, \A x \in Requests \ R : g[x] <= f[x],
           SumFunctionOnSet(f, Requests) <= Limit * c
    PROVE  SumFunctionOnSet(g, Requests) <= Limit * (c + b)
<1> DEFINE F == SumFunctionOnSet(f, Requests)
           G == SumFunctionOnSet(g, Requests)
           n == Cardinality(R)
<1>1. G <= F + b * n
  BY WorkloadAssumption, SumGrows
<1>2. F \in Nat /\ G \in Nat
  BY WorkloadAssumption, SumIsNat
<1>3. n \in Nat /\ Limit \in Nat /\ n <= Limit
  BY ServingFinite, WorkloadAssumption
<1>4. F <= Limit * c
  OBVIOUS
<1> HIDE DEF F, G, n
<1>5. b * n <= b * Limit /\ b * n \in Nat
  BY <1>3
<1>6. Limit * (c + b) = Limit * c + b * Limit /\ Limit * c \in Nat /\ b * Limit \in Nat
  BY <1>3
<1>7. G <= Limit * (c + b)
  BY ONLY <1>1, <1>2, <1>4, <1>5, <1>6
<1> QED  BY <1>7 DEF G

LEMMA DistributedSum ==
    ASSUME NEW a \in Nat, NEW b \in Nat, NEW x \in Nat, NEW y \in Nat,
           NEW z \in Nat, NEW w \in Nat, a * x <= b * y, a * z <= b * w
    PROVE  a * (x + z) <= b * (y + w)
<1>1. a * (x + z) = a * x + a * z /\ b * (y + w) = b * y + b * w
  OBVIOUS
<1>2. a * x \in Nat /\ a * z \in Nat /\ b * y \in Nat /\ b * w \in Nat
  OBVIOUS
<1>3. a * x + a * z <= b * y + b * w
  BY <1>2
<1> QED  BY <1>1, <1>3

\* A request that begins keeps the accounts in order.
LEMMA BeginStep ==
    ASSUME HInv, NEW r \in Requests, stage[r] \in {"arriving", "waiting"},
           run <= Len(Strategies), Begin(r), SemaphoreTypes', Admission'
    PROVE  HInv'
<1> DEFINE o == OwnLookups(r)
<1>t. HarnessTypes /\ Admission /\ OwnCounted /\ Attributed /\ Balanced
  BY DEF HInv
<1>u. run \in Nat \ {0} /\ lookups \in Counts /\ \A s \in Requests : Share(s) \in Counts
  BY <1>t DEF HarnessTypes
<1>o. o \in Counts /\ o.hits \in Nat /\ o.misses \in Nat
  BY <1>u, OwnFacts DEF Counts
<1>1. /\ run' = run /\ run' \in Nat \ {0} /\ stage' \in [Requests -> Stages]
      /\ lookups' \in Counts
      /\ initial' \in [Requests -> Counts] /\ metric' \in [Requests -> Counts]
      /\ lookups'.hits = lookups.hits + o.hits
      /\ lookups'.misses = lookups.misses + o.misses
      /\ Serving' = Serving \cup {r} /\ r \notin Serving
      /\ stage'[r] = "serving"
      /\ \A s \in Requests \ {r} : stage'[s] = stage[s]
      /\ Share(r) = Zero /\ Share(r)' = o
      /\ \A s \in Serving : Share(s)' = Plus(Share(s), o)
      /\ \A s \in Requests \ Serving' : Share(s)' = Share(s)
  BY <1>t, <1>o, BeginShares
<1>2. \A s \in Requests : OwnLookups(s)' = OwnLookups(s)
  BY <1>1 DEF OwnLookups
<1> HIDE DEF o
<1>3. \A s \in Requests : /\ Share(s).hits \in Nat /\ Share(s).misses \in Nat
                         /\ OwnLookups(s).hits \in Nat /\ OwnLookups(s).misses \in Nat
  BY <1>u, OwnFacts DEF Counts
<1>r. Share(r).hits = 0 /\ Share(r).misses = 0
  BY <1>1 DEF Zero
<1>4. \A s \in Requests :
         /\ s \in Serving => /\ Share(s)'.hits = Share(s).hits + o.hits
                             /\ Share(s)'.misses = Share(s).misses + o.misses
         /\ s = r => Share(s)'.hits = o.hits /\ Share(s)'.misses = o.misses
         /\ s \notin Serving' => /\ Share(s)'.hits = Share(s).hits
                                 /\ Share(s)'.misses = Share(s).misses
  BY <1>1 DEF Plus
<1>c. \A s \in Requests : s \in Serving \/ s = r \/ s \notin Serving'
  BY <1>1
<1>5. \A s \in Requests : Share(s)' \in Counts
  <2> SUFFICES ASSUME NEW s \in Requests PROVE Share(s)' \in Counts
    OBVIOUS
  <2>1. CASE s \in Serving
    <3>1. Plus(Share(s), o) \in Counts
      BY <1>3, <1>o DEF Plus, Counts
    <3> QED  BY <1>1, <2>1, <3>1
  <2>2. CASE s \notin Serving
    BY <1>1, <1>o, <1>u, <2>2
  <2> QED  BY <2>1, <2>2
<1>6. HarnessTypes'
  BY <1>1, <1>5 DEF HarnessTypes, SemaphoreTypes
<1>7. OwnCounted'
  <2> SUFFICES ASSUME NEW s \in Requests, stage'[s] \in {"serving", "ok"}
               PROVE  /\ OwnLookups(s).hits <= Share(s)'.hits
                      /\ OwnLookups(s).misses <= Share(s)'.misses
    BY <1>2 DEF OwnCounted
  <2>1. CASE s = r
    BY <1>4, <1>o, <2>1 DEF o
  <2>2. CASE s # r
    <3>1. /\ OwnLookups(s).hits <= Share(s).hits
          /\ OwnLookups(s).misses <= Share(s).misses
      BY <1>1, <1>t, <2>2 DEF OwnCounted
    <3>2. \/ Share(s)'.hits = Share(s).hits + o.hits /\ Share(s)'.misses = Share(s).misses + o.misses
          \/ Share(s)'.hits = Share(s).hits /\ Share(s)'.misses = Share(s).misses
      BY <1>4, <1>c, <2>2
    <3>3. /\ Share(s).hits \in Nat /\ Share(s).misses \in Nat
          /\ OwnLookups(s).hits \in Nat /\ OwnLookups(s).misses \in Nat
      BY <1>3
    <3> QED  BY <1>o, <3>1, <3>2, <3>3
  <2> QED  BY <2>1, <2>2
<1>8. Attributed'
  <2>1. Serving' \in SUBSET Requests /\ Cardinality(Serving') <= Limit
    <3>1. /\ slots' + Cardinality(granted') + Cardinality(Serving') <= Limit
          /\ slots' \in Nat /\ granted' \in SUBSET Requests
      BY DEF Admission, SemaphoreTypes
    <3>2. Serving' \in SUBSET Requests
      BY DEF Serving
    <3>3. Cardinality(granted') \in Nat /\ Cardinality(Serving') \in Nat /\ Limit \in Nat
      BY <3>1, <3>2, ServingFinite, WorkloadAssumption
    <3> QED  BY <3>1, <3>2, <3>3
  <2>2. lookups.hits \in Nat /\ lookups.misses \in Nat
    BY <1>u DEF Counts
  <2>3. SumFunctionOnSet(SharedHits', Requests) <= Limit * (lookups.hits + o.hits)
    <3>1. \A s \in Requests : SharedHits[s] = Share(s).hits /\ SharedHits'[s] = Share(s)'.hits
      BY DEF SharedHits
    <3>2. \A s \in Requests : SharedHits[s] \in Nat /\ SharedHits'[s] \in Nat
      BY <1>3, <1>5, <3>1 DEF Counts
    <3>3. ASSUME NEW s \in Serving' PROVE SharedHits'[s] <= SharedHits[s] + o.hits
      <4>1. s \in Requests /\ (s \in Serving \/ s = r)
        BY <1>1, <2>1
      <4>2. \/ Share(s)'.hits = Share(s).hits + o.hits
            \/ Share(s).hits = 0 /\ Share(s)'.hits = o.hits
        BY <1>4, <1>r, <4>1
      <4> QED  BY <1>3, <1>o, <3>1, <4>1, <4>2
    <3>4. ASSUME NEW s \in Requests \ Serving' PROVE SharedHits'[s] <= SharedHits[s]
      <4>1. Share(s)'.hits = Share(s).hits /\ Share(s).hits \in Nat
        BY <1>3, <1>4
      <4> QED  BY <3>1, <4>1
    <3>5. SumFunctionOnSet(SharedHits, Requests) <= Limit * lookups.hits
      BY <1>t DEF Attributed
    <3> QED  BY <1>o, <2>1, <2>2, <3>2, <3>3, <3>4, <3>5, ChargedOnce
  <2>4. SumFunctionOnSet(SharedMisses', Requests) <= Limit * (lookups.misses + o.misses)
    <3>1. \A s \in Requests : SharedMisses[s] = Share(s).misses /\ SharedMisses'[s] = Share(s)'.misses
      BY DEF SharedMisses
    <3>2. \A s \in Requests : SharedMisses[s] \in Nat /\ SharedMisses'[s] \in Nat
      BY <1>3, <1>5, <3>1 DEF Counts
    <3>3. ASSUME NEW s \in Serving' PROVE SharedMisses'[s] <= SharedMisses[s] + o.misses
      <4>1. s \in Requests /\ (s \in Serving \/ s = r)
        BY <1>1, <2>1
      <4>2. \/ Share(s)'.misses = Share(s).misses + o.misses
            \/ Share(s).misses = 0 /\ Share(s)'.misses = o.misses
        BY <1>4, <1>r, <4>1
      <4> QED  BY <1>3, <1>o, <3>1, <4>1, <4>2
    <3>4. ASSUME NEW s \in Requests \ Serving' PROVE SharedMisses'[s] <= SharedMisses[s]
      <4>1. Share(s)'.misses = Share(s).misses /\ Share(s).misses \in Nat
        BY <1>3, <1>4
      <4> QED  BY <3>1, <4>1
    <3>5. SumFunctionOnSet(SharedMisses, Requests) <= Limit * lookups.misses
      BY <1>t DEF Attributed
    <3> QED  BY <1>o, <2>1, <2>2, <3>2, <3>3, <3>4, <3>5, ChargedOnce
  <2> QED  BY <1>1, <2>3, <2>4 DEF Attributed
<1>9. Balanced'
  <2> SUFFICES ASSUME NEW a \in Nat, NEW b \in Nat
               PROVE  /\ (\A s \in Requests : a * OwnLookups(s).misses <= b * OwnLookups(s).hits) =>
                            \A s \in Requests : a * Share(s)'.misses <= b * Share(s)'.hits
                      /\ (\A s \in Requests : a * OwnLookups(s).hits <= b * OwnLookups(s).misses) =>
                            \A s \in Requests : a * Share(s)'.hits <= b * Share(s)'.misses
    BY <1>2 DEF Balanced
  <2>b. /\ (\A s \in Requests : a * OwnLookups(s).misses <= b * OwnLookups(s).hits) =>
              \A s \in Requests : a * Share(s).misses <= b * Share(s).hits
        /\ (\A s \in Requests : a * OwnLookups(s).hits <= b * OwnLookups(s).misses) =>
              \A s \in Requests : a * Share(s).hits <= b * Share(s).misses
    BY <1>t DEF Balanced
  <2>l. \A x, y, z, w \in Nat : a * x <= b * y /\ a * z <= b * w => a * (x + z) <= b * (y + w)
    BY DistributedSum
  <2>1. ASSUME \A s \in Requests : a * OwnLookups(s).misses <= b * OwnLookups(s).hits,
               NEW s \in Requests
        PROVE  a * Share(s)'.misses <= b * Share(s)'.hits
    <3>1. a * Share(s).misses <= b * Share(s).hits
      BY <2>1, <2>b
    <3>2. a * o.misses <= b * o.hits
      BY <2>1 DEF o
    <3>3. Share(s).hits \in Nat /\ Share(s).misses \in Nat
      BY <1>3
    <3>4. a * (Share(s).misses + o.misses) <= b * (Share(s).hits + o.hits)
      BY ONLY <1>o, <2>l, <3>1, <3>2, <3>3
    <3> QED  BY ONLY <1>4, <1>c, <3>1, <3>2, <3>4
  <2>2. ASSUME \A s \in Requests : a * OwnLookups(s).hits <= b * OwnLookups(s).misses,
               NEW s \in Requests
        PROVE  a * Share(s)'.hits <= b * Share(s)'.misses
    <3>1. a * Share(s).hits <= b * Share(s).misses
      BY <2>2, <2>b
    <3>2. a * o.hits <= b * o.misses
      BY <2>2 DEF o
    <3>3. Share(s).hits \in Nat /\ Share(s).misses \in Nat
      BY <1>3
    <3>4. a * (Share(s).hits + o.hits) <= b * (Share(s).misses + o.misses)
      BY ONLY <1>o, <2>l, <3>1, <3>2, <3>3
    <3> QED  BY ONLY <1>4, <1>c, <3>1, <3>2, <3>4
  <2> QED  BY <2>1, <2>2
<1> QED  BY <1>6, <1>7, <1>8, <1>9 DEF HInv

\* A step that looks nothing up keeps or closes accounts.
LEMMA AccountsKept ==
    ASSUME HInv, run' = run, lookups' = lookups,
           stage' \in [Requests -> Stages], initial' \in [Requests -> Counts],
           metric' \in [Requests -> Counts], SemaphoreTypes', Admission',
           \A s \in Requests : \/ Share(s)' = Share(s)
                               \/ Share(s)' = Zero /\ stage'[s] \notin {"serving", "ok"},
           \A s \in Requests : stage'[s] \in {"serving", "ok"} => stage[s] \in {"serving", "ok"}
    PROVE  HInv'
<1>t. HarnessTypes /\ Admission /\ OwnCounted /\ Attributed /\ Balanced
  BY DEF HInv
<1>u. run \in Nat \ {0} /\ lookups \in Counts /\ \A s \in Requests : Share(s) \in Counts
  BY <1>t DEF HarnessTypes
<1>1. \A s \in Requests : Share(s)' \in Counts
  BY <1>u DEF Zero, Counts
<1>2. \A s \in Requests : OwnLookups(s)' = OwnLookups(s)
  BY DEF OwnLookups
<1>3. HarnessTypes'
  BY <1>u, <1>1 DEF HarnessTypes, SemaphoreTypes
<1>4. OwnCounted'
  <2> SUFFICES ASSUME NEW s \in Requests, stage'[s] \in {"serving", "ok"}
               PROVE  /\ OwnLookups(s).hits <= Share(s)'.hits
                      /\ OwnLookups(s).misses <= Share(s)'.misses
    BY <1>2 DEF OwnCounted
  <2>1. Share(s)' = Share(s) /\ stage[s] \in {"serving", "ok"}
    OBVIOUS
  <2> QED  BY <1>t, <2>1 DEF OwnCounted
<1>5. \A s \in Requests : /\ Share(s).hits \in Nat /\ Share(s).misses \in Nat
                         /\ Share(s)'.hits \in Nat /\ Share(s)'.misses \in Nat
  BY <1>u, <1>1 DEF Counts
<1>6. ASSUME NEW s \in Requests
      PROVE  \/ Share(s)'.hits = Share(s).hits /\ Share(s)'.misses = Share(s).misses
             \/ Share(s)'.hits = 0 /\ Share(s)'.misses = 0
  <2>1. Zero.hits = 0 /\ Zero.misses = 0
    BY DEF Zero
  <2>2. CASE Share(s)' = Share(s)
    BY <2>2
  <2>3. CASE Share(s)' = Zero
    BY <2>1, <2>3
  <2> QED  BY <2>2, <2>3
<1>7. Attributed'
  <2>1. {} \in SUBSET Requests /\ Cardinality({}) <= Limit
    BY WorkloadAssumption, FS_EmptySet
  <2>2. lookups.hits \in Nat /\ lookups.misses \in Nat
    BY <1>u DEF Counts
  <2>3. SumFunctionOnSet(SharedHits', Requests) <= Limit * (lookups.hits + 0)
    <3>1. \A s \in Requests : /\ SharedHits[s] \in Nat /\ SharedHits'[s] \in Nat
                             /\ SharedHits'[s] <= SharedHits[s]
      BY <1>5, <1>6 DEF SharedHits
    <3>2. SumFunctionOnSet(SharedHits, Requests) <= Limit * lookups.hits
      BY <1>t DEF Attributed
    <3> QED  BY <2>1, <2>2, <3>1, <3>2, ChargedOnce
  <2>4. SumFunctionOnSet(SharedMisses', Requests) <= Limit * (lookups.misses + 0)
    <3>1. \A s \in Requests : /\ SharedMisses[s] \in Nat /\ SharedMisses'[s] \in Nat
                             /\ SharedMisses'[s] <= SharedMisses[s]
      BY <1>5, <1>6 DEF SharedMisses
    <3>2. SumFunctionOnSet(SharedMisses, Requests) <= Limit * lookups.misses
      BY <1>t DEF Attributed
    <3> QED  BY <2>1, <2>2, <3>1, <3>2, ChargedOnce
  <2>5. lookups.hits + 0 = lookups'.hits /\ lookups.misses + 0 = lookups'.misses
    BY <2>2
  <2> QED  BY <2>3, <2>4, <2>5 DEF Attributed
<1>8. Balanced'
  <2> SUFFICES ASSUME NEW a \in Nat, NEW b \in Nat
               PROVE  /\ (\A s \in Requests : a * OwnLookups(s).misses <= b * OwnLookups(s).hits) =>
                            \A s \in Requests : a * Share(s)'.misses <= b * Share(s)'.hits
                      /\ (\A s \in Requests : a * OwnLookups(s).hits <= b * OwnLookups(s).misses) =>
                            \A s \in Requests : a * Share(s)'.hits <= b * Share(s)'.misses
    BY <1>2 DEF Balanced
  <2>b. /\ (\A s \in Requests : a * OwnLookups(s).misses <= b * OwnLookups(s).hits) =>
              \A s \in Requests : a * Share(s).misses <= b * Share(s).hits
        /\ (\A s \in Requests : a * OwnLookups(s).hits <= b * OwnLookups(s).misses) =>
              \A s \in Requests : a * Share(s).hits <= b * Share(s).misses
    BY <1>t DEF Balanced
  <2>z. a * 0 <= b * 0
    OBVIOUS
  <2> QED  BY ONLY <1>6, <2>b, <2>z
<1> QED  BY <1>3, <1>4, <1>7, <1>8 DEF HInv

LEMMA TaskStep ==
    ASSUME HInv, NEW r \in Requests,
           Enter(r) \/ Wait(r) \/ Resume(r) \/ Succeed(r) \/ Fail(r)
    PROVE  HInv'
<1>t. HarnessTypes /\ Admission
  BY DEF HInv
<1>u. /\ stage \in [Requests -> Stages] /\ lookups \in Counts
      /\ initial \in [Requests -> Counts] /\ metric \in [Requests -> Counts]
      /\ \A s \in Requests : Share(s) \in Counts
  BY <1>t DEF HarnessTypes
<1>a. SemaphoreTypes' /\ Admission'
  BY <1>t, AdmissionStep
<1>1. CASE Enter(r)
  <2>1. stage[r] = "arriving" /\ run <= Len(Strategies) /\ Begin(r)
    BY <1>1 DEF Enter, Running
  <2> QED  BY <1>a, <2>1, BeginStep
<1>2. CASE Resume(r)
  <2>1. r \in granted /\ Begin(r)
    BY <1>2 DEF Resume
  <2>2. stage[r] = "waiting"
    BY <1>t, <2>1 DEF Admission
  <2>3. run <= Len(Strategies)
    BY <1>t, <2>2 DEF Admission
  <2> QED  BY <1>a, <2>1, <2>2, <2>3, BeginStep
<1>3. CASE Wait(r)
  <2>1. /\ stage[r] = "arriving" /\ stage' = [stage EXCEPT ![r] = "waiting"]
        /\ run' = run /\ lookups' = lookups /\ initial' = initial /\ metric' = metric
    BY <1>3 DEF Wait
  <2>2. stage' \in [Requests -> Stages]
    BY <1>u, <2>1 DEF Stages
  <2>3. \A s \in Requests : Share(s)' = Share(s)
    BY <1>u, <2>1 DEF Share, Growth
  <2>4. \A s \in Requests : stage'[s] \in {"serving", "ok"} => stage[s] \in {"serving", "ok"}
    BY <1>u, <2>1
  <2> QED  BY <1>a, <1>u, <2>1, <2>2, <2>3, <2>4, AccountsKept
<1>4. CASE Succeed(r)
  <2>1. /\ stage[r] = "serving" /\ stage' = [stage EXCEPT ![r] = "ok"]
        /\ metric' = [metric EXCEPT ![r] = Growth(r)]
        /\ run' = run /\ lookups' = lookups /\ initial' = initial
    BY <1>4 DEF Succeed
  <2>2. stage' \in [Requests -> Stages]
    BY <1>u, <2>1 DEF Stages
  <2>3. Growth(r) \in Counts
    BY <1>u, <2>1 DEF Share
  <2>4. metric' \in [Requests -> Counts]
    BY <1>u, <2>1, <2>3
  <2>5. \A s \in Requests : Share(s)' = Share(s)
    BY <1>u, <2>1 DEF Share, Growth
  <2>6. \A s \in Requests : stage'[s] \in {"serving", "ok"} => stage[s] \in {"serving", "ok"}
    BY <1>u, <2>1
  <2> QED  BY <1>a, <1>u, <2>1, <2>2, <2>4, <2>5, <2>6, AccountsKept
<1>5. CASE Fail(r)
  <2>1. /\ stage[r] = "serving" /\ stage' = [stage EXCEPT ![r] = "failed"]
        /\ run' = run /\ lookups' = lookups /\ initial' = initial /\ metric' = metric
    BY <1>5 DEF Fail
  <2>2. stage' \in [Requests -> Stages]
    BY <1>u, <2>1 DEF Stages
  <2>3. ASSUME NEW s \in Requests
        PROVE  \/ Share(s)' = Share(s)
               \/ Share(s)' = Zero /\ stage'[s] \notin {"serving", "ok"}
    <3>1. CASE s = r
      <4>1. stage'[s] = "failed"
        BY <1>u, <2>1, <3>1
      <4> QED  BY <4>1 DEF Share
    <3>2. CASE s # r
      <4>1. stage'[s] = stage[s]
        BY <1>u, <2>1, <3>2
      <4> QED  BY <2>1, <4>1 DEF Share, Growth
    <3> QED  BY <3>1, <3>2
  <2>4. \A s \in Requests : stage'[s] \in {"serving", "ok"} => stage[s] \in {"serving", "ok"}
    BY <1>u, <2>1
  <2> QED  BY <1>a, <1>u, <2>1, <2>2, <2>3, <2>4, AccountsKept
<1> QED  BY <1>1, <1>2, <1>3, <1>4, <1>5

\* The next benchmark begins with no task, no slot taken and a new engine.
LEMMA SummariseStep ==
    ASSUME HInv, Summarise
    PROVE  HInv'
<1>t. HarnessTypes /\ Admission
  BY DEF HInv
<1>u. /\ run \in Nat \ {0} /\ stage \in [Requests -> Stages]
      /\ SemaphoreTypes
  BY <1>t DEF HarnessTypes, SemaphoreTypes
<1>1. /\ run' = run + 1 /\ stage' = AllArriving
      /\ lookups' = Zero /\ initial' = Zeros /\ metric' = Zeros
      /\ slots' = slots /\ waiters' = waiters /\ granted' = granted
      /\ \A r \in Requests : stage[r] \in {"ok", "failed"}
  BY DEF Summarise, AllEnded, Ended, semaphore
<1>z. Zero \in Counts /\ Zero.hits = 0 /\ Zero.misses = 0
  BY DEF Zero, Counts
<1>2. \A r \in Requests : stage'[r] = "arriving"
  BY <1>1 DEF AllArriving
<1>3. ASSUME NEW r \in Requests PROVE Share(r)' = Zero
  <2>1. stage'[r] = "arriving"
    BY <1>2
  <2> QED  BY <2>1 DEF Share
<1>4. HarnessTypes'
  <2>1. run' \in Nat \ {0} /\ stage' \in [Requests -> Stages]
    BY <1>u, <1>1 DEF AllArriving, Stages
  <2>2. initial' \in [Requests -> Counts] /\ metric' \in [Requests -> Counts]
    BY <1>1, <1>z DEF Zeros
  <2>3. slots' \in Nat /\ waiters' \in Seq(Requests) /\ granted' \in SUBSET Requests
    BY <1>u, <1>1 DEF SemaphoreTypes
  <2>4. \A r \in Requests : Share(r)' \in Counts
    BY <1>3, <1>z
  <2> QED  BY <1>1, <1>z, <2>1, <2>2, <2>3, <2>4 DEF HarnessTypes
<1>5. Admission'
  <2>1. /\ slots + Cardinality(granted) + Cardinality(Serving) <= Limit
        /\ IsInjective(waiters) /\ ToSet(waiters) \cap granted = {}
        /\ \A r \in granted \cup ToSet(waiters) : stage[r] = "waiting"
    BY <1>t DEF Admission
  <2>2. granted \cup ToSet(waiters) \subseteq Requests
    BY <1>u DEF ToSet, SemaphoreTypes
  <2>3. granted \cup ToSet(waiters) = {}
    BY <1>1, <2>1, <2>2
  <2>4. Serving = {} /\ Serving' = {}
    BY <1>1, <1>2 DEF Serving
  <2>5. slots' + Cardinality(granted') + Cardinality(Serving') <= Limit
    BY <1>1, <2>1, <2>4
  <2> QED  BY <1>1, <1>2, <2>1, <2>3, <2>5 DEF Admission
<1>6. OwnCounted'
  BY <1>2 DEF OwnCounted
<1>7. Attributed'
  <2>1. {} \in SUBSET Requests /\ Cardinality({}) <= Limit /\ Limit \in Nat
    BY WorkloadAssumption, FS_EmptySet
  <2> DEFINE none == [r \in Requests |-> 0]
  <2>3. SharedHits' = none /\ SharedMisses' = none
    BY <1>3, <1>z DEF SharedHits, SharedMisses
  <2>4. SumFunctionOnSet(none, Requests) = 0
    BY WorkloadAssumption, SumOfZeros
  <2>5. Limit * 0 = 0
    BY <2>1
  <2> HIDE DEF none
  <2> QED  BY <1>1, <1>z, <2>3, <2>4, <2>5 DEF Attributed
<1>8. Balanced'
  <2>1. \A a, b \in Nat : a * 0 <= b * 0
    OBVIOUS
  <2>2. \A r \in Requests : Share(r)'.hits = 0 /\ Share(r)'.misses = 0
    BY <1>3, <1>z
  <2> QED  BY <2>1, <2>2 DEF Balanced
<1> QED  BY <1>4, <1>5, <1>6, <1>7, <1>8 DEF HInv

LEMMA HarnessInit == ABInit => HInv
<1> SUFFICES ASSUME ABInit PROVE HInv
  OBVIOUS
<1>1. /\ run = 1 /\ slots = Limit /\ waiters = <<>> /\ granted = {}
      /\ stage = AllArriving /\ lookups = Zero /\ initial = Zeros /\ metric = Zeros
  BY DEF ABInit
<1>z. Zero \in Counts /\ Zero.hits = 0 /\ Zero.misses = 0
  BY DEF Zero, Counts
<1>l. Limit \in Nat
  BY WorkloadAssumption
<1>2. \A r \in Requests : stage[r] = "arriving"
  BY <1>1 DEF AllArriving
<1>3. \A r \in Requests : Share(r) = Zero
  BY <1>2 DEF Share
<1>4. HarnessTypes
  <2>1. stage \in [Requests -> Stages]
    BY <1>1 DEF AllArriving, Stages
  <2>2. initial \in [Requests -> Counts] /\ metric \in [Requests -> Counts]
    BY <1>1, <1>z DEF Zeros
  <2> QED  BY <1>1, <1>3, <1>z, <1>l, <2>1, <2>2 DEF HarnessTypes
<1>5. Admission
  <2>1. Serving = {}
    BY <1>2 DEF Serving
  <2>2. slots + Cardinality(granted) + Cardinality(Serving) <= Limit
    BY <1>1, <1>l, <2>1, FS_EmptySet
  <2>3. ToSet(waiters) = {} /\ IsInjective(waiters)
    BY <1>1, EmptyQueue
  <2> QED  BY <1>1, <1>2, <2>2, <2>3 DEF Admission
<1>6. OwnCounted
  BY <1>2 DEF OwnCounted
<1>7. Attributed
  <2> DEFINE none == [r \in Requests |-> 0]
  <2>1. SharedHits = none /\ SharedMisses = none
    BY <1>3, <1>z DEF SharedHits, SharedMisses
  <2>2. SumFunctionOnSet(none, Requests) = 0
    BY WorkloadAssumption, SumOfZeros
  <2>3. Limit * 0 = 0
    BY <1>l
  <2> HIDE DEF none
  <2> QED  BY <1>1, <1>z, <2>1, <2>2, <2>3 DEF Attributed
<1>8. Balanced
  <2>1. \A a, b \in Nat : a * 0 <= b * 0
    OBVIOUS
  <2>2. \A r \in Requests : Share(r).hits = 0 /\ Share(r).misses = 0
    BY <1>3, <1>z
  <2> QED  BY <2>1, <2>2 DEF Balanced
<1> QED  BY <1>4, <1>5, <1>6, <1>7, <1>8 DEF HInv

LEMMA HarnessStep == HInv /\ [ABNext]_abVars => HInv'
<1> SUFFICES ASSUME HInv, [ABNext]_abVars PROVE HInv'
  OBVIOUS
<1>1. ASSUME NEW r \in Requests,
             Enter(r) \/ Wait(r) \/ Resume(r) \/ Succeed(r) \/ Fail(r)
      PROVE  HInv'
  BY <1>1, TaskStep
<1>2. CASE Summarise
  BY <1>2, SummariseStep
<1>3. CASE AllFailed \/ UNCHANGED abVars
  <2>1. /\ run' = run /\ stage' = stage /\ lookups' = lookups
        /\ slots' = slots /\ waiters' = waiters /\ granted' = granted
        /\ initial' = initial /\ metric' = metric
    BY <1>3 DEF AllFailed, abVars, semaphore
  <2>2. HarnessTypes'
    BY <2>1 DEF HInv, HarnessTypes, Share, Growth
  <2>3. Admission'
    BY <2>1 DEF HInv, Admission, Serving
  <2>4. OwnCounted'
    BY <2>1 DEF HInv, OwnCounted, Share, Growth, OwnLookups
  <2>5. Attributed'
    BY <2>1 DEF HInv, Attributed, SharedHits, SharedMisses, Share, Growth
  <2>6. Balanced'
    BY <2>1 DEF HInv, Balanced, Share, Growth, OwnLookups
  <2> QED  BY <2>2, <2>3, <2>4, <2>5, <2>6 DEF HInv
<1> QED  BY <1>1, <1>2, <1>3 DEF ABNext

LEMMA HarnessInductive == ABSpec => []HInv
<1>1. ABInit => HInv
  BY HarnessInit
<1>2. HInv /\ [ABNext]_abVars => HInv'
  BY HarnessStep
<1> QED  BY <1>1, <1>2, PTL DEF ABSpec

-----------------------------------------------------------------------------
(* What the summary says *)

LEMMA ReportedFacts ==
    ASSUME HInv
    PROVE  /\ Successful \in SUBSET Requests /\ IsFiniteSet(Successful)
           /\ \A r \in Successful : /\ Hits[r] = Share(r).hits /\ Misses[r] = Share(r).misses
                                    /\ Hits[r] \in Nat /\ Misses[r] \in Nat
                                    /\ SharedHits[r] = Hits[r] /\ SharedMisses[r] = Misses[r]
           /\ Reported.hits = SumFunctionOnSet(Hits, Successful) /\ Reported.hits \in Nat
           /\ Reported.misses = SumFunctionOnSet(Misses, Successful) /\ Reported.misses \in Nat
<1>1. Successful \in SUBSET Requests /\ IsFiniteSet(Successful)
  <2>1. Successful \in SUBSET Requests
    BY DEF Successful
  <2> QED  BY <2>1, ServingFinite
<1>2. ASSUME NEW r \in Successful
      PROVE  /\ Hits[r] = Share(r).hits /\ Misses[r] = Share(r).misses
             /\ Hits[r] \in Nat /\ Misses[r] \in Nat
             /\ SharedHits[r] = Hits[r] /\ SharedMisses[r] = Misses[r]
  <2>1. r \in Requests /\ Share(r) = metric[r] /\ Share(r) \in Counts
    BY DEF Successful, Share, HInv, HarnessTypes
  <2>2. Share(r).hits \in Nat /\ Share(r).misses \in Nat
    BY <2>1 DEF Counts
  <2> QED  BY <2>1, <2>2 DEF Hits, Misses, SharedHits, SharedMisses
<1>3. SumFunctionOnSet(Hits, Successful) \in Nat
  BY <1>1, <1>2, SumIsNat
<1>4. SumFunctionOnSet(Misses, Successful) \in Nat
  BY <1>1, <1>2, SumIsNat
<1> QED  BY <1>1, <1>2, <1>3, <1>4 DEF Reported

\* However the tasks of a benchmark interleave, fail and queue for the
\* semaphore, the hits and misses reported of a request hold its own, and the
\* summary counts no lookup more often than requests run at a time.
THEOREM AttributionBounded == ABSpec => []CountedWithinLimit
<1>1. HInv => CountedWithinLimit
  <2> SUFFICES ASSUME HInv PROVE CountedWithinLimit
    OBVIOUS
  <2>1. ASSUME NEW r \in Successful
        PROVE  /\ metric[r].hits >= OwnLookups(r).hits
               /\ metric[r].misses >= OwnLookups(r).misses
    <3>1. r \in Requests /\ Share(r) = metric[r] /\ stage[r] = "ok" /\ metric[r] \in Counts
      BY DEF Successful, Share, HInv, HarnessTypes
    <3>2. OwnLookups(r).hits <= metric[r].hits /\ OwnLookups(r).misses <= metric[r].misses
      BY <3>1 DEF HInv, OwnCounted
    <3> QED  BY <3>2
  <2>2. Reported.hits <= Limit * lookups.hits
    <3>1. SumFunctionOnSet(SharedHits, Successful) = SumFunctionOnSet(Hits, Successful)
      BY ReportedFacts, SameSum
    <3>2. \A r \in Requests : SharedHits[r] \in Nat
      BY DEF HInv, HarnessTypes, Counts, SharedHits
    <3>3. SumFunctionOnSet(SharedHits, Successful) <= SumFunctionOnSet(SharedHits, Requests)
      BY <3>2, WorkloadAssumption, ReportedFacts, SumOfSubset
    <3>4. SumFunctionOnSet(SharedHits, Requests) <= Limit * lookups.hits
      BY DEF HInv, Attributed
    <3> DEFINE u == SumFunctionOnSet(SharedHits, Requests)
               v == Limit * lookups.hits
    <3>5. u \in Nat /\ v \in Nat
      <4>1. lookups.hits \in Nat
        BY DEF HInv, HarnessTypes, Counts
      <4> QED  BY <3>2, <4>1, WorkloadAssumption, SumIsNat
    <3>6. Reported.hits <= u /\ u <= v /\ Reported.hits \in Nat
      BY <3>1, <3>3, <3>4, ReportedFacts
    <3> HIDE DEF u, v
    <3>7. Reported.hits <= v
      BY <3>5, <3>6
    <3> QED  BY <3>7 DEF v
  <2>3. Reported.misses <= Limit * lookups.misses
    <3>1. SumFunctionOnSet(SharedMisses, Successful) = SumFunctionOnSet(Misses, Successful)
      BY ReportedFacts, SameSum
    <3>2. \A r \in Requests : SharedMisses[r] \in Nat
      BY DEF HInv, HarnessTypes, Counts, SharedMisses
    <3>3. SumFunctionOnSet(SharedMisses, Successful) <= SumFunctionOnSet(SharedMisses, Requests)
      BY <3>2, WorkloadAssumption, ReportedFacts, SumOfSubset
    <3>4. SumFunctionOnSet(SharedMisses, Requests) <= Limit * lookups.misses
      BY DEF HInv, Attributed
    <3> DEFINE u == SumFunctionOnSet(SharedMisses, Requests)
               v == Limit * lookups.misses
    <3>5. u \in Nat /\ v \in Nat
      <4>1. lookups.misses \in Nat
        BY DEF HInv, HarnessTypes, Counts
      <4> QED  BY <3>2, <4>1, WorkloadAssumption, SumIsNat
    <3>6. Reported.misses <= u /\ u <= v /\ Reported.misses \in Nat
      BY <3>1, <3>3, <3>4, ReportedFacts
    <3> HIDE DEF u, v
    <3>7. Reported.misses <= v
      BY <3>5, <3>6
    <3> QED  BY <3>7 DEF v
  <2>4. Total(Reported) <= Limit * Total(lookups)
    <3>1. /\ lookups.hits \in Nat /\ lookups.misses \in Nat /\ Limit \in Nat
          /\ Reported.hits \in Nat /\ Reported.misses \in Nat
      BY WorkloadAssumption, ReportedFacts DEF HInv, HarnessTypes, Counts
    <3>2. Limit * (lookups.hits + lookups.misses) = Limit * lookups.hits + Limit * lookups.misses
      BY <3>1
    <3>3. Limit * lookups.hits \in Nat /\ Limit * lookups.misses \in Nat
      BY <3>1
    <3>4. Reported.hits + Reported.misses <= Limit * (lookups.hits + lookups.misses)
      BY ONLY <2>2, <2>3, <3>1, <3>2, <3>3
    <3> QED  BY <3>4 DEF Total
  <2> QED  BY <2>1, <2>4 DEF CountedWithinLimit
<1> QED  BY <1>1, HarnessInductive, PTL

\* a/b <= c/d and c/d <= e/f, multiplied out; c/d may have one part zero.
LEMMA RatioTransitive ==
    ASSUME NEW a \in Nat, NEW b \in Nat, NEW c \in Nat, NEW d \in Nat,
           NEW e \in Nat, NEW f \in Nat, c + d > 0, a * d <= c * b, c * f <= e * d
    PROVE  a * f <= e * b
<1>1. CASE d > 0
  <2>1. (a * d) * f <= (c * b) * f
    OBVIOUS
  <2>2. (c * f) * b <= (e * d) * b
    OBVIOUS
  <2>3. (a * f) * d <= (e * b) * d
    BY <2>1, <2>2
  <2>4. a * f \in Nat /\ e * b \in Nat
    OBVIOUS
  <2>5. \A p, q, k \in Nat : k > 0 /\ p * k <= q * k => p <= q
    OBVIOUS
  <2> QED  BY ONLY <1>1, <2>3, <2>4, <2>5
<1>2. CASE d = 0
  <2>1. c > 0 /\ c * f <= 0
    BY <1>2
  <2>2. f = 0
    BY <2>1
  <2> QED  BY <2>2
<1> QED  BY <1>1, <1>2

\* Ratios of natural numbers have a lowest.
LEMMA LowestRatio ==
    ASSUME NEW S, IsFiniteSet(S), S # {}, NEW h, NEW m,
           \A x \in S : h[x] \in Nat /\ m[x] \in Nat /\ h[x] + m[x] > 0
    PROVE  \E x \in S : \A y \in S : h[x] * m[y] <= h[y] * m[x]
<1> DEFINE Lowest(x, T) == \A y \in T : h[x] * m[y] <= h[y] * m[x]
           P == {T \in SUBSET S : T = {} \/ \E x \in T : Lowest(x, T)}
<1>1. {} \in P
  OBVIOUS
<1>2. ASSUME NEW T \in SUBSET S, NEW x \in S, T \in P, x \notin T PROVE T \cup {x} \in P
  <2> DEFINE U == T \cup {x}
  <2>0. U \in SUBSET S
    OBVIOUS
  <2>x. h[x] * m[x] <= h[x] * m[x]
    OBVIOUS
  <2>1. CASE T = {}
    <3>1. U = {x}
      BY <2>1
    <3>2. Lowest(x, U)
      BY <3>1, <2>x
    <3> QED  BY <2>0, <3>1, <3>2
  <2>2. CASE T # {}
    <3>1. PICK z \in T : Lowest(z, T)
      BY <1>2, <2>2
    <3>2. CASE h[z] * m[x] <= h[x] * m[z]
      <4>1. Lowest(z, U)
        BY <3>1, <3>2
      <4> QED  BY <2>0, <3>1, <4>1
    <3>3. CASE ~(h[z] * m[x] <= h[x] * m[z])
      <4>1. h[x] * m[z] <= h[z] * m[x]
        <5>1. h[z] * m[x] \in Nat /\ h[x] * m[z] \in Nat
          OBVIOUS
        <5> QED  BY <3>3, <5>1
      <4>2. ASSUME NEW y \in T PROVE h[x] * m[y] <= h[y] * m[x]
        <5>1. h[z] * m[y] <= h[y] * m[z]
          BY <3>1
        <5>2. /\ h[x] \in Nat /\ m[x] \in Nat /\ h[z] \in Nat /\ m[z] \in Nat
              /\ h[y] \in Nat /\ m[y] \in Nat /\ h[z] + m[z] > 0
          OBVIOUS
        <5> QED  BY ONLY <4>1, <5>1, <5>2, RatioTransitive
      <4>3. Lowest(x, U)
        BY <4>2, <2>x
      <4> QED  BY <2>0, <4>3
    <3> QED  BY <3>2, <3>3
  <2> QED  BY <2>1, <2>2
<1> HIDE DEF P
<1>3. S \in P
  BY <1>1, <1>2, SubsetInduction
<1> QED  BY <1>3 DEF P

LEMMA Mediant ==
    ASSUME NEW a \in Nat, NEW b \in Nat, NEW h \in Nat, NEW m \in Nat
    PROVE  /\ a * m <= b * h => a * (h + m) <= h * (a + b)
           /\ b * h <= a * m => a * (h + m) >= h * (a + b)
<1>1. a * (h + m) = a * h + a * m /\ h * (a + b) = a * h + b * h
  OBVIOUS
<1>2. a * h \in Nat /\ a * m \in Nat /\ b * h \in Nat
  OBVIOUS
<1>3. /\ a * m <= b * h => a * h + a * m <= a * h + b * h
      /\ b * h <= a * m => a * h + a * m >= a * h + b * h
  BY <1>2
<1> QED  BY ONLY <1>1, <1>3

\* The hit ratio of the summary lies between the lowest and the highest of the
\* requests' own, however often their lookups are counted.
THEOREM RatioIsAMean == ABSpec => []OverallRatioIsAMean
<1>1. HInv => OverallRatioIsAMean
  <2> SUFFICES ASSUME HInv, AllEnded, Successful # {}
               PROVE  /\ \E r \in Requests :
                            OwnLookups(r).hits * Total(Reported) <= Reported.hits * Total(OwnLookups(r))
                      /\ \E r \in Requests :
                            OwnLookups(r).hits * Total(Reported) >= Reported.hits * Total(OwnLookups(r))
    BY DEF OverallRatioIsAMean
  <2> DEFINE h == [r \in Requests |-> OwnLookups(r).hits]
             m == [r \in Requests |-> OwnLookups(r).misses]
             H == Reported.hits
             M == Reported.misses
  <2>1. Requests # {} /\ IsFiniteSet(Requests)
    BY WorkloadAssumption DEF Successful
  <2>2. \A r \in Requests : h[r] \in Nat /\ m[r] \in Nat /\ h[r] + m[r] > 0
    <3>1. run \in Nat \ {0} /\ run <= Len(Strategies)
      BY DEF HInv, HarnessTypes, AllEnded, Running
    <3> SUFFICES ASSUME NEW r \in Requests
                 PROVE  h[r] \in Nat /\ m[r] \in Nat /\ h[r] + m[r] > 0
      OBVIOUS
    <3> QED  BY <3>1, OwnFacts DEF Counts
  <2>3. H \in Nat /\ M \in Nat
    BY ReportedFacts
  <2>4. ASSUME NEW r \in Requests
        PROVE  /\ OwnLookups(r).hits * Total(Reported) = h[r] * (H + M)
               /\ H * Total(OwnLookups(r)) = H * (h[r] + m[r])
    BY DEF Total
  <2>5. \A r \in Requests : h[r] = OwnLookups(r).hits /\ m[r] = OwnLookups(r).misses
    OBVIOUS
  <2> HIDE DEF h, m
  <2>6. \E r \in Requests : h[r] * (H + M) <= H * (h[r] + m[r])
    <3>1. PICK r \in Requests : \A s \in Requests : h[r] * m[s] <= h[s] * m[r]
      BY ONLY <2>1, <2>2, LowestRatio
    <3> DEFINE a == h[r]
               b == m[r]
    <3>2. a \in Nat /\ b \in Nat
      BY <2>2
    <3>3. \A s \in Requests : a * m[s] <= b * h[s]
      BY <2>2, <3>1
    <3> HIDE DEF a, b
    <3>4. \A s \in Requests : a * Share(s).misses <= b * Share(s).hits
      BY <2>5, <3>2, <3>3 DEF HInv, Balanced
    <3>5. \A s \in Successful : Misses[s] \in Nat /\ Hits[s] \in Nat /\ a * Misses[s] <= b * Hits[s]
      BY <3>4, ReportedFacts
    <3>6. a * M <= b * H
      BY <3>2, <3>5, ReportedFacts, SumScaled
    <3> HIDE DEF H, M
    <3>7. a * (H + M) <= H * (a + b)
      BY ONLY <2>3, <3>2, <3>6, Mediant
    <3> QED  BY <3>7 DEF a, b
  <2>7. \E r \in Requests : h[r] * (H + M) >= H * (h[r] + m[r])
    <3>1. PICK r \in Requests : \A s \in Requests : m[r] * h[s] <= m[s] * h[r]
      <4>1. \A x \in Requests : m[x] \in Nat /\ h[x] \in Nat /\ m[x] + h[x] > 0
        BY <2>2
      <4> QED  BY ONLY <2>1, <4>1, LowestRatio
    <3> DEFINE a == h[r]
               b == m[r]
    <3>2. a \in Nat /\ b \in Nat
      BY <2>2
    <3>3. \A s \in Requests : b * h[s] <= a * m[s]
      BY <2>2, <3>1
    <3> HIDE DEF a, b
    <3>4. \A s \in Requests : b * Share(s).hits <= a * Share(s).misses
      BY <2>5, <3>2, <3>3 DEF HInv, Balanced
    <3>5. \A s \in Successful : Misses[s] \in Nat /\ Hits[s] \in Nat /\ b * Hits[s] <= a * Misses[s]
      BY <3>4, ReportedFacts
    <3>6. b * H <= a * M
      BY <3>2, <3>5, ReportedFacts, SumScaled
    <3> HIDE DEF H, M
    <3>7. a * (H + M) >= H * (a + b)
      BY ONLY <2>3, <3>2, <3>6, Mediant
    <3> QED  BY <3>7 DEF a, b
  <2> QED  BY <2>4, <2>6, <2>7
<1> QED  BY <1>1, HarnessInductive, PTL
=============================================================================
