------------------------- MODULE RayWorkerPoolProofs -------------------------
(***************************************************************************)
(* Proofs about RayWorkerPool, for every number of workers, calls and      *)
(* restarts, and for whatever Ray does to the actors.                      *)
(***************************************************************************)
EXTENDS RayWorkerPool, TLAPS

-----------------------------------------------------------------------------
(* The inductive invariant *)

\* While the pool has actors, the actor of a worker is one of its own, and was
\* not spawned more often than restarts were counted: what stops the counting
\* stops the spawning.
Spawned ==
    phase \in {"running", "stopping"} =>
        /\ actors \in [Workers -> Actors]
        /\ \A w \in Workers : actors[w][1] = w /\ actors[w][2] <= restarts[w]

\* The monitor runs in a running pool only; before and after there are no actors.
Phases ==
    /\ monitor # "none" => phase = "running"
    /\ phase \in {"new", "stopped"} => actors = NoActors

\* A call that waits, waits for somebody.
Awaited == \A c \in Calls : call[c] = "waiting" <=> refs[c] # {}

IInv == TypeOK /\ Spawned /\ Phases /\ NoOrphans

LEMMA ActorParts ==
    ASSUME NEW a \in Actors
    PROVE  a[1] \in Workers /\ a[2] \in 0 .. MaxRestarts /\ a = <<a[1], a[2]>>
  BY DEF Actors

LEMMA InitOK == Init => IInv
  BY PoolAssumption
     DEF Init, IInv, TypeOK, Spawned, Phases, NoOrphans, Actors, NoActors, Pool, Alive

-----------------------------------------------------------------------------
(* start and stop *)

LEMMA StartOK == ASSUME IInv, Start PROVE IInv'
<1>1. \A w \in Workers : <<w, 0>> \in Actors
  BY PoolAssumption DEF Actors
<1>2. TypeOK' /\ Phases'
  BY <1>1 DEF IInv, TypeOK, Phases, Start, Alive, callVars
<1>3. Spawned'
  BY <1>1 DEF IInv, TypeOK, Spawned, Start
<1>4. NoOrphans'
  <2> SUFFICES ASSUME NEW a \in Actors, life'[a] \in Alive PROVE a \in Pool' \cup unkilled'
    BY DEF NoOrphans
  <2>1. CASE a[2] = 0
    <3>1. a[1] \in Workers /\ a = <<a[1], 0>>
      BY <2>1, ActorParts
    <3> QED  BY <3>1 DEF Start, Pool
  <2>2. CASE a[2] # 0
    <3>1. life[a] \in Alive /\ Pool = {}
      BY <2>2 DEF Start, Pool, IInv, Phases, NoActors
    <3> QED  BY <3>1 DEF IInv, NoOrphans, Start
  <2> QED  BY <2>1, <2>2
<1> QED  BY <1>2, <1>3, <1>4 DEF IInv

LEMMA BeginStopOK == ASSUME IInv, BeginStop PROVE IInv'
  BY DEF IInv, TypeOK, Spawned, Phases, NoOrphans, Pool, BeginStop, callVars

LEMMA FinishStopOK == ASSUME IInv, NEW killed \in SUBSET Actors, FinishStop(killed) PROVE IInv'
<1>0. Pool \subseteq Actors
  BY DEF IInv, TypeOK, Pool, NoActors
<1>1. TypeOK' /\ Phases' /\ Spawned'
  BY <1>0 DEF IInv, TypeOK, Phases, Spawned, FinishStop, KillRaises, callVars
<1>2. NoOrphans'
  <2> SUFFICES ASSUME NEW a \in Actors, life'[a] \in Alive PROVE a \in unkilled'
    BY DEF NoOrphans
  <2>1. life[a] \in Alive /\ a \notin killed
    BY DEF FinishStop, Alive
  <2>2. a \in unkilled \/ a \in Pool \ killed
    BY <2>1 DEF IInv, NoOrphans
  <2>3. unkilled' = unkilled \cup {b \in Pool \ killed : life[b] \in Alive}
    BY DEF FinishStop, KillRaises
  <2> QED  BY <2>1, <2>2, <2>3
<1> QED  BY <1>1, <1>2 DEF IInv

-----------------------------------------------------------------------------
(* The health monitor *)

LEMMA PingsOK ==
    ASSUME IInv, BeginPing \/ \E w \in Workers, answer \in {"ok", "failed"} : Ping(w, answer)
    PROVE  IInv'
<1>1. /\ UNCHANGED <<phase, actors, restarts, life, callVars, unkilled>>
      /\ monitor' = "ping" /\ monitor # "none"
      /\ health' \in [Workers -> {"none", "asked", "ok", "failed"}]
  BY DEF BeginPing, Ping, IInv, TypeOK
<1> QED  BY <1>1 DEF IInv, TypeOK, Spawned, Phases, NoOrphans, Pool, callVars

\* A recovery spawns within the limit, and leaves alive and out of the pool only
\* what it could not kill.
LEMMA RecoverOK ==
    ASSUME IInv, NEW spawned \in SUBSET Workers, NEW killed \in SUBSET Workers,
           Recover(spawned, killed)
    PROVE  IInv'
<1> DEFINE replaced == {w \in Failed : WithinLimit(w)}
<1>1. /\ phase = "running" /\ phase' = phase /\ monitor' = "sleep"
      /\ spawned \subseteq replaced /\ killed \subseteq replaced /\ replaced \subseteq Workers
      /\ actors' = [w \in Workers |-> NextActor(w, spawned)]
      /\ life' = Lives(spawned, killed)
      /\ unkilled' = unkilled \cup {a \in {actors[w] : w \in replaced \ killed} : life[a] \in Alive}
      /\ call' = call /\ refs' = refs
      /\ health' = [w \in Workers |-> "none"]
      /\ restarts' = [w \in Workers |-> IF w \in Failed /\ restarts[w] <= MaxRestarts
                                        THEN restarts[w] + 1 ELSE restarts[w]]
  BY DEF Recover, KillRaises, IInv, Phases, Failed, callVars
<1>2. /\ actors \in [Workers -> Actors]
      /\ \A w \in Workers : actors[w][1] = w /\ actors[w][2] <= restarts[w]
  BY <1>1 DEF IInv, Spawned
<1>3. \A w \in Workers : restarts[w] \in 0 .. MaxRestarts + 1 /\ MaxRestarts \in Nat
  BY PoolAssumption DEF IInv, TypeOK
<1>4. \A w \in replaced : w \in Failed /\ restarts[w] < MaxRestarts
  BY DEF WithinLimit
<1> HIDE DEF replaced
<1>5. ASSUME NEW w \in Workers
      PROVE  /\ actors'[w] \in Actors /\ actors'[w][1] = w /\ actors'[w][2] <= restarts'[w]
             /\ restarts'[w] \in 0 .. MaxRestarts + 1
  <2>1. actors[w] \in Actors /\ actors[w][2] \in 0 .. MaxRestarts
    BY <1>2, ActorParts
  <2>2. CASE w \in spawned
    <3>1. actors'[w] = <<w, actors[w][2] + 1>> /\ restarts[w] < MaxRestarts
      BY <1>1, <1>4, <2>2 DEF NextActor
    <3>2. restarts'[w] = restarts[w] + 1
      BY <1>1, <1>3, <1>4, <2>2
    <3>3. actors[w][2] + 1 \in 0 .. MaxRestarts /\ actors[w][2] + 1 <= restarts[w] + 1
      BY <1>2, <1>3, <2>1, <3>1
    <3> QED  BY <1>3, <3>1, <3>2, <3>3 DEF Actors
  <2>3. CASE w \notin spawned
    <3>1. actors'[w] = actors[w]
      BY <1>1, <2>3 DEF NextActor
    <3>2. restarts'[w] \in {restarts[w], restarts[w] + 1}
          /\ (restarts'[w] = restarts[w] + 1 => restarts[w] <= MaxRestarts \/ restarts'[w] = restarts[w])
      BY <1>1
    <3>3. restarts'[w] \in 0 .. MaxRestarts + 1 /\ restarts'[w] >= restarts[w]
      BY <1>3, <3>2
    <3> QED  BY <1>2, <1>3, <2>1, <3>1, <3>3
  <2> QED  BY <2>2, <2>3
<1>6. TypeOK'
  <2>1. actors' \in [Workers -> Actors] /\ restarts' \in [Workers -> 0 .. MaxRestarts + 1]
    BY <1>1, <1>5
  <2>2. life' \in [Actors -> Alive \cup {"none", "dead"}]
    BY <1>1 DEF IInv, TypeOK, Lives, Alive
  <2>3. unkilled' \subseteq Actors
    BY <1>1, <1>2 DEF IInv, TypeOK
  <2> QED  BY <1>1, <2>1, <2>2, <2>3 DEF IInv, TypeOK
<1>7. Spawned' /\ Phases'
  BY <1>1, <1>5 DEF Spawned, Phases
<1>8. NoOrphans'
  <2> SUFFICES ASSUME NEW a \in Actors, life'[a] \in Alive PROVE a \in Pool' \cup unkilled'
    BY DEF NoOrphans
  <2>0. Pool' = {actors'[w] : w \in Workers} /\ Pool = {actors[w] : w \in Workers}
    BY <1>1, <1>2 DEF Pool
  <2>1. CASE a[1] \in spawned /\ a = NextActor(a[1], spawned)
    BY <1>1, <2>0, <2>1
  <2>2. CASE ~(a[1] \in spawned /\ a = NextActor(a[1], spawned))
    <3>1. life[a] \in Alive /\ ~(a[1] \in killed /\ a \in Pool)
      BY <1>1, <2>2 DEF Lives, Alive
    <3>2. CASE a \in unkilled
      BY <1>1, <3>2
    <3>3. CASE a \notin unkilled
      <4>1. PICK w \in Workers : a = actors[w]
        BY <2>0, <3>1, <3>3 DEF IInv, NoOrphans
      <4>2. a[1] = w /\ w \notin killed
        BY <1>2, <2>0, <3>1, <4>1
      <4>3. CASE w \in replaced
        BY <1>1, <3>1, <4>1, <4>2, <4>3
      <4>4. CASE w \notin replaced
        BY <1>1, <2>0, <4>1, <4>4 DEF NextActor
      <4> QED  BY <4>3, <4>4
    <3> QED  BY <3>2, <3>3
  <2> QED  BY <2>1, <2>2
<1> QED  BY <1>6, <1>7, <1>8 DEF IInv

-----------------------------------------------------------------------------
(* Calls, and what Ray does *)

LEMMA CallsOK ==
    ASSUME IInv, NEW c \in Calls, Dispatch(c) \/ Raise(c) \/ \E a \in Actors : Answer(c, a)
    PROVE  IInv'
<1>1. Pool \subseteq Actors
  BY DEF IInv, TypeOK, Pool, NoActors
<1>2. /\ UNCHANGED <<phase, actors, restarts, monitor, health, life, unkilled>>
      /\ call' \in [Calls -> {"new", "waiting", "returned", "raised"}]
      /\ refs' \in [Calls -> SUBSET Actors]
  BY <1>1 DEF Dispatch, Raise, Answer, IInv, TypeOK
<1> QED  BY <1>2 DEF IInv, TypeOK, Spawned, Phases, NoOrphans, Pool

\* Ray never gives life to an actor that has none.
LEMMA RayOK == ASSUME IInv, Ray PROVE IInv'
<1>1. PICK a \in Actors : Hang(a) \/ Wake(a)
                          \/ \E lost \in SUBSET Calls, l \in {"silent", "dead"} : Crash(a, lost, l)
  BY DEF Ray
<1>2. /\ UNCHANGED <<phase, actors, restarts, monitor, health, unkilled>>
      /\ life[a] \in Alive
      /\ \E l \in Alive \cup {"dead"} : life' = [life EXCEPT ![a] = l]
      /\ call' \in [Calls -> {"new", "waiting", "returned", "raised"}]
      /\ refs' \in [Calls -> SUBSET Actors]
  BY <1>1 DEF Hang, Wake, Crash, Becomes, PoolIdle, callVars, Alive, IInv, TypeOK
<1>3. life' \in [Actors -> Alive \cup {"none", "dead"}]
      /\ \A b \in Actors : life'[b] \in Alive => life[b] \in Alive
  BY <1>2 DEF IInv, TypeOK
<1> QED  BY <1>2, <1>3 DEF IInv, TypeOK, Spawned, Phases, NoOrphans, Pool

-----------------------------------------------------------------------------
(* The theorems *)

LEMMA StepOK == IInv /\ [Next]_vars => IInv'
<1> SUFFICES ASSUME IInv, [Next]_vars PROVE IInv'
  OBVIOUS
<1>1. CASE UNCHANGED vars
  BY <1>1 DEF vars, callVars, IInv, TypeOK, Spawned, Phases, NoOrphans, Pool
<1>2. CASE Start \/ BeginStop \/ \E killed \in SUBSET Actors : FinishStop(killed)
  BY <1>2, StartOK, BeginStopOK, FinishStopOK
<1>3. CASE Monitor
  BY <1>3, PingsOK, RecoverOK DEF Monitor
<1>4. CASE \E c \in Calls : Dispatch(c) \/ Raise(c) \/ \E a \in Actors : Answer(c, a)
  BY <1>4, CallsOK
<1>5. CASE Ray
  BY <1>5, RayOK
<1> QED  BY <1>1, <1>2, <1>3, <1>4, <1>5 DEF Next

THEOREM Invariance == Spec => []IInv
  BY InitOK, StepOK, PTL DEF Spec

\* No worker is respawned beyond actor_max_restarts, however often it fails,
\* its spawns fail, and Ray restarts actors on its own.
THEOREM TypeCorrect == Spec => []TypeOK
<1>1. IInv => TypeOK
  BY DEF IInv
<1> QED  BY <1>1, Invariance, PTL

\* The pool loses an actor only to a kill that raised: whatever else is alive,
\* and holds its GPUs, can be reached through the pool, through recoveries,
\* failed spawns, crashes and stop.
THEOREM NobodyOrphaned == Spec => []NoOrphans
<1>1. IInv => NoOrphans
  BY DEF IInv
<1> QED  BY <1>1, Invariance, PTL

\* A call of broadcast_command that waits has an actor left to wait for: the
\* last answer, or the exception, ends it at once.
THEOREM NobodyWaitsForNothing == Spec => []Awaited
<1>1. Init => Awaited
  BY DEF Init, Awaited
<1>2. TypeOK /\ Awaited /\ [Next]_vars => Awaited'
  <2> SUFFICES ASSUME TypeOK, Awaited, [Next]_vars PROVE Awaited'
    OBVIOUS
  <2>1. CASE UNCHANGED callVars
    BY <2>1 DEF callVars, Awaited
  <2>2. ASSUME NEW c \in Calls, Dispatch(c) PROVE Awaited'
    BY <2>2 DEF Dispatch, Awaited, TypeOK
  <2>3. ASSUME NEW c \in Calls, Raise(c) PROVE Awaited'
    BY <2>3 DEF Raise, Awaited, TypeOK
  <2>4. ASSUME NEW c \in Calls, NEW a \in Actors, Answer(c, a) PROVE Awaited'
    <3>1. refs[c] \ {a} = {} <=> refs[c] = {a}
      BY <2>4 DEF Answer
    <3> QED  BY <2>4, <3>1 DEF Answer, Awaited, TypeOK
  <2>5. ASSUME NEW a \in Actors, NEW lost \in SUBSET Calls,
               NEW l \in {"silent", "dead"}, Crash(a, lost, l)
        PROVE  Awaited'
    BY <2>5 DEF Crash, Awaited, TypeOK
  <2> QED
    BY <2>1, <2>2, <2>3, <2>4, <2>5
       DEF Next, Start, BeginStop, FinishStop, Monitor, BeginPing, Ping, Recover, Ray,
           Hang, Wake, vars, callVars
<1> QED  BY <1>1, <1>2, TypeCorrect, PTL DEF Spec
=============================================================================
