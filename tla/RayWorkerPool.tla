--------------------------- MODULE RayWorkerPool ---------------------------
(***************************************************************************)
(* The pool of Ray actors (nexuscache/server/ray_actor.py): start, stop,   *)
(* the health monitor that pings all workers and respawns those that do    *)
(* not answer, and commands broadcast to all of them.                      *)
(*                                                                         *)
(* The pool runs on one event loop.  It suspends while the monitor sleeps  *)
(* or waits for pings, while a broadcast waits for its answers, and while  *)
(* stop waits for the monitor to be cancelled; recovery does not suspend.  *)
(* Ray is external: an actor boots, hangs, wakes up, crashes, and may be   *)
(* restarted by Ray itself, and ray.kill may raise, which the pool         *)
(* swallows: the actor then goes on as it was.                             *)
(***************************************************************************)
EXTENDS Integers, FiniteSets

CONSTANTS
    Workers,      \* the indices of the pool
    MaxRestarts,  \* actor_max_restarts
    Calls,        \* calls of broadcast_command and sync_state
    MaxUnkilled   \* bound: of the living actors ray.kill raises for

ASSUME PoolAssumption == IsFiniteSet(Workers) /\ MaxRestarts \in Nat /\ MaxUnkilled \in Nat

\* An actor: the n-th that was spawned for worker w.
Actors == Workers \X (0 .. MaxRestarts)

VARIABLES
    phase,      \* "new", "running", "stopping" and "stopped"
    actors,     \* self.actors: worker |-> its actor, empty once cleared
    restarts,   \* _restart_counts, up to the first value above the limit
    monitor,    \* where the monitor is
    health,     \* the answers to the pings of this round
    life,       \* of each actor
    call,       \* where each call is
    refs,       \* the actors it waits for
    unkilled    \* ghost: the living actors ray.kill ever raised for

vars == <<phase, actors, restarts, monitor, health, life, call, refs, unkilled>>
callVars == <<call, refs>>

NoActors == [w \in {} |-> 0]

\* "silent" is an actor that boots, or hangs: it answers when it is "up".
Alive == {"silent", "up"}

Init ==
    /\ phase = "new"
    /\ actors = NoActors
    /\ restarts = [w \in Workers |-> 0]
    /\ monitor = "none"
    /\ health = [w \in Workers |-> "none"]
    /\ life = [a \in Actors |-> "none"]
    /\ call = [c \in Calls |-> "new"]
    /\ refs = [c \in Calls |-> {}]
    /\ unkilled = {}

Pool == {actors[w] : w \in DOMAIN actors}

\* ray.kill raises for S, and the pool goes on.
KillRaises(S) ==
    /\ unkilled' = unkilled \cup {a \in S : life[a] \in Alive}
    /\ Cardinality(unkilled') <= MaxUnkilled

-----------------------------------------------------------------------------
(* start and stop *)

Start ==
    /\ phase = "new"
    /\ phase' = "running"
    /\ actors' = [w \in Workers |-> <<w, 0>>]
    /\ life' = [a \in Actors |-> IF a[2] = 0 THEN "silent" ELSE life[a]]
    /\ monitor' = "sleep"
    /\ UNCHANGED <<restarts, health, callVars, unkilled>>

\* The monitor is cancelled, wherever it waits, with the answers it has.
BeginStop ==
    /\ phase = "running"
    /\ phase' = "stopping" /\ monitor' = "none"
    /\ health' = [w \in Workers |-> "none"]
    /\ UNCHANGED <<actors, restarts, life, callVars, unkilled>>

\* The list is cleared also of the actors whose kill raised.
FinishStop(killed) ==
    /\ phase = "stopping" /\ killed \subseteq Pool
    /\ phase' = "stopped"
    /\ life' = [a \in Actors |-> IF a \in killed THEN "dead" ELSE life[a]]
    /\ KillRaises(Pool \ killed)
    /\ actors' = NoActors
    /\ UNCHANGED <<restarts, monitor, health, callVars>>

-----------------------------------------------------------------------------
(* The health monitor *)

BeginPing ==
    /\ monitor = "sleep"
    /\ monitor' = "ping"
    /\ health' = [w \in Workers |-> "asked"]
    /\ UNCHANGED <<phase, actors, restarts, life, callVars, unkilled>>

\* A ping is answered, or fails, or its answer comes too late.
Ping(w, answer) ==
    /\ monitor = "ping" /\ health[w] = "asked"
    /\ answer = "ok" => life[actors[w]] = "up"
    /\ health' = [health EXCEPT ![w] = answer]
    /\ UNCHANGED <<phase, actors, restarts, monitor, life, callVars, unkilled>>

\* Mutant: only a ping that runs into its timeout counts as failed.
Failed_TimeoutsOnly == {w \in Workers : health[w] = "failed" /\ life[actors[w]] # "dead"}

\* Mutant: only a ping that raises RayActorError counts as failed.
Failed_ErrorsOnly == {w \in Workers : health[w] = "failed" /\ life[actors[w]] = "dead"}

Failed == {w \in Workers : health[w] = "failed"}

\* Mutant: one restart more than the limit.
WithinLimit_OneMore(w) == restarts[w] <= MaxRestarts

\* Whether the incremented count is within the limit.
WithinLimit(w) == restarts[w] < MaxRestarts

\* The spawn may fail; the old actor stays in the pool then.
NextActor(w, spawned) == IF w \in spawned THEN <<w, actors[w][2] + 1>> ELSE actors[w]

\* Mutant: the actor that does not answer is not killed.
Lives_Unkilled(spawned, killed) ==
    [a \in Actors |-> IF a[1] \in spawned /\ a = NextActor(a[1], spawned) THEN "silent"
                      ELSE life[a]]

Lives(spawned, killed) ==
    [a \in Actors |-> IF a[1] \in spawned /\ a = NextActor(a[1], spawned) THEN "silent"
                      ELSE IF a[1] \in killed /\ a \in Pool THEN "dead" ELSE life[a]]

\* All failed workers one after the other, without suspension in between.  Those
\* in spawned could be spawned again, and those in killed could be killed: an
\* actor whose kill raises lives on, and is replaced all the same.
Recover(spawned, killed) ==
    /\ monitor = "ping" /\ \A w \in Workers : health[w] # "asked"
    /\ monitor' = "sleep"
    /\ LET replaced == {w \in Failed : WithinLimit(w)} IN
        /\ spawned \subseteq replaced /\ killed \subseteq replaced
        /\ life' = Lives(spawned, killed)
        /\ KillRaises({actors[w] : w \in replaced \ killed})
        /\ actors' = [w \in Workers |-> NextActor(w, spawned)]
    /\ restarts' = [w \in Workers |-> IF w \in Failed /\ restarts[w] <= MaxRestarts
                                      THEN restarts[w] + 1 ELSE restarts[w]]
    /\ health' = [w \in Workers |-> "none"]
    /\ UNCHANGED <<phase, callVars>>

-----------------------------------------------------------------------------
(* broadcast_command and sync_state *)

\* With no actors there is nothing to wait for.
Dispatch(c) ==
    /\ call[c] = "new"
    /\ call' = [call EXCEPT ![c] = IF Pool = {} THEN "returned" ELSE "waiting"]
    /\ refs' = [refs EXCEPT ![c] = Pool]
    /\ UNCHANGED <<phase, actors, restarts, monitor, health, life, unkilled>>

Answer(c, a) ==
    /\ call[c] = "waiting" /\ a \in refs[c] /\ life[a] = "up"
    /\ refs' = [refs EXCEPT ![c] = @ \ {a}]
    /\ call' = [call EXCEPT ![c] = IF refs[c] = {a} THEN "returned" ELSE "waiting"]
    /\ UNCHANGED <<phase, actors, restarts, monitor, health, life, unkilled>>

\* ray.get raises when an actor is dead.
Raise(c) ==
    /\ call[c] = "waiting" /\ \E a \in refs[c] : life[a] = "dead"
    /\ call' = [call EXCEPT ![c] = "raised"]
    /\ refs' = [refs EXCEPT ![c] = {}]
    /\ UNCHANGED <<phase, actors, restarts, monitor, health, life, unkilled>>

-----------------------------------------------------------------------------
(* Ray *)

Becomes(a, l) == life' = [life EXCEPT ![a] = l]
PoolIdle == UNCHANGED <<phase, actors, restarts, monitor, health, unkilled>>

Hang(a) ==
    /\ life[a] = "up"
    /\ Becomes(a, "silent")
    /\ PoolIdle /\ UNCHANGED callVars

\* It has booted, or hangs no longer.
Wake(a) ==
    /\ life[a] = "silent"
    /\ Becomes(a, "up")
    /\ PoolIdle /\ UNCHANGED callVars

\* Ray restarts the actor, or has done so max_restarts times: it is not counted.
\* The tasks of an actor of start() are retried on its next incarnation, twice
\* at most; those of a respawned one, which has no max_task_retries, are not.
Crash(a, lost, l) ==
    /\ life[a] \in Alive
    /\ Becomes(a, l)
    /\ lost \subseteq {c \in Calls : a \in refs[c]}
    /\ a[2] > 0 => lost = {c \in Calls : a \in refs[c]}
    /\ call' = [c \in Calls |-> IF c \in lost THEN "raised" ELSE call[c]]
    /\ refs' = [c \in Calls |-> IF c \in lost THEN {} ELSE refs[c]]
    /\ PoolIdle

-----------------------------------------------------------------------------

Monitor ==
    \/ BeginPing
    \/ \E w \in Workers, answer \in {"ok", "failed"} : Ping(w, answer)
    \/ \E spawned, killed \in SUBSET Workers : Recover(spawned, killed)

Ray ==
    \E a \in Actors :
        \/ Hang(a) \/ Wake(a)
        \/ \E lost \in SUBSET Calls, l \in {"silent", "dead"} : Crash(a, lost, l)

Next ==
    \/ Start \/ BeginStop \/ \E killed \in SUBSET Actors : FinishStop(killed)
    \/ Monitor
    \/ \E c \in Calls : Dispatch(c) \/ Raise(c) \/ \E a \in Actors : Answer(c, a)
    \/ Ray

Spec == Init /\ [][Next]_vars

\* The event loop runs the monitor, and stop once the monitor is cancelled; a
\* dead actor's tasks fail; an actor that is up again and again works on its
\* tasks.  Nothing is assumed about booting, hanging and crashing, nor that a
\* spawn or a kill ever succeeds.
FairSpec ==
    /\ Spec
    /\ WF_vars(Monitor) /\ WF_vars(\E killed \in SUBSET Actors : FinishStop(killed))
    /\ \A c \in Calls : WF_vars(Raise(c)) /\ \A a \in Actors : SF_vars(Answer(c, a))

-----------------------------------------------------------------------------
(* Properties *)

\* No actor is spawned beyond the limit of its worker.
TypeOK ==
    /\ phase \in {"new", "running", "stopping", "stopped"}
    /\ actors = NoActors \/ actors \in [Workers -> Actors]
    /\ restarts \in [Workers -> 0 .. MaxRestarts + 1]
    /\ monitor \in {"none", "sleep", "ping"}
    /\ health \in [Workers -> {"none", "asked", "ok", "failed"}]
    /\ life \in [Actors -> Alive \cup {"none", "dead"}]
    /\ call \in [Calls -> {"new", "waiting", "returned", "raised"}]
    /\ refs \in [Calls -> SUBSET Actors]
    /\ unkilled \subseteq Actors

\* An actor that is alive, and holds its GPUs, but is not in the pool, is one
\* whose kill raised: a swallowed exception of ray.kill (ray_actor.py:136-139
\* and 221-224) is the only way to leave an actor nobody can reach; failed
\* spawns, crashes, Ray's restarts and a stop at any moment leave none.
NoOrphans == \A a \in Actors : life[a] \in Alive => a \in Pool \cup unkilled

Exhausted(w) == restarts[w] > MaxRestarts

\* A dead worker does not stay in a running pool, unless its restarts are used up.
DeadReplaced ==
    \A a \in Actors : life[a] = "dead" ~> a \notin Pool \/ Exhausted(a[1])

\* A call ends, with answers or with an exception, even when a worker hangs for
\* ever: only a worker without restarts left, which nobody kills, and an actor
\* whose kill raised can hold it.  For those ray.get, which has no timeout here
\* (ray_actor.py:156 and 171), may wait for ever.
CallEnds ==
    \A c \in Calls :
        call[c] = "waiting" ~> \/ call[c] # "waiting"
                               \/ \E a \in refs[c] : Exhausted(a[1]) \/ a \in unkilled
=============================================================================
