---------------------------- MODULE RequestQueue ----------------------------
(***************************************************************************)
(* The asynchronous priority queue in front of the engine                  *)
(* (nexuscache/server/request_queue.py).                                   *)
(*                                                                         *)
(* One asyncio.Condition guards everything.  put and abort have no await   *)
(* inside it, so each is one action; get_batch holds the lock for one      *)
(* action per loop iteration, because it reads the clock in each of them   *)
(* and a request may expire in between:                                    *)
(*                                                                         *)
(*   idle -> purge <-> asleep -> woken -> purge                            *)
(*           purge -> extract -> idle                                      *)
(*                                                                         *)
(* A QueuedRequest is an object with an id; the queue keeps objects in its *)
(* heap and ids in its index and in its set of cancelled ids.              *)
(***************************************************************************)
EXTENDS Integers, SequencesExt, FiniteSetsExt

CONSTANTS
    Reqs,              \* QueuedRequest objects
    IdOf,              \* [Reqs -> ids]: request_id, chosen by the client
    Attributes,        \* [priority, arrived, prompt]: its other fields
    Consumers,         \* the coroutines that call get_batch
    MaxQueueSize,      \* max_queue_size
    MaxTokenCapacity,  \* max_token_capacity
    MaxNumSeqs,        \* the arguments of get_batch
    MaxNumTokens

ASSUME QueueAssumption ==
    /\ Attributes \subseteq [priority : Nat, arrived : Nat, prompt : Nat]
    /\ MaxQueueSize \in Nat /\ MaxTokenCapacity \in Nat
    /\ MaxNumSeqs \in Nat \ {0} /\ MaxNumTokens \in Nat
    /\ IsFiniteSet(Consumers)

VARIABLES
    info,       \* the attributes of each object, fixed in advance
    ticket,     \* the sequence_id of its heap entry
    heap,       \* the objects in _heap
    index,      \* the keys of _requests_map
    cancelled,  \* _cancelled_request_ids
    pending,    \* _current_token_count
    counter,    \* _sequence_counter
    expired,    \* the objects for which is_expired holds
    pc,         \* where each consumer is in get_batch
    batch,      \* its batch
    sleepers,   \* consumers in condition.wait() that were not notified, in order
    fate,       \* what became of each object
    aborted     \* the objects for which abort returned True

stored == <<heap, index, cancelled, pending>>
vars == <<info, ticket, stored, counter, expired, pc, batch, sleepers, fate, aborted>>

Ids == {IdOf[o] : o \in Reqs}

LockFree == \A c \in Consumers : pc[c] \notin {"purge", "extract"}

\* Mutant: first come, first served across the tiers.
Before_IgnoresTier(o, p) ==
    \/ info[o].arrived < info[p].arrived
    \/ info[o].arrived = info[p].arrived /\ ticket[o] < ticket[p]

\* The order of PriorityHeapEntry.
Before(o, p) ==
    \/ info[o].priority < info[p].priority
    \/ /\ info[o].priority = info[p].priority
       /\ \/ info[o].arrived < info[p].arrived
          \/ info[o].arrived = info[p].arrived /\ ticket[o] < ticket[p]

Top == CHOOSE o \in heap : \A p \in heap \ {o} : Before(o, p)

Stale(o) == IdOf[o] \in cancelled \/ o \in expired

Prompts == [o \in Reqs |-> info[o].prompt]
Tokens(objects) == SumFunctionOnSet(Prompts, objects)

Init ==
    /\ info \in [Reqs -> Attributes]
    /\ ticket = [o \in Reqs |-> 0]
    /\ heap = {} /\ index = {} /\ cancelled = {} /\ pending = 0
    /\ counter = 0
    /\ expired = {}
    /\ pc = [c \in Consumers |-> "idle"]
    /\ batch = [c \in Consumers |-> <<>>]
    /\ sleepers = <<>>
    /\ fate = [o \in Reqs |-> "new"]
    /\ aborted = {}

-----------------------------------------------------------------------------
(* put and abort *)

Full(o) ==
    \/ Cardinality(index) >= MaxQueueSize
    \/ pending + info[o].prompt > MaxTokenCapacity

PutReject(o) ==
    /\ LockFree /\ fate[o] = "new" /\ Full(o)
    /\ fate' = [fate EXCEPT ![o] = "rejected"]
    /\ UNCHANGED <<info, ticket, stored, counter, expired, pc, batch, sleepers, aborted>>

\* Mutant: a consumer is woken only when the queue was empty.
Notify_WhenEmpty ==
    IF sleepers = <<>> \/ heap # {} THEN UNCHANGED <<pc, sleepers>>
    ELSE /\ pc' = [pc EXCEPT ![Head(sleepers)] = "woken"]
         /\ sleepers' = Tail(sleepers)

\* condition.notify(): the first of those still asleep.
Notify ==
    IF sleepers = <<>> THEN UNCHANGED <<pc, sleepers>>
    ELSE /\ pc' = [pc EXCEPT ![Head(sleepers)] = "woken"]
         /\ sleepers' = Tail(sleepers)

PutAccept(o) ==
    /\ LockFree /\ fate[o] = "new" /\ ~Full(o)
    /\ counter' = counter + 1
    /\ ticket' = [ticket EXCEPT ![o] = counter + 1]
    /\ heap' = heap \cup {o}
    /\ index' = index \cup {IdOf[o]}
    /\ pending' = pending + info[o].prompt
    /\ Notify
    /\ fate' = [fate EXCEPT ![o] = "queued"]
    /\ UNCHANGED <<info, cancelled, expired, batch, aborted>>

Abort(i) ==
    /\ LockFree
    /\ i \in index \ cancelled
    /\ cancelled' = cancelled \cup {i}
    /\ aborted' = aborted \cup {o \in heap : IdOf[o] = i}
    /\ UNCHANGED <<info, ticket, heap, index, pending, counter, expired, pc, batch,
                   sleepers, fate>>

\* The TTL of a queued request runs out.
Expire(o) ==
    /\ o \in heap \ expired
    /\ expired' = expired \cup {o}
    /\ UNCHANGED <<info, ticket, stored, counter, pc, batch, sleepers, fate, aborted>>

-----------------------------------------------------------------------------
(* get_batch *)

\* Mutant: the id stays cancelled.
PopTop_KeepsCancelled(f) ==
    /\ heap' = heap \ {Top}
    /\ index' = index \ {IdOf[Top]}
    /\ pending' = Max({0, pending - info[Top].prompt})
    /\ fate' = [fate EXCEPT ![Top] = f]
    /\ UNCHANGED cancelled

\* Mutant: the tokens are given back only for what is executed.
PopTop_KeepsTokens(f) ==
    /\ heap' = heap \ {Top}
    /\ index' = index \ {IdOf[Top]}
    /\ cancelled' = cancelled \ {IdOf[Top]}
    /\ pending' = IF f = "taken" THEN pending - info[Top].prompt ELSE pending
    /\ fate' = [fate EXCEPT ![Top] = f]

\* _pop_top_heap_entry, with what becomes of the object.
PopTop(f) ==
    /\ heap' = heap \ {Top}
    /\ index' = index \ {IdOf[Top]}
    /\ cancelled' = cancelled \ {IdOf[Top]}
    /\ pending' = Max({0, pending - info[Top].prompt})
    /\ fate' = [fate EXCEPT ![Top] = f]

Enter(c) ==
    /\ LockFree
    /\ pc[c] \in {"idle", "woken"}
    /\ pc' = [pc EXCEPT ![c] = "purge"]
    /\ batch' = [batch EXCEPT ![c] = <<>>]
    /\ UNCHANGED <<info, ticket, stored, counter, expired, sleepers, fate, aborted>>

Purge(c) ==
    /\ pc[c] = "purge" /\ heap # {} /\ Stale(Top)
    /\ PopTop(IF IdOf[Top] \in cancelled THEN "purged" ELSE "answered")
    /\ UNCHANGED <<info, ticket, counter, expired, pc, batch, sleepers, aborted>>

Wait(c) ==
    /\ pc[c] = "purge" /\ heap = {}
    /\ pc' = [pc EXCEPT ![c] = "asleep"]
    /\ sleepers' = Append(sleepers, c)
    /\ UNCHANGED <<info, ticket, stored, counter, expired, batch, fate, aborted>>

Extract(c) ==
    /\ pc[c] = "purge" /\ heap # {} /\ ~Stale(Top)
    /\ pc' = [pc EXCEPT ![c] = "extract"]
    /\ UNCHANGED <<info, ticket, stored, counter, expired, batch, sleepers, fate, aborted>>

HasRoom(c) == pc[c] = "extract" /\ heap # {} /\ Len(batch[c]) < MaxNumSeqs

\* Mutant: a request larger than the budget is refused even alone.
OverBudget_Always(c) == Tokens(ToSet(batch[c]) \cup {Top}) > MaxNumTokens

OverBudget(c) ==
    batch[c] # <<>> /\ Tokens(ToSet(batch[c]) \cup {Top}) > MaxNumTokens

\* The purge's metric and its answer to the client are not repeated here.
Drop(c) ==
    /\ HasRoom(c) /\ Stale(Top)
    /\ PopTop(IF IdOf[Top] \in cancelled THEN "purged" ELSE "unanswered")
    /\ UNCHANGED <<info, ticket, counter, expired, pc, batch, sleepers, aborted>>

\* Mutant: a request cancelled behind a valid one is not looked at again.
Take_Unchecked(c) ==
    /\ HasRoom(c) /\ ~OverBudget(c)
    /\ batch' = [batch EXCEPT ![c] = Append(@, Top)]
    /\ PopTop("taken")
    /\ UNCHANGED <<info, ticket, counter, expired, pc, sleepers, aborted>>

Take(c) ==
    /\ HasRoom(c) /\ ~Stale(Top) /\ ~OverBudget(c)
    /\ batch' = [batch EXCEPT ![c] = Append(@, Top)]
    /\ PopTop("taken")
    /\ UNCHANGED <<info, ticket, counter, expired, pc, sleepers, aborted>>

Return(c) ==
    /\ pc[c] = "extract"
    /\ HasRoom(c) => ~Stale(Top) /\ OverBudget(c)
    /\ pc' = [pc EXCEPT ![c] = "idle"]
    /\ UNCHANGED <<info, ticket, stored, counter, expired, batch, sleepers, fate, aborted>>

GetBatch(c) ==
    \/ Enter(c) \/ Purge(c) \/ Wait(c) \/ Extract(c)
    \/ Drop(c) \/ Take(c) \/ Return(c)

Clients == \/ \E o \in Reqs : PutAccept(o) \/ PutReject(o) \/ Expire(o)
           \/ \E i \in Ids : Abort(i)

Next == Clients \/ \E c \in Consumers : GetBatch(c)

Spec == Init /\ [][Next]_vars

\* Every consumer runs and calls get_batch again when it has its batch;
\* clients need not do anything.
FairSpec == Spec /\ \A c \in Consumers : WF_vars(GetBatch(c))

-----------------------------------------------------------------------------
(* Properties *)

Fates == {"new", "rejected", "queued", "purged", "answered", "unanswered", "taken"}

TypeOK ==
    /\ info \in [Reqs -> Attributes]
    /\ ticket \in [Reqs -> Nat]
    /\ heap \subseteq Reqs /\ index \subseteq Ids /\ cancelled \subseteq Ids
    /\ pending \in 0 .. MaxTokenCapacity /\ counter \in Nat
    /\ expired \subseteq Reqs
    /\ pc \in [Consumers -> {"idle", "purge", "asleep", "woken", "extract"}]
    /\ batch \in [Consumers -> Seq(Reqs)]
    /\ sleepers \in Seq(Consumers)
    /\ fate \in [Reqs -> Fates]
    /\ aborted \subseteq Reqs

\* With ids that clients do not reuse, the index and the set of cancelled ids
\* follow the heap through every put, abort, expiry and pop.  Otherwise the
\* queue would reject requests for ever for what is no longer there, or drop
\* a later request for an old cancellation.
IndexMatchesHeap ==
    /\ index = {IdOf[o] : o \in heap}
    /\ cancelled \subseteq index

\* The token count that decides about backpressure is that of the heap: it
\* does not drift, whichever way requests leave.
TokensMatchHeap == pending = Tokens(heap)

\* No wakeup is lost: while requests are queued and a consumer sleeps without
\* having been notified, another one is on its way to take them.
NoLostWakeup ==
    heap # {} /\ sleepers # <<>> =>
        \E c \in Consumers : pc[c] \in {"woken", "purge", "extract"}

\* An aborted request is never executed: "Handles client disconnects cleanly
\* without ghost execution".
NoGhostExecution == \A o \in aborted : fate[o] # "taken"

\* A request is taken only when no valid one of a better tier, or of its tier
\* and older, stays in the queue, whatever was put, aborted or expired while
\* the batch was being built.
ServedInOrder ==
    [][\A o, p \in Reqs :
         fate[o] = "queued" /\ fate'[o] = "taken" /\ p \in heap' /\ ~Stale(p) =>
           \/ info[o].priority < info[p].priority
           \/ info[o].priority = info[p].priority
                /\ info[o].arrived <= info[p].arrived]_vars

\* A request that timed out in the queue has its future completed with an
\* error ("Exception hook for client response task"), so its client does not
\* wait for ever.
TimeoutAnswered == \A o \in Reqs : fate[o] # "unanswered"

\* Every queued request leaves the queue, even one larger than the batch
\* budget and even if every consumer was asleep when it came.
EveryRequestLeaves ==
    \A o \in Reqs : fate[o] = "queued" ~> fate[o] # "queued"
=============================================================================
