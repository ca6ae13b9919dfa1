------------------------- MODULE RequestQueueProofs -------------------------
(***************************************************************************)
(* Proofs about RequestQueue, for any number of requests and consumers and *)
(* any limits.                                                             *)
(***************************************************************************)
EXTENDS RequestQueue, DataLemmas, FiniteSetTheorems, WellFoundedInduction, TLAPS

-----------------------------------------------------------------------------
(* The top of the heap *)

\* A finite set with a strict total order has a least element: the one whose
\* set of smaller elements is minimal among all of these.
LEMMA LeastElement ==
    ASSUME NEW S, IsFiniteSet(S), S # {}, NEW R,
           \A x, y, z \in S : <<x, y>> \in R /\ <<y, z>> \in R => <<x, z>> \in R,
           \A x \in S : <<x, x>> \notin R,
           \A x, y \in S : x = y \/ <<x, y>> \in R \/ <<y, x>> \in R
    PROVE  \E x \in S : \A y \in S \ {x} : <<x, y>> \in R
<1> DEFINE below(x) == {y \in S : <<y, x>> \in R}
           T == {below(x) : x \in S}
<1>1. T \subseteq FiniteSubsetsOf(S) /\ T # {}
  <2>1. \A x \in S : below(x) \subseteq S
    OBVIOUS
  <2>2. \A U \in SUBSET S : IsFiniteSet(U)
    BY FS_Subset
  <2>3. T # {}
    <3>1. PICK x : x \in S
      OBVIOUS
    <3>2. below(x) \in T
      BY <3>1
    <3> QED  BY <3>2
  <2> HIDE DEF below
  <2> QED  BY <2>1, <2>2, <2>3 DEF FiniteSubsetsOf
<1>2. PICK m \in T : \A t \in T : ~ (<<t, m>> \in StrictSubsetOrdering(S))
  <2> HIDE DEF T
  <2> QED  BY <1>1, FS_StrictSubsetOrderingWellFounded, WFMin
<1>3. PICK x \in S : m = below(x)
  BY <1>2
<1>4. ASSUME NEW y \in below(x) PROVE FALSE
  <2>1. below(y) \subseteq below(x) /\ y \notin below(y) /\ below(y) \in T
    BY <1>4
  <2>2. below(y) \in SUBSET S /\ below(x) \in SUBSET S
    OBVIOUS
  <2>3. <<below(y), below(x)>> \in StrictSubsetOrdering(S)
    <3> HIDE DEF below
    <3> QED  BY <2>1, <2>2, <1>4 DEF StrictSubsetOrdering
  <2> QED  BY <1>2, <1>3, <2>1, <2>3
<1> QED  BY <1>3, <1>4

\* Two heap entries never compare equal, because no two have the same ticket.
Tickets ==
    /\ \A o \in heap : ticket[o] <= counter
    /\ \A o, p \in heap : ticket[o] = ticket[p] => o = p

LEMMA BeforeIsTotal ==
    ASSUME TypeOK, Tickets
    PROVE  /\ \A o, p, q \in heap : Before(o, p) /\ Before(p, q) => Before(o, q)
           /\ \A o \in heap : ~Before(o, o)
           /\ \A o, p \in heap : o = p \/ Before(o, p) \/ Before(p, o)
<1>1. \A o \in heap : /\ info[o].priority \in Nat /\ info[o].arrived \in Nat
                      /\ ticket[o] \in Nat
  BY QueueAssumption DEF TypeOK
<1> QED  BY <1>1 DEF Before, Tickets

\* Top is what its CHOOSE asks for.
LEMMA TopIsFirst ==
    ASSUME TypeOK, Tickets, IsFiniteSet(heap), heap # {}
    PROVE  Top \in heap /\ \A p \in heap \ {Top} : Before(Top, p)
<1> DEFINE R == {oo \in heap \X heap : Before(oo[1], oo[2])}
<1>1. \A o, p \in heap : <<o, p>> \in R <=> Before(o, p)
  OBVIOUS
<1> HIDE DEF R
<1>2. \E o \in heap : \A p \in heap \ {o} : <<o, p>> \in R
  <2>1. /\ \A x, y, z \in heap : <<x, y>> \in R /\ <<y, z>> \in R => <<x, z>> \in R
        /\ \A x \in heap : <<x, x>> \notin R
        /\ \A x, y \in heap : x = y \/ <<x, y>> \in R \/ <<y, x>> \in R
    BY <1>1, BeforeIsTotal
  <2> QED  BY <2>1, LeastElement
<1>3. \E o \in heap : \A p \in heap \ {o} : Before(o, p)
  BY <1>1, <1>2
<1> QED  BY <1>3 DEF Top

-----------------------------------------------------------------------------
(* The inductive invariant *)

\* The consumers that will take or drop at least one more request, as long as
\* there is one, before they return or sleep.
Awake == {c \in Consumers : \/ pc[c] \in {"woken", "purge"}
                            \/ pc[c] = "extract" /\ batch[c] = <<>>}

HeapIsQueued == heap = {o \in Reqs : fate[o] = "queued"} /\ IsFiniteSet(heap)

SleepersSleep ==
    IsInjective(sleepers) /\ ToSet(sleepers) = {c \in Consumers : pc[c] = "asleep"}

\* While somebody sleeps, every queued request has woken somebody who is still
\* to serve it.
EnoughAwake == sleepers # <<>> => Cardinality(heap) <= Cardinality(Awake)

FreshBatch == \A c \in Consumers : pc[c] = "purge" => batch[c] = <<>>

DistinctIds == \A o, p \in Reqs : IdOf[o] = IdOf[p] => o = p

\* An aborted request that is still queued is still marked.
AbortedIsMarked ==
    \A o \in aborted : /\ fate[o] \notin {"new", "taken"}
                       /\ o \in heap => IdOf[o] \in cancelled

IInv ==
    /\ TypeOK /\ Tickets /\ HeapIsQueued /\ SleepersSleep /\ FreshBatch
    /\ EnoughAwake
    /\ DistinctIds => IndexMatchesHeap /\ AbortedIsMarked

-----------------------------------------------------------------------------
(* The initial state *)

LEMMA InitOK == Init => IInv
<1> SUFFICES ASSUME Init PROVE IInv
  OBVIOUS
<1>1. TypeOK
  BY QueueAssumption DEF Init, TypeOK, Fates
<1>2. Tickets /\ HeapIsQueued
  BY FS_EmptySet DEF Init, Tickets, HeapIsQueued
<1>3. SleepersSleep /\ FreshBatch /\ EnoughAwake
  BY EmptyQueue DEF Init, SleepersSleep, FreshBatch, EnoughAwake
<1>4. IndexMatchesHeap /\ AbortedIsMarked
  BY DEF Init, IndexMatchesHeap, AbortedIsMarked
<1> QED  BY <1>1, <1>2, <1>3, <1>4 DEF IInv

-----------------------------------------------------------------------------
(* Clients keep the invariant *)

\* What makes the cardinalities of EnoughAwake numbers.
LEMMA AwakeIsFinite == IsFiniteSet(Awake) /\ Cardinality(Awake) \in Nat
<1>1. Awake \in SUBSET Consumers
  BY DEF Awake
<1> QED  BY <1>1, FS_Subset, FS_CardinalityType, QueueAssumption

LEMMA PutRejectOK == ASSUME IInv, NEW o \in Reqs, PutReject(o) PROVE IInv'
<1>1. TypeOK'
  BY DEF IInv, TypeOK, PutReject, stored, Fates
<1>2. Tickets' /\ SleepersSleep' /\ FreshBatch' /\ EnoughAwake'
  BY DEF IInv, PutReject, stored, Tickets, SleepersSleep, FreshBatch, EnoughAwake, Awake
<1>3. HeapIsQueued'
  BY DEF IInv, TypeOK, PutReject, stored, HeapIsQueued
<1>4. ASSUME IndexMatchesHeap, AbortedIsMarked
      PROVE  IndexMatchesHeap' /\ AbortedIsMarked'
  BY <1>4 DEF IInv, TypeOK, PutReject, stored, IndexMatchesHeap, AbortedIsMarked
<1> QED  BY <1>1, <1>2, <1>3, <1>4 DEF IInv, DistinctIds

\* notify() turns the first sleeper into one that is awake.
LEMMA NotifyEffect ==
    ASSUME TypeOK, SleepersSleep, Notify, batch' = batch
    PROVE  /\ pc' \in [Consumers -> {"idle", "purge", "asleep", "woken", "extract"}]
           /\ sleepers' \in Seq(Consumers) /\ SleepersSleep'
           /\ FreshBatch => FreshBatch'
           /\ sleepers = <<>> => sleepers' = <<>>
           /\ sleepers # <<>> => /\ Awake' = Awake \cup {Head(sleepers)}
                                 /\ Head(sleepers) \notin Awake
<1>1. CASE sleepers = <<>>
  BY <1>1 DEF Notify, TypeOK, SleepersSleep, FreshBatch
<1>2. CASE sleepers # <<>>
  <2> DEFINE c == Head(sleepers)
  <2>1. /\ c \in Consumers /\ c \in ToSet(sleepers)
        /\ Tail(sleepers) \in Seq(Consumers) /\ IsInjective(Tail(sleepers))
        /\ ToSet(Tail(sleepers)) = ToSet(sleepers) \ {c}
    BY <1>2, TailOfQueue DEF TypeOK, SleepersSleep
  <2>2. pc[c] = "asleep"
    BY <2>1 DEF SleepersSleep
  <2>3. pc' = [pc EXCEPT ![c] = "woken"] /\ sleepers' = Tail(sleepers)
    BY <1>2 DEF Notify
  <2> HIDE DEF c
  <2>4. \A d \in Consumers : pc'[d] = IF d = c THEN "woken" ELSE pc[d]
    BY <2>1, <2>3 DEF TypeOK
  <2>5. Awake' = Awake \cup {c} /\ c \notin Awake
    BY <2>1, <2>2, <2>4 DEF Awake
  <2>6. SleepersSleep'
    BY <2>1, <2>3, <2>4 DEF SleepersSleep
  <2>7. FreshBatch => FreshBatch'
    BY <2>4 DEF FreshBatch
  <2> QED  BY <1>2, <2>1, <2>3, <2>5, <2>6, <2>7 DEF TypeOK, c
<1> QED  BY <1>1, <1>2

LEMMA PutAcceptOK == ASSUME IInv, NEW o \in Reqs, PutAccept(o) PROVE IInv'
<1>1. o \notin heap
  BY DEF IInv, HeapIsQueued, PutAccept
<1>2. /\ pc' \in [Consumers -> {"idle", "purge", "asleep", "woken", "extract"}]
      /\ sleepers' \in Seq(Consumers) /\ SleepersSleep' /\ FreshBatch'
      /\ sleepers = <<>> => sleepers' = <<>>
      /\ sleepers # <<>> => /\ Awake' = Awake \cup {Head(sleepers)}
                            /\ Head(sleepers) \notin Awake
  BY NotifyEffect DEF IInv, PutAccept
<1>3. TypeOK'
  <2>1. info[o].prompt \in Nat /\ pending \in Nat /\ MaxTokenCapacity \in Nat
    BY QueueAssumption DEF IInv, TypeOK
  <2>2. pending' \in 0 .. MaxTokenCapacity
    BY <2>1 DEF PutAccept, Full
  <2>3. index' \subseteq Ids /\ cancelled' \subseteq Ids
    BY DEF IInv, TypeOK, PutAccept, Ids
  <2> QED  BY <1>2, <2>2, <2>3 DEF IInv, TypeOK, PutAccept, Fates
<1>4. Tickets'
  BY <1>1 DEF IInv, TypeOK, Tickets, PutAccept
<1>5. HeapIsQueued'
  <2>1. IsFiniteSet(heap')
    BY FS_AddElement DEF IInv, HeapIsQueued, PutAccept
  <2>2. heap' = {p \in Reqs : fate'[p] = "queued"}
    BY DEF IInv, TypeOK, HeapIsQueued, PutAccept
  <2> QED  BY <2>1, <2>2 DEF HeapIsQueued
<1>6. EnoughAwake'
  <2> SUFFICES ASSUME sleepers # <<>> PROVE Cardinality(heap') <= Cardinality(Awake')
    BY <1>2 DEF EnoughAwake
  <2>1. Cardinality(heap') = Cardinality(heap) + 1 /\ Cardinality(heap) \in Nat
    BY <1>1, FS_AddElement, FS_CardinalityType DEF IInv, HeapIsQueued, PutAccept
  <2>2. Cardinality(Awake') = Cardinality(Awake) + 1
    BY <1>2, AwakeIsFinite, FS_AddElement
  <2> QED  BY <2>1, <2>2, AwakeIsFinite DEF IInv, EnoughAwake
<1>7. ASSUME DistinctIds, IndexMatchesHeap, AbortedIsMarked
      PROVE  IndexMatchesHeap' /\ AbortedIsMarked'
  BY <1>1, <1>7 DEF IInv, TypeOK, PutAccept, IndexMatchesHeap, AbortedIsMarked
<1> QED  BY <1>2, <1>3, <1>4, <1>5, <1>6, <1>7 DEF IInv, DistinctIds

LEMMA AbortOK == ASSUME IInv, NEW i \in Ids, Abort(i) PROVE IInv'
<1>1. TypeOK'
  BY DEF IInv, TypeOK, Abort
<1>2. Tickets' /\ SleepersSleep' /\ FreshBatch' /\ HeapIsQueued' /\ EnoughAwake'
  BY DEF IInv, Abort, Tickets, SleepersSleep, FreshBatch, HeapIsQueued, EnoughAwake,
         Awake
<1>3. ASSUME DistinctIds, IndexMatchesHeap, AbortedIsMarked
      PROVE  IndexMatchesHeap' /\ AbortedIsMarked'
  BY <1>3 DEF IInv, TypeOK, Abort, HeapIsQueued, IndexMatchesHeap, AbortedIsMarked
<1> QED  BY <1>1, <1>2, <1>3 DEF IInv, DistinctIds

LEMMA ExpireOK == ASSUME IInv, NEW o \in Reqs, Expire(o) PROVE IInv'
<1>1. TypeOK'
  BY DEF IInv, TypeOK, Expire, stored
<1>2. Tickets' /\ SleepersSleep' /\ FreshBatch' /\ HeapIsQueued' /\ EnoughAwake'
  BY DEF IInv, Expire, stored, Tickets, SleepersSleep, FreshBatch, HeapIsQueued,
         EnoughAwake, Awake
<1>3. ASSUME IndexMatchesHeap, AbortedIsMarked
      PROVE  IndexMatchesHeap' /\ AbortedIsMarked'
  BY <1>3 DEF Expire, stored, IndexMatchesHeap, AbortedIsMarked
<1> QED  BY <1>1, <1>2, <1>3 DEF IInv, DistinctIds

-----------------------------------------------------------------------------
(* Consumers keep the invariant *)

\* What every pop of the top does, whatever becomes of the request.
LEMMA PopEffect ==
    ASSUME IInv, heap # {}, NEW f \in Fates \ {"new", "queued"}, PopTop(f),
           UNCHANGED <<info, ticket, counter, aborted>>
    PROVE  /\ Top \in heap /\ heap' \subseteq Reqs /\ index' \subseteq Ids
           /\ cancelled' \subseteq Ids /\ pending' \in 0 .. MaxTokenCapacity
           /\ fate' \in [Reqs -> Fates]
           /\ Tickets' /\ HeapIsQueued'
           /\ Cardinality(heap) \in Nat /\ Cardinality(heap') = Cardinality(heap) - 1
           /\ DistinctIds /\ (f = "taken" => IdOf[Top] \notin cancelled) =>
                IndexMatchesHeap' /\ AbortedIsMarked'
<1>1. /\ Top \in heap /\ Top \in Reqs /\ heap \subseteq Reqs
      /\ IsFiniteSet(heap) /\ heap = {o \in Reqs : fate[o] = "queued"}
  BY TopIsFirst DEF IInv, HeapIsQueued, TypeOK
<1> DEFINE t == Top
<1>2. /\ heap' = heap \ {t} /\ index' = index \ {IdOf[t]}
      /\ cancelled' = cancelled \ {IdOf[t]} /\ fate' = [fate EXCEPT ![t] = f]
      /\ pending' = Max({0, pending - info[t].prompt})
  BY DEF PopTop
<1> HIDE DEF t
<1>3. t \in heap /\ t \in Reqs
  BY <1>1 DEF t
<1>4. pending' \in 0 .. MaxTokenCapacity
  <2>1. info[t].prompt \in Nat /\ pending \in 0 .. MaxTokenCapacity
        /\ MaxTokenCapacity \in Nat
    BY <1>3, QueueAssumption DEF IInv, TypeOK
  <2>2. \A a \in Int : Max({0, a}) = IF a > 0 THEN a ELSE 0
    BY DEF Max
  <2>3. \A a \in 0 .. MaxTokenCapacity, n \in Nat :
           Max({0, a - n}) \in 0 .. MaxTokenCapacity
    BY <2>1, <2>2
  <2> QED  BY <1>2, <2>1, <2>3
<1>5. fate' \in [Reqs -> Fates] /\ fate'[t] = f
      /\ \A o \in Reqs \ {t} : fate'[o] = fate[o]
  BY <1>2, <1>3 DEF IInv, TypeOK
<1>6. /\ IsFiniteSet(heap') /\ Cardinality(heap) \in Nat
      /\ Cardinality(heap') = Cardinality(heap) - 1
  BY <1>1, <1>2, <1>3, FS_RemoveElement, FS_CardinalityType
<1>7. HeapIsQueued'
  BY <1>1, <1>2, <1>3, <1>5, <1>6 DEF HeapIsQueued
<1>8. Tickets'
  BY <1>2 DEF IInv, Tickets
<1>9. ASSUME DistinctIds, f = "taken" => IdOf[t] \notin cancelled
      PROVE  IndexMatchesHeap' /\ AbortedIsMarked'
  <2>1. IndexMatchesHeap /\ AbortedIsMarked /\ aborted \subseteq Reqs
    BY <1>9 DEF IInv, TypeOK
  <2>2. \A o \in Reqs : o # t => IdOf[o] # IdOf[t]
    BY <1>3, <1>9 DEF DistinctIds
  <2>3. IndexMatchesHeap'
    BY <1>1, <1>2, <2>1, <2>2 DEF IndexMatchesHeap
  <2>4. AbortedIsMarked'
    BY <1>1, <1>2, <1>3, <1>5, <1>9, <2>1, <2>2 DEF AbortedIsMarked
  <2> QED  BY <2>3, <2>4
<1> QED  BY <1>1, <1>2, <1>4, <1>5, <1>6, <1>7, <1>8, <1>9 DEF IInv, TypeOK, t

\* A pop that leaves the consumers alone, as in Purge and Drop.
LEMMA DiscardOK ==
    ASSUME IInv, heap # {}, NEW f \in Fates \ {"new", "queued", "taken"}, PopTop(f),
           UNCHANGED <<info, ticket, counter, expired, pc, batch, sleepers, aborted>>
    PROVE  IInv'
<1>1. TypeOK' /\ Tickets' /\ HeapIsQueued'
  BY PopEffect DEF IInv, TypeOK
<1>2. SleepersSleep' /\ FreshBatch'
  BY DEF IInv, SleepersSleep, FreshBatch
<1>3. EnoughAwake'
  <2>1. Awake' = Awake /\ sleepers' = sleepers
    BY DEF Awake
  <2>2. Cardinality(heap) \in Nat /\ Cardinality(heap') = Cardinality(heap) - 1
    BY PopEffect
  <2> QED  BY <2>1, <2>2, AwakeIsFinite DEF IInv, EnoughAwake
<1>4. DistinctIds => IndexMatchesHeap' /\ AbortedIsMarked'
  BY PopEffect
<1> QED  BY <1>1, <1>2, <1>3, <1>4 DEF IInv, DistinctIds

LEMMA TakeOK == ASSUME IInv, NEW c \in Consumers, Take(c) PROVE IInv'
<1>1. /\ heap # {} /\ pc[c] = "extract" /\ PopTop("taken") /\ "taken" \in Fates
      /\ UNCHANGED <<info, ticket, counter, aborted>>
      /\ IdOf[Top] \notin cancelled
  BY DEF Take, HasRoom, Stale, Fates
<1>2. Top \in Reqs
  BY <1>1, PopEffect DEF IInv, TypeOK
<1>3. /\ batch' \in [Consumers -> Seq(Reqs)] /\ batch'[c] # <<>>
      /\ \A d \in Consumers \ {c} : batch'[d] = batch[d]
  <2>1. batch[c] \in Seq(Reqs) /\ batch' = [batch EXCEPT ![c] = Append(batch[c], Top)]
    BY DEF Take, IInv, TypeOK
  <2>2. Append(batch[c], Top) \in Seq(Reqs) /\ Append(batch[c], Top) # <<>>
    <3>1. Len(batch[c]) \in Nat /\ Len(Append(batch[c], Top)) = Len(batch[c]) + 1
          /\ Append(batch[c], Top) \in Seq(Reqs)
      BY <1>2, <2>1, AppendedQueue
    <3> QED  BY <3>1, EmptyQueue
  <2> QED  BY <2>1, <2>2 DEF IInv, TypeOK
<1>4. TypeOK' /\ Tickets' /\ HeapIsQueued'
  BY <1>1, <1>3, PopEffect DEF IInv, TypeOK, Take
<1>5. SleepersSleep' /\ FreshBatch'
  BY <1>1, <1>3 DEF IInv, SleepersSleep, FreshBatch, Take
<1>6. EnoughAwake'
  <2>1. Awake' = Awake \ {c} /\ sleepers' = sleepers
    BY <1>1, <1>3 DEF Awake, Take
  <2>2. Cardinality(heap) \in Nat /\ Cardinality(heap') = Cardinality(heap) - 1
    BY <1>1, PopEffect
  <2>3. Cardinality(Awake') >= Cardinality(Awake) - 1 /\ Cardinality(Awake) \in Nat
        /\ Cardinality(Awake') \in Int
    BY <2>1, AwakeIsFinite, FS_RemoveElement
  <2> QED  BY <2>1, <2>2, <2>3 DEF IInv, EnoughAwake
<1>7. DistinctIds => IndexMatchesHeap' /\ AbortedIsMarked'
  BY <1>1, PopEffect
<1> QED  BY <1>4, <1>5, <1>6, <1>7 DEF IInv, DistinctIds

\* A consumer that only moves within get_batch.
LEMMA MoveOK ==
    ASSUME IInv, NEW c \in Consumers,
           NEW next \in {"idle", "purge", "extract"}, pc[c] # "asleep",
           pc' = [pc EXCEPT ![c] = next],
           UNCHANGED <<info, ticket, stored, counter, expired, sleepers, fate, aborted>>,
           batch' \in [Consumers -> Seq(Reqs)],
           \A d \in Consumers \ {c} : batch'[d] = batch[d],
           next = "purge" => batch'[c] = <<>>,
           c \in Awake => c \in Awake' \/ heap = {}
    PROVE  IInv'
<1>1. /\ pc' \in [Consumers -> {"idle", "purge", "asleep", "woken", "extract"}]
      /\ \A d \in Consumers : pc'[d] = IF d = c THEN next ELSE pc[d]
  BY DEF IInv, TypeOK
<1>2. TypeOK'
  BY <1>1 DEF IInv, TypeOK, stored
<1>3. Tickets' /\ HeapIsQueued'
  BY DEF IInv, Tickets, HeapIsQueued, stored
<1>4. SleepersSleep' /\ FreshBatch'
  BY <1>1 DEF IInv, SleepersSleep, FreshBatch
<1>5. EnoughAwake'
  <2>1. CASE heap = {}
    <3>1. Awake' \in SUBSET Consumers
      BY DEF Awake
    <3>2. Cardinality(Awake') \in Nat /\ Cardinality(heap') = 0
      BY <2>1, <3>1, FS_EmptySet, FS_Subset, FS_CardinalityType, QueueAssumption
         DEF stored
    <3> QED  BY <3>2 DEF EnoughAwake
  <2>2. CASE heap # {}
    <3>1. Awake \subseteq Awake' /\ Awake' \in SUBSET Consumers
      BY <1>1, <2>2 DEF Awake
    <3>2. IsFiniteSet(Awake') /\ Cardinality(Awake) <= Cardinality(Awake')
          /\ Cardinality(Awake') \in Nat
      BY <3>1, FS_Subset, FS_CardinalityType, QueueAssumption
    <3>3. Cardinality(heap) \in Nat
      BY FS_CardinalityType DEF IInv, HeapIsQueued
    <3> QED  BY <3>2, <3>3, AwakeIsFinite DEF IInv, EnoughAwake, stored
  <2> QED  BY <2>1, <2>2
<1>6. ASSUME IndexMatchesHeap, AbortedIsMarked
      PROVE  IndexMatchesHeap' /\ AbortedIsMarked'
  BY <1>6 DEF IndexMatchesHeap, AbortedIsMarked, stored
<1> QED  BY <1>2, <1>3, <1>4, <1>5, <1>6 DEF IInv, DistinctIds

LEMMA EnterOK == ASSUME IInv, NEW c \in Consumers, Enter(c) PROVE IInv'
<1>1. /\ pc[c] # "asleep" /\ pc' = [pc EXCEPT ![c] = "purge"]
      /\ UNCHANGED <<info, ticket, stored, counter, expired, sleepers, fate, aborted>>
  BY DEF Enter
<1>2. /\ batch' \in [Consumers -> Seq(Reqs)] /\ batch'[c] = <<>>
      /\ \A d \in Consumers \ {c} : batch'[d] = batch[d]
  BY DEF Enter, IInv, TypeOK
<1>3. c \in Awake'
  BY <1>1 DEF Awake, IInv, TypeOK
<1> QED  BY <1>1, <1>2, <1>3, MoveOK

LEMMA ExtractOK == ASSUME IInv, NEW c \in Consumers, Extract(c) PROVE IInv'
<1>1. /\ pc[c] = "purge" /\ pc' = [pc EXCEPT ![c] = "extract"] /\ batch' = batch
      /\ UNCHANGED <<info, ticket, stored, counter, expired, sleepers, fate, aborted>>
  BY DEF Extract
<1>2. c \in Awake'
  BY <1>1 DEF Awake, IInv, TypeOK, FreshBatch
<1>3. batch' \in [Consumers -> Seq(Reqs)] /\ \A d \in Consumers \ {c} : batch'[d] = batch[d]
  BY <1>1 DEF IInv, TypeOK
<1> QED  BY <1>1, <1>2, <1>3, MoveOK

\* A consumer returns with an empty batch only when nothing is left.
LEMMA ReturnOK == ASSUME IInv, NEW c \in Consumers, Return(c) PROVE IInv'
<1>1. /\ pc[c] = "extract" /\ pc' = [pc EXCEPT ![c] = "idle"] /\ batch' = batch
      /\ UNCHANGED <<info, ticket, stored, counter, expired, sleepers, fate, aborted>>
  BY DEF Return
<1>2. c \in Awake => heap = {}
  <2> SUFFICES ASSUME batch[c] = <<>>, heap # {} PROVE FALSE
    BY <1>1 DEF Awake
  <2>1. HasRoom(c)
    BY <1>1, EmptyQueue, QueueAssumption DEF HasRoom
  <2> QED  BY <2>1 DEF Return, OverBudget
<1>3. batch' \in [Consumers -> Seq(Reqs)] /\ \A d \in Consumers \ {c} : batch'[d] = batch[d]
  BY <1>1 DEF IInv, TypeOK
<1> QED  BY <1>1, <1>2, <1>3, MoveOK

LEMMA WaitOK == ASSUME IInv, NEW c \in Consumers, Wait(c) PROVE IInv'
<1>1. /\ pc[c] = "purge" /\ heap = {} /\ heap' = {}
      /\ pc' \in [Consumers -> {"idle", "purge", "asleep", "woken", "extract"}]
      /\ \A d \in Consumers : pc'[d] = IF d = c THEN "asleep" ELSE pc[d]
  BY DEF Wait, IInv, TypeOK, stored
<1>2. /\ sleepers' \in Seq(Consumers) /\ ToSet(sleepers') = ToSet(sleepers) \cup {c}
      /\ IsInjective(sleepers')
  BY <1>1, AppendedQueue DEF Wait, IInv, TypeOK, SleepersSleep
<1>3. TypeOK'
  BY <1>1, <1>2 DEF IInv, TypeOK, Wait, stored
<1>4. Tickets' /\ HeapIsQueued' /\ FreshBatch'
  BY <1>1 DEF IInv, Tickets, HeapIsQueued, FreshBatch, Wait, stored
<1>5. SleepersSleep'
  BY <1>1, <1>2 DEF IInv, SleepersSleep
<1>6. EnoughAwake'
  <2>1. Awake' \in SUBSET Consumers
    BY DEF Awake
  <2>2. Cardinality(Awake') \in Nat
    BY <2>1, FS_Subset, FS_CardinalityType, QueueAssumption
  <2> QED  BY <1>1, <2>2, FS_EmptySet DEF EnoughAwake
<1>7. ASSUME IndexMatchesHeap, AbortedIsMarked
      PROVE  IndexMatchesHeap' /\ AbortedIsMarked'
  BY <1>7 DEF IndexMatchesHeap, AbortedIsMarked, Wait, stored
<1> QED  BY <1>3, <1>4, <1>5, <1>6, <1>7 DEF IInv, DistinctIds

LEMMA StepOK == IInv /\ [Next]_vars => IInv'
<1> SUFFICES ASSUME IInv, [Next]_vars PROVE IInv'
  OBVIOUS
<1>1. CASE UNCHANGED vars
  BY <1>1 DEF vars, stored, IInv, TypeOK, Tickets, HeapIsQueued, SleepersSleep, FreshBatch,
     EnoughAwake, Awake, DistinctIds, IndexMatchesHeap, AbortedIsMarked
<1>2. ASSUME NEW o \in Reqs, PutAccept(o) \/ PutReject(o) \/ Expire(o) PROVE IInv'
  BY <1>2, PutAcceptOK, PutRejectOK, ExpireOK
<1>3. ASSUME NEW i \in Ids, Abort(i) PROVE IInv'
  BY <1>3, AbortOK
<1>4. ASSUME NEW c \in Consumers, GetBatch(c) PROVE IInv'
  <2>1. CASE Enter(c)
    BY <2>1, EnterOK
  <2>2. CASE Purge(c)
    <3>1. (IF IdOf[Top] \in cancelled THEN "purged" ELSE "answered")
            \in Fates \ {"new", "queued", "taken"}
      BY DEF Fates
    <3> QED  BY <2>2, <3>1, DiscardOK DEF Purge
  <2>3. CASE Wait(c)
    BY <2>3, WaitOK
  <2>4. CASE Extract(c)
    BY <2>4, ExtractOK
  <2>5. CASE Drop(c)
    <3>1. (IF IdOf[Top] \in cancelled THEN "purged" ELSE "unanswered")
            \in Fates \ {"new", "queued", "taken"}
      BY DEF Fates
    <3> QED  BY <2>5, <3>1, DiscardOK DEF Drop, HasRoom
  <2>6. CASE Take(c)
    BY <2>6, TakeOK
  <2>7. CASE Return(c)
    BY <2>7, ReturnOK
  <2> QED  BY <1>4, <2>1, <2>2, <2>3, <2>4, <2>5, <2>6, <2>7 DEF GetBatch
<1> QED  BY <1>1, <1>2, <1>3, <1>4 DEF Next, Clients

-----------------------------------------------------------------------------
(* The token count *)

LEMMA PromptsAreNat == ASSUME TypeOK PROVE \A o \in Reqs : Prompts[o] \in Nat
  BY QueueAssumption DEF TypeOK, Prompts

\* What one request more puts on the count.
LEMMA TokensWithout ==
    ASSUME TypeOK, NEW objects \in SUBSET Reqs, IsFiniteSet(objects), NEW o \in objects
    PROVE  /\ Tokens(objects) = info[o].prompt + Tokens(objects \ {o})
           /\ Tokens(objects \ {o}) \in Nat /\ info[o].prompt \in Nat
<1>1. Prompts[o] = info[o].prompt /\ \A p \in objects : Prompts[p] \in Nat
  BY PromptsAreNat DEF Prompts
<1> QED  BY <1>1, SumWithout DEF Tokens

\* Taking the top out gives its tokens back; that the code clamps the count at
\* zero has no effect.
LEMMA PopTokens ==
    ASSUME IInv, TokensMatchHeap, heap # {}, NEW f, PopTop(f), info' = info
    PROVE  TokensMatchHeap'
<1>1. PICK t \in heap : t = Top
  BY TopIsFirst DEF IInv, HeapIsQueued
<1>2. heap' = heap \ {t} /\ pending' = Max({0, pending - info[t].prompt})
  BY <1>1 DEF PopTop
<1>3. /\ pending = info[t].prompt + Tokens(heap \ {t})
      /\ Tokens(heap \ {t}) \in Nat /\ info[t].prompt \in Nat
  BY TokensWithout DEF IInv, TypeOK, HeapIsQueued, TokensMatchHeap
<1>4. Max({0, pending - info[t].prompt}) = pending - info[t].prompt
  <2>1. pending - info[t].prompt \in Nat
    BY <1>3
  <2>2. \A n \in Nat : Max({0, n}) = n
    BY DEF Max
  <2> QED  BY <2>1, <2>2
<1>5. pending' = Tokens(heap')
  BY <1>2, <1>3, <1>4
<1>6. Tokens(heap') = Tokens(heap)'
  BY DEF Tokens, Prompts
<1> QED  BY <1>5, <1>6 DEF TokensMatchHeap

LEMMA PutTokens ==
    ASSUME IInv, TokensMatchHeap, NEW o \in Reqs, PutAccept(o)
    PROVE  TokensMatchHeap'
<1>1. /\ o \notin heap /\ heap' = heap \cup {o} /\ info' = info
      /\ pending' = pending + info[o].prompt
  BY DEF IInv, HeapIsQueued, PutAccept
<1> DEFINE more == heap \cup {o}
<1>2. /\ more \in SUBSET Reqs /\ IsFiniteSet(more) /\ o \in more /\ more \ {o} = heap
      /\ more = heap'
  BY <1>1, FS_AddElement DEF IInv, TypeOK, HeapIsQueued
<1> HIDE DEF more
<1>3. /\ Tokens(more) = info[o].prompt + Tokens(heap)
      /\ Tokens(heap) \in Nat /\ info[o].prompt \in Nat
  BY <1>2, TokensWithout DEF IInv
<1>4. Tokens(more) = Tokens(heap)'
  BY <1>1, <1>2 DEF Tokens, Prompts
<1> QED  BY <1>1, <1>3, <1>4 DEF TokensMatchHeap

LEMMA TokensStep == IInv /\ TokensMatchHeap /\ [Next]_vars => TokensMatchHeap'
<1> SUFFICES ASSUME IInv, TokensMatchHeap, [Next]_vars PROVE TokensMatchHeap'
  OBVIOUS
<1>1. CASE UNCHANGED <<info, heap, pending>>
  BY <1>1 DEF TokensMatchHeap, Tokens, Prompts
<1>2. ASSUME NEW o \in Reqs, PutAccept(o) PROVE TokensMatchHeap'
  BY <1>2, PutTokens
<1>3. ASSUME NEW c \in Consumers, Purge(c) \/ Drop(c) \/ Take(c) PROVE TokensMatchHeap'
  <2>1. PICK f : PopTop(f)
    BY <1>3 DEF Purge, Drop, Take
  <2>2. heap # {} /\ info' = info
    BY <1>3 DEF Purge, Drop, Take, HasRoom
  <2> QED  BY <2>1, <2>2, PopTokens
<1> QED
  BY <1>1, <1>2, <1>3
     DEF Next, Clients, PutReject, Expire, Abort, GetBatch, Enter, Wait, Extract, Return,
         vars, stored

-----------------------------------------------------------------------------
(* Theorems *)

\* The inductive invariant holds in every state.
THEOREM Invariance == Spec => []IInv
<1>1. Init => IInv
  BY InitOK
<1> QED  BY <1>1, StepOK, PTL DEF Spec

\* Types, and the bounds of the token count.
THEOREM TypeCorrect == Spec => []TypeOK
<1>1. IInv => TypeOK
  BY DEF IInv
<1> QED  BY <1>1, Invariance, PTL

\* No wakeup is lost, because there are always as many consumers awake as
\* there are requests that woke one.
THEOREM WakeupsSuffice == Spec => []NoLostWakeup
<1>1. ASSUME IInv PROVE NoLostWakeup
  <2> SUFFICES ASSUME heap # {}, sleepers # <<>> PROVE Awake # {}
    BY DEF NoLostWakeup, Awake
  <2>1. Cardinality(heap) \in Nat /\ Cardinality(heap) # 0
    BY <1>1, FS_EmptySet, FS_CardinalityType DEF IInv, HeapIsQueued
  <2>2. Cardinality(heap) <= Cardinality(Awake)
    BY <1>1 DEF IInv, EnoughAwake
  <2> QED  BY <2>1, <2>2, FS_EmptySet
<1> QED  BY <1>1, Invariance, PTL

\* The count that decides about backpressure is the sum over the heap, whichever
\* way requests leave it: nothing drifts in any number of puts and pops.
THEOREM TokensAreExact == Spec => []TokensMatchHeap
<1>1. Init => IInv /\ TokensMatchHeap
  <2>1. Init => TokensMatchHeap
    BY SumOfNone DEF Init, TokensMatchHeap, Tokens
  <2> QED  BY <2>1, InitOK
<1>2. IInv /\ TokensMatchHeap /\ [Next]_vars => IInv' /\ TokensMatchHeap'
  BY StepOK, TokensStep
<1> QED  BY <1>1, <1>2, PTL DEF Spec

\* With distinct ids the index and the cancelled ids are those of the heap.
THEOREM IndexIsExact ==
    ASSUME DistinctIds PROVE Spec => []IndexMatchesHeap
<1>1. IInv => IndexMatchesHeap
  BY DistinctIds DEF IInv
<1> QED  BY <1>1, Invariance, PTL

\* With distinct ids no aborted request is executed.
THEOREM NoGhosts ==
    ASSUME DistinctIds PROVE Spec => []NoGhostExecution
<1>1. IInv => NoGhostExecution
  BY DistinctIds DEF IInv, AbortedIsMarked, NoGhostExecution
<1> QED  BY <1>1, Invariance, PTL

\* Requests leave for execution in the order of their tiers and arrival.
THEOREM InOrder == Spec => ServedInOrder
<1> DEFINE Ordered(o, p) ==
             fate[o] = "queued" /\ fate'[o] = "taken" /\ p \in heap' /\ ~Stale(p) =>
               \/ info[o].priority < info[p].priority
               \/ info[o].priority = info[p].priority
                    /\ info[o].arrived <= info[p].arrived
<1>1. IInv /\ [Next]_vars => [\A o, p \in Reqs : Ordered(o, p)]_vars
  <2> SUFFICES ASSUME IInv, Next, NEW o \in Reqs, NEW p \in Reqs,
                      fate[o] = "queued", fate'[o] = "taken", p \in heap'
               PROVE  \/ info[o].priority < info[p].priority
                      \/ info[o].priority = info[p].priority
                           /\ info[o].arrived <= info[p].arrived
    OBVIOUS
  <2>1. PICK c \in Consumers : Take(c)
    <3>1. fate' \in [Reqs -> Fates] /\ fate \in [Reqs -> Fates]
      BY StepOK DEF IInv, TypeOK
    <3> QED  BY <3>1 DEF Next, Clients, PutAccept, PutReject, Expire, Abort, GetBatch, Enter,
                Purge, Wait, Extract, Drop, Return, PopTop, IInv, TypeOK, stored
  <2>2. o = Top /\ heap # {} /\ heap' = heap \ {Top}
    BY <2>1 DEF Take, HasRoom, PopTop, IInv, TypeOK
  <2>3. Before(o, p)
    BY <2>2, TopIsFirst DEF IInv, HeapIsQueued
  <2>4. info[o].arrived \in Nat /\ info[p].arrived \in Nat
    BY QueueAssumption DEF IInv, TypeOK
  <2> QED  BY <2>3, <2>4 DEF Before
<1> QED  BY <1>1, Invariance, PTL DEF Spec, ServedInOrder
=============================================================================
