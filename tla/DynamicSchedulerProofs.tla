------------------------ MODULE DynamicSchedulerProofs ------------------------
(***************************************************************************)
(* Proofs about DynamicScheduler, for every number of sequences, pool,     *)
(* block size, limit, priority, deadline and text, and for every caller.   *)
(* The lemmas about queues and native calls are SchedulerProofs'; its      *)
(* invariant is not: a victim leaves the decode loop in the middle, so     *)
(* what the loop has in hand is no longer what is running.                 *)
(***************************************************************************)
EXTENDS DynamicScheduler, SchedulerProofs, FiniteSetTheorems

-----------------------------------------------------------------------------
(* Sorting *)

\* An arrangement that holds all a queue without duplicates holds, has none.
LEMMA Arranged ==
    ASSUME NEW S, NEW q \in Seq(S), IsInjective(q),
           NEW r \in Arrangements(q), Len(r) = Len(q), ToSet(r) = ToSet(q)
    PROVE  r \in Seq(S) /\ IsInjective(r) /\ ToSet(r) = ToSet(q) /\ Len(r) = Len(q)
<1>1. /\ r \in [DOMAIN q -> ToSet(q)]
      /\ Len(q) \in Nat /\ DOMAIN q = 1 .. Len(q) /\ ToSet(q) \subseteq S
  <2>1. Len(q) \in Nat /\ DOMAIN q = 1 .. Len(q) /\ \A i \in DOMAIN q : q[i] \in S
    OBVIOUS
  <2> QED  BY <2>1 DEF Arrangements, ToSet
<1>2. r \in Seq(S)
  BY <1>1
<1>3. q \in Surjection(DOMAIN q, ToSet(q)) /\ q \in Injection(DOMAIN q, ToSet(q))
  BY <1>1 DEF Surjection, Injection, ToSet
<1>4. r \in Surjection(DOMAIN q, ToSet(q))
  BY <1>1 DEF Surjection, ToSet
<1>5. IsFiniteSet(DOMAIN q)
  <2>1. 1 \in Int /\ Len(q) \in Int
    BY <1>1
  <2> QED  BY <1>1, <2>1, FS_Interval
<1>6. Cardinality(ToSet(q)) = Cardinality(DOMAIN q)
  BY <1>3, <1>5, FS_Surjection
<1>7. r \in Injection(DOMAIN q, ToSet(q))
  BY <1>4, <1>5, <1>6, FS_Surjection
<1> QED  BY <1>1, <1>2, <1>7 DEF Injection

-----------------------------------------------------------------------------
(* Types *)

CallType ==
    [todo : Seq(Seqs), retained : Seq(Seqs), prefill : Seq(Seqs),
     decode : Seq(Seqs), popped : Seq(Seqs), free : Int,
     batched : Nat, argFree : Int, argBatched : Nat]

\* What DTypeOK says of the variables DynamicScheduler adds.
DynamicTypes ==
    /\ arrived \in Seq(Seqs)
    /\ depth \in [Texts -> Nat]
    /\ computed \in [Seqs -> Nat]
    /\ late \subseteq Seqs /\ evicted \subseteq Seqs
    /\ granted \in BOOLEAN /\ alone \in BOOLEAN
    /\ idx \in Nat \ {0}

LEMMA DTypeParts == DTypeOK <=> TypeOK /\ DynamicTypes
  BY DEF DTypeOK, DynamicTypes

LEMMA DynamicTypesKept == DynamicTypes /\ UNCHANGED dynamicVars => DynamicTypes'
  BY DEF DynamicTypes, dynamicVars, requestVars, localVars

\* The trie gains whole blocks of the freed sequence and nothing else.
LEMMA InsertEffect ==
    ASSUME DTypeOK, NEW s \in KV!Registered, Insert(s)
    PROVE  /\ depth' \in [Texts -> Nat]
           /\ \A x \in Texts : depth'[x] > depth[x] =>
                 x = Text[s] /\ BlockSize * depth'[x] <= TotalLen(s)
<1> DEFINE whole == TotalLen(s) \div BlockSize
           held == KV!BlocksFor(tokens[s])
           n == IF whole <= held THEN whole ELSE held
<1>1. s \in Seqs /\ Text[s] \in Texts /\ TotalLen(s) \in Nat /\ tokens[s] \in Nat
  BY BlocksAreInt DEF DTypeOK, TypeOK, Texts
<1>2. whole \in Nat /\ BlockSize * whole <= TotalLen(s) /\ BlockSize \in Nat
  BY <1>1, SchedulerAssumption
<1>3. held \in Nat
  BY <1>1, BlocksAreNat
<1>4. depth' = [depth EXCEPT ![Text[s]] = IF depth[Text[s]] >= n THEN depth[Text[s]] ELSE n]
  BY DEF Insert
<1> HIDE DEF whole, held
<1>5. n \in Nat /\ n <= whole
  BY <1>2, <1>3
<1>6. BlockSize * n <= BlockSize * whole
  BY <1>2, <1>5
<1>7. BlockSize * n <= TotalLen(s)
  <2>1. BlockSize * n \in Nat /\ BlockSize * whole \in Nat
    BY <1>2, <1>5
  <2> QED  BY <1>1, <1>2, <1>6, <2>1
<1> HIDE DEF n
<1>8. depth \in [Texts -> Nat]
  BY DEF DTypeOK
<1>9. \A x \in Texts : depth'[x] > depth[x] => x = Text[s] /\ depth'[x] = n
  BY <1>4, <1>5, <1>8
<1> QED  BY <1>1, <1>4, <1>5, <1>7, <1>8, <1>9

LEMMA MatchedIsNat == ASSUME DTypeOK, NEW s \in Seqs PROVE Matched(s) \in Nat
<1>1. BlockSize \in Nat \ {0} /\ depth[Text[s]] \in Nat /\ req[s].prompt \in Nat
  BY SchedulerAssumption, RequestsAreNat DEF DTypeOK, Texts
<1>2. BlockSize * depth[Text[s]] \in Nat
  BY <1>1
<1>3. req[s].prompt - (req[s].prompt % BlockSize) \in Nat
  BY <1>1
<1> QED  BY <1>2, <1>3 DEF Matched

LEMMA EffectiveIsNat == ASSUME DTypeOK, NEW s \in Seqs PROVE Effective(s) \in Nat
<1>1. computed[s] \in Nat /\ req[s].prompt \in Nat
  BY RequestsAreNat DEF DTypeOK
<1> QED  BY <1>1 DEF Effective

-----------------------------------------------------------------------------
(* The inductive invariant *)

\* The decode loop: victims are in none of the two lists it keeps of those that
\* run on, and whatever it holds comes from running_queue, from which nobody
\* but a victim has gone to another queue.
InLoop ==
    pc = "decode" =>
        /\ IsInjective(call.todo) /\ IsInjective(call.retained)
        /\ ToSet(call.todo) \cap ToSet(call.retained) = {}
        /\ ToSet(call.retained) \cap evicted = {}
        /\ ToSet(call.todo) \cup ToSet(call.retained) \cup ToSet(call.decode)
              \subseteq ToSet(running)
        /\ ToSet(running) \cap ToSet(waiting) = {}
        /\ (ToSet(running) \ evicted) \cap ToSet(preempted) = {}
        /\ call.prefill = <<>>

\* One sequence is between two queues, and not in running_queue yet.
PoppedApart ==
    pc \in Holding => \E s \in Seqs : call.popped = <<s>> /\ s \notin ToSet(running)

AtRest == pc = "idle" => evicted = {} /\ call.prefill = <<>> /\ call.decode = <<>>

\* The batch may hold a victim that was decoded before its turn came, so it is
\* not a part of running_queue; but nobody of it is waiting.
InBatch ==
    /\ pc # "raised" => ToSet(call.decode) \cap ToSet(waiting) = {}
    /\ pc \in MidCall => ToSet(call.prefill) \subseteq ToSet(running)

DNewIsNowhere ==
    pc # "raised" =>
        \A s \in Seqs : state[s] = "NEW" =>
            /\ gen[s] = 0
            /\ s \notin known \cup DActive \cup Queued \cup ToSet(call.decode)

Spots == DInOnePlace /\ InLoop /\ PoppedApart /\ AtRest /\ InBatch

Places == DTypeOK /\ Spots /\ DRunningHoldsKV /\ DNewIsNowhere

LEMMA PlacesTypes ==
    ASSUME Places
    PROVE  /\ TypeOK /\ call \in CallType /\ idx \in Nat
           /\ waiting \in Seq(Seqs) /\ running \in Seq(Seqs) /\ preempted \in Seq(Seqs)
<1>1. TypeOK /\ idx \in Nat
  BY DEF Places, DTypeOK
<1> QED  BY <1>1 DEF TypeOK, CallType

LEMMA PlacesInit == DInit => Places
<1> SUFFICES ASSUME DInit PROVE Places
  OBVIOUS
<1>0. TypeOK
  BY InitOK DEF DInit, IInv
<1>1. /\ pc = "idle" /\ waiting = <<>> /\ running = <<>> /\ preempted = <<>>
      /\ known = {} /\ evicted = {} /\ tokens = [s \in {} |-> 0]
      /\ gen = [s \in Seqs |-> 0] /\ call = Locals(0)
  BY DEF DInit, Init
<1>2. DTypeOK
  <2>1. DynamicTypes
    <3>1. granted \in BOOLEAN /\ alone \in BOOLEAN
      BY Zenon DEF DInit
    <3>2. /\ arrived = <<>> /\ depth = [x \in Texts |-> 0] /\ idx = 1
          /\ computed = [s \in Seqs |-> 0] /\ late = {} /\ evicted = {}
      BY DEF DInit
    <3> QED  BY <3>1, <3>2 DEF DynamicTypes
  <2> QED  BY <1>0, <2>1, DTypeParts
<1>3. call.prefill = <<>> /\ call.decode = <<>>
  BY <1>1 DEF Locals
<1>4. DActive = {} /\ Queued = {} /\ KV!Registered = {}
  BY <1>1, EmptyQueue DEF DActive, Queued, KV!Registered
<1>5. Spots
  BY <1>1, <1>3, <1>4, EmptyQueue
     DEF Spots, DInOnePlace, InLoop, PoppedApart, AtRest, InBatch, MidCall, Holding
<1> QED  BY <1>1, <1>2, <1>3, <1>4, <1>5, EmptyQueue DEF Places, DRunningHoldsKV, DNewIsNowhere

-----------------------------------------------------------------------------
(* The client's calls *)

LEMMA AddDynamicSequencePlaces ==
    ASSUME Places, NEW s \in Seqs, AddDynamicSequence(s)
    PROVE  Places'
<1>1. /\ pc = "idle" /\ pc' = pc /\ req' = req /\ gen' = gen /\ budget' = budget
      /\ running' = running /\ preempted' = preempted /\ avail' = avail
      /\ tokens' = tokens /\ call' = call /\ known' = known \cup {s}
      /\ state' = [state EXCEPT ![s] = "WAITING"] /\ waiting' = Append(waiting, s)
      /\ state[s] = "NEW"
  BY DEF AddDynamicSequence, AddSequence, native
<1>2. /\ depth' = depth /\ late' = late /\ evicted' = evicted /\ granted' = granted
      /\ idx' = idx /\ alone' = alone /\ arrived' = Append(arrived, s)
      /\ computed' = [computed EXCEPT ![s] = IF Matched(s) >= MinMatch THEN Matched(s) ELSE 0]
  BY DEF AddDynamicSequence, localVars
<1>3. gen[s] = 0 /\ s \notin ToSet(running) \cup ToSet(waiting) \cup ToSet(preempted)
  BY <1>1 DEF Places, DNewIsNowhere, DActive, Queued
<1>4. /\ waiting' \in Seq(Seqs) /\ ToSet(waiting') = ToSet(waiting) \cup {s}
      /\ IsInjective(waiting) => IsInjective(waiting')
  BY <1>1, <1>3, AppendedQueue DEF Places, DTypeOK, TypeOK
<1>5. DActive = ToSet(running) /\ DActive' = DActive /\ KV!Registered' = KV!Registered
      /\ Queued' = Queued \cup {s} /\ ToSet(call.decode) = {}
  BY <1>1, <1>4, EmptyQueue DEF DActive, KV!Registered, Queued, Places, Spots, AtRest
<1>6. DTypeOK'
  <2>1. TypeOK'
    BY <1>1, <1>4, <1>5 DEF Places, DTypeOK, TypeOK, States
  <2>2. DynamicTypes'
    <3>1. arrived' \in Seq(Seqs)
      BY <1>2, AppendedQueue DEF Places, DTypeOK
    <3>2. computed' \in [Seqs -> Nat]
      BY <1>2, MatchedIsNat DEF Places, DTypeOK
    <3> QED  BY <1>2, <3>1, <3>2 DEF Places, DTypeOK, DynamicTypes
  <2> QED  BY <2>1, <2>2 DEF DTypeOK, DynamicTypes
<1>7. Spots'
  BY <1>1, <1>2, <1>3, <1>4, <1>5
     DEF Places, Spots, DInOnePlace, InLoop, PoppedApart, AtRest, InBatch, MidCall, Holding
<1>8. DRunningHoldsKV'
  BY <1>1, <1>5 DEF Places, DRunningHoldsKV
<1>9. DNewIsNowhere'
  BY <1>1, <1>5 DEF Places, DTypeOK, TypeOK, DNewIsNowhere
<1> QED  BY <1>6, <1>7, <1>8, <1>9 DEF Places

LEMMA DFinishSequencePlaces ==
    ASSUME Places, NEW s \in Seqs, DFinishSequence(s)
    PROVE  Places'
<1>1. /\ pc = "idle" /\ pc' = pc /\ req' = req /\ gen' = gen /\ budget' = budget
      /\ preempted' = preempted /\ call' = call /\ known' = known \ {s}
      /\ running' = Dropped(running, s) /\ waiting' = Dropped(waiting, s)
      /\ state' = [state EXCEPT ![s] = "FINISHED"] /\ FreeIfRegistered(s)
      /\ s \in KV!Registered /\ Insert(s)
  BY DEF DFinishSequence, FinishSequence, FreeSequenceResources, DFree
<1>2. /\ arrived' = arrived /\ computed' = computed /\ late' = late /\ evicted' = evicted
      /\ granted' = granted /\ idx' = idx /\ alone' = alone
  BY DEF DFinishSequence, localVars
<1>3. IsInjective(waiting) /\ IsInjective(running)
  BY <1>1 DEF Places, Spots, DInOnePlace
<1>4. /\ waiting' \in Seq(Seqs) /\ IsInjective(waiting')
      /\ ToSet(waiting') = ToSet(waiting) \ {s}
      /\ running' \in Seq(Seqs) /\ IsInjective(running')
      /\ ToSet(running') = ToSet(running) \ {s}
  BY <1>1, <1>3, DroppedFromQueue DEF Places, DTypeOK, TypeOK
<1>5. /\ DActive = ToSet(running) /\ DActive' = DActive \ {s}
      /\ Queued' \subseteq Queued /\ Queued \ {s} \subseteq Queued'
  BY <1>1, <1>4 DEF DActive, Queued
<1>6. /\ KV!Registered' = KV!Registered \ {s}
      /\ KV!Registered' \subseteq Seqs /\ tokens' \in [KV!Registered' -> Nat]
      /\ avail' \in Nat
  BY <1>1, FreeEffect DEF Places, DTypeOK
<1>7. DTypeOK'
  <2>1. TypeOK'
    BY <1>1, <1>4, <1>6 DEF Places, DTypeOK, TypeOK, States
  <2>2. depth' \in [Texts -> Nat]
    BY <1>1, InsertEffect DEF Places
  <2>3. DynamicTypes'
    BY <1>2, <2>2 DEF Places, DTypeOK, DynamicTypes
  <2> QED  BY <2>1, <2>3 DEF DTypeOK, DynamicTypes
<1>8. Spots'
  BY <1>1, <1>2, <1>4, <1>5
     DEF Places, Spots, DInOnePlace, InLoop, PoppedApart, AtRest, InBatch, MidCall,
         Holding, Queued
<1>9. DRunningHoldsKV'
  BY <1>1, <1>5, <1>6 DEF Places, DRunningHoldsKV
<1>10. DNewIsNowhere'
  BY <1>1, <1>5 DEF Places, DTypeOK, TypeOK, DNewIsNowhere
<1> QED  BY <1>7, <1>8, <1>9, <1>10 DEF Places

\* Steps that leave every queue, the page table and the locals that hold
\* sequences as they are.
LEMMA SameSpots ==
    ASSUME Places, DTypeOK', pc' = pc,
           UNCHANGED <<state, gen, queues, known, native, call, evicted>>
    PROVE  Places'
<1>1. /\ state' = state /\ gen' = gen /\ known' = known /\ tokens' = tokens
      /\ waiting' = waiting /\ running' = running /\ preempted' = preempted
      /\ call' = call /\ evicted' = evicted /\ pc' = pc
  BY DEF queues, native
<1>2. DActive' = DActive /\ Queued' = Queued /\ KV!Registered' = KV!Registered
  BY <1>1 DEF DActive, Queued, KV!Registered
<1>3. Spots'
  BY <1>1, <1>2
     DEF Places, Spots, DInOnePlace, InLoop, PoppedApart, AtRest, InBatch
<1> QED  BY <1>1, <1>2, <1>3 DEF Places, DRunningHoldsKV, DNewIsNowhere

LEMMA AgePlaces == ASSUME Places, NEW s \in Seqs, Age(s) PROVE Places'
<1>1. UNCHANGED <<vars, arrived, depth, computed, localVars>> /\ late' = late \cup {s}
  BY DEF Age
<1>2. TypeOK'
  BY <1>1 DEF Places, DTypeOK, TypeOK, vars, queues, native, KV!Registered
<1>3. DynamicTypes'
  BY <1>1 DEF Places, DTypeOK, DynamicTypes, localVars
<1>4. DTypeOK'
  BY <1>2, <1>3 DEF DTypeOK, DynamicTypes
<1> QED  BY <1>1, <1>4, SameSpots DEF vars, localVars

-----------------------------------------------------------------------------
(* The decode loop *)

LEMMA DBeginPlaces == ASSUME Places, DBegin PROVE Places'
<1>1. /\ pc = "idle" /\ pc' = "decode" /\ req' = req /\ gen' = gen /\ budget' = budget
      /\ waiting' = waiting /\ preempted' = preempted /\ state' = state
      /\ avail' = avail /\ tokens' = tokens /\ known' = known
      /\ call' = [Locals(avail) EXCEPT !.todo = running'] /\ UNCHANGED dynamicVars
  BY DEF DBegin, native
<1>2. IsInjective(running) /\ running \in Seq(Seqs) /\ evicted = {} /\ evicted' = {}
  BY <1>1 DEF Places, DTypeOK, TypeOK, Spots, DInOnePlace, AtRest, dynamicVars, localVars
<1>3. /\ running' \in Seq(Seqs) /\ IsInjective(running')
      /\ ToSet(running') = ToSet(running)
  <2>1. /\ running' \in Arrangements(running) /\ Len(running') = Len(running)
        /\ ToSet(running') = ToSet(running)
    BY DEF DBegin, Sorted
  <2> QED  BY <1>2, <2>1, Arranged
<1>4. /\ call'.todo = running' /\ call'.retained = <<>> /\ call'.decode = <<>>
      /\ call'.prefill = <<>> /\ call' \in CallType
  <2>1. call' = [todo |-> running', retained |-> <<>>, prefill |-> <<>>,
                 decode |-> <<>>, popped |-> <<>>, free |-> avail, batched |-> 0,
                 argFree |-> 0, argBatched |-> 0]
    BY <1>1 DEF Locals
  <2>2. avail \in Int
    BY DEF Places, DTypeOK, TypeOK
  <2> QED  BY <1>3, <2>1, <2>2 DEF CallType
<1>5. DActive = ToSet(running) /\ DActive' = DActive /\ KV!Registered' = KV!Registered
      /\ Queued' = Queued
  BY <1>1, <1>2, <1>3, <1>4, EmptyQueue DEF DActive, KV!Registered, Queued
<1>6. DTypeOK'
  <2>1. TypeOK'
    BY <1>1, <1>3, <1>4, <1>5 DEF Places, DTypeOK, TypeOK, CallType
  <2>2. DynamicTypes'
    BY <1>1, DTypeParts, DynamicTypesKept DEF Places
  <2> QED  BY <2>1, <2>2 DEF DTypeOK, DynamicTypes
<1>7. Spots'
  BY <1>1, <1>2, <1>3, <1>4, <1>5, EmptyQueue
     DEF Places, Spots, DInOnePlace, InLoop, PoppedApart, AtRest, InBatch, MidCall, Holding
<1> QED  BY <1>1, <1>4, <1>5, <1>6, <1>7, EmptyQueue
            DEF Places, DRunningHoldsKV, DNewIsNowhere

\* What every iteration of the decode loop sees.
LEMMA DAtHead ==
    ASSUME Places, Deciding
    PROVE  /\ Reached \in Seqs /\ pc = "decode" /\ Reached \in ToSet(call.todo)
           /\ Reached \in ToSet(running)
           /\ Tail(call.todo) \in Seq(Seqs) /\ IsInjective(Tail(call.todo))
           /\ ToSet(Tail(call.todo)) = ToSet(call.todo) \ {Reached}
           /\ Reached \notin ToSet(call.retained)
           /\ DActive = (ToSet(call.todo) \ evicted) \cup ToSet(call.retained)
<1>1. /\ pc = "decode" /\ call.todo \in Seq(Seqs) /\ call.todo # <<>>
      /\ IsInjective(call.todo) /\ ToSet(call.todo) \cap ToSet(call.retained) = {}
      /\ ToSet(call.todo) \subseteq ToSet(running)
  BY DEF Deciding, Places, DTypeOK, TypeOK, Spots, InLoop
<1> QED  BY <1>1, TailOfQueue DEF Reached, DActive

LEMMA DecodeSkipPlaces == ASSUME Places, DecodeSkip PROVE Places'
<1> DEFINE s == Reached
<1>1. /\ Deciding /\ s \in evicted /\ pc' = pc /\ req' = req /\ gen' = gen
      /\ state' = state /\ waiting' = waiting /\ running' = running
      /\ preempted' = preempted /\ known' = known /\ budget' = budget
      /\ avail' = avail /\ tokens' = tokens /\ UNCHANGED dynamicVars
      /\ call' = [call EXCEPT !.todo = Tail(call.todo)]
  BY DEF DecodeSkip, queues, native
<1>2. /\ pc = "decode" /\ Tail(call.todo) \in Seq(Seqs) /\ IsInjective(Tail(call.todo))
      /\ ToSet(Tail(call.todo)) = ToSet(call.todo) \ {s}
      /\ s \notin ToSet(call.retained)
      /\ DActive = (ToSet(call.todo) \ evicted) \cup ToSet(call.retained)
  BY <1>1, DAtHead
<1> HIDE DEF s
<1>3. /\ call'.todo = Tail(call.todo) /\ call'.retained = call.retained
      /\ call'.decode = call.decode /\ call'.prefill = call.prefill /\ call' \in CallType
  BY <1>1, <1>2 DEF Places, DTypeOK, TypeOK, CallType
<1>4. evicted' = evicted /\ KV!Registered' = KV!Registered /\ Queued' = Queued
  BY <1>1 DEF dynamicVars, localVars, KV!Registered, Queued
<1>5. DActive' = DActive
  BY <1>1, <1>2, <1>3, <1>4 DEF DActive
<1>6. DTypeOK'
  <2>1. TypeOK'
    BY <1>1, <1>3, <1>4 DEF Places, DTypeOK, TypeOK, CallType
  <2>2. DynamicTypes'
    BY <1>1, DTypeParts, DynamicTypesKept DEF Places
  <2> QED  BY <2>1, <2>2 DEF DTypeOK, DynamicTypes
<1>7. Spots'
  <2>1. /\ pc = "decode" /\ pc' = pc /\ waiting' = waiting /\ running' = running
        /\ preempted' = preempted /\ known' = known
    BY <1>1, <1>2
  <2> QED  BY <2>1, <1>2, <1>3, <1>4, <1>5
              DEF Places, Spots, DInOnePlace, InLoop, PoppedApart, AtRest, InBatch,
                  MidCall, Holding
<1> QED  BY <1>1, <1>3, <1>4, <1>5, <1>6, <1>7 DEF Places, DRunningHoldsKV, DNewIsNowhere

LEMMA DDecodeFinishedPlaces == ASSUME Places, DDecodeFinished PROVE Places'
<1> DEFINE s == Reached
<1>1. /\ Deciding /\ s \notin evicted /\ FreeIfRegistered(s) /\ Insert(s)
      /\ s \in KV!Registered
      /\ pc' = pc /\ req' = req /\ gen' = gen /\ budget' = budget
      /\ waiting' = waiting /\ running' = running /\ preempted' = preempted
      /\ known' = known \ {s} /\ state' = [state EXCEPT ![s] = "FINISHED"]
      /\ call' = [call EXCEPT !.todo = Tail(call.todo)]
  BY DEF DDecodeFinished, DDeciding, DFree, DecodeFinished, FreeSequenceResources, queues
<1>2. /\ arrived' = arrived /\ computed' = computed /\ late' = late /\ evicted' = evicted
      /\ granted' = granted /\ idx' = idx /\ alone' = alone
  BY DEF DDecodeFinished, localVars
<1>3. /\ s \in Seqs /\ pc = "decode"
      /\ Tail(call.todo) \in Seq(Seqs) /\ IsInjective(Tail(call.todo))
      /\ ToSet(Tail(call.todo)) = ToSet(call.todo) \ {s}
      /\ s \notin ToSet(call.retained)
      /\ DActive = (ToSet(call.todo) \ evicted) \cup ToSet(call.retained)
  BY <1>1, DAtHead
<1> HIDE DEF s
<1>4. /\ call'.todo = Tail(call.todo) /\ call'.retained = call.retained
      /\ call'.decode = call.decode /\ call'.prefill = call.prefill /\ call' \in CallType
  BY <1>1, <1>3 DEF Places, DTypeOK, TypeOK, CallType
<1>5. /\ KV!Registered' = KV!Registered \ {s}
      /\ KV!Registered' \subseteq Seqs /\ tokens' \in [KV!Registered' -> Nat]
      /\ avail' \in Nat
  BY <1>1, <1>3, FreeEffect DEF Places, DTypeOK
<1>6. DActive' = DActive \ {s} /\ Queued' = Queued
  BY <1>1, <1>2, <1>3, <1>4 DEF DActive, Queued
<1>7. DTypeOK'
  <2>1. TypeOK'
    BY <1>1, <1>4, <1>5 DEF Places, DTypeOK, TypeOK, CallType, States
  <2>2. depth' \in [Texts -> Nat]
    BY <1>1, InsertEffect DEF Places
  <2>3. DynamicTypes'
    BY <1>2, <2>2 DEF Places, DTypeOK, DynamicTypes
  <2> QED  BY <2>1, <2>3 DEF DTypeOK, DynamicTypes
<1>8. Spots'
  <2>1. /\ pc = "decode" /\ pc' = pc /\ waiting' = waiting /\ running' = running
        /\ preempted' = preempted /\ known' = known \ {s}
    BY <1>1, <1>3
  <2> QED  BY <2>1, <1>2, <1>3, <1>4, <1>6
              DEF Places, Spots, DInOnePlace, InLoop, PoppedApart, AtRest, InBatch,
                  MidCall, Holding
<1>9. DRunningHoldsKV'
  BY <1>1, <1>5, <1>6 DEF Places, DRunningHoldsKV
<1>10. DNewIsNowhere'
  BY <1>1, <1>3, <1>4, <1>6 DEF Places, DTypeOK, TypeOK, DNewIsNowhere
<1> QED  BY <1>7, <1>8, <1>9, <1>10 DEF Places

LEMMA DDecodePreemptPlaces == ASSUME Places, DDecodePreempt PROVE Places'
<1> DEFINE s == Reached
<1>1. /\ Deciding /\ s \notin evicted /\ FreeIfRegistered(s)
      /\ pc' = pc /\ req' = req /\ gen' = gen /\ budget' = budget
      /\ waiting' = waiting /\ running' = running /\ preempted' = Append(preempted, s)
      /\ known' = known /\ state' = [state EXCEPT ![s] = "PREEMPTED"]
      /\ call' = [call EXCEPT !.todo = Tail(call.todo)]
  BY DEF DDecodePreempt, DDeciding, DecodePreempt, PreemptSequence
<1>2. /\ arrived' = arrived /\ depth' = depth /\ computed' = computed /\ late' = late
      /\ evicted' = evicted \cup {s}
      /\ granted' = granted /\ idx' = idx /\ alone' = alone
  BY DEF DDecodePreempt, requestVars
<1>3. /\ s \in Seqs /\ pc = "decode" /\ s \in ToSet(running)
      /\ Tail(call.todo) \in Seq(Seqs) /\ IsInjective(Tail(call.todo))
      /\ ToSet(Tail(call.todo)) = ToSet(call.todo) \ {s}
      /\ s \notin ToSet(call.retained)
      /\ DActive = (ToSet(call.todo) \ evicted) \cup ToSet(call.retained)
  BY <1>1, DAtHead
<1> HIDE DEF s
<1>4. /\ call'.todo = Tail(call.todo) /\ call'.retained = call.retained
      /\ call'.decode = call.decode /\ call'.prefill = call.prefill /\ call' \in CallType
  BY <1>1, <1>3 DEF Places, DTypeOK, TypeOK, CallType
<1>5. /\ KV!Registered' = KV!Registered \ {s}
      /\ KV!Registered' \subseteq Seqs /\ tokens' \in [KV!Registered' -> Nat]
      /\ avail' \in Nat
  BY <1>1, <1>3, FreeEffect DEF Places, DTypeOK
<1>6. s \notin ToSet(preempted) /\ s \notin ToSet(waiting)
  BY <1>1, <1>3 DEF Places, Spots, InLoop
<1>7. /\ preempted' \in Seq(Seqs) /\ ToSet(preempted') = ToSet(preempted) \cup {s}
      /\ IsInjective(preempted) => IsInjective(preempted')
  <2>1. preempted \in Seq(Seqs) /\ preempted' = Append(preempted, s)
    BY <1>1 DEF Places, DTypeOK, TypeOK
  <2> QED  BY <1>3, <1>6, <2>1, AppendedQueue
<1>8. DActive' = DActive \ {s} /\ Queued' = Queued \cup {s}
  BY <1>1, <1>2, <1>3, <1>4, <1>7 DEF DActive, Queued
<1>9. DTypeOK'
  <2>1. TypeOK'
    BY <1>1, <1>4, <1>5, <1>7 DEF Places, DTypeOK, TypeOK, CallType, States
  <2>2. DynamicTypes'
    BY <1>2, <1>3 DEF Places, DTypeOK, DynamicTypes
  <2> QED  BY <2>1, <2>2 DEF DTypeOK, DynamicTypes
<1>10. Spots'
  <2>1. /\ pc = "decode" /\ pc' = pc /\ waiting' = waiting /\ running' = running
        /\ known' = known
    BY <1>1, <1>3
  <2> QED  BY <2>1, <1>2, <1>3, <1>4, <1>6, <1>7, <1>8
              DEF Places, Spots, DInOnePlace, InLoop, PoppedApart, AtRest, InBatch,
                  MidCall, Holding
<1>11. DRunningHoldsKV'
  BY <1>1, <1>5, <1>8 DEF Places, DRunningHoldsKV
<1>12. DNewIsNowhere'
  BY <1>1, <1>3, <1>4, <1>8 DEF Places, DTypeOK, TypeOK, DNewIsNowhere
<1> QED  BY <1>9, <1>10, <1>11, <1>12 DEF Places

\* The victim may be ahead in the loop, behind it in the batch, or finished.
LEMMA DecodeEvictPlaces == ASSUME Places, NEW v \in Seqs, DecodeEvict(v) PROVE Places'
<1>1. /\ Deciding /\ v \in ToSet(running) \ evicted /\ FreeIfRegistered(v)
      /\ pc' = pc /\ req' = req /\ gen' = gen /\ budget' = budget
      /\ waiting' = waiting /\ running' = running /\ preempted' = Append(preempted, v)
      /\ known' = known /\ state' = [state EXCEPT ![v] = "PREEMPTED"]
      /\ call' = [call EXCEPT !.free = @ + RequiredBlocks(v), !.retained = Dropped(@, v)]
  BY DEF DecodeEvict, DDeciding, IsVictim, Candidates, PreemptSequence
<1>2. /\ arrived' = arrived /\ depth' = depth /\ computed' = computed /\ late' = late
      /\ evicted' = evicted \cup {v}
      /\ granted' \in BOOLEAN /\ idx' = idx /\ alone' = alone
  <2>1. granted' \in BOOLEAN
    BY Zenon DEF DecodeEvict
  <2> QED  BY <2>1 DEF DecodeEvict, requestVars
<1>3. /\ pc = "decode"
      /\ DActive = (ToSet(call.todo) \ evicted) \cup ToSet(call.retained)
  BY <1>1, DAtHead
<1>4. /\ Dropped(call.retained, v) \in Seq(Seqs) /\ IsInjective(Dropped(call.retained, v))
      /\ ToSet(Dropped(call.retained, v)) = ToSet(call.retained) \ {v}
  BY <1>3, DroppedFromQueue DEF Places, DTypeOK, TypeOK, Spots, InLoop
<1>5. /\ call'.todo = call.todo /\ call'.retained = Dropped(call.retained, v)
      /\ call'.decode = call.decode /\ call'.prefill = call.prefill /\ call' \in CallType
  <2>0. TypeOK /\ call \in CallType
    BY PlacesTypes
  <2>1. RequiredBlocks(v) \in Int
    BY <2>0, BlocksAreInt
  <2>2. call.free + RequiredBlocks(v) \in Int
    BY <2>0, <2>1 DEF CallType
  <2> QED  BY <1>1, <1>4, <2>0, <2>2 DEF CallType
<1>6. /\ KV!Registered' = KV!Registered \ {v}
      /\ KV!Registered' \subseteq Seqs /\ tokens' \in [KV!Registered' -> Nat]
      /\ avail' \in Nat
  BY <1>1, FreeEffect DEF Places, DTypeOK
<1>7. v \notin ToSet(preempted) /\ v \notin ToSet(waiting)
  BY <1>1, <1>3 DEF Places, Spots, InLoop
<1>8. /\ preempted' \in Seq(Seqs) /\ ToSet(preempted') = ToSet(preempted) \cup {v}
      /\ IsInjective(preempted) => IsInjective(preempted')
  BY <1>1, <1>7, AppendedQueue DEF Places, DTypeOK, TypeOK
<1>9. DActive' = DActive \ {v} /\ Queued' = Queued \cup {v}
  BY <1>1, <1>2, <1>3, <1>4, <1>5, <1>8 DEF DActive, Queued
<1>10. DTypeOK'
  <2>1. TypeOK'
    BY <1>1, <1>5, <1>6, <1>8 DEF Places, DTypeOK, TypeOK, CallType, States
  <2>2. DynamicTypes'
    BY <1>2 DEF Places, DTypeOK, DynamicTypes
  <2> QED  BY <2>1, <2>2 DEF DTypeOK, DynamicTypes
<1>11. Spots'
  <2>1. /\ pc = "decode" /\ pc' = pc /\ waiting' = waiting /\ running' = running
        /\ known' = known /\ v \in ToSet(running)
    BY <1>1, <1>3
  <2> QED  BY <2>1, <1>2, <1>3, <1>4, <1>5, <1>7, <1>8, <1>9
              DEF Places, Spots, DInOnePlace, InLoop, PoppedApart, AtRest, InBatch,
                  MidCall, Holding
<1>12. DRunningHoldsKV'
  BY <1>1, <1>6, <1>9 DEF Places, DRunningHoldsKV
<1>13. DNewIsNowhere'
  BY <1>1, <1>5, <1>9 DEF Places, DTypeOK, TypeOK, DNewIsNowhere
<1> QED  BY <1>10, <1>11, <1>12, <1>13 DEF Places

LEMMA DDecodeAppendPlaces == ASSUME Places, DDecodeAppend PROVE Places'
<1> DEFINE s == Reached
<1>1. /\ Deciding /\ s \notin evicted /\ KV!Grow(s, 1)
      /\ pc' = pc /\ req' = req /\ gen' = gen /\ budget' = budget
      /\ waiting' = waiting /\ running' = running /\ preempted' = preempted
      /\ known' = known /\ state' = [state EXCEPT ![s] = "DECODE"]
      /\ call' = [call EXCEPT !.todo = Tail(@),
                              !.free = IF NeedsNewBlock(s) THEN @ - 1 ELSE @,
                              !.batched = @ + 1,
                              !.decode = Append(@, s),
                              !.retained = Append(@, s)]
  BY DEF DDecodeAppend, DDeciding, queues
<1>2. /\ arrived' = arrived /\ depth' = depth /\ computed' = computed /\ late' = late
      /\ evicted' = evicted /\ granted' \in BOOLEAN /\ idx' = idx /\ alone' = alone
  <2>1. granted' \in BOOLEAN
    BY Zenon DEF DDecodeAppend
  <2> QED  BY <2>1 DEF DDecodeAppend, requestVars
<1>3. /\ s \in Seqs /\ pc = "decode" /\ s \in ToSet(running) /\ s \in ToSet(call.todo)
      /\ Tail(call.todo) \in Seq(Seqs) /\ IsInjective(Tail(call.todo))
      /\ ToSet(Tail(call.todo)) = ToSet(call.todo) \ {s}
      /\ s \notin ToSet(call.retained)
      /\ DActive = (ToSet(call.todo) \ evicted) \cup ToSet(call.retained)
  BY <1>1, DAtHead
<1> HIDE DEF s
<1>4. /\ call.retained \in Seq(Seqs) /\ call.decode \in Seq(Seqs) /\ call \in CallType
      /\ IsInjective(call.retained)
  BY <1>3 DEF Places, DTypeOK, TypeOK, CallType, Spots, InLoop
<1>5. /\ Append(call.retained, s) \in Seq(Seqs) /\ IsInjective(Append(call.retained, s))
      /\ ToSet(Append(call.retained, s)) = ToSet(call.retained) \cup {s}
      /\ Append(call.decode, s) \in Seq(Seqs)
      /\ ToSet(Append(call.decode, s)) = ToSet(call.decode) \cup {s}
  BY <1>3, <1>4, AppendedQueue
<1>6. /\ call'.todo = Tail(call.todo) /\ call'.retained = Append(call.retained, s)
      /\ call'.decode = Append(call.decode, s) /\ call'.prefill = call.prefill
      /\ call' \in CallType
  <2>1. /\ call'.todo = Tail(call.todo) /\ call'.retained = Append(call.retained, s)
        /\ call'.decode = Append(call.decode, s) /\ call'.prefill = call.prefill
        /\ call'.batched = call.batched + 1
        /\ call'.free = IF NeedsNewBlock(s) THEN call.free - 1 ELSE call.free
    BY <1>1, <1>4 DEF CallType
  <2>2. call'.free \in Int /\ call'.batched \in Nat
    <3>1. call.free \in Int /\ call.batched \in Nat
      BY <1>4 DEF CallType
    <3> QED  BY <2>1, <3>1
  <2> QED  BY <1>1, <1>3, <1>4, <1>5, <2>1, <2>2 DEF CallType
<1>7. /\ KV!Registered' = KV!Registered
      /\ KV!Registered' \subseteq Seqs /\ tokens' \in [KV!Registered' -> Nat]
      /\ avail' \in Nat
  BY <1>1, <1>3, GrowEffect DEF Places, DTypeOK
<1>8. DActive' = DActive /\ Queued' = Queued
  BY <1>1, <1>2, <1>3, <1>5, <1>6 DEF DActive, Queued
<1>9. DTypeOK'
  <2>1. TypeOK'
    BY <1>1, <1>6, <1>7 DEF Places, DTypeOK, TypeOK, CallType, States
  <2>2. DynamicTypes'
    BY <1>2 DEF Places, DTypeOK, DynamicTypes
  <2> QED  BY <2>1, <2>2 DEF DTypeOK, DynamicTypes
<1>10. Spots'
  <2>1. /\ pc = "decode" /\ pc' = pc /\ waiting' = waiting /\ running' = running
        /\ preempted' = preempted /\ known' = known /\ s \notin evicted
    BY <1>1, <1>3
  <2>2. DInOnePlace'
    BY <2>1, <1>8 DEF Places, Spots, DInOnePlace, Queued
  <2>3. InLoop'
    BY <2>1, <1>2, <1>3, <1>5, <1>6 DEF Places, Spots, InLoop
  <2>4. PoppedApart' /\ AtRest' /\ InBatch'
    BY <2>1, <1>3, <1>5, <1>6
       DEF Places, Spots, InLoop, PoppedApart, AtRest, InBatch, MidCall, Holding
  <2> QED  BY <2>2, <2>3, <2>4 DEF Spots
<1>11. DRunningHoldsKV'
  BY <1>1, <1>7, <1>8 DEF Places, DRunningHoldsKV
<1>12. DNewIsNowhere'
  BY <1>1, <1>3, <1>5, <1>6, <1>8 DEF Places, DTypeOK, TypeOK, DNewIsNowhere
<1> QED  BY <1>9, <1>10, <1>11, <1>12 DEF Places

\* Once schedule() has raised, only the types are left.
LEMMA DRaisePlaces ==
    ASSUME Places, pc' = "raised",
           UNCHANGED <<req, state, gen, queues, known, budget, native, call, dynamicVars>>
    PROVE  Places'
<1>1. TypeOK'
  BY DEF Places, DTypeOK, TypeOK, queues, native, KV!Registered
<1>2. DynamicTypes'
  BY DTypeParts, DynamicTypesKept DEF Places
<1> QED  BY <1>1, <1>2 DEF Places, DTypeOK, DynamicTypes, Spots, DInOnePlace, InLoop,
            PoppedApart, AtRest, InBatch, DRunningHoldsKV, DNewIsNowhere, MidCall, Holding

LEMMA DecodeDonePlaces ==
    ASSUME Places, DecodeDone, UNCHANGED dynamicVars
    PROVE  Places'
<1>1. /\ pc = "decode" /\ pc' = "restore" /\ call.todo = <<>> /\ running' = call.retained
      /\ req' = req /\ state' = state /\ gen' = gen /\ budget' = budget
      /\ waiting' = waiting /\ preempted' = preempted /\ known' = known
      /\ avail' = avail /\ tokens' = tokens
      /\ call' = [call EXCEPT !.argFree = call.free, !.argBatched = call.batched]
  BY DEF DecodeDone, native
<1>2. call \in CallType
  BY DEF Places, DTypeOK, TypeOK, CallType
<1>3. /\ call'.decode = call.decode /\ call'.prefill = call.prefill /\ call' \in CallType
      /\ call.retained \in Seq(Seqs)
  BY <1>1, <1>2 DEF CallType
<1>4. DActive' = DActive /\ Queued' = Queued /\ KV!Registered' = KV!Registered
      /\ DActive = ToSet(call.retained)
  BY <1>1, EmptyQueue DEF DActive, Queued, KV!Registered
<1>5. DTypeOK'
  <2>1. TypeOK'
    BY <1>1, <1>3, <1>4 DEF Places, DTypeOK, TypeOK, CallType
  <2>2. DynamicTypes'
    BY DTypeParts, DynamicTypesKept DEF Places
  <2> QED  BY <2>1, <2>2 DEF DTypeOK, DynamicTypes
<1>6. Spots'
  BY <1>1, <1>3, <1>4, EmptyQueue
     DEF Places, Spots, DInOnePlace, InLoop, PoppedApart, AtRest, InBatch, MidCall, Holding
<1> QED  BY <1>1, <1>3, <1>4, <1>5, <1>6 DEF Places, DRunningHoldsKV, DNewIsNowhere

-----------------------------------------------------------------------------
(* Restoring and admitting *)

\* What RestoreRegister and DAdmitRegister share: a sequence leaves a queue and
\* is registered.
LEMMA PopPlaces ==
    ASSUME Places, pc \in {"restore", "admit"}, pc' \in Holding,
           NEW s \in Seqs, s \in Queued, KV!Register(s),
           UNCHANGED <<req, state, gen, running, known, budget>>, DynamicTypes',
           call' = [call EXCEPT !.popped = <<s>>],
           waiting' \in Seq(Seqs), IsInjective(waiting'),
           ToSet(waiting') = ToSet(waiting) \ {s},
           preempted' \in Seq(Seqs), IsInjective(preempted'),
           ToSet(preempted') = ToSet(preempted) \ {s}
    PROVE  Places'
<1>1. call \in CallType /\ pc \in MidCall /\ pc' \in MidCall
  BY DEF Places, DTypeOK, TypeOK, CallType, MidCall, Holding
<1>2. /\ call'.decode = call.decode /\ call'.prefill = call.prefill
      /\ call'.popped = <<s>> /\ call' \in CallType
  <2>1. <<s>> \in Seq(Seqs)
    OBVIOUS
  <2> QED  BY <1>1, <2>1 DEF CallType
<1>3. /\ KV!Registered' = KV!Registered \cup {s}
      /\ KV!Registered' \subseteq Seqs /\ tokens' \in [KV!Registered' -> Nat]
      /\ avail' \in Nat
  BY RegisterEffect DEF Places, DTypeOK
<1>4. DActive = ToSet(running) /\ DActive' = ToSet(running) \cup {s}
      /\ Queued' = Queued \ {s}
  BY <1>2, SingletonQueue DEF DActive, Queued, Holding
<1>5. s \notin ToSet(running)
  BY <1>4 DEF Places, Spots, DInOnePlace, Queued
<1>6. DTypeOK'
  <2>1. TypeOK'
    BY <1>2, <1>3 DEF Places, DTypeOK, TypeOK, CallType, Holding
  <2> QED  BY <2>1 DEF DTypeOK, DynamicTypes
<1>7. Spots'
  <2>1. DInOnePlace'
    BY <1>4, <1>5 DEF Places, Spots, DInOnePlace, Queued
  <2>2. PoppedApart'
    BY <1>2, <1>5 DEF PoppedApart
  <2>3. InLoop' /\ AtRest' /\ InBatch'
    BY <1>1, <1>2 DEF Places, Spots, InLoop, AtRest, InBatch, MidCall, Holding
  <2> QED  BY <2>1, <2>2, <2>3 DEF Spots
<1>8. DRunningHoldsKV'
  BY <1>3, <1>4 DEF Places, DRunningHoldsKV
<1>9. DNewIsNowhere'
  BY <1>2, <1>4 DEF Places, DNewIsNowhere
<1> QED  BY <1>6, <1>7, <1>8, <1>9 DEF Places

LEMMA RestoreRegisterPlaces ==
    ASSUME Places, RestoreRegister, UNCHANGED dynamicVars
    PROVE  Places'
<1> DEFINE s == Head(preempted)
<1>1. /\ pc = "restore" /\ pc' = "restoring" /\ preempted # <<>> /\ KV!Register(s)
      /\ UNCHANGED <<req, state, gen, waiting, running, known, budget>>
      /\ preempted' = Tail(preempted) /\ call' = [call EXCEPT !.popped = <<s>>]
  BY DEF RestoreRegister, CanRestore
<1>2. /\ preempted \in Seq(Seqs) /\ IsInjective(preempted)
      /\ waiting \in Seq(Seqs) /\ IsInjective(waiting)
      /\ ToSet(waiting) \cap ToSet(preempted) = {}
  BY <1>1 DEF Places, DTypeOK, TypeOK, Spots, DInOnePlace
<1>3. /\ s \in Seqs /\ s \in ToSet(preempted) /\ Tail(preempted) \in Seq(Seqs)
      /\ IsInjective(Tail(preempted)) /\ ToSet(Tail(preempted)) = ToSet(preempted) \ {s}
  BY <1>1, <1>2, TailOfQueue
<1>4. DynamicTypes'
  BY DTypeParts, DynamicTypesKept DEF Places
<1> HIDE DEF s
<1>5. s \in Queued /\ ToSet(waiting') = ToSet(waiting) \ {s}
  BY <1>1, <1>2, <1>3 DEF Queued
<1> QED  BY <1>1, <1>2, <1>3, <1>4, <1>5, PopPlaces DEF Holding

LEMMA DAdmitRegisterPlaces == ASSUME Places, DAdmitRegister PROVE Places'
<1> DEFINE s == Candidate
<1>1. /\ pc = "admit" /\ pc' = "admitting" /\ idx <= Len(waiting) /\ KV!Register(s)
      /\ UNCHANGED <<req, state, gen, preempted, running, known, budget>>
      /\ waiting' = RemoveAt(waiting, idx) /\ call' = [call EXCEPT !.popped = <<s>>]
  BY DEF DAdmitRegister, Considers
<1>2. /\ preempted \in Seq(Seqs) /\ IsInjective(preempted)
      /\ waiting \in Seq(Seqs) /\ IsInjective(waiting)
      /\ ToSet(waiting) \cap ToSet(preempted) = {}
  BY <1>1 DEF Places, DTypeOK, TypeOK, Spots, DInOnePlace
<1>3. idx \in 1 .. Len(waiting) /\ s = waiting[idx] /\ s \in Seqs /\ s \in ToSet(waiting)
  <2>1. idx \in Nat \ {0} /\ Len(waiting) \in Nat /\ DOMAIN waiting = 1 .. Len(waiting)
    BY <1>2 DEF Places, DTypeOK
  <2>2. idx \in 1 .. Len(waiting)
    BY <1>1, <2>1
  <2> QED  BY <1>2, <2>1, <2>2 DEF Candidate, ToSet
<1> HIDE DEF s
<1>4. /\ waiting' \in Seq(Seqs) /\ IsInjective(waiting')
      /\ ToSet(waiting') = ToSet(waiting) \ {s}
  BY <1>1, <1>2, <1>3, RemovedFromQueue
<1>5. DynamicTypes'
  <2>1. alone' \in BOOLEAN /\ granted' \in BOOLEAN
    <3>1. alone' = OverBudget(Candidate) /\ granted' = granted
      BY DEF DAdmitRegister
    <3>2. OverBudget(Candidate) \in BOOLEAN
      BY DEF OverBudget
    <3> QED  BY <3>1, <3>2, Zenon DEF Places, DTypeOK
  <2>2. /\ arrived' = arrived /\ depth' = depth /\ computed' = computed /\ late' = late
        /\ evicted' = evicted /\ idx' = idx
    BY DEF DAdmitRegister, requestVars
  <2> QED  BY <2>1, <2>2 DEF Places, DTypeOK, DynamicTypes
<1>6. s \in Queued /\ ToSet(preempted') = ToSet(preempted) \ {s}
  BY <1>1, <1>2, <1>3 DEF Queued
<1> QED  BY <1>1, <1>2, <1>3, <1>4, <1>5, <1>6, PopPlaces DEF Holding

\* What RestoreAppend and DAdmitAppend share: the sequence gets its blocks and
\* is running.
LEMMA PromotePlaces ==
    ASSUME Places, pc \in Holding, pc' \in {"restore", "admit", "batch"},
           NEW s \in Seqs, call.popped = <<s>>, NEW n \in Nat, KV!Grow(s, n), Promote(s),
           UNCHANGED <<req, gen, waiting, preempted, known, budget>>, DynamicTypes',
           call'.decode = call.decode, call'.prefill = Append(call.prefill, s),
           call' \in CallType
    PROVE  Places'
<1>1. /\ req' = req /\ gen' = gen /\ waiting' = waiting /\ preempted' = preempted
      /\ known' = known /\ budget' = budget
      /\ state' = [state EXCEPT ![s] = "PREFILL"] /\ running' = Append(running, s)
  BY DEF Promote
<1>2. /\ s \notin ToSet(running) /\ running \in Seq(Seqs) /\ IsInjective(running)
      /\ call.prefill \in Seq(Seqs)
  <2>1. \E r \in Seqs : call.popped = <<r>> /\ r \notin ToSet(running)
    BY DEF Places, Spots, PoppedApart
  <2>2. \A r \in Seqs : <<r>> = <<s>> => r = s
    OBVIOUS
  <2>3. s \notin ToSet(running)
    BY <2>1, <2>2
  <2> QED  BY <2>3 DEF Places, DTypeOK, TypeOK, Spots, DInOnePlace, Holding
<1>3. /\ running' \in Seq(Seqs) /\ IsInjective(running')
      /\ ToSet(running') = ToSet(running) \cup {s}
      /\ ToSet(call'.prefill) = ToSet(call.prefill) \cup {s}
  <2>1. /\ Append(running, s) \in Seq(Seqs) /\ IsInjective(Append(running, s))
        /\ ToSet(Append(running, s)) = ToSet(running) \cup {s}
        /\ ToSet(Append(call.prefill, s)) = ToSet(call.prefill) \cup {s}
    BY <1>2, AppendedQueue
  <2> QED  BY <1>1, <2>1
<1>4. DActive = ToSet(running) \cup {s} /\ DActive' = DActive /\ Queued' = Queued
  BY <1>1, <1>3, SingletonQueue DEF DActive, Holding, Queued
<1>5. /\ KV!Registered' = KV!Registered
      /\ KV!Registered' \subseteq Seqs /\ tokens' \in [KV!Registered' -> Nat]
      /\ avail' \in Nat
  BY GrowEffect DEF Places, DTypeOK
<1>6. DTypeOK'
  <2>1. TypeOK'
    BY <1>1, <1>3, <1>5 DEF Places, DTypeOK, TypeOK, CallType, States
  <2> QED  BY <2>1 DEF DTypeOK, DynamicTypes
<1>7. Spots'
  <2>1. DInOnePlace'
    BY <1>1, <1>3, <1>4 DEF Places, Spots, DInOnePlace, Queued, Holding
  <2>2. InLoop' /\ PoppedApart' /\ AtRest' /\ InBatch'
    BY <1>1, <1>3 DEF Places, Spots, InLoop, PoppedApart, AtRest, InBatch, MidCall, Holding
  <2> QED  BY <2>1, <2>2 DEF Spots
<1>8. DRunningHoldsKV'
  BY <1>4, <1>5 DEF Places, DRunningHoldsKV, Holding
<1>9. DNewIsNowhere'
  BY <1>1, <1>4 DEF Places, DTypeOK, TypeOK, DNewIsNowhere, Holding
<1> QED  BY <1>6, <1>7, <1>8, <1>9 DEF Places

LEMMA DPoppedHead ==
    ASSUME Places, pc \in Holding
    PROVE  Head(call.popped) \in Seqs /\ call.popped = <<Head(call.popped)>>
<1>1. PICK s \in Seqs : call.popped = <<s>>
  BY DEF Places, Spots, PoppedApart
<1> QED  BY <1>1, SingletonQueue

LEMMA RestoreAppendPlaces ==
    ASSUME Places, RestoreAppend, UNCHANGED dynamicVars
    PROVE  Places'
<1> DEFINE s == Head(call.popped)
<1>1. /\ pc = "restoring" /\ pc' = "restore" /\ KV!Grow(s, TotalLen(s)) /\ Promote(s)
      /\ UNCHANGED <<req, gen, waiting, preempted, known, budget>>
      /\ call' = [call EXCEPT !.popped = <<>>,
                              !.prefill = Append(@, s),
                              !.argFree = @ - RequiredBlocks(s),
                              !.argBatched = @ + TotalLen(s)]
  BY DEF RestoreAppend
<1>2. s \in Seqs /\ call.popped = <<s>>
  BY <1>1, DPoppedHead DEF Holding
<1> HIDE DEF s
<1>3. TotalLen(s) \in Nat /\ RequiredBlocks(s) \in Nat /\ call \in CallType
  BY <1>2, PlacesTypes, BlocksAreInt
<1>4. /\ call'.decode = call.decode /\ call'.prefill = Append(call.prefill, s)
      /\ call' \in CallType
  <2>1. Append(call.prefill, s) \in Seq(Seqs) /\ <<>> \in Seq(Seqs)
    BY <1>2, <1>3, AppendedQueue DEF CallType
  <2>2. /\ call'.prefill = Append(call.prefill, s) /\ call'.popped = <<>>
        /\ call'.argFree = call.argFree - RequiredBlocks(s)
        /\ call'.argBatched = call.argBatched + TotalLen(s)
        /\ call'.decode = call.decode
    BY <1>1, <1>3 DEF CallType
  <2>3. call.argFree - RequiredBlocks(s) \in Int /\ call.argBatched + TotalLen(s) \in Nat
    <3>1. call.argFree \in Int /\ call.argBatched \in Nat
      BY <1>3 DEF CallType
    <3> QED  BY <1>3, <3>1
  <2> QED  BY <1>1, <1>3, <2>1, <2>2, <2>3 DEF CallType
<1>5. DynamicTypes'
  BY DTypeParts, DynamicTypesKept DEF Places
<1> QED  BY <1>1, <1>2, <1>3, <1>4, <1>5, PromotePlaces DEF Holding

LEMMA DAdmitAppendPlaces == ASSUME Places, DAdmitAppend PROVE Places'
<1> DEFINE s == Head(call.popped)
<1>1. /\ pc = "admitting" /\ pc' \in {"admit", "batch"} /\ KV!Grow(s, req[s].prompt)
      /\ Promote(s)
      /\ UNCHANGED <<req, gen, waiting, preempted, known, budget>>
      /\ UNCHANGED dynamicVars
      /\ call' = [call EXCEPT !.popped = <<>>,
                              !.prefill = Append(@, s),
                              !.free = @ - RequiredBlocks(s),
                              !.batched = @ + Effective(s)]
  BY DEF DAdmitAppend
<1>2. s \in Seqs /\ call.popped = <<s>>
  BY <1>1, DPoppedHead DEF Holding
<1> HIDE DEF s
<1>3. /\ req[s].prompt \in Nat /\ RequiredBlocks(s) \in Nat /\ Effective(s) \in Nat
      /\ call \in CallType
  <2>1. Effective(s) \in Nat
    BY <1>2, EffectiveIsNat DEF Places
  <2> QED  BY <1>2, <2>1, PlacesTypes, BlocksAreInt
<1>4. /\ call'.decode = call.decode /\ call'.prefill = Append(call.prefill, s)
      /\ call' \in CallType
  <2>1. Append(call.prefill, s) \in Seq(Seqs) /\ <<>> \in Seq(Seqs)
    BY <1>2, <1>3, AppendedQueue DEF CallType
  <2>2. /\ call'.prefill = Append(call.prefill, s) /\ call'.popped = <<>>
        /\ call'.free = call.free - RequiredBlocks(s)
        /\ call'.batched = call.batched + Effective(s)
        /\ call'.decode = call.decode
    BY <1>1, <1>3 DEF CallType
  <2>3. call.free - RequiredBlocks(s) \in Int /\ call.batched + Effective(s) \in Nat
    <3>1. call.free \in Int /\ call.batched \in Nat
      BY <1>3 DEF CallType
    <3> QED  BY <1>3, <3>1
  <2> QED  BY <1>1, <1>3, <2>1, <2>2, <2>3 DEF CallType
<1>5. DynamicTypes'
  BY <1>1, DTypeParts, DynamicTypesKept DEF Places
<1> QED  BY <1>1, <1>2, <1>3, <1>4, <1>5, PromotePlaces DEF Holding

\* DRestoreDone sorts waiting_queue; DAdmitDone only goes on.
LEMMA LoopEndPlaces == ASSUME Places, DRestoreDone \/ DAdmitDone PROVE Places'
<1>1. /\ req' = req /\ state' = state /\ gen' = gen /\ running' = running
      /\ preempted' = preempted /\ known' = known /\ budget' = budget
      /\ avail' = avail /\ tokens' = tokens /\ call' = call /\ UNCHANGED dynamicVars
      /\ pc \in {"restore", "admit"} /\ pc' \in {"admit", "batch"}
  BY DEF DRestoreDone, DAdmitDone, queues, native
<1>2. waiting \in Seq(Seqs) /\ IsInjective(waiting)
  BY <1>1 DEF Places, DTypeOK, TypeOK, Spots, DInOnePlace
<1>3. waiting' \in Seq(Seqs) /\ IsInjective(waiting') /\ ToSet(waiting') = ToSet(waiting)
  <2>1. CASE DRestoreDone
    <3>1. /\ waiting' \in Arrangements(waiting) /\ Len(waiting') = Len(waiting)
          /\ ToSet(waiting') = ToSet(waiting)
      BY <2>1 DEF DRestoreDone, Sorted
    <3> QED  BY <1>2, <3>1, Arranged
  <2>2. CASE DAdmitDone
    BY <1>2, <2>2 DEF DAdmitDone, queues
  <2> QED  BY <2>1, <2>2
<1>4. DActive' = DActive /\ Queued' = Queued /\ KV!Registered' = KV!Registered
  BY <1>1, <1>3 DEF DActive, Queued, KV!Registered
<1>5. DTypeOK'
  <2>1. TypeOK'
    BY <1>1, <1>3, <1>4 DEF Places, DTypeOK, TypeOK
  <2>2. DynamicTypes'
    BY <1>1, DTypeParts, DynamicTypesKept DEF Places
  <2> QED  BY <2>1, <2>2 DEF DTypeOK, DynamicTypes
<1>6. Spots'
  BY <1>1, <1>3, <1>4
     DEF Places, Spots, DInOnePlace, InLoop, PoppedApart, AtRest, InBatch, MidCall, Holding
<1> QED  BY <1>1, <1>4, <1>5, <1>6 DEF Places, DRunningHoldsKV, DNewIsNowhere

LEMMA AdmitSkipPlaces == ASSUME Places, AdmitSkip PROVE Places'
<1>1. UNCHANGED <<vars, requestVars, evicted, granted, alone>> /\ idx' = idx + 1
  BY DEF AdmitSkip
<1>2. TypeOK'
  BY <1>1 DEF Places, DTypeOK, TypeOK, vars, queues, native, KV!Registered
<1>3. DynamicTypes'
  <2>1. idx' \in Nat \ {0}
    BY <1>1 DEF Places, DTypeOK
  <2> QED  BY <1>1, <2>1 DEF Places, DTypeOK, DynamicTypes, requestVars
<1>4. DTypeOK'
  BY <1>2, <1>3 DEF DTypeOK, DynamicTypes
<1> QED  BY <1>1, <1>4, SameSpots DEF vars

-----------------------------------------------------------------------------
(* The caller *)

LEMMA DCallerPlaces == ASSUME Places, DCaller PROVE Places'
<1>0. PICK sampled \in SUBSET Batch, b \in Budgets \cup {budget} : CallerDone(sampled, b)
  BY DEF DCaller, Caller
<1>1. /\ pc = "batch" /\ pc' = "idle" /\ req' = req /\ state' = state
      /\ waiting' = waiting /\ running' = running /\ preempted' = preempted
      /\ known' = known /\ avail' = avail /\ tokens' = tokens
      /\ budget' = b /\ call' = Locals(0)
      /\ gen' = [s \in Seqs |-> IF s \in sampled THEN gen[s] + 1 ELSE gen[s]]
  BY <1>0 DEF CallerDone, queues, native
<1>2. /\ arrived' = arrived /\ depth' = depth /\ computed' = computed /\ late' = late
      /\ evicted' = {} /\ idx' = 1
  BY DEF DCaller, NoLocals, requestVars
<1>3. /\ DActive = ToSet(running) /\ DActive' = DActive /\ Queued' = Queued
      /\ KV!Registered' = KV!Registered
  BY <1>1 DEF DActive, Queued, KV!Registered
<1>4. call' \in CallType /\ call'.prefill = <<>> /\ call'.decode = <<>>
  BY <1>1 DEF Locals, CallType
<1>5. DTypeOK'
  <2>1. TypeOK'
    <3>1. gen' \in [Seqs -> Nat]
      BY <1>1 DEF Places, DTypeOK, TypeOK
    <3>2. b \in Nat
      BY SchedulerAssumption DEF Places, DTypeOK, TypeOK
    <3> QED  BY <1>1, <1>3, <1>4, <3>1, <3>2 DEF Places, DTypeOK, TypeOK, CallType
  <2>2. DynamicTypes'
    <3>1. granted' \in BOOLEAN /\ alone' \in BOOLEAN
      BY Zenon DEF DCaller, NoLocals
    <3> QED  BY <1>2, <3>1 DEF Places, DTypeOK, DynamicTypes
  <2> QED  BY <2>1, <2>2 DEF DTypeOK, DynamicTypes
<1>6. Spots'
  BY <1>1, <1>2, <1>3, <1>4, EmptyQueue
     DEF Places, Spots, DInOnePlace, InLoop, PoppedApart, AtRest, InBatch, MidCall, Holding
<1>7. DRunningHoldsKV'
  BY <1>1, <1>3 DEF Places, DRunningHoldsKV
<1>8. DNewIsNowhere'
  <2>1. sampled \subseteq DActive \cup ToSet(call.decode)
    BY <1>1, <1>3 DEF Batch, Places, Spots, InBatch, MidCall
  <2> QED  BY <1>1, <1>3, <1>4, <2>1, EmptyQueue DEF Places, DNewIsNowhere
<1> QED  BY <1>5, <1>6, <1>7, <1>8 DEF Places

LEMMA PlacesStep == Places /\ [DNext]_dVars => Places'
<1> SUFFICES ASSUME Places, [DNext]_dVars PROVE Places'
  OBVIOUS
<1>1. CASE UNCHANGED dVars
  <2>1. TypeOK'
    BY <1>1 DEF Places, DTypeOK, TypeOK, dVars, vars, queues, native, KV!Registered
  <2>2. DynamicTypes'
    BY <1>1, DTypeParts, DynamicTypesKept DEF Places, dVars
  <2>3. DTypeOK'
    BY <2>1, <2>2 DEF DTypeOK, DynamicTypes
  <2> QED  BY <1>1, <2>3, SameSpots DEF dVars, vars, dynamicVars, localVars
<1>2. CASE \E s \in Seqs : AddDynamicSequence(s) \/ DFinishSequence(s) \/ Age(s)
  BY <1>2, AddDynamicSequencePlaces, DFinishSequencePlaces, AgePlaces
<1>3. CASE DBegin \/ DecodeSkip \/ DDecodeFinished \/ DDecodePreempt \/ DDecodeAppend
           \/ \E v \in Seqs : DecodeEvict(v)
  BY <1>3, DBeginPlaces, DecodeSkipPlaces, DDecodeFinishedPlaces, DDecodePreemptPlaces,
     DDecodeAppendPlaces, DecodeEvictPlaces
<1>4. CASE DDecodeRaise \/ ((RestoreRaise \/ AdmitRaise) /\ UNCHANGED dynamicVars)
  BY <1>4, DRaisePlaces DEF DDecodeRaise, RestoreRaise, AdmitRaise
<1>5. CASE (DecodeDone \/ RestoreRegister \/ RestoreAppend) /\ UNCHANGED dynamicVars
  BY <1>5, DecodeDonePlaces, RestoreRegisterPlaces, RestoreAppendPlaces
<1>6. CASE DRestoreDone \/ DAdmitDone \/ AdmitSkip \/ DAdmitRegister \/ DAdmitAppend
  BY <1>6, LoopEndPlaces, AdmitSkipPlaces, DAdmitRegisterPlaces, DAdmitAppendPlaces
<1>7. CASE DCaller
  BY <1>7, DCallerPlaces
<1> QED  BY <1>1, <1>2, <1>3, <1>4, <1>5, <1>6, <1>7 DEF DNext, DScheduleStep, Inherited

THEOREM InTheirPlaces == DSpec => []Places
  BY PlacesInit, PlacesStep, PTL DEF DSpec

\* The SLA-aware scheduler keeps its state well typed; the pool has no negative
\* number of free blocks, however its own counter is adjusted for victims.
THEOREM DynamicTypeCorrect == DSpec => []DTypeOK
<1>1. Places => DTypeOK
  BY DEF Places
<1> QED  BY <1>1, InTheirPlaces, PTL

\* Preempting victims in the middle of the decode loop, before or after their
\* turn, leaks no block and takes none from a sequence that goes on running.
THEOREM DynamicNoLeak == DSpec => []DRunningHoldsKV
<1>1. Places => DRunningHoldsKV
  BY DEF Places
<1> QED  BY <1>1, InTheirPlaces, PTL

\* A victim is in preempted_queue, once, and nowhere else; whatever
\* sequence_map knows can still be scheduled.
THEOREM DynamicOnePlace == DSpec => []DInOnePlace
<1>1. Places => DInOnePlace
  BY DEF Places, Spots
<1> QED  BY <1>1, InTheirPlaces, PTL

-----------------------------------------------------------------------------
(* The page table lags one token at most behind a running sequence *)

LagsAtMostOne(s) == tokens[s] + 1 >= TotalLen(s)
HasAll(s) == tokens[s] >= TotalLen(s)

\* A caller need not sample a token for everyone, so unlike in the pipeline the
\* page table may also be level with the sequence, or ahead of it.
DLag ==
    /\ pc # "raised" => \A s \in ToSet(waiting) : gen[s] = 0
    /\ pc = "admitting" => \A s \in ToSet(call.popped) : gen[s] = 0
    /\ pc = "idle" => \A s \in ToSet(running) : LagsAtMostOne(s)
    /\ pc = "decode" => /\ \A s \in ToSet(call.todo) \ evicted : LagsAtMostOne(s)
                        /\ \A s \in ToSet(call.retained) : HasAll(s)
    /\ pc \in MidCall => \A s \in ToSet(running) : HasAll(s)

LEMMA DLagInit == DInit => DLag
  BY EmptyQueue DEF DInit, Init, DLag, MidCall

LEMMA SameLength ==
    ASSUME req' = req, gen' = gen, NEW r, tokens'[r] = tokens[r]
    PROVE  /\ LagsAtMostOne(r)' <=> LagsAtMostOne(r)
           /\ HasAll(r)' <=> HasAll(r)
  BY DEF LagsAtMostOne, HasAll, TotalLen

LEMMA DLagClient ==
    ASSUME Places, DLag, NEW s \in Seqs,
           AddDynamicSequence(s) \/ DFinishSequence(s) \/ Age(s)
    PROVE  DLag'
<1>0. pc = "idle" /\ pc' = pc /\ req' = req /\ gen' = gen
  BY DEF AddDynamicSequence, AddSequence, DFinishSequence, FinishSequence, Age, vars
<1>1. /\ ToSet(running) = KV!Registered /\ running \in Seq(Seqs) /\ IsInjective(running)
      /\ waiting \in Seq(Seqs) /\ IsInjective(waiting)
  BY <1>0 DEF Places, DTypeOK, TypeOK, Spots, DInOnePlace, DRunningHoldsKV, DActive
<1>2. CASE AddDynamicSequence(s)
  <2>1. /\ waiting' = Append(waiting, s) /\ running' = running /\ tokens' = tokens
        /\ state[s] = "NEW"
    BY <1>2 DEF AddDynamicSequence, AddSequence, native
  <2>2. ToSet(waiting') = ToSet(waiting) \cup {s} /\ gen[s] = 0
    BY <1>0, <1>1, <2>1, AppendedQueue DEF Places, DNewIsNowhere
  <2> QED  BY <1>0, <2>1, <2>2, SameLength DEF DLag, MidCall
<1>3. CASE DFinishSequence(s)
  <2>1. /\ FreeIfRegistered(s) /\ running' = Dropped(running, s)
        /\ waiting' = Dropped(waiting, s)
    BY <1>3 DEF DFinishSequence, FinishSequence, FreeSequenceResources
  <2>2. ToSet(running') = ToSet(running) \ {s} /\ ToSet(waiting') = ToSet(waiting) \ {s}
    BY <1>1, <2>1, DroppedFromQueue
  <2>3. \A r \in KV!Registered \ {s} : tokens'[r] = tokens[r]
    BY <2>1, FreeEffect DEF Places, DTypeOK
  <2> QED  BY <1>0, <1>1, <2>2, <2>3, SameLength DEF DLag, MidCall
<1>4. CASE Age(s)
  BY <1>0, <1>4, SameLength DEF Age, vars, queues, native, DLag, MidCall
<1> QED  BY <1>2, <1>3, <1>4

LEMMA DLagBegin == ASSUME Places, DLag, DBegin PROVE DLag'
<1>1. /\ pc = "idle" /\ pc' = "decode" /\ req' = req /\ gen' = gen /\ tokens' = tokens
      /\ waiting' = waiting /\ ToSet(running') = ToSet(running)
      /\ call' = [Locals(avail) EXCEPT !.todo = running']
  BY DEF DBegin, native, Sorted
<1>2. call'.todo = running' /\ call'.retained = <<>>
  BY <1>1 DEF Locals
<1> QED  BY <1>1, <1>2, EmptyQueue, SameLength DEF DLag, MidCall

\* A step of the decode loop that frees a sequence, or none, and goes on.
LEMMA DLagFree ==
    ASSUME Places, DLag, pc = "decode", pc' = pc, req' = req, gen' = gen,
           waiting' = waiting, NEW v \in Seqs, FreeIfRegistered(v) \/ tokens' = tokens,
           ToSet(call'.todo) \ evicted' \subseteq (ToSet(call.todo) \ evicted) \ {v},
           ToSet(call'.retained) \subseteq ToSet(call.retained) \ {v}
    PROVE  DLag'
<1>1. \A r \in KV!Registered \ {v} : tokens'[r] = tokens[r]
  BY FreeEffect DEF Places, DTypeOK
<1>2. KV!Registered = (ToSet(call.todo) \ evicted) \cup ToSet(call.retained)
  BY DEF Places, DRunningHoldsKV, DActive
<1> QED  BY <1>1, <1>2, SameLength DEF DLag, MidCall

LEMMA DLagLoop ==
    ASSUME Places, DLag,
           DecodeSkip \/ DDecodeFinished \/ DDecodePreempt \/ \E v \in Seqs : DecodeEvict(v)
    PROVE  DLag'
<1>1. /\ Deciding /\ pc' = pc /\ req' = req /\ gen' = gen /\ waiting' = waiting
      /\ evicted \subseteq evicted'
  BY DEF DecodeSkip, DDecodeFinished, DDecodePreempt, DecodeEvict, DDeciding,
         DecodeFinished, DecodePreempt, queues, dynamicVars, localVars
<1>2. /\ Reached \in Seqs /\ pc = "decode" /\ Reached \notin ToSet(call.retained)
      /\ ToSet(Tail(call.todo)) = ToSet(call.todo) \ {Reached}
  BY <1>1, DAtHead
<1>3. call \in CallType /\ IsInjective(call.retained)
      /\ ToSet(call.retained) \cap evicted = {}
  BY <1>2 DEF Places, DTypeOK, TypeOK, CallType, Spots, InLoop
<1>4. CASE DecodeSkip \/ DDecodeFinished \/ DDecodePreempt
  <2>1. /\ FreeIfRegistered(Reached) \/ tokens' = tokens
        /\ call' = [call EXCEPT !.todo = Tail(call.todo)]
    BY <1>4 DEF DecodeSkip, DDecodeFinished, DDecodePreempt, DecodeFinished, DecodePreempt,
                FreeSequenceResources, PreemptSequence, native
  <2>2. call'.todo = Tail(call.todo) /\ call'.retained = call.retained
    BY <1>3, <2>1 DEF CallType
  <2>3. /\ ToSet(call'.todo) \ evicted' \subseteq (ToSet(call.todo) \ evicted) \ {Reached}
        /\ ToSet(call'.retained) \subseteq ToSet(call.retained) \ {Reached}
    BY <1>1, <1>2, <2>2
  <2> QED  BY <1>1, <1>2, <2>1, <2>3, DLagFree
<1>5. ASSUME NEW v \in Seqs, DecodeEvict(v) PROVE DLag'
  <2>1. /\ FreeIfRegistered(v) /\ evicted' = evicted \cup {v}
        /\ call' = [call EXCEPT !.free = @ + RequiredBlocks(v), !.retained = Dropped(@, v)]
    BY <1>5 DEF DecodeEvict, PreemptSequence
  <2>2. call'.todo = call.todo /\ call'.retained = Dropped(call.retained, v)
    BY <1>3, <2>1 DEF CallType
  <2>3. call.retained \in Seq(Seqs)
    BY <1>3 DEF CallType
  <2>4. ToSet(call'.retained) = ToSet(call.retained) \ {v}
    BY <1>3, <2>2, <2>3, DroppedFromQueue
  <2>5. ToSet(call'.todo) \ evicted' \subseteq (ToSet(call.todo) \ evicted) \ {v}
    BY <2>1, <2>2
  <2> QED  BY <1>1, <1>2, <2>1, <2>4, <2>5, DLagFree
<1> QED  BY <1>4, <1>5

LEMMA DLagAppend == ASSUME Places, DLag, DDecodeAppend PROVE DLag'
<1>0. PICK s \in Seqs : s = Reached
  BY DAtHead DEF DDecodeAppend, DDeciding
<1>1. /\ Deciding /\ s \notin evicted /\ KV!Grow(s, 1) /\ pc' = pc /\ req' = req
      /\ gen' = gen /\ waiting' = waiting /\ evicted' = evicted
      /\ call'.todo = Tail(call.todo) /\ call'.retained = Append(call.retained, s)
  <2>1. call \in CallType
    BY PlacesTypes
  <2> QED  BY <1>0, <2>1 DEF DDecodeAppend, DDeciding, queues, CallType
<1>2. /\ pc = "decode" /\ s \in ToSet(call.todo)
      /\ ToSet(Tail(call.todo)) = ToSet(call.todo) \ {s}
      /\ s \notin ToSet(call.retained)
      /\ DActive = (ToSet(call.todo) \ evicted) \cup ToSet(call.retained)
  BY <1>0, <1>1, DAtHead
<1>3. call.retained \in Seq(Seqs)
  BY DEF Places, DTypeOK, TypeOK
<1>4. ToSet(call'.retained) = ToSet(call.retained) \cup {s}
  BY <1>1, <1>3, AppendedQueue
<1>5. /\ \A r \in KV!Registered \ {s} : tokens'[r] = tokens[r]
      /\ tokens'[s] = tokens[s] + 1
  BY <1>1, GrowEffect DEF Places, DTypeOK
<1>6. KV!Registered = DActive
  BY <1>2 DEF Places, DRunningHoldsKV
<1>7. HasAll(s)'
  <2>1. tokens[s] + 1 >= TotalLen(s) /\ TotalLen(s)' = TotalLen(s)
    BY <1>1, <1>2 DEF DLag, LagsAtMostOne, TotalLen
  <2> QED  BY <1>5, <2>1 DEF HasAll
<1> QED  BY <1>1, <1>2, <1>4, <1>5, <1>6, <1>7, SameLength DEF DLag, MidCall

LEMMA DLagDecodeDone == ASSUME DLag, DecodeDone PROVE DLag'
<1>1. /\ pc = "decode" /\ pc' = "restore" /\ req' = req /\ gen' = gen
      /\ tokens' = tokens /\ waiting' = waiting /\ running' = call.retained
  BY DEF DecodeDone, native
<1> QED  BY <1>1, SameLength DEF DLag, MidCall

LEMMA DRunningRegistered ==
    ASSUME Places, pc \in MidCall
    PROVE  ToSet(running) \subseteq KV!Registered
  BY DEF Places, DRunningHoldsKV, DActive, MidCall

LEMMA DLagRegister == ASSUME Places, DLag, RestoreRegister \/ DAdmitRegister PROVE DLag'
<1>1. waiting \in Seq(Seqs) /\ preempted \in Seq(Seqs) /\ call \in CallType
  BY DEF Places, DTypeOK, TypeOK, CallType
<1>2. /\ pc \in {"restore", "admit"} /\ req' = req /\ gen' = gen /\ running' = running
      /\ pc' \in Holding /\ (pc = "restore" => pc' = "restoring")
      /\ \E s \in Seqs : KV!Register(s)
  <2>1. CASE RestoreRegister
    BY <1>1, <2>1, TailOfQueue DEF RestoreRegister, CanRestore, Holding
  <2>2. CASE DAdmitRegister
    <3>1. Candidate \in Seqs
      <4>1. idx \in 1 .. Len(waiting)
        BY <1>1, <2>2 DEF DAdmitRegister, Considers, Places, DTypeOK
      <4> QED  BY <1>1, <4>1 DEF Candidate
    <3> QED  BY <2>2, <3>1 DEF DAdmitRegister, Considers, Holding
  <2> QED  BY <2>1, <2>2
<1>3. \A r \in KV!Registered : tokens'[r] = tokens[r]
  BY <1>2, RegisterEffect DEF Places, DTypeOK
<1>4. ToSet(running) \subseteq KV!Registered
  BY <1>2, DRunningRegistered DEF MidCall
<1>5. /\ ToSet(waiting') \subseteq ToSet(waiting)
      /\ pc' = "admitting" => ToSet(call'.popped) \subseteq ToSet(waiting)
  <2>1. CASE RestoreRegister
    BY <2>1 DEF RestoreRegister
  <2>2. CASE DAdmitRegister
    <3>1. idx \in 1 .. Len(waiting)
      BY <1>1, <2>2 DEF DAdmitRegister, Considers, Places, DTypeOK
    <3>2. ToSet(waiting') \subseteq ToSet(waiting)
      BY <1>1, <2>2, <3>1, RemovedFromQueue DEF DAdmitRegister
    <3>3. call'.popped = <<Candidate>>
      BY <1>1, <2>2 DEF DAdmitRegister, CallType
    <3>4. Candidate \in ToSet(waiting)
      BY <1>1, <3>1 DEF Candidate, ToSet
    <3> QED  BY <3>2, <3>3, <3>4, SingletonQueue
  <2> QED  BY <2>1, <2>2
<1> QED  BY <1>2, <1>3, <1>4, <1>5, SameLength DEF DLag, MidCall, Holding

LEMMA DLagPromote == ASSUME Places, DLag, RestoreAppend \/ DAdmitAppend PROVE DLag'
<1>0. pc \in Holding
  BY DEF RestoreAppend, DAdmitAppend, Holding
<1>1. PICK s \in Seqs : s = Head(call.popped) /\ call.popped = <<s>>
  BY <1>0, DPoppedHead
<1>2. /\ pc' \in {"restore", "admit", "batch"} /\ req' = req /\ gen' = gen
      /\ waiting' = waiting /\ running' = Append(running, s)
      /\ \/ KV!Grow(s, TotalLen(s))
         \/ pc = "admitting" /\ KV!Grow(s, req[s].prompt)
  BY <1>1 DEF RestoreAppend, DAdmitAppend, Promote
<1>3. pc = "admitting" => gen[s] = 0
  BY <1>1, SingletonQueue DEF DLag
<1>4. /\ req[s].prompt \in Nat /\ TotalLen(s) \in Nat
      /\ pc = "admitting" => TotalLen(s) = req[s].prompt
  BY <1>3, BlocksAreInt DEF Places, DTypeOK, TotalLen
<1>5. /\ tokens'[s] = tokens[s] + TotalLen(s) /\ tokens[s] \in Nat
      /\ \A r \in KV!Registered \ {s} : tokens'[r] = tokens[r]
  BY <1>2, <1>4, GrowEffect DEF Places, DTypeOK
<1>6. HasAll(s)'
  <2>1. TotalLen(s)' = TotalLen(s) /\ tokens[s] + TotalLen(s) >= TotalLen(s)
    BY <1>2, <1>4, <1>5 DEF TotalLen
  <2> QED  BY <1>5, <2>1 DEF HasAll
<1>7. ToSet(running') = ToSet(running) \cup {s}
  BY <1>2, AppendedQueue DEF Places, DTypeOK, TypeOK
<1>8. ToSet(running) \subseteq KV!Registered
  BY <1>0, DRunningRegistered DEF Holding, MidCall
<1> QED  BY <1>0, <1>2, <1>5, <1>6, <1>7, <1>8, SameLength DEF DLag, MidCall, Holding

LEMMA DLagPcOnly ==
    ASSUME DLag, \/ DRestoreDone \/ DAdmitDone \/ AdmitSkip
                 \/ DDecodeRaise \/ RestoreRaise \/ AdmitRaise
    PROVE  DLag'
<1>1. /\ req' = req /\ gen' = gen /\ tokens' = tokens /\ running' = running
      /\ ToSet(waiting') = ToSet(waiting)
      /\ \/ pc \in {"restore", "admit"} /\ pc' \in {"admit", "batch"}
         \/ pc' = "raised"
  BY DEF DRestoreDone, DAdmitDone, AdmitSkip, Considers, DDecodeRaise, RestoreRaise,
         AdmitRaise, Sorted, vars, queues, native
<1> QED  BY <1>1, SameLength DEF DLag, MidCall

LEMMA DLagCaller == ASSUME Places, DLag, DCaller PROVE DLag'
<1>0. PICK sampled \in SUBSET Batch, b \in Budgets \cup {budget} : CallerDone(sampled, b)
  BY DEF DCaller, Caller
<1>1. /\ pc = "batch" /\ pc' = "idle" /\ req' = req /\ waiting' = waiting
      /\ running' = running /\ tokens' = tokens
      /\ gen' = [s \in Seqs |-> IF s \in sampled THEN gen[s] + 1 ELSE gen[s]]
  BY <1>0 DEF CallerDone, queues, native
<1>2. ToSet(waiting) \subseteq Seqs /\ ToSet(running) \subseteq Seqs
  BY PlacesTypes DEF ToSet
<1>3. ToSet(waiting) \cap sampled = {}
  <2>1. ToSet(waiting) \cap ToSet(running) = {}
    BY <1>1 DEF Places, Spots, DInOnePlace, DActive
  <2> QED  BY <1>1, <2>1 DEF Batch, Places, Spots, InBatch, MidCall
<1>4. ASSUME NEW s \in ToSet(running) PROVE LagsAtMostOne(s)'
  <2>1. /\ gen'[s] \in {gen[s], gen[s] + 1} /\ req[s].prompt \in Nat /\ gen[s] \in Nat
        /\ tokens[s] \in Nat
    BY <1>1, <1>2, RequestsAreNat, DRunningRegistered DEF Places, DTypeOK, TypeOK, MidCall
  <2>2. tokens[s] >= req[s].prompt + gen[s]
    BY <1>1 DEF DLag, HasAll, TotalLen, MidCall
  <2>3. tokens[s] + 1 >= req[s].prompt + gen'[s]
    BY <2>1, <2>2
  <2> QED  BY <1>1, <2>3 DEF LagsAtMostOne, TotalLen
<1> QED  BY <1>1, <1>2, <1>3, <1>4 DEF DLag, MidCall

LEMMA DLagStep == Places /\ DLag /\ [DNext]_dVars => DLag'
<1> SUFFICES ASSUME Places, DLag, [DNext]_dVars PROVE DLag'
  OBVIOUS
<1>1. CASE UNCHANGED dVars
  BY <1>1, SameLength DEF dVars, vars, queues, native, dynamicVars, localVars, DLag
<1>2. CASE \E s \in Seqs : AddDynamicSequence(s) \/ DFinishSequence(s) \/ Age(s)
  BY <1>2, DLagClient
<1>3. CASE DScheduleStep
  BY <1>3, DLagBegin, DLagLoop, DLagAppend, DLagRegister, DLagPromote, DLagPcOnly
     DEF DScheduleStep
<1>4. CASE Inherited
  BY <1>4, DLagDecodeDone, DLagRegister, DLagPromote, DLagPcOnly DEF Inherited
<1>5. CASE DCaller
  BY <1>5, DLagCaller
<1> QED  BY <1>1, <1>2, <1>3, <1>4, <1>5 DEF DNext

\* Every step that gives the trie blocks takes them from a sequence that still
\* holds its KV, and has all of it but the last token.
LEMMA TrieStep ==
    ASSUME Places, DLag, [DNext]_dVars, NEW x \in Texts, depth'[x] > depth[x]
    PROVE  \E s \in KV!Registered :
              Text[s] = x /\ tokens[s] + 1 >= BlockSize * depth'[x]
<1>0. depth'[x] # depth[x]
  <2>1. depth[x] \in Nat
    BY DEF Places, DTypeOK
  <2> QED  BY <2>1
<1>1. PICK s \in KV!Registered : Insert(s) /\ LagsAtMostOne(s)
  <2>1. ASSUME NEW s \in Seqs, DFinishSequence(s)
        PROVE  s \in KV!Registered /\ Insert(s) /\ LagsAtMostOne(s)
    BY <2>1 DEF DFinishSequence, FinishSequence, DFree, Places, DRunningHoldsKV, DActive, DLag
  <2>2. ASSUME DDecodeFinished
        PROVE  Reached \in KV!Registered /\ Insert(Reached) /\ LagsAtMostOne(Reached)
    <3>1. Deciding /\ Reached \notin evicted /\ DFree(Reached)
      BY <2>2 DEF DDecodeFinished, DDeciding
    <3> QED  BY <3>1, DAtHead DEF DFree, DLag
  <2>3. CASE depth' = depth
    BY <1>0, <2>3
  <2> QED
    BY <2>1, <2>2, <2>3
       DEF DNext, DScheduleStep, Inherited, DCaller, AddDynamicSequence, Age, DBegin,
           DecodeSkip, DDecodePreempt, DDecodeAppend, DDecodeRaise, DecodeEvict,
           DRestoreDone, AdmitSkip, DAdmitRegister, DAdmitAppend, DAdmitDone,
           dVars, dynamicVars, requestVars
<1>2. Text[s] = x /\ BlockSize * depth'[x] <= TotalLen(s) /\ depth'[x] \in Nat
  BY <1>1, InsertEffect DEF Places
<1>3. tokens[s] \in Nat /\ TotalLen(s) \in Nat /\ BlockSize \in Nat
  BY BlocksAreInt, SchedulerAssumption DEF Places, DTypeOK, TypeOK
<1>4. BlockSize * depth'[x] \in Nat
  BY <1>2, <1>3
<1>5. tokens[s] + 1 >= BlockSize * depth'[x]
  BY <1>1, <1>2, <1>3, <1>4 DEF LagsAtMostOne
<1> QED  BY <1>2, <1>5

\* What the trie gains is a prefix of a sequence that still holds the KV of all
\* of it but the last token: whoever is matched against it is told of nothing
\* that was never computed.
THEOREM TrieHasKV == DSpec => TrieFollowsKV
<1>1. DInit => Places /\ DLag
  BY PlacesInit, DLagInit
<1>2. Places /\ DLag /\ [DNext]_dVars => Places' /\ DLag'
  BY PlacesStep, DLagStep
<1>3. Places /\ DLag /\ [DNext]_dVars =>
         [\A x \in Texts : depth'[x] > depth[x] =>
             \E s \in KV!Registered : Text[s] = x /\ tokens[s] + 1 >= BlockSize * depth'[x]]_dVars
  BY TrieStep
<1> QED  BY <1>1, <1>2, <1>3, PTL DEF DSpec, TrieFollowsKV

-----------------------------------------------------------------------------
(* Nothing is overtaken *)

\* waiting_queue is in the order of the scores.
InOrder ==
    \A i, j \in DOMAIN waiting, s, t \in Seqs :
        i < j /\ s = waiting[i] /\ t = waiting[j] => ~Leads(t, s)

\* Admission has passed over nothing but what exceeds the token budget.
PassedOver ==
    \A i \in DOMAIN waiting, s \in Seqs : i < idx /\ s = waiting[i] => OverBudget(s)

DOrder ==
    /\ pc \in {"idle", "decode", "restore", "restoring"} => idx = 1
    /\ pc \in {"admit", "admitting"} => InOrder /\ PassedOver
    /\ NoOvertaking

LEMMA DOrderInit == DInit => DOrder
  BY DEF DInit, Init, DOrder, NoOvertaking

LEMMA SameLeads ==
    ASSUME arrived' = arrived, computed' = computed, NEW s, NEW t
    PROVE  Leads(s, t)' <=> Leads(s, t)
  BY DEF Leads, WaitedMore, Earlier, Position

\* Steps outside admission.
LEMMA DOrderBefore ==
    ASSUME DOrder, pc' = pc \/ pc' = "raised" \/ pc' \in {"decode", "restore", "restoring"},
           pc \in {"idle", "decode", "restore", "restoring"}, idx' = idx
    PROVE  DOrder'
  BY DEF DOrder, NoOvertaking

LEMMA DOrderSort == ASSUME Places, DOrder, DRestoreDone PROVE DOrder'
<1>1. /\ pc = "restore" /\ pc' = "admit" /\ idx' = idx /\ arrived' = arrived
      /\ computed' = computed
  BY DEF DRestoreDone, dynamicVars, requestVars, localVars
<1>2. /\ Len(waiting') = Len(waiting)
      /\ \A i, j \in DOMAIN waiting' : i < j => ~Leads(waiting'[j], waiting'[i])
  BY DEF DRestoreDone, Sorted
<1>3. InOrder'
  BY <1>1, <1>2, SameLeads DEF InOrder
<1>4. PassedOver'
  <2>1. waiting' \in Seq(Seqs) /\ idx' = 1
    BY <1>1, Arranged DEF Places, DTypeOK, TypeOK, DRestoreDone, Sorted, Spots, DInOnePlace,
                          DOrder
  <2>2. \A i \in DOMAIN waiting' : ~(i < 1)
    BY <2>1
  <2> QED  BY <2>1, <2>2 DEF PassedOver
<1> QED  BY <1>1, <1>3, <1>4 DEF DOrder, NoOvertaking

LEMMA DOrderSkip == ASSUME Places, DOrder, AdmitSkip PROVE DOrder'
<1>1. /\ pc = "admit" /\ pc' = pc /\ waiting' = waiting /\ arrived' = arrived
      /\ computed' = computed /\ req' = req /\ call' = call /\ budget' = budget
      /\ OverBudget(waiting[idx]) /\ idx' = idx + 1
  BY DEF AdmitSkip, Considers, Candidate, vars, queues, requestVars
<1>2. InOrder'
  BY <1>1, SameLeads DEF InOrder, DOrder
<1>3. \A s : OverBudget(s)' <=> OverBudget(s)
  BY <1>1 DEF OverBudget, Effective
<1>4. idx \in Nat /\ \A i \in DOMAIN waiting : i \in Nat
  <2>1. waiting \in Seq(Seqs) /\ idx \in Nat
    BY PlacesTypes
  <2> QED  BY <2>1
<1>5. \A i \in DOMAIN waiting : i < idx + 1 => i < idx \/ i = idx
  BY <1>4
<1>6. PassedOver'
  BY <1>1, <1>3, <1>5 DEF PassedOver, DOrder
<1> QED  BY <1>1, <1>2, <1>6 DEF DOrder, NoOvertaking

LEMMA DOrderRegister == ASSUME Places, DOrder, DAdmitRegister PROVE DOrder'
<1>1. waiting \in Seq(Seqs) /\ IsInjective(waiting) /\ idx \in Nat \ {0}
  BY DEF Places, DTypeOK, TypeOK, Spots, DInOnePlace, DAdmitRegister, Considers
<1>2. /\ pc = "admit" /\ pc' = "admitting" /\ arrived' = arrived /\ computed' = computed
      /\ req' = req /\ budget' = budget /\ idx' = idx /\ idx <= Len(waiting)
      /\ waiting' = RemoveAt(waiting, idx)
      /\ call' = [call EXCEPT !.popped = <<waiting[idx]>>]
  BY DEF DAdmitRegister, Considers, Candidate, requestVars
<1>3. call'.popped = <<waiting[idx]>> /\ call'.batched = call.batched
  <2>1. call \in CallType
    BY PlacesTypes
  <2> QED  BY <1>2, <2>1 DEF CallType
<1>4. idx \in 1 .. Len(waiting)
  BY <1>1, <1>2
<1>5. /\ waiting' \in Seq(Seqs) /\ Len(waiting') = Len(waiting) - 1
      /\ ToSet(waiting') = ToSet(waiting) \ {waiting[idx]}
      /\ \A i \in 1 .. Len(waiting') :
            waiting'[i] = IF i < idx THEN waiting[i] ELSE waiting[i + 1]
  BY <1>1, <1>2, <1>4, RemovedFromQueue
<1>6. \A s : OverBudget(s)' <=> OverBudget(s)
  BY <1>2, <1>3 DEF OverBudget, Effective
<1>7. InOrder /\ PassedOver
  BY <1>2 DEF DOrder
\* Where an element of the shorter queue was.
<1> DEFINE was(i) == IF i < idx THEN i ELSE i + 1
<1>8. /\ \A i \in DOMAIN waiting' : was(i) \in DOMAIN waiting /\ waiting'[i] = waiting[was(i)]
      /\ \A i, j \in DOMAIN waiting' : i < j => was(i) < was(j)
  <2>1. DOMAIN waiting' = 1 .. Len(waiting) - 1 /\ DOMAIN waiting = 1 .. Len(waiting)
        /\ Len(waiting) \in Nat
    BY <1>1, <1>5
  <2> QED  BY <1>1, <1>5, <2>1
<1>9. InOrder'
  <2> HIDE DEF was
  <2> QED  BY <1>2, <1>7, <1>8, SameLeads DEF InOrder
<1>10. PassedOver'
  <2>1. \A i \in DOMAIN waiting' : i < idx => was(i) = i
    OBVIOUS
  <2> HIDE DEF was
  <2> QED  BY <1>2, <1>6, <1>7, <1>8, <2>1 DEF PassedOver
<1>11. NoOvertaking'
  <2>1. SUFFICES ASSUME NEW s \in ToSet(call'.popped), NEW t \in ToSet(waiting'),
                        Leads(t, s)
                 PROVE  OverBudget(t)
    BY <1>2, <1>6, SameLeads DEF NoOvertaking
  <2>2. s = waiting[idx] /\ s \in Seqs
    BY <1>1, <1>3, <1>4, SingletonQueue
  <2>3. t \in ToSet(waiting) /\ t # s
    BY <1>5, <2>2
  <2>4. PICK i \in DOMAIN waiting : t = waiting[i]
    BY <2>3 DEF ToSet
  <2>5. i \in Nat /\ i # idx /\ t \in Seqs /\ idx \in DOMAIN waiting
    BY <1>1, <1>4, <2>2, <2>3, <2>4
  <2>6. ~(idx < i)
    BY <1>7, <2>1, <2>2, <2>4, <2>5 DEF InOrder
  <2>7. i < idx
    BY <1>1, <2>5, <2>6
  <2> QED  BY <1>7, <2>4, <2>5, <2>7 DEF PassedOver
<1> QED  BY <1>2, <1>9, <1>10, <1>11 DEF DOrder

LEMMA DOrderAppend == ASSUME Places, DOrder, DAdmitAppend PROVE DOrder'
<1>0. pc \in Holding
  BY DEF DAdmitAppend, Holding
<1>1. PICK s \in Seqs : s = Head(call.popped)
  BY <1>0, DPoppedHead
<1>2. /\ pc = "admitting" /\ pc' \in {"admit", "batch"} /\ arrived' = arrived
      /\ computed' = computed /\ req' = req /\ budget' = budget /\ idx' = idx
      /\ waiting' = waiting
      /\ call' = [call EXCEPT !.popped = <<>>, !.prefill = Append(@, s),
                              !.free = @ - RequiredBlocks(s),
                              !.batched = @ + Effective(s)]
  BY <1>1 DEF DAdmitAppend, dynamicVars, requestVars, localVars
<1>3. call'.batched = call.batched + Effective(s) /\ call.batched \in Nat
  <2>1. call \in CallType
    BY PlacesTypes
  <2> QED  BY <1>2, <2>1 DEF CallType
<1>4. Effective(s) \in Nat /\ budget \in Nat
  BY EffectiveIsNat DEF Places, DTypeOK, TypeOK
<1>5. ASSUME NEW t \in Seqs, OverBudget(t) PROVE OverBudget(t)'
  <2>1. Effective(t)' = Effective(t) /\ Effective(t) \in Nat
    BY <1>2, EffectiveIsNat DEF Effective, Places
  <2> QED  BY <1>2, <1>3, <1>4, <1>5, <2>1 DEF OverBudget
<1>6. InOrder'
  BY <1>2, SameLeads DEF InOrder, DOrder
<1>7. PassedOver'
  BY <1>2, <1>5 DEF PassedOver, DOrder
<1> QED  BY <1>2, <1>6, <1>7 DEF DOrder, NoOvertaking

LEMMA DOrderStep == Places /\ DOrder /\ [DNext]_dVars => DOrder'
<1> SUFFICES ASSUME Places, DOrder, [DNext]_dVars PROVE DOrder'
  OBVIOUS
<1>1. CASE UNCHANGED dVars
  BY <1>1
     DEF dVars, vars, queues, dynamicVars, requestVars, localVars, DOrder, InOrder,
         PassedOver, NoOvertaking, OverBudget, Effective, Leads, WaitedMore, Earlier, Position
<1>2. CASE \E s \in Seqs : AddDynamicSequence(s) \/ DFinishSequence(s) \/ Age(s)
  BY <1>2, DOrderBefore
     DEF AddDynamicSequence, AddSequence, DFinishSequence, FinishSequence, Age, vars, localVars
<1>3. CASE \/ DBegin \/ DecodeSkip \/ DDecodeFinished \/ DDecodePreempt \/ DDecodeAppend
           \/ DDecodeRaise \/ \E v \in Seqs : DecodeEvict(v)
  BY <1>3, DOrderBefore
     DEF DBegin, DecodeSkip, DDecodeFinished, DDecodePreempt, DDecodeAppend, DDecodeRaise,
         DecodeEvict, DDeciding, Deciding, DecodeFinished, DecodePreempt, dynamicVars,
         localVars
<1>4. CASE /\ DecodeDone \/ RestoreRegister \/ RestoreAppend \/ RestoreRaise
           /\ UNCHANGED dynamicVars
  BY <1>4, DOrderBefore
     DEF DecodeDone, RestoreRegister, RestoreAppend, RestoreRaise, dynamicVars, localVars
<1>5. CASE DAdmitDone \/ AdmitRaise
  BY <1>5 DEF DAdmitDone, AdmitRaise, DOrder, NoOvertaking
<1>6. CASE DCaller
  BY <1>6 DEF DCaller, Caller, CallerDone, NoLocals, DOrder, NoOvertaking
<1> QED
  BY <1>1, <1>2, <1>3, <1>4, <1>5, <1>6, DOrderSort, DOrderSkip, DOrderRegister, DOrderAppend
     DEF DNext, DScheduleStep, Inherited

\* In admission nothing overtakes: whoever has the higher score and still waits
\* when another is taken exceeds the token budget.  waiting_queue is sorted
\* before the loop, keeps its order when one of it is taken out, and what the
\* loop has passed over stays over budget because the batch only grows.
THEOREM InOrderOfScore == DSpec => []NoOvertaking
<1>1. DInit => Places /\ DOrder
  BY PlacesInit, DOrderInit
<1>2. Places /\ DOrder /\ [DNext]_dVars => Places' /\ DOrder'
  BY PlacesStep, DOrderStep
<1>3. DOrder => NoOvertaking
  BY DEF DOrder
<1> QED  BY <1>1, <1>2, <1>3, PTL DEF DSpec
=============================================================================
