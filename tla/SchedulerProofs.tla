--------------------------- MODULE SchedulerProofs ---------------------------
(***************************************************************************)
(* Proofs about Scheduler, for every number of sequences, pool size, block *)
(* size, limit and budget, and for every caller; then about Pipeline, the  *)
(* caller there is: it implements Scheduler, so every theorem of the first *)
(* part holds of it, and its context is complete or absent.                *)
(***************************************************************************)
EXTENDS Pipeline, DataLemmas, TLAPS

-----------------------------------------------------------------------------
(* Queues *)

LEMMA DroppedFromQueue ==
    ASSUME NEW S, NEW q \in Seq(S), IsInjective(q), NEW x
    PROVE  /\ Dropped(q, x) \in Seq(S) /\ IsInjective(Dropped(q, x))
           /\ ToSet(Dropped(q, x)) = ToSet(q) \ {x}
           /\ Len(Dropped(q, x)) <= Len(q)
<1>1. CASE x \notin ToSet(q)
  BY <1>1 DEF Dropped
<1>2. CASE x \in ToSet(q)
  <2> DEFINE i == CHOOSE i \in DOMAIN q : q[i] = x
  <2>1. i \in DOMAIN q /\ q[i] = x
    BY <1>2 DEF ToSet
  <2>2. Dropped(q, x) = RemoveAt(q, i)
    BY <1>2 DEF Dropped
  <2> HIDE DEF i
  <2>3. i \in 1 .. Len(q) /\ Len(q) \in Nat
    BY <2>1
  <2> QED  BY <2>1, <2>2, <2>3, RemovedFromQueue
<1> QED  BY <1>1, <1>2

-----------------------------------------------------------------------------
(* The inductive invariant *)

MidCall == {"restore", "restoring", "admit", "admitting", "batch"}
Holding == {"restoring", "admitting"}

\* The decode loop splits the old running_queue into what it has yet to see
\* and what it keeps (the rest it has freed); what it keeps is the batch.
DecodeSplits ==
    pc = "decode" =>
        /\ IsInjective(call.todo) /\ IsInjective(call.retained)
        /\ ToSet(call.todo) \cap ToSet(call.retained) = {}
        /\ Len(call.todo) + Len(call.retained) <= MaxNumSeqs
        /\ call.decode = call.retained /\ call.prefill = <<>>

\* From then on running_queue is the batch.
RunningIsBatch == pc \in MidCall => running = call.decode \o call.prefill

\* One sequence at most is between two queues, and there is room for it.
PoppedFits ==
    pc \in Holding =>
        /\ \E s \in Seqs : call.popped = <<s>> /\ s \notin ToSet(running)
        /\ Len(running) < MaxNumSeqs

Queued == ToSet(waiting) \cup ToSet(preempted)

\* A sequence nobody has submitted is nowhere.
NewIsNowhere ==
    pc # "raised" =>
        \A s \in Seqs : state[s] = "NEW" =>
            gen[s] = 0 /\ s \notin known \cup Active \cup Queued

CanGenerate(s) == gen[s] < req[s].maxNew \/ gen[s] = 0

\* A sequence that is queued, or that the batch holds, has a token left to
\* generate: the others leave running_queue in the decode loop.
TokensLeft ==
    /\ pc # "raised" => \A s \in Queued : CanGenerate(s)
    /\ pc = "decode" => \A s \in ToSet(call.retained) : CanGenerate(s)
    /\ pc \in MidCall => \A s \in Active : CanGenerate(s)

\* The batch has the slots the kernels will ask for.
LongEnough ==
    pc \in MidCall \cup {"decode"} =>
        /\ \A s \in ToSet(call.prefill) : tokens[s] >= req[s].prompt
        /\ \A s \in ToSet(call.decode) : tokens[s] >= 1

Queues == QueuesDisjoint /\ DecodeSplits /\ RunningIsBatch /\ PoppedFits
Tokens == WithinMaxNewTokens /\ TokensLeft /\ LongEnough

IInv ==
    /\ TypeOK
    /\ Queues
    /\ RunningHoldsKV
    /\ NoRequestLost /\ NewIsNowhere
    /\ WithinMaxNumSeqs
    /\ Tokens

-----------------------------------------------------------------------------
(* Arithmetic of blocks *)

LEMMA RequestsAreNat ==
    ASSUME TypeOK
    PROVE  \A s \in Seqs :
              gen[s] \in Nat /\ req[s].prompt \in Nat /\ req[s].maxNew \in Nat
<1>1. req \in [Seqs -> Requests] /\ gen \in [Seqs -> Nat]
  BY DEF TypeOK
<1>2. \A s \in Seqs : gen[s] \in Nat /\ req[s] \in [prompt : Nat, maxNew : Nat]
  BY <1>1, SchedulerAssumption
<1> QED  BY <1>2

LEMMA DivBounds ==
    ASSUME NEW d \in Nat \ {0}, NEW n \in Nat
    PROVE  n \div d \in Nat
  OBVIOUS

LEMMA DivMonotone ==
    ASSUME NEW d \in Nat \ {0}, NEW m \in Nat, NEW n \in Nat, m <= n
    PROVE  m \div d <= n \div d
  OBVIOUS

LEMMA BlocksAreNat == \A n \in Nat : KV!BlocksFor(n) \in Nat
  BY SchedulerAssumption, DivBounds DEF KV!BlocksFor

-----------------------------------------------------------------------------
(* The native calls *)

LEMMA RegisterEffect ==
    ASSUME TypeOK, NEW s \in Seqs, KV!Register(s)
    PROVE  /\ s \notin KV!Registered /\ KV!Registered' = KV!Registered \cup {s}
           /\ KV!Registered' \subseteq Seqs /\ tokens' \in [KV!Registered' -> Nat]
           /\ \A r \in KV!Registered : tokens'[r] = tokens[r]
           /\ avail' \in Nat
  BY DEF TypeOK, KV!Register, KV!Registered

LEMMA GrowEffect ==
    ASSUME TypeOK, NEW s \in Seqs, NEW n \in Nat, KV!Grow(s, n)
    PROVE  /\ s \in KV!Registered /\ KV!Registered' = KV!Registered
           /\ KV!Registered' \subseteq Seqs /\ tokens' \in [KV!Registered' -> Nat]
           /\ tokens'[s] = tokens[s] + n /\ tokens[s] \in Nat
           /\ \A r \in KV!Registered \ {s} : tokens'[r] = tokens[r]
           /\ avail' \in Nat
<1>1. s \in KV!Registered /\ tokens[s] \in Nat /\ tokens[s] + n \in Nat
  BY DEF TypeOK, KV!Grow, KV!CanGrow, KV!Registered
<1>2. KV!NeedFor(tokens[s], tokens[s] + n) \in Int
  <2>1. KV!BlocksFor(tokens[s]) \in Nat /\ KV!BlocksFor(tokens[s] + n) \in Nat
    BY <1>1, BlocksAreNat
  <2> QED  BY <2>1 DEF KV!NeedFor
<1>3. avail' \in Nat
  <2>1. \A a \in Nat, d \in Int : d <= a => a - d \in Nat
    OBVIOUS
  <2>2. /\ KV!NeedFor(tokens[s], tokens[s] + n) <= avail
        /\ avail' = avail - KV!NeedFor(tokens[s], tokens[s] + n)
    BY DEF KV!Grow, KV!CanGrow
  <2>3. avail \in Nat
    BY DEF TypeOK
  <2> QED  BY <1>2, <2>1, <2>2, <2>3
<1>4. tokens' = [tokens EXCEPT ![s] = tokens[s] + n]
  BY DEF KV!Grow
<1>5. KV!Registered' = KV!Registered /\ tokens' \in [KV!Registered' -> Nat]
  BY <1>1, <1>4 DEF TypeOK, KV!Registered
<1> QED  BY <1>1, <1>3, <1>4, <1>5 DEF TypeOK, KV!Registered

LEMMA FreeEffect ==
    ASSUME TypeOK, NEW s \in Seqs, FreeIfRegistered(s)
    PROVE  /\ KV!Registered' = KV!Registered \ {s}
           /\ KV!Registered' \subseteq Seqs /\ tokens' \in [KV!Registered' -> Nat]
           /\ \A r \in KV!Registered \ {s} : tokens'[r] = tokens[r]
           /\ avail' \in Nat
<1>1. CASE s \notin KV!Registered
  BY <1>1 DEF FreeIfRegistered, TypeOK, native, KV!Registered
<1>2. CASE s \in KV!Registered
  <2>1. KV!BlocksFor(tokens[s]) \in Nat
    BY <1>2, BlocksAreNat DEF TypeOK, KV!Registered
  <2> QED  BY <1>2, <2>1 DEF FreeIfRegistered, TypeOK, KV!Free, KV!Without, KV!Registered
<1> QED  BY <1>1, <1>2

-----------------------------------------------------------------------------
(* The invariant holds initially and is kept by the client's calls *)

LEMMA InitOK == Init => IInv
<1> SUFFICES ASSUME Init PROVE IInv
  OBVIOUS
<1>1. TypeOK
  BY SchedulerAssumption DEF Init, TypeOK, States, KV!Registered, Locals
<1>2. ToSet(<<>>) = {} /\ IsInjective(<<>>) /\ Len(<<>>) = 0
  BY DEF ToSet, IsInjective
<1>3. Active = {} /\ Queued = {} /\ KV!Registered = {}
  BY <1>2 DEF Init, Active, Queued, KV!Registered
<1>4. Queues /\ WithinMaxNumSeqs
  BY <1>2, <1>3, SchedulerAssumption
     DEF Init, Queues, QueuesDisjoint, DecodeSplits, RunningIsBatch, PoppedFits,
         MidCall, Holding, WithinMaxNumSeqs
<1>5. \A s \in Seqs : gen[s] <= req[s].maxNew
  BY SchedulerAssumption DEF Init
<1>6. Tokens
  BY <1>3, <1>5 DEF Init, Tokens, WithinMaxNewTokens, TokensLeft, LongEnough, MidCall
<1>7. RunningHoldsKV /\ NoRequestLost /\ NewIsNowhere
  BY <1>3 DEF Init, RunningHoldsKV, NoRequestLost, NewIsNowhere
<1> QED  BY <1>1, <1>4, <1>6, <1>7 DEF IInv

LEMMA AddSequenceOK ==
    ASSUME IInv, NEW s \in Seqs, AddSequence(s)
    PROVE  IInv'
<1>1. /\ pc = "idle" /\ pc' = pc /\ req' = req /\ gen' = gen /\ budget' = budget
      /\ running' = running /\ preempted' = preempted /\ avail' = avail
      /\ tokens' = tokens /\ call' = call /\ known' = known \cup {s}
      /\ state' = [state EXCEPT ![s] = "WAITING"] /\ waiting' = Append(waiting, s)
  BY DEF AddSequence, native
<1>2. gen[s] = 0 /\ s \notin ToSet(running) \cup ToSet(waiting) \cup ToSet(preempted)
  BY <1>1 DEF AddSequence, IInv, NewIsNowhere, Active, Queued
<1>3. /\ waiting' \in Seq(Seqs) /\ ToSet(waiting') = ToSet(waiting) \cup {s}
      /\ IsInjective(waiting) => IsInjective(waiting')
  BY <1>1, <1>2, AppendedQueue DEF IInv, TypeOK
<1>4. Active = ToSet(running) /\ Active' = Active /\ KV!Registered' = KV!Registered
      /\ Queued' = Queued \cup {s}
  BY <1>1, <1>3 DEF Active, KV!Registered, Queued
<1>5. TypeOK'
  BY <1>1, <1>3, <1>4 DEF IInv, TypeOK, States
<1>6. Queues' /\ WithinMaxNumSeqs'
  BY <1>1, <1>2, <1>3, <1>4
     DEF IInv, Queues, QueuesDisjoint, DecodeSplits, RunningIsBatch, PoppedFits,
         MidCall, Holding, WithinMaxNumSeqs
<1>7. Tokens'
  BY <1>1, <1>2, <1>4
     DEF IInv, Tokens, WithinMaxNewTokens, TokensLeft, CanGenerate, LongEnough, MidCall
<1>8. RunningHoldsKV' /\ NoRequestLost'
  BY <1>1, <1>3, <1>4 DEF IInv, RunningHoldsKV, NoRequestLost
<1>9. NewIsNowhere'
  BY <1>1, <1>4 DEF IInv, TypeOK, NewIsNowhere
<1> QED  BY <1>5, <1>6, <1>7, <1>8, <1>9 DEF IInv

LEMMA FinishSequenceOK ==
    ASSUME IInv, NEW s \in Seqs, FinishSequence(s)
    PROVE  IInv'
<1>1. /\ pc = "idle" /\ pc' = pc /\ req' = req /\ gen' = gen /\ budget' = budget
      /\ preempted' = preempted /\ call' = call /\ known' = known \ {s}
      /\ running' = Dropped(running, s) /\ waiting' = Dropped(waiting, s)
      /\ state' = [state EXCEPT ![s] = "FINISHED"] /\ FreeIfRegistered(s)
  BY DEF FinishSequence, FreeSequenceResources
<1>2. IsInjective(waiting) /\ IsInjective(running)
  BY <1>1 DEF IInv, Queues, QueuesDisjoint
<1>3. /\ waiting' \in Seq(Seqs) /\ IsInjective(waiting')
      /\ ToSet(waiting') = ToSet(waiting) \ {s}
      /\ running' \in Seq(Seqs) /\ IsInjective(running')
      /\ ToSet(running') = ToSet(running) \ {s} /\ Len(running') <= Len(running)
  BY <1>1, <1>2, DroppedFromQueue DEF IInv, TypeOK
<1>4. /\ Active = ToSet(running) /\ Active' = Active \ {s}
      /\ Queued' \subseteq Queued /\ Queued \ {s} \subseteq Queued'
  BY <1>1, <1>3 DEF Active, Queued
<1>5. /\ KV!Registered' = KV!Registered \ {s}
      /\ KV!Registered' \subseteq Seqs /\ tokens' \in [KV!Registered' -> Nat]
      /\ avail' \in Nat
  BY <1>1, FreeEffect DEF IInv
<1>6. TypeOK'
  BY <1>1, <1>3, <1>5 DEF IInv, TypeOK, States
<1>7. Queues'
  BY <1>1, <1>3, <1>4
     DEF IInv, Queues, QueuesDisjoint, DecodeSplits, RunningIsBatch, PoppedFits,
         MidCall, Holding
<1>8. WithinMaxNumSeqs'
  <2>1. Len(running) \in Int /\ Len(running') \in Int /\ MaxNumSeqs \in Int
    BY <1>3, SchedulerAssumption DEF IInv, TypeOK
  <2> QED  BY <1>3, <2>1 DEF IInv, WithinMaxNumSeqs
<1>9. Tokens'
  BY <1>1, <1>4
     DEF IInv, Tokens, WithinMaxNewTokens, TokensLeft, CanGenerate, LongEnough, MidCall
<1>10. RunningHoldsKV'
  BY <1>1, <1>4, <1>5 DEF IInv, RunningHoldsKV
<1>11. NoRequestLost'
  BY <1>1, <1>4 DEF IInv, NoRequestLost, Queued
<1>12. NewIsNowhere'
  BY <1>1, <1>4 DEF IInv, TypeOK, NewIsNowhere
<1> QED  BY <1>6, <1>7, <1>8, <1>9, <1>10, <1>11, <1>12 DEF IInv

-----------------------------------------------------------------------------
(* The decode phase keeps the invariant *)

LEMMA BeginOK == ASSUME IInv, Begin PROVE IInv'
<1>1. /\ pc = "idle" /\ pc' = "decode" /\ req' = req /\ gen' = gen /\ budget' = budget
      /\ waiting' = waiting /\ running' = running /\ preempted' = preempted
      /\ avail' = avail /\ tokens' = tokens /\ known' = known /\ state' = state
  BY DEF Begin, queues, native
<1>2. /\ call'.todo = running /\ call'.retained = <<>> /\ call'.decode = <<>>
      /\ call'.prefill = <<>>
      /\ call' \in [todo : Seq(Seqs), retained : Seq(Seqs), prefill : Seq(Seqs),
                     decode : Seq(Seqs), popped : Seq(Seqs), free : Int,
                     batched : Nat, argFree : Int, argBatched : Nat]
  <2>1. call' = [Locals(avail) EXCEPT !.todo = running]
    BY DEF Begin
  <2>2. call' = [todo |-> running, retained |-> <<>>, prefill |-> <<>>,
                 decode |-> <<>>, popped |-> <<>>, free |-> avail, batched |-> 0,
                 argFree |-> 0, argBatched |-> 0]
    BY <2>1 DEF Locals
  <2>3. running \in Seq(Seqs) /\ avail \in Int /\ <<>> \in Seq(Seqs)
    BY DEF IInv, TypeOK
  <2> QED  BY <2>2, <2>3
<1>3. Active' = Active /\ Active = ToSet(running) /\ Queued' = Queued
      /\ KV!Registered' = KV!Registered
  BY <1>1, <1>2, EmptyQueue DEF Active, Queued, KV!Registered
<1>4. TypeOK'
  BY <1>1, <1>2, <1>3 DEF IInv, TypeOK
<1>5. Queues'
  <2>1. Len(running) \in Nat /\ Len(running) <= MaxNumSeqs
    BY DEF IInv, TypeOK, WithinMaxNumSeqs
  <2> QED  BY <1>1, <1>2, <1>3, <2>1, EmptyQueue
              DEF IInv, Queues, QueuesDisjoint, DecodeSplits, RunningIsBatch,
                  PoppedFits, MidCall, Holding
<1>6. Tokens'
  BY <1>1, <1>2, <1>3, EmptyQueue
     DEF IInv, Tokens, WithinMaxNewTokens, TokensLeft, CanGenerate, LongEnough, MidCall
<1>7. RunningHoldsKV' /\ NoRequestLost' /\ NewIsNowhere' /\ WithinMaxNumSeqs'
  BY <1>1, <1>3
     DEF IInv, RunningHoldsKV, NoRequestLost, NewIsNowhere, WithinMaxNumSeqs
<1> QED  BY <1>4, <1>5, <1>6, <1>7 DEF IInv

LEMMA OneFewer ==
    \A a, b, m \in Int : a + b <= m => (a - 1) + b <= m /\ (a - 1) + (b + 1) <= m
  OBVIOUS

\* What every iteration of the decode loop sees.
LEMMA AtHead ==
    ASSUME IInv, Deciding
    PROVE  /\ Reached \in Seqs /\ pc = "decode" /\ Reached \in ToSet(call.todo)
           /\ Tail(call.todo) \in Seq(Seqs) /\ IsInjective(Tail(call.todo))
           /\ ToSet(Tail(call.todo)) = ToSet(call.todo) \ {Reached}
           /\ Len(Tail(call.todo)) = Len(call.todo) - 1 /\ Len(call.todo) \in Nat
           /\ Reached \notin ToSet(call.retained) /\ Reached \in Active
           /\ Active = ToSet(call.todo) \cup ToSet(call.retained)
<1>1. pc = "decode" /\ call.todo \in Seq(Seqs) /\ call.todo # <<>>
      /\ IsInjective(call.todo) /\ ToSet(call.todo) \cap ToSet(call.retained) = {}
  BY DEF Deciding, IInv, TypeOK, Queues, DecodeSplits
<1> QED  BY <1>1, TailOfQueue DEF Reached, Active

\* Moving the head of todo away, to retained or not, keeps within the limit.
LEMMA RoomKept ==
    ASSUME IInv, Deciding
    PROVE  /\ (Len(call.todo) - 1) + Len(call.retained) <= MaxNumSeqs
           /\ (Len(call.todo) - 1) + (Len(call.retained) + 1) <= MaxNumSeqs
<1>1. Len(call.todo) + Len(call.retained) <= MaxNumSeqs
  BY DEF Deciding, IInv, Queues, DecodeSplits
<1>2. Len(call.todo) \in Int /\ Len(call.retained) \in Int /\ MaxNumSeqs \in Int
  BY SchedulerAssumption DEF IInv, TypeOK
<1> QED  BY <1>1, <1>2, OneFewer

LEMMA UnfinishedCanGenerate ==
    ASSUME TypeOK, NEW s \in Seqs, ~IsFinished(s)
    PROVE  CanGenerate(s)
<1>1. gen[s] \in Nat /\ req[s].maxNew \in Nat
  BY RequestsAreNat
<1>2. req[s].maxNew \in Nat /\ ~(gen[s] >= req[s].maxNew)
  BY <1>1 DEF IsFinished
<1> QED  BY <1>1, <1>2 DEF CanGenerate

LEMMA DecodeFinishedOK == ASSUME IInv, DecodeFinished PROVE IInv'
<1> DEFINE s == Reached
<1>1. /\ Deciding /\ FreeIfRegistered(s)
      /\ pc' = pc /\ req' = req /\ gen' = gen /\ budget' = budget
      /\ waiting' = waiting /\ running' = running /\ preempted' = preempted
      /\ known' = known \ {s} /\ state' = [state EXCEPT ![s] = "FINISHED"]
      /\ call' = [call EXCEPT !.todo = Tail(call.todo)]
  BY DEF DecodeFinished, FreeSequenceResources, queues
<1>2. /\ s \in Seqs /\ pc = "decode"
      /\ Tail(call.todo) \in Seq(Seqs) /\ IsInjective(Tail(call.todo))
      /\ ToSet(Tail(call.todo)) = ToSet(call.todo) \ {s}
      /\ Len(Tail(call.todo)) = Len(call.todo) - 1 /\ Len(call.todo) \in Nat
      /\ s \notin ToSet(call.retained)
      /\ Active = ToSet(call.todo) \cup ToSet(call.retained)
  BY <1>1, AtHead
<1> HIDE DEF s
<1>3. /\ call'.todo = Tail(call.todo) /\ call'.retained = call.retained
      /\ call'.decode = call.decode /\ call'.prefill = call.prefill
  BY <1>1 DEF IInv, TypeOK
<1>4. Active' = Active \ {s} /\ Queued' = Queued
  BY <1>1, <1>2, <1>3 DEF Active, Queued
<1>5. /\ KV!Registered' = KV!Registered \ {s}
      /\ KV!Registered' \subseteq Seqs /\ tokens' \in [KV!Registered' -> Nat]
      /\ \A r \in KV!Registered \ {s} : tokens'[r] = tokens[r]
      /\ avail' \in Nat
  BY <1>1, <1>2, FreeEffect DEF IInv
<1>6. TypeOK'
  BY <1>1, <1>2, <1>5 DEF IInv, TypeOK, States
<1>7. Queues'
  <2>1. DecodeSplits
    BY DEF IInv, Queues
  <2>2. DecodeSplits'
    <3>1. (Len(call.todo) - 1) + Len(call.retained) <= MaxNumSeqs
      BY <1>1, RoomKept
    <3> QED  BY <1>2, <1>3, <2>1, <3>1 DEF DecodeSplits
  <2>3. QueuesDisjoint'
    BY <1>1, <1>2, <1>4 DEF IInv, Queues, QueuesDisjoint
  <2> QED  BY <1>1, <1>2, <2>2, <2>3
              DEF Queues, RunningIsBatch, PoppedFits, MidCall, Holding
<1>8. Tokens'
  <2>1. LongEnough'
    <3>1. \A r \in ToSet(call.decode) : r \in KV!Registered \ {s}
      BY <1>2 DEF IInv, Queues, DecodeSplits, RunningHoldsKV
    <3>2. ToSet(call.prefill) = {}
      BY <1>2, EmptyQueue DEF IInv, Queues, DecodeSplits
    <3> QED  BY <1>1, <1>3, <1>2, <1>5, <3>1, <3>2 DEF IInv, Tokens, LongEnough
  <2> QED  BY <1>1, <1>2, <1>3, <1>4, <2>1
              DEF IInv, Tokens, WithinMaxNewTokens, TokensLeft, CanGenerate, MidCall
<1>9. RunningHoldsKV' /\ NoRequestLost' /\ WithinMaxNumSeqs'
  BY <1>1, <1>2, <1>4, <1>5
     DEF IInv, RunningHoldsKV, NoRequestLost, WithinMaxNumSeqs, Queued
<1>10. NewIsNowhere'
  BY <1>1, <1>2, <1>4 DEF IInv, TypeOK, NewIsNowhere
<1> QED  BY <1>6, <1>7, <1>8, <1>9, <1>10 DEF IInv

LEMMA DecodePreemptOK == ASSUME IInv, DecodePreempt PROVE IInv'
<1> DEFINE s == Reached
<1>1. /\ Deciding /\ FreeIfRegistered(s) /\ ~IsFinished(s)
      /\ pc' = pc /\ req' = req /\ gen' = gen /\ budget' = budget
      /\ waiting' = waiting /\ running' = running /\ preempted' = Append(preempted, s)
      /\ known' = known /\ state' = [state EXCEPT ![s] = "PREEMPTED"]
      /\ call' = [call EXCEPT !.todo = Tail(call.todo)]
  BY DEF DecodePreempt, PreemptSequence
<1>2. /\ s \in Seqs /\ pc = "decode"
      /\ Tail(call.todo) \in Seq(Seqs) /\ IsInjective(Tail(call.todo))
      /\ ToSet(Tail(call.todo)) = ToSet(call.todo) \ {s}
      /\ Len(Tail(call.todo)) = Len(call.todo) - 1 /\ Len(call.todo) \in Nat
      /\ s \notin ToSet(call.retained) /\ s \in Active
      /\ Active = ToSet(call.todo) \cup ToSet(call.retained)
  BY <1>1, AtHead
<1>3. CanGenerate(s)
  BY <1>1, <1>2, UnfinishedCanGenerate DEF IInv
<1> HIDE DEF s
<1>4. /\ call'.todo = Tail(call.todo) /\ call'.retained = call.retained
      /\ call'.decode = call.decode /\ call'.prefill = call.prefill
  BY <1>1 DEF IInv, TypeOK
<1>5. /\ preempted' \in Seq(Seqs) /\ ToSet(preempted') = ToSet(preempted) \cup {s}
      /\ IsInjective(preempted')
  <2>1. IsInjective(preempted) /\ s \notin ToSet(preempted)
    BY <1>2 DEF IInv, Queues, QueuesDisjoint
  <2> QED  BY <1>1, <1>2, <2>1, AppendedQueue DEF IInv, TypeOK
<1>6. Active' = Active \ {s} /\ Queued' = Queued \cup {s} /\ s \notin Queued
  BY <1>1, <1>2, <1>4, <1>5 DEF Active, Queued, IInv, Queues, QueuesDisjoint
<1>7. /\ KV!Registered' = KV!Registered \ {s}
      /\ KV!Registered' \subseteq Seqs /\ tokens' \in [KV!Registered' -> Nat]
      /\ \A r \in KV!Registered \ {s} : tokens'[r] = tokens[r]
      /\ avail' \in Nat
  BY <1>1, <1>2, FreeEffect DEF IInv
<1>8. TypeOK'
  BY <1>1, <1>2, <1>5, <1>7 DEF IInv, TypeOK, States
<1>9. Queues'
  <2>1. DecodeSplits
    BY DEF IInv, Queues
  <2>2. DecodeSplits'
    <3>1. (Len(call.todo) - 1) + Len(call.retained) <= MaxNumSeqs
      BY <1>1, RoomKept
    <3> QED  BY <1>2, <1>4, <2>1, <3>1 DEF DecodeSplits
  <2>3. QueuesDisjoint'
    BY <1>1, <1>2, <1>5, <1>6 DEF IInv, Queues, QueuesDisjoint, Queued
  <2> QED  BY <1>1, <1>2, <2>2, <2>3
              DEF Queues, RunningIsBatch, PoppedFits, MidCall, Holding
<1>10. Tokens'
  <2>1. LongEnough'
    <3>1. \A r \in ToSet(call.decode) : r \in KV!Registered \ {s}
      BY <1>2 DEF IInv, Queues, DecodeSplits, RunningHoldsKV
    <3>2. ToSet(call.prefill) = {}
      BY <1>2, EmptyQueue DEF IInv, Queues, DecodeSplits
    <3> QED  BY <1>1, <1>2, <1>4, <1>7, <3>1, <3>2 DEF IInv, Tokens, LongEnough
  <2> QED  BY <1>1, <1>2, <1>3, <1>4, <1>6, <2>1
              DEF IInv, Tokens, WithinMaxNewTokens, TokensLeft, CanGenerate, MidCall
<1>11. RunningHoldsKV' /\ NoRequestLost' /\ WithinMaxNumSeqs'
  BY <1>1, <1>2, <1>5, <1>6, <1>7
     DEF IInv, RunningHoldsKV, NoRequestLost, WithinMaxNumSeqs, Queued
<1>12. NewIsNowhere'
  BY <1>1, <1>2, <1>6 DEF IInv, TypeOK, NewIsNowhere
<1> QED  BY <1>8, <1>9, <1>10, <1>11, <1>12 DEF IInv

LEMMA DecodeAppendOK == ASSUME IInv, DecodeAppend PROVE IInv'
<1> DEFINE s == Reached
<1>1. /\ Deciding /\ KV!Grow(s, 1) /\ ~IsFinished(s)
      /\ pc' = pc /\ req' = req /\ gen' = gen /\ budget' = budget
      /\ waiting' = waiting /\ running' = running /\ preempted' = preempted
      /\ known' = known /\ state' = [state EXCEPT ![s] = "DECODE"]
      /\ call' = [call EXCEPT !.todo = Tail(@),
                              !.free = IF NeedsNewBlock(s) THEN @ - 1 ELSE @,
                              !.batched = @ + 1,
                              !.decode = Append(@, s),
                              !.retained = Append(@, s)]
  BY DEF DecodeAppend, queues
<1>2. /\ s \in Seqs /\ pc = "decode"
      /\ Tail(call.todo) \in Seq(Seqs) /\ IsInjective(Tail(call.todo))
      /\ ToSet(Tail(call.todo)) = ToSet(call.todo) \ {s}
      /\ Len(Tail(call.todo)) = Len(call.todo) - 1 /\ Len(call.todo) \in Nat
      /\ s \in ToSet(call.todo) /\ s \notin ToSet(call.retained) /\ s \in Active
      /\ Active = ToSet(call.todo) \cup ToSet(call.retained)
  BY <1>1, AtHead
<1>3. CanGenerate(s)
  BY <1>1, <1>2, UnfinishedCanGenerate DEF IInv
<1> HIDE DEF s
<1>4. /\ call'.todo = Tail(call.todo) /\ call'.retained = Append(call.retained, s)
      /\ call'.decode = Append(call.decode, s) /\ call'.prefill = call.prefill
      /\ call'.popped = call.popped /\ call'.free \in Int /\ call'.batched \in Nat
      /\ call'.argFree = call.argFree /\ call'.argBatched = call.argBatched
  <2>1. call \in [todo : Seq(Seqs), retained : Seq(Seqs), prefill : Seq(Seqs),
                  decode : Seq(Seqs), popped : Seq(Seqs), free : Int,
                  batched : Nat, argFree : Int, argBatched : Nat]
    BY DEF IInv, TypeOK
  <2>2. /\ call'.todo = Tail(call.todo) /\ call'.retained = Append(call.retained, s)
        /\ call'.decode = Append(call.decode, s) /\ call'.prefill = call.prefill
        /\ call'.popped = call.popped
        /\ call'.argFree = call.argFree /\ call'.argBatched = call.argBatched
        /\ call'.free = IF NeedsNewBlock(s) THEN call.free - 1 ELSE call.free
        /\ call'.batched = call.batched + 1
    BY <1>1, <2>1
  <2>3. call.free \in Int /\ call.batched \in Nat
    BY <2>1
  <2> QED  BY <2>2, <2>3
<1>5. /\ call'.retained \in Seq(Seqs) /\ call'.decode \in Seq(Seqs)
      /\ ToSet(call'.retained) = ToSet(call.retained) \cup {s}
      /\ ToSet(call'.decode) = ToSet(call.decode) \cup {s}
      /\ Len(call'.retained) = Len(call.retained) + 1
      /\ IsInjective(call.retained) => IsInjective(call'.retained)
  <2>1. call.retained \in Seq(Seqs) /\ call.decode \in Seq(Seqs)
    BY DEF IInv, TypeOK
  <2>2. /\ Append(call.decode, s) \in Seq(Seqs)
        /\ ToSet(Append(call.decode, s)) = ToSet(call.decode) \cup {s}
    BY <1>2, <2>1, AppendedQueue
  <2>3. /\ Append(call.retained, s) \in Seq(Seqs)
        /\ ToSet(Append(call.retained, s)) = ToSet(call.retained) \cup {s}
        /\ Len(Append(call.retained, s)) = Len(call.retained) + 1
        /\ IsInjective(call.retained) => IsInjective(Append(call.retained, s))
    BY <1>2, <2>1, AppendedQueue
  <2> QED  BY <1>4, <2>2, <2>3
<1>6. Active' = Active /\ Queued' = Queued
  BY <1>1, <1>2, <1>4, <1>5 DEF Active, Queued
<1>7. /\ KV!Registered' = KV!Registered
      /\ KV!Registered' \subseteq Seqs /\ tokens' \in [KV!Registered' -> Nat]
      /\ tokens'[s] >= 1
      /\ \A r \in KV!Registered \ {s} : tokens'[r] = tokens[r]
      /\ avail' \in Nat
  BY <1>1, <1>2, GrowEffect DEF IInv
<1>8. TypeOK'
  <2>1. call' \in [todo : Seq(Seqs), retained : Seq(Seqs), prefill : Seq(Seqs),
                   decode : Seq(Seqs), popped : Seq(Seqs), free : Int,
                   batched : Nat, argFree : Int, argBatched : Nat]
    BY <1>1, <1>2, <1>4, <1>5 DEF IInv, TypeOK
  <2> QED  BY <1>1, <1>2, <1>7, <2>1 DEF IInv, TypeOK, States
<1>9. Queues'
  <2>1. DecodeSplits
    BY DEF IInv, Queues
  <2>2. DecodeSplits'
    <3>1. (Len(call.todo) - 1) + (Len(call.retained) + 1) <= MaxNumSeqs
      BY <1>1, RoomKept
    <3> QED  BY <1>2, <1>4, <1>5, <2>1, <3>1 DEF DecodeSplits
  <2>3. QueuesDisjoint'
    BY <1>1, <1>2, <1>6 DEF IInv, Queues, QueuesDisjoint
  <2> QED  BY <1>1, <1>2, <2>2, <2>3
              DEF Queues, RunningIsBatch, PoppedFits, MidCall, Holding
<1>10. Tokens'
  <2>1. LongEnough'
    <3>1. \A r \in ToSet(call.decode) : r \in KV!Registered \ {s}
      BY <1>2 DEF IInv, Queues, DecodeSplits, RunningHoldsKV
    <3>2. ToSet(call'.prefill) = {}
      BY <1>2, <1>4, EmptyQueue DEF IInv, Queues, DecodeSplits
    <3> QED  BY <1>1, <1>2, <1>4, <1>5, <1>7, <3>1, <3>2 DEF IInv, Tokens, LongEnough
  <2> QED  BY <1>1, <1>2, <1>3, <1>4, <1>5, <1>6, <2>1
              DEF IInv, Tokens, WithinMaxNewTokens, TokensLeft, CanGenerate, MidCall
<1>11. RunningHoldsKV' /\ NoRequestLost' /\ WithinMaxNumSeqs'
  BY <1>1, <1>6, <1>7
     DEF IInv, RunningHoldsKV, NoRequestLost, WithinMaxNumSeqs
<1>12. NewIsNowhere'
  BY <1>1, <1>2, <1>6 DEF IInv, TypeOK, NewIsNowhere
<1> QED  BY <1>8, <1>9, <1>10, <1>11, <1>12 DEF IInv

LEMMA DecodeDoneOK == ASSUME IInv, DecodeDone PROVE IInv'
<1>1. /\ pc = "decode" /\ call.todo = <<>> /\ pc' = "restore"
      /\ req' = req /\ gen' = gen /\ budget' = budget /\ state' = state
      /\ waiting' = waiting /\ running' = call.retained /\ preempted' = preempted
      /\ known' = known /\ avail' = avail /\ tokens' = tokens
      /\ call' = [call EXCEPT !.argFree = call.free, !.argBatched = call.batched]
  BY DEF DecodeDone, native
<1>2. /\ IsInjective(call.retained) /\ call.retained \in Seq(Seqs)
      /\ Len(call.retained) <= MaxNumSeqs
      /\ call.decode = call.retained /\ call.prefill = <<>>
  BY <1>1, EmptyQueue DEF IInv, TypeOK, Queues, DecodeSplits
<1>3. call'.decode = call.decode /\ call'.prefill = <<>>
  BY <1>1, <1>2 DEF IInv, TypeOK
<1>4. /\ Active = ToSet(call.retained) /\ Active' = Active
      /\ KV!Registered' = KV!Registered /\ Queued' = Queued
  BY <1>1, EmptyQueue DEF Active, KV!Registered, Queued
<1>5. TypeOK'
  BY <1>1, <1>2, <1>4 DEF IInv, TypeOK
<1>6. Queues'
  <2>1. running' = call.decode \o <<>>
    BY <1>1, <1>2
  <2> QED  BY <1>1, <1>2, <1>3, <1>4, <2>1
              DEF IInv, Queues, QueuesDisjoint, DecodeSplits, RunningIsBatch,
                  PoppedFits, MidCall, Holding
<1>7. Tokens'
  BY <1>1, <1>2, <1>3, <1>4, EmptyQueue
     DEF IInv, Tokens, WithinMaxNewTokens, TokensLeft, CanGenerate, LongEnough, MidCall
<1>8. RunningHoldsKV' /\ NoRequestLost' /\ NewIsNowhere' /\ WithinMaxNumSeqs'
  BY <1>1, <1>2, <1>4
     DEF IInv, RunningHoldsKV, NoRequestLost, NewIsNowhere, WithinMaxNumSeqs
<1> QED  BY <1>5, <1>6, <1>7, <1>8 DEF IInv

-----------------------------------------------------------------------------
(* Steps that only move pc: leaving a loop, and leaving by an exception *)

LEMMA LoopDoneOK ==
    ASSUME IInv, UNCHANGED <<req, state, gen, queues, known, budget, native, call>>,
           pc \in {"restore", "admit"}, pc' \in {"admit", "batch"}
    PROVE  IInv'
<1>1. /\ req' = req /\ gen' = gen /\ budget' = budget /\ state' = state
      /\ waiting' = waiting /\ running' = running /\ preempted' = preempted
      /\ known' = known /\ avail' = avail /\ tokens' = tokens /\ call' = call
  BY DEF queues, native
<1>2. /\ Active' = Active /\ Queued' = Queued /\ KV!Registered' = KV!Registered
  BY <1>1 DEF Active, Queued, KV!Registered
<1>3. TypeOK' /\ Queues' /\ Tokens'
  BY <1>1, <1>2
     DEF IInv, TypeOK, Queues, QueuesDisjoint, DecodeSplits, RunningIsBatch, PoppedFits,
         Tokens, WithinMaxNewTokens, TokensLeft, CanGenerate, LongEnough, MidCall, Holding
<1>4. RunningHoldsKV' /\ NoRequestLost' /\ NewIsNowhere' /\ WithinMaxNumSeqs'
  BY <1>1, <1>2
     DEF IInv, RunningHoldsKV, NoRequestLost, NewIsNowhere, WithinMaxNumSeqs
<1> QED  BY <1>3, <1>4 DEF IInv

LEMMA RaiseOK ==
    ASSUME IInv, UNCHANGED <<req, state, gen, queues, known, budget, native, call>>,
           pc' = "raised"
    PROVE  IInv'
<1>1. /\ req' = req /\ gen' = gen /\ budget' = budget /\ state' = state
      /\ waiting' = waiting /\ running' = running /\ preempted' = preempted
      /\ known' = known /\ avail' = avail /\ tokens' = tokens /\ call' = call
  BY DEF queues, native
<1>2. TypeOK' /\ WithinMaxNumSeqs' /\ WithinMaxNewTokens'
  BY <1>1 DEF IInv, TypeOK, KV!Registered, WithinMaxNumSeqs, Tokens, WithinMaxNewTokens
<1> QED  BY <1>2
            DEF IInv, Queues, QueuesDisjoint, DecodeSplits, RunningIsBatch, PoppedFits,
                RunningHoldsKV, NoRequestLost, NewIsNowhere, Tokens, TokensLeft,
                LongEnough, MidCall, Holding

-----------------------------------------------------------------------------
(* Restoring and admitting keep the invariant *)

LEMMA SlotLeft ==
    ASSUME IInv, HasSlotFor
    PROVE  Len(running) < MaxNumSeqs
<1>1. Len(running) \in Nat /\ Len(call.prefill) \in Nat
  BY DEF IInv, TypeOK
<1> QED  BY <1>1, SchedulerAssumption DEF HasSlotFor

LEMMA QueuedAreSeqs == TypeOK => Queued \subseteq Seqs
<1>1. \A q \in Seq(Seqs) : ToSet(q) \subseteq Seqs
  BY DEF ToSet
<1> QED  BY <1>1 DEF TypeOK, Queued

\* Once the batch is running_queue, what it holds is registered.
LEMMA BatchIsActive ==
    ASSUME IInv, pc \in MidCall
    PROVE  /\ ToSet(call.prefill) \cup ToSet(call.decode) = ToSet(running)
           /\ ToSet(running) \subseteq KV!Registered
<1>1. /\ running = call.decode \o call.prefill
      /\ call.decode \in Seq(Seqs) /\ call.prefill \in Seq(Seqs)
  BY DEF IInv, TypeOK, Queues, RunningIsBatch
<1>2. ToSet(running) = ToSet(call.decode) \cup ToSet(call.prefill)
  BY <1>1, ConcatenatedQueues
<1>3. ToSet(running) \subseteq Active /\ pc # "raised"
  BY DEF Active, MidCall
<1> QED  BY <1>2, <1>3 DEF IInv, RunningHoldsKV

\* What RestoreRegister and AdmitRegister share: a sequence leaves a queue and
\* is registered.
LEMMA PopOK ==
    ASSUME IInv, pc \in {"restore", "admit"}, pc' \in Holding, HasSlotFor,
           NEW s \in Queued, KV!Register(s),
           UNCHANGED <<req, state, gen, running, known, budget>>,
           call' = [call EXCEPT !.popped = <<s>>],
           waiting' \in Seq(Seqs), IsInjective(waiting'),
           ToSet(waiting') \subseteq ToSet(waiting),
           preempted' \in Seq(Seqs), IsInjective(preempted'),
           ToSet(preempted') \subseteq ToSet(preempted),
           Queued' = Queued \ {s}
    PROVE  IInv'
<1>1. /\ req' = req /\ gen' = gen /\ budget' = budget /\ state' = state
      /\ running' = running /\ known' = known
  OBVIOUS
<1>2. s \in Seqs
  BY QueuedAreSeqs DEF IInv
<1>3. /\ call'.popped = <<s>> /\ call'.decode = call.decode
      /\ call'.prefill = call.prefill
  BY DEF IInv, TypeOK
<1>4. Active = ToSet(running) /\ Active' = Active \cup {s} /\ s \notin Active
  <2>1. s \notin Active
    BY DEF IInv, Queues, QueuesDisjoint, Queued
  <2> QED  BY <1>1, <1>3, <2>1, SingletonQueue DEF Active, Holding
<1>5. /\ KV!Registered' = KV!Registered \cup {s}
      /\ KV!Registered' \subseteq Seqs /\ tokens' \in [KV!Registered' -> Nat]
      /\ \A r \in KV!Registered : tokens'[r] = tokens[r]
      /\ avail' \in Nat
  BY <1>2, RegisterEffect DEF IInv
<1>6. TypeOK'
  <2>1. <<s>> \in Seq(Seqs)
    BY <1>2
  <2>2. call' \in [todo : Seq(Seqs), retained : Seq(Seqs), prefill : Seq(Seqs),
                   decode : Seq(Seqs), popped : Seq(Seqs), free : Int,
                   batched : Nat, argFree : Int, argBatched : Nat]
    BY <2>1 DEF IInv, TypeOK
  <2> QED  BY <1>1, <1>5, <2>2 DEF IInv, TypeOK, Holding
<1>7. Queues'
  <2>1. PoppedFits'
    BY <1>1, <1>2, <1>3, <1>4, SlotLeft DEF PoppedFits
  <2>2. QueuesDisjoint'
    BY <1>1, <1>4 DEF IInv, Queues, QueuesDisjoint, Queued
  <2>3. DecodeSplits' /\ RunningIsBatch'
    BY <1>1, <1>3
       DEF IInv, Queues, DecodeSplits, RunningIsBatch, MidCall, Holding
  <2> QED  BY <2>1, <2>2, <2>3 DEF Queues
<1>8. Tokens'
  <2>1. ToSet(call.prefill) \cup ToSet(call.decode) \subseteq KV!Registered
    BY BatchIsActive DEF MidCall
  <2>2. LongEnough'
    BY <1>1, <1>3, <1>5, <2>1 DEF IInv, Tokens, LongEnough, MidCall
  <2> QED  BY <1>1, <1>4, <2>2
              DEF IInv, Tokens, WithinMaxNewTokens, TokensLeft, CanGenerate,
                  MidCall, Holding
<1>9. RunningHoldsKV' /\ NoRequestLost' /\ WithinMaxNumSeqs'
  BY <1>1, <1>4, <1>5
     DEF IInv, RunningHoldsKV, NoRequestLost, WithinMaxNumSeqs, Queued
<1>10. NewIsNowhere'
  BY <1>1, <1>4 DEF IInv, NewIsNowhere
<1> QED  BY <1>6, <1>7, <1>8, <1>9, <1>10 DEF IInv

LEMMA RestoreRegisterOK == ASSUME IInv, RestoreRegister PROVE IInv'
<1> DEFINE s == Head(preempted)
<1>1. /\ pc = "restore" /\ pc' = "restoring" /\ preempted # <<>> /\ HasSlotFor
      /\ KV!Register(s) /\ UNCHANGED <<req, state, gen, waiting, running, known, budget>>
      /\ preempted' = Tail(preempted) /\ call' = [call EXCEPT !.popped = <<s>>]
  BY DEF RestoreRegister, CanRestore
<1>2. /\ preempted \in Seq(Seqs) /\ IsInjective(preempted)
      /\ waiting \in Seq(Seqs) /\ IsInjective(waiting)
      /\ ToSet(waiting) \cap ToSet(preempted) = {}
  BY <1>1 DEF IInv, TypeOK, Queues, QueuesDisjoint
<1>3. /\ s \in ToSet(preempted) /\ preempted' \in Seq(Seqs)
      /\ IsInjective(preempted') /\ ToSet(preempted') = ToSet(preempted) \ {s}
  BY <1>1, <1>2, TailOfQueue
<1> HIDE DEF s
<1>4. s \in Queued /\ Queued' = Queued \ {s}
  BY <1>1, <1>2, <1>3 DEF Queued
<1> QED  BY <1>1, <1>2, <1>3, <1>4, PopOK DEF Holding

LEMMA AdmitRegisterOK == ASSUME IInv, AdmitRegister PROVE IInv'
<1> DEFINE s == Head(waiting)
<1>1. /\ pc = "admit" /\ pc' = "admitting" /\ waiting # <<>> /\ HasSlotFor
      /\ KV!Register(s)
      /\ UNCHANGED <<req, state, gen, running, preempted, known, budget>>
      /\ waiting' = Tail(waiting) /\ call' = [call EXCEPT !.popped = <<s>>]
  BY DEF AdmitRegister, CanAdmit
<1>2. /\ preempted \in Seq(Seqs) /\ IsInjective(preempted)
      /\ waiting \in Seq(Seqs) /\ IsInjective(waiting)
      /\ ToSet(waiting) \cap ToSet(preempted) = {}
  BY <1>1 DEF IInv, TypeOK, Queues, QueuesDisjoint
<1>3. /\ s \in ToSet(waiting) /\ waiting' \in Seq(Seqs)
      /\ IsInjective(waiting') /\ ToSet(waiting') = ToSet(waiting) \ {s}
  BY <1>1, <1>2, TailOfQueue
<1> HIDE DEF s
<1>4. s \in Queued /\ Queued' = Queued \ {s}
  BY <1>1, <1>2, <1>3 DEF Queued
<1> QED  BY <1>1, <1>2, <1>3, <1>4, PopOK DEF Holding

LEMMA AppendToConcatenation ==
    \A p, q \in Seq(Seqs), x \in Seqs : Append(p \o q, x) = p \o Append(q, x)
  OBVIOUS

\* What RestoreAppend and AdmitAppend share: the popped sequence has grown
\* to at least its prompt and has entered running_queue and the batch.
LEMMA PromoteOK ==
    ASSUME IInv, pc \in Holding, pc' \in {"restore", "admit"},
           NEW s \in Seqs, call.popped = <<s>>,
           NEW n \in Nat, n >= req[s].prompt, KV!Grow(s, n), Promote(s),
           UNCHANGED <<req, gen, waiting, preempted, known, budget>>,
           call'.decode = call.decode, call'.prefill = Append(call.prefill, s),
           call' \in [todo : Seq(Seqs), retained : Seq(Seqs), prefill : Seq(Seqs),
                      decode : Seq(Seqs), popped : Seq(Seqs), free : Int,
                      batched : Nat, argFree : Int, argBatched : Nat]
    PROVE  IInv'
<1>1. /\ req' = req /\ gen' = gen /\ waiting' = waiting /\ preempted' = preempted
      /\ known' = known /\ budget' = budget
      /\ state' = [state EXCEPT ![s] = "PREFILL"] /\ running' = Append(running, s)
  BY DEF Promote
<1>2. s \notin ToSet(running) /\ Len(running) < MaxNumSeqs /\ IsInjective(running)
      /\ running \in Seq(Seqs)
  <2>1. \E r \in Seqs : call.popped = <<r>> /\ r \notin ToSet(running)
    BY DEF IInv, Queues, PoppedFits
  <2>2. \A r \in Seqs : <<r>> = <<s>> => r = s
    OBVIOUS
  <2>3. s \notin ToSet(running)
    BY <2>1, <2>2
  <2> QED  BY <2>3
              DEF IInv, TypeOK, Queues, QueuesDisjoint, PoppedFits, Holding
<1>3. /\ running' \in Seq(Seqs) /\ IsInjective(running')
      /\ ToSet(running') = ToSet(running) \cup {s} /\ Len(running') = Len(running) + 1
  <2>1. /\ Append(running, s) \in Seq(Seqs) /\ IsInjective(Append(running, s))
        /\ ToSet(Append(running, s)) = ToSet(running) \cup {s}
        /\ Len(Append(running, s)) = Len(running) + 1
    BY <1>2, AppendedQueue
  <2> QED  BY <1>1, <2>1
<1>4. ToSet(call'.prefill) = ToSet(call.prefill) \cup {s}
  <2>1. call.prefill \in Seq(Seqs)
    BY DEF IInv, TypeOK
  <2>2. ToSet(Append(call.prefill, s)) = ToSet(call.prefill) \cup {s}
    BY <2>1, AppendedQueue
  <2> QED  BY <2>2
<1>5. Active = ToSet(running) \cup {s} /\ Active' = Active /\ Queued' = Queued
  BY <1>1, <1>3, SingletonQueue DEF Active, Holding, Queued
<1>6. /\ KV!Registered' = KV!Registered
      /\ KV!Registered' \subseteq Seqs /\ tokens' \in [KV!Registered' -> Nat]
      /\ tokens'[s] = tokens[s] + n /\ tokens[s] \in Nat
      /\ \A r \in KV!Registered \ {s} : tokens'[r] = tokens[r]
      /\ avail' \in Nat
  BY GrowEffect DEF IInv
<1>7. TypeOK'
  BY <1>1, <1>3, <1>6 DEF IInv, TypeOK, States
<1>8. Queues'
  <2>1. running' = call'.decode \o call'.prefill
    <3>1. call.decode \in Seq(Seqs) /\ call.prefill \in Seq(Seqs)
      BY DEF IInv, TypeOK
    <3>2. running = call.decode \o call.prefill
      BY DEF IInv, Queues, RunningIsBatch, Holding, MidCall
    <3>3. Append(call.decode \o call.prefill, s) = call.decode \o Append(call.prefill, s)
      BY <3>1, AppendToConcatenation, Zenon
    <3> QED  BY <1>1, <3>2, <3>3
  <2> QED  BY <1>1, <1>3, <1>5, <2>1
              DEF IInv, Queues, QueuesDisjoint, DecodeSplits, RunningIsBatch,
                  PoppedFits, Holding, MidCall
<1>9. Tokens'
  <2>1. ToSet(call.prefill) \cup ToSet(call.decode) = ToSet(running)
    BY BatchIsActive DEF Holding, MidCall
  <2>2. ToSet(running) \subseteq KV!Registered \ {s}
    BY <1>2, BatchIsActive DEF Holding, MidCall
  <2>3. req[s].prompt \in Nat
    BY RequestsAreNat DEF IInv
  <2>4. tokens'[s] >= req[s].prompt
    <3>1. \A m, k, p \in Nat : k >= p => m + k >= p
      OBVIOUS
    <3>2. tokens[s] + n >= req[s].prompt
      BY <1>6, <2>3, <3>1
    <3> QED  BY <1>6, <3>2
  <2>5. LongEnough'
    BY <1>1, <1>4, <1>6, <2>1, <2>2, <2>4 DEF IInv, Tokens, LongEnough, Holding, MidCall
  <2> QED  BY <1>1, <1>5, <2>5
              DEF IInv, Tokens, WithinMaxNewTokens, TokensLeft, CanGenerate,
                  Holding, MidCall
<1>10. WithinMaxNumSeqs'
  <2>1. \A a, b \in Int : a < b => a + 1 <= b
    OBVIOUS
  <2>2. Len(running) \in Int /\ MaxNumSeqs \in Int /\ Len(running) < MaxNumSeqs
    BY <1>2, SchedulerAssumption
  <2> QED  BY <1>3, <2>1, <2>2 DEF WithinMaxNumSeqs
<1>11. RunningHoldsKV' /\ NoRequestLost'
  BY <1>1, <1>5, <1>6 DEF IInv, RunningHoldsKV, NoRequestLost, Holding
<1>12. NewIsNowhere'
  BY <1>1, <1>5 DEF IInv, TypeOK, NewIsNowhere, Holding
<1> QED  BY <1>7, <1>8, <1>9, <1>10, <1>11, <1>12 DEF IInv

LEMMA BlocksAreInt ==
    ASSUME TypeOK, NEW s \in Seqs
    PROVE  /\ req[s].prompt \in Nat /\ TotalLen(s) \in Nat /\ RequiredBlocks(s) \in Nat
           /\ TotalLen(s) >= req[s].prompt
<1>1. gen[s] \in Nat /\ req[s].prompt \in Nat
  BY RequestsAreNat
<1>2. TotalLen(s) \in Nat /\ TotalLen(s) >= req[s].prompt
  BY <1>1 DEF TotalLen
<1> QED  BY <1>1, <1>2, BlocksAreNat DEF RequiredBlocks

LEMMA PoppedHead ==
    ASSUME IInv, pc \in Holding
    PROVE  Head(call.popped) \in Seqs /\ call.popped = <<Head(call.popped)>>
<1>1. PICK s \in Seqs : call.popped = <<s>>
  BY DEF IInv, Queues, PoppedFits
<1> QED  BY <1>1, SingletonQueue

LEMMA RestoreAppendOK == ASSUME IInv, RestoreAppend PROVE IInv'
<1> DEFINE s == Head(call.popped)
<1>1. /\ pc = "restoring" /\ pc' = "restore" /\ KV!Grow(s, TotalLen(s)) /\ Promote(s)
      /\ UNCHANGED <<req, gen, waiting, preempted, known, budget>>
      /\ call' = [call EXCEPT !.popped = <<>>,
                              !.prefill = Append(@, s),
                              !.argFree = @ - RequiredBlocks(s),
                              !.argBatched = @ + TotalLen(s)]
  BY DEF RestoreAppend
<1>2. s \in Seqs /\ call.popped = <<s>>
  BY <1>1, PoppedHead DEF Holding
<1> HIDE DEF s
<1>3. /\ TotalLen(s) \in Nat /\ TotalLen(s) >= req[s].prompt
      /\ RequiredBlocks(s) \in Nat
  BY <1>2, BlocksAreInt DEF IInv
<1>4. /\ call'.decode = call.decode /\ call'.prefill = Append(call.prefill, s)
      /\ call' \in [todo : Seq(Seqs), retained : Seq(Seqs), prefill : Seq(Seqs),
                     decode : Seq(Seqs), popped : Seq(Seqs), free : Int,
                     batched : Nat, argFree : Int, argBatched : Nat]
  <2>1. Append(call.prefill, s) \in Seq(Seqs) /\ <<>> \in Seq(Seqs)
    BY <1>2, AppendedQueue DEF IInv, TypeOK
  <2>2. TypeOK
    BY DEF IInv
  <2>3. /\ call'.prefill = Append(call.prefill, s) /\ call'.popped = <<>>
        /\ call'.argFree = call.argFree - RequiredBlocks(s)
        /\ call'.argBatched = call.argBatched + TotalLen(s)
        /\ call'.decode = call.decode
    BY <1>1, <2>2 DEF TypeOK
  <2>4. call.argFree - RequiredBlocks(s) \in Int /\ call.argBatched + TotalLen(s) \in Nat
    <3>1. call.argFree \in Int /\ call.argBatched \in Nat
      BY <2>2 DEF TypeOK
    <3> QED  BY <1>3, <3>1
  <2> QED  BY <1>1, <2>1, <2>2, <2>3, <2>4 DEF TypeOK
<1> QED  BY <1>1, <1>2, <1>3, <1>4, PromoteOK DEF Holding

LEMMA AdmitAppendOK == ASSUME IInv, AdmitAppend PROVE IInv'
<1> DEFINE s == Head(call.popped)
<1>1. /\ pc = "admitting" /\ pc' = "admit" /\ KV!Grow(s, req[s].prompt) /\ Promote(s)
      /\ UNCHANGED <<req, gen, waiting, preempted, known, budget>>
      /\ call' = [call EXCEPT !.popped = <<>>,
                              !.prefill = Append(@, s),
                              !.free = @ - RequiredBlocks(s),
                              !.batched = @ + req[s].prompt]
  BY DEF AdmitAppend
<1>2. s \in Seqs /\ call.popped = <<s>>
  BY <1>1, PoppedHead DEF Holding
<1> HIDE DEF s
<1>3. req[s].prompt \in Nat /\ req[s].prompt >= req[s].prompt /\ RequiredBlocks(s) \in Nat
  BY <1>2, BlocksAreInt DEF IInv
<1>4. /\ call'.decode = call.decode /\ call'.prefill = Append(call.prefill, s)
      /\ call' \in [todo : Seq(Seqs), retained : Seq(Seqs), prefill : Seq(Seqs),
                     decode : Seq(Seqs), popped : Seq(Seqs), free : Int,
                     batched : Nat, argFree : Int, argBatched : Nat]
  <2>1. Append(call.prefill, s) \in Seq(Seqs) /\ <<>> \in Seq(Seqs)
    BY <1>2, AppendedQueue DEF IInv, TypeOK
  <2>2. TypeOK
    BY DEF IInv
  <2>3. /\ call'.prefill = Append(call.prefill, s) /\ call'.popped = <<>>
        /\ call'.free = call.free - RequiredBlocks(s)
        /\ call'.batched = call.batched + req[s].prompt
        /\ call'.decode = call.decode
    BY <1>1, <2>2 DEF TypeOK
  <2>4. call.free - RequiredBlocks(s) \in Int /\ call.batched + req[s].prompt \in Nat
    <3>1. call.free \in Int /\ call.batched \in Nat
      BY <2>2 DEF TypeOK
    <3> QED  BY <1>3, <3>1
  <2> QED  BY <1>1, <2>1, <2>2, <2>3, <2>4 DEF TypeOK
<1> QED  BY <1>1, <1>2, <1>3, <1>4, PromoteOK DEF Holding

-----------------------------------------------------------------------------
(* The caller *)

LEMMA CallerDoneOK ==
    ASSUME IInv, NEW sampled \in SUBSET Batch, NEW b \in Budgets \cup {budget},
           CallerDone(sampled, b)
    PROVE  IInv'
<1>1. /\ pc = "batch" /\ pc' = "idle" /\ req' = req /\ state' = state
      /\ waiting' = waiting /\ running' = running /\ preempted' = preempted
      /\ known' = known /\ avail' = avail /\ tokens' = tokens
      /\ budget' = b /\ call' = Locals(0)
      /\ gen' = [s \in Seqs |-> IF s \in sampled THEN gen[s] + 1 ELSE gen[s]]
  BY DEF CallerDone, queues, native
<1>2. /\ Active = ToSet(running) /\ Active' = Active /\ Queued' = Queued
      /\ KV!Registered' = KV!Registered
  BY <1>1 DEF Active, Queued, KV!Registered
<1>3. sampled \subseteq Active
  BY <1>1, <1>2, BatchIsActive DEF Batch, MidCall
<1>4. \A s \in Seqs : gen[s] \in Nat /\ req[s].maxNew \in Nat
  BY RequestsAreNat DEF IInv
<1>5. TypeOK'
  <2>1. gen' \in [Seqs -> Nat]
    BY <1>1, <1>4
  <2>2. Locals(0) \in [todo : Seq(Seqs), retained : Seq(Seqs), prefill : Seq(Seqs),
                       decode : Seq(Seqs), popped : Seq(Seqs), free : Int,
                       batched : Nat, argFree : Int, argBatched : Nat]
    BY DEF Locals
  <2>3. b \in Nat
    BY SchedulerAssumption DEF IInv, TypeOK
  <2> QED  BY <1>1, <1>2, <2>1, <2>2, <2>3 DEF IInv, TypeOK
<1>6. Queues' /\ WithinMaxNumSeqs'
  BY <1>1, <1>2
     DEF IInv, Queues, QueuesDisjoint, DecodeSplits, RunningIsBatch, PoppedFits,
         MidCall, Holding, WithinMaxNumSeqs
<1>7. Tokens'
  <2>1. WithinMaxNewTokens'
    <3> SUFFICES ASSUME NEW s \in Seqs
                 PROVE  gen'[s] <= req[s].maxNew \/ gen'[s] = 1
      BY <1>1 DEF WithinMaxNewTokens
    <3>1. CASE s \in sampled
      <4>1. gen'[s] = gen[s] + 1 /\ CanGenerate(s)
        BY <1>1, <1>3, <3>1 DEF IInv, Tokens, TokensLeft, MidCall
      <4> QED  BY <1>4, <4>1 DEF CanGenerate
    <3>2. CASE s \notin sampled
      BY <1>1, <3>2 DEF IInv, Tokens, WithinMaxNewTokens
    <3> QED  BY <3>1, <3>2
  <2>2. TokensLeft'
    <3>1. \A s \in Queued : gen'[s] = gen[s]
      <4>1. Queued \subseteq Seqs
        BY QueuedAreSeqs DEF IInv
      <4>2. Queued \cap Active = {}
        BY <1>1 DEF IInv, Queues, QueuesDisjoint, Queued
      <4> QED  BY <1>1, <1>3, <4>1, <4>2
    <3> QED  BY <1>1, <1>2, <3>1 DEF IInv, Tokens, TokensLeft, CanGenerate, MidCall
  <2> QED  BY <1>1, <2>1, <2>2 DEF Tokens, LongEnough, MidCall
<1>8. RunningHoldsKV' /\ NoRequestLost'
  BY <1>1, <1>2 DEF IInv, RunningHoldsKV, NoRequestLost
<1>9. NewIsNowhere'
  BY <1>1, <1>2, <1>3 DEF IInv, NewIsNowhere
<1> QED  BY <1>5, <1>6, <1>7, <1>8, <1>9 DEF IInv

-----------------------------------------------------------------------------
(* The theorems *)

LEMMA StepOK == IInv /\ [Next]_vars => IInv'
<1> SUFFICES ASSUME IInv, [Next]_vars PROVE IInv'
  OBVIOUS
<1>1. CASE UNCHANGED vars
  <2>1. /\ req' = req /\ gen' = gen /\ budget' = budget /\ state' = state
        /\ waiting' = waiting /\ running' = running /\ preempted' = preempted
        /\ known' = known /\ avail' = avail /\ tokens' = tokens /\ call' = call
        /\ pc' = pc
    BY <1>1 DEF vars, queues, native
  <2>2. /\ Active' = Active /\ Queued' = Queued /\ KV!Registered' = KV!Registered
    BY <2>1 DEF Active, Queued, KV!Registered
  <2> QED  BY <2>1, <2>2
              DEF IInv, TypeOK, Queues, QueuesDisjoint, DecodeSplits, RunningIsBatch,
                  PoppedFits, Tokens, WithinMaxNewTokens, TokensLeft, CanGenerate,
                  LongEnough, RunningHoldsKV, NoRequestLost, NewIsNowhere,
                  WithinMaxNumSeqs
<1>2. CASE \E s \in Seqs : AddSequence(s)
  BY <1>2, AddSequenceOK
<1>3. CASE \E s \in Seqs : FinishSequence(s)
  BY <1>3, FinishSequenceOK
<1>4. CASE Begin \/ DecodeFinished \/ DecodePreempt \/ DecodeAppend \/ DecodeDone
  BY <1>4, BeginOK, DecodeFinishedOK, DecodePreemptOK, DecodeAppendOK, DecodeDoneOK
<1>5. CASE RestoreRegister \/ RestoreAppend \/ AdmitRegister \/ AdmitAppend
  BY <1>5, RestoreRegisterOK, RestoreAppendOK, AdmitRegisterOK, AdmitAppendOK
<1>6. CASE DecodeRaise \/ RestoreRaise \/ AdmitRaise
  BY <1>6, RaiseOK DEF DecodeRaise, RestoreRaise, AdmitRaise
<1>7. CASE RestoreDone \/ AdmitDone
  BY <1>7, LoopDoneOK DEF RestoreDone, AdmitDone
<1>8. CASE Caller
  BY <1>8, CallerDoneOK DEF Caller
<1> QED
  BY <1>1, <1>2, <1>3, <1>4, <1>5, <1>6, <1>7, <1>8 DEF Next, ScheduleStep, Client

THEOREM Invariance == Spec => []IInv
  BY InitOK, StepOK, PTL DEF Spec

\* The state of the scheduler is well typed; in particular the pool never has
\* a negative number of free blocks, whatever the scheduler's own counters say.
THEOREM TypeCorrect == Spec => []TypeOK
<1>1. IInv => TypeOK
  BY DEF IInv
<1> QED  BY <1>1, Invariance, PTL

\* Exactly the running sequences hold KV blocks, at every step of schedule()
\* and whatever the clients add, cancel and generate: nothing leaks.
THEOREM NoLeak == Spec => []RunningHoldsKV
<1>1. IInv => RunningHoldsKV
  BY DEF IInv
<1> QED  BY <1>1, Invariance, PTL

\* A sequence is never in two queues, or twice in one.
THEOREM Disjointness == Spec => []QueuesDisjoint
<1>1. IInv => QueuesDisjoint
  BY DEF IInv, Queues
<1> QED  BY <1>1, Invariance, PTL

\* A sequence that sequence_map knows can still be scheduled.
THEOREM NothingLost == Spec => []NoRequestLost
<1>1. IInv => NoRequestLost
  BY DEF IInv
<1> QED  BY <1>1, Invariance, PTL

\* max_num_seqs bounds running_queue.
THEOREM BatchWidth == Spec => []WithinMaxNumSeqs
<1>1. IInv => WithinMaxNumSeqs
  BY DEF IInv
<1> QED  BY <1>1, Invariance, PTL

\* max_new_tokens bounds what a sequence generates, but for the first token.
THEOREM GeneratedTokens == Spec => []WithinMaxNewTokens
<1>1. IInv => WithinMaxNewTokens
  BY DEF IInv, Tokens
<1> QED  BY <1>1, Invariance, PTL

\* The batch schedule() returns can be executed.
THEOREM Runnable == Spec => []BatchIsRunnable
<1>1. IInv => BatchIsRunnable
  <2> SUFFICES ASSUME IInv, pc = "batch" PROVE BatchIsRunnable
    BY DEF BatchIsRunnable
  <2>1. /\ call.decode \in Seq(Seqs) /\ call.prefill \in Seq(Seqs)
        /\ IsInjective(call.decode \o call.prefill)
    BY DEF IInv, TypeOK, Queues, QueuesDisjoint, RunningIsBatch, MidCall
  <2>2. /\ IsInjective(call.decode) /\ IsInjective(call.prefill)
        /\ ToSet(call.decode) \cap ToSet(call.prefill) = {}
    BY <2>1, ConcatenatedQueues
  <2>3. IsInjective(call.prefill \o call.decode)
    BY <2>1, <2>2, ConcatenatedQueues
  <2>4. Batch \subseteq KV!Registered
    BY BatchIsActive DEF Batch, MidCall
  <2>5. WithinMaxNumSeqs
    BY DEF IInv
  <2> QED  BY <2>3, <2>4, <2>5 DEF IInv, Tokens, LongEnough, BatchIsRunnable, MidCall
<1> QED  BY <1>1, Invariance, PTL

-----------------------------------------------------------------------------
(* The tuner stays between its bounds *)

TuneOK == tuned \in MinBudget .. MaxBudget

\* Neither scaling leaves the interval, whatever the bounds are.
LEMMA ScalingStaysInside ==
    ASSUME NEW b \in MinBudget .. MaxBudget
    PROVE  ScaledUp(b) \in MinBudget .. MaxBudget /\ ScaledDown(b) \in MinBudget .. MaxBudget
<1>1. MinBudget \in Nat /\ MaxBudget \in Int /\ b \in Nat
  BY TunerAssumption
<1>2. (b * 5) \div 4 \in Int /\ (b * 5) \div 4 >= b
  BY <1>1
<1>3. (b * 4) \div 5 \in Int /\ (b * 4) \div 5 <= b
  BY <1>1
<1>4. ScaledUp(b) \in MinBudget .. MaxBudget
  BY <1>1, <1>2 DEF ScaledUp
<1>5. ScaledDown(b) \in MinBudget .. MaxBudget
  BY <1>1, <1>3 DEF ScaledDown
<1> QED  BY <1>4, <1>5

LEMMA TuneStep == TuneOK /\ [PNext]_pipelineVars => TuneOK'
<1> SUFFICES ASSUME TuneOK, [PNext]_pipelineVars PROVE TuneOK'
  OBVIOUS
<1>1. CASE UpdateBudget
  BY <1>1, ScalingStaysInside DEF UpdateBudget, TuneOK
<1>2. CASE UNCHANGED tuner
  BY <1>2 DEF tuner, TuneOK
<1> QED  BY <1>1, <1>2
            DEF PNext, Engine, ExecuteBatch, ExecuteNothing, KeepRegistered, pipelineVars

\* The token budget the tuner hands to the scheduler is between its bounds
\* after any number of adjustments.
THEOREM TunerBounds == PSpec => []TuneOK
<1>1. PInit => TuneOK
  BY TunerAssumption DEF PInit, TuneOK
<1> QED  BY <1>1, TuneStep, PTL DEF PSpec

-----------------------------------------------------------------------------
(* The pipeline is a caller the scheduler allows for *)

LEMMA PipelineStep == TuneOK /\ [PNext]_pipelineVars => [Next]_vars
<1> SUFFICES ASSUME TuneOK, [PNext]_pipelineVars PROVE [Next]_vars
  OBVIOUS
<1>1. ASSUME ExecuteNothing PROVE Caller
  BY <1>1 DEF ExecuteNothing, Caller
<1>2. ASSUME ExecuteBatch PROVE Caller
  <2>1. tuned' \in Budgets
    BY TuneStep, TunerAssumption DEF TuneOK
  <2> QED  BY <1>2, <2>1 DEF ExecuteBatch, Caller
<1> QED  BY <1>1, <1>2 DEF PNext, Engine, Next, pipelineVars

\* The execution pipeline uses the scheduler as any caller may: it samples
\* tokens for sequences of the batch only, and changes nothing of the
\* scheduler's but the budget.
THEOREM PipelineImplementsScheduler == PSpec => Spec
<1>1. PInit => Init /\ TuneOK
  BY TunerAssumption DEF PInit, TuneOK
<1> QED  BY <1>1, TuneStep, PipelineStep, PTL DEF PSpec, Spec

\* So the pipeline leaks no KV block either, preempted, cancelled and finished
\* sequences included.
COROLLARY PipelineNoLeak == PSpec => []RunningHoldsKV
  BY PipelineImplementsScheduler, NoLeak, PTL

-----------------------------------------------------------------------------
(* The page table lags one token behind the sequence *)

Lags(s) == tokens[s] = TotalLen(s) - 1
CaughtUp(s) == tokens[s] = TotalLen(s)

\* The decode loop catches up one sequence after the other, and what is
\* restored or admitted joins them.
Lag ==
    /\ pc # "raised" => \A s \in ToSet(waiting) : gen[s] = 0
    /\ pc = "idle" => \A s \in ToSet(running) : Lags(s)
    /\ pc = "decode" => /\ \A s \in ToSet(call.todo) : Lags(s)
                        /\ \A s \in ToSet(call.retained) : CaughtUp(s)
    /\ pc \in MidCall => \A s \in ToSet(running) : CaughtUp(s)
    /\ pc \in Holding => \A s \in ToSet(call.popped) : tokens[s] = 0
    /\ pc = "admitting" => \A s \in ToSet(call.popped) : gen[s] = 0

LEMMA LagInit == PInit => Lag
  BY EmptyQueue DEF PInit, Init, Lag, MidCall, Holding

LEMMA LagAddSequence ==
    ASSUME IInv, Lag, NEW s \in Seqs, AddSequence(s)
    PROVE  Lag'
<1>1. /\ pc = "idle" /\ pc' = pc /\ req' = req /\ gen' = gen /\ tokens' = tokens
      /\ running' = running /\ waiting' = Append(waiting, s) /\ state[s] = "NEW"
  BY DEF AddSequence, native
<1>2. gen[s] = 0 /\ s \notin ToSet(waiting)
  BY <1>1 DEF IInv, NewIsNowhere, Queued
<1>3. ToSet(waiting') = ToSet(waiting) \cup {s}
  BY <1>1, <1>2, AppendedQueue DEF IInv, TypeOK
<1> QED  BY <1>1, <1>2, <1>3 DEF Lag, Lags, TotalLen, MidCall, Holding

LEMMA LagFinishSequence ==
    ASSUME IInv, Lag, NEW s \in Seqs, FinishSequence(s)
    PROVE  Lag'
<1>1. /\ pc = "idle" /\ pc' = pc /\ req' = req /\ gen' = gen /\ FreeIfRegistered(s)
      /\ running' = Dropped(running, s) /\ waiting' = Dropped(waiting, s)
  BY DEF FinishSequence, FreeSequenceResources
<1>2. IsInjective(waiting) /\ IsInjective(running)
  BY <1>1 DEF IInv, Queues, QueuesDisjoint
<1>3. ToSet(waiting') = ToSet(waiting) \ {s} /\ ToSet(running') = ToSet(running) \ {s}
  BY <1>1, <1>2, DroppedFromQueue DEF IInv, TypeOK
<1>4. \A r \in KV!Registered \ {s} : tokens'[r] = tokens[r]
  BY <1>1, FreeEffect DEF IInv
<1>5. ToSet(running) = KV!Registered
  BY <1>1 DEF IInv, RunningHoldsKV, Active
<1> QED  BY <1>1, <1>3, <1>4, <1>5 DEF Lag, Lags, TotalLen, MidCall, Holding

LEMMA LagBegin == ASSUME IInv, Lag, Begin PROVE Lag'
<1>1. /\ pc = "idle" /\ pc' = "decode" /\ req' = req /\ gen' = gen
      /\ tokens' = tokens /\ waiting' = waiting
  BY DEF Begin, queues, native
<1>2. call'.todo = running /\ call'.retained = <<>>
  BY DEF Begin, Locals
<1> QED  BY <1>1, <1>2, EmptyQueue DEF Lag, Lags, TotalLen, MidCall, Holding

\* DecodeFinished and DecodePreempt free the sequence and go on.
LEMMA LagDecodeFree ==
    ASSUME IInv, Lag, DecodeFinished \/ DecodePreempt
    PROVE  Lag'
<1> DEFINE s == Reached
<1>1. /\ Deciding /\ FreeIfRegistered(s) /\ pc' = pc /\ req' = req /\ gen' = gen
      /\ waiting' = waiting /\ call' = [call EXCEPT !.todo = Tail(call.todo)]
  BY DEF DecodeFinished, DecodePreempt, FreeSequenceResources, PreemptSequence, queues
<1>2. /\ s \in Seqs /\ pc = "decode"
      /\ ToSet(Tail(call.todo)) = ToSet(call.todo) \ {s}
      /\ s \notin ToSet(call.retained)
      /\ Active = ToSet(call.todo) \cup ToSet(call.retained)
  BY <1>1, AtHead
<1> HIDE DEF s
<1>3. call'.todo = Tail(call.todo) /\ call'.retained = call.retained
  BY <1>1 DEF IInv, TypeOK
<1>4. \A r \in KV!Registered \ {s} : tokens'[r] = tokens[r]
  BY <1>1, <1>2, FreeEffect DEF IInv
<1>5. Active = KV!Registered
  BY <1>2 DEF IInv, RunningHoldsKV
<1> QED  BY <1>1, <1>2, <1>3, <1>4, <1>5
            DEF Lag, Lags, CaughtUp, TotalLen, MidCall, Holding

LEMMA LagDecodeAppend == ASSUME IInv, Lag, DecodeAppend PROVE Lag'
<1> DEFINE s == Reached
<1>1. /\ Deciding /\ KV!Grow(s, 1) /\ pc' = pc /\ req' = req /\ gen' = gen
      /\ waiting' = waiting
      /\ call' = [call EXCEPT !.todo = Tail(@),
                              !.free = IF NeedsNewBlock(s) THEN @ - 1 ELSE @,
                              !.batched = @ + 1,
                              !.decode = Append(@, s),
                              !.retained = Append(@, s)]
  BY DEF DecodeAppend, queues
<1>2. /\ s \in Seqs /\ pc = "decode" /\ s \in ToSet(call.todo)
      /\ ToSet(Tail(call.todo)) = ToSet(call.todo) \ {s}
      /\ s \notin ToSet(call.retained)
      /\ Active = ToSet(call.todo) \cup ToSet(call.retained)
  BY <1>1, AtHead
<1> HIDE DEF s
<1>3. call'.todo = Tail(call.todo) /\ call'.retained = Append(call.retained, s)
  BY <1>1 DEF IInv, TypeOK
<1>4. ToSet(call'.retained) = ToSet(call.retained) \cup {s}
  BY <1>2, <1>3, AppendedQueue DEF IInv, TypeOK
<1>5. /\ \A r \in KV!Registered \ {s} : tokens'[r] = tokens[r]
      /\ tokens'[s] = tokens[s] + 1 /\ tokens[s] \in Nat
  BY <1>1, <1>2, GrowEffect DEF IInv
<1>6. Active = KV!Registered
  BY <1>2 DEF IInv, RunningHoldsKV
<1>7. tokens'[s] = TotalLen(s)
  <2>1. tokens[s] = TotalLen(s) - 1 /\ TotalLen(s) \in Nat
    BY <1>2, BlocksAreInt DEF Lag, Lags, IInv
  <2> QED  BY <1>5, <2>1
<1> QED  BY <1>1, <1>2, <1>3, <1>4, <1>5, <1>6, <1>7
            DEF Lag, Lags, CaughtUp, TotalLen, MidCall, Holding

LEMMA LagDecodeDone == ASSUME IInv, Lag, DecodeDone PROVE Lag'
<1>1. /\ pc = "decode" /\ pc' = "restore" /\ req' = req /\ gen' = gen
      /\ tokens' = tokens /\ waiting' = waiting /\ running' = call.retained
  BY DEF DecodeDone, native
<1> QED  BY <1>1 DEF Lag, CaughtUp, TotalLen, MidCall, Holding

LEMMA LagRegister ==
    ASSUME IInv, Lag, RestoreRegister \/ AdmitRegister
    PROVE  Lag'
<1> DEFINE s == IF pc = "restore" THEN Head(preempted) ELSE Head(waiting)
<1>1. /\ pc \in {"restore", "admit"} /\ KV!Register(s) /\ req' = req /\ gen' = gen
      /\ running' = running /\ call' = [call EXCEPT !.popped = <<s>>]
      /\ \/ /\ pc = "restore" /\ pc' = "restoring" /\ preempted # <<>>
            /\ waiting' = waiting
         \/ /\ pc = "admit" /\ pc' = "admitting" /\ waiting # <<>>
            /\ waiting' = Tail(waiting)
  BY DEF RestoreRegister, AdmitRegister, CanRestore, CanAdmit
<1>2. s \in Seqs /\ (pc = "admit" => s \in ToSet(waiting))
  BY <1>1, TailOfQueue DEF IInv, TypeOK
<1>3. ToSet(waiting') \subseteq ToSet(waiting)
  BY <1>1, TailOfQueue DEF IInv, TypeOK
<1> HIDE DEF s
<1>4. ToSet(call'.popped) = {s}
  BY <1>1, SingletonQueue DEF IInv, TypeOK
<1>5. tokens'[s] = 0 /\ \A r \in KV!Registered : tokens'[r] = tokens[r]
  BY <1>1 DEF KV!Register, KV!Registered
<1>6. ToSet(running) \subseteq KV!Registered
  BY <1>1, BatchIsActive DEF MidCall
<1> QED  BY <1>1, <1>2, <1>3, <1>4, <1>5, <1>6
            DEF Lag, CaughtUp, TotalLen, MidCall, Holding

LEMMA LagPromote ==
    ASSUME IInv, Lag, RestoreAppend \/ AdmitAppend
    PROVE  Lag'
<1> DEFINE s == Head(call.popped)
<1>1. /\ pc \in Holding /\ pc' \in {"restore", "admit"} /\ req' = req /\ gen' = gen
      /\ waiting' = waiting /\ running' = Append(running, s)
      /\ \/ KV!Grow(s, TotalLen(s))
         \/ pc = "admitting" /\ KV!Grow(s, req[s].prompt)
  BY DEF RestoreAppend, AdmitAppend, Promote, Holding
<1>2. s \in Seqs /\ call.popped = <<s>>
  BY <1>1, PoppedHead
<1> HIDE DEF s
<1>3. tokens[s] = 0 /\ (pc = "admitting" => gen[s] = 0)
  BY <1>1, <1>2, SingletonQueue DEF Lag
<1>4. /\ req[s].prompt \in Nat /\ TotalLen(s) \in Nat
      /\ pc = "admitting" => TotalLen(s) = req[s].prompt
  BY <1>2, <1>3, BlocksAreInt DEF IInv, TotalLen
<1>5. /\ tokens'[s] = TotalLen(s)
      /\ \A r \in KV!Registered \ {s} : tokens'[r] = tokens[r]
  BY <1>1, <1>2, <1>3, <1>4, GrowEffect DEF IInv
<1>6. ToSet(running') = ToSet(running) \cup {s}
  BY <1>1, <1>2, AppendedQueue DEF IInv, TypeOK
<1>7. ToSet(running) \subseteq KV!Registered
  BY <1>1, BatchIsActive DEF MidCall, Holding
<1> QED  BY <1>1, <1>5, <1>6, <1>7 DEF Lag, CaughtUp, TotalLen, MidCall, Holding

LEMMA LagPcOnly ==
    ASSUME Lag, RestoreDone \/ AdmitDone \/ DecodeRaise \/ RestoreRaise \/ AdmitRaise
    PROVE  Lag'
<1>1. /\ req' = req /\ gen' = gen /\ tokens' = tokens /\ waiting' = waiting
      /\ running' = running
      /\ \/ pc \in {"restore", "admit"} /\ pc' \in {"admit", "batch"}
         \/ pc' = "raised"
  BY DEF RestoreDone, AdmitDone, DecodeRaise, RestoreRaise, AdmitRaise, queues, native
<1> QED  BY <1>1 DEF Lag, CaughtUp, TotalLen, MidCall, Holding

\* Every sequence of the batch gets a token, so each of them lags again.
LEMMA LagExecute ==
    ASSUME IInv, Lag, ExecuteNothing \/ ExecuteBatch
    PROVE  Lag'
<1>1. /\ pc = "batch" /\ pc' = "idle" /\ req' = req /\ waiting' = waiting
      /\ running' = running /\ tokens' = tokens
      /\ gen' = [s \in Seqs |-> IF s \in Batch THEN gen[s] + 1 ELSE gen[s]]
  BY DEF ExecuteNothing, ExecuteBatch, CallerDone, queues, native
<1>2. Batch = ToSet(running)
  BY <1>1, BatchIsActive DEF Batch, MidCall
<1>3. ToSet(waiting) \subseteq Seqs /\ ToSet(running) \subseteq Seqs
  BY DEF IInv, TypeOK, ToSet
<1>4. ToSet(waiting) \cap ToSet(running) = {}
  BY <1>1 DEF IInv, Queues, QueuesDisjoint, Active
<1>5. ASSUME NEW s \in ToSet(running) PROVE Lags(s)'
  <2>1. tokens'[s] = TotalLen(s) /\ gen'[s] = gen[s] + 1
    BY <1>1, <1>2, <1>3 DEF Lag, CaughtUp, MidCall
  <2>2. req[s].prompt \in Nat /\ gen[s] \in Nat
    BY <1>3, BlocksAreInt DEF IInv, TypeOK
  <2> QED  BY <1>1, <2>1, <2>2 DEF Lags, TotalLen
<1> QED  BY <1>1, <1>2, <1>3, <1>4, <1>5 DEF Lag, MidCall, Holding

LEMMA LagStep == IInv /\ Lag /\ [PNext]_pipelineVars => Lag'
<1> SUFFICES ASSUME IInv, Lag, [PNext]_pipelineVars PROVE Lag'
  OBVIOUS
<1>1. CASE UNCHANGED pipelineVars
  BY <1>1 DEF pipelineVars, vars, queues, native, Lag, Lags, CaughtUp, TotalLen
<1>2. CASE Client
  BY <1>2, LagAddSequence, LagFinishSequence DEF Client
<1>3. CASE ScheduleStep
  BY <1>3, LagBegin, LagDecodeFree, LagDecodeAppend, LagDecodeDone, LagRegister,
     LagPromote, LagPcOnly DEF ScheduleStep
<1>4. CASE ExecuteNothing \/ ExecuteBatch
  BY <1>4, LagExecute
<1> QED  BY <1>1, <1>2, <1>3, <1>4 DEF PNext, Engine

\* Between two steps the page table of every running sequence is exactly one
\* token short of the sequence, whatever was preempted, restored or cancelled
\* before: the slot the next decode asks for is the one of the last token.
THEOREM TableLag == PSpec => []TableLagsByOne
<1>1. PInit => IInv /\ Lag /\ TuneOK
  BY InitOK, LagInit, TunerAssumption DEF PInit, TuneOK
<1>2. IInv /\ Lag /\ TuneOK /\ [PNext]_pipelineVars => IInv' /\ Lag' /\ TuneOK'
  BY PipelineStep, StepOK, LagStep, TuneStep
<1>3. Lag => TableLagsByOne
  BY DEF Lag, Lags, TableLagsByOne
<1> QED  BY <1>1, <1>2, <1>3, PTL DEF PSpec

-----------------------------------------------------------------------------
(* Who was ever preempted *)

\* A sequence is preempted with a token generated, and restored because it was;
\* so a prefill that is not of a new sequence is of one that was preempted.
Evicted ==
    /\ ToSet(preempted) \subseteq preemptees /\ preemptees \subseteq Seqs
    /\ \A s \in preemptees : gen[s] >= 1
    /\ pc = "idle" => \A s \in ToSet(running) : gen[s] >= 1
    /\ pc = "decode" => \A s \in ToSet(call.todo) : gen[s] >= 1
    /\ pc = "restoring" => ToSet(call.popped) \subseteq preemptees
    /\ pc \in MidCall => \A s \in ToSet(call.prefill) : s \in preemptees \/ gen[s] = 0

LEMMA EvictedInit == PInit => Evicted
  BY EmptyQueue DEF PInit, Init, Evicted, MidCall

\* Only DecodePreempt adds to preempted_queue.
LEMMA EvictedGrows ==
    ASSUME IInv, Evicted, ScheduleStep \/ Client, KeepRegistered
    PROVE  \/ preemptees' = preemptees /\ ToSet(preempted') \subseteq ToSet(preempted)
           \/ DecodePreempt /\ preemptees' = preemptees \cup {Reached}
<1>1. CASE preempted' = preempted
  BY <1>1 DEF KeepRegistered, Evicted
<1>2. CASE RestoreRegister
  <2>1. ToSet(preempted') \subseteq ToSet(preempted)
    BY <1>2, TailOfQueue DEF RestoreRegister, CanRestore, IInv, TypeOK
  <2> QED  BY <2>1 DEF KeepRegistered, Evicted
<1>3. CASE DecodePreempt
  <2>1. Reached \in Seqs /\ preempted' = Append(preempted, Reached)
    BY <1>3, AtHead DEF DecodePreempt, PreemptSequence
  <2>2. ToSet(preempted') = ToSet(preempted) \cup {Reached}
    BY <2>1, AppendedQueue DEF IInv, TypeOK
  <2> QED  BY <1>3, <2>2 DEF KeepRegistered, Evicted
<1> QED
  BY <1>1, <1>2, <1>3
     DEF ScheduleStep, Client, AddSequence, FinishSequence, Begin, DecodeFinished, DecodeAppend,
         DecodeRaise, DecodeDone, RestoreAppend, RestoreRaise, RestoreDone, AdmitRegister,
         AdmitAppend, AdmitRaise, AdmitDone, queues

LEMMA EvictedClient == ASSUME IInv, Evicted, Client, KeepRegistered PROVE Evicted'
<1>1. pc = "idle" /\ pc' = pc /\ gen' = gen
  BY DEF Client, AddSequence, FinishSequence
<1>2. ToSet(running') \subseteq ToSet(running)
  <2>1. ASSUME NEW s \in Seqs, FinishSequence(s) PROVE ToSet(running') = ToSet(running) \ {s}
    <3>1. IsInjective(running) /\ running' = Dropped(running, s)
      BY <1>1, <2>1 DEF IInv, Queues, QueuesDisjoint, FinishSequence
    <3> QED  BY <3>1, DroppedFromQueue DEF IInv, TypeOK
  <2> QED  BY <2>1 DEF Client, AddSequence
<1>3. preemptees' = preemptees /\ ToSet(preempted') \subseteq ToSet(preempted)
  BY <1>1, EvictedGrows DEF DecodePreempt, Deciding
<1> QED  BY <1>1, <1>2, <1>3 DEF Evicted, MidCall

LEMMA EvictedDecode ==
    ASSUME IInv, Evicted, KeepRegistered,
           Begin \/ DecodeFinished \/ DecodePreempt \/ DecodeAppend \/ DecodeDone
    PROVE  Evicted'
<1>1. CASE Begin
  <2>1. pc = "idle" /\ pc' = "decode" /\ gen' = gen /\ call'.todo = running
    BY <1>1 DEF Begin, Locals
  <2>2. preemptees' = preemptees /\ ToSet(preempted') \subseteq ToSet(preempted)
    BY <1>1, EvictedGrows DEF ScheduleStep, Begin, DecodePreempt, Deciding
  <2> QED  BY <2>1, <2>2 DEF Evicted, MidCall
<1>2. CASE DecodeFinished \/ DecodePreempt \/ DecodeAppend
  <2>1. /\ Deciding /\ pc' = pc /\ gen' = gen /\ pc = "decode"
        /\ call'.todo = Tail(call.todo)
    BY <1>2 DEF DecodeFinished, DecodePreempt, DecodeAppend, Deciding, IInv, TypeOK
  <2>2. ToSet(Tail(call.todo)) = ToSet(call.todo) \ {Reached} /\ Reached \in ToSet(call.todo)
    BY <2>1, AtHead
  <2>3. gen[Reached] >= 1
    BY <2>1, <2>2 DEF Evicted
  <2>4. \/ preemptees' = preemptees /\ ToSet(preempted') \subseteq ToSet(preempted)
        \/ preemptees' = preemptees \cup {Reached}
    BY <1>2, EvictedGrows DEF ScheduleStep
  <2>5. ToSet(preempted') \subseteq preemptees'
    BY DEF KeepRegistered
  <2>6. preemptees' \subseteq preemptees \cup {Reached} /\ preemptees' \subseteq Seqs
    BY <2>1, <2>4, AtHead DEF Evicted
  <2>7. \A s \in preemptees' : gen'[s] >= 1
    BY <2>1, <2>3, <2>6 DEF Evicted
  <2>8. \A s \in ToSet(call'.todo) : gen'[s] >= 1
    BY <2>1, <2>2 DEF Evicted
  <2> QED  BY <2>1, <2>5, <2>6, <2>7, <2>8 DEF Evicted, MidCall
<1>3. CASE DecodeDone
  <2>1. pc' = "restore" /\ gen' = gen /\ call'.prefill = <<>>
    BY <1>3 DEF DecodeDone, IInv, TypeOK, Queues, DecodeSplits
  <2>2. preemptees' = preemptees /\ ToSet(preempted') \subseteq ToSet(preempted)
    BY <1>3, EvictedGrows DEF ScheduleStep, DecodeDone, DecodePreempt, Deciding
  <2> QED  BY <2>1, <2>2, EmptyQueue DEF Evicted, MidCall
<1> QED  BY <1>1, <1>2, <1>3

LEMMA EvictedRegister ==
    ASSUME IInv, Evicted, KeepRegistered, RestoreRegister \/ AdmitRegister
    PROVE  Evicted'
<1>1. /\ pc \in {"restore", "admit"} /\ pc' \in {"restoring", "admitting"} /\ gen' = gen
      /\ call'.prefill = call.prefill
      /\ pc' = "restoring" => RestoreRegister
  BY DEF RestoreRegister, AdmitRegister, IInv, TypeOK
<1>2. preemptees' = preemptees /\ ToSet(preempted') \subseteq ToSet(preempted)
  BY <1>1, EvictedGrows DEF ScheduleStep, DecodePreempt, Deciding
<1>3. ASSUME RestoreRegister PROVE ToSet(call'.popped) \subseteq preemptees
  <2>1. call'.popped = <<Head(preempted)>> /\ preempted # <<>>
    BY <1>3 DEF RestoreRegister, CanRestore, IInv, TypeOK
  <2>2. Head(preempted) \in Seqs /\ Head(preempted) \in ToSet(preempted)
    BY <2>1, TailOfQueue DEF IInv, TypeOK
  <2> QED  BY <2>1, <2>2, SingletonQueue DEF Evicted
<1> QED  BY <1>1, <1>2, <1>3 DEF Evicted, MidCall

LEMMA EvictedPromote ==
    ASSUME IInv, Lag, Evicted, KeepRegistered, RestoreAppend \/ AdmitAppend
    PROVE  Evicted'
<1> DEFINE s == Head(call.popped)
<1>1. /\ pc \in Holding /\ pc' \in {"restore", "admit"} /\ gen' = gen
      /\ call'.prefill = Append(call.prefill, s)
  BY DEF RestoreAppend, AdmitAppend, Holding, IInv, TypeOK
<1>2. s \in Seqs /\ call.popped = <<s>>
  BY <1>1, PoppedHead
<1> HIDE DEF s
<1>3. ToSet(call'.prefill) = ToSet(call.prefill) \cup {s}
  BY <1>1, <1>2, AppendedQueue DEF IInv, TypeOK
<1>4. s \in preemptees \/ gen[s] = 0
  BY <1>1, <1>2, SingletonQueue DEF Evicted, Lag, Holding
<1>5. preemptees' = preemptees /\ ToSet(preempted') \subseteq ToSet(preempted)
  BY <1>1, EvictedGrows DEF ScheduleStep, DecodePreempt, Deciding, Holding
<1> QED  BY <1>1, <1>3, <1>4, <1>5 DEF Evicted, MidCall, Holding

LEMMA EvictedPcOnly ==
    ASSUME IInv, Evicted, KeepRegistered,
           RestoreDone \/ AdmitDone \/ DecodeRaise \/ RestoreRaise \/ AdmitRaise
    PROVE  Evicted'
<1>1. /\ gen' = gen /\ call' = call /\ preempted' = preempted
      /\ \/ pc \in {"restore", "admit"} /\ pc' \in {"admit", "batch"}
         \/ pc' = "raised"
  BY DEF RestoreDone, AdmitDone, DecodeRaise, RestoreRaise, AdmitRaise, queues
<1>2. preemptees' = preemptees
  BY <1>1 DEF KeepRegistered, Evicted
<1> QED  BY <1>1, <1>2 DEF Evicted, MidCall

\* Every sequence that runs has got its token.
LEMMA EvictedExecute ==
    ASSUME IInv, Evicted, ExecuteNothing \/ ExecuteBatch
    PROVE  Evicted'
<1>1. /\ pc = "batch" /\ pc' = "idle" /\ preemptees' = preemptees /\ preempted' = preempted
      /\ running' = running
      /\ gen' = [s \in Seqs |-> IF s \in Batch THEN gen[s] + 1 ELSE gen[s]]
  BY DEF ExecuteNothing, ExecuteBatch, CallerDone, queues
<1>2. Batch = ToSet(running) /\ ToSet(running) \subseteq Seqs /\ gen \in [Seqs -> Nat]
  BY <1>1, BatchIsActive DEF Batch, MidCall, IInv, TypeOK, ToSet
<1>3. \A s \in Seqs : gen'[s] >= gen[s] /\ (s \in Batch => gen'[s] >= 1) /\ gen'[s] \in Nat
  BY <1>1, <1>2
<1>4. ASSUME NEW s \in preemptees PROVE gen'[s] >= 1
  <2>1. gen[s] >= 1
    BY DEF Evicted
  <2>2. CASE s \in Seqs
    BY <1>2, <1>3, <2>1, <2>2
  <2> QED  BY <2>2 DEF Evicted
<1> QED  BY <1>1, <1>2, <1>3, <1>4 DEF Evicted, MidCall

LEMMA EvictedStep == IInv /\ Lag /\ Evicted /\ [PNext]_pipelineVars => Evicted'
<1> SUFFICES ASSUME IInv, Lag, Evicted, [PNext]_pipelineVars PROVE Evicted'
  OBVIOUS
<1>1. CASE UNCHANGED pipelineVars
  BY <1>1 DEF pipelineVars, vars, queues, native, Evicted
<1>2. CASE Client /\ KeepRegistered
  BY <1>2, EvictedClient
<1>3. CASE ScheduleStep /\ KeepRegistered
  BY <1>3, EvictedDecode, EvictedRegister, EvictedPromote, EvictedPcOnly DEF ScheduleStep
<1>4. CASE ExecuteNothing \/ ExecuteBatch
  BY <1>4, EvictedExecute
<1> QED  BY <1>1, <1>2, <1>3, <1>4 DEF PNext, Engine

-----------------------------------------------------------------------------
(* The KV cache of a running sequence is complete unless it was preempted *)

Whole(s) == CachedUpTo(s, tokens[s])
AllButLast(s) == CachedUpTo(s, tokens[s] - 1)

\* Only registered sequences have anything cached, and nothing beyond their end.
CachedInside ==
    /\ cached \in [Seqs -> SUBSET Nat]
    /\ \A s \in Seqs :
          cached[s] \subseteq IF s \in KV!Registered THEN 1 .. tokens[s] ELSE {}

\* The decode loop opens a slot at the end of one sequence after the other; what
\* is restored or admitted starts with nothing.
Context ==
    /\ CachedInside
    /\ pc = "idle" => \A s \in ToSet(running) : Whole(s)
    /\ pc = "decode" => /\ \A s \in ToSet(call.todo) : Whole(s)
                        /\ \A s \in ToSet(call.retained) : AllButLast(s)
    /\ pc \in MidCall => /\ \A s \in ToSet(call.decode) : AllButLast(s)
                         /\ \A s \in ToSet(call.prefill) : cached[s] = {}
    /\ pc \in Holding => \A s \in ToSet(call.popped) : cached[s] = {}

LEMMA ContextInit == PInit => Context
<1> SUFFICES ASSUME PInit PROVE Context
  OBVIOUS
<1>1. pc = "idle" /\ running = <<>> /\ cached = [s \in Seqs |-> {}]
  BY DEF PInit, Init
<1> QED  BY <1>1, EmptyQueue DEF Context, CachedInside, MidCall, Holding

\* Each step of schedule() and each call of a client makes one native call at
\* most.
LEMMA NativeCall ==
    ASSUME IInv, ScheduleStep \/ Client
    PROVE  \/ UNCHANGED native
           \/ \E s \in Seqs : \/ KV!Register(s) \/ FreeIfRegistered(s)
                              \/ \E n \in Nat : KV!Grow(s, n)
<1>1. CASE Client
  BY <1>1 DEF Client, AddSequence, FinishSequence, FreeSequenceResources
<1>2. CASE DecodeFinished \/ DecodePreempt \/ DecodeAppend
  BY <1>2, AtHead
     DEF DecodeFinished, DecodePreempt, DecodeAppend, FreeSequenceResources, PreemptSequence
<1>3. CASE RestoreRegister \/ AdmitRegister
  BY <1>3, TailOfQueue
     DEF RestoreRegister, AdmitRegister, CanRestore, CanAdmit, IInv, TypeOK
<1>4. CASE RestoreAppend \/ AdmitAppend
  BY <1>4, PoppedHead, BlocksAreInt DEF RestoreAppend, AdmitAppend, Holding, IInv
<1>5. CASE \/ Begin \/ DecodeRaise \/ DecodeDone \/ RestoreRaise \/ RestoreDone
           \/ AdmitRaise \/ AdmitDone
  BY <1>5 DEF Begin, DecodeRaise, DecodeDone, RestoreRaise, RestoreDone, AdmitRaise, AdmitDone
<1> QED  BY <1>1, <1>2, <1>3, <1>4, <1>5 DEF ScheduleStep

\* So a sequence that stays registered does not get shorter.
LEMMA NeverShorter ==
    ASSUME IInv, ScheduleStep \/ Client, NEW r \in KV!Registered, r \in KV!Registered'
    PROVE  tokens[r] \in Nat /\ tokens'[r] \in Nat /\ tokens'[r] >= tokens[r]
<1>1. tokens[r] \in Nat /\ TypeOK
  BY DEF IInv, TypeOK
<1>2. CASE UNCHANGED native
  BY <1>1, <1>2 DEF native
<1>3. ASSUME NEW s \in Seqs, KV!Register(s) PROVE tokens'[r] = tokens[r]
  BY <1>1, <1>3, RegisterEffect
<1>4. ASSUME NEW s \in Seqs, FreeIfRegistered(s) PROVE tokens'[r] = tokens[r]
  BY <1>1, <1>4, FreeEffect
<1>5. ASSUME NEW s \in Seqs, NEW n \in Nat, KV!Grow(s, n)
      PROVE  tokens'[r] = tokens[r] \/ tokens'[r] = tokens[r] + n
  BY <1>1, <1>5, GrowEffect
<1> QED  BY <1>1, <1>2, <1>3, <1>4, <1>5, NativeCall

LEMMA InsideKept ==
    ASSUME IInv, CachedInside, ScheduleStep \/ Client, KeepRegistered
    PROVE  CachedInside'
<1>1. cached' = [s \in Seqs |-> IF s \in KV!Registered' THEN cached[s] ELSE {}]
  BY DEF KeepRegistered, KV!Registered
<1>2. cached' \in [Seqs -> SUBSET Nat]
  BY <1>1 DEF CachedInside
<1>3. ASSUME NEW s \in KV!Registered', s \in Seqs
      PROVE  cached'[s] \subseteq 1 .. tokens'[s]
  <2>1. CASE s \in KV!Registered
    <3>1. cached'[s] \subseteq 1 .. tokens[s]
      BY <1>1, <1>3, <2>1 DEF CachedInside
    <3>2. 1 .. tokens[s] \subseteq 1 .. tokens'[s]
      BY <1>3, <2>1, NeverShorter
    <3> QED  BY <3>1, <3>2
  <2>2. CASE s \notin KV!Registered
    BY <1>1, <1>3, <2>2 DEF CachedInside
  <2> QED  BY <2>1, <2>2
<1> QED  BY <1>1, <1>2, <1>3 DEF CachedInside

\* What KeepRegistered keeps of a sequence that is not touched.
LEMMA Untouched ==
    ASSUME KeepRegistered, KV!Registered \subseteq Seqs,
           NEW r \in KV!Registered, r \in KV!Registered', tokens'[r] = tokens[r],
           req' = req, r \in preemptees' <=> r \in preemptees
    PROVE  /\ cached'[r] = cached[r]
           /\ Whole(r) => Whole(r)'
           /\ AllButLast(r) => AllButLast(r)'
<1>1. cached'[r] = cached[r]
  BY DEF KeepRegistered, KV!Registered
<1> QED  BY <1>1 DEF Whole, AllButLast, CachedUpTo

LEMMA ContextClient == ASSUME IInv, Evicted, Context, Client, KeepRegistered PROVE Context'
<1>0. pc = "idle" /\ pc' = pc /\ ToSet(running) = KV!Registered
  BY DEF Client, AddSequence, FinishSequence, IInv, RunningHoldsKV, Active
<1> DEFINE Stays(r) == r \in ToSet(running) /\ r \in KV!Registered' /\ tokens'[r] = tokens[r]
<1>1. \A r \in ToSet(running') : Stays(r)
  <2>1. ASSUME NEW s \in Seqs, AddSequence(s) PROVE \A r \in ToSet(running') : Stays(r)
    BY <1>0, <2>1 DEF AddSequence, native, KV!Registered
  <2>2. ASSUME NEW s \in Seqs, FinishSequence(s) PROVE \A r \in ToSet(running') : Stays(r)
    <3>1. FreeIfRegistered(s) /\ running' = Dropped(running, s)
      BY <2>2 DEF FinishSequence, FreeSequenceResources
    <3>2. IsInjective(running)
      BY <1>0 DEF IInv, Queues, QueuesDisjoint
    <3>3. ToSet(running') = ToSet(running) \ {s}
      BY <3>1, <3>2, DroppedFromQueue DEF IInv, TypeOK
    <3> QED  BY <1>0, <3>1, <3>3, FreeEffect DEF IInv
  <2> QED  BY <2>1, <2>2 DEF Client
<1>2. /\ ToSet(running) = KV!Registered /\ KV!Registered \subseteq Seqs
      /\ req' = req /\ preemptees' = preemptees
  BY <1>0, EvictedGrows
     DEF IInv, TypeOK, Client, AddSequence, FinishSequence, DecodePreempt, Deciding
<1>3. \A r \in ToSet(running') : Whole(r)'
  BY <1>0, <1>1, <1>2, Untouched DEF Context
<1> QED  BY <1>0, <1>3, InsideKept DEF Context, MidCall, Holding

LEMMA ContextDecodeFree ==
    ASSUME IInv, Evicted, Context, DecodeFinished \/ DecodePreempt, KeepRegistered
    PROVE  Context'
<1> DEFINE s == Reached
<1>1. /\ Deciding /\ FreeIfRegistered(s) /\ pc' = pc
      /\ call' = [call EXCEPT !.todo = Tail(call.todo)]
  BY DEF DecodeFinished, DecodePreempt, FreeSequenceResources, PreemptSequence
<1>2. /\ s \in Seqs /\ pc = "decode"
      /\ ToSet(Tail(call.todo)) = ToSet(call.todo) \ {s}
      /\ s \notin ToSet(call.retained)
      /\ Active = ToSet(call.todo) \cup ToSet(call.retained)
  BY <1>1, AtHead
<1> HIDE DEF s
<1>3. call'.todo = Tail(call.todo) /\ call'.retained = call.retained
  BY <1>1 DEF IInv, TypeOK
<1>4. /\ KV!Registered' = KV!Registered \ {s}
      /\ \A r \in KV!Registered \ {s} : tokens'[r] = tokens[r]
  BY <1>1, <1>2, FreeEffect DEF IInv
<1>5. Active = KV!Registered /\ KV!Registered \subseteq Seqs
  BY <1>2 DEF IInv, TypeOK, RunningHoldsKV
<1>e. req' = req /\ \A r \in Seqs \ {s} : r \in preemptees' <=> r \in preemptees
  BY EvictedGrows DEF ScheduleStep, DecodeFinished, DecodePreempt, s
<1>6. \A r \in (ToSet(call.todo) \cup ToSet(call.retained)) \ {s} :
         (Whole(r) => Whole(r)') /\ (AllButLast(r) => AllButLast(r)')
  BY <1>2, <1>4, <1>5, <1>e, Untouched
<1>7. CachedInside'
  BY InsideKept DEF Context, ScheduleStep
<1> QED  BY <1>1, <1>2, <1>3, <1>6, <1>7 DEF Context, MidCall, Holding

LEMMA ContextDecodeAppend ==
    ASSUME IInv, Evicted, Context, DecodeAppend, KeepRegistered
    PROVE  Context'
<1>0. PICK s \in Seqs : s = Reached
  BY AtHead DEF DecodeAppend
<1>1. /\ Deciding /\ KV!Grow(s, 1) /\ pc' = pc
      /\ call' = [call EXCEPT !.todo = Tail(@),
                              !.free = IF NeedsNewBlock(s) THEN @ - 1 ELSE @,
                              !.batched = @ + 1,
                              !.decode = Append(@, s),
                              !.retained = Append(@, s)]
  BY <1>0 DEF DecodeAppend
<1>2. /\ s \in Seqs /\ pc = "decode" /\ s \in ToSet(call.todo)
      /\ ToSet(Tail(call.todo)) = ToSet(call.todo) \ {s}
      /\ s \notin ToSet(call.retained)
      /\ Active = ToSet(call.todo) \cup ToSet(call.retained)
  BY <1>0, <1>1, AtHead
<1>3. call'.todo = Tail(call.todo) /\ call'.retained = Append(call.retained, s)
  BY <1>1 DEF IInv, TypeOK
<1>4. ToSet(call'.retained) = ToSet(call.retained) \cup {s}
  BY <1>2, <1>3, AppendedQueue DEF IInv, TypeOK
<1>5. /\ \A r \in KV!Registered \ {s} : tokens'[r] = tokens[r]
      /\ tokens'[s] = tokens[s] + 1 /\ tokens[s] \in Nat
      /\ s \in KV!Registered /\ KV!Registered' = KV!Registered
  BY <1>1, <1>2, GrowEffect DEF IInv
<1>6. Active = KV!Registered /\ KV!Registered \subseteq Seqs
  BY <1>2 DEF IInv, TypeOK, RunningHoldsKV
<1>e. req' = req /\ preemptees' = preemptees
  BY EvictedGrows DEF ScheduleStep, DecodeAppend, DecodePreempt
<1>7. \A r \in (ToSet(call.todo) \cup ToSet(call.retained)) \ {s} :
         (Whole(r) => Whole(r)') /\ (AllButLast(r) => AllButLast(r)')
  BY <1>2, <1>5, <1>6, <1>e, Untouched
<1>8. AllButLast(s)'
  <2>1. cached'[s] = cached[s]
    BY <1>2, <1>5 DEF KeepRegistered, KV!Registered
  <2>2. tokens'[s] - 1 = tokens[s]
    BY <1>5
  <2>3. Whole(s)
    BY <1>2 DEF Context
  <2> QED  BY <1>e, <2>1, <2>2, <2>3 DEF Whole, AllButLast, CachedUpTo
<1>9. CachedInside'
  BY InsideKept DEF Context, ScheduleStep
<1> QED  BY <1>1, <1>2, <1>3, <1>4, <1>7, <1>8, <1>9 DEF Context, MidCall, Holding

\* A step that makes no native call changes nothing that is cached.
LEMMA NothingTouched ==
    ASSUME IInv, Evicted, Context, native' = native, ScheduleStep, KeepRegistered,
           ~DecodePreempt
    PROVE  /\ CachedInside'
           /\ \A r \in KV!Registered :
                 /\ cached'[r] = cached[r]
                 /\ (Whole(r) => Whole(r)') /\ (AllButLast(r) => AllButLast(r)')
<1>1. tokens' = tokens /\ KV!Registered' = KV!Registered /\ KV!Registered \subseteq Seqs
  BY DEF native, KV!Registered, IInv, TypeOK
<1>2. req' = req /\ preemptees' = preemptees
  BY EvictedGrows
     DEF ScheduleStep, Begin, DecodeFinished, DecodeAppend, DecodeRaise, DecodeDone,
         RestoreRegister, RestoreAppend, RestoreRaise, RestoreDone,
         AdmitRegister, AdmitAppend, AdmitRaise, AdmitDone
<1> QED  BY <1>1, <1>2, InsideKept, Untouched DEF Context

LEMMA ContextBegin == ASSUME IInv, Evicted, Context, Begin, KeepRegistered PROVE Context'
<1>1. pc = "idle" /\ pc' = "decode" /\ call'.todo = running /\ call'.retained = <<>>
      /\ ToSet(running) = KV!Registered
  BY DEF Begin, Locals, IInv, RunningHoldsKV, Active
<1>2. CachedInside' /\ \A r \in KV!Registered : Whole(r) => Whole(r)'
  BY NothingTouched DEF Begin, DecodePreempt, Deciding, ScheduleStep
<1> QED  BY <1>1, <1>2, EmptyQueue DEF Context, MidCall, Holding

LEMMA ContextDecodeDone == ASSUME IInv, Evicted, Context, DecodeDone, KeepRegistered PROVE Context'
<1>1. /\ pc = "decode" /\ pc' = "restore" /\ call'.decode = call.retained
      /\ call'.prefill = <<>> /\ ToSet(call.retained) \subseteq KV!Registered
  BY DEF DecodeDone, IInv, TypeOK, Queues, DecodeSplits, RunningHoldsKV, Active
<1>2. CachedInside' /\ \A r \in KV!Registered : AllButLast(r) => AllButLast(r)'
  BY NothingTouched DEF DecodeDone, DecodePreempt, Deciding, ScheduleStep
<1> QED  BY <1>1, <1>2, EmptyQueue DEF Context, MidCall, Holding

LEMMA ContextRegister ==
    ASSUME IInv, Evicted, Context, RestoreRegister \/ AdmitRegister, KeepRegistered
    PROVE  Context'
<1> DEFINE s == IF pc = "restore" THEN Head(preempted) ELSE Head(waiting)
<1>1. /\ pc \in {"restore", "admit"} /\ pc' \in Holding /\ KV!Register(s)
      /\ call' = [call EXCEPT !.popped = <<s>>]
      /\ pc = "restore" => preempted # <<>>
      /\ pc = "admit" => waiting # <<>>
  BY DEF RestoreRegister, AdmitRegister, CanRestore, CanAdmit, Holding
<1>2. s \in Seqs
  BY <1>1, TailOfQueue DEF IInv, TypeOK
<1> HIDE DEF s
<1>3. call'.popped = <<s>> /\ call'.decode = call.decode /\ call'.prefill = call.prefill
  BY <1>1 DEF IInv, TypeOK
<1>4. /\ s \notin KV!Registered /\ KV!Registered' = KV!Registered \cup {s}
      /\ \A r \in KV!Registered : tokens'[r] = tokens[r]
  BY <1>1, <1>2, RegisterEffect DEF IInv
<1>5. /\ ToSet(call.prefill) \cup ToSet(call.decode) \subseteq KV!Registered
      /\ KV!Registered \subseteq Seqs
  BY <1>1, BatchIsActive DEF MidCall, IInv, TypeOK
<1>e. req' = req /\ preemptees' = preemptees
  BY <1>1, EvictedGrows
     DEF ScheduleStep, RestoreRegister, AdmitRegister, DecodePreempt, Deciding
<1>6. \A r \in KV!Registered : cached'[r] = cached[r] /\ (AllButLast(r) => AllButLast(r)')
  BY <1>4, <1>5, <1>e, Untouched
<1>7. cached'[s] = {}
  BY <1>2, <1>4 DEF KeepRegistered, KV!Registered, Context, CachedInside
<1>8. CachedInside'
  BY InsideKept DEF Context, ScheduleStep
<1> QED  BY <1>1, <1>3, <1>5, <1>6, <1>7, <1>8, SingletonQueue DEF Context, MidCall, Holding

LEMMA ContextPromote ==
    ASSUME IInv, Evicted, Context, RestoreAppend \/ AdmitAppend, KeepRegistered
    PROVE  Context'
<1> DEFINE s == Head(call.popped)
<1>1. /\ pc \in Holding /\ pc' \in {"restore", "admit"}
      /\ KV!Grow(s, TotalLen(s)) \/ KV!Grow(s, req[s].prompt)
      /\ call'.decode = call.decode /\ call'.prefill = Append(call.prefill, s)
  BY DEF RestoreAppend, AdmitAppend, Holding, IInv, TypeOK
<1>2. s \in Seqs /\ call.popped = <<s>> /\ s \notin ToSet(running)
  <2>1. \E r \in Seqs : call.popped = <<r>> /\ r \notin ToSet(running)
    BY <1>1 DEF IInv, Queues, PoppedFits
  <2> QED  BY <1>1, <2>1, PoppedHead, SingletonQueue
<1> HIDE DEF s
<1>3. TotalLen(s) \in Nat /\ req[s].prompt \in Nat
  BY <1>2, BlocksAreInt DEF IInv
<1>4. /\ s \in KV!Registered /\ KV!Registered' = KV!Registered
      /\ \A r \in KV!Registered \ {s} : tokens'[r] = tokens[r]
  BY <1>1, <1>2, <1>3, GrowEffect DEF IInv
<1>5. /\ ToSet(call.prefill) \cup ToSet(call.decode) \subseteq KV!Registered \ {s}
      /\ KV!Registered \subseteq Seqs
  BY <1>1, <1>2, BatchIsActive DEF MidCall, Holding, IInv, TypeOK
<1>e. req' = req /\ preemptees' = preemptees
  BY <1>1, EvictedGrows
     DEF ScheduleStep, RestoreAppend, AdmitAppend, DecodePreempt, Deciding, Holding
<1>6. \A r \in KV!Registered \ {s} :
         cached'[r] = cached[r] /\ (AllButLast(r) => AllButLast(r)')
  BY <1>4, <1>5, <1>e, Untouched
<1>7. cached'[s] = {}
  <2>1. cached[s] = {}
    BY <1>1, <1>2, SingletonQueue DEF Context
  <2> QED  BY <1>2, <2>1 DEF KeepRegistered
<1>8. CachedInside'
  BY InsideKept DEF Context, ScheduleStep
<1>9. ToSet(call'.prefill) = ToSet(call.prefill) \cup {s}
  BY <1>1, <1>2, AppendedQueue DEF IInv, TypeOK
<1> QED  BY <1>1, <1>5, <1>6, <1>7, <1>8, <1>9 DEF Context, MidCall, Holding

LEMMA ContextPcOnly ==
    ASSUME IInv, Evicted, Context, KeepRegistered,
           RestoreDone \/ AdmitDone \/ DecodeRaise \/ RestoreRaise \/ AdmitRaise
    PROVE  Context'
<1>1. /\ native' = native /\ call' = call
      /\ \/ pc \in {"restore", "admit"} /\ pc' \in {"admit", "batch"}
         \/ pc' = "raised"
      /\ ~DecodePreempt
  BY DEF RestoreDone, AdmitDone, DecodeRaise, RestoreRaise, AdmitRaise, DecodePreempt, Deciding
<1>2. /\ CachedInside'
      /\ \A r \in KV!Registered : cached'[r] = cached[r] /\ (AllButLast(r) => AllButLast(r)')
  BY <1>1, NothingTouched DEF ScheduleStep
<1>3. pc \in MidCall => ToSet(call.prefill) \cup ToSet(call.decode) \subseteq KV!Registered
  BY BatchIsActive
<1> QED  BY <1>1, <1>2, <1>3 DEF Context, MidCall, Holding

\* A prefill fills a new sequence and wipes a restored one; a decode fills the
\* slot at the end.
LEMMA ContextExecute == ASSUME IInv, Lag, Evicted, Context, ExecuteBatch PROVE Context'
<1>1. /\ pc = "batch" /\ pc' = "idle" /\ running' = running /\ tokens' = tokens
      /\ KV!Registered' = KV!Registered /\ req' = req /\ preemptees' = preemptees
      /\ cached' = [s \in Seqs |->
                       IF s \in ToSet(call.prefill) THEN PrefillWrites(s)
                       ELSE IF s \in ToSet(call.decode) THEN DecodeWrites(s)
                       ELSE cached[s]]
  BY DEF ExecuteBatch, CallerDone, queues, native, KV!Registered
<1>2. /\ ToSet(call.prefill) \cup ToSet(call.decode) = ToSet(running)
      /\ ToSet(running) \subseteq KV!Registered /\ KV!Registered \subseteq Seqs
  BY <1>1, BatchIsActive DEF MidCall, IInv, TypeOK
<1>3. ASSUME NEW s \in ToSet(running)
      PROVE  /\ tokens[s] \in Nat /\ req[s].prompt \in Nat /\ gen[s] \in Nat
             /\ tokens[s] = req[s].prompt + gen[s] /\ cached[s] \subseteq 1 .. tokens[s]
  <2>1. s \in Seqs /\ s \in KV!Registered
    BY <1>2
  <2>2. tokens[s] = TotalLen(s)
    BY <1>1 DEF Lag, CaughtUp, MidCall
  <2>3. cached[s] \subseteq 1 .. tokens[s]
    BY <2>1 DEF Context, CachedInside
  <2> QED  BY <2>1, <2>2, <2>3, RequestsAreNat DEF TotalLen, IInv, TypeOK
<1>4. ASSUME NEW s \in ToSet(call.prefill)
      PROVE  cached'[s] \subseteq 1 .. tokens[s] /\ Whole(s)'
  <2>1. cached[s] = {} /\ s \in ToSet(running) /\ s \in Seqs
    BY <1>1, <1>2 DEF Context, MidCall
  <2>2. cached'[s] = PrefillWrites(s)
    BY <1>1, <2>1
  <2>3. tokens[s] - req[s].prompt = gen[s]
    BY <1>3, <2>1
  <2>4. CASE s \in preemptees
    <3>1. cached'[s] = {}
      BY <2>1, <2>2, <2>3, <2>4 DEF Evicted, PrefillWrites
    <3>2. tokens[s] + 1 \in req[s].prompt + 1 .. tokens[s] + 1 /\ (tokens[s] + 1) .. tokens[s] = {}
      BY <1>3, <2>1
    <3> QED  BY <1>1, <2>4, <3>1, <3>2 DEF Whole, CachedUpTo
  <2>5. CASE s \notin preemptees
    <3>1. gen[s] = 0
      BY <1>1, <2>5 DEF Evicted, MidCall
    <3>2. cached'[s] = 1 .. tokens[s]
      BY <2>1, <2>2, <2>3, <3>1 DEF PrefillWrites
    <3> QED  BY <1>1, <2>5, <3>2 DEF Whole, CachedUpTo
  <2> QED  BY <2>4, <2>5
<1>5. ASSUME NEW s \in ToSet(call.decode), s \notin ToSet(call.prefill)
      PROVE  cached'[s] \subseteq 1 .. tokens[s] /\ Whole(s)'
  <2>1. s \in ToSet(running) /\ s \in Seqs /\ tokens[s] >= 1
    BY <1>1, <1>2 DEF IInv, Tokens, LongEnough, MidCall
  <2>2. /\ tokens[s] \in Nat /\ tokens[s] = TotalLen(s) /\ cached[s] \subseteq 1 .. tokens[s]
        /\ req[s].prompt \in Nat
    BY <1>3, <2>1 DEF TotalLen
  <2>3. cached'[s] = cached[s] \cup {tokens[s]}
    BY <1>1, <1>5, <2>1, <2>2 DEF DecodeWrites
  <2>4. CachedUpTo(s, tokens[s] - 1)
    BY <1>1, <1>5 DEF Context, AllButLast, MidCall
  <2>5. cached'[s] \subseteq 1 .. tokens[s]
    BY <2>1, <2>2, <2>3
  <2>6. CASE s \in preemptees
    <3>1. PICK n \in req[s].prompt + 1 .. tokens[s] : cached[s] = n .. tokens[s] - 1
      BY <2>2, <2>4, <2>6 DEF CachedUpTo
    <3>2. (n .. tokens[s] - 1) \cup {tokens[s]} = n .. tokens[s]
      BY <2>2, <3>1
    <3>3. n \in req[s].prompt + 1 .. tokens[s] + 1 /\ cached'[s] = n .. tokens[s]
      BY <2>2, <2>3, <3>1, <3>2
    <3> QED  BY <1>1, <2>5, <2>6, <3>3 DEF Whole, CachedUpTo
  <2>7. CASE s \notin preemptees
    <3>1. (1 .. tokens[s] - 1) \cup {tokens[s]} = 1 .. tokens[s]
      BY <2>1, <2>2
    <3> QED  BY <1>1, <2>3, <2>4, <2>5, <2>7, <3>1 DEF Whole, CachedUpTo
  <2> QED  BY <2>6, <2>7
<1>6. \A s \in ToSet(running) : cached'[s] \subseteq 1 .. tokens[s] /\ Whole(s)'
  BY <1>2, <1>4, <1>5
<1>7. CachedInside'
  <2>1. \A s \in Seqs \ ToSet(running) : cached'[s] = cached[s]
    BY <1>1, <1>2
  <2>2. \A s \in Seqs : cached'[s] \subseteq IF s \in KV!Registered THEN 1 .. tokens[s] ELSE {}
    BY <1>2, <1>6, <2>1 DEF Context, CachedInside
  <2>3. \A s \in Seqs : cached'[s] \subseteq Nat
    BY <2>2 DEF IInv, TypeOK
  <2> QED  BY <1>1, <2>2, <2>3 DEF CachedInside
<1> QED  BY <1>1, <1>6, <1>7 DEF Context, MidCall, Holding

LEMMA ContextExecuteNothing ==
    ASSUME IInv, Context, ExecuteNothing
    PROVE  Context'
<1>1. /\ pc = "batch" /\ pc' = "idle" /\ running' = running /\ tokens' = tokens
      /\ cached' = cached /\ KV!Registered' = KV!Registered /\ Batch = {}
  BY DEF ExecuteNothing, CallerDone, queues, native, KV!Registered
<1>2. ToSet(running) = {}
  BY <1>1, BatchIsActive DEF MidCall, Batch
<1> QED  BY <1>1, <1>2 DEF Context, CachedInside, MidCall, Holding

LEMMA ContextStep == IInv /\ Lag /\ Evicted /\ Context /\ [PNext]_pipelineVars => Context'
<1> SUFFICES ASSUME IInv, Lag, Evicted, Context, [PNext]_pipelineVars PROVE Context'
  OBVIOUS
<1>1. CASE UNCHANGED pipelineVars
  BY <1>1 DEF pipelineVars, vars, queues, native, Context, CachedInside, Whole,
              AllButLast, CachedUpTo, KV!Registered
<1>2. CASE Client /\ KeepRegistered
  BY <1>2, ContextClient
<1>3. CASE ScheduleStep /\ KeepRegistered
  BY <1>3, ContextBegin, ContextDecodeFree, ContextDecodeAppend, ContextDecodeDone,
     ContextRegister, ContextPromote, ContextPcOnly DEF ScheduleStep
<1>4. CASE ExecuteNothing \/ ExecuteBatch
  BY <1>4, ContextExecute, ContextExecuteNothing
<1> QED  BY <1>1, <1>2, <1>3, <1>4 DEF PNext, Engine

\* Between two steps the KV cache of a running sequence that was never preempted
\* holds the entry of every position of its page table, however blocks are
\* opened, freed and reused around it; one that was preempted holds nothing of
\* its prompt, and then a run of positions without a gap up to its last.
THEOREM CompleteUnlessEvicted == PSpec => []HolesOnlyAfterPreemption
<1>1. PInit => IInv /\ Lag /\ TuneOK /\ Evicted /\ Context
  BY InitOK, LagInit, EvictedInit, ContextInit, TunerAssumption DEF PInit, TuneOK
<1>2. IInv /\ Lag /\ TuneOK /\ Evicted /\ Context /\ [PNext]_pipelineVars
         => IInv' /\ Lag' /\ TuneOK' /\ Evicted' /\ Context'
  BY PipelineStep, StepOK, LagStep, TuneStep, EvictedStep, ContextStep
<1>3. Context => HolesOnlyAfterPreemption
  BY DEF Context, Whole, HolesOnlyAfterPreemption
<1> QED  BY <1>1, <1>2, <1>3, PTL DEF PSpec
=============================================================================
