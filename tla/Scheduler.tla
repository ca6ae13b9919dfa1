------------------------------ MODULE Scheduler ------------------------------
(***************************************************************************)
(* The iteration-level continuous-batching scheduler                       *)
(* (nexuscache/server/scheduler.py) on top of the native memory subsystem. *)
(*                                                                         *)
(* schedule() runs to completion on one thread, but any of its native      *)
(* calls may throw out of it and leave the queues as they are at that      *)
(* point.  So a call is a sequence of steps, one per loop iteration and    *)
(* at most one native call per step; pc says where it is:                  *)
(*                                                                         *)
(*   idle -> decode -> restore <-> restoring                               *)
(*                     restore -> admit <-> admitting                      *)
(*                                admit -> batch -> idle                   *)
(*                                                                         *)
(* and "raised" is where an exception has left schedule().  In "batch" the *)
(* caller has the BatchOutput; what it does with it is left open here (it  *)
(* appends a token to some of the sequences of the batch and may change    *)
(* config.max_num_batched_tokens).  Pipeline closes it.                    *)
(***************************************************************************)
EXTENDS Integers, SequencesExt

CONSTANTS
    Seqs,          \* Sequence objects, one per client request, distinct ids
    Requests,      \* [prompt, maxNew] records clients may submit
    NumBlocks,     \* physical KV blocks
    BlockSize,     \* config.block_size
    MaxNumSeqs,    \* config.max_num_seqs
    ConfigBudget,  \* config.max_num_batched_tokens as configured
    Budgets        \* the values the caller may overwrite it with

ASSUME SchedulerAssumption ==
    /\ Requests \subseteq [prompt : Nat, maxNew : Nat]
    /\ NumBlocks \in Nat \ {0} /\ BlockSize \in Nat \ {0}
    /\ MaxNumSeqs \in Nat
    /\ ConfigBudget \in Nat /\ Budgets \subseteq Nat

VARIABLES
    req,        \* the request each client submits, fixed in advance
    state,      \* Sequence.state, or "NEW" before add_sequence
    gen,        \* len(Sequence.generated_token_ids)
    waiting,    \* waiting_queue
    running,    \* running_queue
    preempted,  \* preempted_queue
    known,      \* the keys of sequence_map
    budget,     \* config.max_num_batched_tokens
    avail,      \* BlockManager.get_num_free_blocks()
    tokens,     \* page table: registered sequence |-> its length
    pc,         \* where schedule() is
    call        \* its local variables

queues == <<waiting, running, preempted>>
native == <<avail, tokens>>
vars == <<req, state, gen, queues, known, budget, native, pc, call>>

\* The page table, called by one thread: free_sequence is atomic.
KV == INSTANCE KVCapacity WITH
    Threads <- {}, inFlight <- <<>>, AppendSizes <- Nat

-----------------------------------------------------------------------------
(* Sequence *)

TotalLen(s) == req[s].prompt + gen[s]
RequiredBlocks(s) == KV!BlocksFor(TotalLen(s))
IsFinished(s) == gen[s] >= req[s].maxNew \/ state[s] = "FINISHED"

\* The scheduler's test for a token that opens a new block.
NeedsNewBlock(s) == TotalLen(s) % BlockSize = 0

States == {"NEW", "WAITING", "PREFILL", "DECODE", "PREEMPTED", "FINISHED"}
Unregistered == Seqs \ KV!Registered

\* Mutant: the blocks stay with the sequence.
FreeIfRegistered_Leaks(s) == UNCHANGED native

\* free_sequence behind the has_sequence test that guards every use of it.
FreeIfRegistered(s) ==
    IF s \in KV!Registered THEN KV!Free(s) ELSE UNCHANGED native

\* _free_sequence_resources.
FreeSequenceResources(s) ==
    /\ FreeIfRegistered(s)
    /\ state' = [state EXCEPT ![s] = "FINISHED"]
    /\ known' = known \ {s}

\* Mutant: the sequence is gone from every queue, nobody has it any more.
PreemptSequence_Forgets(s) ==
    /\ FreeIfRegistered(s)
    /\ state' = [state EXCEPT ![s] = "PREEMPTED"]
    /\ UNCHANGED preempted

\* _preempt_sequence.
PreemptSequence(s) ==
    /\ FreeIfRegistered(s)
    /\ state' = [state EXCEPT ![s] = "PREEMPTED"]
    /\ preempted' = Append(preempted, s)

\* list.remove; a queue has no duplicates.
Dropped(q, s) ==
    IF s \in ToSet(q) THEN RemoveAt(q, CHOOSE i \in DOMAIN q : q[i] = s) ELSE q

\* The locals of schedule(): the rest of running_queue, retained_running, the
\* two batches, the sequence popped from a queue but not yet in a batch, the
\* two counters, and the copies of the counters _schedule_preempted works on.
Locals(free) ==
    [todo |-> <<>>, retained |-> <<>>, prefill |-> <<>>, decode |-> <<>>,
     popped |-> <<>>, free |-> free, batched |-> 0,
     argFree |-> 0, argBatched |-> 0]

Init ==
    /\ req \in [Seqs -> Requests]
    /\ state = [s \in Seqs |-> "NEW"]
    /\ gen = [s \in Seqs |-> 0]
    /\ waiting = <<>> /\ running = <<>> /\ preempted = <<>>
    /\ known = {}
    /\ budget = ConfigBudget
    /\ avail = NumBlocks
    /\ tokens = [s \in {} |-> 0]
    /\ pc = "idle"
    /\ call = Locals(0)

-----------------------------------------------------------------------------
(* The client API: add_sequence and finish_sequence *)

AddSequence(s) ==
    /\ pc = "idle"
    /\ state[s] = "NEW"
    /\ state' = [state EXCEPT ![s] = "WAITING"]
    /\ waiting' = Append(waiting, s)
    /\ known' = known \cup {s}
    /\ UNCHANGED <<req, gen, running, preempted, budget, native, pc, call>>

\* preempted_queue is not looked at.
FinishSequence(s) ==
    /\ pc = "idle"
    /\ s \in known
    /\ FreeSequenceResources(s)
    /\ running' = Dropped(running, s)
    /\ waiting' = Dropped(waiting, s)
    /\ UNCHANGED <<req, gen, preempted, budget, pc, call>>

-----------------------------------------------------------------------------
(* schedule(), decode phase *)

Begin ==
    /\ pc = "idle"
    /\ pc' = "decode"
    /\ call' = [Locals(avail) EXCEPT !.todo = running]
    /\ UNCHANGED <<req, state, gen, queues, known, budget, native>>

\* The sequence the loop has reached.
Reached == Head(call.todo)
Deciding == pc = "decode" /\ call.todo # <<>>
MustPreempt(s) == NeedsNewBlock(s) /\ call.free < 1

DecodeFinished ==
    /\ Deciding
    /\ IsFinished(Reached)
    /\ FreeSequenceResources(Reached)
    /\ call' = [call EXCEPT !.todo = Tail(@)]
    /\ UNCHANGED <<req, gen, queues, budget, pc>>

\* Mutant: the continue is missing, and the sequence stays in the batch.
DecodePreempt_StaysInBatch ==
    /\ Deciding
    /\ ~IsFinished(Reached) /\ MustPreempt(Reached)
    /\ PreemptSequence(Reached)
    /\ call' = [call EXCEPT !.todo = Tail(@), !.decode = Append(@, Reached)]
    /\ UNCHANGED <<req, gen, waiting, running, known, budget, pc>>

DecodePreempt ==
    /\ Deciding
    /\ ~IsFinished(Reached) /\ MustPreempt(Reached)
    /\ PreemptSequence(Reached)
    /\ call' = [call EXCEPT !.todo = Tail(@)]
    /\ UNCHANGED <<req, gen, waiting, running, known, budget, pc>>

DecodeAppend ==
    /\ Deciding
    /\ LET s == Reached IN
        /\ ~IsFinished(s)
        /\ ~MustPreempt(s)
        /\ KV!Grow(s, 1)
        /\ state' = [state EXCEPT ![s] = "DECODE"]
        /\ call' = [call EXCEPT !.todo = Tail(@),
                                !.free = IF NeedsNewBlock(s) THEN @ - 1 ELSE @,
                                !.batched = @ + 1,
                                !.decode = Append(@, s),
                                !.retained = Append(@, s)]
    /\ UNCHANGED <<req, gen, queues, known, budget, pc>>

DecodeRaise ==
    /\ Deciding
    /\ ~IsFinished(Reached) /\ ~MustPreempt(Reached)
    /\ ~KV!CanGrow(Reached, 1)
    /\ pc' = "raised"
    /\ UNCHANGED <<req, state, gen, queues, known, budget, native, call>>

\* running_queue is replaced only here; _schedule_preempted gets the counters
\* by value.
DecodeDone ==
    /\ pc = "decode" /\ call.todo = <<>>
    /\ pc' = "restore"
    /\ running' = call.retained
    /\ call' = [call EXCEPT !.argFree = call.free, !.argBatched = call.batched]
    /\ UNCHANGED <<req, state, gen, waiting, preempted, known, budget, native>>

-----------------------------------------------------------------------------
(* schedule(), restoring preempted sequences and admitting waiting ones *)

\* A prefill sequence counts twice here: it is in the batch and in
\* running_queue.
HasSlotFor == Len(running) + Len(call.prefill) < MaxNumSeqs

CanRestore ==
    /\ preempted # <<>> /\ HasSlotFor
    /\ call.argBatched + TotalLen(Head(preempted)) <= budget
    /\ call.argFree >= RequiredBlocks(Head(preempted))

RestoreRegister ==
    /\ pc = "restore" /\ CanRestore
    /\ KV!Register(Head(preempted))
    /\ preempted' = Tail(preempted)
    /\ call' = [call EXCEPT !.popped = <<Head(preempted)>>]
    /\ pc' = "restoring"
    /\ UNCHANGED <<req, state, gen, waiting, running, known, budget>>

\* What the two loops do alike once the native calls have returned.
Promote(s) ==
    /\ state' = [state EXCEPT ![s] = "PREFILL"]
    /\ running' = Append(running, s)

\* Mutant: only the prompt is mapped again.
RestoreAppend_PromptOnly ==
    /\ pc = "restoring"
    /\ LET s == Head(call.popped) IN
        /\ KV!Grow(s, req[s].prompt)
        /\ Promote(s)
        /\ call' = [call EXCEPT !.popped = <<>>,
                                !.prefill = Append(@, s),
                                !.argFree = @ - RequiredBlocks(s),
                                !.argBatched = @ + TotalLen(s)]
    /\ pc' = "restore"
    /\ UNCHANGED <<req, gen, waiting, preempted, known, budget>>

RestoreAppend ==
    /\ pc = "restoring"
    /\ LET s == Head(call.popped) IN
        /\ KV!Grow(s, TotalLen(s))
        /\ Promote(s)
        /\ call' = [call EXCEPT !.popped = <<>>,
                                !.prefill = Append(@, s),
                                !.argFree = @ - RequiredBlocks(s),
                                !.argBatched = @ + TotalLen(s)]
    /\ pc' = "restore"
    /\ UNCHANGED <<req, gen, waiting, preempted, known, budget>>

RestoreRaise ==
    /\ pc = "restoring"
    /\ LET s == Head(call.popped) IN ~KV!CanGrow(s, TotalLen(s))
    /\ pc' = "raised"
    /\ UNCHANGED <<req, state, gen, queues, known, budget, native, call>>

RestoreDone ==
    /\ pc = "restore" /\ ~CanRestore
    /\ pc' = "admit"
    /\ UNCHANGED <<req, state, gen, queues, known, budget, native, call>>

CanAdmit ==
    /\ waiting # <<>> /\ HasSlotFor
    /\ call.batched + req[Head(waiting)].prompt <= budget
    /\ call.free >= RequiredBlocks(Head(waiting))

\* Mutant: the sequence is looked at and not popped.
AdmitRegister_Peeks ==
    /\ pc = "admit" /\ CanAdmit
    /\ KV!Register(Head(waiting))
    /\ call' = [call EXCEPT !.popped = <<Head(waiting)>>]
    /\ pc' = "admitting"
    /\ UNCHANGED <<req, state, gen, queues, known, budget>>

AdmitRegister ==
    /\ pc = "admit" /\ CanAdmit
    /\ KV!Register(Head(waiting))
    /\ waiting' = Tail(waiting)
    /\ call' = [call EXCEPT !.popped = <<Head(waiting)>>]
    /\ pc' = "admitting"
    /\ UNCHANGED <<req, state, gen, running, preempted, known, budget>>

AdmitAppend ==
    /\ pc = "admitting"
    /\ LET s == Head(call.popped) IN
        /\ KV!Grow(s, req[s].prompt)
        /\ Promote(s)
        /\ call' = [call EXCEPT !.popped = <<>>,
                                !.prefill = Append(@, s),
                                !.free = @ - RequiredBlocks(s),
                                !.batched = @ + req[s].prompt]
    /\ pc' = "admit"
    /\ UNCHANGED <<req, gen, waiting, preempted, known, budget>>

AdmitRaise ==
    /\ pc = "admitting"
    /\ LET s == Head(call.popped) IN ~KV!CanGrow(s, req[s].prompt)
    /\ pc' = "raised"
    /\ UNCHANGED <<req, state, gen, queues, known, budget, native, call>>

AdmitDone ==
    /\ pc = "admit" /\ ~CanAdmit
    /\ pc' = "batch"
    /\ UNCHANGED <<req, state, gen, queues, known, budget, native, call>>

ScheduleStep ==
    \/ Begin
    \/ DecodeFinished \/ DecodePreempt \/ DecodeAppend \/ DecodeRaise \/ DecodeDone
    \/ RestoreRegister \/ RestoreAppend \/ RestoreRaise \/ RestoreDone
    \/ AdmitRegister \/ AdmitAppend \/ AdmitRaise \/ AdmitDone

-----------------------------------------------------------------------------
(* The caller *)

Batch == ToSet(call.prefill) \cup ToSet(call.decode)

\* The caller is done with the batch: it has appended a token to the
\* sequences in sampled and left the budget at b.
CallerDone(sampled, b) ==
    /\ pc = "batch"
    /\ gen' = [s \in Seqs |-> IF s \in sampled THEN gen[s] + 1 ELSE gen[s]]
    /\ budget' = b
    /\ pc' = "idle"
    /\ call' = Locals(0)
    /\ UNCHANGED <<req, state, queues, known, native>>

Client == \E s \in Seqs : AddSequence(s) \/ FinishSequence(s)
Caller == \E sampled \in SUBSET Batch, b \in Budgets \cup {budget} :
             CallerDone(sampled, b)

Next == ScheduleStep \/ Client \/ Caller

Spec == Init /\ [][Next]_vars

-----------------------------------------------------------------------------
(* Properties *)

TypeOK ==
    /\ req \in [Seqs -> Requests]
    /\ state \in [Seqs -> States]
    /\ gen \in [Seqs -> Nat]
    /\ waiting \in Seq(Seqs) /\ running \in Seq(Seqs) /\ preempted \in Seq(Seqs)
    /\ known \subseteq Seqs
    /\ budget \in Nat
    /\ avail \in Nat
    /\ KV!Registered \subseteq Seqs /\ tokens \in [KV!Registered -> Nat]
    /\ pc \in {"idle", "decode", "restore", "restoring", "admit", "admitting",
               "batch", "raised"}
    /\ call \in [todo : Seq(Seqs), retained : Seq(Seqs), prefill : Seq(Seqs),
                 decode : Seq(Seqs), popped : Seq(Seqs), free : Int,
                 batched : Nat, argFree : Int, argBatched : Nat]

\* The sequences that count as running at each point of schedule(): while the
\* decode loop is under way, running_queue is stale.
Active ==
    CASE pc = "decode" -> ToSet(call.todo) \cup ToSet(call.retained)
      [] pc \in {"restoring", "admitting"} -> ToSet(running) \cup ToSet(call.popped)
      [] OTHER -> ToSet(running)

\* KV blocks belong to running sequences and to no other: a finished,
\* cancelled, preempted or waiting sequence holds none, and every running one
\* is registered.  A path that forgets to free leaks blocks for good, because
\* nothing else ever frees them.
RunningHoldsKV == pc # "raised" => KV!Registered = Active

\* A sequence is in one queue at most, and there once: it cannot be scheduled
\* twice in a step or be restored and admitted.
QueuesDisjoint ==
    pc # "raised" =>
        /\ IsInjective(waiting) /\ IsInjective(preempted) /\ IsInjective(running)
        /\ ToSet(waiting) \cap ToSet(preempted) = {}
        /\ Active \cap (ToSet(waiting) \cup ToSet(preempted)) = {}

\* No request is lost: what sequence_map knows is in a queue or in the hands
\* of schedule(), so it is scheduled again.
NoRequestLost ==
    pc # "raised" =>
        known \subseteq Active \cup ToSet(waiting) \cup ToSet(preempted)

\* The batch is at most max_num_seqs wide.
WithinMaxNumSeqs == Len(running) <= MaxNumSeqs

\* No sequence generates more than max_new_tokens, except that prefill itself
\* yields a first one.
WithinMaxNewTokens ==
    \A s \in Seqs : gen[s] <= req[s].maxNew \/ gen[s] = 1

\* The batch can be executed: it is within max_num_seqs, its sequences are
\* distinct, registered, and as long as the query the kernels will ask the slot
\* mapping for.
BatchIsRunnable ==
    pc = "batch" =>
        /\ WithinMaxNumSeqs
        /\ IsInjective(call.prefill \o call.decode)
        /\ Batch \subseteq KV!Registered
        /\ \A s \in ToSet(call.prefill) : tokens[s] >= req[s].prompt
        /\ \A s \in ToSet(call.decode) : tokens[s] >= 1
=============================================================================
