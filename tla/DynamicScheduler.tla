-------------------------- MODULE DynamicScheduler --------------------------
(***************************************************************************)
(* The SLA-aware scheduler (nexuscache/server/dynamic_scheduler.py), a     *)
(* subclass of Scheduler.  It has add_sequence, schedule and the freeing   *)
(* of a sequence of its own: queues are sorted, prompts are matched        *)
(* against a trie of cached prefixes, and when the pool is empty a victim  *)
(* is preempted in place of the sequence that needs a block.  Definitions  *)
(* that begin with D stand for what it overrides; the rest, restoring      *)
(* among it, is inherited.                                                 *)
(*                                                                         *)
(* Scores depend on the clock.  What is kept of them is which of two       *)
(* requests has the higher one at any time (Leads), and which requests     *)
(* have waited for most of their SLA (late).  Prefix caching is on, as by  *)
(* default.                                                                *)
(***************************************************************************)
EXTENDS Scheduler

CONSTANTS
    Priority,   \* PriorityLevel of each sequence, 0 for CRITICAL to 3 for LOW
    Sla,        \* its sla_target_ttft_ms
    Text,       \* the text it is a part of: those of one text share prefixes
    MinMatch    \* min_prefix_match_tokens

Texts == {Text[s] : s \in Seqs}

ASSUME DynamicAssumption ==
    /\ Priority \in [Seqs -> 0 .. 3]
    /\ Sla \in [Seqs -> Nat \ {0}]
    /\ MinMatch \in Nat
    /\ Text \in [Seqs -> Texts]

VARIABLES
    arrived,   \* the sequences by arrival_time
    depth,     \* the trie: how many blocks of each text it has
    computed,  \* computed_prefix_tokens
    late,      \* the sequences that have waited for most of their SLA
    evicted,   \* schedule(): preempted_ids
    granted,   \* schedule(): a victim has made room for the current sequence
    idx,       \* schedule(): the position in waiting_queue
    alone      \* schedule(): the admission is an emergency

requestVars == <<arrived, depth, computed, late>>
localVars == <<evicted, granted, idx, alone>>
dynamicVars == <<requestVars, localVars>>
dVars == <<vars, dynamicVars>>

NoLocals == evicted' = {} /\ granted' = FALSE /\ idx' = 1 /\ alone' = FALSE

DInit ==
    /\ Init
    /\ arrived = <<>>
    /\ depth = [x \in Texts |-> 0]
    /\ computed = [s \in Seqs |-> 0]
    /\ late = {}
    /\ evicted = {} /\ granted = FALSE /\ idx = 1 /\ alone = FALSE

-----------------------------------------------------------------------------
(* Orders *)

Position(q, s) == CHOOSE i \in DOMAIN q : q[i] = s

Earlier(s, t) == Position(arrived, s) < Position(arrived, t)

\* s has waited for more of its SLA than t.
WaitedMore(s, t) == Earlier(s, t) /\ Sla[s] <= Sla[t]

\* calculate_scheduling_score grows with the tier, with the share of the SLA a
\* request has waited for and with its cached prefix.
Leads(s, t) ==
    WaitedMore(s, t) /\ Priority[s] <= Priority[t] /\ computed[s] >= computed[t]

\* The key running_queue is sorted by.
RunsBefore(s, t) ==
    Priority[s] < Priority[t] \/ (Priority[s] = Priority[t] /\ Earlier(s, t))

\* r is q in an order that agrees with Before.
Sorted(q, r, Before(_, _)) ==
    /\ Len(r) = Len(q) /\ ToSet(r) = ToSet(q)
    /\ \A i, j \in DOMAIN r : i < j => ~Before(r[j], r[i])

Arrangements(q) == [DOMAIN q -> ToSet(q)]

-----------------------------------------------------------------------------
(* The prefix trie *)

\* match_prefix: the tokens of s that the trie has, in whole blocks.
Matched(s) ==
    LET n == BlockSize * depth[Text[s]]
    IN  IF n <= req[s].prompt THEN n ELSE req[s].prompt - (req[s].prompt % BlockSize)

\* Mutant: insertion goes on below what the trie has.
Insert_Below(s) ==
    LET whole == TotalLen(s) \div BlockSize
        held == KV!BlocksFor(tokens[s])
        n == IF whole <= held THEN whole ELSE held
    IN  depth' = [depth EXCEPT ![Text[s]] = @ + n]

\* insert_prefix: the whole blocks of prompt and generated tokens.
Insert(s) ==
    LET whole == TotalLen(s) \div BlockSize
        held == KV!BlocksFor(tokens[s])
        n == IF whole <= held THEN whole ELSE held
    IN  depth' = [depth EXCEPT ![Text[s]] = IF @ >= n THEN @ ELSE n]

\* get_block_table throws for a sequence that is not registered.
DFree(s) ==
    /\ s \in KV!Registered
    /\ Insert(s)

-----------------------------------------------------------------------------
(* The client API *)

AddDynamicSequence(s) ==
    /\ AddSequence(s)
    /\ arrived' = Append(arrived, s)
    /\ computed' = [computed EXCEPT ![s] = IF Matched(s) >= MinMatch THEN Matched(s) ELSE 0]
    /\ UNCHANGED <<depth, late, localVars>>

\* Cancelling a sequence that is not running throws and changes nothing.
DFinishSequence(s) ==
    /\ DFree(s)
    /\ FinishSequence(s)
    /\ UNCHANGED <<arrived, computed, late, localVars>>

\* Time passes.
Age(s) ==
    /\ pc = "idle"
    /\ s \in ToSet(waiting) \ late
    /\ \A t \in ToSet(waiting) : WaitedMore(t, s) => t \in late
    /\ late' = late \cup {s}
    /\ UNCHANGED <<vars, arrived, depth, computed, localVars>>

-----------------------------------------------------------------------------
(* schedule(), decode phase *)

DBegin ==
    /\ pc = "idle"
    /\ pc' = "decode"
    /\ running' \in {r \in Arrangements(running) : Sorted(running, r, RunsBefore)}
    /\ call' = [Locals(avail) EXCEPT !.todo = running']
    /\ UNCHANGED <<req, state, gen, waiting, preempted, known, budget, native, dynamicVars>>

\* The sequence the loop has reached is not one of those preempted meanwhile.
DDeciding == Deciding /\ Reached \notin evicted

DecodeSkip ==
    /\ Deciding /\ Reached \in evicted
    /\ call' = [call EXCEPT !.todo = Tail(@)]
    /\ UNCHANGED <<req, state, gen, queues, known, budget, native, pc, dynamicVars>>

DDecodeFinished ==
    /\ DDeciding /\ ~granted
    /\ DFree(Reached)
    /\ DecodeFinished
    /\ UNCHANGED <<arrived, computed, late, localVars>>

Candidates == ToSet(running) \ (evicted \cup {Reached})

\* Lower classes first, then larger sequences, then by position.
BetterVictim(s, t) ==
    \/ Priority[s] > Priority[t]
    \/ Priority[s] = Priority[t] /\ RequiredBlocks(s) > RequiredBlocks(t)
    \/ /\ Priority[s] = Priority[t] /\ RequiredBlocks(s) = RequiredBlocks(t)
       /\ Position(running, s) < Position(running, t)

\* _select_preemption_victim.
IsVictim(v) == v \in Candidates /\ \A t \in Candidates \ {v} : BetterVictim(v, t)

\* Mutant: the victim stays in retained_running.
DecodeEvict_Retained(v) ==
    /\ DDeciding /\ ~granted
    /\ ~IsFinished(Reached) /\ MustPreempt(Reached)
    /\ IsVictim(v)
    /\ PreemptSequence(v)
    /\ evicted' = evicted \cup {v} /\ granted' = TRUE
    /\ call' = [call EXCEPT !.free = @ + RequiredBlocks(v)]
    /\ UNCHANGED <<req, gen, waiting, running, known, budget, pc, requestVars, idx, alone>>

\* Mutant: the victim is not noted in preempted_ids.
DecodeEvict_Unnoted(v) ==
    /\ DDeciding /\ ~granted
    /\ ~IsFinished(Reached) /\ MustPreempt(Reached)
    /\ IsVictim(v)
    /\ PreemptSequence(v)
    /\ granted' = TRUE
    /\ call' = [call EXCEPT !.free = @ + RequiredBlocks(v), !.retained = Dropped(@, v)]
    /\ UNCHANGED <<req, gen, waiting, running, known, budget, pc, requestVars, evicted,
                   idx, alone>>

\* The victim may have been decoded, or even finished, earlier in this loop; it
\* stays in the decode batch.
DecodeEvict(v) ==
    /\ DDeciding /\ ~granted
    /\ ~IsFinished(Reached) /\ MustPreempt(Reached)
    /\ IsVictim(v)
    /\ PreemptSequence(v)
    /\ evicted' = evicted \cup {v} /\ granted' = TRUE
    /\ call' = [call EXCEPT !.free = @ + RequiredBlocks(v), !.retained = Dropped(@, v)]
    /\ UNCHANGED <<req, gen, waiting, running, known, budget, pc, requestVars, idx, alone>>

DDecodePreempt ==
    /\ DDeciding /\ ~granted /\ Candidates = {}
    /\ DecodePreempt
    /\ evicted' = evicted \cup {Reached}
    /\ UNCHANGED <<requestVars, granted, idx, alone>>

Proceeds == ~IsFinished(Reached) /\ (granted \/ ~MustPreempt(Reached))

DDecodeAppend ==
    /\ DDeciding /\ Proceeds
    /\ KV!Grow(Reached, 1)
    /\ state' = [state EXCEPT ![Reached] = "DECODE"]
    /\ call' = [call EXCEPT !.todo = Tail(@),
                            !.free = IF NeedsNewBlock(Reached) THEN @ - 1 ELSE @,
                            !.batched = @ + 1,
                            !.decode = Append(@, Reached),
                            !.retained = Append(@, Reached)]
    /\ granted' = FALSE
    /\ UNCHANGED <<req, gen, queues, known, budget, pc, requestVars, evicted, idx, alone>>

DDecodeRaise ==
    /\ DDeciding /\ Proceeds
    /\ ~KV!CanGrow(Reached, 1)
    /\ pc' = "raised"
    /\ UNCHANGED <<req, state, gen, queues, known, budget, native, call, dynamicVars>>

-----------------------------------------------------------------------------
(* schedule(), admission *)

\* waiting_queue is sorted when the preempted sequences have been restored.
DRestoreDone ==
    /\ pc = "restore" /\ ~CanRestore
    /\ pc' = "admit"
    /\ waiting' \in {r \in Arrangements(waiting) : Sorted(waiting, r, Leads)}
    /\ UNCHANGED <<req, state, gen, running, preempted, known, budget, native, call, dynamicVars>>

Candidate == waiting[idx]

Considers == pc = "admit" /\ idx <= Len(waiting) /\ Len(running) < MaxNumSeqs

\* remaining_prefill_tokens.
Effective(s) == IF computed[s] <= req[s].prompt THEN req[s].prompt - computed[s] ELSE 0

OverBudget(s) == call.batched + Effective(s) > budget
HasBlocks(s) == call.free >= RequiredBlocks(s)
Emergency(s) == s \in late /\ call.prefill = <<>> /\ HasBlocks(s)

\* Mutant: a request without blocks is passed over like one over budget.
AdmitSkip_NoBlocks ==
    /\ Considers
    /\ OverBudget(Candidate) \/ ~HasBlocks(Candidate)
    /\ ~Emergency(Candidate)
    /\ idx' = idx + 1
    /\ UNCHANGED <<vars, requestVars, evicted, granted, alone>>

AdmitSkip ==
    /\ Considers
    /\ OverBudget(Candidate) /\ ~Emergency(Candidate)
    /\ idx' = idx + 1
    /\ UNCHANGED <<vars, requestVars, evicted, granted, alone>>

DAdmitRegister ==
    /\ Considers
    /\ IF OverBudget(Candidate) THEN Emergency(Candidate) ELSE HasBlocks(Candidate)
    /\ KV!Register(Candidate)
    /\ waiting' = RemoveAt(waiting, idx)
    /\ call' = [call EXCEPT !.popped = <<Candidate>>]
    /\ alone' = OverBudget(Candidate)
    /\ pc' = "admitting"
    /\ UNCHANGED <<req, state, gen, running, preempted, known, budget, requestVars,
                   evicted, granted, idx>>

\* An emergency ends the pass.
DAdmitAppend ==
    /\ pc = "admitting"
    /\ LET s == Head(call.popped) IN
        /\ KV!Grow(s, req[s].prompt)
        /\ Promote(s)
        /\ call' = [call EXCEPT !.popped = <<>>,
                                !.prefill = Append(@, s),
                                !.free = @ - RequiredBlocks(s),
                                !.batched = @ + Effective(s)]
    /\ pc' = IF alone THEN "batch" ELSE "admit"
    /\ UNCHANGED <<req, gen, waiting, preempted, known, budget, dynamicVars>>

DAdmitDone ==
    /\ pc = "admit"
    /\ Considers => ~OverBudget(Candidate) /\ ~HasBlocks(Candidate)
    /\ pc' = "batch"
    /\ UNCHANGED <<req, state, gen, queues, known, budget, native, call, dynamicVars>>

-----------------------------------------------------------------------------

Inherited ==
    /\ DecodeDone \/ RestoreRegister \/ RestoreAppend \/ RestoreRaise \/ AdmitRaise
    /\ UNCHANGED dynamicVars

\* The caller is done with the batch, and the locals of schedule() are gone.
DCaller ==
    /\ Caller
    /\ NoLocals
    /\ UNCHANGED requestVars

DScheduleStep ==
    \/ DBegin
    \/ DecodeSkip \/ DDecodeFinished \/ DDecodePreempt \/ DDecodeAppend \/ DDecodeRaise
    \/ \E v \in Seqs : DecodeEvict(v)
    \/ DRestoreDone
    \/ AdmitSkip \/ DAdmitRegister \/ DAdmitAppend \/ DAdmitDone

DNext ==
    \/ DScheduleStep \/ Inherited \/ DCaller
    \/ \E s \in Seqs : AddDynamicSequence(s) \/ DFinishSequence(s) \/ Age(s)

DSpec == DInit /\ [][DNext]_dVars

-----------------------------------------------------------------------------
(* Properties *)

DTypeOK ==
    /\ TypeOK
    /\ arrived \in Seq(Seqs)
    /\ depth \in [Texts -> Nat]
    /\ computed \in [Seqs -> Nat]
    /\ late \subseteq Seqs /\ evicted \subseteq Seqs
    /\ granted \in BOOLEAN /\ alone \in BOOLEAN
    /\ idx \in Nat \ {0}

\* The sequences that count as running: a victim does not, wherever the decode
\* loop has left it.
DActive ==
    CASE pc = "decode" -> (ToSet(call.todo) \ evicted) \cup ToSet(call.retained)
      [] pc \in {"restoring", "admitting"} -> ToSet(running) \cup ToSet(call.popped)
      [] OTHER -> ToSet(running)

\* Preempting others in the middle of the decode loop, before or after their
\* turn, leaks no block and takes none from a sequence that goes on running.
DRunningHoldsKV == pc # "raised" => KV!Registered = DActive

\* Everything sequence_map knows is in one place, from which it can still be
\* scheduled: a victim is in preempted_queue, once, and nowhere else.
DInOnePlace ==
    pc # "raised" =>
        /\ IsInjective(waiting) /\ IsInjective(preempted) /\ IsInjective(running)
        /\ ToSet(waiting) \cap ToSet(preempted) = {}
        /\ DActive \cap (ToSet(waiting) \cup ToSet(preempted)) = {}
        /\ known \subseteq DActive \cup ToSet(waiting) \cup ToSet(preempted)

\* Nothing overtakes in admission: whoever has the higher score and is still
\* waiting exceeds the token budget, and not the pool.
NoOvertaking ==
    pc = "admitting" =>
        \A s \in ToSet(call.popped), t \in ToSet(waiting) : Leads(t, s) => OverBudget(t)

\* What the trie gains is a prefix of a sequence that still holds the KV of all
\* of it but the last token, which may have been sampled and not yet decoded.
TrieFollowsKV ==
    [][\A x \in Texts : depth'[x] > depth[x] =>
           \E s \in KV!Registered : Text[s] = x /\ tokens[s] + 1 >= BlockSize * depth'[x]]_dVars
=============================================================================
