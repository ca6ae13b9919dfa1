------------------------------ MODULE Pipeline ------------------------------
(***************************************************************************)
(* The scheduler driven by ExecutionPipelineManager.execute_batch_step     *)
(* (nexuscache/server/pipeline_manager.py): every batch is run through the *)
(* model, every sequence of it gets one sampled token, and the scheduler's *)
(* token budget is overwritten with AdaptiveBatchTuner's, which starts     *)
(* from a value of its own.                                                *)
(*                                                                         *)
(* What the kernels leave in the KV cache is kept in cached: for each      *)
(* sequence, the positions that hold the KV entry of the token which is at *)
(* that position of prompt + generated tokens.                             *)
(***************************************************************************)
EXTENDS Scheduler

CONSTANTS
    InitialBudget,  \* initial_token_budget
    MinBudget,      \* min_token_budget
    MaxBudget,      \* max_token_budget
    AdjustEvery     \* the tuner adjusts every 50 steps

ASSUME TunerAssumption ==
    /\ MinBudget \in Nat /\ MaxBudget \in Nat /\ InitialBudget \in MinBudget .. MaxBudget
    /\ MinBudget .. MaxBudget \subseteq Budgets
    /\ AdjustEvery \in Nat \ {0}

VARIABLES
    cached,
    preemptees, \* ghost: the sequences that were ever preempted
    tuned,   \* AdaptiveBatchTuner.current_token_budget
    steps    \* _step_count, of which only the remainder by 50 matters

tuner == <<tuned, steps>>
pipelineVars == <<vars, cached, preemptees, tuner>>

PInit ==
    /\ Init
    /\ cached = [s \in Seqs |-> {}]
    /\ preemptees = {}
    /\ tuned = InitialBudget /\ steps = 0

-----------------------------------------------------------------------------
(* AdaptiveBatchTuner *)

\* int(b * 1.25) and int(b * 0.80) round towards zero.
ScaledUp(b) == IF (b * 5) \div 4 < MaxBudget THEN (b * 5) \div 4 ELSE MaxBudget

\* Mutant: the floor is forgotten.
ScaledDown_NoFloor(b) == (b * 4) \div 5

ScaledDown(b) == IF (b * 4) \div 5 > MinBudget THEN (b * 4) \div 5 ELSE MinBudget

\* How long the step took and how much GPU memory is free is not modelled, so
\* an adjustment goes up, down or nowhere.
UpdateBudget ==
    /\ steps' = (steps + 1) % AdjustEvery
    /\ tuned' \in IF steps' = 0 THEN {ScaledUp(tuned), ScaledDown(tuned), tuned}
                               ELSE {tuned}

-----------------------------------------------------------------------------
(* execute_batch_step *)

\* A freed block may be handed to another sequence, so its content is gone.
KeepRegistered ==
    /\ cached' = [s \in Seqs |-> IF s \in DOMAIN tokens' THEN cached[s] ELSE {}]
    /\ preemptees' = preemptees \cup ToSet(preempted')
    /\ UNCHANGED tuner

\* Mutant: the last position of the prompt is left out of the query.
PrefillWrites_AllButLast(s) == cached[s] \cup (1 .. tokens[s] - 1)

\* Prefill queries the last len(prompt) positions and feeds them the prompt;
\* decode queries the last position and feeds it the last token.
PrefillWrites(s) ==
    LET shift == tokens[s] - req[s].prompt IN
    IF shift = 0 THEN cached[s] \cup (1 .. tokens[s])
                 ELSE cached[s] \ (shift + 1 .. tokens[s])
DecodeWrites(s) ==
    IF tokens[s] = TotalLen(s) THEN cached[s] \cup {tokens[s]}
                               ELSE cached[s] \ {tokens[s]}

\* An empty batch returns before anything else happens.
ExecuteNothing ==
    /\ Batch = {}
    /\ CallerDone({}, budget)
    /\ UNCHANGED <<cached, preemptees, tuner>>

\* With a batch whose slot mapping does not throw: see BatchIsRunnable.
ExecuteBatch ==
    /\ Batch # {}
    /\ UpdateBudget
    /\ CallerDone(Batch, tuned')
    /\ cached' = [s \in Seqs |->
                    IF s \in ToSet(call.prefill) THEN PrefillWrites(s)
                    ELSE IF s \in ToSet(call.decode) THEN DecodeWrites(s)
                    ELSE cached[s]]
    /\ UNCHANGED preemptees

Engine == (ScheduleStep /\ KeepRegistered) \/ ExecuteNothing \/ ExecuteBatch
PNext == Engine \/ (Client /\ KeepRegistered)

PSpec == PInit /\ [][PNext]_pipelineVars

\* The loop that calls schedule and execute_batch_step never stops; clients
\* need not submit or cancel anything.
PFairSpec == PSpec /\ WF_pipelineVars(Engine)

-----------------------------------------------------------------------------
(* Properties *)

\* The page table lags one token behind the sequence, in every order of
\* prefill, decode, preemption, restoring and cancellation: the sampled token
\* gets its slot at the next schedule().
TableLagsByOne ==
    pc = "idle" => \A s \in ToSet(running) : tokens[s] = TotalLen(s) - 1

\* The first last positions hold their entries; of a sequence that was preempted
\* only those from some position n on behind its prompt.
CachedUpTo(s, last) ==
    IF s \in preemptees THEN \E n \in req[s].prompt + 1 .. last + 1 : cached[s] = n .. last
                     ELSE cached[s] = 1 .. last

\* Between two steps the KV cache of a running sequence that was never preempted
\* is complete: every position of the page table holds the entry of its own
\* token, whatever is preempted, restored, cancelled and handed on around it.
\* One that was preempted has no entry of its prompt, and of what it generated
\* those from some position on, with no gap from there to its last position.
HolesOnlyAfterPreemption ==
    pc = "idle" => \A s \in ToSet(running) : CachedUpTo(s, tokens[s])

\* What "Full re-prefill context recovery" promises: the context is complete
\* after a preemption too.
ContextComplete ==
    pc = "idle" => \A s \in ToSet(running) : cached[s] = 1 .. tokens[s]

\* Running out of blocks makes the scheduler preempt; it never makes
\* schedule() raise in the middle of its decode loop.
DecodeNeverRaises == pc = "raised" => call.todo = <<>>

\* Every submitted request finishes, unless schedule() raises: the tuner may
\* lower the budget after a request was accepted, preempted sequences go before
\* waiting ones and evict each other, and still the head of no queue is passed
\* over for ever.  It takes a tuner that stays above the longest sequence.
FinishesOrRaises ==
    \A s \in Seqs : state[s] = "WAITING" ~> state[s] = "FINISHED" \/ pc = "raised"
=============================================================================
