-------------------------- MODULE ABTestingHarness --------------------------
(***************************************************************************)
(* analytics/ab_testing_harness.py: one task per request of a workload,    *)
(* admitted by an asyncio.Semaphore, drives a cache engine and reports the *)
(* engine-wide hit and miss counters' growth while it was served as its    *)
(* own; the benchmarks of the two strategies share the harness.  A task    *)
(* runs from one await to the next without interruption, so a step here is *)
(* such a stretch.  Latencies and generated tokens are left out.           *)
(***************************************************************************)
EXTENDS Integers, Sequences, SequencesExt, FiniteSets, Functions

CONSTANTS
    Requests,      \* the workload
    PromptTokens,  \* prompt_tokens of each request
    SharesPrefix,  \* the requests whose prefix_block_ids are not empty
    Strategies,    \* the benchmarks main() runs, in order
    Reach,         \* tokens of a shared prefix a strategy's cache serves
    Limit,         \* concurrency_limit
    MayFail        \* the requests the candidate engine may raise on

ASSUME WorkloadAssumption ==
    /\ IsFiniteSet(Requests) /\ Strategies \in Seq(STRING)
    /\ PromptTokens \in [Requests -> Nat \ {0}] /\ Limit \in Nat \ {0}
    /\ Reach \in [1 .. Len(Strategies) -> Nat]
    /\ SharesPrefix \subseteq Requests /\ MayFail \subseteq Requests

VARIABLES
    run,      \* the benchmark under way, past the last one when all are done
    raised,   \* run_benchmark raised: every request failed
    stage,    \* how far the task of a request is
    slots,    \* semaphore._value
    waiters,  \* semaphore._waiters that are not woken
    granted,  \* the woken ones, which have a slot but have not resumed
    lookups,  \* the engine's cache_hits and cache_misses
    initial,  \* the reading a task took of them when it was admitted
    metric    \* the hits and misses of the RequestMetric of a request

semaphore == <<slots, waiters, granted>>
abVars == <<run, raised, stage, slots, waiters, granted, lookups, initial, metric>>

Ended == {"ok", "failed"}
Zero == [hits |-> 0, misses |-> 0]
Plus(a, b) == [hits |-> a.hits + b.hits, misses |-> a.misses + b.misses]
Minus(a, b) == [hits |-> a.hits - b.hits, misses |-> a.misses - b.misses]
Total(a) == a.hits + a.misses

Zeros == [r \in Requests |-> Zero]
AllArriving == [r \in Requests |-> "arriving"]

ABInit ==
    /\ run = 1 /\ raised = FALSE
    /\ slots = Limit /\ waiters = <<>> /\ granted = {}
    /\ stage = AllArriving
    /\ lookups = Zero /\ initial = Zeros /\ metric = Zeros

-----------------------------------------------------------------------------
(* asyncio.Semaphore: slots are handed over in the order of arrival *)

\* Of k free slots hand over at most n, holders being woken already.
Wake(k, n, holders) ==
    LET given == CHOOSE g \in 0 .. Len(waiters) :
                    /\ g <= n /\ g <= k
                    /\ g \in {n, k, Len(waiters)}
    IN  /\ granted' = holders \cup ToSet(SubSeq(waiters, 1, given))
        /\ waiters' = SubSeq(waiters, given + 1, Len(waiters))
        /\ slots' = k - given

Release == Wake(slots + 1, 1, granted)

-----------------------------------------------------------------------------
(* A request *)

\* What MockCacheEngine.process_request looks up for a request.
OwnLookups(r) ==
    LET hits == IF r \notin SharesPrefix THEN 0
                ELSE IF PromptTokens[r] <= Reach[run] THEN PromptTokens[r]
                ELSE Reach[run]
    IN  [hits |-> hits, misses |-> PromptTokens[r] - hits]

\* Mutant: the first reading is unpacked in the wrong order.
Begin_SwapsReading(r) ==
    /\ stage' = [stage EXCEPT ![r] = "serving"]
    /\ initial' = [initial EXCEPT ![r] = [hits |-> lookups.misses, misses |-> lookups.hits]]
    /\ lookups' = Plus(lookups, OwnLookups(r))
    /\ UNCHANGED <<run, raised, metric>>

Running == run <= Len(Strategies) /\ ~raised

\* From the semaphore to the engine's first await.
Begin(r) ==
    /\ stage' = [stage EXCEPT ![r] = "serving"]
    /\ initial' = [initial EXCEPT ![r] = lookups]
    /\ lookups' = Plus(lookups, OwnLookups(r))
    /\ UNCHANGED <<run, raised, metric>>

\* The arrival offset has passed and a slot is free.
Enter(r) ==
    /\ Running /\ stage[r] = "arriving"
    /\ slots > 0 /\ waiters = <<>> /\ granted = {}
    /\ slots' = slots - 1
    /\ UNCHANGED <<waiters, granted>>
    /\ Begin(r)

\* The arrival offset has passed and none is free, or others came first.
Wait(r) ==
    /\ Running /\ stage[r] = "arriving"
    /\ slots = 0 \/ waiters # <<>> \/ granted # {}
    /\ stage' = [stage EXCEPT ![r] = "waiting"]
    /\ waiters' = Append(waiters, r)
    /\ UNCHANGED <<run, raised, slots, granted, lookups, initial, metric>>

\* A woken task runs; slots left over go to those behind it.
Resume(r) ==
    /\ r \in granted
    /\ Wake(slots, slots, granted \ {r})
    /\ Begin(r)

\* Mutant: the counters as they are.
Growth_All(r) == lookups

\* The growth of the counters since the request's first reading.
Growth(r) == Minus(lookups, initial[r])

\* The stream ends.
Succeed(r) ==
    /\ stage[r] = "serving"
    /\ stage' = [stage EXCEPT ![r] = "ok"]
    /\ metric' = [metric EXCEPT ![r] = Growth(r)]
    /\ Release
    /\ UNCHANGED <<run, raised, lookups, initial>>

\* Mutant: the slot is released on success only.
Fail_KeepsSlot(r) ==
    /\ stage[r] = "serving" /\ r \in MayFail
    /\ stage' = [stage EXCEPT ![r] = "failed"]
    /\ UNCHANGED <<run, raised, semaphore, lookups, initial, metric>>

\* The engine raises; the metric of a failed request says 0 and 0.
Fail(r) ==
    /\ stage[r] = "serving" /\ r \in MayFail
    /\ stage' = [stage EXCEPT ![r] = "failed"]
    /\ Release
    /\ UNCHANGED <<run, raised, lookups, initial, metric>>

-----------------------------------------------------------------------------
(* run_benchmark, after gather *)

AllEnded == Running /\ \A r \in Requests : stage[r] \in Ended
Successful == {r \in Requests : stage[r] = "ok"}

\* The summary is returned and the next strategy gets a new engine.
Summarise ==
    /\ AllEnded /\ Successful # {}
    /\ run' = run + 1
    /\ stage' = AllArriving
    /\ lookups' = Zero /\ initial' = Zeros /\ metric' = Zeros
    /\ UNCHANGED <<raised, semaphore>>

\* RuntimeError("All requests failed ...").
AllFailed ==
    /\ AllEnded /\ Successful = {}
    /\ raised' = TRUE
    /\ UNCHANGED <<run, stage, semaphore, lookups, initial, metric>>

ABNext ==
    \/ \E r \in Requests : Enter(r) \/ Wait(r) \/ Resume(r) \/ Succeed(r) \/ Fail(r)
    \/ Summarise
    \/ AllFailed

\* The event loop runs whatever is ready; sleeps and engines end.
ABSpec == ABInit /\ [][ABNext]_abVars /\ WF_abVars(ABNext)

-----------------------------------------------------------------------------
(* Properties *)

Hits == [r \in Requests |-> metric[r].hits]
Misses == [r \in Requests |-> metric[r].misses]

Reported == [hits |-> SumFunctionOnSet(Hits, Successful),
             misses |-> SumFunctionOnSet(Misses, Successful)]

\* A request's reported hits and misses hold its own lookups and those that
\* ran beside it: no lookup of a request is lost from its metric, and what
\* the successful requests report together counts no lookup more often than
\* requests run at a time (the readings of _execute_single_request with other
\* tasks between them).
CountedWithinLimit ==
    /\ \A r \in Successful :
          /\ metric[r].hits >= OwnLookups(r).hits
          /\ metric[r].misses >= OwnLookups(r).misses
    /\ Total(Reported) <= Limit * Total(lookups)

\* Counting lookups several times cannot push the summary's
\* overall_cache_hit_ratio outside what single requests of the workload got:
\* it lies between the lowest and the highest ratio of a request.
OverallRatioIsAMean ==
    AllEnded /\ Successful # {} =>
        LET Ratio(r) == Reported.hits * Total(OwnLookups(r))
            Own(r) == OwnLookups(r).hits * Total(Reported)
        IN  /\ \E r \in Requests : Own(r) <= Ratio(r)
            /\ \E r \in Requests : Own(r) >= Ratio(r)

\* Every benchmark returns or raises, however requests queue and fail: no
\* slot of the semaphore is lost between the tasks or between the benchmarks.
BenchmarksEnd == <>(run > Len(Strategies) \/ raised)
=============================================================================
