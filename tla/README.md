# NexusCache-Engine in TLA+

Specifications of the KV-cache memory subsystem and what its readers take from
it, the two continuous-batching schedulers and the execution pipeline, the request
queue, the inference worker, the API server, the Ray worker pool, the A/B testing
harness and the capacity arithmetic of this repository; TLC configurations that
model-check them on small instances; and proofs, checked by TLAPS, that the
invariants of all of them hold for every pool, queue, batch and number of
clients.

`PROJECT.json` lists the components, the runs, the code lines every definition
stands for, the mutants that show each property can fail, the hazards, the
findings and the theorems.

## The system

| Component | Source | State | Operations | What it talks to |
|---|---|---|---|---|
| BlockManager | `csrc/src/block_manager.cpp` | stack of free physical block ids | `allocate_block(s)`, `free_block(s)`, counters | own mutex; called by PageTable and the schedulers |
| PageTable | `csrc/src/page_table.cpp` | sequence id -> number of tokens and block ids | `register_sequence`, `append_tokens`, `free_sequence`, slot mapping, block table | own mutex; calls BlockManager |
| Scheduler | `nexuscache/server/scheduler.py` | waiting, running and preempted queues, `sequence_map`, each Sequence's state and tokens | `add_sequence`, `finish_sequence`, `schedule` | PageTable, BlockManager |
| ExecutionPipelineManager | `nexuscache/server/pipeline_manager.py` | tuner budget, CUDA graphs and streams | `execute_batch_step` | Scheduler's batch and config, PageTable |
| DynamicScheduler, PrefixCacheManager | `nexuscache/server/dynamic_scheduler.py` | the same queues ordered by score, a trie of cached prefixes | `add_dynamic_sequence`, `schedule` | PageTable, BlockManager |
| InferenceWorker | `nexuscache/server/worker.py` | waiting queue, active requests, one output queue per request | `generate_stream`, the batch loop, `shutdown` | PageTable, BlockManager; one asyncio event loop |
| RequestQueue | `nexuscache/server/request_queue.py` | heap of pending requests, index by id, cancelled ids, token count | `put`, `get_batch`, `abort` | asyncio condition; its callers (none in the package yet) |
| CacheEngine | `nexuscache/cache_engine.py` | - | `prepare_kernel_metadata`, which reads the page table twice; wrappers of the native calls | PageTable |
| RayWorkerPool | `nexuscache/server/ray_actor.py` | actor handles, restart counts, the monitor task | `start`, `stop`, the health monitor, `broadcast_command`, `sync_state` | Ray |
| API server | `nexuscache/server/api_server.py` | in-flight count, session gauge, shutdown flag | middleware, completion endpoints, probe, drain at shutdown | a mock token generator; clients |
| Attention kernel | `csrc/kernels/paged_attention_kernel.cu` | - | reads the KV pool through a row of the block table | the copies CacheEngine made |
| Other kernels, pinned memory, bindings | `csrc/` | - | CUDA | - |
| A/B testing harness | `nexuscache/analytics/ab_testing_harness.py` | a semaphore; the engine's hit and miss counters | `run_benchmark`, a task per request | the candidate cache engine |
| Capacity analytics | `nexuscache/analytics/vram_saturation_model.py`, `workload_model.py` | - | estimates of blocks, saturation and batch size from lengths | - |
| Config, metrics, other analytics, benchmarks | `nexuscache/utils`, `nexuscache/analytics`, `benchmarks` | - | parsing, statistics, load | - |

What is hard about it: the page table is called from several threads and gives
blocks back outside its own lock; the scheduler keeps its own idea of how many
blocks and tokens are left while the page table keeps the true one, and any
native call may throw out of the middle of a scheduling pass; preempted
sequences lose their blocks and have to get back exactly what they need; the
request queue keeps the same facts three times (heap, index, cancelled ids) and
wakes one consumer per request; asynchronous clients cancel and disconnect while
a step is under way; the dynamic scheduler preempts members of the queue it is
looping over; the server counts what is in flight across awaits in which clients
leave and a shutdown begins; the pool takes an actor that answers late for a dead
one, and Ray restarts actors behind its back; the kernels read copies of the page
table that two calls made and other threads may have outdated; and the harness
attributes to a request whatever engine-wide counters did while it was served.
`PROJECT.json` lists the hazards, each at its line.

## The modules

    KVCapacity  <== PageTable           implements (ImplementsCapacity)
        ^   ^         ^  ^
        |   |         |  KernelMetadata EXTENDS PageTable, reads it for the kernels
        |   |         VRAMSaturation    EXTENDS PageTable, predicts it
        |   +------ InferenceWorker     runs on an instance of KVCapacity
        Scheduler                       runs on an instance of KVCapacity
            ^  ^
            |  Pipeline                 EXTENDS Scheduler, closes its caller
            DynamicScheduler            EXTENDS Scheduler, overrides half of it
    RequestQueue, ApiServer, RayWorkerPool, ABTestingHarness    stand alone

The last four share no state with the rest in the code either: nothing in the
package calls the request queue or the pool yet, the server runs on a mock
generator, and the harness drives whatever engine it is given. The `MC...` modules hold
the small instances: MCPageTable those of the page table and its two readers,
MCPipeline those of Pipeline and with it Scheduler.

The proofs, which only EXTEND what they are about, are in

    PageTableProofs         PageTable, KernelMetadata, VRAMSaturation
    SchedulerProofs         Scheduler, Pipeline
    DynamicSchedulerProofs  DynamicScheduler, on top of SchedulerProofs
    AdmissionProofs         ApiServer, ABTestingHarness
    RequestQueueProofs, InferenceWorkerProofs, RayWorkerPoolProofs
    DataLemmas              queues, finite sets and sums, for most of these

Definitions marked "Mutant" are plausible bugs: each is used to check that a
property can be broken by a change of the code.

**KVCapacity** is the abstract specification of the native memory subsystem: the
length of each registered sequence, a number of free blocks, and a number of
blocks in flight between the two halves of `free_sequence`. Its `CanGrow` is the
condition under which `append_tokens` does not throw. Registered means
`has_sequence`. It is what the Python components run on; they call it from one
thread, so for them `free_sequence` is the one step `Free`.

**PageTable** is the detailed one: the stack of block ids, the table of
`SequenceContext`s, and for each thread the local `blocks_to_free`. Each method is
an action, because it holds `table_mutex_` for all its work; `free_sequence` is
two (`EraseEntry`, `ReturnBlocks`), because it gives the blocks back after it has
unlocked. `SlotOf` is the arithmetic of `get_slot_mapping_tensor`.

**KernelMetadata** is `prepare_kernel_metadata` and the kernel it is for. The block
tables (`GetBlockTable`) and the slot mapping (`GetSlotMapping`, or `Raise`) are read
by one thread in two native calls; other threads call the page table between them,
and all do until the kernel is done with the copies (`Retire`). `KernelSlot` is
the address the attention kernel computes from a row. One preparation is under way
at a time. Two ghosts, `seen` and `total`, keep the lengths at the two readings.

**VRAMSaturation** is the part of the analytics that counts blocks. It has no state:
its operators are evaluated in every state of the page table. Both round up on
their own, and the percentages are compared as products.

**Scheduler** is `scheduler.py`. `schedule()` is one step per loop iteration, with
at most one native call in it, because a native call may throw and leave the
queues as they are there (`DecodeRaise`, `RestoreRaise`, `AdmitRaise`; after that
nothing happens, as no caller goes on). `call` holds the locals of `schedule()`,
including the copies of the two counters that `_schedule_preempted` decrements and
throws away. In `pc = "batch"` the caller has the batch; `CallerDone` lets it sample
a token for any subset and set any budget, so that what is proved holds for any
caller.

**Pipeline** is the caller in the repository, `execute_batch_step`: one token for
every sequence of the batch, and the budget of `AdaptiveBatchTuner` for the
scheduler (`UpdateBudget`). The tuner's direction depends on measured times and
memory, so it is any; how far it goes and where it stops is the code's arithmetic.
`cached` records which positions of a sequence hold the KV entry of their own
token: prefill queries the last `len(prompt)` positions and decode the last one, so
after a restore, where the table maps prompt and generated tokens, prefill writes
the prompt's entries at the wrong positions. The ghost `preemptees` is the set of
sequences that were ever preempted.

**RequestQueue** is `request_queue.py`. `put` and `abort` have no await under the
condition and are one action each; `get_batch` is one action per loop iteration,
because the clock is read in each and a request can expire in between (`Expire`).
Requests are objects with ids, since the heap holds objects and the index and the
cancelled ids hold ids. `sleepers` is the condition's list of waiters.

**InferenceWorker** is `worker.py`: the batch loop and one `generate_stream`
coroutine per client on one event loop. The batch loop can be interrupted only in
its sleeps (`Suspended`); a stream suspends in `output_queue.get()` ("get") and
after it has yielded ("yield"). `Disconnect` is the `aclose` that a client's
disconnect turns into: the `finally` clause runs at either suspension. `stream`
remembers how a stream was closed: by its end or after it ("closed"), or by a client
that left before its request was promoted ("left") or while it was running ("cut").
Tokens are their positions; `None`, the end of the stream, is `EOS`. `Handed` is what
a client was given and has queued, `Lost` what was counted and never queued.

**ApiServer** is `api_server.py`, one action per stretch between two awaits of a
request: the middleware's check and count, the probe, a whole completion, a
stream whose generator starts after the middleware has returned, token by token,
and the drain of `lifespan`, which polls the count. A client may leave whenever its
request is suspended.

**DynamicScheduler** is `dynamic_scheduler.py`. It inherits Scheduler's queues,
restoring and exceptions, as the Python class does; definitions that begin with D
are its overrides. The victim of a preemption is chosen in an action of its own
(`DecodeEvict`), as it happens before the append that may throw. Clock values are
left out: `Leads` orders two requests when one is at least as good in every term
of the score, `Sorted` allows any order that agrees with it, and `late` says who has
waited for three quarters of its SLA. The trie is the number of blocks it has of
each text.

**RayWorkerPool** is `ray_actor.py`. An actor is the pair of its worker and its
number. The monitor sleeps, pings all actors (each answer is a step), and recovers
all that failed without suspending; `stop` cancels it wherever it waits. Ray is
external: actors boot, hang, wake up and crash at any time (one that does not answer
yet and one that does not answer any more are both `silent`), and Ray restarts them
or does not. Each spawn and each `ray.kill` of a recovery or a stop may raise; the
pool swallows both, and goes on as if the kill had succeeded. The ghost `unkilled`
remembers for whom it had not.

**ABTestingHarness** is `ab_testing_harness.py`: a task per request, from its arrival
through the semaphore to its metric, one action per stretch between two awaits.
`asyncio.Semaphore` is external: a slot goes to the waiter that came first, and a
newcomer does not pass those already woken. The readings of the counters (`initial`,
`Growth`) are the code's; requests end in any order and may fail after their
lookups were counted. Benchmarks of several strategies run one after the other
on the same semaphore.

## The runs

All runs explore their instances completely; the only bound that is not a
constant of the program is `MaxTokens` in PageTable, the longest sequence
explored. Runs that end when all requests are done have `CHECK_DEADLOCK FALSE`.

| Run | Instance | What it shows |
|---|---|---|
| `page_table` | 3 sequences, 2 threads, 3 blocks of 2, growth by 1 or 3 up to 4 tokens, any batch of sequences read for the kernels, symmetric | `BlocksExclusive`, `NoBlockLost`, `SlotsPrivate`: blocks are neither shared nor lost, with two threads in the middle of `free_sequence` at once. `MetadataStaysTrue`: what the kernels were told of a sequence holds until it is freed, whatever happens between the two readings. `EstimateMatchesPool`: the analytics agree with the pool. `ImplementsCapacity`: PageTable refines KVCapacity. Growth by 3 crosses a block boundary from either fill level, two sequences exhaust the pool, and a freed sequence can be registered again between the two readings. |
| `pipeline` | 3 requests that grow to 3 blocks, 3 blocks of 2, cancelled at any time; a tuner between 4 and 6 that starts at 5 and adjusts every second step | `RunningHoldsKV`, `QueuesDisjoint`, `NoRequestLost`, `BatchIsRunnable`: the scheduler's own invariants. The pool is too small for all, so preemption, restoring and exceptions occur. `TableLagsByOne` and `HolesOnlyAfterPreemption`: the page table and the KV cache through every history; a sequence that was never preempted has its whole context, whatever happens around it. `FinishesOrRaises`: preempting and restoring does not go on for ever, and a budget that was lowered starves nobody; the least budget is the longest prompt. |
| `request_queue` | 3 requests of two tiers, 2 consumers, a queue of 2, token capacity 5, batch budget 2 with requests of 1 and 3 tokens | `IndexMatchesHeap`, `TokensMatchHeap`, `NoLostWakeup`, `NoGhostExecution`, `ServedInOrder`, `EveryRequestLeaves`: the third request meets a full queue or a full token capacity, the larger one exceeds the batch budget, and both consumers can be asleep when a request arrives. |
| `worker` | 3 requests of any of four kinds: within one block, filling two, needing a second for the second token, and larger than the pool; 2 blocks of 4, one client that may disconnect, shutdown at any time, at most 4 tokens counted for a request that is stepped on (`MaxGenerated`) | `ActiveIsMapped`, `StreamOwnsKV`, `NoRequestLost`, `StreamInOrder`, `EveryStreamEnds`: requests are requeued behind each other and behind one that never fits; appends are refused until another stream ends, or for ever, and may leave finished requests in the batch, which then generate beyond their end; the disconnect hits every state of a request. The longest request has 3 tokens, so the bound cuts off only the repetition of refused appends and of tokens beyond the end. |
| `api_server` | any 3 of a probe, a completion, a stream, one that raises, one that is refused; limit 2; clients that leave; a shutdown at any time | `CountIsExact`, `GaugeRightUnlessLost`, `CutOnlyByDrain`, `DrainEmpties`: the count is exact on every way out of the middleware, the limit is met by the third request, and the drain starts in every state of two others. |
| `dynamic` | 3 sequences, a critical and two low ones, of one text, prompts of one or two blocks, 3 blocks of 2, budget 3 | `DRunningHoldsKV`, `DInOnePlace`: victims are preempted before and after their turn in the decode loop. `NoOvertaking`: with prompts above and below the budget, admissions are passed over, end the pass, and are emergencies. `TrieFollowsKV`. |
| `ray_pool` | 2 workers, one restart each, one broadcast | `NoOrphans`, `DeadReplaced`, `CallEnds`: both workers may hang or die in the same round, before, during and after the broadcast, a respawn may fail, a kill may raise (for one living actor, `MaxUnkilled`), and stop may come at any await. One restart is enough to reach a respawned actor and a worker past its limit. |
| `ab_harness` | 4 requests, two of them with a shared prefix, two at a time, any of which may fail, both strategies | `CountedWithinLimit`, `OverallRatioIsAMean`: every overlap of two requests and of a failing with a successful one. `BenchmarksEnd`: with two waiting, slots are handed over and left over. |

`DTypeOK` and the pool's `TypeOK` are checked too: no free block is taken that does
not exist, and no actor is spawned beyond its worker's limit. The other type
invariants are theorems only (`TypeCorrect`), and so are
`BlocksMatchTokens` and `SlotsStable` of PageTable, `WithinMaxNumSeqs` (a conjunct of
`BatchIsRunnable`) and `WithinMaxNewTokens` of Scheduler, and `WithinLimit` and
`DrainedIsIdle` of ApiServer, and `Awaited` of the pool; they are not repeated in the runs.

The other four each show that something the repository says of itself is not so:

| Run | Property, and what TLC finds |
|---|---|
| `pipeline_raise` | `DecodeNeverRaises`. `schedule` tests `total_len % block_size` for a new block, but the page table is one token behind `total_len`, so at a boundary with an empty pool `append_tokens` throws out of the decode loop instead of the sequence being preempted. |
| `pipeline_context` | `ContextComplete`. After a preemption the re-prefill queries the last `len(prompt)` positions of a table that maps prompt and generated tokens, so the prompt is written at the wrong positions. The comment in `scheduler.py:237` calls it full context recovery. |
| `request_queue_timeout` | `TimeoutAnswered`. A request that expires behind a valid one is dropped without its future being completed. |
| `worker_disconnect` | `OthersStreamsEnd`. A disconnect in the middle of generation leaves the request in `active_requests` without blocks; from then on every step throws and no stream ever ends. The requests stay within their prompts' blocks, so nothing else holds a stream up. |

Seen while modelling, and not the subject of a run:

- `finish_sequence` (`scheduler.py:261`) does not look at `preempted_queue`: a
  preempted sequence that is cancelled is restored and runs again.
- The pipeline's tuner starts from its own defaults (4096, between 1024 and 16384)
  and overwrites the scheduler's `max_num_batched_tokens` after the first step,
  whatever was configured. It lowers the budget when less than a tenth of the
  memory is free, and the pool is allocated once and for all: if it leaves less
  than that, the budget only goes down, to 1024, and a prompt longer than that,
  accepted before, is never admitted.
- `execute_batch_step` takes the i-th of the model's outputs for the i-th sequence
  (`pipeline_manager.py:254`), while a prefill has one input token per position.
- `get_slot_mapping_tensor` with a query longer than the sequence computes a
  negative position, which C++ rounds to block 0 with a negative offset
  (`page_table.cpp:163`). `StartPos` and `BlockIndex` are what decides if it throws.
- `block_manager.cpp` allocates the pool per layer, `[num_blocks, num_layers, ...]`; the
  attention kernel addresses it without layers.
- A/B harness: with more than one request at a time a metric's hits and misses are
  not the request's own, although `RequestMetric` describes them so. They include
  what ran beside it, also of requests that failed; `CountedWithinLimit` says how
  far off they can be.
- A worker stream looks at the status before the queue (`worker.py:150`): a consumer
  that falls behind loses the tokens still queued when generation finishes.
- Dynamic scheduler: a victim that was decoded earlier in the same loop stays in
  `decode_seqs` without blocks; a finished sequence can be a victim, is restored
  and gets tokens beyond `max_new_tokens`; a victim's blocks are counted by its
  length (line 315), which may be one more than it held, and then `append_tokens`
  throws; a LOW sequence that needs a block can evict a CRITICAL one if that is the
  only other. Cancelling a waiting or preempted sequence throws in
  `get_block_table`. Cached prefix tokens reduce what a prefill counts against the
  budget but not what it computes. The trie claims the last sampled token, which
  has not been computed. An SLA of 0 divides by zero (line 372). The benchmark
  passes simulated times to `schedule` while `arrival_time` is the real clock.
- API server: an in-flight stream is not counted once its headers are sent, so the
  drain can report success with streams open; a probe that runs into the drain
  names `HTTP_530_SERVICE_UNAVAILABLE`, which does not exist; a stream whose client
  leaves before the first chunk raises the session gauge for good, so it is not the
  "number of currently open Server-Sent Events streams" that `api_server.py:76-79`
  promises (`GaugeRightUnlessLost` says that this is the only way it goes wrong, and
  that it never recovers).
- Worker pool: a worker past its restart limit that hangs is not killed, and a
  broadcast waits for it for ever (the exception in `CallEnds`); a respawned actor
  lacks `max_task_retries` and what `sync_state` sent before; restart counts are
  never reset; an actor whose `ray.kill` raises stays alive, with its GPUs, when
  its handle is replaced (`ray_actor.py:221`) or the list cleared (line 136), and
  nothing logs it (the exceptions in `NoOrphans` and `CallEnds`); a second `start` appends actors that `_restart_counts` does not
  know and leaves two monitors.
- `_schedule_preempted` counts what it restores in its own copies of the
  counters (`scheduler.py:177`), so a step that both restores and admits can exceed
  `max_num_batched_tokens`. The properties of `pipeline` hold nevertheless.
- `append_tokens` returns the ids of new blocks. `tests/cpp/test_page_table.cpp:24`
  and `tests/python/test_memory_subsystem.py:64` expect one slot per token,
  `tests/python/test_page_table.py:43` block ids.
- `put` accepts an id that is still queued. Popping either object removes the id
  from the index and from the cancelled ids (`request_queue.py:261`), so the other
  can be executed although `abort` returned True. Hence `OwnIds` in the run and
  `DistinctIds` in the proofs.
- A client that disconnects before its request is promoted leaves it in
  `waiting_queue`; it is promoted later and its blocks are never freed. It is the
  exception in `StreamOwnsKV`.
- If the pool is exhausted in the worker's token loop (`worker.py:246`), a token is
  counted as generated and never queued, and requests that finished earlier in
  the same loop stay active: the next step throws for want of their slots, or, if
  their clients are slow, hands over tokens and a sentinel beyond the end. Nobody is
  preempted, so two requests that each need a block when none is free have their
  appends refused for ever. `DeliverFails` models it; `ActiveIsMapped` and
  `EveryStreamEnds` name it as their exception.
- A prompt larger than the worker's pool is requeued for ever (`worker.py:187`), and
  its stream never ends. Others are not held up (`EveryStreamEnds`).
- `shutdown` wakes no stream: those in `get()` wait for ever.

## Fairness and assumptions

- Pipeline, `PFairSpec`: the loop that calls `schedule` and `execute_batch_step`
  does not stop (`WF(Engine)`). Nothing is assumed of clients.
- ABTestingHarness, `ABSpec`: the event loop runs whatever is ready (`WF` of the whole
  next-state relation); every sleep ends and the engine answers or raises.
- RequestQueue, `FairSpec`: each consumer runs when it can and calls `get_batch`
  again (`WF` for each). Strong fairness is not needed: whichever consumer has the
  lock gives it up after a bounded batch, and which of them serves a request does
  not matter.
- InferenceWorker, `FairSpec`: the event loop runs what is ready (`WF(BatchLoop)`,
  `WF(Get)`), and whoever iterates a stream asks again, at any time but not never.
  It is `SF(Resume)` because a stream can resume only while the batch loop
  sleeps. `ReadyStreamsRan`: a stream whose `get` has an item was made ready before
  the timer of the current sleep and runs before it. The safety properties
  do not depend on fairness.
- ApiServer, `FairSpec`: the event loop finishes what is in the middleware
  (`WF(Leave)`) and serves what does not wait for a client (`WF(Serve)`). That clients
  go on reading their streams is not assumed.
- RayWorkerPool, `FairSpec`: the event loop runs the monitor and finishes a stop
  (`WF`), as each ping has a timeout; a call with a dead actor raises; an actor that is
  up again and again answers (`SF`, since it may hang in between). Nothing is assumed
  about booting, hanging and crashing, nor that a spawn or a kill ever succeeds.
- DynamicScheduler: `min_prefix_match_tokens` is a constant, an SLA is positive, and
  what a model generates for sequences of one text follows that text.
- Sequence ids are distinct. They are 31 bits of `hash(request_id)`; a
  collision would make `register_sequence` throw.
- `add_sequence` and `finish_sequence` are called between steps; `schedule` is not
  called again after it has raised.
- The tuner may go up, down or nowhere at each adjustment, as that depends on measured
  times and free memory. In `pipeline` its lower bound admits the longest sequence.
- `notify` wakes the waiters in the order in which they went to sleep, as asyncio
  does; a `get_batch` is not cancelled while it sleeps.
- Prompts handed to the worker are not empty.

## The proofs

Each is for every value of the constants that satisfies the module's named
assumption (positive pool and block sizes, natural numbers for lengths and
limits), and for any number of sequences, threads, consumers or streams.

- **PageTableProofs**: the invariant is `TypeOK /\ BlocksExclusive /\ NoBlockLost /\
  BlocksMatchTokens`, inductive as it stands; the slot properties follow from it by
  the uniqueness of quotient and remainder (`DivModUnique`). `StableSlots` is the
  action property: `AppendTokens` only appends to the block list. `Refinement`:
  every step is a step of KVCapacity or leaves its variables alone.
  `MetadataTrue`: the readings do not change the page table
  (`MetadataUsesPageTable`), so its invariant holds beside them, and a token's slot
  stays where it is while its sequence is registered (`SlotKept`, also behind
  `StableSlots`). `MetadataInv` adds to the property that no query is longer than its
  sequence was at the reading (one token of an empty sequence makes the second call
  throw), and sequences only grow (`LengthKept`), so the positions spoken of stay
  inside. `EstimatesAreExact`: the blocks of the registered sequences, the stack and
  what is in flight add up to the pool (`BlocksAreConserved`), and the analytics
  round like the page table (`SameRounding`). The set of threads is finite there.
- **SchedulerProofs**: `IInv` strengthens the checked properties with where a new
  sequence is (`NewIsNowhere`), with `Queues`, which says at each point of
  `schedule()` which local queues are disjoint from which, and with `Tokens`, which
  bounds the generated tokens of everything that can still be in a batch.
  `PipelineImplementsScheduler`: all of it holds of the pipeline; it rests on
  `TunerBounds`, that the tuner stays between its bounds. `TableLag`: the lag of one
  token, stated for every point of `schedule()`, is kept by preemption and
  restoring. `CompleteUnlessEvicted` follows the cached positions with it (`Context`)
  and who was ever preempted (`Evicted`): a prefill with generated tokens is of a
  restored sequence, one without is of a new one.
- **DynamicSchedulerProofs** cites what SchedulerProofs says of the inherited parts
  of `schedule()`; its own part is preemption from inside the decode loop. `Places`
  says where each sequence is while victims leave the queue being iterated:
  `DecodeEvict` may take one that the loop has passed or has yet to reach.
  `DLag`, that the page table lags a sequence by at most one token, and by none when
  it is in the batch, is what makes `TrieHasKV` hold: a sequence is put into the trie
  with the length it has. `InOrderOfScore` needs `DOrder`: in admission the queue is
  in order of score (`InOrder`), and whatever the loop has left behind has too many
  tokens for the budget (`PassedOver`), which only shrinks in a pass.
- **RequestQueueProofs**: the heart is `EnoughAwake`: while a consumer sleeps, at
  least as many others are awake as requests are queued. `NoLostWakeup` alone is
  not inductive, as a consumer may return with one request and leave several; it
  cannot return with none, since its batch is empty when it starts to extract
  (`FreshBatch`) and the budget is not looked at for the first request. That
  `IndexMatchesHeap` and `NoGhostExecution` hold takes `DistinctIds`.
  `TokensAreExact`: every pop takes from the count what that object put in; it
  takes neither distinct ids nor any order of consumers.
- **InferenceWorkerProofs**: `IInv` (`Places`: where a request of each status is;
  `Streams`: which streams are open, how the others were closed, and that nobody is
  given a sentinel as a token; `Holders`: whose KV blocks those are; `TokenLoop`: how
  the batch splits into the done and the remaining part of the loop) gives
  `KVHasOwner` and `NothingLost`. `FInv` adds that what is handed over stays in order
  when a token and perhaps a sentinel follow (`OrderedGrows`) and takes one place
  in the page table (`PlacedGrows`), and that, while nothing was refused or cut, the
  batch holds running requests only (`Batches`). It gives `StreamsAreInOrder` and
  `StepsAreMapped`. Nothing is assumed about the requests or about what fails.
- **RayWorkerPoolProofs**: `IInv` adds to `NoOrphans` that the pool's handle of a worker
  is of that worker and was not spawned more often than restarts were counted
  (`Spawned`), and that the monitor runs in a running pool only (`Phases`).
  `NobodyWaitsForNothing` needs the types only: every way an actor is taken from a
  broadcast also ends it when it was the last.
- **AdmissionProofs**: for ApiServer, `IInv` adds to the exact counters `Staged` (which
  kinds of request reach which point), `Progress` (a completion or stream that goes on
  has tokens left, unless the server drains) and `Draining` (what the phases of
  `lifespan` know of the shutdown flag and the count). For ABTestingHarness, each
  request has an account (`Share`): what it reported, or would report now. A request
  that begins charges its lookups to every request being served, of which the
  semaphore allows `Limit` (`Admission`), so the accounts add up to at most `Limit`
  times the counters (`Attributed`, hence `AttributionBounded`). An inequality
  a * misses <= b * hits that holds of every request's own lookups is kept by adding
  them up (`Balanced`); with the lowest and the highest ratio for a and b
  (`LowestRatio`) this is `RatioIsAMean`.
- **DataLemmas**: what `Append`, `Tail`, `RemoveAt`, `SubSeq` and concatenation do to the
  set a queue holds and to its having no duplicates. A sum over a finite set
  (`SumFunctionOnSet`) is a fold, whose recursion the provers cannot follow;
  `SumIsCardinality` says that a sum of natural numbers is the number of its units,
  pairs of an element and a number below its value, and the other lemmas on sums
  (`SumWithout`, `SumBound`, `SumGrows`, `SumScaled`) follow. They are proved with
  `SubsetInduction`, induction over the subsets of a finite set stated for a set P of
  subsets instead of a predicate, from the well-foundedness of strict inclusion.

Only model-checked: the liveness properties (`FinishesOrRaises`, `EveryRequestLeaves`,
`EveryStreamEnds`, `DrainEmpties`, `DeadReplaced`, `CallEnds`, `BenchmarksEnd`), as
fairness and ENABLED are out of the prover's reach. Every safety property of the
passing runs is a theorem.

## Not modelled

- What the kernels compute from what they read, the copy and memset kernels, pinned
  memory and bindings (floating-point and CUDA code), the contents of the KV pool,
  CUDA graphs and streams.
- Configuration and metrics: values are parsed and counted once and nothing waits
  for them. `queue_model.py`, `ab_evaluator.py`, the fitting in `workload_model.py` and
  the benchmarks: closed formulas, statistics and generated load over floating-point
  samples, without a state that two steps share.
- `allocate_block` and `free_block` on their own: only tests call them.
- Of the analytics: sizes in bytes. Of the harness: the workload generator, latencies
  and percentiles.
- Of the dynamic scheduler: prefix caching switched off, and requests added by the
  plain `add_sequence`.
- Of the pool: a second `start`, and the contents of commands, which the actor's
  stubs ignore.

## Plan

Every component with a protocol has a module. Left:

1. `RayWorkerPool`: several rounds of start and stop, where the restart counts and
   the monitor of the first round are still there.
2. Refinements: RequestQueue from an abstract priority queue, and InferenceWorker
   from one ordered stream per request, each with its proof.
3. What the liveness properties rest on, as theorems: no state of a fair
   component is stuck (some action is possible, stated by its guard), and the
   measures that decrease.
4. The raw block API of BlockManager used beside the page table.
