--------------------------- MODULE InferenceWorker ---------------------------
(***************************************************************************)
(* The Ray actor that runs continuous batching on one GPU                  *)
(* (nexuscache/server/worker.py): a batch loop and one generate_stream     *)
(* coroutine per client on one asyncio event loop.                         *)
(*                                                                         *)
(* A coroutine is interrupted only where it suspends.  The batch loop      *)
(* suspends in its sleeps; everything between two of them is a sequence of *)
(* steps that no stream interrupts:                                        *)
(*                                                                         *)
(*   idle -> promote -> step -> compute -> deliver -> promote              *)
(*                      step -> idle       deliver -> idle (exception)     *)
(*                                                                         *)
(* and "stopped" is where shutdown leaves it.  A stream suspends in        *)
(* output_queue.get() when its queue is empty ("get") and when it has      *)
(* yielded a token ("yield").                                              *)
(***************************************************************************)
EXTENDS Integers, SequencesExt

CONSTANTS
    Reqs,         \* generate_stream calls, with distinct sequence ids
    Requests,     \* [prompt, maxNew]: their arguments
    Impatient,    \* the clients that may disconnect
    MayShutdown,  \* whether shutdown may be called
    NumBlocks,    \* config.num_blocks
    BlockSize,    \* config.block_size
    MaxGenerated  \* bound on the tokens counted for a request that is stepped on

ASSUME WorkerAssumption ==
    /\ Requests \subseteq [prompt : Nat \ {0}, maxNew : Nat]
    /\ Impatient \subseteq Reqs
    /\ MayShutdown \in BOOLEAN
    /\ NumBlocks \in Nat \ {0} /\ BlockSize \in Nat \ {0}
    /\ MaxGenerated \in Nat

VARIABLES
    req,      \* the arguments of each call, fixed in advance
    status,   \* SequenceRequest.status, or "NEW" before the call
    gen,      \* len(SequenceRequest.generated_token_ids)
    pool,     \* the keys of request_pool
    waiting,  \* waiting_queue
    active,   \* active_requests
    avail,    \* BlockManager.get_num_free_blocks()
    tokens,   \* page table: registered sequence |-> its length
    pc,       \* where the batch loop is
    todo,     \* the rest of active_requests in its token loop
    kept,     \* those of the loop's requests that are not in finished_requests
    out,      \* output_queue: positions of generated tokens, EOS for None
    got,      \* the tokens yielded to the client
    stream    \* where each generate_stream is, and how it closed: "left" and
              \* "cut" by a disconnect, before promotion and while running

native == <<avail, tokens>>
loop == <<pc, todo, kept>>
data == <<req, status, gen, pool, waiting, active, native, todo, kept, out, got, stream>>
vars == <<req, status, gen, pool, waiting, active, native, loop, out, got, stream>>

KV == INSTANCE KVCapacity WITH
    Seqs <- Reqs, Threads <- {}, inFlight <- <<>>, AppendSizes <- Nat

EOS == 0

\* The streams run while the batch loop sleeps or has stopped.
Suspended == pc \in {"idle", "compute", "stopped"}

\* A stream whose get has an item is ready before the batch loop's timer is.
ReadyStreamsRan == \A r \in Reqs : stream[r] = "get" => out[r] = <<>>

Init ==
    /\ req \in [Reqs -> Requests]
    /\ status = [r \in Reqs |-> "NEW"]
    /\ gen = [r \in Reqs |-> 0]
    /\ pool = {}
    /\ waiting = <<>> /\ active = <<>>
    /\ avail = NumBlocks
    /\ tokens = [r \in {} |-> 0]
    /\ pc = "idle" /\ todo = <<>> /\ kept = <<>>
    /\ out = [r \in Reqs |-> <<>>]
    /\ got = [r \in Reqs |-> <<>>]
    /\ stream = [r \in Reqs |-> "none"]

-----------------------------------------------------------------------------
(* generate_stream *)

\* A stream runs to its first get, which finds the queue empty.
Start(r) ==
    /\ Suspended /\ status[r] = "NEW"
    /\ status' = [status EXCEPT ![r] = "WAITING"]
    /\ pool' = pool \cup {r}
    /\ waiting' = Append(waiting, r)
    /\ stream' = [stream EXCEPT ![r] = "get"]
    /\ UNCHANGED <<req, gen, active, native, loop, out, got>>

\* Mutant: the KV blocks stay.
Close_Leaks(r, how) ==
    /\ pool' = pool \ {r}
    /\ stream' = [stream EXCEPT ![r] = how]
    /\ UNCHANGED native

\* The finally clause: _free_request.
Close(r, how) ==
    /\ pool' = pool \ {r}
    /\ stream' = [stream EXCEPT ![r] = how]
    /\ IF r \in pool \cap KV!Registered THEN KV!Free(r) ELSE UNCHANGED native

\* The item that get returns: a token to yield, or the end.
Fetch(r) ==
    /\ out[r] # <<>>
    /\ out' = [out EXCEPT ![r] = Tail(@)]
    /\ IF Head(out[r]) = EOS
       THEN Close(r, "closed") /\ UNCHANGED got
       ELSE /\ got' = [got EXCEPT ![r] = Append(@, Head(out[r]))]
            /\ stream' = [stream EXCEPT ![r] = "yield"]
            /\ UNCHANGED <<pool, native>>

Get(r) ==
    /\ Suspended /\ stream[r] = "get"
    /\ Fetch(r)
    /\ UNCHANGED <<req, status, gen, waiting, active, loop>>

\* The client asks for the next token: the loop condition comes first.
Resume(r) ==
    /\ Suspended /\ stream[r] = "yield"
    /\ \/ /\ status[r] = "FINISHED"
          /\ Close(r, "closed") /\ UNCHANGED <<out, got>>
       \/ status[r] # "FINISHED" /\ Fetch(r)
       \/ /\ status[r] # "FINISHED" /\ out[r] = <<>>
          /\ stream' = [stream EXCEPT ![r] = "get"]
          /\ UNCHANGED <<pool, native, out, got>>
    /\ UNCHANGED <<req, status, gen, waiting, active, loop>>

\* How the stream of a request in this state is closed by a disconnect.
LeavesAs == [WAITING |-> "left", RUNNING |-> "cut", FINISHED |-> "closed"]

Disconnect(r) ==
    /\ r \in Impatient
    /\ Suspended /\ stream[r] \in {"get", "yield"}
    /\ Close(r, LeavesAs[status[r]])
    /\ UNCHANGED <<req, status, gen, waiting, active, loop, out, got>>

Shutdown ==
    /\ MayShutdown /\ pc \in {"idle", "compute"}
    /\ pc' = "stopped"
    /\ UNCHANGED data

-----------------------------------------------------------------------------
(* _continuous_batch_loop *)

Wake ==
    /\ pc = "idle" /\ ReadyStreamsRan
    /\ pc' = "promote"
    /\ UNCHANGED data

\* Mutant: the last free block is never given away.
Fits_Strict(r) == avail > KV!BlocksFor(req[r].prompt)

Fits(r) == avail >= KV!BlocksFor(req[r].prompt)

\* register_sequence and append_tokens; Fits keeps the latter from throwing.
Promote ==
    /\ pc = "promote" /\ waiting # <<>>
    /\ LET r == Head(waiting) IN
        /\ Fits(r)
        /\ r \notin KV!Registered
        /\ tokens' = [s \in KV!Registered \cup {r} |->
                        IF s = r THEN req[r].prompt ELSE tokens[s]]
        /\ avail' = avail - KV!BlocksFor(req[r].prompt)
        /\ status' = [status EXCEPT ![r] = "RUNNING"]
        /\ active' = Append(active, r)
    /\ waiting' = Tail(waiting)
    /\ UNCHANGED <<req, gen, pool, loop, out, got, stream>>

\* Mutant: the request is not put back.
Requeue_Drops ==
    /\ pc = "promote" /\ waiting # <<>> /\ ~Fits(Head(waiting))
    /\ waiting' = Tail(waiting)
    /\ pc' = "step"
    /\ UNCHANGED <<req, status, gen, pool, active, native, todo, kept, out, got,
                   stream>>

\* The request goes to the back of the queue.
Requeue ==
    /\ pc = "promote" /\ waiting # <<>> /\ ~Fits(Head(waiting))
    /\ waiting' = Append(Tail(waiting), Head(waiting))
    /\ pc' = "step"
    /\ UNCHANGED <<req, status, gen, pool, active, native, todo, kept, out, got,
                   stream>>

PromoteDone ==
    /\ pc = "promote" /\ waiting = <<>>
    /\ pc' = "step"
    /\ UNCHANGED data

Idle ==
    /\ pc = "step" /\ active = <<>>
    /\ pc' = "idle"
    /\ UNCHANGED data

\* _execute_step up to its sleep; get_slot_mapping_tensor throws for a
\* sequence that is not registered.
StepBegins ==
    /\ pc = "step" /\ active # <<>> /\ ToSet(active) \subseteq KV!Registered
    /\ pc' = "compute"
    /\ UNCHANGED data

StepFails ==
    /\ pc = "step" /\ ~ToSet(active) \subseteq KV!Registered
    /\ pc' = "idle"
    /\ UNCHANGED data

Computed ==
    /\ pc = "compute" /\ ReadyStreamsRan
    /\ \A r \in ToSet(active) : gen[r] < MaxGenerated
    /\ pc' = "deliver"
    /\ todo' = active /\ kept' = <<>>
    /\ UNCHANGED <<req, status, gen, pool, waiting, active, native, out, got, stream>>

Delivering == pc = "deliver" /\ todo # <<>>

\* The n-th token is the last.
Completes(r, n) == n >= req[r].maxNew

\* Mutant: the sentinel overtakes the last token.
Outputs_SentinelFirst(r, n) == IF Completes(r, n) THEN <<EOS, n>> ELSE <<n>>

\* What the n-th token puts into the output queue.
Outputs(r, n) == IF Completes(r, n) THEN <<n, EOS>> ELSE <<n>>

\* Mutant: the requests that finish stay in the batch.
Retained_All(r, n) == Append(kept, r)

Retained(r, n) == IF Completes(r, n) THEN kept ELSE Append(kept, r)

Deliver ==
    /\ Delivering
    /\ LET r == Head(todo)  n == gen[r] + 1 IN
        /\ KV!Grow(r, 1)
        /\ gen' = [gen EXCEPT ![r] = n]
        /\ out' = [out EXCEPT ![r] = @ \o Outputs(r, n)]
        /\ status' = [status EXCEPT ![r] = IF Completes(r, n) THEN "FINISHED" ELSE @]
        /\ kept' = Retained(r, n)
    /\ todo' = Tail(todo)
    /\ UNCHANGED <<req, pool, waiting, active, pc, got, stream>>

\* append_tokens throws: the token is lost, and so is finished_requests.
DeliverFails ==
    /\ Delivering
    /\ ~KV!CanGrow(Head(todo), 1)
    /\ gen' = [gen EXCEPT ![Head(todo)] = @ + 1]
    /\ pc' = "idle" /\ todo' = <<>> /\ kept' = <<>>
    /\ UNCHANGED <<req, status, pool, waiting, active, native, out, got, stream>>

DeliverDone ==
    /\ pc = "deliver" /\ todo = <<>>
    /\ active' = kept
    /\ pc' = "promote" /\ kept' = <<>>
    /\ UNCHANGED <<req, status, gen, pool, waiting, native, todo, out, got, stream>>

BatchLoop ==
    \/ Wake \/ Promote \/ Requeue \/ PromoteDone \/ Idle
    \/ StepBegins \/ StepFails \/ Computed
    \/ Deliver \/ DeliverFails \/ DeliverDone

Next ==
    \/ BatchLoop \/ Shutdown
    \/ \E r \in Reqs : Start(r) \/ Get(r) \/ Resume(r) \/ Disconnect(r)

Spec == Init /\ [][Next]_vars

\* The event loop runs what is ready.  Whoever iterates a stream, the actor's
\* runtime, asks again, at any time but not never; nobody has to call, to
\* disconnect or to shut down.
FairSpec ==
    /\ Spec
    /\ WF_vars(BatchLoop)
    /\ \A r \in Reqs : WF_vars(Get(r)) /\ SF_vars(Resume(r))

-----------------------------------------------------------------------------
(* Properties *)

TypeOK ==
    /\ req \in [Reqs -> Requests]
    /\ status \in [Reqs -> {"NEW", "WAITING", "RUNNING", "FINISHED"}]
    /\ gen \in [Reqs -> Nat]
    /\ pool \subseteq Reqs
    /\ waiting \in Seq(Reqs) /\ active \in Seq(Reqs)
    /\ todo \in Seq(Reqs) /\ kept \in Seq(Reqs)
    /\ avail \in Nat
    /\ KV!Registered \subseteq Reqs /\ tokens \in [KV!Registered -> Nat \ {0}]
    /\ pc \in {"idle", "promote", "step", "compute", "deliver", "stopped"}
    /\ out \in [Reqs -> Seq(Nat)] /\ got \in [Reqs -> Seq(Nat)]
    /\ stream \in [Reqs -> {"none", "get", "yield", "closed", "left", "cut"}]

\* What the client has been given and, after it, what is queued for it.
Handed(r) == got[r] \o out[r]

\* The tokens counted as generated whose append was refused: nobody gets them.
Lost(r) == (1 .. gen[r]) \ ToSet(Handed(r))

\* No running request was disconnected and no append was refused so far.
Undisturbed == \A r \in Reqs : stream[r] # "cut" /\ Lost(r) = {}

\* The batch loop never steps with a request whose blocks a stream has freed,
\* so that the slot mapping cannot throw, with two exceptions, after which it
\* may throw for ever: a client disconnected while its request was running, or
\* an append was refused (worker.py:246) and the requests that had finished in
\* that token loop stayed in the batch.
ActiveIsMapped == Undisturbed => ToSet(active) \subseteq KV!Registered

\* KV blocks have an owner that will free them: a sequence is registered only
\* while its stream is open, through refused appends and disconnects at any
\* time but one: a client that left before its request was promoted.
StreamOwnsKV ==
    KV!Registered \subseteq pool \cup {r \in Reqs : stream[r] = "left"}

\* A request is in one place: it is not promoted twice nor stepped twice in
\* one pass, and while its stream is open and tokens are due it is somewhere.
NoRequestLost ==
    /\ IsInjective(waiting \o active)
    /\ \A r \in pool : status[r] # "FINISHED" => r \in ToSet(waiting \o active)

\* Whatever fails and however far a client is behind, what it has been given
\* and what is queued are together in the order of generation, a sentinel is
\* queued right after a token that completes the request and nowhere else, and
\* the page table has a place for the prompt and exactly these tokens: those
\* missing in between are the lost ones.  (A stream that ends may leave tokens
\* in its queue: it looks at the status first, worker.py:150.)
StreamInOrder ==
    \A r \in Reqs : LET handed == Handed(r) IN
        /\ ToSet(handed) \subseteq {EOS} \cup 1 .. gen[r]
        /\ \A i, j \in DOMAIN handed :
              i < j /\ handed[j] # EOS => handed[i] < handed[j]
        /\ \A i \in 1 .. Len(handed) + 1 :
              i <= Len(handed) /\ handed[i] = EOS <=>
                 i > 1 /\ handed[i - 1] # EOS /\ Completes(r, handed[i - 1])
        /\ r \in KV!Registered =>
              tokens[r] = req[r].prompt + Cardinality(ToSet(handed) \ {EOS})

\* The stream of a request whose prompt fits into the pool ends, also behind
\* one whose prompt does not and that is requeued for ever, as long as nobody
\* shuts down the worker, no client leaves before its request is finished and
\* no append is refused: requests that outgrow the blocks of their prompts
\* when none is free may have theirs refused for ever.
EveryStreamEnds ==
    \A r \in Reqs :
        stream[r] = "get" /\ KV!BlocksFor(req[r].prompt) <= NumBlocks ~>
            \/ stream[r] = "closed" \/ pc = "stopped"
            \/ \E s \in Reqs : stream[s] \in {"left", "cut"} \/ Lost(s) # {}

\* A client that disconnects does not stop the streams of the others: its
\* allocations are cleaned up, "Clean up allocations on client disconnect or
\* completion".
OthersStreamsEnd ==
    \A r \in Reqs \ Impatient : stream[r] = "get" ~> stream[r] = "closed"
=============================================================================
