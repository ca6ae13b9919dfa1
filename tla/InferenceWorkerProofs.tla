------------------------ MODULE InferenceWorkerProofs ------------------------
(***************************************************************************)
(* Proofs about InferenceWorker, for every number of streams, pool and     *)
(* block size, with and without disconnecting clients and shutdown.        *)
(***************************************************************************)
EXTENDS InferenceWorker, DataLemmas, TLAPS

-----------------------------------------------------------------------------
(* The inductive invariant *)

\* Waiting and active requests: each once, and in the state they belong to.
Places ==
    /\ IsInjective(waiting) /\ IsInjective(active)
    /\ ToSet(waiting) \cap ToSet(active) = {}
    /\ \A r \in Reqs : r \in ToSet(waiting) <=> status[r] = "WAITING"
    /\ \A r \in ToSet(active) : status[r] \in {"RUNNING", "FINISHED"}
    /\ \A r \in Reqs : status[r] = "RUNNING" => r \in ToSet(active)

\* request_pool holds the open streams; a stream is closed when its request is
\* finished or its client has left, before or after promotion.  Only a finished
\* request has a sentinel, and a stream that waits for an item gets a token: it
\* looks at the status before it would get the sentinel.
Streams ==
    /\ \A r \in Reqs : stream[r] = "none" <=> status[r] = "NEW"
    /\ pool = {r \in Reqs : stream[r] \in {"get", "yield"}}
    /\ \A r \in Reqs : stream[r] = "closed" => status[r] = "FINISHED"
    /\ \A r \in Reqs : stream[r] = "cut" => status[r] \in {"RUNNING", "FINISHED"}
    /\ \A r \in Reqs : status[r] \in {"NEW", "WAITING"} =>
                         gen[r] = 0 /\ out[r] = <<>> /\ got[r] = <<>>
    /\ \A r \in Reqs : EOS \in ToSet(out[r]) => status[r] = "FINISHED"
    /\ \A r \in Reqs : stream[r] = "get" /\ out[r] # <<>> => Head(out[r]) # EOS

\* Who has KV blocks: open streams from promotion on, and nobody but those
\* and the ones that were left before promotion.
Holders ==
    /\ \A r \in KV!Registered : status[r] \in {"RUNNING", "FINISHED"}
    /\ \A r \in pool : status[r] \in {"RUNNING", "FINISHED"} => r \in KV!Registered
    /\ StreamOwnsKV

\* The token loop: what it has before it and what it keeps are different
\* active requests, and what is in neither is finished.
TokenLoop ==
    pc = "deliver" =>
        /\ IsInjective(todo) /\ IsInjective(kept)
        /\ ToSet(todo) \cap ToSet(kept) = {}
        /\ ToSet(todo) \cup ToSet(kept) \subseteq ToSet(active)
        /\ \A r \in ToSet(active) :
              status[r] # "FINISHED" => r \in ToSet(todo) \cup ToSet(kept)

IInv == TypeOK /\ Places /\ Streams /\ Holders /\ TokenLoop

-----------------------------------------------------------------------------
(* Blocks *)

\* BlockSize is positive.
LEMMA DivBounds ==
    ASSUME NEW n \in Nat
    PROVE  (n + BlockSize - 1) \div BlockSize \in Nat
  BY WorkerAssumption

LEMMA BlocksAreNat == \A n \in Nat : KV!BlocksFor(n) \in Nat
  BY DivBounds DEF KV!BlocksFor

\* More tokens never need fewer blocks.
LEMMA BlocksMonotone ==
    ASSUME NEW m \in Nat, NEW n \in Nat, m <= n
    PROVE  KV!BlocksFor(m) <= KV!BlocksFor(n)
<1>1. \A b \in Nat \ {0}, x, y \in Nat : x <= y => x \div b <= y \div b
  <2> SUFFICES ASSUME NEW b \in Nat \ {0}, NEW x \in Nat, NEW y \in Nat, x <= y
               PROVE  x \div b <= y \div b
    OBVIOUS
  <2> DEFINE p == x \div b  q == y \div b
  <2>1. p \in Int /\ q \in Int /\ b * p <= x /\ y < b * (q + 1)
    OBVIOUS
  <2>2. b * p < b * (q + 1)
    BY <2>1
  <2> HIDE DEF p, q
  <2>3. p < q + 1
    BY <2>1, <2>2
  <2>4. p <= q
    BY <2>1, <2>3
  <2> QED  BY <2>4 DEF p, q
<1>2. BlockSize \in Nat \ {0} /\ m + BlockSize - 1 \in Nat /\ n + BlockSize - 1 \in Nat
  BY WorkerAssumption
<1> QED  BY <1>1, <1>2 DEF KV!BlocksFor

\* What append_tokens of one token does to the page table.
LEMMA GrowEffect ==
    ASSUME TypeOK, NEW r \in Reqs, KV!Grow(r, 1)
    PROVE  /\ r \in KV!Registered /\ KV!Registered' = KV!Registered
           /\ tokens' \in [KV!Registered' -> Nat \ {0}]
           /\ tokens'[r] = tokens[r] + 1
           /\ \A s \in KV!Registered \ {r} : tokens'[s] = tokens[s]
           /\ avail' \in Nat
<1>1. r \in KV!Registered /\ tokens[r] \in Nat \ {0} /\ tokens[r] + 1 \in Nat \ {0}
  BY DEF TypeOK, KV!Grow, KV!CanGrow, KV!Registered
<1>2. KV!NeedFor(tokens[r], tokens[r] + 1) \in Int
  <2>1. KV!BlocksFor(tokens[r]) \in Nat /\ KV!BlocksFor(tokens[r] + 1) \in Nat
    BY <1>1, BlocksAreNat
  <2> QED  BY <2>1 DEF KV!NeedFor
<1>3. KV!NeedFor(tokens[r], tokens[r] + 1) >= 0
  <2>1. /\ KV!BlocksFor(tokens[r]) <= KV!BlocksFor(tokens[r] + 1)
        /\ KV!BlocksFor(tokens[r]) \in Nat /\ KV!BlocksFor(tokens[r] + 1) \in Nat
    BY <1>1, BlocksAreNat, BlocksMonotone
  <2> QED  BY <2>1 DEF KV!NeedFor
<1>4. avail' \in Nat
  <2>1. /\ KV!NeedFor(tokens[r], tokens[r] + 1) <= avail
        /\ avail' = avail - KV!NeedFor(tokens[r], tokens[r] + 1)
    BY DEF KV!Grow, KV!CanGrow
  <2> QED  BY <1>2, <2>1 DEF TypeOK
<1>5. tokens' = [tokens EXCEPT ![r] = @ + 1]
  BY DEF KV!Grow
<1>6. KV!Registered' = KV!Registered /\ tokens' \in [KV!Registered' -> Nat \ {0}]
  BY <1>1, <1>5 DEF TypeOK, KV!Registered
<1> QED  BY <1>1, <1>4, <1>5, <1>6 DEF TypeOK, KV!Registered

\* What the end of a stream does.
LEMMA CloseEffect ==
    ASSUME TypeOK, NEW r \in pool, NEW how, Close(r, how)
    PROVE  /\ pool' = pool \ {r} /\ stream' = [stream EXCEPT ![r] = how]
           /\ KV!Registered' = KV!Registered \ {r}
           /\ tokens' \in [KV!Registered' -> Nat \ {0}]
           /\ \A s \in KV!Registered' : tokens'[s] = tokens[s]
           /\ avail' \in Nat
<1>1. pool' = pool \ {r} /\ stream' = [stream EXCEPT ![r] = how]
  BY DEF Close
<1>2. CASE r \notin KV!Registered
  <2>1. tokens' = tokens /\ avail' = avail
    BY <1>2 DEF Close, native
  <2> QED  BY <1>1, <1>2, <2>1 DEF TypeOK, KV!Registered
<1>3. CASE r \in KV!Registered
  <2>1. KV!BlocksFor(tokens[r]) \in Nat
    BY <1>3, BlocksAreNat DEF TypeOK, KV!Registered
  <2>2. tokens' = KV!Without(r) /\ avail' = avail + KV!BlocksFor(tokens[r])
    BY <1>3 DEF Close, KV!Free
  <2> QED  BY <1>1, <1>3, <2>1, <2>2 DEF TypeOK, KV!Without, KV!Registered
<1> QED  BY <1>2, <1>3

-----------------------------------------------------------------------------
(* The steps of a stream *)

Rest == UNCHANGED <<req, status, gen, waiting, active, loop>>

\* The ways in which a stream is closed, by the state of its request.
ClosedAs(r, how) ==
    \/ how = "closed" /\ status[r] = "FINISHED"
    \/ how = "left" /\ status[r] = "WAITING"
    \/ how = "cut" /\ status[r] = "RUNNING"

Closes(r) ==
    /\ \E how \in {"closed", "left", "cut"} : ClosedAs(r, how) /\ Close(r, how)
    /\ UNCHANGED <<out, got>>

Yields(r) ==
    /\ out[r] # <<>>
    /\ out' = [out EXCEPT ![r] = Tail(@)]
    /\ got' = [got EXCEPT ![r] = Append(@, Head(out[r]))]
    /\ stream' = [stream EXCEPT ![r] = "yield"]
    /\ UNCHANGED <<pool, native>>

Waits(r) ==
    /\ out[r] = <<>>
    /\ stream' = [stream EXCEPT ![r] = "get"]
    /\ UNCHANGED <<pool, native, out, got>>

\* What a stream fetches is a token.
LEMMA FetchSteps ==
    ASSUME IInv, NEW r \in Reqs, Fetch(r),
           stream[r] = "get" \/ status[r] # "FINISHED"
    PROVE  Yields(r)
<1>1. out[r] \in Seq(Nat) /\ out[r] # <<>>
  BY DEF IInv, TypeOK, Fetch
<1>2. Head(out[r]) \in ToSet(out[r])
  BY <1>1, TailOfQueue
<1>3. Head(out[r]) # EOS
  BY <1>1, <1>2 DEF IInv, Streams
<1> QED  BY <1>3 DEF Fetch, Yields

\* Whatever a stream does after its start, it closes, yields or waits.
LEMMA StreamSteps ==
    ASSUME IInv, NEW r \in Reqs, Get(r) \/ Resume(r) \/ Disconnect(r)
    PROVE  /\ Suspended /\ r \in pool /\ Rest
           /\ Closes(r) \/ Yields(r) \/ Waits(r)
<1>1. Suspended /\ r \in pool /\ Rest
  BY DEF IInv, Streams, Get, Resume, Disconnect, Rest
<1> SUFFICES Closes(r) \/ Yields(r) \/ Waits(r)
  BY <1>1
<1>2. CASE Get(r)
  BY <1>2, FetchSteps DEF Get
<1>3. CASE Disconnect(r)
  <2>1. status[r] \in {"WAITING", "RUNNING", "FINISHED"}
    BY <1>1 DEF IInv, TypeOK, Streams
  <2>2. ClosedAs(r, LeavesAs[status[r]])
    BY <2>1 DEF ClosedAs, LeavesAs
  <2>3. LeavesAs[status[r]] \in {"closed", "left", "cut"}
    BY <2>1 DEF LeavesAs
  <2> QED  BY <1>3, <2>2, <2>3 DEF Disconnect, Closes
<1>4. CASE Resume(r)
  <2>1. CASE status[r] = "FINISHED" /\ Close(r, "closed") /\ UNCHANGED <<out, got>>
    BY <2>1 DEF Closes, ClosedAs
  <2>2. CASE status[r] # "FINISHED" /\ Fetch(r)
    BY <2>2, FetchSteps
  <2>3. CASE /\ out[r] = <<>>
             /\ stream' = [stream EXCEPT ![r] = "get"]
             /\ UNCHANGED <<pool, native, out, got>>
    BY <2>3 DEF Waits
  <2> QED  BY <1>4, <2>1, <2>2, <2>3 DEF Resume
<1> QED  BY <1>2, <1>3, <1>4

-----------------------------------------------------------------------------
(* The invariant is kept *)

LEMMA InitOK == Init => IInv
<1> SUFFICES ASSUME Init PROVE IInv
  OBVIOUS
<1>1. TypeOK
  BY WorkerAssumption DEF Init, TypeOK, KV!Registered
<1>2. ToSet(<<>>) = {} /\ IsInjective(<<>>) /\ KV!Registered = {}
  BY EmptyQueue DEF Init, KV!Registered
<1>3. Places /\ Streams /\ Holders /\ TokenLoop
  BY <1>2 DEF Init, Places, Streams, Holders, TokenLoop, StreamOwnsKV
<1> QED  BY <1>1, <1>3 DEF IInv

LEMMA StartOK ==
    ASSUME IInv, NEW r \in Reqs, Start(r)
    PROVE  IInv'
<1>1. /\ pc # "deliver" /\ pc' = pc /\ req' = req /\ gen' = gen /\ active' = active
      /\ avail' = avail /\ tokens' = tokens /\ todo' = todo /\ kept' = kept
      /\ out' = out /\ got' = got /\ status[r] = "NEW"
      /\ status' = [status EXCEPT ![r] = "WAITING"] /\ pool' = pool \cup {r}
      /\ waiting' = Append(waiting, r) /\ stream' = [stream EXCEPT ![r] = "get"]
  BY DEF Start, native, loop, Suspended
<1>2. r \notin ToSet(waiting) /\ r \notin ToSet(active) /\ r \notin KV!Registered
      /\ KV!Registered' = KV!Registered
  BY <1>1 DEF IInv, Places, Holders, KV!Registered
<1>3. /\ waiting' \in Seq(Reqs) /\ ToSet(waiting') = ToSet(waiting) \cup {r}
      /\ IsInjective(waiting')
  BY <1>1, <1>2, AppendedQueue DEF IInv, TypeOK, Places
<1>4. /\ \A s \in Reqs \ {r} : status'[s] = status[s] /\ stream'[s] = stream[s]
      /\ status'[r] = "WAITING" /\ stream'[r] = "get"
  BY <1>1 DEF IInv, TypeOK
<1>5. TypeOK'
  BY <1>1, <1>2, <1>3 DEF IInv, TypeOK
<1>6. Places'
  BY <1>1, <1>2, <1>3, <1>4 DEF IInv, TypeOK, Places
<1>7. Streams'
  <2>1. EOS \notin ToSet(out[r]) /\ out[r] = <<>> /\ got[r] = <<>> /\ gen[r] = 0
    BY <1>1 DEF IInv, Streams
  <2> QED  BY <1>1, <1>4, <2>1 DEF IInv, TypeOK, Streams
<1>8. Holders'
  BY <1>1, <1>2, <1>4 DEF IInv, TypeOK, Holders, StreamOwnsKV
<1> QED  BY <1>1, <1>5, <1>6, <1>7, <1>8 DEF IInv, TokenLoop

LEMMA StreamOK ==
    ASSUME IInv, NEW r \in Reqs, Get(r) \/ Resume(r) \/ Disconnect(r)
    PROVE  IInv'
<1>1. /\ r \in pool /\ pc # "deliver" /\ pc' = pc /\ req' = req /\ gen' = gen
      /\ status' = status /\ waiting' = waiting /\ active' = active
      /\ todo' = todo /\ kept' = kept
  BY StreamSteps DEF Rest, loop, Suspended
<1>2. Places' /\ TokenLoop'
  BY <1>1 DEF IInv, Places, TokenLoop
<1>3. CASE Closes(r)
  <2>1. PICK how \in {"closed", "left", "cut"} : ClosedAs(r, how) /\ Close(r, how)
    BY <1>3 DEF Closes
  <2>2. /\ pool' = pool \ {r} /\ stream' = [stream EXCEPT ![r] = how]
        /\ KV!Registered' = KV!Registered \ {r}
        /\ tokens' \in [KV!Registered' -> Nat \ {0}] /\ avail' \in Nat
    BY <1>1, <2>1, CloseEffect DEF IInv
  <2>3. \A s \in Reqs : stream'[s] = IF s = r THEN how ELSE stream[s]
    BY <2>2 DEF IInv, TypeOK
  <2>4. out' = out /\ got' = got
    BY <1>3 DEF Closes
  <2>5. TypeOK'
    BY <1>1, <2>2, <2>4 DEF IInv, TypeOK
  <2>6. Streams'
    <3>1. /\ how = "closed" => status[r] = "FINISHED"
          /\ how = "cut" => status[r] = "RUNNING"
          /\ status[r] # "NEW"
      BY <2>1 DEF ClosedAs
    <3> QED  BY <1>1, <2>2, <2>3, <2>4, <3>1 DEF IInv, TypeOK, Streams
  <2>7. Holders'
    BY <1>1, <2>2, <2>3 DEF IInv, TypeOK, Holders, StreamOwnsKV
  <2> QED  BY <1>2, <2>5, <2>6, <2>7 DEF IInv
<1>4. CASE Yields(r) \/ Waits(r)
  <2>1. /\ pool' = pool /\ avail' = avail /\ tokens' = tokens
        /\ KV!Registered' = KV!Registered
        /\ stream' \in [Reqs -> {"none", "get", "yield", "closed", "left", "cut"}]
        /\ \A s \in Reqs \ {r} : stream'[s] = stream[s]
        /\ stream'[r] \in {"get", "yield"} /\ stream[r] \in {"get", "yield"}
    BY <1>1, <1>4 DEF IInv, TypeOK, Streams, Yields, Waits, native, KV!Registered
  <2>2. /\ out' \in [Reqs -> Seq(Nat)] /\ got' \in [Reqs -> Seq(Nat)]
        /\ \A s \in Reqs : ToSet(out'[s]) \subseteq ToSet(out[s])
        /\ \A s \in Reqs \ {r} : out'[s] = out[s] /\ got'[s] = got[s]
        /\ stream'[r] = "get" => out'[r] = <<>>
        /\ out[r] = <<>> => out'[r] = out[r] /\ got'[r] = got[r]
    <3>1. CASE Waits(r)
      BY <3>1 DEF Waits, IInv, TypeOK
    <3>2. CASE Yields(r)
      <4>1. out[r] \in Seq(Nat) /\ got[r] \in Seq(Nat) /\ out[r] # <<>>
        BY <3>2 DEF Yields, IInv, TypeOK
      <4>2. /\ Tail(out[r]) \in Seq(Nat) /\ ToSet(Tail(out[r])) \subseteq ToSet(out[r])
            /\ Head(out[r]) \in Nat /\ Append(got[r], Head(out[r])) \in Seq(Nat)
        BY <4>1, TailOfQueue, AppendedQueue
      <4> QED  BY <3>2, <4>2 DEF Yields, IInv, TypeOK
    <3> QED  BY <1>4, <3>1, <3>2
  <2>3. TypeOK'
    BY <1>1, <2>1, <2>2 DEF IInv, TypeOK
  <2>4. Streams'
    <3>1. \A s \in Reqs : status'[s] \in {"NEW", "WAITING"} =>
             gen'[s] = 0 /\ out'[s] = <<>> /\ got'[s] = <<>>
      BY <1>1, <2>2 DEF IInv, Streams
    <3>2. \A s \in Reqs : stream'[s] = "get" /\ out'[s] # <<>> => Head(out'[s]) # EOS
      BY <2>1, <2>2 DEF IInv, Streams
    <3>3. \A s \in Reqs : EOS \in ToSet(out'[s]) => status'[s] = "FINISHED"
      BY <1>1, <2>2 DEF IInv, Streams
    <3>4. pool' = {s \in Reqs : stream'[s] \in {"get", "yield"}}
      BY <2>1 DEF IInv, Streams
    <3>5. /\ \A s \in Reqs : stream'[s] = "none" <=> status'[s] = "NEW"
          /\ \A s \in Reqs : stream'[s] = "closed" => status'[s] = "FINISHED"
          /\ \A s \in Reqs : stream'[s] = "cut" => status'[s] \in {"RUNNING", "FINISHED"}
      BY <1>1, <2>1 DEF IInv, Streams
    <3> QED  BY <3>1, <3>2, <3>3, <3>4, <3>5 DEF Streams
  <2>5. Holders'
    BY <1>1, <2>1 DEF IInv, TypeOK, Holders, StreamOwnsKV
  <2> QED  BY <1>2, <2>3, <2>4, <2>5 DEF IInv
<1> QED  BY <1>3, <1>4, StreamSteps

\* The steps that only move the batch loop on.
LEMMA MoveOK ==
    ASSUME IInv, UNCHANGED data, pc # "deliver",
           pc' \in {"idle", "promote", "step", "compute", "stopped"}
    PROVE  IInv'
<1>1. /\ req' = req /\ status' = status /\ gen' = gen /\ pool' = pool
      /\ waiting' = waiting /\ active' = active /\ avail' = avail /\ tokens' = tokens
      /\ todo' = todo /\ kept' = kept /\ out' = out /\ got' = got /\ stream' = stream
      /\ KV!Registered' = KV!Registered
  BY DEF data, native, KV!Registered
<1> QED  BY <1>1 DEF IInv, TypeOK, Places, Streams, Holders, StreamOwnsKV,
                     TokenLoop

LEMMA RequeueOK ==
    ASSUME IInv, Requeue
    PROVE  IInv'
<1> DEFINE r == Head(waiting)
<1>1. /\ waiting \in Seq(Reqs) /\ waiting # <<>> /\ IsInjective(waiting)
      /\ waiting' = Append(Tail(waiting), r) /\ pc' = "step"
  BY DEF Requeue, IInv, TypeOK, Places
<1>2. /\ req' = req /\ status' = status /\ gen' = gen /\ pool' = pool
      /\ active' = active /\ avail' = avail /\ tokens' = tokens
      /\ todo' = todo /\ kept' = kept /\ out' = out /\ got' = got /\ stream' = stream
      /\ KV!Registered' = KV!Registered
  BY DEF Requeue, native, KV!Registered
<1>3. /\ r \in Reqs /\ r \in ToSet(waiting) /\ Tail(waiting) \in Seq(Reqs)
      /\ IsInjective(Tail(waiting)) /\ ToSet(Tail(waiting)) = ToSet(waiting) \ {r}
  BY <1>1, TailOfQueue
<1> HIDE DEF r
<1>4. /\ waiting' \in Seq(Reqs) /\ IsInjective(waiting')
      /\ ToSet(waiting') = ToSet(waiting)
  <2> DEFINE t == Tail(waiting)
  <2>1. /\ t \in Seq(Reqs) /\ IsInjective(t) /\ r \notin ToSet(t) /\ r \in Reqs
        /\ ToSet(t) \cup {r} = ToSet(waiting) /\ waiting' = Append(t, r)
    BY <1>1, <1>3
  <2> HIDE DEF t
  <2>2. /\ Append(t, r) \in Seq(Reqs) /\ IsInjective(Append(t, r))
        /\ ToSet(Append(t, r)) = ToSet(t) \cup {r}
    BY <2>1, AppendedQueue
  <2> QED  BY <2>1, <2>2
<1> QED  BY <1>1, <1>2, <1>4
            DEF IInv, TypeOK, Places, Streams, Holders, StreamOwnsKV, TokenLoop

LEMMA PromoteOK ==
    ASSUME IInv, Promote
    PROVE  IInv'
<1> DEFINE r == Head(waiting)
<1>1. /\ waiting \in Seq(Reqs) /\ waiting # <<>> /\ IsInjective(waiting)
      /\ active \in Seq(Reqs) /\ IsInjective(active)
  BY DEF Promote, IInv, TypeOK, Places
<1>2. /\ r \in Reqs /\ r \in ToSet(waiting) /\ Tail(waiting) \in Seq(Reqs)
      /\ IsInjective(Tail(waiting)) /\ ToSet(Tail(waiting)) = ToSet(waiting) \ {r}
  BY <1>1, TailOfQueue
<1>3. /\ pc = "promote" /\ pc' = pc /\ req' = req /\ gen' = gen /\ pool' = pool
      /\ todo' = todo /\ kept' = kept /\ out' = out /\ got' = got /\ stream' = stream
      /\ status' = [status EXCEPT ![r] = "RUNNING"]
      /\ active' = Append(active, r) /\ waiting' = Tail(waiting)
  BY DEF Promote, loop
<1>4. /\ Fits(r) /\ avail' = avail - KV!BlocksFor(req[r].prompt)
      /\ tokens' = [s \in KV!Registered \cup {r} |->
                       IF s = r THEN req[r].prompt ELSE tokens[s]]
  BY DEF Promote
<1> HIDE DEF r
<1>5. status[r] = "WAITING" /\ r \notin ToSet(active)
  BY <1>2 DEF IInv, Places
<1>6. req[r].prompt \in Nat \ {0}
  BY <1>2, WorkerAssumption DEF IInv, TypeOK
<1>7. /\ KV!Registered' = KV!Registered \cup {r}
      /\ tokens' \in [KV!Registered' -> Nat \ {0}]
  BY <1>2, <1>4, <1>6 DEF IInv, TypeOK, KV!Registered
<1>8. avail' \in Nat
  <2>1. KV!BlocksFor(req[r].prompt) \in Nat
    BY <1>6, BlocksAreNat
  <2> QED  BY <1>4, <2>1 DEF Fits, IInv, TypeOK
<1>9. /\ active' \in Seq(Reqs) /\ ToSet(active') = ToSet(active) \cup {r}
      /\ IsInjective(active')
  BY <1>1, <1>2, <1>3, <1>5, AppendedQueue
<1>10. \A s \in Reqs : status'[s] = IF s = r THEN "RUNNING" ELSE status[s]
  BY <1>2, <1>3 DEF IInv, TypeOK
<1>11. TypeOK'
  BY <1>2, <1>3, <1>7, <1>8, <1>9 DEF IInv, TypeOK
<1>12. Places'
  BY <1>2, <1>3, <1>5, <1>9, <1>10 DEF IInv, TypeOK, Places
<1>13. Streams'
  BY <1>2, <1>3, <1>5, <1>10 DEF IInv, TypeOK, Streams
<1>14. Holders'
  <2>1. r \in pool \/ stream[r] = "left"
    BY <1>2, <1>5 DEF IInv, TypeOK, Streams
  <2> QED  BY <1>2, <1>3, <1>7, <1>10, <2>1 DEF IInv, TypeOK, Holders, StreamOwnsKV
<1> QED  BY <1>3, <1>11, <1>12, <1>13, <1>14 DEF IInv, TokenLoop

LEMMA ComputedOK ==
    ASSUME IInv, Computed
    PROVE  IInv'
<1>1. /\ req' = req /\ status' = status /\ gen' = gen /\ pool' = pool
      /\ waiting' = waiting /\ active' = active /\ avail' = avail /\ tokens' = tokens
      /\ todo' = active /\ kept' = <<>> /\ out' = out /\ got' = got /\ stream' = stream
      /\ pc' = "deliver" /\ KV!Registered' = KV!Registered
  BY DEF Computed, native, KV!Registered
<1>2. TypeOK'
  BY <1>1 DEF IInv, TypeOK
<1>3. Places' /\ Streams' /\ Holders'
  BY <1>1 DEF IInv, Places, Streams, Holders, StreamOwnsKV
<1>4. TokenLoop'
  BY <1>1, EmptyQueue DEF IInv, Places, TokenLoop
<1> QED  BY <1>2, <1>3, <1>4 DEF IInv

\* What the token loop appends to an output queue.
LEMMA OutputsEffect ==
    ASSUME NEW r, NEW n \in Nat \ {0}, NEW q \in Seq(Nat)
    PROVE  /\ q \o Outputs(r, n) \in Seq(Nat)
           /\ ToSet(q \o Outputs(r, n)) \subseteq ToSet(q) \cup {n, EOS}
           /\ ~Completes(r, n) => ToSet(q \o Outputs(r, n)) = ToSet(q) \cup {n}
           /\ Head(q \o Outputs(r, n)) = IF q = <<>> THEN n ELSE Head(q)
<1>1. <<n>> \in Seq(Nat) /\ <<n, EOS>> \in Seq(Nat)
  BY DEF EOS
<1>2. ToSet(<<n>>) = {n} /\ ToSet(<<n, EOS>>) = {n, EOS}
  BY DEF ToSet
<1> DEFINE one == <<n>>  two == <<n, EOS>>
<1>3. /\ one \in Seq(Nat) /\ ToSet(one) = {n}
      /\ two \in Seq(Nat) /\ ToSet(two) = {n, EOS}
  BY <1>1, <1>2
<1>a. /\ Head(q \o one) = IF q = <<>> THEN n ELSE Head(q)
      /\ Head(q \o two) = IF q = <<>> THEN n ELSE Head(q)
  BY <1>1
<1> HIDE DEF one, two
<1>4. /\ q \o one \in Seq(Nat) /\ ToSet(q \o one) = ToSet(q) \cup {n}
      /\ q \o two \in Seq(Nat) /\ ToSet(q \o two) = ToSet(q) \cup {n, EOS}
  BY <1>3, ConcatenatedQueues
<1>5. /\ q \o <<n>> \in Seq(Nat) /\ ToSet(q \o <<n>>) = ToSet(q) \cup {n}
      /\ q \o <<n, EOS>> \in Seq(Nat) /\ ToSet(q \o <<n, EOS>>) = ToSet(q) \cup {n, EOS}
      /\ Head(q \o <<n>>) = IF q = <<>> THEN n ELSE Head(q)
      /\ Head(q \o <<n, EOS>>) = IF q = <<>> THEN n ELSE Head(q)
  BY <1>4, <1>a DEF one, two
<1>6. Outputs(r, n) = IF Completes(r, n) THEN <<n, EOS>> ELSE <<n>>
  BY DEF Outputs
<1> HIDE DEF Outputs
<1>7. CASE Completes(r, n)
  BY <1>5, <1>6, <1>7
<1>8. CASE ~Completes(r, n)
  BY <1>5, <1>6, <1>8
<1> QED  BY <1>7, <1>8

LEMMA DeliverOK ==
    ASSUME IInv, Deliver
    PROVE  IInv'
<1> DEFINE r == Head(todo)  n == gen[r] + 1
<1>1. /\ todo \in Seq(Reqs) /\ todo # <<>> /\ pc = "deliver" /\ kept \in Seq(Reqs)
      /\ IsInjective(todo) /\ IsInjective(kept) /\ ToSet(todo) \cap ToSet(kept) = {}
      /\ ToSet(todo) \cup ToSet(kept) \subseteq ToSet(active)
  BY DEF Deliver, Delivering, IInv, TypeOK, TokenLoop
<1>2. /\ r \in Reqs /\ r \in ToSet(todo) /\ Tail(todo) \in Seq(Reqs)
      /\ IsInjective(Tail(todo)) /\ ToSet(Tail(todo)) = ToSet(todo) \ {r}
  BY <1>1, TailOfQueue
<1>3. /\ pc' = pc /\ req' = req /\ pool' = pool /\ waiting' = waiting /\ active' = active
      /\ got' = got /\ stream' = stream /\ todo' = Tail(todo)
      /\ KV!Grow(r, 1) /\ kept' = Retained(r, n)
      /\ gen' = [gen EXCEPT ![r] = n]
      /\ out' = [out EXCEPT ![r] = @ \o Outputs(r, n)]
      /\ status' = [status EXCEPT ![r] = IF Completes(r, n) THEN "FINISHED" ELSE @]
  BY DEF Deliver
<1>4. gen[r] \in Nat /\ n \in Nat \ {0}
  BY <1>2 DEF IInv, TypeOK
<1> HIDE DEF r, n
<1>5. /\ KV!Registered' = KV!Registered /\ r \in KV!Registered
      /\ tokens' \in [KV!Registered' -> Nat \ {0}] /\ avail' \in Nat
  BY <1>2, <1>3, GrowEffect DEF IInv
<1>6. /\ kept' \in Seq(Reqs) /\ IsInjective(kept')
      /\ ToSet(kept') = IF Completes(r, n) THEN ToSet(kept) ELSE ToSet(kept) \cup {r}
  <2>1. r \notin ToSet(kept)
    BY <1>1, <1>2
  <2>2. /\ Append(kept, r) \in Seq(Reqs) /\ IsInjective(Append(kept, r))
        /\ ToSet(Append(kept, r)) = ToSet(kept) \cup {r}
    BY <1>1, <1>2, <2>1, AppendedQueue
  <2>3. kept' = IF Completes(r, n) THEN kept ELSE Append(kept, r)
    BY <1>3 DEF Retained
  <2>4. CASE Completes(r, n)
    BY <1>1, <2>3, <2>4
  <2>5. CASE ~Completes(r, n)
    BY <2>2, <2>3, <2>5
  <2> QED  BY <2>4, <2>5
<1>7. \A s \in Reqs :
        status'[s] = IF s = r /\ Completes(r, n) THEN "FINISHED" ELSE status[s]
  BY <1>2, <1>3 DEF IInv, TypeOK
<1>8. out[r] \in Seq(Nat) /\ out[r] \o Outputs(r, n) \in Seq(Nat)
  BY <1>2, <1>4, OutputsEffect DEF IInv, TypeOK
<1>9. TypeOK'
  BY <1>2, <1>3, <1>4, <1>5, <1>6, <1>8 DEF IInv, TypeOK
<1>10. status[r] \in {"RUNNING", "FINISHED"}
  BY <1>1, <1>2 DEF IInv, Places
<1>11. Places'
  BY <1>2, <1>3, <1>7, <1>10 DEF IInv, TypeOK, Places
<1>12. Streams'
  <2>1. \A s \in Reqs \ {r} : out'[s] = out[s]
    BY <1>3 DEF IInv, TypeOK
  <2>2. out'[r] = out[r] \o Outputs(r, n)
    BY <1>2, <1>3 DEF IInv, TypeOK
  <2>3. EOS \in ToSet(out'[r]) => status'[r] = "FINISHED"
    <3>1. CASE Completes(r, n)
      BY <1>2, <1>7, <3>1
    <3>2. CASE ~Completes(r, n)
      <4>1. ToSet(out'[r]) = ToSet(out[r]) \cup {n} /\ n # EOS
        BY <1>4, <1>8, <2>2, <3>2, OutputsEffect DEF EOS
      <4> QED  BY <1>2, <1>7, <3>2, <4>1 DEF IInv, Streams
    <3> QED  BY <3>1, <3>2
  <2>4. out'[r] # <<>> /\ Head(out'[r]) = IF out[r] = <<>> THEN n ELSE Head(out[r])
    <3>1. out'[r] # <<>>
      BY <1>8, <2>2 DEF Outputs
    <3> QED  BY <1>4, <1>8, <2>2, <3>1, OutputsEffect
  <2>5. stream'[r] = "get" => Head(out'[r]) # EOS
    BY <1>2, <1>3, <1>4, <2>4 DEF IInv, Streams, EOS
  <2>6. \A s \in Reqs : status'[s] \in {"NEW", "WAITING"} =>
           gen'[s] = 0 /\ out'[s] = <<>> /\ got'[s] = <<>>
    BY <1>2, <1>3, <1>7, <1>10, <2>1 DEF IInv, TypeOK, Streams
  <2> QED  BY <1>2, <1>3, <1>7, <1>10, <2>1, <2>3, <2>5, <2>6 DEF IInv, TypeOK, Streams
<1>13. Holders'
  BY <1>2, <1>3, <1>5, <1>7, <1>10 DEF IInv, TypeOK, Holders, StreamOwnsKV
<1>14. TokenLoop'
  BY <1>1, <1>2, <1>3, <1>6, <1>7 DEF IInv, TypeOK, TokenLoop
<1> QED  BY <1>9, <1>11, <1>12, <1>13, <1>14 DEF IInv

LEMMA DeliverFailsOK ==
    ASSUME IInv, DeliverFails
    PROVE  IInv'
<1> DEFINE r == Head(todo)
<1>1. /\ req' = req /\ status' = status /\ pool' = pool
      /\ waiting' = waiting /\ active' = active /\ avail' = avail /\ tokens' = tokens
      /\ todo' = <<>> /\ kept' = <<>> /\ out' = out /\ got' = got /\ stream' = stream
      /\ pc' = "idle" /\ KV!Registered' = KV!Registered
      /\ gen' = [gen EXCEPT ![r] = @ + 1]
  BY DEF DeliverFails, native, KV!Registered
<1>2. r \in Reqs /\ status[r] \in {"RUNNING", "FINISHED"}
  BY TailOfQueue DEF DeliverFails, Delivering, IInv, TypeOK, Places, TokenLoop
<1> HIDE DEF r
<1>3. gen' \in [Reqs -> Nat] /\ \A s \in Reqs \ {r} : gen'[s] = gen[s]
  BY <1>1, <1>2 DEF IInv, TypeOK
<1>4. TypeOK'
  BY <1>1, <1>3 DEF IInv, TypeOK
<1>5. Streams'
  BY <1>1, <1>2, <1>3 DEF IInv, TypeOK, Streams
<1> QED  BY <1>1, <1>4, <1>5 DEF IInv, Places, Holders, StreamOwnsKV,
                            TokenLoop

LEMMA DeliverDoneOK ==
    ASSUME IInv, DeliverDone
    PROVE  IInv'
<1>1. /\ req' = req /\ status' = status /\ gen' = gen /\ pool' = pool
      /\ waiting' = waiting /\ active' = kept /\ avail' = avail /\ tokens' = tokens
      /\ todo' = todo /\ kept' = <<>> /\ out' = out /\ got' = got /\ stream' = stream
      /\ pc' = "promote" /\ KV!Registered' = KV!Registered
      /\ pc = "deliver" /\ todo = <<>>
  BY DEF DeliverDone, native, KV!Registered
<1>2. /\ ToSet(kept) \subseteq ToSet(active) /\ IsInjective(kept)
      /\ \A r \in ToSet(active) : status[r] # "FINISHED" => r \in ToSet(kept)
  BY <1>1, EmptyQueue DEF IInv, TokenLoop
<1>3. TypeOK'
  BY <1>1 DEF IInv, TypeOK
<1>4. Places'
  BY <1>1, <1>2 DEF IInv, Places
<1> QED  BY <1>1, <1>3, <1>4 DEF IInv, Streams, Holders, StreamOwnsKV, TokenLoop

LEMMA StepOK ==
    ASSUME IInv, [Next]_vars
    PROVE  IInv'
<1>1. CASE UNCHANGED vars
  BY <1>1 DEF vars, native, loop, KV!Registered, IInv, TypeOK, Places, Streams, Holders,
              StreamOwnsKV, TokenLoop
<1>2. CASE \E r \in Reqs : Start(r)
  BY <1>2, StartOK
<1>3. CASE \E r \in Reqs : Get(r) \/ Resume(r) \/ Disconnect(r)
  BY <1>3, StreamOK
<1>4. CASE Shutdown \/ Wake \/ PromoteDone \/ Idle \/ StepBegins \/ StepFails
  BY <1>4, MoveOK DEF Shutdown, Wake, PromoteDone, Idle, StepBegins, StepFails
<1>5. CASE Promote
  BY <1>5, PromoteOK
<1>6. CASE Requeue
  BY <1>6, RequeueOK
<1>7. CASE Computed
  BY <1>7, ComputedOK
<1>8. CASE Deliver
  BY <1>8, DeliverOK
<1>9. CASE DeliverFails
  BY <1>9, DeliverFailsOK
<1>10. CASE DeliverDone
  BY <1>10, DeliverDoneOK
<1> QED  BY <1>1, <1>2, <1>3, <1>4, <1>5, <1>6, <1>7, <1>8, <1>9, <1>10
            DEF Next, BatchLoop

-----------------------------------------------------------------------------
(* Theorems *)

\* The invariant of the batch loop and the streams.
THEOREM Invariance == Spec => []IInv
<1> QED  BY InitOK, StepOK, PTL DEF Spec

\* The worker's state is well typed; the pool never runs below zero blocks.
THEOREM TypeCorrect == Spec => []TypeOK
<1>1. IInv => TypeOK
  BY DEF IInv
<1> QED  BY <1>1, Invariance, PTL

\* KV blocks belong to open streams, or to requests whose clients left before
\* promotion: refused appends, failing steps and other disconnects leak none.
THEOREM KVHasOwner == Spec => []StreamOwnsKV
<1>1. IInv => StreamOwnsKV
  BY DEF IInv, Holders
<1> QED  BY <1>1, Invariance, PTL

\* A request whose stream is open is waiting or active until it is finished,
\* and is there once.
THEOREM NothingLost == Spec => []NoRequestLost
<1>1. IInv => NoRequestLost
  <2> SUFFICES ASSUME IInv PROVE NoRequestLost
    OBVIOUS
  <2>1. /\ IsInjective(waiting \o active)
        /\ ToSet(waiting \o active) = ToSet(waiting) \cup ToSet(active)
    BY ConcatenatedQueues DEF IInv, TypeOK, Places
  <2>2. \A r \in pool : status[r] \in {"WAITING", "RUNNING", "FINISHED"} /\ r \in Reqs
    BY DEF IInv, TypeOK, Streams
  <2> QED  BY <2>1, <2>2 DEF IInv, Places, NoRequestLost
<1> QED  BY <1>1, Invariance, PTL

-----------------------------------------------------------------------------
(* What the streams are handed *)

\* A step runs on requests that are not finished.  Only a refused append leaves
\* a finished one in the batch.
Batches ==
    /\ pc # "deliver" => \A r \in ToSet(active) : status[r] = "RUNNING"
    /\ pc = "deliver" => \A r \in ToSet(todo) \cup ToSet(kept) : status[r] = "RUNNING"

\* The part of StreamInOrder that is about what is handed to one stream, when
\* n tokens are counted for its request.
Ordered(r, handed, n) ==
    /\ ToSet(handed) \subseteq {EOS} \cup 1 .. n
    /\ \A i, j \in DOMAIN handed :
          i < j /\ handed[j] # EOS => handed[i] < handed[j]
    /\ \A i \in 1 .. Len(handed) + 1 :
          i <= Len(handed) /\ handed[i] = EOS <=>
             i > 1 /\ handed[i - 1] # EOS /\ Completes(r, handed[i - 1])

Placed(handed) == Cardinality(ToSet(handed) \ {EOS})

FInv ==
    /\ IInv
    /\ StreamInOrder
    /\ Undisturbed => ToSet(active) \subseteq KV!Registered /\ Batches

\* A head moved from one queue to the other.
LEMMA MovedHead ==
    ASSUME NEW g \in Seq(Nat), NEW q \in Seq(Nat), q # <<>>
    PROVE  Append(g, Head(q)) \o Tail(q) = g \o q
  OBVIOUS

LEMMA Associative ==
    ASSUME NEW g \in Seq(Nat), NEW p \in Seq(Nat), NEW q \in Seq(Nat)
    PROVE  g \o (p \o q) = (g \o p) \o q
  OBVIOUS

LEMMA HandedIsSeq ==
    ASSUME TypeOK, NEW r \in Reqs
    PROVE  Handed(r) \in Seq(Nat) /\ gen[r] \in Nat
  BY DEF TypeOK, Handed

LEMMA OrderedStreams ==
    ASSUME FInv, NEW r \in Reqs
    PROVE  /\ Ordered(r, Handed(r), gen[r])
           /\ r \in KV!Registered => tokens[r] = req[r].prompt + Placed(Handed(r))
  BY DEF FInv, StreamInOrder, Ordered, Placed

\* A token counted and not handed over leaves the order as it is.
LEMMA OrderedSkips ==
    ASSUME NEW r, NEW h \in Seq(Nat), NEW n \in Nat, Ordered(r, h, n)
    PROVE  Ordered(r, h, n + 1)
<1>1. 1 .. n \subseteq 1 .. n + 1
  OBVIOUS
<1> QED  BY <1>1 DEF Ordered

\* One token more, without and with the sentinel.
LEMMA OrderedGrows ==
    ASSUME NEW r, NEW h \in Seq(Nat), NEW n \in Nat, Ordered(r, h, n)
    PROVE  Ordered(r, h \o Outputs(r, n + 1), n + 1)
<1> DEFINE one == <<n + 1>>  two == <<n + 1, EOS>>  k == Len(h)
<1>1. /\ k \in Nat /\ DOMAIN h = 1 .. k /\ ToSet(h) \subseteq {EOS} \cup 1 .. n
      /\ \A i \in 1 .. k : h[i] \in ToSet(h) /\ h[i] \in Nat /\ h[i] <= n
  <2>1. k \in Nat /\ DOMAIN h = 1 .. k /\ \A i \in 1 .. k : h[i] \in Nat
    OBVIOUS
  <2>2. \A i \in 1 .. k : h[i] \in ToSet(h)
    BY <2>1 DEF ToSet
  <2>3. ToSet(h) \subseteq {EOS} \cup 1 .. n
    BY DEF Ordered
  <2>4. \A m \in {EOS} \cup 1 .. n : m <= n
    BY DEF EOS
  <2> QED  BY <2>1, <2>2, <2>3, <2>4
<1>2. /\ one \in Seq(Nat) /\ two \in Seq(Nat) /\ n + 1 # EOS
      /\ ToSet(one) = {n + 1} /\ ToSet(two) = {n + 1, EOS}
  <2>1. ToSet(one) = {n + 1} /\ ToSet(two) = {n + 1, EOS}
    BY DEF ToSet
  <2>2. one \in Seq(Nat) /\ two \in Seq(Nat) /\ n + 1 # EOS
    BY DEF EOS
  <2> HIDE DEF one, two
  <2> QED  BY <2>1, <2>2
<1>3. /\ Len(h \o one) = k + 1 /\ (h \o one)[k + 1] = n + 1
      /\ \A i \in 1 .. k : (h \o one)[i] = h[i]
  BY <1>1, <1>2
<1>4. /\ Len(h \o two) = k + 2 /\ (h \o two)[k + 1] = n + 1 /\ (h \o two)[k + 2] = EOS
      /\ \A i \in 1 .. k : (h \o two)[i] = h[i]
  BY <1>1, <1>2
<1>5. /\ h \o one \in Seq(Nat) /\ ToSet(h \o one) = ToSet(h) \cup {n + 1}
      /\ h \o two \in Seq(Nat) /\ ToSet(h \o two) = ToSet(h) \cup {n + 1, EOS}
  <2> HIDE DEF one, two
  <2> QED  BY <1>2, ConcatenatedQueues
<1>6. /\ \A i, j \in 1 .. k : i < j /\ h[j] # EOS => h[i] < h[j]
      /\ \A i \in 1 .. k + 1 : i <= k /\ h[i] = EOS <=>
            i > 1 /\ h[i - 1] # EOS /\ Completes(r, h[i - 1])
  BY <1>1 DEF Ordered
<1>7. \A i \in 1 .. k : h[i] < n + 1
  BY <1>1
<1>8. {EOS} \cup 1 .. n \cup {n + 1} = {EOS} \cup 1 .. n + 1
  OBVIOUS
<1>9. CASE ~Completes(r, n + 1)
  <2> DEFINE q == h \o one
  <2>1. Outputs(r, n + 1) = one
    BY <1>9 DEF Outputs
  <2>2. /\ Len(q) = k + 1 /\ q[k + 1] = n + 1 /\ q \in Seq(Nat) /\ DOMAIN q = 1 .. k + 1
        /\ \A i \in 1 .. k : q[i] = h[i]
    BY <1>3, <1>5
  <2>3. ToSet(q) \subseteq {EOS} \cup 1 .. n + 1
    BY <1>1, <1>5, <1>8
  <2> HIDE DEF q
  <2>4. \A i, j \in DOMAIN q : i < j /\ q[j] # EOS => q[i] < q[j]
    <3> SUFFICES ASSUME NEW i \in 1 .. k + 1, NEW j \in 1 .. k + 1, i < j, q[j] # EOS
                 PROVE  q[i] < q[j]
      BY <2>2
    <3>1. i \in 1 .. k /\ (j = k + 1 \/ j \in 1 .. k)
      BY <1>1
    <3> QED  BY <1>6, <1>7, <2>2, <3>1
  <2>5. ASSUME NEW i \in 1 .. Len(q) + 1
        PROVE  i <= Len(q) /\ q[i] = EOS <=>
                  i > 1 /\ q[i - 1] # EOS /\ Completes(r, q[i - 1])
    <3>1. CASE i \in 1 .. k
      <4> HIDE DEF k
      <4>1. i > 1 => i - 1 \in 1 .. k
        BY <1>1, <3>1
      <4>2. q[i] = h[i] /\ (i > 1 => q[i - 1] = h[i - 1])
        BY <2>2, <3>1, <4>1
      <4> QED  BY <1>1, <1>6, <2>2, <3>1, <4>2
    <3>2. CASE i = k + 1
      <4>1. q[i] # EOS /\ (i > 1 => q[i - 1] = h[i - 1])
        BY <1>1, <1>2, <2>2, <3>2
      <4>2. ~(i > 1 /\ h[i - 1] # EOS /\ Completes(r, h[i - 1]))
        BY <1>1, <1>6, <3>2
      <4> QED  BY <4>1, <4>2
    <3>3. CASE i = k + 2
      <4>1. ~(i <= Len(q)) /\ q[i - 1] = n + 1
        BY <1>1, <2>2, <3>3
      <4>2. ~Completes(r, q[i - 1])
        BY <1>9, <4>1
      <4> QED  BY <4>1, <4>2
    <3>4. i \in 1 .. k \/ i = k + 1 \/ i = k + 2
      BY <1>1, <2>2
    <3> HIDE DEF k
    <3> QED  BY <3>1, <3>2, <3>3, <3>4
  <2>6. Ordered(r, q, n + 1)
    BY <2>3, <2>4, <2>5 DEF Ordered
  <2> QED  BY <2>1, <2>6 DEF q
<1>10. CASE Completes(r, n + 1)
  <2> DEFINE q == h \o two
  <2>1. Outputs(r, n + 1) = two
    BY <1>10 DEF Outputs
  <2>2. /\ Len(q) = k + 2 /\ q[k + 1] = n + 1 /\ q[k + 2] = EOS
        /\ q \in Seq(Nat) /\ DOMAIN q = 1 .. k + 2
        /\ \A i \in 1 .. k : q[i] = h[i]
    BY <1>4, <1>5
  <2>3. ToSet(q) \subseteq {EOS} \cup 1 .. n + 1
    BY <1>1, <1>5, <1>8
  <2> HIDE DEF q
  <2>4. \A i, j \in DOMAIN q : i < j /\ q[j] # EOS => q[i] < q[j]
    <3> SUFFICES ASSUME NEW i \in 1 .. k + 2, NEW j \in 1 .. k + 2, i < j, q[j] # EOS
                 PROVE  q[i] < q[j]
      BY <2>2
    <3>1. j # k + 2
      BY <2>2
    <3>2. i \in 1 .. k /\ (j = k + 1 \/ j \in 1 .. k)
      BY <1>1, <3>1
    <3> QED  BY <1>6, <1>7, <2>2, <3>2
  <2>5. ASSUME NEW i \in 1 .. Len(q) + 1
        PROVE  i <= Len(q) /\ q[i] = EOS <=>
                  i > 1 /\ q[i - 1] # EOS /\ Completes(r, q[i - 1])
    <3>1. CASE i \in 1 .. k
      <4> HIDE DEF k
      <4>1. i > 1 => i - 1 \in 1 .. k
        BY <1>1, <3>1
      <4>2. q[i] = h[i] /\ (i > 1 => q[i - 1] = h[i - 1])
        BY <2>2, <3>1, <4>1
      <4> QED  BY <1>1, <1>6, <2>2, <3>1, <4>2
    <3>2. CASE i = k + 1
      <4>1. q[i] # EOS /\ (i > 1 => q[i - 1] = h[i - 1])
        BY <1>1, <1>2, <2>2, <3>2
      <4>2. ~(i > 1 /\ h[i - 1] # EOS /\ Completes(r, h[i - 1]))
        BY <1>1, <1>6, <3>2
      <4> QED  BY <4>1, <4>2
    <3>3. CASE i = k + 2
      <4>1. i <= Len(q) /\ i > 1 /\ q[i] = EOS /\ q[i - 1] = n + 1
        BY <1>1, <2>2, <3>3
      <4> QED  BY <1>2, <1>10, <4>1
    <3>4. CASE i = k + 3
      <4>1. ~(i <= Len(q)) /\ q[i - 1] = EOS
        BY <1>1, <2>2, <3>4
      <4> QED  BY <4>1
    <3> QED  BY <1>1, <2>2, <3>1, <3>2, <3>3, <3>4
  <2>6. Ordered(r, q, n + 1)
    BY <2>3, <2>4, <2>5 DEF Ordered
  <2> QED  BY <2>1, <2>6 DEF q
<1> QED  BY <1>9, <1>10

\* ... is one place more.
LEMMA PlacedGrows ==
    ASSUME NEW r, NEW h \in Seq(Nat), NEW n \in Nat, Ordered(r, h, n)
    PROVE  /\ Placed(h) \in Nat
           /\ Placed(h \o Outputs(r, n + 1)) = Placed(h) + 1
           /\ ToSet(h) \subseteq ToSet(h \o Outputs(r, n + 1))
           /\ ToSet(h \o Outputs(r, n + 1)) \subseteq ToSet(h) \cup {n + 1, EOS}
<1> DEFINE T == ToSet(h) \ {EOS}  one == <<n + 1>>  two == <<n + 1, EOS>>
<1>1. IsFiniteSet(T)
  <2>1. IsFiniteSet(ToSet(h))
    BY SizeOfQueue
  <2> QED  BY <2>1, FS_Subset
<1>2. n + 1 \notin T /\ n + 1 # EOS
  BY DEF Ordered, EOS
<1>3. /\ one \in Seq(Nat) /\ ToSet(one) = {n + 1}
      /\ two \in Seq(Nat) /\ ToSet(two) = {n + 1, EOS}
  <2>1. ToSet(one) = {n + 1} /\ ToSet(two) = {n + 1, EOS}
    BY DEF ToSet
  <2> QED  BY <2>1 DEF EOS
<1>4. Outputs(r, n + 1) = one \/ Outputs(r, n + 1) = two
  BY DEF Outputs
<1> HIDE DEF one, two
<1>5. /\ ToSet(h \o one) = ToSet(h) \cup {n + 1}
      /\ ToSet(h \o two) = ToSet(h) \cup {n + 1, EOS}
  BY <1>3, ConcatenatedQueues
<1>6. ToSet(h \o Outputs(r, n + 1)) \ {EOS} = T \cup {n + 1}
  BY <1>2, <1>4, <1>5
<1>7. Cardinality(T \cup {n + 1}) = Cardinality(T) + 1 /\ Cardinality(T) \in Nat
  BY <1>1, <1>2, FS_AddElement, FS_CardinalityType
<1>8. /\ ToSet(h) \subseteq ToSet(h \o Outputs(r, n + 1))
      /\ ToSet(h \o Outputs(r, n + 1)) \subseteq ToSet(h) \cup {n + 1, EOS}
  BY <1>4, <1>5
<1> QED  BY <1>6, <1>7, <1>8 DEF Placed

LEMMA InitHanded == Init => FInv
<1> SUFFICES ASSUME Init PROVE FInv
  OBVIOUS
<1>1. KV!Registered = {} /\ ToSet(active) = {} /\ pc # "deliver"
  BY EmptyQueue DEF Init, KV!Registered
<1>2. Undisturbed => ToSet(active) \subseteq KV!Registered /\ Batches
  BY <1>1 DEF Batches
<1>3. ASSUME NEW r \in Reqs PROVE Handed(r) = <<>>
  BY DEF Init, Handed
<1>4. StreamInOrder
  <2>1. \A i, j \in DOMAIN <<>> : FALSE
    OBVIOUS
  <2>2. \A i \in 1 .. Len(<<>>) + 1 : ~(i <= Len(<<>>)) /\ ~(i > 1)
    OBVIOUS
  <2> QED  BY <1>1, <1>3, <2>1, <2>2, EmptyQueue DEF StreamInOrder
<1> QED  BY <1>2, <1>4, InitOK DEF FInv

\* A step that hands over nothing and counts nothing.
LEMMA SameHanded ==
    ASSUME FInv, req' = req, gen' = gen, \A r \in Reqs : Handed(r)' = Handed(r),
           KV!Registered' \subseteq KV!Registered,
           \A r \in KV!Registered' : tokens'[r] = tokens[r]
    PROVE  StreamInOrder' /\ \A r \in Reqs : Lost(r)' = Lost(r)
<1>1. \A r \in Reqs : Lost(r)' = Lost(r)
  BY DEF Lost
<1>2. StreamInOrder'
  <2> SUFFICES ASSUME NEW s \in Reqs
               PROVE  /\ Ordered(s, Handed(s), gen[s])'
                      /\ s \in KV!Registered' =>
                           tokens'[s] = req'[s].prompt + Placed(Handed(s)')
    BY DEF StreamInOrder, Ordered, Placed
  <2>1. /\ Ordered(s, Handed(s), gen[s])
        /\ s \in KV!Registered => tokens[s] = req[s].prompt + Placed(Handed(s))
    BY OrderedStreams
  <2>2. Ordered(s, Handed(s), gen[s])'
    BY <2>1 DEF Ordered, Completes
  <2> QED  BY <2>1, <2>2
<1> QED  BY <1>1, <1>2

LEMMA StartHanded ==
    ASSUME FInv, IInv', NEW r \in Reqs, Start(r)
    PROVE  FInv'
<1>1. /\ pc # "deliver" /\ pc' = pc /\ req' = req /\ gen' = gen /\ active' = active
      /\ tokens' = tokens /\ out' = out /\ got' = got /\ status[r] = "NEW"
      /\ status' = [status EXCEPT ![r] = "WAITING"]
      /\ stream' = [stream EXCEPT ![r] = "get"] /\ KV!Registered' = KV!Registered
  BY DEF Start, native, loop, Suspended, KV!Registered
<1>2. StreamInOrder' /\ \A s \in Reqs : Lost(s)' = Lost(s)
  BY <1>1, SameHanded DEF Handed
<1>3. Undisturbed' => Undisturbed
  <2>1. stream[r] = "none" /\ \A s \in Reqs \ {r} : stream'[s] = stream[s]
    BY <1>1 DEF FInv, IInv, TypeOK, Streams
  <2> QED  BY <1>2, <2>1 DEF Undisturbed
<1>4. r \notin ToSet(active) /\ ToSet(active) \subseteq Reqs
  <2>1. r \notin ToSet(active)
    BY <1>1 DEF FInv, IInv, Places
  <2>2. ToSet(active) \subseteq Reqs
    BY DEF FInv, IInv, TypeOK, ToSet
  <2> QED  BY <2>1, <2>2
<1>5. Batches => Batches'
  BY <1>1, <1>4 DEF FInv, IInv, TypeOK, Batches
<1> QED  BY <1>1, <1>2, <1>3, <1>5 DEF FInv

LEMMA StreamHanded ==
    ASSUME FInv, IInv', NEW r \in Reqs, Get(r) \/ Resume(r) \/ Disconnect(r)
    PROVE  FInv'
<1>1. /\ r \in pool /\ pc # "deliver" /\ pc' = pc /\ req' = req /\ gen' = gen
      /\ status' = status /\ active' = active
      /\ Closes(r) \/ Yields(r) \/ Waits(r)
  BY StreamSteps DEF FInv, Rest, loop, Suspended
<1>2. Batches' <=> Batches
  BY <1>1 DEF Batches
<1>3. ToSet(active) \subseteq Reqs
  BY DEF FInv, IInv, TypeOK, ToSet
<1>4. CASE Closes(r)
  <2>1. PICK how \in {"closed", "left", "cut"} : ClosedAs(r, how) /\ Close(r, how)
    BY <1>4 DEF Closes
  <2>2. /\ stream' = [stream EXCEPT ![r] = how]
        /\ KV!Registered' = KV!Registered \ {r}
        /\ \A s \in KV!Registered' : tokens'[s] = tokens[s]
    BY <1>1, <2>1, CloseEffect DEF FInv, IInv
  <2>3. out' = out /\ got' = got
    BY <1>4 DEF Closes
  <2>4. StreamInOrder' /\ \A s \in Reqs : Lost(s)' = Lost(s)
    BY <1>1, <2>2, <2>3, SameHanded DEF Handed
  <2>5. ASSUME Undisturbed' PROVE Undisturbed /\ how # "cut"
    <3>1. stream'[r] = how /\ \A s \in Reqs \ {r} : stream'[s] = stream[s]
      BY <2>2 DEF FInv, IInv, TypeOK
    <3>2. stream[r] # "cut"
      BY <1>1 DEF FInv, IInv, Streams
    <3> QED  BY <2>4, <2>5, <3>1, <3>2 DEF Undisturbed
  <2>6. ASSUME Undisturbed' PROVE r \notin ToSet(active)
    <3>1. status[r] # "RUNNING"
      BY <2>1, <2>5, <2>6 DEF ClosedAs
    <3> QED  BY <1>1, <2>5, <2>6, <3>1 DEF FInv, Batches
  <2> QED  BY <1>1, <1>2, <2>2, <2>4, <2>5, <2>6 DEF FInv
<1>5. CASE Yields(r) \/ Waits(r)
  <2>1. /\ tokens' = tokens /\ KV!Registered' = KV!Registered
        /\ \A s \in Reqs \ {r} : stream'[s] = stream[s]
        /\ stream[r] \in {"get", "yield"}
    BY <1>1, <1>5 DEF FInv, IInv, TypeOK, Streams, Yields, Waits, native, KV!Registered
  <2>2. \A s \in Reqs : Handed(s)' = Handed(s)
    <3>1. CASE Waits(r)
      BY <3>1 DEF Waits, Handed
    <3>2. CASE Yields(r)
      <4>1. out[r] \in Seq(Nat) /\ got[r] \in Seq(Nat) /\ out[r] # <<>>
        BY <3>2 DEF Yields, FInv, IInv, TypeOK
      <4>2. Append(got[r], Head(out[r])) \o Tail(out[r]) = got[r] \o out[r]
        BY <4>1, MovedHead
      <4>3. /\ out'[r] = Tail(out[r]) /\ got'[r] = Append(got[r], Head(out[r]))
            /\ \A s \in Reqs \ {r} : out'[s] = out[s] /\ got'[s] = got[s]
        BY <3>2 DEF Yields, FInv, IInv, TypeOK
      <4> QED  BY <4>2, <4>3 DEF Handed
    <3> QED  BY <1>5, <3>1, <3>2
  <2>3. StreamInOrder' /\ \A s \in Reqs : Lost(s)' = Lost(s)
    BY <1>1, <2>1, <2>2, SameHanded
  <2>4. Undisturbed' => Undisturbed
    BY <2>1, <2>3 DEF Undisturbed
  <2> QED  BY <1>1, <1>2, <2>1, <2>3, <2>4 DEF FInv
<1> QED  BY <1>1, <1>4, <1>5

LEMMA MoveHanded ==
    ASSUME FInv, IInv', pc # "deliver", pc' # "deliver",
           UNCHANGED <<req, status, gen, pool, active, native, todo, kept, out, got, stream>>
    PROVE  FInv'
<1>1. /\ req' = req /\ status' = status /\ gen' = gen /\ active' = active
      /\ tokens' = tokens /\ out' = out /\ got' = got /\ stream' = stream
      /\ KV!Registered' = KV!Registered
  BY DEF native, KV!Registered
<1>2. StreamInOrder' /\ \A s \in Reqs : Lost(s)' = Lost(s)
  BY <1>1, SameHanded DEF Handed
<1> QED  BY <1>1, <1>2 DEF FInv, Batches, Undisturbed

LEMMA PromoteHanded ==
    ASSUME FInv, IInv', Promote
    PROVE  FInv'
<1> DEFINE r == Head(waiting)
<1>1. r \in Reqs /\ r \in ToSet(waiting)
  BY TailOfQueue DEF Promote, FInv, IInv, TypeOK
<1>2. /\ pc = "promote" /\ pc' = pc /\ req' = req /\ gen' = gen
      /\ out' = out /\ got' = got /\ stream' = stream
      /\ status' = [status EXCEPT ![r] = "RUNNING"] /\ active' = Append(active, r)
      /\ tokens' = [s \in KV!Registered \cup {r} |->
                       IF s = r THEN req[r].prompt ELSE tokens[s]]
  BY DEF Promote, loop
<1> HIDE DEF r
<1>3. status[r] = "WAITING" /\ r \notin KV!Registered
  BY <1>1 DEF FInv, IInv, Places, Holders
<1>4. /\ KV!Registered' = KV!Registered \cup {r} /\ tokens'[r] = req[r].prompt
      /\ \A s \in KV!Registered : tokens'[s] = tokens[s]
  BY <1>2, <1>3 DEF KV!Registered
<1>5. ToSet(active') = ToSet(active) \cup {r}
  BY <1>1, <1>2, AppendedQueue DEF FInv, IInv, TypeOK
<1>6. \A s \in Reqs : Handed(s)' = Handed(s) /\ Lost(s)' = Lost(s)
  BY <1>2 DEF Handed, Lost
<1>7. Placed(Handed(r)) = 0 /\ req[r].prompt \in Nat
  <2>1. out[r] = <<>> /\ got[r] = <<>>
    BY <1>1, <1>3 DEF FInv, IInv, Streams
  <2>2. ToSet(Handed(r)) \ {EOS} = {}
    BY <2>1, EmptyQueue DEF Handed
  <2>3. req[r].prompt \in Nat
    BY <1>1, WorkerAssumption DEF FInv, IInv, TypeOK
  <2> QED  BY <2>2, <2>3, FS_EmptySet DEF Placed
<1>8. StreamInOrder'
  <2> SUFFICES ASSUME NEW s \in Reqs
               PROVE  /\ Ordered(s, Handed(s), gen[s])'
                      /\ s \in KV!Registered' =>
                           tokens'[s] = req'[s].prompt + Placed(Handed(s)')
    BY DEF StreamInOrder, Ordered, Placed
  <2>1. /\ Ordered(s, Handed(s), gen[s])
        /\ s \in KV!Registered => tokens[s] = req[s].prompt + Placed(Handed(s))
    BY OrderedStreams
  <2>2. Ordered(s, Handed(s), gen[s])'
    BY <1>2, <1>6, <2>1 DEF Ordered, Completes
  <2> QED  BY <1>2, <1>4, <1>6, <1>7, <2>1, <2>2
<1>9. Undisturbed' <=> Undisturbed
  BY <1>2, <1>6 DEF Undisturbed
<1>10. Batches => Batches'
  <2>1. ToSet(active) \subseteq Reqs
    BY DEF FInv, IInv, TypeOK, ToSet
  <2>2. \A s \in Reqs : status'[s] = IF s = r THEN "RUNNING" ELSE status[s]
    BY <1>1, <1>2 DEF FInv, IInv, TypeOK
  <2> QED  BY <1>1, <1>2, <1>5, <2>1, <2>2 DEF Batches
<1> QED  BY <1>4, <1>5, <1>8, <1>9, <1>10 DEF FInv

LEMMA ComputedHanded ==
    ASSUME FInv, IInv', Computed
    PROVE  FInv'
<1>1. /\ req' = req /\ status' = status /\ gen' = gen /\ active' = active
      /\ tokens' = tokens /\ todo' = active /\ kept' = <<>>
      /\ out' = out /\ got' = got /\ stream' = stream
      /\ pc = "compute" /\ pc' = "deliver" /\ KV!Registered' = KV!Registered
  BY DEF Computed, native, KV!Registered
<1>2. StreamInOrder' /\ \A s \in Reqs : Lost(s)' = Lost(s)
  BY <1>1, SameHanded DEF Handed
<1>3. Batches => Batches'
  BY <1>1, EmptyQueue DEF Batches
<1> QED  BY <1>1, <1>2, <1>3 DEF FInv, Undisturbed

LEMMA DeliverHanded ==
    ASSUME FInv, IInv', Deliver
    PROVE  FInv'
<1>0. PICK r \in Reqs : r = Head(todo)
  BY TailOfQueue DEF Deliver, Delivering, FInv, IInv, TypeOK
<1> DEFINE n == gen[r] + 1
<1>1. /\ pc = "deliver" /\ r \in Reqs /\ r \in ToSet(todo)
      /\ todo \in Seq(Reqs) /\ kept \in Seq(Reqs) /\ ToSet(Tail(todo)) = ToSet(todo) \ {r}
  BY <1>0, TailOfQueue DEF Deliver, Delivering, FInv, IInv, TypeOK, TokenLoop
<1>2. /\ pc' = pc /\ req' = req /\ active' = active
      /\ got' = got /\ stream' = stream /\ todo' = Tail(todo)
      /\ KV!Grow(r, 1) /\ kept' = Retained(r, n)
      /\ gen' = [gen EXCEPT ![r] = n]
      /\ out' = [out EXCEPT ![r] = @ \o Outputs(r, n)]
      /\ status' = [status EXCEPT ![r] = IF Completes(r, n) THEN "FINISHED" ELSE @]
  BY <1>0 DEF Deliver
<1>3. /\ r \in KV!Registered /\ KV!Registered' = KV!Registered
      /\ tokens'[r] = tokens[r] + 1
      /\ \A s \in KV!Registered \ {r} : tokens'[s] = tokens[s]
  BY <1>1, <1>2, GrowEffect DEF FInv, IInv
<1> DEFINE h == Handed(r)
<1>4. h \in Seq(Nat) /\ gen[r] \in Nat
  BY <1>1, HandedIsSeq DEF FInv, IInv
<1>5. gen'[r] = gen[r] + 1 /\ Handed(r)' = h \o Outputs(r, gen[r] + 1)
  <2>1. got[r] \in Seq(Nat) /\ out[r] \in Seq(Nat) /\ Outputs(r, n) \in Seq(Nat)
    <3>1. n \in Nat /\ EOS \in Nat
      BY <1>4 DEF EOS
    <3> QED  BY <1>1, <3>1 DEF FInv, IInv, TypeOK, Outputs
  <2>2. got'[r] = got[r] /\ out'[r] = out[r] \o Outputs(r, n) /\ gen'[r] = n
    BY <1>1, <1>2 DEF FInv, IInv, TypeOK
  <2>3. got[r] \o (out[r] \o Outputs(r, n)) = (got[r] \o out[r]) \o Outputs(r, n)
    BY <2>1, Associative
  <2> QED  BY <2>2, <2>3 DEF Handed
<1>6. \A s \in Reqs \ {r} : gen'[s] = gen[s] /\ Handed(s)' = Handed(s)
  BY <1>2 DEF FInv, IInv, TypeOK, Handed
<1>7. /\ Ordered(r, h, gen[r]) /\ tokens[r] = req[r].prompt + Placed(h)
      /\ req[r].prompt \in Nat
  <2>1. req[r].prompt \in Nat
    BY <1>1, WorkerAssumption DEF FInv, IInv, TypeOK
  <2> QED  BY <1>1, <1>3, <2>1, OrderedStreams
<1> HIDE DEF h
<1>8. /\ Ordered(r, h \o Outputs(r, gen[r] + 1), gen[r] + 1)
      /\ Placed(h) \in Nat /\ Placed(h \o Outputs(r, gen[r] + 1)) = Placed(h) + 1
      /\ ToSet(h) \subseteq ToSet(h \o Outputs(r, gen[r] + 1))
      /\ ToSet(h \o Outputs(r, gen[r] + 1)) \subseteq ToSet(h) \cup {gen[r] + 1, EOS}
  BY <1>4, <1>7, OrderedGrows, PlacedGrows
<1>9. StreamInOrder'
  <2> SUFFICES ASSUME NEW s \in Reqs
               PROVE  /\ Ordered(s, Handed(s), gen[s])'
                      /\ s \in KV!Registered' =>
                           tokens'[s] = req'[s].prompt + Placed(Handed(s)')
    BY DEF StreamInOrder, Ordered, Placed
  <2>1. CASE s = r
    <3>1. Ordered(s, Handed(s), gen[s])'
      BY <1>2, <1>5, <1>8, <2>1 DEF Ordered, Completes
    <3>2. tokens'[s] = req'[s].prompt + Placed(Handed(s)')
      <4>1. tokens'[r] = req[r].prompt + (Placed(h) + 1)
        BY <1>3, <1>7, <1>8
      <4>2. Placed(Handed(r)') = Placed(h) + 1
        BY <1>5, <1>8
      <4> QED  BY <1>2, <2>1, <4>1, <4>2
    <3> QED  BY <3>1, <3>2
  <2>2. CASE s # r
    <3>1. /\ Ordered(s, Handed(s), gen[s])
          /\ s \in KV!Registered => tokens[s] = req[s].prompt + Placed(Handed(s))
      BY OrderedStreams
    <3>2. Ordered(s, Handed(s), gen[s])'
      BY <1>2, <1>6, <2>2, <3>1 DEF Ordered, Completes
    <3> QED  BY <1>2, <1>3, <1>6, <2>2, <3>1, <3>2
  <2> QED  BY <2>1, <2>2
<1>10. Undisturbed' => Undisturbed
  <2>1. Lost(r) \subseteq Lost(r)'
    <3>1. Lost(r)' = (1 .. gen[r] + 1) \ ToSet(h \o Outputs(r, gen[r] + 1))
      BY <1>5 DEF Lost
    <3>2. \A k \in 1 .. gen[r] : k \in 1 .. gen[r] + 1 /\ k # gen[r] + 1 /\ k # EOS
      BY <1>4 DEF EOS
    <3> QED  BY <1>8, <3>1, <3>2 DEF Lost, h
  <2>2. \A s \in Reqs \ {r} : Lost(s)' = Lost(s)
    BY <1>6 DEF Lost
  <2> QED  BY <1>2, <2>1, <2>2 DEF Undisturbed
<1>11. Batches => Batches'
  <2>1. /\ ToSet(kept) \subseteq Reqs /\ ToSet(todo) \subseteq Reqs /\ r \notin ToSet(kept)
    BY <1>1 DEF FInv, IInv, TokenLoop, ToSet
  <2>2. \A s \in Reqs :
           status'[s] = IF s = r /\ Completes(r, n) THEN "FINISHED" ELSE status[s]
    BY <1>1, <1>2 DEF FInv, IInv, TypeOK
  <2>3. CASE Completes(r, n)
    <3>1. kept' = kept
      BY <1>2, <2>3 DEF Retained
    <3> QED  BY <1>1, <1>2, <2>1, <2>2, <3>1 DEF Batches
  <2>4. CASE ~Completes(r, n)
    <3>1. kept' = Append(kept, r)
      BY <1>2, <2>4 DEF Retained
    <3>2. ToSet(kept') = ToSet(kept) \cup {r}
      BY <1>1, <3>1, AppendedQueue
    <3> QED  BY <1>1, <1>2, <2>1, <2>2, <2>4, <3>2 DEF Batches
  <2> QED  BY <2>3, <2>4
<1> QED  BY <1>2, <1>3, <1>9, <1>10, <1>11 DEF FInv

\* The refused token is in nobody's queue.
LEMMA DeliverFailsHanded ==
    ASSUME FInv, IInv', DeliverFails
    PROVE  FInv'
<1>1. PICK r \in Reqs : r = Head(todo)
  BY TailOfQueue DEF DeliverFails, Delivering, FInv, IInv, TypeOK
<1>2. /\ req' = req /\ tokens' = tokens /\ out' = out /\ got' = got
      /\ KV!Registered' = KV!Registered /\ gen' = [gen EXCEPT ![r] = @ + 1]
  BY <1>1 DEF DeliverFails, native, KV!Registered
<1>3. gen'[r] = gen[r] + 1 /\ \A s \in Reqs \ {r} : gen'[s] = gen[s]
  BY <1>1, <1>2 DEF FInv, IInv, TypeOK
<1>4. \A s \in Reqs : Handed(s)' = Handed(s)
  BY <1>2 DEF Handed
<1>5. /\ Handed(r) \in Seq(Nat) /\ gen[r] \in Nat
      /\ Ordered(r, Handed(r), gen[r]) /\ Ordered(r, Handed(r), gen[r] + 1)
  BY <1>1, HandedIsSeq, OrderedStreams, OrderedSkips DEF FInv, IInv
<1>6. StreamInOrder'
  <2> SUFFICES ASSUME NEW s \in Reqs
               PROVE  /\ Ordered(s, Handed(s), gen[s])'
                      /\ s \in KV!Registered' =>
                           tokens'[s] = req'[s].prompt + Placed(Handed(s)')
    BY DEF StreamInOrder, Ordered, Placed
  <2>1. /\ Ordered(s, Handed(s), gen[s])
        /\ s \in KV!Registered => tokens[s] = req[s].prompt + Placed(Handed(s))
    BY OrderedStreams
  <2>2. Ordered(s, Handed(s), gen'[s])
    BY <1>3, <1>5, <2>1
  <2>3. Ordered(s, Handed(s), gen[s])'
    BY <1>2, <1>4, <2>2 DEF Ordered, Completes
  <2> QED  BY <1>2, <1>4, <2>1, <2>3
<1>7. ~Undisturbed'
  <2>1. gen[r] + 1 \notin ToSet(Handed(r)) /\ gen[r] + 1 \in 1 .. gen[r] + 1
    BY <1>5 DEF Ordered, EOS
  <2>2. gen[r] + 1 \in Lost(r)'
    BY <1>1, <1>3, <1>4, <2>1 DEF Lost
  <2> QED  BY <1>1, <2>2 DEF Undisturbed
<1> QED  BY <1>6, <1>7 DEF FInv

LEMMA DeliverDoneHanded ==
    ASSUME FInv, IInv', DeliverDone
    PROVE  FInv'
<1>1. /\ req' = req /\ status' = status /\ gen' = gen /\ active' = kept
      /\ tokens' = tokens /\ out' = out /\ got' = got /\ stream' = stream
      /\ pc = "deliver" /\ pc' = "promote" /\ KV!Registered' = KV!Registered
  BY DEF DeliverDone, native, KV!Registered
<1>2. StreamInOrder' /\ \A s \in Reqs : Lost(s)' = Lost(s)
  BY <1>1, SameHanded DEF Handed
<1>3. ToSet(kept) \subseteq ToSet(active)
  BY <1>1 DEF FInv, IInv, TokenLoop
<1>4. Batches => Batches'
  BY <1>1 DEF Batches
<1> QED  BY <1>1, <1>2, <1>3, <1>4 DEF FInv, Undisturbed

LEMMA HandedStepOK ==
    ASSUME FInv, [Next]_vars
    PROVE  FInv'
<1>1. IInv'
  BY StepOK DEF FInv
<1>2. CASE UNCHANGED vars
  <2>1. /\ req' = req /\ status' = status /\ gen' = gen /\ active' = active
        /\ tokens' = tokens /\ todo' = todo /\ kept' = kept
        /\ out' = out /\ got' = got /\ stream' = stream
        /\ pc' = pc /\ KV!Registered' = KV!Registered
    BY <1>2 DEF vars, native, loop, KV!Registered
  <2>2. StreamInOrder' /\ \A s \in Reqs : Lost(s)' = Lost(s)
    BY <2>1, SameHanded DEF Handed
  <2> QED  BY <1>1, <2>1, <2>2 DEF FInv, Undisturbed, Batches
<1>3. CASE \E r \in Reqs : Start(r)
  BY <1>1, <1>3, StartHanded
<1>4. CASE \E r \in Reqs : Get(r) \/ Resume(r) \/ Disconnect(r)
  BY <1>1, <1>4, StreamHanded
<1>5. CASE Shutdown \/ Wake \/ PromoteDone \/ Idle \/ StepBegins \/ StepFails \/ Requeue
  BY <1>1, <1>5, MoveHanded
     DEF Shutdown, Wake, PromoteDone, Idle, StepBegins, StepFails, Requeue, data
<1>6. CASE Promote
  BY <1>1, <1>6, PromoteHanded
<1>7. CASE Computed
  BY <1>1, <1>7, ComputedHanded
<1>8. CASE Deliver
  BY <1>1, <1>8, DeliverHanded
<1>9. CASE DeliverFails
  BY <1>1, <1>9, DeliverFailsHanded
<1>10. CASE DeliverDone
  BY <1>1, <1>10, DeliverDoneHanded
<1> QED  BY <1>2, <1>3, <1>4, <1>5, <1>6, <1>7, <1>8, <1>9, <1>10 DEF Next, BatchLoop

\* Only a refused append or the disconnect of a running request can ever make
\* the batch loop step with a sequence that is not registered.
THEOREM StepsAreMapped == Spec => []ActiveIsMapped
<1>1. FInv /\ [Next]_vars => FInv'
  BY HandedStepOK
<1>2. FInv => ActiveIsMapped
  BY DEF FInv, ActiveIsMapped
<1> QED  BY <1>1, <1>2, InitHanded, PTL DEF Spec

\* Through refused appends, disconnects and slow clients, every stream is
\* handed tokens in order, has its sentinels in their places, and is handed
\* exactly the tokens that the page table has a place for.
THEOREM StreamsAreInOrder == Spec => []StreamInOrder
<1>1. FInv /\ [Next]_vars => FInv'
  BY HandedStepOK
<1>2. FInv => StreamInOrder
  BY DEF FInv
<1> QED  BY <1>1, <1>2, InitHanded, PTL DEF Spec
=============================================================================
