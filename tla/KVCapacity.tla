----------------------------- MODULE KVCapacity -----------------------------
(***************************************************************************)
(* What the native memory subsystem promises its callers, with the         *)
(* identity of the blocks abstracted away: how many tokens each registered *)
(* sequence has, how many blocks can be allocated, and how many are in     *)
(* flight, that is, taken from a sequence by a thread that has not yet     *)
(* given them back.  PageTable implements this specification; Scheduler    *)
(* and InferenceWorker run on top of it.                                   *)
(***************************************************************************)
EXTENDS Integers

CONSTANTS
    Seqs,        \* the sequence ids callers use
    Threads,     \* the threads that call the page table
    NumBlocks,   \* BlockAllocatorConfig::num_blocks
    BlockSize,   \* BlockAllocatorConfig::block_size
    AppendSizes  \* the numbers of tokens callers append

VARIABLES
    avail,       \* number of blocks on the free stack
    tokens,      \* registered sequence |-> its number of tokens
    inFlight     \* thread |-> number of blocks it is about to give back

kvVars == <<avail, tokens, inFlight>>

Registered == DOMAIN tokens

\* ceil(n / BlockSize), as the page table and the schedulers compute it.
BlocksFor(n) == (n + BlockSize - 1) \div BlockSize

\* The blocks that growing from m to n tokens takes.
NeedFor(m, n) == BlocksFor(n) - BlocksFor(m)

KVTypeOK ==
    /\ avail \in 0 .. NumBlocks
    /\ Registered \subseteq Seqs
    /\ tokens \in [Registered -> Nat]
    /\ inFlight \in [Threads -> 0 .. NumBlocks]

KVInit ==
    /\ avail = NumBlocks
    /\ tokens = [s \in {} |-> 0]
    /\ inFlight = [t \in Threads |-> 0]

-----------------------------------------------------------------------------

Register(s) ==
    /\ s \notin Registered
    /\ tokens' = [r \in Registered \cup {s} |-> IF r = s THEN 0 ELSE tokens[r]]
    /\ UNCHANGED <<avail, inFlight>>

\* Mutant: allocation never fails.
CanGrow_Unchecked(s, n) == n > 0 /\ s \in Registered

\* The guard that append_tokens enforces by throwing.
CanGrow(s, n) ==
    /\ n > 0
    /\ s \in Registered
    /\ NeedFor(tokens[s], tokens[s] + n) <= avail

Grow(s, n) ==
    /\ CanGrow(s, n)
    /\ tokens' = [tokens EXCEPT ![s] = @ + n]
    /\ avail' = avail - NeedFor(tokens[s], tokens[s] + n)
    /\ UNCHANGED inFlight

Without(s) == [r \in Registered \ {s} |-> tokens[r]]

\* A concurrent caller sees free_sequence in two steps: the entry goes first
\* and the blocks come back later.
Erase(t, s) ==
    /\ inFlight[t] = 0
    /\ s \in Registered
    /\ tokens' = Without(s)
    /\ inFlight' = [inFlight EXCEPT ![t] = BlocksFor(tokens[s])]
    /\ UNCHANGED avail

Reclaim(t) ==
    /\ inFlight[t] > 0
    /\ avail' = avail + inFlight[t]
    /\ inFlight' = [inFlight EXCEPT ![t] = 0]
    /\ UNCHANGED tokens

\* A caller that nothing interrupts sees the two steps as one.
Free(s) ==
    /\ s \in Registered
    /\ tokens' = Without(s)
    /\ avail' = avail + BlocksFor(tokens[s])
    /\ UNCHANGED inFlight

KVNext ==
    \/ \E s \in Seqs : Register(s) \/ Free(s) \/ \E n \in AppendSizes : Grow(s, n)
    \/ \E t \in Threads : Reclaim(t) \/ \E s \in Seqs : Erase(t, s)

KVSpec == KVInit /\ [][KVNext]_kvVars
=============================================================================
