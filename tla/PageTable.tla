------------------------------ MODULE PageTable ------------------------------
(***************************************************************************)
(* The native memory subsystem: the BlockManager's stack of free physical  *)
(* blocks (csrc/src/block_manager.cpp) and the PageTable's map from        *)
(* sequences to blocks (csrc/src/page_table.cpp), called by several        *)
(* threads.                                                                *)
(*                                                                         *)
(* Each method is one action, because each holds table_mutex_ for all its  *)
(* work, and takes stack_mutex_ inside it at most once.  The exception is  *)
(* free_sequence: it erases the entry under table_mutex_, unlocks, and     *)
(* only then takes stack_mutex_ to give the blocks back, so other threads  *)
(* run between its two halves.  A call that throws changes nothing and is  *)
(* a stuttering step.                                                      *)
(***************************************************************************)
EXTENDS Integers, Sequences

CONSTANTS
    Seqs,         \* sequence ids
    Threads,      \* threads that call the page table
    NumBlocks,    \* config_.num_blocks
    BlockSize,    \* config_.block_size, block_size_
    AppendSizes,  \* values of num_tokens that callers pass
    MaxTokens     \* bound: longest sequence explored

ASSUME PoolAssumption == NumBlocks \in Nat \ {0} /\ BlockSize \in Nat \ {0}
ASSUME CallAssumption == AppendSizes \subseteq Nat \ {0} /\ MaxTokens \in Nat

VARIABLES
    stack,   \* free_block_stack_, its back at the end of the sequence
    table,   \* table_: registered sequence |-> its SequenceContext
    limbo    \* thread |-> blocks_to_free, the local of free_sequence

vars == <<stack, table, limbo>>

Blocks == 0 .. NumBlocks - 1
Registered == DOMAIN table
Context == [tokens : Nat, blocks : Seq(Blocks)]

BlocksFor(n) == (n + BlockSize - 1) \div BlockSize

TypeOK ==
    /\ stack \in Seq(Blocks)
    /\ Registered \subseteq Seqs
    /\ table \in [Registered -> Context]
    /\ limbo \in [Threads -> Seq(Blocks)]

-----------------------------------------------------------------------------
(* BlockManager *)

\* Every block is free and block 0 is on top.
InitialStack == [i \in 1 .. NumBlocks |-> NumBlocks - i]

\* What allocate_blocks(k) returns, and the stack it leaves.
Granted(k) == [i \in 1 .. k |-> stack[Len(stack) - i + 1]]
Remaining(k) == SubSeq(stack, 1, Len(stack) - k)

-----------------------------------------------------------------------------
(* PageTable *)

Init ==
    /\ stack = InitialStack
    /\ table = [s \in {} |-> [tokens |-> 0, blocks |-> <<>>]]
    /\ limbo = [t \in Threads |-> <<>>]

RegisterSequence(t, s) ==
    /\ limbo[t] = <<>>
    /\ s \notin Registered
    /\ table' = [r \in Registered \cup {s} |->
                   IF r = s THEN [tokens |-> 0, blocks |-> <<>>] ELSE table[r]]
    /\ UNCHANGED <<stack, limbo>>

\* Mutant: the free slots of the last block are forgotten.
BlocksNeeded_IgnoresPartial(s, n) == BlocksFor(n)

\* The blocks append_tokens(s, n) has to allocate.
BlocksNeeded(s, n) ==
    BlocksFor(table[s].tokens + n) - BlocksFor(table[s].tokens)

\* Mutant: new blocks go before the old ones.
AppendTokens_Prepends(t, s, n) ==
    /\ limbo[t] = <<>>
    /\ s \in Registered
    /\ table[s].tokens + n <= MaxTokens
    /\ BlocksNeeded(s, n) <= Len(stack)
    /\ stack' = Remaining(BlocksNeeded(s, n))
    /\ table' = [table EXCEPT
                   ![s] = [tokens |-> @.tokens + n,
                           blocks |-> Granted(BlocksNeeded(s, n)) \o @.blocks]]
    /\ UNCHANGED limbo

AppendTokens(t, s, n) ==
    /\ limbo[t] = <<>>
    /\ s \in Registered
    /\ table[s].tokens + n <= MaxTokens
    /\ BlocksNeeded(s, n) <= Len(stack)
    /\ stack' = Remaining(BlocksNeeded(s, n))
    /\ table' = [table EXCEPT
                   ![s] = [tokens |-> @.tokens + n,
                           blocks |-> @.blocks \o Granted(BlocksNeeded(s, n))]]
    /\ UNCHANGED limbo

\* Mutant: the entry goes and its blocks with it.
EraseEntry_DropsBlocks(t, s) ==
    /\ limbo[t] = <<>>
    /\ s \in Registered
    /\ table' = [r \in Registered \ {s} |-> table[r]]
    /\ UNCHANGED <<stack, limbo>>

\* Mutant: the blocks are collected and the entry stays.
EraseEntry_KeepsEntry(t, s) ==
    /\ limbo[t] = <<>>
    /\ s \in Registered
    /\ limbo' = [limbo EXCEPT ![t] = table[s].blocks]
    /\ UNCHANGED <<stack, table>>

\* First half of free_sequence, under table_mutex_.
EraseEntry(t, s) ==
    /\ limbo[t] = <<>>
    /\ s \in Registered
    /\ limbo' = [limbo EXCEPT ![t] = table[s].blocks]
    /\ table' = [r \in Registered \ {s} |-> table[r]]
    /\ UNCHANGED stack

\* Mutant: the first block of the list is skipped.
ReturnBlocks_SkipsFirst(t) ==
    /\ limbo[t] # <<>>
    /\ stack' = stack \o Tail(limbo[t])
    /\ limbo' = [limbo EXCEPT ![t] = <<>>]
    /\ UNCHANGED table

\* Second half, BlockManager::free_blocks under stack_mutex_.
ReturnBlocks(t) ==
    /\ limbo[t] # <<>>
    /\ stack' = stack \o limbo[t]
    /\ limbo' = [limbo EXCEPT ![t] = <<>>]
    /\ UNCHANGED table

Next ==
    \E t \in Threads :
        \/ ReturnBlocks(t)
        \/ \E s \in Seqs :
              \/ RegisterSequence(t, s)
              \/ EraseEntry(t, s)
              \/ \E n \in AppendSizes : AppendTokens(t, s, n)

Spec == Init /\ [][Next]_vars

-----------------------------------------------------------------------------
(* Slot mapping *)

\* The positions that hold a token.  The callers' queries end at the last one
\* and are never longer than the sequence, so the C++ quotient and remainder,
\* which truncate towards zero, are taken of naturals only.
Positions(s) == 0 .. table[s].tokens - 1

\* What get_slot_mapping_tensor computes for position pos of s; .at() throws
\* where HasSlot is false.
HasSlot(s, pos) == (pos \div BlockSize) + 1 \in DOMAIN table[s].blocks

\* Mutant: the block id is not scaled by the block size.
SlotOf_Unscaled(s, pos) ==
    table[s].blocks[(pos \div BlockSize) + 1] + (pos % BlockSize)

SlotOf(s, pos) ==
    table[s].blocks[(pos \div BlockSize) + 1] * BlockSize + (pos % BlockSize)

-----------------------------------------------------------------------------
(* Properties *)

\* A block is held by the free stack, by a thread in the middle of
\* free_sequence, or by a registered sequence.
In(b, q) == \E i \in DOMAIN q : q[i] = b
NoRepeat(q) == \A i, j \in DOMAIN q : q[i] = q[j] => i = j
Apart(p, q) == \A i \in DOMAIN p, j \in DOMAIN q : p[i] # q[j]

\* No block is held twice: two sequences never share a physical block, and a
\* block on the stack is in no sequence, whichever threads are in the middle
\* of free_sequence.  A second release of a block, or a release that leaves
\* the entry behind, breaks it.
BlocksExclusive ==
    /\ NoRepeat(stack)
    /\ \A t \in Threads : NoRepeat(limbo[t]) /\ Apart(stack, limbo[t])
    /\ \A s \in Registered :
          NoRepeat(table[s].blocks) /\ Apart(stack, table[s].blocks)
    /\ \A t, u \in Threads : t # u => Apart(limbo[t], limbo[u])
    /\ \A r, s \in Registered : r # s => Apart(table[r].blocks, table[s].blocks)
    /\ \A t \in Threads, s \in Registered : Apart(limbo[t], table[s].blocks)

\* No block is lost: each of the NumBlocks blocks is held by someone.
NoBlockLost ==
    \A b \in Blocks :
        \/ In(b, stack)
        \/ \E t \in Threads : In(b, limbo[t])
        \/ \E s \in Registered : In(b, table[s].blocks)

\* A sequence holds exactly the blocks its tokens need, whatever sizes it
\* was grown by: neither one short at a block boundary nor one spare.
BlocksMatchTokens ==
    \A s \in Registered : Len(table[s].blocks) = BlocksFor(table[s].tokens)

\* Every token of every sequence has a KV slot of its own, inside the
\* pool: the kernels never read or write another sequence's slot.
SlotsPrivate ==
    \A r, s \in Registered : \A p \in Positions(r), q \in Positions(s) :
        /\ HasSlot(r, p)
        /\ SlotOf(r, p) \in 0 .. NumBlocks * BlockSize - 1
        /\ SlotOf(r, p) = SlotOf(s, q) => r = s /\ p = q

\* The slot of a token already in the cache never moves while its sequence
\* stays registered: growing a sequence copies nothing, so a moved slot would
\* be lost context.
SlotsStable ==
    [][\A s \in Registered \cap Registered' :
          \A p \in Positions(s) : SlotOf(s, p)' = SlotOf(s, p)]_vars

\* The page table keeps the promise its callers rely on.
Capacity == INSTANCE KVCapacity WITH
    avail <- Len(stack),
    tokens <- [s \in Registered |-> table[s].tokens],
    inFlight <- [t \in Threads |-> Len(limbo[t])]
ImplementsCapacity == Capacity!KVSpec
=============================================================================
