--------------------------- MODULE KernelMetadata ---------------------------
(***************************************************************************)
(* What the attention kernels are launched with: prepare_kernel_metadata   *)
(* of nexuscache/cache_engine.py reads the page table twice, for the block *)
(* tables and for the slot mapping, and other threads run between its two  *)
(* native calls and between it and the kernel, which reads the copies      *)
(* later (csrc/kernels/paged_attention_kernel.cu).                         *)
(***************************************************************************)
EXTENDS PageTable

CONSTANTS Batches   \* the sets of sequence_ids passed together

ASSUME BatchAssumption == Batches \subseteq SUBSET Seqs

VARIABLES
    stage,  \* "idle", "tables" between the two calls, "ready"
    callers, \* the thread between its two calls, if any
    lens,   \* sequence of the batch |-> its query_lens
    rows,   \* its row of block_tables; the -1 padding is what lies beyond it
    slots,  \* its part of slot_mapping
    seen,   \* ghost: its number of tokens at the first call
    total   \* ghost: and at the second

\* rows, slots, seen and total are kept for the sequences never freed since.
metadata == <<stage, callers, lens, rows, slots, seen, total>>
metadataVars == <<vars, metadata>>

None == [s \in {} |-> 0]
Only(f, S) == [s \in DOMAIN f \cap S |-> f[s]]
Live == DOMAIN rows

MetadataInit ==
    /\ Init
    /\ stage = "idle" /\ callers = {}
    /\ lens = None /\ rows = None /\ slots = None /\ seen = None /\ total = None

-----------------------------------------------------------------------------
(* The two calls *)

\* A decode passes 1, a prefill the length of the prompt: all of a new sequence,
\* less than all of a restored one, which also maps what it had generated.
QueryLens(s) == {1} \cup (IF s \in Registered THEN 1 .. table[s].tokens ELSE {})

\* get_block_table_tensor: no row for a sequence it does not know.
GetBlockTable(t, batch) ==
    /\ stage # "tables" /\ limbo[t] = <<>>
    /\ lens' \in [batch -> 1 .. MaxTokens + 1]
    /\ \A s \in batch : lens'[s] \in QueryLens(s)
    /\ stage' = "tables" /\ callers' = {t}
    /\ rows' = [s \in batch \cap Registered |-> table[s].blocks]
    /\ seen' = [s \in batch \cap Registered |-> table[s].tokens]
    /\ slots' = None /\ total' = None
    /\ UNCHANGED vars

\* start_pos: the query ends at the sequence's last token.
StartPos(s) == table[s].tokens - lens[s]

\* C++ division truncates towards zero.  A sequence freed and registered
\* again since the caller chose its query length may be shorter than it.
BlockIndex(pos) ==
    IF pos < 0 THEN -((-pos) \div BlockSize) ELSE pos \div BlockSize

\* The exceptions of get_slot_mapping_tensor: an unknown sequence, and .at().
Throws(s) ==
    s \in Registered => BlockIndex(StartPos(s)) + 1 \notin DOMAIN table[s].blocks

Raise ==
    /\ stage = "tables"
    /\ \E s \in DOMAIN lens : Throws(s)
    /\ stage' = "idle"
    /\ callers' = {} /\ lens' = None /\ rows' = None /\ seen' = None
    /\ UNCHANGED <<vars, slots, total>>

\* The slots of sequences freed since the first call are left out.
GetSlotMapping ==
    /\ stage = "tables"
    /\ \A s \in DOMAIN lens : ~Throws(s)
    /\ stage' = "ready" /\ callers' = {}
    /\ slots' = [s \in Live |-> [i \in 1 .. lens[s] |-> SlotOf(s, StartPos(s) + i - 1)]]
    /\ total' = [s \in Live |-> table[s].tokens]
    /\ UNCHANGED <<vars, lens, rows, seen>>

\* The kernels are done with the copies.
Retire ==
    /\ stage = "ready"
    /\ stage' = "idle"
    /\ lens' = None /\ rows' = None /\ slots' = None /\ seen' = None /\ total' = None
    /\ UNCHANGED <<vars, callers>>

-----------------------------------------------------------------------------
(* Others use the page table; the caller does when it is back *)

Free(t) == t \notin callers

\* What a freed sequence's metadata says is nobody's concern any more.
ForgetFreed ==
    /\ rows' = Only(rows, Registered')
    /\ seen' = Only(seen, Registered')
    /\ slots' = Only(slots, Registered')
    /\ total' = Only(total, Registered')
    /\ UNCHANGED <<stage, callers, lens>>

OnPageTable(t) ==
    \/ ReturnBlocks(t)
    \/ \E s \in Seqs :
          \/ RegisterSequence(t, s)
          \/ EraseEntry(t, s)
          \/ \E n \in AppendSizes : AppendTokens(t, s, n)

MetadataNext ==
    \/ \E t \in Threads : Free(t) /\ OnPageTable(t) /\ ForgetFreed
    \/ \E t \in Threads, batch \in Batches : GetBlockTable(t, batch)
    \/ GetSlotMapping \/ Raise \/ Retire

MetadataSpec == MetadataInit /\ [][MetadataNext]_metadataVars

-----------------------------------------------------------------------------
(* Properties *)

\* Where the kernel finds position pos of a row of block_tables.
KernelSlot(row, pos) == row[(pos \div BlockSize) + 1] * BlockSize + (pos % BlockSize)

\* Metadata stays true as long as its sequence is not freed, whatever other
\* threads append, register and free between the two readings and before the
\* kernel runs: the kernel reads every token the sequence had at the first
\* reading from the slot the page table has it in, and the slot mapping
\* writes its last tokens at the second reading there.
MetadataStaysTrue ==
    \A s \in Live :
        /\ s \in Registered
        /\ \A pos \in 0 .. seen[s] - 1 :
              /\ (pos \div BlockSize) + 1 \in DOMAIN rows[s]
              /\ KernelSlot(rows[s], pos) = SlotOf(s, pos)
        /\ stage = "ready" =>
              \A i \in 1 .. lens[s] : slots[s][i] = SlotOf(s, total[s] - lens[s] + i - 1)
=============================================================================
