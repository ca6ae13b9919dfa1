--------------------------- MODULE VRAMSaturation ---------------------------
(***************************************************************************)
(* The capacity arithmetic of analytics/vram_saturation_model.py and of    *)
(* analytics/workload_model.py, which know a sequence's length only, set   *)
(* beside the page table whose blocks they predict.  Percentages are kept  *)
(* as the two integers they are the quotient of; bytes are left out, so    *)
(* total_physical_blocks is NumBlocks.                                     *)
(***************************************************************************)
EXTENDS PageTable, FiniteSets, Functions

ASSUME ThreadsAssumption == IsFiniteSet(Threads)

\* math.ceil(num_tokens / float(block_size_tokens)), nothing for no tokens.
RequestBlocks(n) == IF n <= 0 THEN 0 ELSE ((n - 1) \div BlockSize) + 1

\* evaluate_saturation with the default thresholds 0.75, 0.85 and 0.90.
Saturation(allocated) ==
    LET AtLeast(percent) == allocated * 100 >= NumBlocks * percent
    IN  CASE AtLeast(90) -> "EVICTION"
          [] AtLeast(85) /\ ~AtLeast(90) -> "CRITICAL"
          [] AtLeast(75) /\ ~AtLeast(85) -> "ELEVATED"
          [] OTHER -> "NORMAL"

\* estimate_batch_requirements for the token counts of a batch.
Estimate(counts, allocated) ==
    LET required == SumFunction([r \in DOMAIN counts |-> RequestBlocks(counts[r])])
        free == IF allocated > NumBlocks THEN 0 ELSE NumBlocks - allocated
    IN  [required |-> required,
         canAccommodate |-> required <= free,
         wasted |-> (required * BlockSize) - SumFunction(counts),
         projected |-> Saturation(allocated + required)]

\* max_seqs_for_len: the sequences of one length a pool holds.
MaxSeqsForLen(len) ==
    NumBlocks \div (IF RequestBlocks(len) < 1 THEN 1 ELSE RequestBlocks(len))

-----------------------------------------------------------------------------

Lengths == [s \in Registered |-> table[s].tokens]
Held == SumFunction([s \in Registered |-> Len(table[s].blocks)])
InFlight == SumFunction([t \in Threads |-> Len(limbo[t])])

\* The estimates made from sequence lengths are what the page table holds,
\* whatever order it was filled and emptied in: the required blocks are those
\* neither on the free stack nor in flight, a batch that is in the pool would
\* have been accommodated, the wasted slots are less than a block for each
\* sequence, max_seqs_for_len is never exceeded, and eviction is called for
\* exactly when a tenth of the blocks or less is unused.  Both round on their
\* own, the page table when it grows a sequence and the estimate at once.
EstimateMatchesPool ==
    LET estimate == Estimate(Lengths, 0) IN
    /\ estimate.required = NumBlocks - Len(stack) - InFlight
    /\ estimate.canAccommodate
    /\ estimate.wasted = (Held * BlockSize) - SumFunction(Lengths)
    /\ estimate.wasted <= (BlockSize - 1) * Cardinality(Registered)
    /\ estimate.projected = "EVICTION" <=> (Len(stack) + InFlight) * 10 <= NumBlocks
    /\ \A len \in 1 .. MaxTokens :
          Cardinality({s \in Registered : Lengths[s] >= len}) <= MaxSeqsForLen(len)
=============================================================================
