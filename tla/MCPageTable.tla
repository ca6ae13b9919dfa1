---------------------------- MODULE MCPageTable ----------------------------
(* TLC instance of the page table, with the kernels' metadata and the       *)
(* analytics' estimates.                                                    *)
EXTENDS KernelMetadata, VRAMSaturation, TLC

Symmetry == Permutations(Seqs) \cup Permutations(Threads)
AnyBatch == (SUBSET Seqs) \ {{}}
=============================================================================
