------------------------- MODULE MCMemoryAllocation -------------------------
(* MemoryAllocation on a small memory.                                     *)
EXTENDS MemoryAllocation
CONSTANTS p1, p2, p3

MCProcs == {p1, p2, p3}
(* Three processes and four holes around them need seven nodes. *)
MCNodes == 1 .. 7
MCRequirements == 1 .. 4

(* Processes differ in nothing but their identity. *)
MCSymmetry == Permutations(MCProcs)
=============================================================================
