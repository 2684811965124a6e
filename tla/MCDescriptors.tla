---------------------------- MODULE MCDescriptors ----------------------------
(* Descriptors with processes that TLC may swap. *)
EXTENDS Descriptors, TLC

CONSTANTS p1, p2, p3

MCProcs == {p1, p2, p3}
=============================================================================
