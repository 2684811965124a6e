------------------------------ MODULE MCMinHeap ------------------------------
(* MinHeap for seven processes: three full levels, and a tie.              *)
EXTENDS MinHeap

MCProcs == 1 .. 7
MCRank == <<1, 2, 3, 4, 4, 5, 6>>
=============================================================================
