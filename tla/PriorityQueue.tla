---------------------------- MODULE PriorityQueue ----------------------------
(***************************************************************************)
(* What min_heap.c promises the SJF scheduler: a collection of processes   *)
(* that gives back one that no other one in it precedes.  MinHeap          *)
(* implements it.                                                          *)
(***************************************************************************)
EXTENDS Integers

CONSTANTS
  Procs,   \* process_t objects
  NULL,
  Rank     \* compare_process(p, q) is negative iff Rank[p] < Rank[q], 0 iff equal

VARIABLES
  queue,   \* the processes in it
  min      \* what extract_min() has returned last

Init ==
  /\ queue = {}
  /\ min = NULL

Insert(p) ==
  /\ p \notin queue
  /\ queue' = queue \cup {p}
  /\ min' = min

ExtractMin ==
  \E p \in queue :
    /\ \A q \in queue : Rank[p] <= Rank[q]
    /\ queue' = queue \ {p}
    /\ min' = p

Next == ExtractMin \/ \E p \in Procs : Insert(p)

Spec == Init /\ [][Next]_<<queue, min>>
=============================================================================
