------------------------------- MODULE MinHeap -------------------------------
(***************************************************************************)
(* The min heap of min_heap.c, the ready queue of SJF: insert_data() and   *)
(* extract_min(), one step for each call of up_heap() or down_heap().      *)
(***************************************************************************)
EXTENDS Integers, Functions

CONSTANTS
  Procs,      \* process_t objects
  NULL,
  Rank,       \* the order of compare_process(): service time, arrival, name
  INIT_SIZE   \* 2 in min_heap.h

ASSUME NullAssumption == NULL \notin Procs
ASSUME RankAssumption == Rank \in [Procs -> Nat]
ASSUME SizeAssumption == INIT_SIZE \in Nat \ {0}

VARIABLES
  data,       \* heap->data, from 0 to num_items - 1
  num_items,
  capacity,   \* cells allocated for data
  pc,         \* "idle", or the recursive function that runs
  index,      \* its argument
  min         \* what extract_min() returns

vars == <<data, num_items, capacity, pc, index, min>>

(* create_heap() *)
Init ==
  /\ data = [i \in {} |-> NULL]
  /\ num_items = 0
  /\ capacity = INIT_SIZE
  /\ pc = "idle"
  /\ index = 0
  /\ min = NULL

(* compare(heap->data[i], heap->data[j]) > 0 *)
Greater(i, j) == Rank[data[i]] > Rank[data[j]]

(* Mutant of Swap: what was at j is lost. *)
Overwrite(i, j) == data' = [data EXCEPT ![j] = data[i]]

Swap(i, j) == data' = [data EXCEPT ![i] = data[j], ![j] = data[i]]

(* Mutant of Grown: the array grows when it is too late. *)
GrownLate == IF num_items > capacity THEN 2 * capacity ELSE capacity

Grown == IF num_items >= capacity THEN 2 * capacity ELSE capacity

(* insert_data() up to its call of up_heap().  A process is in the heap    *)
(* once; one that has left it stands for a later one of the same rank.     *)
InsertData(p) ==
  /\ pc = "idle"
  /\ p \notin Range(data)
  /\ capacity' = Grown
  /\ data' = [i \in 0 .. num_items |-> IF i = num_items THEN p ELSE data[i]]
  /\ num_items' = num_items + 1
  /\ pc' = "up_heap"
  /\ index' = num_items
  /\ UNCHANGED min

Parent(i) == (i - 1) \div 2

(* up_heap() *)
UpHeap ==
  /\ pc = "up_heap"
  /\ IF index > 0 /\ Greater(Parent(index), index)
     THEN Swap(index, Parent(index)) /\ index' = Parent(index) /\ UNCHANGED pc
     ELSE pc' = "idle" /\ UNCHANGED <<data, index>>
  /\ UNCHANGED <<num_items, capacity, min>>

(* extract_min() up to its call of down_heap(): the last one goes to the   *)
(* front.                                                                  *)
ExtractMin ==
  /\ pc = "idle"
  /\ num_items > 0
  /\ min' = data[0]
  /\ num_items' = num_items - 1
  /\ data' = [i \in 0 .. num_items - 2 |-> IF i = 0 THEN data[num_items - 1] ELSE data[i]]
  /\ IF num_items = 1
     THEN UNCHANGED <<pc, index>>
     ELSE pc' = "down_heap" /\ index' = 0
  /\ UNCHANGED capacity

(* Mutant of Smallest: the right child is compared with the parent only. *)
SmallestOfTwo(i) ==
  LET left == 2 * i + 1
      right == 2 * i + 2
  IN IF right < num_items /\ Greater(i, right) THEN right
     ELSE IF left < num_items /\ Greater(i, left) THEN left ELSE i

(* The first two conditions of down_heap(). *)
Smallest(i) ==
  LET left == 2 * i + 1
      right == 2 * i + 2
      smaller == IF left < num_items /\ Greater(i, left) THEN left ELSE i
  IN IF right < num_items /\ Greater(smaller, right) THEN right ELSE smaller

(* down_heap() *)
DownHeap ==
  /\ pc = "down_heap"
  /\ IF Smallest(index) # index
     THEN Swap(index, Smallest(index)) /\ index' = Smallest(index) /\ UNCHANGED pc
     ELSE pc' = "idle" /\ UNCHANGED <<data, index>>
  /\ UNCHANGED <<num_items, capacity, min>>

Next ==
  \/ \E p \in Procs : InsertData(p)
  \/ UpHeap
  \/ ExtractMin
  \/ DownHeap

Spec == Init /\ [][Next]_vars
-----------------------------------------------------------------------------
(***************************************************************************)
(* Properties                                                              *)
(***************************************************************************)
Indices == 0 .. num_items - 1

(* No index is outside of the array, and no element outside of what        *)
(* realloc() has provided.                                                 *)
TypeOK ==
  /\ num_items \in Nat
  /\ capacity \in Nat \ {0} /\ num_items <= capacity
  /\ data \in [Indices -> Procs]
  /\ pc \in {"idle", "up_heap", "down_heap"}
  /\ index \in Nat /\ (pc # "idle" => index \in Indices)
  /\ min \in Procs \cup {NULL}

(* No process is lost or doubled while elements change places. *)
NoDuplicates == \A i, j \in Indices : data[i] = data[j] => i = j

Ordered(i) == ~Greater(Parent(i), i)

(* The heap is in order but for the element that up_heap() or down_heap()  *)
(* is moving: it may be too small for its parent in up_heap() and too big  *)
(* for its children in down_heap(), and what is above it precedes what is  *)
(* below it in either case.                                                *)
HeapOrder ==
  \A i \in Indices \ {0} :
    /\ \/ Ordered(i)
       \/ pc = "up_heap" /\ i = index
       \/ pc = "down_heap" /\ Parent(i) = index
    /\ pc # "idle" /\ Parent(i) = index /\ index > 0 => ~Greater(Parent(index), i)

Abstract == INSTANCE PriorityQueue WITH queue <- Range(data)

(* Every call is a step of the priority queue, whatever it swaps: SJF gets *)
(* a process that no ready process precedes.                               *)
ImplementsPriorityQueue == Abstract!Spec
=============================================================================
