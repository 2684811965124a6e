----------------------------- MODULE MCScheduler -----------------------------
(* Scheduler for three processes and all small input files.                *)
EXTENDS Scheduler

MCProcs == 1 .. 3

MCArgs == [scheduler : {"SJF", "RR"}, mem_strategy : {"infinite", "best-fit"},
           quantum : 1 .. 2]

File(order, arrival, service, mem) ==
  [order |-> order, arrival |-> arrival, service |-> service, mem |-> mem]

Orders == {o \in [1 .. 3 -> MCProcs] : \A i, j \in 1 .. 3 : o[i] = o[j] => i = j}

(* The lines are in order of arrival, the names are in any order.  With 5  *)
(* cells, sizes 2 and 3 leave a hole on either side of a process; what is  *)
(* free then is enough for another one only if it is in one piece.         *)
Sorted ==
  {File(o, [p \in MCProcs |-> a[CHOOSE i \in 1 .. 3 : o[i] = p]], s, m) :
     o \in Orders,
     a \in {b \in [1 .. 3 -> {0, 1, 3}] : b[1] <= b[2] /\ b[2] <= b[3]},
     s \in [MCProcs -> {1, 3}],
     m \in [MCProcs -> {2, 3}]}

(* The lines are not in order of arrival. *)
Unsorted ==
  {File(<<1, 2, 3>>, a, s, [p \in MCProcs |-> 2]) :
     a \in {<<0, 3, 1>>, <<1, 0, 0>>, <<3, 2, 1>>},
     s \in [MCProcs -> 1 .. 4]}

MCWorkloads == Sorted \cup Unsorted

=============================================================================
