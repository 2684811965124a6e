----------------------------- MODULE MCStatistics -----------------------------
(* Test cases of cases/ with four processes, numbered in the order of      *)
(* their names, and files of which not everything fits.  Memory is divided *)
(* by 256, which all sizes in non-fit.txt are multiples of.                *)
EXTENDS Statistics

(* task1/simple.txt *)
Simple == [order   |-> <<1, 2, 4, 3>>,
           arrival |-> <<0, 10, 50, 40>>,
           service |-> <<50, 30, 10, 80>>,
           mem     |-> <<1, 1, 1, 1>>]

(* task3/non-fit.txt *)
NonFit == [order   |-> <<1, 2, 3, 4>>,
           arrival |-> <<0, 30, 60, 100>>,
           service |-> <<100, 100, 50, 30>>,
           mem     |-> <<4, 2, 2, 1>>]

CommandLine(scheduler, mem_strategy, quantum) ==
  [scheduler |-> scheduler, mem_strategy |-> mem_strategy, quantum |-> quantum]

MCTranscripts ==
  {[args |-> CommandLine("SJF", "infinite", 1), workload |-> Simple,  \* task1/simple-sjf.out
    ended |-> <<<<1, 50>>, <<3, 60>>, <<2, 90>>, <<4, 170>>>>,
    turnaround |-> 68, max_overhead |-> 267, avg_overhead |-> 157, makespan |-> 170],
   [args |-> CommandLine("RR", "infinite", 3), workload |-> Simple,  \* task2/simple-rr.out
    ended |-> <<<<2, 90>>, <<3, 96>>, <<1, 117>>, <<4, 174>>>>,
    turnaround |-> 95, max_overhead |-> 460, avg_overhead |-> 282, makespan |-> 174],
   [args |-> CommandLine("RR", "best-fit", 3), workload |-> NonFit,    \* task3/non-fit-rr.out
    ended |-> <<<<3, 210>>, <<1, 231>>, <<4, 279>>, <<2, 285>>>>,
    turnaround |-> 204, max_overhead |-> 597, avg_overhead |-> 346, makespan |-> 285],
   [args |-> CommandLine("SJF", "best-fit", 3), workload |-> NonFit,   \* task3/non-fit-sjf.out
    ended |-> <<<<1, 102>>, <<4, 132>>, <<3, 183>>, <<2, 285>>>>,
    turnaround |-> 128, max_overhead |-> 255, avg_overhead |-> 177, makespan |-> 285]}

(* Lines that are larger than memory, or leave nobody behind them any room.*)
NotFitting ==
  {[order |-> <<2, 1, 3, 4>>, arrival |-> a, service |-> <<3, 1, 4, 2>>, mem |-> m] :
     a \in {<<0, 0, 0, 0>>, <<2, 0, 2, 5>>},
     m \in [Procs -> {3, 8, 9}]}

MCArgs == {t.args : t \in MCTranscripts}
MCWorkloads == {t.workload : t \in MCTranscripts} \cup NotFitting
=============================================================================
