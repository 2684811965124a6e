------------------------------ MODULE Statistics ------------------------------
(***************************************************************************)
(* print_statistics() in main.c, on what Scheduler leaves behind.  An      *)
(* overhead is a fraction with the denominator Denominator; doubles are    *)
(* taken to be exact, as two decimals are printed.                         *)
(***************************************************************************)
EXTENDS Scheduler

(* Records of `args`, `workload` and what is printed: `ended`, the         *)
(* processes and times of the FINISHED lines, and the four statistics,     *)
(* with overheads in hundredths.                                           *)
CONSTANT Transcripts

Services == Range(workload.service)
Denominator == CHOOSE d \in 1 .. 10^6 : \A s \in Services : d % s = 0

(* update_stats() *)
overhead == [p \in Procs |-> turnaround_time[p] * (Denominator \div workload.service[p])]

(* get_value() of the finished processes *)
Values(field) == [i \in DOMAIN finished_queue |-> field[finished_queue[i]]]

(* Mutant of Sum: the last element is not added. *)
SumOfFront(values) == FoldLeft(+, 0, Front(values))

(* mean(), before the division by the number of processes *)
Sum(values) == FoldLeft(+, 0, values)

(* max() *)
Largest(values) == FoldLeft(LAMBDA m, v : IF v > m THEN v ELSE m, values[1], values)

(* Mutant of Hundredths: it is rounded down. *)
HundredthsBelow(n, d) == (100 * n) \div d

(* round(n / d * 100) *)
Hundredths(n, d) == (200 * n + d) \div (2 * d)

avg_turnaround ==
  LET n == Len(finished_queue) IN (Sum(Values(turnaround_time)) + n - 1) \div n
max_overhead == Hundredths(Largest(Values(overhead)), Denominator)
avg_overhead ==
  Hundredths(Sum(Values(overhead)), Denominator * Len(finished_queue))
-----------------------------------------------------------------------------
FinishTime(p) == workload.arrival[p] + turnaround_time[p]
Ended == [i \in DOMAIN finished_queue |-> <<finished_queue[i], FinishTime(finished_queue[i])>>]

(* The transcripts in cases/: the processes end in that order and at these *)
(* times, the program ends with the last one, and its statistics are the   *)
(* ones expected.                                                          *)
TranscriptAsExpected ==
  \A t \in Transcripts :
    pc = "done" /\ t.args = args /\ t.workload = workload =>
      /\ Ended = t.ended
      /\ sim_time = t.makespan
      /\ <<avg_turnaround, max_overhead, avg_overhead>> =
           <<t.turnaround, t.max_overhead, t.avg_overhead>>
=============================================================================
