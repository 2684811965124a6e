-------------------------- MODULE ProcessLifecycle --------------------------
(***************************************************************************)
(* What start_real_process(), continue_process(), suspend_process() and    *)
(* the terminating half of finish_process() promise their callers: each    *)
(* call takes the real process of a simulated one from one state to the    *)
(* next and returns when it is there.  Pipes and signals do not exist at   *)
(* this level; RealProcess implements it.                                  *)
(***************************************************************************)
CONSTANT Procs

VARIABLE child   \* child[p]: the state the parent knows p's real process in

TypeOK == child \in [Procs -> {"none", "running", "stopped", "terminated"}]

Init == child = [p \in Procs |-> "none"]

(* start_real_process(): p has no pid yet. *)
Start(p) ==
  /\ child[p] = "none"
  /\ child' = [child EXCEPT ![p] = "running"]

(* continue_process(), which also tells a running process the time. *)
Continue(p) ==
  /\ child[p] \in {"running", "stopped"}
  /\ child' = [child EXCEPT ![p] = "running"]

(* suspend_process() *)
Suspend(p) ==
  /\ child[p] = "running"
  /\ child' = [child EXCEPT ![p] = "stopped"]

(* SIGTERM and the read of the hash in finish_process(). *)
Terminate(p) ==
  /\ child[p] = "running"
  /\ child' = [child EXCEPT ![p] = "terminated"]

Next == \E p \in Procs : Start(p) \/ Continue(p) \/ Suspend(p) \/ Terminate(p)

Spec == Init /\ [][Next]_child
=============================================================================
