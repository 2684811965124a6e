------------------------------ MODULE Scheduler ------------------------------
(***************************************************************************)
(* The simulation loop of main.c: cycle(), update_input(), the ready       *)
(* queue, update_time() and finish_process(), over the memory of           *)
(* AddressSpace and the real processes of ProcessLifecycle.  One behaviour *)
(* is one run of the program, `args` and `workload` are its command line   *)
(* and its input file.                                                     *)
(***************************************************************************)
EXTENDS Integers, SequencesExt

CONSTANTS
  Procs,         \* the processes, as the ranks of their names in strcmp() order
  NULL,
  MEM_CAPACITY,  \* 2048 in memory_allocation.h
  TIME_MODULUS,  \* 2^32: sim_time is a uint32_t
  Args,          \* command lines
  Workloads      \* input files

ASSUME ProcsAssumption == Procs \subseteq Nat /\ IsFiniteSet(Procs) /\ NULL \notin Procs
ASSUME CapacityAssumption == MEM_CAPACITY \in Nat \ {0}
ASSUME ModulusAssumption == TIME_MODULUS \in Nat \ {0}
(* README: -s (SJF | RR), -m (infinite | best-fit), -q (1 | 2 | 3) *)
ASSUME ArgsAssumption ==
  Args \subseteq [scheduler : {"SJF", "RR"}, mem_strategy : {"infinite", "best-fit"},
                  quantum : 1 .. 3]
(* Every process is on one line of the file, with a size and a run time. *)
ASSUME WorkloadsAssumption ==
  \A w \in Workloads :
    /\ w.order \in Seq(Procs)
    /\ \A i, j \in DOMAIN w.order : w.order[i] = w.order[j] => i = j
    /\ \A p \in Procs : \E i \in DOMAIN w.order : w.order[i] = p
    /\ w.arrival \in [Procs -> 0 .. TIME_MODULUS - 1]
    /\ w.service \in [Procs -> Nat \ {0}]
    /\ w.mem \in [Procs -> Nat \ {0}]

VARIABLES
  args,                \* the command line
  workload,            \* the input file
  pc,                  \* where cycle() is
  first_cycle,         \* num_cycles == 0
  sim_time,
  processes,           \* processes that have not arrived
  input_queue,         \* arrived, without memory
  curr,                \* position of allocate_memory() in input_queue
  ready_queue,         \* a list under RR; under SJF a heap, in insertion order
  finished_queue,
  current_process,
  no_process_running,
  state,               \* process_t.state
  service_time_left,   \* process_t.service_time_left
  turnaround_time,     \* process_t.turnaround_time
  owner,               \* the memory, see AddressSpace
  child                \* the real processes, see ProcessLifecycle

input  == <<args, workload>>
queues == <<processes, input_queue, ready_queue, finished_queue>>
cpu    == <<current_process, no_process_running>>
clock  == <<first_cycle, sim_time>>
fields == <<state, service_time_left, turnaround_time>>
vars   == <<input, pc, clock, queues, curr, cpu, fields, owner, child>>

Memory   == INSTANCE AddressSpace WITH Requirements <- Nat \ {0}
Children == INSTANCE ProcessLifecycle
-----------------------------------------------------------------------------
SJF     == args.scheduler = "SJF"
RR      == args.scheduler = "RR"
BestFit == args.mem_strategy = "best-fit"

(* load_processes() and the declarations at the top of cycle() *)
Init ==
  /\ args \in Args
  /\ workload \in Workloads
  /\ pc = "update_input"
  /\ first_cycle = TRUE
  /\ sim_time = 0
  /\ processes = workload.order
  /\ input_queue = <<>>
  /\ curr = 1
  /\ ready_queue = <<>>
  /\ finished_queue = <<>>
  /\ current_process = NULL
  /\ no_process_running = FALSE
  /\ state = [p \in Procs |-> "IDLE"]
  /\ service_time_left = workload.service
  /\ turnaround_time = [p \in Procs |-> 0]
  /\ Memory!Init
  /\ Children!Init

(* compare_process(p, q) < 0 *)
Before(p, q) ==
  \/ workload.service[p] < workload.service[q]
  \/ /\ workload.service[p] = workload.service[q]
     /\ \/ workload.arrival[p] < workload.arrival[q]
        \/ workload.arrival[p] = workload.arrival[q] /\ p < q

(* The end of an iteration of the loop in cycle(). *)
EndCycle ==
  /\ pc' = "update_time"
  /\ sim_time' = (sim_time + args.quantum) % TIME_MODULUS
-----------------------------------------------------------------------------
(* Mutant of HeadHasArrived: it misses the arrivals between two cycles. *)
HeadArrivesNow ==
  /\ processes # <<>>
  /\ workload.arrival[Head(processes)] = sim_time

HeadHasArrived ==
  /\ processes # <<>>
  /\ workload.arrival[Head(processes)] <= sim_time

(* Mutant of Arrive: only one process arrives in a cycle. *)
ArriveAlone ==
  /\ pc = "update_input"
  /\ HeadHasArrived
  /\ input_queue' = Append(input_queue, Head(processes))
  /\ processes' = Tail(processes)
  /\ pc' = "allocate_memory"
  /\ curr' = 1
  /\ UNCHANGED <<input, clock, ready_queue, finished_queue, cpu, fields, owner, child>>

(* One turn of the loop in update_input(). *)
Arrive ==
  /\ pc = "update_input"
  /\ HeadHasArrived
  /\ input_queue' = Append(input_queue, Head(processes))
  /\ processes' = Tail(processes)
  /\ UNCHANGED <<input, pc, clock, curr, ready_queue, finished_queue, cpu, fields,
                 owner, child>>

EndUpdateInput ==
  /\ pc = "update_input"
  /\ ~HeadHasArrived
  /\ pc' = "allocate_memory"
  /\ curr' = 1
  /\ UNCHANGED <<input, clock, queues, cpu, fields, owner, child>>

Fits(p) == BestFit => Memory!HasRoom(workload.mem[p])

(* process_ready() for the process p at position curr of the input queue,  *)
(* after best_fit() has given it memory.  The next node takes its place.   *)
ProcessReady(p) ==
  /\ Fits(p)
  /\ IF BestFit THEN Memory!Allocate(p, workload.mem[p]) ELSE UNCHANGED owner
  /\ state' = [state EXCEPT ![p] = "READY"]
  /\ ready_queue' = Append(ready_queue, p)
  /\ input_queue' = RemoveAt(input_queue, curr)
  /\ UNCHANGED curr

(* Mutant of Skip: the first process that does not fit ends the pass. *)
GiveUp(p) ==
  /\ ~Fits(p)
  /\ curr' = Len(input_queue) + 1
  /\ UNCHANGED <<input_queue, ready_queue, state, owner>>

(* best_fit() has found no space: p stays where it is. *)
Skip(p) ==
  /\ ~Fits(p)
  /\ curr' = curr + 1
  /\ UNCHANGED <<input_queue, ready_queue, state, owner>>

(* One turn of the loop in allocate_memory(). *)
AllocateMemory ==
  /\ pc = "allocate_memory"
  /\ curr \in DOMAIN input_queue
  /\ LET p == input_queue[curr] IN ProcessReady(p) \/ Skip(p)
  /\ UNCHANGED <<input, pc, clock, processes, finished_queue, cpu, service_time_left,
                 turnaround_time, child>>

EndAllocateMemory ==
  /\ pc = "allocate_memory"
  /\ curr \notin DOMAIN input_queue
  /\ pc' = IF first_cycle THEN "run_next_process" ELSE "schedule"
  /\ UNCHANGED <<input, clock, queues, curr, cpu, fields, owner, child>>
-----------------------------------------------------------------------------
(* The scheduling algorithm when a process has the CPU and keeps it: under *)
(* SJF always, under RR when nobody else is ready.                         *)
Continue ==
  /\ pc = "schedule"
  /\ ~no_process_running
  /\ current_process # NULL
  /\ RR => ready_queue = <<>>
  /\ Children!Continue(current_process)
  /\ EndCycle
  /\ UNCHANGED <<input, first_cycle, queues, curr, cpu, fields, owner>>

(* Mutants of Preempt: the process is not put back; it is not suspended;   *)
(* it goes in front; SJF preempts as well.                                 *)
PreemptWith(queue, suspended, preemptive) ==
  /\ pc = "schedule"
  /\ ~no_process_running
  /\ current_process # NULL
  /\ preemptive
  /\ ready_queue # <<>>
  /\ ready_queue' = queue
  /\ IF suspended THEN Children!Suspend(current_process) ELSE UNCHANGED child
  /\ pc' = "run_next_process"
  /\ UNCHANGED <<input, clock, processes, input_queue, finished_queue, curr, cpu, fields,
                 owner>>
PreemptLoses   == PreemptWith(ready_queue, TRUE, RR)
PreemptRunning == PreemptWith(Append(ready_queue, current_process), FALSE, RR)
PreemptInFront == PreemptWith(<<current_process>> \o ready_queue, TRUE, RR)
PreemptAlways  == PreemptWith(Append(ready_queue, current_process), TRUE, TRUE)

(* RR: the process goes behind those that arrived during its quantum. *)
Preempt ==
  /\ pc = "schedule"
  /\ ~no_process_running
  /\ current_process # NULL
  /\ RR
  /\ ready_queue # <<>>
  /\ ready_queue' = Append(ready_queue, current_process)
  /\ Children!Suspend(current_process)
  /\ pc' = "run_next_process"
  /\ UNCHANGED <<input, clock, processes, input_queue, finished_queue, curr, cpu, fields,
                 owner>>

(* continue_process(NULL) or suspend_process(NULL): current_process is     *)
(* NULL but no_process_running says otherwise.  The program is killed.     *)
Crash ==
  /\ pc = "schedule"
  /\ ~no_process_running
  /\ current_process = NULL
  /\ pc' = "crashed"
  /\ UNCHANGED <<input, clock, queues, curr, cpu, fields, owner, child>>

(* Mutants of Idle: it does not look at the ready queue; it takes NULL for *)
(* a running process.                                                      *)
IdleAnyway ==
  /\ pc = "schedule"
  /\ no_process_running
  /\ current_process' = NULL
  /\ EndCycle
  /\ UNCHANGED <<input, first_cycle, queues, curr, no_process_running, fields, owner,
                 child>>
IdleAsRunning ==
  /\ pc = "schedule"
  /\ no_process_running
  /\ ready_queue = <<>>
  /\ current_process' = NULL
  /\ no_process_running' = FALSE
  /\ EndCycle
  /\ UNCHANGED <<input, first_cycle, queues, curr, fields, owner, child>>

(* Nobody has the CPU. *)
Idle ==
  /\ pc = "schedule"
  /\ no_process_running
  /\ ready_queue = <<>>
  /\ current_process' = NULL
  /\ EndCycle
  /\ UNCHANGED <<input, first_cycle, queues, curr, no_process_running, fields, owner,
                 child>>

Select ==
  /\ pc = "schedule"
  /\ no_process_running
  /\ ready_queue # <<>>
  /\ pc' = "run_next_process"
  /\ UNCHANGED <<input, clock, queues, curr, cpu, fields, owner, child>>

(* The process extract_min() or dequeue() takes out of the ready queue. *)
IsNext(i) ==
  IF SJF THEN \A j \in DOMAIN ready_queue \ {i} : Before(ready_queue[i], ready_queue[j])
         ELSE i = 1

(* run_next_process(), and the rest of the iteration of cycle(). *)
RunNextProcess ==
  /\ pc = "run_next_process"
  /\ \E i \in DOMAIN ready_queue :
       LET p == ready_queue[i] IN
         /\ IsNext(i)
         /\ ready_queue' = RemoveAt(ready_queue, i)
         /\ current_process' = p
         /\ state' = [state EXCEPT ![p] = "RUNNING"]
         /\ IF child[p] = "none" THEN Children!Start(p) ELSE Children!Continue(p)
  /\ no_process_running' = FALSE
  /\ first_cycle' = FALSE
  /\ EndCycle
  /\ UNCHANGED <<input, processes, input_queue, finished_queue, curr, service_time_left,
                 turnaround_time, owner>>

(* run_next_process() returns NULL; the first cycle does not look at that. *)
NothingToRun ==
  /\ pc = "run_next_process"
  /\ ready_queue = <<>>
  /\ current_process' = NULL
  /\ no_process_running' = FALSE
  /\ first_cycle' = FALSE
  /\ EndCycle
  /\ UNCHANGED <<input, queues, curr, fields, owner, child>>
-----------------------------------------------------------------------------
(* Mutant of UpdateTime: the last quantum is subtracted like the others. *)
UpdateTimeAlways ==
  /\ pc = "update_time"
  /\ IF current_process = NULL
     THEN UNCHANGED service_time_left
     ELSE service_time_left' =
            [service_time_left EXCEPT ![current_process] = @ - args.quantum]
  /\ pc' = "update_input"
  /\ UNCHANGED <<input, clock, queues, curr, cpu, state, turnaround_time, owner, child>>

(* update_time() when it returns 0 *)
UpdateTime ==
  /\ pc = "update_time"
  /\ IF current_process = NULL
     THEN UNCHANGED service_time_left
     ELSE /\ service_time_left[current_process] > args.quantum
          /\ service_time_left' =
               [service_time_left EXCEPT ![current_process] = @ - args.quantum]
  /\ pc' = "update_input"
  /\ UNCHANGED <<input, clock, queues, curr, cpu, state, turnaround_time, owner, child>>

(* Mutant of Release: the memory strategy is not recognised. *)
ReleaseNothing(p) == UNCHANGED owner

(* deallocate_memory() *)
Release(p) == IF BestFit THEN Memory!Deallocate(p) ELSE UNCHANGED owner

(* update_time() when it returns 1, and finish_process().  Only SJF        *)
(* forgets current_process here.                                           *)
FinishProcess ==
  LET p == current_process IN
    /\ pc = "update_time"
    /\ p # NULL
    /\ service_time_left[p] <= args.quantum
    /\ service_time_left' = [service_time_left EXCEPT ![p] = 0]
    /\ state' = [state EXCEPT ![p] = "FINISHED"]
    /\ finished_queue' = Append(finished_queue, p)
    /\ Children!Terminate(p)
    /\ turnaround_time' = [turnaround_time EXCEPT
                             ![p] = (sim_time - workload.arrival[p]) % TIME_MODULUS]
    /\ Release(p)
    /\ current_process' = IF SJF THEN NULL ELSE p
    /\ no_process_running' = TRUE
    /\ pc' = IF Len(finished_queue') = Len(workload.order) THEN "done" ELSE "update_input"
    /\ UNCHANGED <<input, clock, processes, input_queue, ready_queue, curr>>

(* print_statistics() and exit, or the end of a program that was killed. *)
Terminated == pc \in {"done", "crashed"} /\ UNCHANGED vars

Next ==
  \/ Arrive \/ EndUpdateInput
  \/ AllocateMemory \/ EndAllocateMemory
  \/ Continue \/ Preempt \/ Crash \/ Idle \/ Select
  \/ RunNextProcess \/ NothingToRun
  \/ UpdateTime \/ FinishProcess
  \/ Terminated

Spec == Init /\ [][Next]_vars

(* The program is one thread that does not stop before it is finished. *)
FairSpec == Spec /\ WF_vars(Next)
-----------------------------------------------------------------------------
(***************************************************************************)
(* Properties                                                              *)
(***************************************************************************)
TypeOK ==
  /\ args \in Args
  /\ workload \in Workloads
  /\ pc \in {"update_input", "allocate_memory", "schedule", "run_next_process",
             "update_time", "done", "crashed"}
  /\ first_cycle \in BOOLEAN
  /\ sim_time \in 0 .. TIME_MODULUS - 1
  /\ processes \in Seq(Procs)
  /\ input_queue \in Seq(Procs)
  /\ ready_queue \in Seq(Procs)
  /\ finished_queue \in Seq(Procs)
  /\ curr \in Nat \ {0}
  /\ current_process \in Procs \cup {NULL}
  /\ no_process_running \in BOOLEAN
  /\ state \in [Procs -> {"IDLE", "READY", "RUNNING", "FINISHED"}]
  /\ service_time_left \in [Procs -> Nat]
  /\ turnaround_time \in [Procs -> 0 .. TIME_MODULUS - 1]
  /\ Memory!TypeOK
  /\ Children!TypeOK

(* The process the CPU is given to for the current quantum.  A preempted   *)
(* process is current_process until run_next_process() has replaced it.    *)
HasCpu(p) == /\ p = current_process
             /\ ~no_process_running
             /\ ~Contains(ready_queue, p)

Places(p) ==
  {i \in DOMAIN processes : processes[i] = p}
    \X {"processes"} \cup
  {i \in DOMAIN input_queue : input_queue[i] = p}
    \X {"input"} \cup
  {i \in DOMAIN ready_queue : ready_queue[i] = p}
    \X {"ready"} \cup
  {i \in DOMAIN finished_queue : finished_queue[i] = p}
    \X {"finished"} \cup
  (IF HasCpu(p) THEN {<<0, "cpu">>} ELSE {})

(* No process is lost or in two places at once: it is in one queue, once,  *)
(* or has the CPU.  The queues hand processes over in several functions,   *)
(* and the program ends when the finished ones are as many as the lines.   *)
InOnePlace == \A p \in Procs : Cardinality(Places(p)) = 1

(* At most one real process runs, and it is the one that has the CPU; one  *)
(* that has been preempted is stopped, and only finished ones are gone.    *)
(* The simulated queues and the real processes change in different steps.  *)
ChildrenFollowQueues ==
  \A p \in Procs :
    /\ child[p] = "running" <=> HasCpu(p)
    /\ child[p] = "none" => service_time_left[p] = workload.service[p]
    /\ child[p] = "stopped" => RR /\ Contains(ready_queue, p) /\ service_time_left[p] > 0
    /\ child[p] = "terminated" <=> Contains(finished_queue, p)

(* Under best-fit exactly the processes that are ready or have the CPU own *)
(* memory, as much as they require and in one piece; otherwise no one does.*)
MemoryFollowsQueues ==
  \A p \in Procs :
    IF BestFit /\ (HasCpu(p) \/ Contains(ready_queue, p))
    THEN \E base \in 0 .. MEM_CAPACITY - 1 :
           Memory!CellsOf(p) = base .. base + workload.mem[p] - 1
    ELSE Memory!CellsOf(p) = {}

(* When the scheduler chooses, every process that waits for memory really  *)
(* has to: the one pass over the input queue has left out no process that  *)
(* fits, although the ones behind it have taken memory meanwhile.          *)
NoFittingProcessWaits ==
  pc \in {"schedule", "run_next_process"} =>
    \A i \in DOMAIN input_queue : ~Fits(input_queue[i])

AllFit == BestFit => \A p \in Procs : workload.mem[p] <= MEM_CAPACITY

(* The CPU is idle for a quantum only if nobody who has arrived is waiting *)
(* for it or for memory: a process that waits for memory waits for one     *)
(* that is ready or running.                                               *)
WorkConserving ==
  pc = "update_time" /\ current_process = NULL /\ AllFit =>
    ready_queue = <<>> /\ input_queue = <<>>

(* update_input() looks at the head of the list alone.  A process is still *)
(* submitted in the first cycle after it is due, unless one in front of it *)
(* in the file was not due before that cycle: a file that is not sorted    *)
(* delays nobody but those behind a later line, and them no longer.        *)
SubmittedWhenDue ==
  \A i \in DOMAIN workload.order :
    Contains(processes, workload.order[i]) /\ ~Contains(processes', workload.order[i]) =>
      \E j \in 1 .. i : workload.arrival[workload.order[j]] > sim_time - args.quantum
ArrivalsInTime == [][SubmittedWhenDue]_vars

(* SJF is not preemptive: a process that has the CPU has it until it has   *)
(* finished, whoever arrives meanwhile.                                    *)
RunsToCompletion ==
  \A p \in Procs : SJF /\ HasCpu(p) => HasCpu(p)' \/ Contains(finished_queue', p)
SJFIsNotPreemptive == [][RunsToCompletion]_vars

(* RR is fair: nobody is put in front of a process that is ready, so it    *)
(* gets the CPU after those that are in front of it now.                   *)
NobodyOvertakes ==
  \A p \in Procs, i \in DOMAIN ready_queue :
    RR /\ ready_queue[i] = p =>
      \/ i = 1 /\ HasCpu(p)'
      \/ \E j \in 1 .. i : j \in DOMAIN ready_queue' /\ ready_queue'[j] = p
RRIsFair == [][NobodyOvertakes]_vars

(* The program crashes only in the second cycle and only because nothing   *)
(* was ready in the first one: from then on current_process is a process   *)
(* whenever continue_process() or suspend_process() is given it.           *)
CrashOnlyAtStart ==
  pc = "crashed" => \A p \in Procs : child[p] = "none"

(* Somebody is ready in the first cycle. *)
StartsAtZero ==
  \E i \in DOMAIN workload.order :
    /\ \A j \in 1 .. i : workload.arrival[workload.order[j]] = 0
    /\ BestFit => workload.mem[workload.order[i]] <= MEM_CAPACITY

(* Every process that fits into memory finishes, also when the file has a  *)
(* process that never will: it keeps neither the CPU nor memory from the   *)
(* ones behind it.                                                         *)
FittingProcessesFinish ==
  \A p \in Procs :
    StartsAtZero /\ (BestFit => workload.mem[p] <= MEM_CAPACITY)
      ~> Contains(finished_queue, p)

(* The program ends when all of its processes fit into memory. *)
Terminates == StartsAtZero /\ AllFit ~> pc = "done"
-----------------------------------------------------------------------------
(***************************************************************************)
(* What the documentation says and the code does not do                    *)
(***************************************************************************)
(* README.md: each cycle "identifies whether the currently running process *)
(* (if any) has completed" and "determines the process (if any) that will  *)
(* run in the next cycle": that nobody runs is a regular case.             *)
NobodyRunningIsHandled == pc # "crashed"

=============================================================================
