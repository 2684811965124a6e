--------------------------- MODULE Scheduler_proofs ---------------------------
(***************************************************************************)
(* Proofs about Scheduler, for every number of processes, every input file *)
(* and command line, every capacity of the memory and every width of the   *)
(* clock.                                                                  *)
(***************************************************************************)
EXTENDS Scheduler, SequenceLemmas, SequenceTheorems, FiniteSetTheorems, TLAPS

(***************************************************************************)
(* The inductive invariant: what the properties say, and what each of them *)
(* needs to know of the others and of the place in the cycle.              *)
(***************************************************************************)
QueuesDistinct ==
  /\ IsInjective(processes)
  /\ IsInjective(input_queue)
  /\ IsInjective(ready_queue)
  /\ IsInjective(finished_queue)

(* InOnePlace without counting. *)
ExactlyOnePlace ==
  \A p \in Procs :
    /\ \/ Contains(processes, p) \/ Contains(input_queue, p)
       \/ Contains(ready_queue, p) \/ Contains(finished_queue, p)
       \/ HasCpu(p)
    /\ Contains(processes, p) =>
         /\ ~Contains(input_queue, p) /\ ~Contains(ready_queue, p)
         /\ ~Contains(finished_queue, p) /\ ~HasCpu(p)
    /\ Contains(input_queue, p) =>
         /\ ~Contains(ready_queue, p)
         /\ ~Contains(finished_queue, p) /\ ~HasCpu(p)
    /\ Contains(ready_queue, p) => ~Contains(finished_queue, p)
    /\ Contains(finished_queue, p) => ~HasCpu(p)

(* What current_process and no_process_running mean at each place of       *)
(* cycle(): the two are read together, and written in different functions. *)
Control ==
  /\ first_cycle => /\ pc \in {"update_input", "allocate_memory", "run_next_process"}
                    /\ current_process = NULL /\ ~no_process_running
  /\ current_process = NULL /\ ~no_process_running => \A p \in Procs : child[p] = "none"
  /\ pc = "run_next_process" => /\ \A p \in Procs : ~HasCpu(p)
                                /\ ~first_cycle => ready_queue # <<>>
  /\ pc # "run_next_process" /\ current_process # NULL /\ ~no_process_running =>
       ~Contains(ready_queue, current_process)
  /\ pc = "update_time" => IF current_process = NULL THEN ready_queue = <<>>
                                                     ELSE ~no_process_running
  /\ pc = "crashed" => current_process = NULL /\ ~no_process_running

(* A process that has not been given memory has never been started, and    *)
(* one that is not finished has something left to do.                      *)
WorkLeft ==
  \A p \in Procs :
    /\ Contains(processes, p) \/ Contains(input_queue, p) => child[p] = "none"
    /\ ~Contains(finished_queue, p) => service_time_left[p] > 0

(* What the pass over the input queue has seen so far does not fit, and    *)
(* when the CPU is idle that is still so.                                  *)
WaitersDoNotFit ==
  \A i \in DOMAIN input_queue :
    \/ pc = "allocate_memory" /\ i < curr
    \/ pc \in {"schedule", "run_next_process"}
    \/ pc = "update_time" /\ current_process = NULL
    => ~Fits(input_queue[i])

(* The processes that have not arrived are the last lines of the file. *)
Line(i) == Len(workload.order) - Len(processes) + i
LinesLeft ==
  /\ Len(processes) <= Len(workload.order)
  /\ \A i \in DOMAIN processes : processes[i] = workload.order[Line(i)]

(* When update_input() looks at the clock again, the first of them was not *)
(* due a quantum ago, or an earlier line was not.                          *)
NotDueBefore ==
  processes # <<>> =>
    /\ pc \in {"update_time", "update_input"} =>
         \E j \in 1 .. Line(1) : workload.arrival[workload.order[j]] > sim_time - args.quantum
    /\ pc \in {"allocate_memory", "schedule", "run_next_process"} =>
         workload.arrival[Head(processes)] > sim_time

IInv ==
  /\ TypeOK
  /\ QueuesDistinct
  /\ ExactlyOnePlace
  /\ Control
  /\ ChildrenFollowQueues
  /\ WorkLeft
  /\ MemoryFollowsQueues
  /\ WaitersDoNotFit
  /\ LinesLeft
  /\ NotDueBefore
-----------------------------------------------------------------------------
(***************************************************************************)
(* Types.                                                                  *)
(***************************************************************************)
LEMMA Inputs ==
  ASSUME TypeOK
  PROVE  /\ args.quantum \in 1 .. 3
         /\ workload.order \in Seq(Procs)
         /\ IsInjective(workload.order)
         /\ \A p \in Procs : Contains(workload.order, p)
         /\ workload.arrival \in [Procs -> 0 .. TIME_MODULUS - 1]
         /\ workload.service \in [Procs -> Nat \ {0}]
         /\ workload.mem \in [Procs -> Nat \ {0}]
<1>1. args \in [scheduler : {"SJF", "RR"}, mem_strategy : {"infinite", "best-fit"},
                quantum : 1 .. 3]
  BY ArgsAssumption DEF TypeOK
<1>2. workload \in Workloads
  BY DEF TypeOK
<1>3. /\ workload.order \in Seq(Procs)
      /\ \A i, j \in DOMAIN workload.order :
           workload.order[i] = workload.order[j] => i = j
      /\ \A p \in Procs : \E i \in DOMAIN workload.order : workload.order[i] = p
      /\ workload.arrival \in [Procs -> 0 .. TIME_MODULUS - 1]
      /\ workload.service \in [Procs -> Nat \ {0}]
      /\ workload.mem \in [Procs -> Nat \ {0}]
  BY <1>2, WorkloadsAssumption
<1>4. DOMAIN workload.order = 1 .. Len(workload.order)
  BY <1>3
<1>5. IsInjective(workload.order)
  BY <1>3 DEF IsInjective
<1>6. \A p \in Procs : Contains(workload.order, p)
  BY <1>3, <1>4 DEF Contains
<1> QED
  BY <1>1, <1>3, <1>5, <1>6

(* A length of time modulo the width of the clock is a time, and not a     *)
(* longer one.                                                             *)
LEMMA Modulo ==
  /\ \A t \in Int : t % TIME_MODULUS \in 0 .. TIME_MODULUS - 1
  /\ \A t \in Nat : t % TIME_MODULUS <= t
<1> TIME_MODULUS \in Nat \ {0}
  BY ModulusAssumption
<1>1. ASSUME NEW t \in Int
      PROVE  t % TIME_MODULUS \in 0 .. TIME_MODULUS - 1
  OBVIOUS
<1>2. ASSUME NEW t \in Nat
      PROVE  t % TIME_MODULUS <= t
  <2>1. CASE t < TIME_MODULUS
    BY <2>1, SMTT(60)
  <2>2. CASE t >= TIME_MODULUS
    BY <1>1, <2>2
  <2> QED
    BY <2>1, <2>2
<1> QED
  BY <1>1, <1>2

LEMMA InitTypeOK == Init => TypeOK
<1> SUFFICES ASSUME Init
             PROVE  TypeOK
  OBVIOUS
<1>1. /\ workload.order \in Seq(Procs)
      /\ workload.service \in [Procs -> Nat]
  BY WorkloadsAssumption DEF Init
<1>2. 0 \in 0 .. TIME_MODULUS - 1
  BY ModulusAssumption
<1>3. Memory!TypeOK
  BY DEF Init, Memory!Init, Memory!TypeOK
<1>4. Children!TypeOK
  BY DEF Init, Children!Init, Children!TypeOK
<1>5. /\ processes \in Seq(Procs) /\ input_queue \in Seq(Procs)
      /\ ready_queue \in Seq(Procs) /\ finished_queue \in Seq(Procs)
  BY <1>1 DEF Init
<1>6. /\ state \in [Procs -> {"IDLE", "READY", "RUNNING", "FINISHED"}]
      /\ service_time_left \in [Procs -> Nat]
      /\ turnaround_time \in [Procs -> 0 .. TIME_MODULUS - 1]
  BY <1>1, <1>2 DEF Init
<1>7. /\ args \in Args /\ workload \in Workloads
      /\ pc = "update_input"
      /\ sim_time \in 0 .. TIME_MODULUS - 1
      /\ curr \in Nat \ {0}
      /\ current_process \in Procs \cup {NULL}
  BY <1>2 DEF Init
<1>8. first_cycle \in BOOLEAN /\ no_process_running \in BOOLEAN
  BY Zenon DEF Init
<1> QED
  BY <1>3, <1>4, <1>5, <1>6, <1>7, <1>8 DEF TypeOK

(* A call to the part that controls the real processes sets the state of   *)
(* one of them.                                                            *)
LEMMA ChildSet ==
  ASSUME TypeOK, NEW p \in Procs,
         Children!Start(p) \/ Children!Continue(p) \/ Children!Suspend(p) \/ Children!Terminate(p)
  PROVE  /\ Children!TypeOK'
         /\ \A q \in Procs \ {p} : child'[q] = child[q]
         /\ Children!Start(p) \/ Children!Continue(p) => child'[p] = "running"
         /\ Children!Suspend(p) => child'[p] = "stopped"
         /\ Children!Terminate(p) => child'[p] = "terminated"
  BY DEF TypeOK, Children!TypeOK, Children!Start, Children!Continue, Children!Suspend,
         Children!Terminate

LEMMA EndCycleTime ==
  ASSUME TypeOK, EndCycle
  PROVE  sim_time' \in 0 .. TIME_MODULUS - 1 /\ sim_time' - args.quantum <= sim_time
<1>1. args.quantum \in 1 .. 3 /\ sim_time \in Nat /\ TIME_MODULUS \in Nat \ {0}
  BY Inputs, ModulusAssumption DEF TypeOK
<1>2. sim_time + args.quantum \in Nat
  BY <1>1
<1>3. /\ sim_time' = (sim_time + args.quantum) % TIME_MODULUS
      /\ sim_time' \in 0 .. TIME_MODULUS - 1
      /\ sim_time' <= sim_time + args.quantum
  BY <1>2, Modulo DEF EndCycle
<1> QED
  BY <1>1, <1>3

LEMMA NextTypeOK ==
  ASSUME TypeOK, [Next]_vars
  PROVE  TypeOK'
<1> USE DEF input, queues, cpu, clock, fields, Memory!TypeOK, Children!TypeOK
<1>1. CASE Arrive
  <2>1. /\ processes # <<>> /\ Head(processes) \in Procs
        /\ input_queue' \in Seq(Procs) /\ processes' \in Seq(Procs)
    BY <1>1 DEF Arrive, HeadHasArrived, TypeOK
  <2> QED
    BY <1>1, <2>1 DEF Arrive, TypeOK
<1>2. CASE EndUpdateInput
  BY <1>2 DEF EndUpdateInput, TypeOK
<1>3. CASE AllocateMemory
  <2> DEFINE p == input_queue[curr]
  <2>1. p \in Procs /\ curr \in DOMAIN input_queue
    BY <1>3 DEF AllocateMemory, TypeOK
  <2>2. CASE ProcessReady(p)
    <3>1. RemoveAt(input_queue, curr) \in Seq(Procs)
      BY <2>1, RemoveAtProperties DEF TypeOK
    <3>2. /\ input_queue' \in Seq(Procs) /\ ready_queue' \in Seq(Procs)
          /\ state' \in [Procs -> {"IDLE", "READY", "RUNNING", "FINISHED"}]
      BY <2>1, <2>2, <3>1 DEF ProcessReady, TypeOK
    <3>3. Memory!TypeOK'
      BY <2>1, <2>2 DEF ProcessReady, TypeOK, Memory!TypeOK, Memory!Allocate
    <3> QED
      BY <1>3, <2>2, <3>2, <3>3 DEF AllocateMemory, ProcessReady, TypeOK
  <2>3. CASE Skip(p)
    BY <1>3, <2>3 DEF AllocateMemory, Skip, TypeOK, Memory!TypeOK
  <2> QED
    BY <1>3, <2>2, <2>3 DEF AllocateMemory
<1>4. CASE EndAllocateMemory
  BY <1>4 DEF EndAllocateMemory, TypeOK
<1>5. CASE Continue
  <2>1. current_process \in Procs
    BY <1>5 DEF Continue, TypeOK
  <2>2. Children!TypeOK'
    BY <1>5, <2>1, ChildSet DEF Continue
  <2> QED
    BY <1>5, <2>2, EndCycleTime DEF Continue, EndCycle, TypeOK
<1>6. CASE Preempt
  <2>1. current_process \in Procs
    BY <1>6 DEF Preempt, TypeOK
  <2>2. Children!TypeOK'
    BY <1>6, <2>1, ChildSet DEF Preempt
  <2>3. ready_queue' \in Seq(Procs)
    BY <1>6, <2>1 DEF Preempt, TypeOK
  <2> QED
    BY <1>6, <2>2, <2>3 DEF Preempt, TypeOK
<1>7. CASE Crash
  BY <1>7 DEF Crash, TypeOK
<1>8. CASE Idle
  BY <1>8, EndCycleTime DEF Idle, EndCycle, TypeOK
<1>9. CASE Select
  BY <1>9 DEF Select, TypeOK
<1>10. CASE RunNextProcess
  <2>1. PICK i \in DOMAIN ready_queue :
          LET p == ready_queue[i] IN
            /\ IsNext(i)
            /\ ready_queue' = RemoveAt(ready_queue, i)
            /\ current_process' = p
            /\ state' = [state EXCEPT ![p] = "RUNNING"]
            /\ IF child[p] = "none" THEN Children!Start(p) ELSE Children!Continue(p)
    BY <1>10 DEF RunNextProcess
  <2> DEFINE p == ready_queue[i]
  <2>2. p \in Procs /\ RemoveAt(ready_queue, i) \in Seq(Procs)
    BY RemoveAtProperties DEF TypeOK
  <2>3. Children!TypeOK'
    BY <2>1, <2>2, ChildSet
  <2>4. /\ current_process' \in Procs /\ ready_queue' \in Seq(Procs)
        /\ state' \in [Procs -> {"IDLE", "READY", "RUNNING", "FINISHED"}]
    BY <2>1, <2>2 DEF TypeOK
  <2>5. no_process_running' \in BOOLEAN /\ first_cycle' \in BOOLEAN
    BY <1>10, Zenon DEF RunNextProcess
  <2> QED
    BY <1>10, <2>3, <2>4, <2>5, EndCycleTime DEF RunNextProcess, EndCycle, TypeOK
<1>11. CASE NothingToRun
  <2>1. no_process_running' \in BOOLEAN /\ first_cycle' \in BOOLEAN
    BY <1>11, Zenon DEF NothingToRun
  <2> QED
    BY <1>11, <2>1, EndCycleTime DEF NothingToRun, EndCycle, TypeOK
<1>12. CASE UpdateTime
  <2>1. service_time_left' \in [Procs -> Nat]
    <3>1. CASE current_process = NULL
      BY <1>12, <3>1 DEF UpdateTime, TypeOK
    <3>2. CASE current_process # NULL
      <4>1. /\ current_process \in Procs /\ service_time_left[current_process] \in Nat
            /\ service_time_left[current_process] > args.quantum
        BY <1>12, <3>2 DEF UpdateTime, TypeOK
      <4>2. service_time_left[current_process] - args.quantum \in Nat
        BY <4>1, Inputs
      <4> QED
        BY <1>12, <3>2, <4>1, <4>2 DEF UpdateTime, TypeOK
    <3> QED
      BY <3>1, <3>2
  <2> QED
    BY <1>12, <2>1 DEF UpdateTime, TypeOK
<1>13. CASE FinishProcess
  <2> DEFINE p == current_process
  <2>1. p \in Procs
    BY <1>13 DEF FinishProcess, TypeOK
  <2>2. Children!TypeOK'
    BY <1>13, <2>1, ChildSet DEF FinishProcess
  <2>3. Memory!TypeOK'
    BY <1>13 DEF FinishProcess, Release, TypeOK, Memory!TypeOK, Memory!Deallocate
  <2>4. (sim_time - workload.arrival[p]) % TIME_MODULUS \in 0 .. TIME_MODULUS - 1
    <3>1. sim_time - workload.arrival[p] \in Int
      <4>1. sim_time \in Int
        BY DEF TypeOK
      <4>2. workload.arrival[p] \in Int
        BY <2>1, Inputs
      <4> QED
        BY <4>1, <4>2
    <3> QED
      BY <3>1, Modulo
  <2>5. /\ service_time_left' \in [Procs -> Nat]
        /\ state' \in [Procs -> {"IDLE", "READY", "RUNNING", "FINISHED"}]
        /\ finished_queue' \in Seq(Procs)
        /\ turnaround_time' \in [Procs -> 0 .. TIME_MODULUS - 1]
        /\ current_process' \in Procs \cup {NULL}
    BY <1>13, <2>1, <2>4 DEF FinishProcess, TypeOK
  <2>6. no_process_running' \in BOOLEAN
    BY <1>13, Zenon DEF FinishProcess
  <2>7. pc' \in {"done", "update_input"}
    BY <1>13 DEF FinishProcess
  <2> QED
    BY <1>13, <2>2, <2>3, <2>5, <2>6, <2>7 DEF FinishProcess, TypeOK
<1>14. CASE UNCHANGED vars
  BY <1>14 DEF vars, TypeOK, Memory!TypeOK, Children!TypeOK
<1> QED
  BY <1>1, <1>2, <1>3, <1>4, <1>5, <1>6, <1>7, <1>8, <1>9, <1>10, <1>11, <1>12, <1>13,
     <1>14 DEF Next, Terminated
-----------------------------------------------------------------------------
(***************************************************************************)
(* The queues and the real processes.  PlacesInv is what one step needs of *)
(* IInv to hand a process from one queue to another.                       *)
(***************************************************************************)
PlacesInv ==
  /\ QueuesDistinct
  /\ ExactlyOnePlace
  /\ Control
  /\ ChildrenFollowQueues
  /\ WorkLeft

LEMMA InitPlaces == Init => PlacesInv
<1> SUFFICES ASSUME Init
             PROVE  PlacesInv
  OBVIOUS
<1>1. /\ TypeOK
      /\ processes = workload.order
      /\ input_queue = <<>> /\ ready_queue = <<>> /\ finished_queue = <<>>
      /\ \A p \in Procs : child[p] = "none"
      /\ service_time_left = workload.service
  BY InitTypeOK DEF Init, Children!Init
<1>2. /\ \A p \in Procs : Contains(processes, p)
      /\ \A p : ~Contains(<<>>, p)
      /\ IsInjective(processes)
  BY <1>1, Inputs, ContainsElements
<1>3. \A p \in Procs : ~HasCpu(p)
  BY ProcsAssumption DEF Init, HasCpu
<1>4. QueuesDistinct
  BY <1>1, <1>2 DEF QueuesDistinct, IsInjective
<1>5. ExactlyOnePlace
  BY <1>1, <1>2, <1>3 DEF ExactlyOnePlace
<1>6. Control
  BY <1>1 DEF Init, Control
<1>7. ChildrenFollowQueues
  BY <1>1, <1>2, <1>3 DEF ChildrenFollowQueues
<1>8. WorkLeft
  BY <1>1, <1>2, Inputs DEF WorkLeft
<1> QED
  BY <1>4, <1>5, <1>6, <1>7, <1>8 DEF PlacesInv

(* Steps that move nobody. *)
LEMMA SamePlaces ==
  ASSUME IInv, UNCHANGED queues, \A p \in Procs : HasCpu(p)' <=> HasCpu(p)
  PROVE  QueuesDistinct' /\ ExactlyOnePlace'
  BY DEF IInv, queues, QueuesDistinct, ExactlyOnePlace

LEMMA SameChildren ==
  ASSUME IInv, UNCHANGED <<input, queues, child>>,
         \A p \in Procs : HasCpu(p)' <=> HasCpu(p),
         UNCHANGED service_time_left
  PROVE  ChildrenFollowQueues' /\ WorkLeft'
  BY DEF IInv, input, queues, ChildrenFollowQueues, WorkLeft, RR

LEMMA EndUpdateInputPlaces ==
  ASSUME IInv, EndUpdateInput
  PROVE  PlacesInv'
<1> USE DEF cpu, clock, queues, fields, input
<1>1. \A p \in Procs : HasCpu(p)' <=> HasCpu(p)
  BY DEF EndUpdateInput, HasCpu
<1>2. Control'
  BY DEF EndUpdateInput, IInv, Control
<1> QED
  BY <1>1, <1>2, SamePlaces, SameChildren DEF EndUpdateInput, PlacesInv

LEMMA EndAllocateMemoryPlaces ==
  ASSUME IInv, EndAllocateMemory
  PROVE  PlacesInv'
<1> USE DEF cpu, clock, queues, fields, input
<1>1. \A p \in Procs : HasCpu(p)' <=> HasCpu(p)
  BY DEF EndAllocateMemory, HasCpu
<1>2. first_cycle => \A p \in Procs : ~HasCpu(p)
  BY ProcsAssumption DEF IInv, Control, HasCpu
<1>3. Control'
  BY <1>1, <1>2 DEF EndAllocateMemory, IInv, Control
<1> QED
  BY <1>1, <1>3, SamePlaces, SameChildren DEF EndAllocateMemory, PlacesInv

LEMMA CrashPlaces ==
  ASSUME IInv, Crash
  PROVE  PlacesInv'
<1> USE DEF cpu, clock, queues, fields, input
<1>1. \A p \in Procs : HasCpu(p)' <=> HasCpu(p)
  BY DEF Crash, HasCpu
<1>2. Control'
  BY <1>1 DEF Crash, IInv, Control
<1> QED
  BY <1>1, <1>2, SamePlaces, SameChildren DEF Crash, PlacesInv

LEMMA SelectPlaces ==
  ASSUME IInv, Select
  PROVE  PlacesInv'
<1> USE DEF cpu, clock, queues, fields, input
<1>1. \A p \in Procs : (HasCpu(p)' <=> HasCpu(p)) /\ ~HasCpu(p)
  BY DEF Select, HasCpu
<1>2. Control'
  BY <1>1 DEF Select, IInv, Control
<1> QED
  BY <1>1, <1>2, SamePlaces, SameChildren DEF Select, PlacesInv

LEMMA IdlePlaces ==
  ASSUME IInv, Idle
  PROVE  PlacesInv'
<1> USE DEF cpu, clock, queues, fields, input
<1>1. \A p \in Procs : HasCpu(p)' <=> HasCpu(p)
  BY DEF Idle, HasCpu
<1>2. Control'
  BY <1>1 DEF Idle, EndCycle, IInv, Control
<1> QED
  BY <1>1, <1>2, SamePlaces, SameChildren DEF Idle, PlacesInv

LEMMA NothingToRunPlaces ==
  ASSUME IInv, NothingToRun
  PROVE  PlacesInv'
<1> USE DEF cpu, clock, queues, fields, input
<1>1. first_cycle /\ \A p \in Procs : ~HasCpu(p) /\ child[p] = "none"
  BY DEF NothingToRun, IInv, Control
<1>2. \A p \in Procs : HasCpu(p)' <=> HasCpu(p)
  BY <1>1, ProcsAssumption DEF NothingToRun, HasCpu
<1>3. Control'
  BY <1>1 DEF NothingToRun, EndCycle, IInv, Control
<1> QED
  BY <1>2, <1>3, SamePlaces, SameChildren DEF NothingToRun, PlacesInv

(* The process that has the CPU while the scheduler chooses. *)
LEMMA CurrentHasCpu ==
  ASSUME IInv, pc \in {"schedule", "update_time"}, ~no_process_running,
         current_process # NULL
  PROVE  /\ current_process \in Procs
         /\ HasCpu(current_process)
         /\ \A q \in Procs : HasCpu(q) => q = current_process
         /\ child[current_process] = "running"
<1>1. current_process \in Procs
  BY DEF IInv, TypeOK
<1>2. HasCpu(current_process) /\ \A q \in Procs : HasCpu(q) => q = current_process
  BY DEF IInv, Control, HasCpu
<1> QED
  BY <1>1, <1>2 DEF IInv, ChildrenFollowQueues

LEMMA ContinuePlaces ==
  ASSUME IInv, Continue
  PROVE  PlacesInv'
<1> USE DEF cpu, clock, queues, fields, input
<1>1. current_process \in Procs /\ child[current_process] = "running"
  BY CurrentHasCpu DEF Continue
<1>2. child' = child
  BY <1>1 DEF Continue, Children!Continue, IInv, TypeOK, Children!TypeOK
<1>3. \A p \in Procs : HasCpu(p)' <=> HasCpu(p)
  BY DEF Continue, HasCpu
<1>4. Control'
  BY <1>2, <1>3 DEF Continue, EndCycle, IInv, Control
<1> QED
  BY <1>2, <1>3, <1>4, SamePlaces, SameChildren DEF Continue, PlacesInv

LEMMA UpdateTimePlaces ==
  ASSUME IInv, UpdateTime
  PROVE  PlacesInv'
<1> USE DEF cpu, clock, queues, fields, input
<1>1. \A p \in Procs : HasCpu(p)' <=> HasCpu(p)
  BY DEF UpdateTime, HasCpu
<1>2. QueuesDistinct' /\ ExactlyOnePlace'
  BY <1>1, SamePlaces DEF UpdateTime
<1>3. Control'
  BY <1>1 DEF UpdateTime, IInv, Control
<1>4. CASE current_process = NULL
  <2>1. UNCHANGED service_time_left
    BY <1>4 DEF UpdateTime
  <2> QED
    BY <1>1, <1>2, <1>3, <2>1, SameChildren DEF UpdateTime, PlacesInv
<1>5. CASE current_process # NULL
  <2>1. /\ current_process \in Procs
        /\ child[current_process] = "running"
    BY <1>5, CurrentHasCpu DEF UpdateTime, IInv, Control
  <2>2. /\ \A p \in Procs \ {current_process} : service_time_left'[p] = service_time_left[p]
        /\ service_time_left'[current_process] > 0
    <3>1. /\ service_time_left[current_process] \in Nat
          /\ service_time_left[current_process] > args.quantum
          /\ service_time_left \in [Procs -> Nat]
          /\ service_time_left' =
               [service_time_left EXCEPT ![current_process] = @ - args.quantum]
      BY <1>5, <2>1 DEF UpdateTime, IInv, TypeOK
    <3>2. args.quantum \in 1 .. 3
      BY Inputs DEF IInv
    <3> QED
      BY <2>1, <3>1, <3>2
  <2>3. ChildrenFollowQueues'
    BY <1>1, <2>1, <2>2 DEF UpdateTime, IInv, ChildrenFollowQueues, RR
  <2>4. WorkLeft'
    BY <2>1, <2>2 DEF UpdateTime, IInv, WorkLeft
  <2> QED
    BY <1>2, <1>3, <2>3, <2>4 DEF PlacesInv
<1> QED
  BY <1>4, <1>5

(* Steps that move one process. *)
LEMMA ArrivePlaces ==
  ASSUME IInv, Arrive
  PROVE  PlacesInv'
<1> USE DEF cpu, clock, queues, fields, input
<1> DEFINE h == Head(processes)
<1>1. /\ processes \in Seq(Procs) /\ processes # <<>> /\ input_queue \in Seq(Procs)
      /\ h \in Procs /\ Contains(processes, h)
      /\ processes' = Tail(processes) /\ input_queue' = Append(input_queue, h)
  BY ContainsElements DEF Arrive, HeadHasArrived, IInv, TypeOK
<1>2. ~Contains(input_queue, h)
  BY <1>1 DEF IInv, ExactlyOnePlace
<1>3. IsInjective(processes) /\ IsInjective(input_queue)
  BY DEF IInv, QueuesDistinct
<1>4. /\ IsInjective(processes')
      /\ \A x : Contains(processes', x) <=> (Contains(processes, x) /\ x # h)
  BY <1>1, <1>3, TailElements
<1>5. /\ IsInjective(input_queue')
      /\ \A x : Contains(input_queue', x) <=> (Contains(input_queue, x) \/ x = h)
  BY <1>1, <1>2, <1>3, AppendElements
<1> HIDE DEF h
<1>6. \A q \in Procs : HasCpu(q)' <=> HasCpu(q)
  BY DEF Arrive, HasCpu
<1>7. QueuesDistinct'
  BY <1>4, <1>5 DEF Arrive, IInv, QueuesDistinct
<1>8. ExactlyOnePlace'
  BY <1>1, <1>4, <1>5, <1>6 DEF Arrive, IInv, ExactlyOnePlace
<1>9. Control'
  BY <1>6 DEF Arrive, IInv, Control
<1>10. ChildrenFollowQueues'
  BY <1>6 DEF Arrive, IInv, ChildrenFollowQueues, RR
<1>11. WorkLeft'
  BY <1>1, <1>4, <1>5 DEF Arrive, IInv, WorkLeft
<1> QED
  BY <1>7, <1>8, <1>9, <1>10, <1>11 DEF PlacesInv

LEMMA AllocateMemoryPlaces ==
  ASSUME IInv, AllocateMemory
  PROVE  PlacesInv'
<1> USE DEF cpu, clock, queues, fields, input
<1> DEFINE p == input_queue[curr]
<1>1. CASE Skip(p)
  <2>1. UNCHANGED <<input, queues, child, cpu, service_time_left, first_cycle, pc>>
    BY <1>1 DEF AllocateMemory, Skip
  <2>2. \A q \in Procs : HasCpu(q)' <=> HasCpu(q)
    BY <2>1 DEF HasCpu
  <2>3. Control'
    BY <2>1, <2>2 DEF IInv, Control
  <2> QED
    BY <2>1, <2>2, <2>3, SamePlaces, SameChildren DEF PlacesInv
<1>2. CASE ProcessReady(p)
  <2>1. /\ input_queue \in Seq(Procs) /\ ready_queue \in Seq(Procs)
        /\ curr \in DOMAIN input_queue
        /\ p \in Procs /\ Contains(input_queue, p)
        /\ input_queue' = RemoveAt(input_queue, curr)
        /\ ready_queue' = Append(ready_queue, p)
        /\ UNCHANGED <<input, pc, first_cycle, processes, finished_queue, cpu,
                       service_time_left, child>>
    BY <1>2, ContainsElements DEF AllocateMemory, ProcessReady, IInv, TypeOK
  <2>2. ~Contains(ready_queue, p) /\ ~HasCpu(p) /\ pc = "allocate_memory"
    BY <2>1 DEF IInv, ExactlyOnePlace, AllocateMemory
  <2>3. IsInjective(ready_queue) /\ IsInjective(input_queue)
    BY DEF IInv, QueuesDistinct
  <2>4. /\ IsInjective(input_queue')
        /\ \A x : Contains(input_queue', x) <=> (Contains(input_queue, x) /\ x # p)
    BY <2>1, <2>3, RemoveAtElements
  <2>5. /\ IsInjective(ready_queue')
        /\ \A x : Contains(ready_queue', x) <=> (Contains(ready_queue, x) \/ x = p)
    BY <2>1, <2>2, <2>3, AppendElements
  <2> HIDE DEF p
  <2>6. \A q \in Procs : HasCpu(q)' <=> HasCpu(q)
    BY <2>1, <2>2, <2>5 DEF HasCpu
  <2>7. QueuesDistinct'
    BY <2>1, <2>4, <2>5 DEF IInv, QueuesDistinct
  <2>8. ExactlyOnePlace'
    BY <2>1, <2>4, <2>5, <2>6 DEF IInv, ExactlyOnePlace
  <2>9. Control'
    <3>1. current_process # NULL /\ ~no_process_running => ~Contains(ready_queue', current_process)
      <4> SUFFICES ASSUME current_process # NULL, ~no_process_running
                   PROVE  ~Contains(ready_queue', current_process)
        OBVIOUS
      <4>1. HasCpu(current_process)
        BY <2>2 DEF IInv, Control, HasCpu
      <4> QED
        BY <2>2, <2>5, <4>1 DEF HasCpu
    <3> QED
      BY <2>1, <2>2, <2>6, <3>1 DEF IInv, Control
  <2>10. child[p] = "none"
    BY <2>1 DEF IInv, WorkLeft
  <2>11. ChildrenFollowQueues'
    BY <2>1, <2>5, <2>6 DEF IInv, ChildrenFollowQueues, RR
  <2>12. WorkLeft'
    BY <2>1, <2>4 DEF IInv, WorkLeft
  <2> QED
    BY <2>7, <2>8, <2>9, <2>11, <2>12 DEF PlacesInv
<1> QED
  BY <1>1, <1>2 DEF AllocateMemory

LEMMA PreemptPlaces ==
  ASSUME IInv, Preempt
  PROVE  PlacesInv'
<1> USE DEF cpu, clock, queues, fields, input
<1> DEFINE c == current_process
<1>1. /\ c \in Procs /\ HasCpu(c) /\ \A q \in Procs : HasCpu(q) => q = c
  BY CurrentHasCpu DEF Preempt
<1>2. ready_queue \in Seq(Procs) /\ ready_queue' = Append(ready_queue, c)
  BY DEF Preempt, IInv, TypeOK
<1>3. ~Contains(ready_queue, c) /\ IsInjective(ready_queue)
  BY <1>1 DEF HasCpu, IInv, QueuesDistinct
<1>4. /\ IsInjective(ready_queue')
      /\ \A x : Contains(ready_queue', x) <=> (Contains(ready_queue, x) \/ x = c)
  BY <1>1, <1>2, <1>3, AppendElements
<1>5. child'[c] = "stopped" /\ \A q \in Procs \ {c} : child'[q] = child[q]
  BY <1>1, ChildSet DEF Preempt, IInv
<1>6. ready_queue' # <<>>
  BY <1>1, <1>2, AppendProperties
<1>7. \A q \in Procs : ~HasCpu(q)'
  BY <1>4 DEF Preempt, HasCpu
<1>8. service_time_left[c] > 0
  BY <1>1 DEF IInv, WorkLeft, ExactlyOnePlace
<1>9. QueuesDistinct'
  BY <1>4 DEF Preempt, IInv, QueuesDistinct
<1>10. ExactlyOnePlace'
  BY <1>1, <1>4, <1>7 DEF Preempt, IInv, ExactlyOnePlace
<1>11. Control'
  <2>1. c # NULL /\ ~first_cycle
    BY DEF Preempt, IInv, Control
  <2> QED
    BY <1>6, <1>7, <2>1 DEF Preempt, Control
<1>12. ChildrenFollowQueues'
  BY <1>1, <1>4, <1>5, <1>7, <1>8 DEF Preempt, IInv, ChildrenFollowQueues, RR, ExactlyOnePlace
<1>13. WorkLeft'
  BY <1>1, <1>5 DEF Preempt, IInv, WorkLeft, ExactlyOnePlace
<1> QED
  BY <1>9, <1>10, <1>11, <1>12, <1>13 DEF PlacesInv

LEMMA RunNextProcessPlaces ==
  ASSUME IInv, RunNextProcess
  PROVE  PlacesInv'
<1> USE DEF cpu, clock, queues, fields, input
<1>1. PICK i \in DOMAIN ready_queue :
        /\ ready_queue' = RemoveAt(ready_queue, i)
        /\ current_process' = ready_queue[i]
        /\ IF child[ready_queue[i]] = "none" THEN Children!Start(ready_queue[i])
                                            ELSE Children!Continue(ready_queue[i])
  BY DEF RunNextProcess
<1> DEFINE p == ready_queue[i]
<1>2. /\ ready_queue \in Seq(Procs) /\ p \in Procs /\ Contains(ready_queue, p)
      /\ IsInjective(ready_queue)
  BY ContainsElements DEF IInv, TypeOK, QueuesDistinct
<1>3. /\ IsInjective(ready_queue')
      /\ \A x : Contains(ready_queue', x) <=> (Contains(ready_queue, x) /\ x # p)
  BY <1>1, <1>2, RemoveAtElements
<1>4. child'[p] = "running" /\ \A q \in Procs \ {p} : child'[q] = child[q]
  BY <1>1, <1>2, ChildSet DEF IInv
<1>5. current_process' = p
  BY <1>1
<1> HIDE DEF p
<1>6. ~no_process_running' /\ ~first_cycle' /\ pc' = "update_time"
  BY DEF RunNextProcess, EndCycle
<1>7. \A q \in Procs : ~HasCpu(q) /\ (HasCpu(q)' <=> q = p)
  BY <1>3, <1>5, <1>6 DEF RunNextProcess, IInv, Control, HasCpu
<1>8. QueuesDistinct'
  BY <1>3 DEF RunNextProcess, IInv, QueuesDistinct
<1>9. ExactlyOnePlace'
  BY <1>2, <1>3, <1>7 DEF RunNextProcess, IInv, ExactlyOnePlace
<1>10. Control'
  BY <1>2, <1>3, <1>5, <1>6, ProcsAssumption DEF Control
<1>11. ChildrenFollowQueues'
  BY <1>2, <1>3, <1>4, <1>7 DEF RunNextProcess, IInv, ChildrenFollowQueues, RR, ExactlyOnePlace
<1>12. WorkLeft'
  BY <1>2, <1>4 DEF RunNextProcess, IInv, WorkLeft, ExactlyOnePlace
<1> QED
  BY <1>8, <1>9, <1>10, <1>11, <1>12 DEF PlacesInv

LEMMA FinishProcessPlaces ==
  ASSUME IInv, FinishProcess
  PROVE  PlacesInv'
<1> USE DEF cpu, clock, queues, fields, input
<1> DEFINE p == current_process
<1>1. /\ p \in Procs /\ HasCpu(p) /\ \A q \in Procs : HasCpu(q) => q = p
  BY CurrentHasCpu DEF FinishProcess, IInv, Control
<1>2. finished_queue \in Seq(Procs) /\ finished_queue' = Append(finished_queue, p)
  BY DEF FinishProcess, IInv, TypeOK
<1>3. ~Contains(finished_queue, p) /\ IsInjective(finished_queue)
  BY <1>1 DEF IInv, ExactlyOnePlace, QueuesDistinct
<1>4. /\ IsInjective(finished_queue')
      /\ \A x : Contains(finished_queue', x) <=> (Contains(finished_queue, x) \/ x = p)
  BY <1>1, <1>2, <1>3, AppendElements
<1>5. child'[p] = "terminated" /\ \A q \in Procs \ {p} : child'[q] = child[q]
  BY <1>1, ChildSet DEF FinishProcess, IInv
<1>6. no_process_running'
  BY DEF FinishProcess
<1>7. \A q \in Procs : ~HasCpu(q)'
  BY <1>6 DEF HasCpu
<1>8. \A q \in Procs \ {p} : service_time_left'[q] = service_time_left[q]
  BY <1>1 DEF FinishProcess, IInv, TypeOK
<1>9. QueuesDistinct'
  BY <1>4 DEF FinishProcess, IInv, QueuesDistinct
<1>10. ExactlyOnePlace'
  <2>1. UNCHANGED <<processes, input_queue, ready_queue>>
    BY DEF FinishProcess
  <2> HIDE DEF p
  <2>2. ~Contains(ready_queue, p)
    BY <1>1 DEF HasCpu
  <2> QED
    BY <1>1, <1>4, <1>7, <2>1, <2>2 DEF IInv, ExactlyOnePlace
<1>11. Control'
  <2>1. ~first_cycle
    BY DEF FinishProcess, IInv, Control
  <2>2. pc' \in {"done", "update_input"}
    BY DEF FinishProcess
  <2> QED
    BY <1>6, <2>1, <2>2 DEF FinishProcess, Control
<1>12. ChildrenFollowQueues'
  BY <1>1, <1>4, <1>5, <1>7, <1>8 DEF FinishProcess, IInv, ChildrenFollowQueues, RR
<1>13. WorkLeft'
  BY <1>1, <1>4, <1>5, <1>8 DEF FinishProcess, IInv, WorkLeft, ExactlyOnePlace
<1> QED
  BY <1>9, <1>10, <1>11, <1>12, <1>13 DEF PlacesInv

LEMMA NextPlaces ==
  ASSUME IInv, [Next]_vars
  PROVE  PlacesInv'
<1>1. CASE UNCHANGED vars
  <2>1. UNCHANGED <<input, queues, child, cpu, service_time_left, first_cycle, pc>>
    BY <1>1 DEF vars, clock, fields, input, queues, cpu
  <2>2. \A q \in Procs : HasCpu(q)' <=> HasCpu(q)
    BY <2>1 DEF HasCpu, cpu, queues
  <2>3. Control'
    BY <2>1, <2>2 DEF IInv, Control, cpu, queues
  <2> QED
    BY <2>1, <2>2, <2>3, SamePlaces, SameChildren DEF PlacesInv
<1> QED
  BY <1>1, ArrivePlaces, EndUpdateInputPlaces, AllocateMemoryPlaces, EndAllocateMemoryPlaces,
     ContinuePlaces, PreemptPlaces, CrashPlaces, IdlePlaces, SelectPlaces,
     RunNextProcessPlaces, NothingToRunPlaces, UpdateTimePlaces, FinishProcessPlaces
     DEF Next, Terminated
-----------------------------------------------------------------------------
(***************************************************************************)
(* The memory, as AddressSpace has it.                                     *)
(***************************************************************************)
LEMMA DeallocateCells ==
  ASSUME TypeOK, NEW p \in Procs, Memory!Deallocate(p)
  PROVE  /\ Memory!CellsOf(p)' = {}
         /\ \A q \in Procs \ {p} : Memory!CellsOf(q)' = Memory!CellsOf(q)
  BY ProcsAssumption DEF Memory!Deallocate, Memory!CellsOf

LEMMA EmptyMemoryHasRoom ==
  ASSUME TypeOK, \A p \in Procs : Memory!CellsOf(p) = {},
         NEW req \in Nat \ {0}, req <= MEM_CAPACITY
  PROVE  Memory!HasRoom(req)
<1>1. \A a \in Memory!Addresses : owner[a] = NULL
  BY DEF TypeOK, Memory!TypeOK, Memory!CellsOf
<1>2. MEM_CAPACITY \in Nat \ {0}
  BY CapacityAssumption
<1>3. Memory!IsGap(0, MEM_CAPACITY)
  BY <1>1, <1>2 DEF Memory!IsGap, Memory!Addresses
<1>4. <<0, MEM_CAPACITY>> \in Memory!Fitting(req)
  BY <1>2, <1>3 DEF Memory!Fitting, Memory!Addresses
<1> QED
  BY <1>4 DEF Memory!HasRoom

(* A process is given one piece of the size it requires and nobody loses   *)
(* anything; what does not fit before does not fit afterwards.             *)
LEMMA AllocateCells ==
  ASSUME TypeOK, NEW p \in Procs, NEW req \in Nat \ {0}, Memory!Allocate(p, req)
  PROVE  /\ \E base \in 0 .. MEM_CAPACITY - 1 : Memory!CellsOf(p)' = base .. base + req - 1
         /\ \A q \in Procs \ {p} : Memory!CellsOf(q)' = Memory!CellsOf(q)
         /\ \A r \in Nat \ {0} : Memory!HasRoom(r)' => Memory!HasRoom(r)
<1>1. MEM_CAPACITY \in Nat \ {0} /\ p # NULL
  BY CapacityAssumption, ProcsAssumption
<1>2. PICK g \in Memory!Fitting(req) :
        owner' = [a \in Memory!Addresses |->
                    IF a \in g[1] .. g[1] + req - 1 THEN p ELSE owner[a]]
  BY DEF Memory!Allocate
<1> DEFINE first == g[1]
           len == g[2]
<1>3. /\ first \in 0 .. MEM_CAPACITY - 1 /\ len \in 1 .. MEM_CAPACITY /\ len >= req
      /\ g = <<first, len>> /\ first + len <= MEM_CAPACITY
      /\ first > 0 => owner[first - 1] # NULL
      /\ first + len < MEM_CAPACITY => owner[first + len] # NULL
      /\ \A a \in first .. first + len - 1 : owner[a] = NULL
      /\ Memory!IsGap(first, len)
  BY <1>1 DEF Memory!Fitting, Memory!IsGap, Memory!Addresses
<1>4. \A a \in 0 .. MEM_CAPACITY - 1 :
        owner'[a] = IF a \in first .. first + req - 1 THEN p ELSE owner[a]
  BY <1>2 DEF Memory!Addresses
<1> HIDE DEF first, len
<1>5. \A a \in first .. first + req - 1 :
        a \in 0 .. MEM_CAPACITY - 1 /\ a \in first .. first + len - 1
  BY <1>1, <1>3
<1>6. Memory!CellsOf(p)' = first .. first + req - 1
  <2>1. \A a \in Memory!Addresses : owner[a] # p
    BY DEF Memory!Allocate, Memory!CellsOf
  <2> QED
    BY <1>4, <1>5, <2>1 DEF Memory!CellsOf, Memory!Addresses
<1>7. ASSUME NEW q \in Procs \ {p}
      PROVE  Memory!CellsOf(q)' = Memory!CellsOf(q)
  BY <1>3, <1>4, <1>5, ProcsAssumption DEF Memory!CellsOf, Memory!Addresses
<1>8. ASSUME NEW r \in Nat \ {0}, Memory!HasRoom(r)'
      PROVE  Memory!HasRoom(r)
  <2>1. PICK h \in Memory!Addresses \X (1 .. MEM_CAPACITY) :
          h[2] >= r /\ Memory!IsGap(h[1], h[2])'
    BY <1>8 DEF Memory!HasRoom, Memory!Fitting
  <2> DEFINE base == h[1]
             long == h[2]
  <2>2. /\ base \in 0 .. MEM_CAPACITY - 1 /\ long \in 1 .. MEM_CAPACITY
        /\ base + long <= MEM_CAPACITY
        /\ base > 0 => owner'[base - 1] # NULL
        /\ base + long < MEM_CAPACITY => owner'[base + long] # NULL
        /\ \A a \in base .. base + long - 1 : owner'[a] = NULL
    BY <1>1, <2>1 DEF Memory!IsGap, Memory!Addresses
  <2> HIDE DEF base, long
  <2>3. \A a \in base .. base + long - 1 : a \in 0 .. MEM_CAPACITY - 1 /\ owner[a] = NULL
    BY <1>1, <1>4, <2>2
  <2>4. CASE \E a \in base .. base + long - 1 : a \in first .. first + len - 1
    <3>1. PICK a \in base .. base + long - 1 : a \in first .. first + len - 1
      BY <2>4
    <3>2. ~(base < first)
      <4> SUFFICES ASSUME base < first
                   PROVE  FALSE
        OBVIOUS
      <4>1. first - 1 \in base .. base + long - 1 /\ first > 0
        BY <1>3, <2>2, <3>1
      <4> QED
        BY <1>3, <2>3, <4>1
    <3>3. ~(base + long > first + len)
      <4> SUFFICES ASSUME base + long > first + len
                   PROVE  FALSE
        OBVIOUS
      <4>1. first + len \in base .. base + long - 1 /\ first + len < MEM_CAPACITY
        BY <1>1, <1>3, <2>2, <3>1
      <4> QED
        BY <1>3, <2>3, <4>1
    <3>4. len >= r
      BY <1>3, <2>1, <2>2, <3>2, <3>3 DEF base, long
    <3> QED
      BY <1>3, <3>4 DEF Memory!HasRoom, Memory!Fitting, Memory!Addresses
  <2>5. CASE ~\E a \in base .. base + long - 1 : a \in first .. first + len - 1
    <3>1. base > 0 => owner[base - 1] # NULL
      <4> SUFFICES ASSUME base > 0, owner[base - 1] = NULL
                   PROVE  FALSE
        OBVIOUS
      <4>1. base - 1 \in 0 .. MEM_CAPACITY - 1 /\ base - 1 \in first .. first + req - 1
        BY <1>1, <1>4, <2>2
      <4>2. base = first + len
        BY <1>3, <2>2, <2>5, <4>1
      <4>3. first + len < MEM_CAPACITY /\ base \in base .. base + long - 1
        BY <1>1, <1>3, <2>2, <4>2
      <4> QED
        BY <1>3, <2>3, <4>2, <4>3
    <3>2. base + long < MEM_CAPACITY => owner[base + long] # NULL
      <4> SUFFICES ASSUME base + long < MEM_CAPACITY, owner[base + long] = NULL
                   PROVE  FALSE
        OBVIOUS
      <4>1. /\ base + long \in 0 .. MEM_CAPACITY - 1
            /\ base + long \in first .. first + req - 1
        BY <1>1, <1>4, <2>2
      <4>2. base + long = first
        <5>1. base + long - 1 \in base .. base + long - 1
          BY <2>2
        <5> QED
          BY <1>3, <2>2, <2>5, <4>1, <5>1
      <4>3. first > 0 /\ first - 1 \in base .. base + long - 1
        BY <1>3, <2>2, <4>2
      <4> QED
        BY <1>3, <2>3, <4>3
    <3>3. Memory!IsGap(base, long)
      BY <2>2, <2>3, <3>1, <3>2 DEF Memory!IsGap
    <3> QED
      BY <2>1, <3>3 DEF Memory!HasRoom, Memory!Fitting, Memory!Addresses, base, long
  <2> QED
    BY <2>4, <2>5
<1> QED
  BY <1>3, <1>6, <1>7, <1>8

MemoryInv == MemoryFollowsQueues /\ WaitersDoNotFit

LEMMA InitMemory == Init => MemoryInv
<1> SUFFICES ASSUME Init
             PROVE  MemoryInv
  OBVIOUS
<1>1. \A p \in Procs : Memory!CellsOf(p) = {}
  BY ProcsAssumption DEF Init, Memory!Init, Memory!CellsOf
<1>2. \A p \in Procs : ~HasCpu(p) /\ ~Contains(ready_queue, p)
  BY ProcsAssumption, InitPlaces DEF Init, PlacesInv, ExactlyOnePlace, HasCpu
<1>3. WaitersDoNotFit
  BY DEF Init, WaitersDoNotFit
<1> QED
  BY <1>1, <1>2, <1>3 DEF MemoryInv, MemoryFollowsQueues

(* Steps by which nobody gets or loses memory. *)
LEMMA SameMemory ==
  ASSUME IInv, PlacesInv', UNCHANGED <<input, owner, finished_queue>>,
         \A p \in Procs : (Contains(processes', p) \/ Contains(input_queue', p))
                       <=> (Contains(processes, p) \/ Contains(input_queue, p))
  PROVE  MemoryFollowsQueues'
<1>1. ASSUME NEW p \in Procs
      PROVE  (HasCpu(p) \/ Contains(ready_queue, p))' <=> (HasCpu(p) \/ Contains(ready_queue, p))
  BY DEF IInv, PlacesInv, ExactlyOnePlace
<1>2. \A p \in Procs : Memory!CellsOf(p)' = Memory!CellsOf(p)
  BY DEF Memory!CellsOf
<1>3. (BestFit' <=> BestFit) /\ workload' = workload
  BY DEF BestFit, input
<1> QED
  BY <1>1, <1>2, <1>3 DEF IInv, MemoryFollowsQueues

LEMMA SameFits ==
  ASSUME UNCHANGED <<input, owner>>, NEW p
  PROVE  Fits(p)' <=> Fits(p)
  BY DEF Fits, BestFit, input, Memory!HasRoom, Memory!Fitting, Memory!IsGap

(* Steps after which nobody is said not to fit who was not before. *)
LEMMA SameWaiters ==
  ASSUME IInv, UNCHANGED <<input, owner, input_queue>>, pc' # "allocate_memory",
         \/ pc' \notin {"schedule", "run_next_process", "update_time"}
         \/ pc' = "update_time" /\ current_process' # NULL
         \/ pc \in {"schedule", "run_next_process"}
  PROVE  WaitersDoNotFit'
<1>1. \A i \in DOMAIN input_queue : Fits(input_queue[i])' <=> Fits(input_queue[i])
  BY SameFits
<1> QED
  BY <1>1 DEF IInv, WaitersDoNotFit

LEMMA AllocateMemoryMemory ==
  ASSUME IInv, PlacesInv', AllocateMemory
  PROVE  MemoryInv'
<1> USE DEF input
<1>0. PICK p \in Procs : p = input_queue[curr]
  BY DEF AllocateMemory, IInv, TypeOK
<1>1. /\ p = input_queue[curr] /\ curr \in 1 .. Len(input_queue) /\ input_queue \in Seq(Procs)
      /\ DOMAIN input_queue = 1 .. Len(input_queue)
      /\ pc = "allocate_memory" /\ pc' = "allocate_memory" /\ UNCHANGED input
      /\ UNCHANGED <<processes, finished_queue>>
      /\ Contains(input_queue, p)
  BY <1>0, ContainsElements DEF AllocateMemory, IInv, TypeOK
<1>2. CASE Skip(p)
  <2>1. /\ ~Fits(p) /\ curr' = curr + 1 /\ UNCHANGED <<input_queue, owner>>
    BY <1>2 DEF Skip
  <2>2. MemoryFollowsQueues'
    BY <1>1, <2>1, SameMemory
  <2>3. ASSUME NEW i \in 1 .. Len(input_queue), i < curr + 1
        PROVE  ~Fits(input_queue[i])
    <3>1. i < curr \/ i = curr
      BY <1>1, <2>3
    <3> QED
      BY <1>1, <2>1, <3>1 DEF IInv, WaitersDoNotFit
  <2>4. \A i \in DOMAIN input_queue : Fits(input_queue[i])' <=> Fits(input_queue[i])
    BY <1>1, <2>1, SameFits
  <2>5. WaitersDoNotFit'
    BY <1>1, <2>1, <2>3, <2>4 DEF WaitersDoNotFit
  <2> QED
    BY <2>2, <2>5 DEF MemoryInv
<1>3. CASE ProcessReady(p)
  <2>1. /\ input_queue' = RemoveAt(input_queue, curr) /\ curr' = curr
        /\ Fits(p)
        /\ IF BestFit THEN Memory!Allocate(p, workload.mem[p]) ELSE UNCHANGED owner
    BY <1>3 DEF ProcessReady
  <2>2. IsInjective(input_queue) /\ workload.mem[p] \in Nat \ {0}
    BY <1>1, Inputs DEF IInv, QueuesDistinct
  <2>3. /\ \A x : Contains(input_queue', x) <=> (Contains(input_queue, x) /\ x # p)
        /\ DOMAIN input_queue' = 1 .. Len(input_queue) - 1
        /\ \A i \in 1 .. Len(input_queue) - 1 : i < curr => input_queue'[i] = input_queue[i]
        /\ \A i \in 1 .. Len(input_queue) - 1 : i \in DOMAIN input_queue
    BY <1>1, <2>1, <2>2, RemoveAtElements, RemoveAtProperties
  <2>4. /\ (HasCpu(p) \/ Contains(ready_queue, p))'
        /\ ~(HasCpu(p) \/ Contains(ready_queue, p))
        /\ \A q \in Procs \ {p} : (HasCpu(q) \/ Contains(ready_queue, q))' <=>
                                 (HasCpu(q) \/ Contains(ready_queue, q))
    <3>1. /\ ~Contains(processes', p) /\ ~Contains(input_queue', p) /\ ~Contains(finished_queue', p)
          /\ ~(HasCpu(p) \/ Contains(ready_queue, p))
      BY <1>1, <2>3 DEF IInv, ExactlyOnePlace
    <3>2. (HasCpu(p) \/ Contains(ready_queue, p))'
      BY <1>1, <3>1 DEF PlacesInv, ExactlyOnePlace
    <3>3. ASSUME NEW q \in Procs \ {p}
          PROVE  (HasCpu(q) \/ Contains(ready_queue, q))' <=> (HasCpu(q) \/ Contains(ready_queue, q))
      BY <1>1, <2>3 DEF IInv, PlacesInv, ExactlyOnePlace
    <3> QED
      BY <3>1, <3>2, <3>3
  <2>5. (BestFit' <=> BestFit) /\ workload' = workload
    BY <1>1 DEF BestFit
  <2>6. CASE BestFit
    <3>1. /\ \E base \in 0 .. MEM_CAPACITY - 1 :
                Memory!CellsOf(p)' = base .. base + workload.mem[p] - 1
          /\ \A q \in Procs \ {p} : Memory!CellsOf(q)' = Memory!CellsOf(q)
          /\ \A r \in Nat \ {0} : Memory!HasRoom(r)' => Memory!HasRoom(r)
      <4>1. TypeOK /\ Memory!Allocate(p, workload.mem[p])
        BY <2>1, <2>6 DEF IInv
      <4> QED
        BY <1>1, <2>2, <4>1, AllocateCells
    <3>2. MemoryFollowsQueues'
      BY <2>4, <2>5, <2>6, <3>1 DEF IInv, MemoryFollowsQueues
    <3>3. \A q \in Procs : ~Fits(q) => ~Fits(q)'
      BY <2>5, <3>1, Inputs DEF Fits, IInv
    <3>4. \A i \in DOMAIN input_queue : input_queue[i] \in Procs
      BY <1>1
    <3>5. WaitersDoNotFit'
      BY <1>1, <2>1, <2>3, <3>3, <3>4 DEF IInv, WaitersDoNotFit
    <3> QED
      BY <3>2, <3>5 DEF MemoryInv
  <2>7. CASE ~BestFit
    <3>1. \A q \in Procs : Memory!CellsOf(q)' = Memory!CellsOf(q)
      BY <2>1, <2>7 DEF Memory!CellsOf
    <3>2. MemoryFollowsQueues'
      BY <2>5, <2>7, <3>1 DEF IInv, MemoryFollowsQueues
    <3>3. \A q \in Procs : Fits(q)
      BY <2>7 DEF Fits
    <3>4. WaitersDoNotFit'
      BY <1>1, <2>1, <2>3, <3>3 DEF IInv, WaitersDoNotFit
    <3> QED
      BY <3>2, <3>4 DEF MemoryInv
  <2> QED
    BY <2>6, <2>7
<1> QED
  BY <1>0, <1>2, <1>3 DEF AllocateMemory

LEMMA FinishProcessMemory ==
  ASSUME IInv, PlacesInv', FinishProcess
  PROVE  MemoryInv'
<1> USE DEF input
<1>0. current_process \in Procs /\ HasCpu(current_process)
  BY CurrentHasCpu DEF FinishProcess, IInv, Control
<1> SUFFICES ASSUME NEW p \in Procs, p = current_process, HasCpu(p)
             PROVE  MemoryInv'
  BY <1>0
<1>1. p = current_process /\ HasCpu(p)
  OBVIOUS
<1>2. /\ \A x : Contains(finished_queue', x) <=> (Contains(finished_queue, x) \/ x = p)
      /\ UNCHANGED <<processes, input_queue>> /\ UNCHANGED input
  BY <1>1, AppendElements DEF FinishProcess, IInv, TypeOK
<1>3. /\ ~(HasCpu(p) \/ Contains(ready_queue, p))'
      /\ \A q \in Procs \ {p} : (HasCpu(q) \/ Contains(ready_queue, q))' <=>
                               (HasCpu(q) \/ Contains(ready_queue, q))
  <2>1. Contains(finished_queue', p)
    BY <1>2
  <2>2. ~(HasCpu(p) \/ Contains(ready_queue, p))'
    BY <1>1, <2>1 DEF PlacesInv, ExactlyOnePlace
  <2>3. ASSUME NEW q \in Procs \ {p}
        PROVE  (HasCpu(q) \/ Contains(ready_queue, q))' <=> (HasCpu(q) \/ Contains(ready_queue, q))
    BY <1>1, <1>2 DEF IInv, PlacesInv, ExactlyOnePlace
  <2> QED
    BY <2>2, <2>3
<1>4. (BestFit' <=> BestFit) /\ workload' = workload
  BY <1>2 DEF BestFit
<1>5. ASSUME BestFit
      PROVE  MemoryFollowsQueues'
  <2>1. /\ Memory!CellsOf(p)' = {}
        /\ \A q \in Procs \ {p} : Memory!CellsOf(q)' = Memory!CellsOf(q)
    <3>1. TypeOK /\ Memory!Deallocate(p)
      BY <1>5 DEF FinishProcess, Release, IInv
    <3> QED
      BY <1>1, <3>1, DeallocateCells
  <2> QED
    BY <1>3, <1>4, <1>5, <2>1 DEF IInv, MemoryFollowsQueues
<1>6. ASSUME ~BestFit
      PROVE  MemoryFollowsQueues'
  <2>1. \A q \in Procs : Memory!CellsOf(q)' = Memory!CellsOf(q)
    BY <1>6 DEF FinishProcess, Release, Memory!CellsOf
  <2> QED
    BY <1>3, <1>4, <1>6, <2>1 DEF IInv, MemoryFollowsQueues
<1>7. WaitersDoNotFit'
  BY DEF FinishProcess, WaitersDoNotFit
<1> QED
  BY <1>5, <1>6, <1>7 DEF MemoryInv

LEMMA NextMemory ==
  ASSUME IInv, [Next]_vars
  PROVE  MemoryInv'
<1> USE DEF input, queues, cpu, clock, fields
<1>1. PlacesInv'
  BY NextPlaces
<1>2. CASE Arrive
  <2>1. /\ input_queue' = Append(input_queue, Head(processes)) /\ Head(processes) \in Procs
        /\ \A x : Contains(processes, x) <=> (x = Head(processes) \/ Contains(processes', x))
        /\ input_queue \in Seq(Procs)
    BY <1>2, TailElements, ContainsElements
       DEF Arrive, HeadHasArrived, IInv, TypeOK, QueuesDistinct
  <2>2. \A x : Contains(input_queue', x) <=> (Contains(input_queue, x) \/ x = Head(processes))
    BY <2>1, AppendElements
  <2>3. MemoryFollowsQueues'
    BY <1>1, <1>2, <2>1, <2>2, SameMemory DEF Arrive
  <2> QED
    BY <1>2, <2>3 DEF Arrive, WaitersDoNotFit, MemoryInv
<1>3. CASE EndUpdateInput
  <2>1. MemoryFollowsQueues'
    BY <1>1, <1>3, SameMemory DEF EndUpdateInput
  <2>2. \A i \in DOMAIN input_queue' : ~(i < curr')
    BY <1>3 DEF EndUpdateInput, IInv, TypeOK
  <2> QED
    BY <1>3, <2>1, <2>2 DEF EndUpdateInput, WaitersDoNotFit, MemoryInv
<1>4. CASE AllocateMemory
  BY <1>1, <1>4, AllocateMemoryMemory
<1>5. CASE EndAllocateMemory
  <2>1. MemoryFollowsQueues'
    BY <1>1, <1>5, SameMemory DEF EndAllocateMemory
  <2>2. \A i \in DOMAIN input_queue : i < curr
    BY <1>5 DEF EndAllocateMemory, IInv, TypeOK
  <2>3. \A i \in DOMAIN input_queue : ~Fits(input_queue[i])'
    BY <1>5, <2>2, SameFits DEF EndAllocateMemory, IInv, WaitersDoNotFit
  <2> QED
    BY <1>5, <2>1, <2>3 DEF EndAllocateMemory, WaitersDoNotFit, MemoryInv
<1>6. CASE \/ Continue \/ Preempt \/ Crash \/ Idle \/ Select
           \/ RunNextProcess \/ NothingToRun
  <2>1. /\ UNCHANGED <<input, owner, processes, input_queue, finished_queue>>
        /\ pc \in {"schedule", "run_next_process"} /\ pc' # "allocate_memory"
    BY <1>6 DEF Continue, Preempt, Crash, Idle, Select, RunNextProcess, NothingToRun, EndCycle
  <2> QED
    BY <1>1, <2>1, SameMemory, SameWaiters DEF MemoryInv
<1>7. CASE UpdateTime
  BY <1>1, <1>7, SameMemory, SameWaiters DEF UpdateTime, MemoryInv
<1>8. CASE FinishProcess
  BY <1>1, <1>8, FinishProcessMemory
<1>9. CASE UNCHANGED vars
  <2>1. MemoryFollowsQueues'
    BY <1>1, <1>9, SameMemory DEF vars
  <2>2. WaitersDoNotFit'
    BY <1>9, SameFits DEF vars, IInv, WaitersDoNotFit
  <2> QED
    BY <2>1, <2>2 DEF MemoryInv
<1> QED
  BY <1>2, <1>3, <1>4, <1>5, <1>6, <1>7, <1>8, <1>9 DEF Next, Terminated
-----------------------------------------------------------------------------
(***************************************************************************)
(* The lines of the file.                                                  *)
(***************************************************************************)
LinesInv == LinesLeft /\ NotDueBefore

LEMMA InitLines == Init => LinesInv
<1> SUFFICES ASSUME Init
             PROVE  LinesInv
  OBVIOUS
<1>1. /\ processes = workload.order /\ processes \in Seq(Procs) /\ args.quantum \in 1 .. 3
      /\ sim_time = 0 /\ pc = "update_input"
      /\ \A p \in Procs : workload.arrival[p] \in Nat
  BY InitTypeOK, Inputs DEF Init, TypeOK
<1>2. LinesLeft
  BY <1>1 DEF LinesLeft, Line
<1>3. ASSUME processes # <<>>
      PROVE  \E j \in 1 .. Line(1) :
               workload.arrival[workload.order[j]] > sim_time - args.quantum
  <2>1. Line(1) = 1 /\ workload.order[1] \in Procs
    BY <1>1, <1>3 DEF Line
  <2>2. workload.arrival[workload.order[1]] > 0 - args.quantum
    BY <1>1, <2>1
  <2> QED
    BY <1>1, <2>1, <2>2
<1>4. NotDueBefore
  BY <1>1, <1>3 DEF NotDueBefore
<1> QED
  BY <1>2, <1>4 DEF LinesInv

LEMMA NextLines ==
  ASSUME IInv, [Next]_vars
  PROVE  LinesInv'
<1> USE DEF input, queues, cpu, clock, fields
<1>1. /\ args.quantum \in 1 .. 3 /\ sim_time \in Nat
      /\ \A p \in Procs : workload.arrival[p] \in Nat
      /\ processes \in Seq(Procs) /\ workload.order \in Seq(Procs)
  BY Inputs DEF IInv, TypeOK
<1>2. UNCHANGED input
  BY DEF Next, vars, Arrive, EndUpdateInput, AllocateMemory, EndAllocateMemory, Continue,
         Preempt, Crash, Idle, Select, RunNextProcess, NothingToRun, UpdateTime, FinishProcess,
         Terminated
<1>3. CASE Arrive
  <2>1. /\ processes # <<>> /\ processes' = Tail(processes) /\ pc' = "update_input"
        /\ sim_time' = sim_time /\ pc = "update_input"
    BY <1>3 DEF Arrive, HeadHasArrived
  <2>2. /\ Len(processes') = Len(processes) - 1 /\ Len(processes) \in Nat
        /\ processes' \in Seq(Procs) /\ Len(workload.order) \in Nat
        /\ \A i \in 1 .. Len(processes) - 1 : processes'[i] = processes[i + 1]
    BY <1>1, <2>1
  <2>3. LinesLeft'
    <3>1. Len(processes) <= Len(workload.order)
      BY DEF IInv, LinesLeft
    <3>2. ASSUME NEW i \in DOMAIN processes'
          PROVE  processes'[i] = workload.order[Line(i)']
      <4>1. i \in 1 .. Len(processes) - 1 /\ i + 1 \in DOMAIN processes
        BY <1>1, <2>2
      <4>2. processes[i + 1] = workload.order[Line(i + 1)]
        BY <4>1 DEF IInv, LinesLeft
      <4>3. Line(i)' = Line(i + 1)
        <5>1. /\ workload' = workload /\ i \in Int
              /\ Len(processes') = Len(processes) - 1
              /\ Len(processes) \in Int /\ Len(workload.order) \in Int
          BY <1>2, <2>2, <4>1
        <5> QED
          BY <5>1 DEF Line
      <4> QED
        BY <2>2, <4>1, <4>2, <4>3
    <3> QED
      BY <1>2, <2>2, <3>1, <3>2 DEF LinesLeft, Line
  <2>4. Line(1)' = Line(1) + 1 /\ Line(1) \in Nat
    BY <1>2, <2>2, <2>1 DEF Line, IInv, LinesLeft
  <2>5. PICK j \in 1 .. Line(1) : workload.arrival[workload.order[j]] > sim_time - args.quantum
    BY <2>1 DEF IInv, NotDueBefore
  <2>6. j \in 1 .. Line(1)'
    BY <2>4
  <2>7. NotDueBefore'
    BY <1>2, <2>1, <2>5, <2>6 DEF NotDueBefore
  <2> QED
    BY <2>3, <2>7 DEF LinesInv
<1>4. CASE processes' = processes
  <2>1. LinesLeft' /\ Line(1)' = Line(1)
    BY <1>2, <1>4 DEF IInv, LinesLeft, Line
  <2>2. CASE EndUpdateInput
    <3>1. processes # <<>> => workload.arrival[Head(processes)] > sim_time
      <4> SUFFICES ASSUME processes # <<>>
                   PROVE  workload.arrival[Head(processes)] > sim_time
        OBVIOUS
      <4>1. Head(processes) \in Procs
        BY <1>1
      <4> QED
        BY <1>1, <2>2, <4>1 DEF EndUpdateInput, HeadHasArrived
    <3> QED
      BY <1>2, <1>4, <2>1, <2>2, <3>1 DEF EndUpdateInput, NotDueBefore, LinesInv
  <2>3. CASE \/ AllocateMemory \/ EndAllocateMemory \/ Preempt \/ Crash \/ Select
    <3>1. /\ sim_time' = sim_time /\ pc \in {"allocate_memory", "schedule"}
          /\ pc' \in {"allocate_memory", "schedule", "run_next_process", "crashed"}
      BY <2>3 DEF AllocateMemory, EndAllocateMemory, Preempt, Crash, Select
    <3> QED
      BY <1>2, <1>4, <2>1, <3>1 DEF IInv, NotDueBefore, LinesInv
  <2>4. CASE Continue \/ Idle \/ RunNextProcess \/ NothingToRun
    <3>1. EndCycle /\ pc \in {"schedule", "run_next_process"} /\ pc' = "update_time"
      BY <2>4 DEF Continue, Idle, RunNextProcess, NothingToRun, EndCycle
    <3>2. sim_time' - args.quantum <= sim_time /\ sim_time' \in Int
      BY <3>1, EndCycleTime DEF IInv
    <3>3. ASSUME processes # <<>>
          PROVE  \E j \in 1 .. Line(1) :
                   workload.arrival[workload.order[j]] > sim_time' - args.quantum
      <4>1. /\ Line(1) \in 1 .. Line(1) /\ workload.order[Line(1)] = Head(processes)
            /\ Head(processes) \in Procs
        BY <1>1, <3>3 DEF IInv, LinesLeft, Line
      <4>2. workload.arrival[Head(processes)] > sim_time
        BY <3>1, <3>3 DEF IInv, NotDueBefore
      <4>3. workload.arrival[Head(processes)] > sim_time' - args.quantum
        BY <1>1, <3>2, <4>1, <4>2
      <4> QED
        BY <4>1, <4>3
    <3> QED
      BY <1>2, <1>4, <2>1, <3>1, <3>3 DEF NotDueBefore, LinesInv
  <2>5. CASE UpdateTime \/ FinishProcess
    <3>1. /\ sim_time' = sim_time /\ pc = "update_time" /\ pc' \in {"update_input", "done"}
      BY <2>5 DEF UpdateTime, FinishProcess
    <3> QED
      BY <1>2, <1>4, <2>1, <3>1 DEF IInv, NotDueBefore, LinesInv
  <2>6. CASE UNCHANGED vars
    BY <1>2, <1>4, <2>1, <2>6 DEF IInv, NotDueBefore, LinesInv, vars
  <2>7. CASE Arrive
    BY <1>3, <2>7
  <2> QED
    BY <2>2, <2>3, <2>4, <2>5, <2>6, <2>7 DEF Next, Terminated
<1>5. CASE ~Arrive
  <2>1. processes' = processes
    BY <1>5 DEF Next, vars, EndUpdateInput, AllocateMemory, EndAllocateMemory, Continue,
         Preempt, Crash, Idle, Select, RunNextProcess, NothingToRun, UpdateTime, FinishProcess,
         Terminated
  <2> QED
    BY <1>4, <2>1
<1> QED
  BY <1>3, <1>5

LEMMA InitIInv == Init => IInv
  BY InitTypeOK, InitPlaces, InitMemory, InitLines DEF IInv, PlacesInv, MemoryInv, LinesInv

LEMMA NextIInv == IInv /\ [Next]_vars => IInv'
  BY NextTypeOK, NextPlaces, NextMemory, NextLines DEF IInv, PlacesInv, MemoryInv, LinesInv

(* The invariant above is one of every run of the program. *)
THEOREM InductiveInvariant == Spec => []IInv
<1>1. Init => IInv
  BY InitIInv
<1>2. IInv /\ [Next]_vars => IInv'
  BY NextIInv
<1> QED
  BY <1>1, <1>2, PTL DEF Spec
-----------------------------------------------------------------------------
(***************************************************************************)
(* The theorems.                                                           *)
(***************************************************************************)
(* No step of cycle() leaves the types of its variables: no service time   *)
(* becomes negative and the clock stays within its width.                  *)
THEOREM TypeCorrect == Spec => []TypeOK
<1>1. IInv => TypeOK
  BY DEF IInv
<1> QED
  BY <1>1, InductiveInvariant, PTL

LEMMA Positions ==
  ASSUME NEW s \in Seq(Procs), IsInjective(s), NEW p
  PROVE  /\ ~Contains(s, p) => {i \in DOMAIN s : s[i] = p} = {}
         /\ Contains(s, p) => \E k : {i \in DOMAIN s : s[i] = p} = {k}
<1>1. CASE ~Contains(s, p)
  BY <1>1, ContainsElements
<1>2. CASE Contains(s, p)
  <2>1. PICK k \in DOMAIN s : s[k] = p
    BY <1>2, ContainsElements
  <2>2. {i \in DOMAIN s : s[i] = p} = {k}
    BY <2>1 DEF IsInjective
  <2> QED
    BY <1>2, <2>2
<1> QED
  BY <1>1, <1>2

(* Every process is always in exactly one of the four queues, once, or has *)
(* the CPU: the functions that hand it over neither lose nor double it.    *)
THEOREM ProcessesInOnePlace == Spec => []InOnePlace
<1>1. IInv => InOnePlace
  <2> SUFFICES ASSUME IInv, NEW p \in Procs
               PROVE  Cardinality(Places(p)) = 1
    BY DEF InOnePlace
  <2> DEFINE P == {i \in DOMAIN processes : processes[i] = p}
             I == {i \in DOMAIN input_queue : input_queue[i] = p}
             R == {i \in DOMAIN ready_queue : ready_queue[i] = p}
             F == {i \in DOMAIN finished_queue : finished_queue[i] = p}
  <2>1. /\ Contains(processes, p) => \E k : P = {k}
        /\ ~Contains(processes, p) => P = {}
        /\ Contains(input_queue, p) => \E k : I = {k}
        /\ ~Contains(input_queue, p) => I = {}
        /\ Contains(ready_queue, p) => \E k : R = {k}
        /\ ~Contains(ready_queue, p) => R = {}
        /\ Contains(finished_queue, p) => \E k : F = {k}
        /\ ~Contains(finished_queue, p) => F = {}
    BY Positions DEF IInv, TypeOK, QueuesDistinct
  <2>2. Places(p) = P \X {"processes"} \cup I \X {"input"} \cup R \X {"ready"}
                      \cup F \X {"finished"} \cup (IF HasCpu(p) THEN {<<0, "cpu">>} ELSE {})
    BY DEF Places
  <2> HIDE DEF P, I, R, F
  <2>3. \E x : Places(p) = {x}
    <3>1. CASE Contains(processes, p)
      <4>1. I = {} /\ R = {} /\ F = {} /\ ~HasCpu(p)
        BY <2>1, <3>1 DEF IInv, ExactlyOnePlace
      <4>2. PICK k : P = {k}
        BY <2>1, <3>1
      <4>3. Places(p) = {<<k, "processes">>}
        BY <2>2, <4>1, <4>2
      <4> QED
        BY <4>3
    <3>2. CASE Contains(input_queue, p)
      <4>1. P = {} /\ R = {} /\ F = {} /\ ~HasCpu(p)
        BY <2>1, <3>2 DEF IInv, ExactlyOnePlace
      <4>2. PICK k : I = {k}
        BY <2>1, <3>2
      <4>3. Places(p) = {<<k, "input">>}
        BY <2>2, <4>1, <4>2
      <4> QED
        BY <4>3
    <3>3. CASE Contains(ready_queue, p)
      <4>1. P = {} /\ I = {} /\ F = {} /\ ~HasCpu(p)
        BY <2>1, <3>3 DEF IInv, ExactlyOnePlace, HasCpu
      <4>2. PICK k : R = {k}
        BY <2>1, <3>3
      <4>3. Places(p) = {<<k, "ready">>}
        BY <2>2, <4>1, <4>2
      <4> QED
        BY <4>3
    <3>4. CASE Contains(finished_queue, p)
      <4>1. P = {} /\ I = {} /\ R = {} /\ ~HasCpu(p)
        BY <2>1, <3>4 DEF IInv, ExactlyOnePlace
      <4>2. PICK k : F = {k}
        BY <2>1, <3>4
      <4>3. Places(p) = {<<k, "finished">>}
        BY <2>2, <4>1, <4>2
      <4> QED
        BY <4>3
    <3>5. CASE HasCpu(p)
      <4>1. P = {} /\ I = {} /\ R = {} /\ F = {}
        BY <2>1, <3>5 DEF IInv, ExactlyOnePlace, HasCpu
      <4> QED
        BY <2>2, <3>5, <4>1
    <3> QED
      BY <3>1, <3>2, <3>3, <3>4, <3>5 DEF IInv, ExactlyOnePlace
  <2> QED
    BY <2>3, FS_Singleton
<1> QED
  BY <1>1, InductiveInvariant, PTL

(* Exactly the process that has the CPU is running for real, exactly the   *)
(* finished ones have been terminated, and a stopped one is in the ready   *)
(* queue of RR with something left to do.                                  *)
THEOREM ChildrenAreWhereTheQueuesSay == Spec => []ChildrenFollowQueues
<1>1. IInv => ChildrenFollowQueues
  BY DEF IInv
<1> QED
  BY <1>1, InductiveInvariant, PTL

(* Under best-fit a process owns memory exactly while it is ready or has   *)
(* the CPU, in one piece of the size it requires.                          *)
THEOREM MemoryIsWhereTheQueuesSay == Spec => []MemoryFollowsQueues
<1>1. IInv => MemoryFollowsQueues
  BY DEF IInv
<1> QED
  BY <1>1, InductiveInvariant, PTL

(* One pass of allocate_memory() is enough: when the scheduler chooses,    *)
(* nobody who waits for memory would fit.                                  *)
THEOREM OnePassIsEnough == Spec => []NoFittingProcessWaits
<1>1. IInv => NoFittingProcessWaits
  BY DEF IInv, WaitersDoNotFit, NoFittingProcessWaits
<1> QED
  BY <1>1, InductiveInvariant, PTL

(* The CPU is idle for a quantum only if nobody who has arrived waits.     *)
THEOREM CpuIsNotWasted == Spec => []WorkConserving
<1>1. IInv => WorkConserving
  <2> SUFFICES ASSUME IInv, pc = "update_time", current_process = NULL, AllFit
               PROVE  ready_queue = <<>> /\ input_queue = <<>>
    BY DEF WorkConserving
  <2>1. ready_queue = <<>>
    BY DEF IInv, Control
  <2>2. ASSUME input_queue # <<>>
        PROVE  FALSE
    <3> DEFINE p == input_queue[1]
    <3>1. p \in Procs /\ 1 \in DOMAIN input_queue /\ ready_queue \in Seq(Procs)
      BY <2>2 DEF IInv, TypeOK
    <3>2. ~Fits(p)
      BY <3>1 DEF IInv, WaitersDoNotFit
    <3>3. BestFit /\ ~Memory!HasRoom(workload.mem[p])
      BY <3>2 DEF Fits
    <3>4. \A q \in Procs : ~HasCpu(q) /\ ~Contains(ready_queue, q)
      BY <2>1, <3>1, ProcsAssumption, ContainsElements DEF HasCpu
    <3>5. \A q \in Procs : Memory!CellsOf(q) = {}
      BY <3>4 DEF IInv, MemoryFollowsQueues
    <3>6. workload.mem[p] \in Nat \ {0} /\ workload.mem[p] <= MEM_CAPACITY
      BY <3>1, <3>3, Inputs DEF AllFit, IInv
    <3> QED
      BY <3>3, <3>5, <3>6, EmptyMemoryHasRoom DEF IInv
  <2> QED
    BY <2>1, <2>2
<1> QED
  BY <1>1, InductiveInvariant, PTL

(* A null pointer is passed on only if no process has ever been started.   *)
THEOREM CrashesOnlyAtStart == Spec => []CrashOnlyAtStart
<1>1. IInv => CrashOnlyAtStart
  BY DEF IInv, Control, CrashOnlyAtStart
<1> QED
  BY <1>1, InductiveInvariant, PTL

(* A process leaves the list of those to come in the first cycle after it  *)
(* is due, unless it or a line in front of it was not due a quantum ago.   *)
THEOREM SubmissionIsInTime == Spec => ArrivalsInTime
<1>1. ASSUME IInv, [Next]_vars
      PROVE  SubmittedWhenDue
  <2> SUFFICES ASSUME NEW i \in DOMAIN workload.order,
                      Contains(processes, workload.order[i]),
                      ~Contains(processes', workload.order[i])
               PROVE  \E j \in 1 .. i :
                        workload.arrival[workload.order[j]] > sim_time - args.quantum
    BY DEF SubmittedWhenDue
  <2>1. Arrive
    <3>1. processes' # processes
      OBVIOUS
    <3> QED
      BY <1>1, <3>1
         DEF Next, vars, queues, EndUpdateInput, AllocateMemory, EndAllocateMemory, Continue,
             Preempt, Crash, Idle, Select, RunNextProcess, NothingToRun, UpdateTime,
             FinishProcess, Terminated
  <2>2. /\ processes \in Seq(Procs) /\ processes # <<>> /\ processes' = Tail(processes)
        /\ pc = "update_input" /\ IsInjective(processes)
    BY <1>1, <2>1 DEF Arrive, HeadHasArrived, IInv, TypeOK, QueuesDistinct
  <2>3. workload.order[i] = Head(processes)
    BY <2>2, TailElements
  <2>4. Head(processes) = workload.order[Line(1)] /\ Line(1) \in DOMAIN workload.order
    <3>1. workload.order \in Seq(Procs)
      BY <1>1, Inputs DEF IInv
    <3> QED
      BY <1>1, <2>2, <3>1 DEF IInv, LinesLeft, Line
  <2>5. i = Line(1)
    BY <1>1, <2>3, <2>4, Inputs DEF IInv, IsInjective
  <2> QED
    BY <1>1, <2>2, <2>5 DEF IInv, NotDueBefore
<1> QED
  BY <1>1, InductiveInvariant, PTL DEF Spec, ArrivalsInTime

(* Under SJF a process that has the CPU has it until it has finished.      *)
THEOREM SJFRunsToCompletion == Spec => SJFIsNotPreemptive
<1>1. ASSUME IInv, [Next]_vars
      PROVE  RunsToCompletion
  <2> USE DEF input, queues, cpu, clock, fields
  <2> SUFFICES ASSUME NEW p \in Procs, SJF, HasCpu(p), ~Contains(finished_queue', p)
               PROVE  HasCpu(p)'
    BY DEF RunsToCompletion
  <2>1. /\ p = current_process /\ ~no_process_running /\ ~Contains(ready_queue, p)
        /\ p # NULL /\ pc # "run_next_process"
    BY <1>1, ProcsAssumption DEF HasCpu, IInv, Control
  <2>2. CASE \/ Arrive \/ EndUpdateInput \/ EndAllocateMemory \/ Continue
             \/ UpdateTime \/ UNCHANGED vars
    <3>1. UNCHANGED <<current_process, no_process_running, ready_queue>>
      BY <2>2 DEF Arrive, EndUpdateInput, EndAllocateMemory, Continue, UpdateTime, vars
    <3> QED
      BY <2>1, <3>1 DEF HasCpu
  <2>3. CASE AllocateMemory
    <3> DEFINE q == input_queue[curr]
    <3>1. q \in Procs /\ Contains(input_queue, q) /\ ready_queue \in Seq(Procs)
      BY <1>1, <2>3, ContainsElements DEF AllocateMemory, IInv, TypeOK
    <3>2. q # p
      BY <1>1, <3>1 DEF IInv, ExactlyOnePlace
    <3>3. \/ ready_queue' = ready_queue
          \/ ready_queue' = Append(ready_queue, q)
      BY <2>3 DEF AllocateMemory, ProcessReady, Skip
    <3> HIDE DEF q
    <3>4. ~Contains(ready_queue', p)
      <4>1. Contains(Append(ready_queue, q), p) <=> (Contains(ready_queue, p) \/ p = q)
        BY <3>1, AppendElements
      <4> QED
        BY <2>1, <3>2, <3>3, <4>1
    <3> QED
      BY <2>1, <2>3, <3>4 DEF AllocateMemory, HasCpu
  <2>4. CASE FinishProcess
    <3>1. finished_queue' = Append(finished_queue, p) /\ finished_queue \in Seq(Procs)
      BY <1>1, <2>1, <2>4 DEF FinishProcess, IInv, TypeOK
    <3> QED
      BY <3>1, AppendElements
  <2>5. ~Preempt /\ ~Crash /\ ~Idle /\ ~Select /\ ~RunNextProcess /\ ~NothingToRun
    BY <2>1 DEF Preempt, Crash, Idle, Select, RunNextProcess, NothingToRun, SJF, RR
  <2> QED
    BY <1>1, <2>2, <2>3, <2>4, <2>5 DEF Next, Terminated
<1> QED
  BY <1>1, InductiveInvariant, PTL DEF Spec, SJFIsNotPreemptive

(* Under RR nobody is put in front of a process that is ready.             *)
THEOREM RRServesInOrder == Spec => RRIsFair
<1>1. ASSUME IInv, [Next]_vars
      PROVE  NobodyOvertakes
  <2> USE DEF input, queues, cpu, clock, fields
  <2> SUFFICES ASSUME NEW p \in Procs, NEW i \in DOMAIN ready_queue, RR, ready_queue[i] = p
               PROVE  \/ i = 1 /\ HasCpu(p)'
                      \/ \E j \in 1 .. i : j \in DOMAIN ready_queue' /\ ready_queue'[j] = p
    BY DEF NobodyOvertakes
  <2>1. /\ ready_queue \in Seq(Procs) /\ IsInjective(ready_queue)
        /\ DOMAIN ready_queue = 1 .. Len(ready_queue) /\ Len(ready_queue) \in Nat
        /\ i \in 1 .. Len(ready_queue) /\ i \in 1 .. i
    BY <1>1 DEF IInv, TypeOK, QueuesDistinct
  <2>2. CASE ready_queue' = ready_queue
    BY <2>1, <2>2
  <2>3. ASSUME NEW q \in Procs, ready_queue' = Append(ready_queue, q)
        PROVE  \E j \in 1 .. i : j \in DOMAIN ready_queue' /\ ready_queue'[j] = p
    BY <2>1, <2>3
  <2>4. CASE AllocateMemory
    <3>1. input_queue[curr] \in Procs
      BY <1>1, <2>4 DEF AllocateMemory, IInv, TypeOK
    <3> QED
      BY <2>2, <2>3, <2>4, <3>1 DEF AllocateMemory, ProcessReady, Skip
  <2>5. CASE Preempt
    <3>1. current_process \in Procs
      BY <1>1, <2>5 DEF Preempt, IInv, TypeOK
    <3> QED
      BY <2>3, <2>5, <3>1 DEF Preempt
  <2>6. CASE RunNextProcess
    <3>1. /\ 1 \in DOMAIN ready_queue /\ ready_queue' = RemoveAt(ready_queue, 1)
          /\ current_process' = ready_queue[1] /\ ~no_process_running'
      BY <2>6 DEF RunNextProcess, IsNext, SJF, RR
    <3>2. /\ ready_queue' \in Seq(Procs) /\ Len(ready_queue') = Len(ready_queue) - 1
          /\ \A j \in 1 .. Len(ready_queue) - 1 : ready_queue'[j] = ready_queue[j + 1]
          /\ ~Contains(ready_queue', ready_queue[1])
      <4> DEFINE r == RemoveAt(ready_queue, 1)
      <4>1. /\ r \in Seq(Procs) /\ Len(r) = Len(ready_queue) - 1
            /\ \A j \in 1 .. Len(ready_queue) - 1 :
                 r[j] = IF j < 1 THEN ready_queue[j] ELSE ready_queue[j + 1]
        BY <2>1, <3>1, RemoveAtProperties
      <4>2. ~Contains(r, ready_queue[1])
        BY <2>1, <3>1, RemoveAtElements
      <4> HIDE DEF r
      <4>3. ready_queue' = r
        BY <3>1 DEF r
      <4>4. \A j \in 1 .. Len(ready_queue) - 1 : r[j] = ready_queue[j + 1]
        BY <2>1, <4>1
      <4> QED
        BY <4>1, <4>2, <4>3, <4>4, Zenon
    <3>3. CASE i = 1
      BY <3>1, <3>2, <3>3 DEF HasCpu
    <3>4. CASE i # 1
      <4>1. /\ i - 1 \in 1 .. i /\ i - 1 \in 1 .. Len(ready_queue) - 1
            /\ ready_queue'[i - 1] = p /\ i - 1 \in DOMAIN ready_queue'
        BY <2>1, <3>2, <3>4
      <4> QED
        BY <4>1
    <3> QED
      BY <3>3, <3>4
  <2>7. ASSUME ~AllocateMemory, ~Preempt, ~RunNextProcess
        PROVE  ready_queue' = ready_queue
    BY <1>1, <2>7
       DEF Next, vars, Arrive, EndUpdateInput, EndAllocateMemory, Continue, Crash, Idle, Select,
           NothingToRun, UpdateTime, FinishProcess, Terminated
  <2> QED
    BY <2>2, <2>4, <2>5, <2>6, <2>7
<1> QED
  BY <1>1, InductiveInvariant, PTL DEF Spec, RRIsFair
-----------------------------------------------------------------------------
(***************************************************************************)
(* What the liveness of the loop rests on: no call of another part is one  *)
(* that this part does not allow, somebody is next, every cycle ends, and  *)
(* no quantum is spent for nothing.                                        *)
(***************************************************************************)
(* A real process is stopped, continued or terminated only in a state in   *)
(* which ProcessLifecycle allows it, and memory is given only to those who *)
(* have none and taken from those who have some.  Where that fails, the    *)
(* code sends a signal to a process that is gone, or waits for ever for    *)
(* one that is stopped.                                                    *)
CallsAccepted ==
  /\ pc = "allocate_memory" /\ curr \in DOMAIN input_queue =>
       Memory!CellsOf(input_queue[curr]) = {}
  /\ pc = "schedule" /\ ~no_process_running /\ current_process # NULL =>
       child[current_process] = "running"
  /\ pc = "run_next_process" =>
       \A i \in DOMAIN ready_queue : child[ready_queue[i]] \in {"none", "stopped"}
  /\ pc = "update_time" /\ current_process # NULL =>
       /\ child[current_process] = "running"
       /\ BestFit => Memory!CellsOf(current_process) # {}

(* Whatever cycle() calls accepts the call. *)
THEOREM CallsAreAccepted == Spec => []CallsAccepted
<1>1. ASSUME IInv
      PROVE  CallsAccepted
  <2>1. ASSUME pc = "allocate_memory", curr \in DOMAIN input_queue
        PROVE  Memory!CellsOf(input_queue[curr]) = {}
    <3>1. input_queue[curr] \in Procs /\ Contains(input_queue, input_queue[curr])
      BY <1>1, <2>1, ContainsElements DEF IInv, TypeOK
    <3> QED
      BY <1>1, <3>1 DEF IInv, ExactlyOnePlace, MemoryFollowsQueues
  <2>2. ASSUME pc \in {"schedule", "update_time"}, ~no_process_running, current_process # NULL
        PROVE  /\ current_process \in Procs /\ HasCpu(current_process)
               /\ child[current_process] = "running"
    BY <1>1, <2>2, CurrentHasCpu DEF IInv, ChildrenFollowQueues
  <2>3. ASSUME pc = "run_next_process", NEW i \in DOMAIN ready_queue
        PROVE  child[ready_queue[i]] \in {"none", "stopped"}
    <3> DEFINE p == ready_queue[i]
    <3>1. p \in Procs /\ Contains(ready_queue, p)
      BY <1>1, ContainsElements DEF IInv, TypeOK
    <3>2. ~HasCpu(p) /\ ~Contains(finished_queue, p)
      BY <1>1, <2>3, <3>1 DEF IInv, Control, ExactlyOnePlace
    <3>3. child[p] # "running" /\ child[p] # "terminated"
      BY <1>1, <3>1, <3>2 DEF IInv, ChildrenFollowQueues
    <3>4. child[p] \in {"none", "running", "stopped", "terminated"}
      BY <1>1, <3>1 DEF IInv, TypeOK, Children!TypeOK
    <3> QED
      BY <3>3, <3>4
  <2>4. ASSUME pc = "update_time", current_process # NULL
        PROVE  /\ child[current_process] = "running"
               /\ BestFit => Memory!CellsOf(current_process) # {}
    <3>1. ~no_process_running
      BY <1>1, <2>4 DEF IInv, Control
    <3>2. current_process \in Procs /\ HasCpu(current_process)
      BY <2>2, <2>4, <3>1
    <3>3. ASSUME BestFit
          PROVE  Memory!CellsOf(current_process) # {}
      <4>1. PICK base \in 0 .. MEM_CAPACITY - 1 :
              Memory!CellsOf(current_process)
                = base .. base + workload.mem[current_process] - 1
        BY <1>1, <3>2, <3>3 DEF IInv, MemoryFollowsQueues
      <4>2. workload.mem[current_process] \in Nat \ {0} /\ base \in Nat
        BY <1>1, <3>2, Inputs DEF IInv
      <4>3. base \in base .. base + workload.mem[current_process] - 1
        BY <4>2
      <4> QED
        BY <4>1, <4>3
    <3> QED
      BY <2>2, <2>4, <3>1, <3>3
  <2> QED
    BY <2>1, <2>2, <2>3, <2>4 DEF CallsAccepted
<1> QED
  BY <1>1, InductiveInvariant, PTL

(* compare_process() is an order in which any two processes can be         *)
(* compared, so that there is a first among them.                          *)
LEMMA FirstProcess ==
  ASSUME TypeOK, NEW S, S \subseteq Procs, S # {}
  PROVE  \E p \in S : \A q \in S \ {p} : Before(p, q)
<1> DEFINE service(p) == workload.service[p]
           arrival(p) == workload.arrival[p]
<1>1. \A p \in S : p \in Nat /\ service(p) \in Nat /\ arrival(p) \in Nat
  BY Inputs, ProcsAssumption
<1> DEFINE Services == {service(p) : p \in S}
<1>2. PICK a \in Services : \A x \in Services : a <= x
  <2>1. Services \subseteq Nat /\ Services # {}
    BY <1>1
  <2> HIDE DEF Services
  <2> QED
    BY <2>1, SmallestNumber
<1> DEFINE T == {p \in S : service(p) = a}
           Arrivals == {arrival(p) : p \in T}
<1>3. PICK b \in Arrivals : \A x \in Arrivals : b <= x
  <2>1. Arrivals \subseteq Nat /\ Arrivals # {}
    BY <1>1, <1>2
  <2> HIDE DEF Arrivals
  <2> QED
    BY <2>1, SmallestNumber
<1> DEFINE U == {p \in T : arrival(p) = b}
<1>4. PICK p \in U : \A q \in U : p <= q
  <2>1. U \subseteq Nat /\ U # {}
    BY <1>1, <1>3
  <2> HIDE DEF U
  <2> QED
    BY <2>1, SmallestNumber
<1>5. p \in S /\ service(p) = a /\ arrival(p) = b
  BY <1>4
<1>6. ASSUME NEW q \in S \ {p}
      PROVE  Before(p, q)
  <2>1. a <= service(q) /\ service(q) \in Nat /\ arrival(q) \in Nat /\ q \in Nat /\ p \in Nat
    BY <1>1, <1>2, <1>5
  <2>2. service(q) = a => b <= arrival(q)
    BY <1>3, <1>6
  <2>3. service(q) = a /\ arrival(q) = b => p <= q
    BY <1>4, <1>6
  <2> QED
    BY <1>1, <1>5, <1>6, <2>1, <2>2, <2>3 DEF Before
<1> QED
  BY <1>5, <1>6

(* The next process is determined by the ready queue.                      *)
OneIsNext ==
  ready_queue # <<>> =>
    \E i \in DOMAIN ready_queue : /\ IsNext(i)
                                  /\ \A j \in DOMAIN ready_queue : IsNext(j) => j = i

(* extract_min() and dequeue() always have one process to return, and only *)
(* one, although two processes may have the same run time and arrive at    *)
(* the same time.                                                          *)
THEOREM TheNextIsUnique == Spec => []OneIsNext
<1>1. ASSUME IInv, ready_queue # <<>>
      PROVE  \E i \in DOMAIN ready_queue :
               /\ IsNext(i)
               /\ \A j \in DOMAIN ready_queue : IsNext(j) => j = i
  <2>1. /\ ready_queue \in Seq(Procs) /\ Len(ready_queue) \in Nat \ {0}
        /\ DOMAIN ready_queue = 1 .. Len(ready_queue)
        /\ \A i \in DOMAIN ready_queue : ready_queue[i] \in Procs
        /\ \A i, j \in DOMAIN ready_queue : ready_queue[i] = ready_queue[j] => i = j
        /\ TypeOK
    BY <1>1 DEF IInv, TypeOK, QueuesDistinct, IsInjective
  <2>2. CASE SJF
    <3> DEFINE S == {ready_queue[i] : i \in DOMAIN ready_queue}
    <3>1. S \subseteq Procs /\ S # {}
      BY <2>1
    <3>2. PICK p \in S : \A q \in S \ {p} : Before(p, q)
      <4> HIDE DEF S
      <4> QED
        BY <2>1, <3>1, FirstProcess
    <3>3. PICK i \in DOMAIN ready_queue : ready_queue[i] = p
      BY <3>2
    <3>4. IsNext(i)
      BY <2>1, <2>2, <3>2, <3>3 DEF IsNext
    <3>5. ASSUME NEW j \in DOMAIN ready_queue, IsNext(j), j # i
          PROVE  FALSE
      <4>1. Before(ready_queue[i], ready_queue[j]) /\ Before(ready_queue[j], ready_queue[i])
        BY <2>2, <3>4, <3>5 DEF IsNext
      <4>2. \A q \in Procs : /\ q \in Nat /\ workload.service[q] \in Nat
                             /\ workload.arrival[q] \in Nat
        <5>1. /\ workload.service \in [Procs -> Nat \ {0}]
              /\ workload.arrival \in [Procs -> 0 .. TIME_MODULUS - 1]
          BY <2>1, Inputs
        <5> QED
          BY <5>1, ProcsAssumption
      <4> QED
        BY <2>1, <4>1, <4>2 DEF Before
    <3> QED
      BY <3>4, <3>5
  <2>3. CASE ~SJF
    BY <2>1, <2>3 DEF IsNext
  <2> QED
    BY <2>2, <2>3
<1>2. IInv => OneIsNext
  BY <1>1 DEF OneIsNext
<1> QED
  BY <1>2, InductiveInvariant, PTL

(* The steps cycle() has left at most, in this iteration of its loop.      *)
TurnsLeft ==
  CASE pc = "update_time"      -> 2 * Len(processes) + Len(input_queue) + 5
    [] pc = "update_input"     -> 2 * Len(processes) + Len(input_queue) + 4
    [] pc = "allocate_memory"  -> (Len(input_queue) + 1 - curr) + 3
    [] pc = "schedule"         -> 2
    [] pc = "run_next_process" -> 1
    [] OTHER                   -> 0

CyclesEnd == [][pc' = "update_time" \/ TurnsLeft' < TurnsLeft]_vars

WithinPass == pc = "allocate_memory" => curr <= Len(input_queue) + 1

LEMMA Lengths ==
  ASSUME TypeOK
  PROVE  /\ Len(processes) \in Nat /\ Len(input_queue) \in Nat /\ Len(ready_queue) \in Nat
         /\ DOMAIN input_queue = 1 .. Len(input_queue)
         /\ curr \in Nat \ {0}
  BY DEF TypeOK

LEMMA NextTurns ==
  ASSUME IInv, WithinPass, Next
  PROVE  /\ WithinPass'
         /\ pc' = "update_time" \/ TurnsLeft' < TurnsLeft \/ UNCHANGED vars
<1> USE DEF input, queues, cpu, clock, fields
<1> USE Lengths
<1>1. TypeOK
  BY DEF IInv
<1>2. CASE Arrive
  <2>1. /\ Len(processes') = Len(processes) - 1
        /\ Len(input_queue') = Len(input_queue) + 1
    BY <1>2 DEF Arrive, HeadHasArrived, IInv, TypeOK
  <2>2. pc = "update_input" /\ pc' = "update_input"
    BY <1>2 DEF Arrive
  <2>3. /\ TurnsLeft = 2 * Len(processes) + Len(input_queue) + 4
        /\ TurnsLeft' = 2 * Len(processes') + Len(input_queue') + 4
        /\ WithinPass'
    BY <2>2 DEF TurnsLeft, WithinPass
  <2>4. Len(processes) \in Nat /\ Len(input_queue) \in Nat
    BY <1>1
  <2>5. TurnsLeft' < TurnsLeft
    BY ONLY <2>1, <2>3, <2>4
  <2> QED
    BY <2>3, <2>5
<1>3. CASE EndUpdateInput
  BY <1>1, <1>3 DEF EndUpdateInput, TurnsLeft, WithinPass
<1>4. CASE AllocateMemory
  <2> DEFINE p == input_queue[curr]
  <2>1. CASE ProcessReady(p)
    <3>1. Len(input_queue') = Len(input_queue) - 1 /\ curr' = curr
      BY <1>4, <2>1, RemoveAtProperties DEF AllocateMemory, ProcessReady, IInv, TypeOK
    <3> QED
      BY <1>1, <1>4, <3>1 DEF AllocateMemory, TurnsLeft, WithinPass
  <2>2. CASE Skip(p)
    BY <1>1, <1>4, <2>2 DEF AllocateMemory, Skip, TurnsLeft, WithinPass
  <2> QED
    BY <1>4, <2>1, <2>2 DEF AllocateMemory
<1>5. CASE EndAllocateMemory
  BY <1>1, <1>5 DEF EndAllocateMemory, TurnsLeft, WithinPass
<1>6. CASE Preempt \/ Select \/ Crash
  BY <1>6 DEF Preempt, Select, Crash, TurnsLeft, WithinPass
<1>7. CASE Continue \/ Idle \/ RunNextProcess \/ NothingToRun
  BY <1>7 DEF Continue, Idle, RunNextProcess, NothingToRun, EndCycle, WithinPass
<1>8. CASE UpdateTime \/ FinishProcess
  <2>1. /\ pc = "update_time" /\ pc' \in {"update_input", "done"}
        /\ processes' = processes /\ input_queue' = input_queue
    BY <1>8 DEF UpdateTime, FinishProcess
  <2> QED
    BY <1>1, <2>1 DEF TurnsLeft, WithinPass
<1>9. CASE Terminated
  BY <1>9 DEF Terminated, WithinPass, vars
<1> QED
  BY <1>2, <1>3, <1>4, <1>5, <1>6, <1>7, <1>8, <1>9 DEF Next

(* No iteration of the loop in cycle() goes on for ever: the number of     *)
(* steps it has left falls with each of them, whatever arrives and         *)
(* whatever the pass over the input queue takes out of the list it is      *)
(* going through.                                                          *)
THEOREM EveryCycleEnds == Spec => [](TurnsLeft \in Nat) /\ CyclesEnd
<1>1. Init => WithinPass
  BY DEF Init, WithinPass
<1>2. IInv /\ WithinPass /\ [Next]_vars =>
        WithinPass' /\ [pc' = "update_time" \/ TurnsLeft' < TurnsLeft]_vars
  <2>1. WithinPass /\ UNCHANGED vars => WithinPass'
    BY DEF WithinPass, vars, queues
  <2> QED
    BY <2>1, NextTurns
<1>3. IInv /\ WithinPass => TurnsLeft \in Nat
  BY Lengths DEF IInv, TypeOK, WithinPass, TurnsLeft
<1> QED
  BY <1>1, <1>2, <1>3, InductiveInvariant, PTL DEF Spec, CyclesEnd

(* The time a process has left.                                            *)
WorkFalls ==
  \A p \in Procs :
    /\ service_time_left'[p] <= service_time_left[p]
    /\ pc = "update_time" /\ p = current_process =>
         service_time_left'[p] < service_time_left[p]
QuantaCount == [][WorkFalls]_vars

(* No process ever has more to do than before, and each quantum in which   *)
(* somebody has the CPU brings him nearer to his end: update_time() is     *)
(* never given a process that has nothing left.                            *)
THEOREM EveryQuantumCounts == Spec => QuantaCount
<1>1. ASSUME IInv, Next
      PROVE  WorkFalls \/ UNCHANGED vars
  <2> USE DEF input, queues, cpu, clock, fields
  <2>1. /\ service_time_left \in [Procs -> Nat] /\ args.quantum \in 1 .. 3
    BY <1>1, Inputs DEF IInv, TypeOK
  <2>2. CASE UpdateTime \/ FinishProcess
    <3>1. CASE current_process = NULL
      <4>1. service_time_left' = service_time_left /\ \A p \in Procs : p # current_process
        BY <2>2, <3>1, ProcsAssumption DEF UpdateTime, FinishProcess
      <4> QED
        BY <2>1, <4>1 DEF WorkFalls
    <3>2. CASE current_process # NULL
      <4>1. /\ current_process \in Procs /\ HasCpu(current_process)
        BY <1>1, <2>2, <3>2, CurrentHasCpu DEF UpdateTime, FinishProcess, IInv, Control
      <4>2. service_time_left[current_process] > 0
        BY <1>1, <4>1 DEF IInv, ExactlyOnePlace, WorkLeft
      <4>3. PICK n \in Nat :
              /\ service_time_left' = [service_time_left EXCEPT ![current_process] = n]
              /\ n < service_time_left[current_process]
        <5>1. CASE UpdateTime
          BY <2>1, <3>2, <4>1, <5>1 DEF UpdateTime
        <5>2. CASE FinishProcess
          BY <2>1, <4>1, <4>2, <5>2 DEF FinishProcess
        <5> QED
          BY <2>2, <5>1, <5>2
      <4> QED
        BY <2>1, <4>1, <4>3 DEF WorkFalls
    <3> QED
      BY <3>1, <3>2
  <2>3. CASE ~UpdateTime /\ ~FinishProcess /\ ~Terminated
    <3>1. service_time_left' = service_time_left /\ pc # "update_time"
      BY <1>1, <2>3
         DEF Next, Arrive, EndUpdateInput, AllocateMemory, EndAllocateMemory, Continue, Preempt,
             Crash, Idle, Select, RunNextProcess, NothingToRun
    <3> QED
      BY <2>1, <3>1 DEF WorkFalls
  <2> QED
    BY <2>2, <2>3 DEF Terminated
<1> QED
  BY <1>1, InductiveInvariant, PTL DEF Spec, QuantaCount

(***************************************************************************)
(* The end of the program.                                                 *)
(***************************************************************************)
(* Two lists of processes without repetitions, one of them with all of     *)
(* them: the lists have as many entries only if the other has all as well. *)
LEMMA AsManyAsAll ==
  ASSUME NEW s \in Seq(Procs), IsInjective(s),
         NEW t \in Seq(Procs), IsInjective(t), \A p \in Procs : Contains(t, p)
  PROVE  Len(s) = Len(t) <=> \A p \in Procs : Contains(s, p)
<1>1. ASSUME NEW u \in Seq(Procs), IsInjective(u)
      PROVE  Len(u) = Cardinality(Procs) <=> \A p \in Procs : Contains(u, p)
  <2>1. /\ Len(u) \in Nat /\ DOMAIN u = 1 .. Len(u)
        /\ u \in [1 .. Len(u) -> Procs]
    OBVIOUS
  <2>2. u \in Injection(1 .. Len(u), Procs)
    BY <1>1, <2>1 DEF Injection, IsInjective
  <2>3. Cardinality(1 .. Len(u)) = Cardinality(Procs) <=> u \in Surjection(1 .. Len(u), Procs)
    BY <2>2, FS_Injection, ProcsAssumption
  <2>4. Cardinality(1 .. Len(u)) = Len(u)
    <3>1. PICK n \in Nat : n = Len(u)
      BY <2>1
    <3>2. Cardinality(1 .. n) = IF 1 > n THEN 0 ELSE n - 1 + 1
      BY FS_Interval
    <3> QED
      BY <3>1, <3>2
  <2>5. u \in Surjection(1 .. Len(u), Procs) <=>
          \A p \in Procs : \E i \in 1 .. Len(u) : u[i] = p
    BY <2>1 DEF Surjection
  <2>6. \A p \in Procs : Contains(u, p) <=> \E i \in 1 .. Len(u) : u[i] = p
    BY DEF Contains
  <2> QED
    BY <2>3, <2>4, <2>5, <2>6
<1> QED
  BY <1>1

(* The loop ends in the step that makes the finished processes as many as  *)
(* the lines of the file, and in no other.                                 *)
DoneWhenCounted ==
  pc = "done" <=> workload.order # <<>> /\ Len(finished_queue) = Len(workload.order)

EndsWithTheLast ==
  /\ pc = "done" =>
       \A p \in Procs : /\ Contains(finished_queue, p)
                        /\ child[p] = "terminated"
                        /\ Memory!CellsOf(p) = {}
  /\ Procs # {} /\ (\A p \in Procs : Contains(finished_queue, p)) => pc = "done"

LEMMA NextDoneWhenCounted ==
  ASSUME IInv, DoneWhenCounted, [Next]_vars
  PROVE  DoneWhenCounted'
<1> USE DEF input, queues, cpu, clock, fields
<1>1. CASE FinishProcess
  <2>1. /\ finished_queue' = Append(finished_queue, current_process)
        /\ workload' = workload
        /\ pc' = IF Len(finished_queue') = Len(workload.order) THEN "done" ELSE "update_input"
    BY <1>1 DEF FinishProcess
  <2>2. Len(finished_queue') > 0
    BY <1>1, <2>1 DEF IInv, TypeOK, FinishProcess
  <2> QED
    BY <2>1, <2>2 DEF DoneWhenCounted
<1>2. CASE Terminated \/ UNCHANGED vars
  BY <1>2 DEF Terminated, DoneWhenCounted, vars
<1>3. CASE Next /\ ~FinishProcess /\ ~Terminated
  <2>1. /\ finished_queue' = finished_queue /\ workload' = workload
        /\ pc # "done" /\ pc' # "done"
    BY <1>3
       DEF Next, Arrive, EndUpdateInput, AllocateMemory, EndAllocateMemory, Continue, Preempt,
           Crash, Idle, Select, RunNextProcess, NothingToRun, UpdateTime, EndCycle
  <2> QED
    BY <2>1 DEF DoneWhenCounted
<1> QED
  BY <1>1, <1>2, <1>3

(* The program counts the finished processes against the lines of the file *)
(* to know when it may stop. It stops when every process is finished, its  *)
(* real process terminated and its memory free, and as soon as that is so. *)
THEOREM TheLoopEndsWithTheLast == Spec => []EndsWithTheLast
<1>1. Init => DoneWhenCounted
  <2> SUFFICES ASSUME Init
               PROVE  ~(workload.order # <<>> /\ Len(finished_queue) = Len(workload.order))
    BY DEF Init, DoneWhenCounted
  <2>1. workload.order \in Seq(Procs) /\ finished_queue = <<>>
    BY InitTypeOK, Inputs DEF Init
  <2> QED
    BY <2>1
<1>2. IInv /\ DoneWhenCounted /\ [Next]_vars => DoneWhenCounted'
  BY NextDoneWhenCounted
<1>3. IInv /\ DoneWhenCounted => EndsWithTheLast
  <2> SUFFICES ASSUME IInv, DoneWhenCounted
               PROVE  EndsWithTheLast
    OBVIOUS
  <2>1. /\ workload.order \in Seq(Procs) /\ IsInjective(workload.order)
        /\ \A p \in Procs : Contains(workload.order, p)
        /\ finished_queue \in Seq(Procs) /\ IsInjective(finished_queue)
    BY Inputs DEF IInv, TypeOK, QueuesDistinct
  <2>2. Len(finished_queue) = Len(workload.order) <=>
          \A p \in Procs : Contains(finished_queue, p)
    BY <2>1, AsManyAsAll
  <2>3. \A p \in Procs : Contains(finished_queue, p) =>
          child[p] = "terminated" /\ Memory!CellsOf(p) = {}
    BY DEF IInv, ChildrenFollowQueues, MemoryFollowsQueues, ExactlyOnePlace
  <2>4. Procs # {} => workload.order # <<>>
    BY <2>1, ContainsElements
  <2> QED
    BY <2>2, <2>3, <2>4 DEF EndsWithTheLast, DoneWhenCounted
<1> QED
  BY <1>1, <1>2, <1>3, InductiveInvariant, PTL DEF Spec
-----------------------------------------------------------------------------
(***************************************************************************)
(* What the statistics rely on.                                            *)
(***************************************************************************)
(* The clock does not wrap around: an assumption about a run, that its     *)
(* times are less than the width of the clock.                             *)
NeverWraps == [][pc' = "update_time" => sim_time' = sim_time + args.quantum]_vars

(* Since a process arrived, as much time has passed as it has been given.  *)
Served(p) == workload.service[p] - service_time_left[p]
Granted(p) == IF pc = "update_time" /\ p = current_process THEN args.quantum ELSE 0
Elapsed ==
  \A p \in Procs :
    ~Contains(processes, p) /\ ~Contains(finished_queue, p) =>
      sim_time >= workload.arrival[p] + Served(p) + Granted(p)

(* No process finishes sooner than it could without any waiting.           *)
Covered ==
  \A p \in Procs :
    Contains(finished_queue, p) => turnaround_time[p] >= workload.service[p]
(* The steps in which the clock stands and nobody finishes or is served.   *)
LEMMA SameElapsed ==
  ASSUME IInv, Elapsed,
         UNCHANGED <<workload, sim_time, service_time_left, finished_queue>>,
         pc # "update_time", pc' # "update_time",
         \A p \in Procs : Contains(processes, p) => \/ Contains(processes', p)
                                                    \/ sim_time >= workload.arrival[p]
  PROVE  Elapsed'
<1> SUFFICES ASSUME NEW p \in Procs, ~Contains(processes', p), ~Contains(finished_queue, p)
             PROVE  sim_time >= workload.arrival[p] + Served(p) + 0
  <2>1. \A p \in Procs : Served(p)' = Served(p) /\ Granted(p)' = 0
    BY DEF Served, Granted
  <2> QED
    BY <2>1 DEF Elapsed
<1>1. CASE Contains(processes, p)
  <2>1. Served(p) = 0
    <3>1. service_time_left[p] = workload.service[p]
      BY <1>1 DEF IInv, WorkLeft, ChildrenFollowQueues
    <3>2. workload.service \in [Procs -> Nat \ {0}]
      BY Inputs DEF IInv
    <3> QED
      BY <3>1, <3>2 DEF Served
  <2>2. workload.arrival \in [Procs -> 0 .. TIME_MODULUS - 1]
    BY Inputs DEF IInv
  <2>3. workload.arrival[p] \in Int /\ sim_time >= workload.arrival[p]
    BY <1>1, <2>2, ModulusAssumption
  <2> QED
    BY <2>1, <2>3
<1>2. CASE ~Contains(processes, p)
  BY <1>2 DEF Elapsed, Granted
<1> QED
  BY <1>1, <1>2

LEMMA NextElapsed ==
  ASSUME IInv, Elapsed, Covered, [Next]_vars,
         pc' = "update_time" => sim_time' = sim_time + args.quantum \/ UNCHANGED vars
  PROVE  Elapsed' /\ Covered'
<1> USE DEF input, queues, cpu, clock, fields
<1>1. /\ workload.arrival \in [Procs -> 0 .. TIME_MODULUS - 1]
      /\ workload.service \in [Procs -> Nat \ {0}]
      /\ service_time_left \in [Procs -> Nat]
      /\ args.quantum \in 1 .. 3 /\ sim_time \in 0 .. TIME_MODULUS - 1
      /\ TIME_MODULUS \in Nat \ {0}
      /\ turnaround_time \in [Procs -> 0 .. TIME_MODULUS - 1]
  BY Inputs, ModulusAssumption DEF IInv, TypeOK
<1>2. \A p \in Procs : workload.arrival[p] \in Nat /\ Served(p) \in Int
  BY <1>1 DEF Served
<1>3. CASE UNCHANGED vars
  BY <1>3 DEF vars, Elapsed, Covered, Served, Granted
<1>4. CASE Arrive
  <2>1. processes \in Seq(Procs) /\ processes # <<>> /\ IsInjective(processes)
    BY <1>4 DEF Arrive, HeadHasArrived, IInv, TypeOK, QueuesDistinct
  <2>2. \A p : Contains(processes', p) <=> (Contains(processes, p) /\ p # Head(processes))
    BY <1>4, <2>1, TailElements DEF Arrive
  <2>3. sim_time >= workload.arrival[Head(processes)]
    <3>1. Head(processes) \in Procs
      BY <2>1, ContainsElements
    <3> QED
      BY <1>1, <1>2, <1>4, <3>1 DEF Arrive, HeadHasArrived
  <2>4. Elapsed'
    BY <1>4, <2>2, <2>3, SameElapsed DEF Arrive
  <2>5. Covered'
    BY <1>4 DEF Arrive, Covered
  <2> QED
    BY <2>4, <2>5
<1>5. CASE EndUpdateInput \/ AllocateMemory \/ EndAllocateMemory \/ Preempt \/ Crash \/ Select
  <2>1. /\ UNCHANGED <<workload, sim_time, service_time_left, finished_queue,
                       processes, turnaround_time>>
        /\ pc # "update_time" /\ pc' # "update_time"
    BY <1>5 DEF EndUpdateInput, AllocateMemory, EndAllocateMemory, Preempt, Crash, Select
  <2> QED
    BY <2>1, SameElapsed DEF Covered
<1>6. CASE Continue \/ Idle \/ RunNextProcess \/ NothingToRun
  <2>1. /\ UNCHANGED <<args, workload, service_time_left, finished_queue,
                       processes, turnaround_time>>
        /\ pc # "update_time" /\ pc' = "update_time"
    BY <1>6 DEF Continue, Idle, RunNextProcess, NothingToRun, EndCycle
  <2>2. sim_time' = sim_time + args.quantum
    BY <2>1 DEF vars
  <2>3. ASSUME NEW p \in Procs, ~Contains(processes, p), ~Contains(finished_queue, p)
        PROVE  sim_time' >= workload.arrival[p] + Served(p) + Granted(p)'
    <3>1. sim_time >= workload.arrival[p] + Served(p) + 0
      BY <2>1, <2>3 DEF Elapsed, Granted
    <3>2. Granted(p)' \in {args.quantum, 0}
      BY <2>1 DEF Granted
    <3> QED
      BY <1>1, <1>2, <2>2, <3>1, <3>2
  <2> QED
    BY <2>1, <2>3 DEF Elapsed, Covered, Served
<1>7. CASE UpdateTime
  <2>1. /\ UNCHANGED <<workload, finished_queue, processes, turnaround_time, sim_time>>
        /\ pc = "update_time" /\ pc' = "update_input"
    BY <1>7 DEF UpdateTime
  <2>2. ASSUME NEW p \in Procs, ~Contains(processes, p), ~Contains(finished_queue, p)
        PROVE  sim_time >= workload.arrival[p] + Served(p)'
    <3>1. sim_time >= workload.arrival[p] + Served(p) + Granted(p)
      BY <2>2 DEF Elapsed
    <3>2. service_time_left'[p] = service_time_left[p] - Granted(p)
      <4>1. CASE p = current_process
        BY <1>1, <1>7, <2>1, <4>1, ProcsAssumption DEF UpdateTime, Granted
      <4>2. CASE p # current_process
        BY <1>1, <1>7, <2>1, <4>2 DEF UpdateTime, Granted
      <4> QED
        BY <4>1, <4>2
    <3>3. Served(p)' = Served(p) + Granted(p)
      BY <1>1, <2>1, <3>2 DEF Served, Granted
    <3>4. Granted(p) \in Int
      BY <1>1 DEF Granted
    <3> QED
      BY <1>1, <1>2, <3>1, <3>3, <3>4
  <2>3. \A p \in Procs : Granted(p)' = 0 /\ Served(p)' \in Int
    <3>1. service_time_left' \in [Procs -> Nat]
      BY NextTypeOK DEF IInv, TypeOK
    <3> QED
      BY <1>1, <2>1, <3>1 DEF Granted, Served
  <2>4. Elapsed'
    <3> SUFFICES ASSUME NEW p \in Procs, ~Contains(processes, p), ~Contains(finished_queue, p)
                 PROVE  sim_time >= workload.arrival[p] + Served(p)' + Granted(p)'
      BY <2>1 DEF Elapsed
    <3> QED
      BY <1>1, <1>2, <2>2, <2>3
  <2> QED
    BY <2>1, <2>4 DEF Covered
<1>8. CASE FinishProcess
  <2> DEFINE q == current_process
  <2>1. /\ q \in Procs /\ HasCpu(q) /\ pc = "update_time" /\ pc' # "update_time"
    BY <1>8, CurrentHasCpu DEF FinishProcess, IInv, Control
  <2>2. \A x : Contains(finished_queue', x) <=> (Contains(finished_queue, x) \/ x = q)
    BY <1>8, <2>1, AppendElements DEF FinishProcess, IInv, TypeOK
  <2>3. /\ UNCHANGED <<workload, processes, sim_time>>
        /\ service_time_left[q] <= args.quantum
        /\ \A p \in Procs \ {q} : /\ service_time_left'[p] = service_time_left[p]
                                  /\ turnaround_time'[p] = turnaround_time[p]
        /\ turnaround_time'[q] = (sim_time - workload.arrival[q]) % TIME_MODULUS
    BY <1>1, <1>8, <2>1 DEF FinishProcess
  <2>4. ~Contains(processes, q) /\ ~Contains(finished_queue, q)
    BY <2>1 DEF IInv, ExactlyOnePlace
  <2> HIDE DEF q
  <2>5. sim_time - workload.arrival[q] >= workload.service[q]
    <3>1. sim_time >= workload.arrival[q] + Served(q) + args.quantum
      BY <2>1, <2>4 DEF Elapsed, Granted, q
    <3>2. /\ workload.arrival[q] \in Nat /\ workload.service[q] \in Nat
          /\ service_time_left[q] \in Nat
      BY <1>1, <1>2, <2>1
    <3> QED
      BY <1>1, <2>3, <3>1, <3>2 DEF Served
  <2>6. turnaround_time'[q] = sim_time - workload.arrival[q]
    <3>1. sim_time - workload.arrival[q] \in 0 .. TIME_MODULUS - 1
      BY <1>1, <1>2, <2>1, <2>5
    <3>2. \A t \in 0 .. TIME_MODULUS - 1 : t % TIME_MODULUS = t
      BY <1>1, SMTT(60)
    <3> QED
      BY <2>3, <3>1, <3>2
  <2>7. Covered'
    <3> SUFFICES ASSUME NEW p \in Procs, Contains(finished_queue', p)
                 PROVE  turnaround_time'[p] >= workload.service[p]
      BY <2>3 DEF Covered
    <3>1. CASE p = q
      BY <2>5, <2>6, <3>1
    <3>2. CASE p # q
      BY <2>2, <2>3, <3>2 DEF Covered
    <3> QED
      BY <3>1, <3>2
  <2>8. Elapsed'
    <3> SUFFICES ASSUME NEW p \in Procs, ~Contains(processes, p), ~Contains(finished_queue, p),
                        p # q
                 PROVE  sim_time >= workload.arrival[p] + Served(p)' + Granted(p)'
      BY <2>2, <2>3 DEF Elapsed
    <3>1. Served(p)' = Served(p) /\ Granted(p)' = 0 /\ Granted(p) = 0
      BY <2>1, <2>3 DEF Served, Granted, q
    <3> QED
      BY <3>1 DEF Elapsed
  <2> QED
    BY <2>7, <2>8
<1> QED
  BY <1>3, <1>4, <1>5, <1>6, <1>7, <1>8 DEF Next, Terminated

(* As long as the clock does not wrap around, the turnaround time of a     *)
(* process that has finished is at least its service time. Time overhead,  *)
(* the quotient of the two, is never less than one, and the difference     *)
(* that finish_process() stores has not wrapped around either.             *)
THEOREM TurnaroundCoversService == Spec /\ NeverWraps => []Covered
<1>1. Init => Elapsed /\ Covered
  <2> SUFFICES ASSUME Init
               PROVE  Elapsed /\ Covered
    OBVIOUS
  <2>1. processes = workload.order /\ finished_queue = <<>>
    BY DEF Init
  <2>2. \A p \in Procs : Contains(workload.order, p)
    BY InitTypeOK, Inputs
  <2>3. \A p \in Procs : ~Contains(<<>>, p)
    BY DEF Contains
  <2> QED
    BY <2>1, <2>2, <2>3 DEF Elapsed, Covered
<1>2. IInv /\ Elapsed /\ Covered /\ [Next]_vars
        /\ [pc' = "update_time" => sim_time' = sim_time + args.quantum]_vars
        => Elapsed' /\ Covered'
  BY NextElapsed
<1> QED
  BY <1>1, <1>2, InductiveInvariant, PTL DEF Spec, NeverWraps
=============================================================================
