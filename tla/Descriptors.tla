----------------------------- MODULE Descriptors -----------------------------
(***************************************************************************)
(* Who holds which end of which pipe.  fork() copies every descriptor of   *)
(* the parent into the child, execv() keeps them, and only the ends named  *)
(* in start_real_process() and free_process() are closed.  A read is told  *)
(* of a death, by EOF, only if no process holds the other end, and a       *)
(* write, by SIGPIPE, likewise.                                            *)
(*                                                                         *)
(* Requests are abstract here: the parent writes to one child and reads    *)
(* its answer (RealProcess has the bytes and the signals).  suspend_       *)
(* process() waits with waitpid() instead and needs no descriptor.         *)
(***************************************************************************)
EXTENDS Naturals, FiniteSets

CONSTANTS
  Procs,      \* the processes of the input file
  PARENT,
  Limits,     \* the numbers of descriptors a system may allow a process
  MAX_ALIVE,  \* bound: children that are unfinished at once; 1 under SJF
  FAULTS      \* TRUE if children may be killed

OTHERS == 4  \* stdin, stdout, stderr and the input file

(* There is a process in the file, and the system has let it be opened. *)
ASSUME ProcsAssumption == Procs # {} /\ PARENT \notin Procs
ASSUME LimitsAssumption == Limits \subseteq Nat /\ \A n \in Limits : n >= OTHERS
ASSUME BoundsAssumption == MAX_ALIVE \in Nat /\ FAULTS \in BOOLEAN

VARIABLES
  open_max,  \* the limit of this system
  ppc,       \* where the parent is
  process,   \* the process it deals with
  answered,  \* its answer is in its stdout
  finished,  \* the processes finish_process() has asked to terminate
  child,     \* what has become of the real processes
  held       \* the ends each process holds
vars == <<open_max, ppc, process, answered, finished, child, held>>

READ == 0
WRITE == 1
Pipe(p) == {p} \X {"fd_out", "fd_in"} \X {READ, WRITE}
Ends == UNION {Pipe(p) : p \in Procs}
FdOut(p, end) == <<p, "fd_out", end>>   \* the child's stdin
FdIn(p, end) == <<p, "fd_in", end>>     \* the child's stdout

Holders(end) == {x \in Procs \cup {PARENT} : end \in held[x]}
Alive == {p \in Procs : child[p] \in {"forked", "running", "exiting"}}

Init ==
  /\ open_max \in Limits
  /\ ppc = "idle"
  /\ process = CHOOSE p \in Procs : TRUE
  /\ answered = FALSE
  /\ finished = {}
  /\ child = [p \in Procs |-> "none"]
  /\ held = [x \in Procs \cup {PARENT} |-> {}]
-----------------------------------------------------------------------------
(* The program ends, here or wherever it fails: its descriptors are closed. *)
ExitParent(how) ==
  /\ ppc' = how
  /\ held' = [held EXCEPT ![PARENT] = {}]

(* Mutant of HasDescriptors: only the second pipe() is looked at. *)
HasDescriptorsForOne == OTHERS + Cardinality(held[PARENT]) + 2 <= open_max

HasDescriptors == OTHERS + Cardinality(held[PARENT]) + 4 <= open_max

(* start_real_process(): two times pipe(), and fork() *)
Start(p) ==
  /\ ppc = "idle"
  /\ child[p] = "none"
  /\ Cardinality(Alive) < MAX_ALIVE
  /\ HasDescriptors
  /\ ppc' = "fork"
  /\ process' = p
  /\ child' = [child EXCEPT ![p] = "forked"]
  /\ held' = [held EXCEPT ![PARENT] = @ \cup Pipe(p), ![p] = held[PARENT] \cup Pipe(p)]
  /\ UNCHANGED <<open_max, answered, finished>>

PipeFails(p) ==
  /\ ppc = "idle"
  /\ child[p] = "none"
  /\ Cardinality(Alive) < MAX_ALIVE
  /\ ~HasDescriptors
  /\ ExitParent("failed")
  /\ UNCHANGED <<open_max, process, answered, finished, child>>

(* Mutant of ParentEnds: fd_in[WRITE] stays open. *)
ParentEndsOut(p) == {FdOut(p, READ)}

ParentEnds(p) == {FdOut(p, READ), FdIn(p, WRITE)}

ParentCloses ==
  /\ ppc = "fork"
  /\ held' = [held EXCEPT ![PARENT] = @ \ ParentEnds(process)]
  /\ ppc' = "write"
  /\ UNCHANGED <<open_max, process, answered, finished, child>>

(* The child closes its copies of the parent's ends; those of the children *)
(* before it stay open.                                                    *)
ChildCloses(p) ==
  /\ child[p] = "forked"
  /\ child' = [child EXCEPT ![p] = "running"]
  /\ held' = [held EXCEPT ![p] = @ \ {FdOut(p, WRITE), FdIn(p, READ)}]
  /\ UNCHANGED <<open_max, ppc, process, answered, finished>>
-----------------------------------------------------------------------------
(* continue_process() and finish_process() *)
Request(p, last) ==
  /\ ppc = "idle"
  /\ child[p] # "none"
  /\ p \notin finished
  /\ ppc' = "write"
  /\ process' = p
  /\ finished' = IF last THEN finished \cup {p} ELSE finished
  /\ UNCHANGED <<open_max, answered, child, held>>

(* send_bytes(): without a reader, SIGPIPE ends the program. *)
SendBytes ==
  /\ ppc = "write"
  /\ IF Holders(FdOut(process, READ)) = {}
     THEN ExitParent("failed")
     ELSE ppc' = "read" /\ UNCHANGED held
  /\ UNCHANGED <<open_max, process, answered, finished, child>>

Answer(p) ==
  /\ child[p] = "running"
  /\ ppc = "read" /\ process = p /\ ~answered
  /\ answered' = TRUE
  /\ child' = [child EXCEPT ![p] = IF p \in finished THEN "exiting" ELSE @]
  /\ UNCHANGED <<open_max, ppc, process, finished, held>>

(* read() returns the answer or, if there is no writer left, an EOF, which *)
(* read_and_verify() takes for a failure and finish_process() does not     *)
(* look for.  Otherwise it blocks.                                         *)
Read ==
  /\ ppc = "read"
  /\ \/ answered /\ ppc' = "idle" /\ UNCHANGED held
     \/ /\ ~answered /\ Holders(FdIn(process, WRITE)) = {}
        /\ IF process \in finished THEN ppc' = "idle" /\ UNCHANGED held
                                   ELSE ExitParent("failed")
  /\ answered' = FALSE
  /\ UNCHANGED <<open_max, process, finished, child>>

Ended(p) ==
  /\ child' = [child EXCEPT ![p] = "dead"]
  /\ held' = [held EXCEPT ![p] = {}]
  /\ UNCHANGED <<open_max, ppc, process, answered, finished>>

ChildExits(p) == child[p] = "exiting" /\ Ended(p)
Die(p) == FAULTS /\ p \in Alive /\ Ended(p)

(* free_process() for each of them, at the end of cycle() *)
FreeProcesses ==
  /\ ppc = "idle"
  /\ finished = Procs
  /\ ExitParent("done")
  /\ UNCHANGED <<open_max, process, answered, finished, child>>
-----------------------------------------------------------------------------
ParentStep == ParentCloses \/ SendBytes \/ Read
ChildStep(p) == ChildCloses(p) \/ Answer(p) \/ ChildExits(p)

Next ==
  \/ ParentStep \/ FreeProcesses
  \/ \E p \in Procs : \/ Start(p) \/ PipeFails(p) \/ Request(p, FALSE) \/ Request(p, TRUE)
                      \/ ChildStep(p) \/ Die(p)

Spec == Init /\ [][Next]_vars

(* The kernel runs every process that can run. *)
FairSpec == Spec /\ WF_vars(ParentStep) /\ \A p \in Procs : WF_vars(ChildStep(p))
-----------------------------------------------------------------------------
(* Types, and no process has more descriptors than it may. *)
TypeOK ==
  /\ open_max \in Limits
  /\ ppc \in {"idle", "fork", "write", "read", "done", "failed"}
  /\ process \in Procs
  /\ answered \in BOOLEAN
  /\ finished \subseteq Procs
  /\ child \in [Procs -> {"none", "forked", "running", "exiting", "dead"}]
  /\ held \in [Procs \cup {PARENT} -> SUBSET Ends]
  /\ \A x \in DOMAIN held : OTHERS + Cardinality(held[x]) <= open_max

(* While the parent writes to a child or waits for its answer, that child  *)
(* is the only one that could read or write there, whatever the children   *)
(* forked before and after it have inherited: its death is told at once.   *)
DeathIsSeen ==
  ppc \in {"write", "read"} =>
    /\ Holders(FdOut(process, READ)) \subseteq {process}
    /\ Holders(FdIn(process, WRITE)) \subseteq {process}

(* The parent never waits for ever, whichever children are killed and      *)
(* whatever the others have inherited.                                     *)
ParentGoesOn == (ppc = "read") ~> (ppc # "read")

(* cases/task4/600.out and 1200.out: every process of a file of 600 or     *)
(* 1200 finishes, which it cannot unless it is started.                    *)
EverybodyStarted == ppc # "failed"
=============================================================================
