---------------------------- MODULE LoadProcesses ----------------------------
(***************************************************************************)
(* load_processes() in process_data.c: fscanf("%u %s %u %d") until it      *)
(* returns EOF.  A file is the sequence of its tokens, of which only       *)
(* matters whether they are numbers; a field holds the position of the     *)
(* token it was read from, or UNSET.                                       *)
(***************************************************************************)
EXTENDS Naturals, Sequences

CONSTANTS
  MAX_TOKENS,    \* bound: length of a file
  MAX_PROCESSES  \* bound: processes that are enqueued

ASSUME BoundsAssumption == MAX_TOKENS \in Nat /\ MAX_PROCESSES \in Nat

VARIABLES
  file,
  next,       \* the position of the next token
  field,      \* the conversion fscanf() is at
  process,    \* what it has read so far
  processes,
  pc          \* "load" or "done"
vars == <<file, next, field, process, processes, pc>>

Format == <<"number", "any", "number", "number">>
UNSET == 0  \* the initial values in read_process()
Unread == [f \in 1 .. 4 |-> UNSET]

Init ==
  /\ file \in UNION {[1 .. n -> {"number", "word"}] : n \in 0 .. MAX_TOKENS}
  /\ next = 1
  /\ field = 1
  /\ process = Unread
  /\ processes = <<>>
  /\ pc = "load"

(* read_process() returns p, and the next call begins. *)
EnqueueProcess(p) ==
  /\ Len(processes) < MAX_PROCESSES
  /\ processes' = Append(processes, p)
  /\ process' = Unread
  /\ field' = 1
  /\ UNCHANGED pc

Convert ==
  /\ pc = "load"
  /\ next <= Len(file)
  /\ Format[field] \in {"any", file[next]}
  /\ next' = next + 1
  /\ LET p == [process EXCEPT ![field] = next]
     IN IF field = 4 THEN EnqueueProcess(p)
        ELSE process' = p /\ field' = field + 1 /\ UNCHANGED <<processes, pc>>
  /\ UNCHANGED file

(* Mutant of Mismatch: the word is passed over. *)
MismatchSkips ==
  /\ pc = "load"
  /\ next <= Len(file)
  /\ Format[field] \notin {"any", file[next]}
  /\ next' = next + 1
  /\ EnqueueProcess(process)
  /\ UNCHANGED file

(* A word in the place of a number is left in the file, and fscanf()       *)
(* returns fewer than four fields, which is not EOF. *)
Mismatch ==
  /\ pc = "load"
  /\ next <= Len(file)
  /\ Format[field] \notin {"any", file[next]}
  /\ EnqueueProcess(process)
  /\ UNCHANGED <<file, next>>

(* It returns EOF only at the first field. *)
EndOfFile ==
  /\ pc = "load"
  /\ next > Len(file)
  /\ IF field = 1 THEN pc' = "done" /\ UNCHANGED <<process, processes, field>>
                  ELSE EnqueueProcess(process)
  /\ UNCHANGED <<file, next>>

Next == Convert \/ Mismatch \/ EndOfFile
Spec == Init /\ [][Next]_vars
-----------------------------------------------------------------------------
(* When the program goes on, it has a process for every line and its       *)
(* fields are the line's; a last line that is cut off leaves fields unset. *)
(* A word in the place of a number never ends in processes with shifted    *)
(* fields: it is not consumed, and the program does not go on.             *)
NumbersInPlace == \A i \in DOMAIN file : Format[((i - 1) % 4) + 1] \in {"any", file[i]}
LoadedExactly ==
  pc = "done" =>
    /\ NumbersInPlace
    /\ Len(processes) = (Len(file) + 3) \div 4
    /\ \A i \in DOMAIN processes, f \in 1 .. 4 :
         LET token == 4 * (i - 1) + f
         IN processes[i][f] = IF token <= Len(file) THEN token ELSE UNSET

=============================================================================
