----------------------------- MODULE RealProcess -----------------------------
(***************************************************************************)
(* One real process and the parent that controls it: the requests of       *)
(* main.c (start_real_process, continue_process, suspend_process and the   *)
(* termination in finish_process) and the loop of process.c, with the two  *)
(* pipes and the signals between them.                                     *)
(*                                                                         *)
(* The parent writes the four bytes of the time into the child's stdin,    *)
(* one by one, sends the signal of the request and waits for the child's   *)
(* answer.  A byte is modelled by the number of the request it belongs to. *)
(***************************************************************************)
EXTENDS Integers, SequencesExt

CONSTANT MAX_REQUESTS  \* bound: requests made of one process

ASSUME BoundAssumption == MAX_REQUESTS \in Nat \ {0}

VARIABLES
  faults,    \* TRUE if execv() may fail and either process may be killed
  requests,  \* the requests made so far; the last one is open unless ppc = "idle"
  ppc,       \* where the parent is in it
  sent,      \* bytes of it written
  hash,      \* what finish_process() has in sha256[]: HASH or NOTHING
  stdin,     \* the pipe fd_out: bytes to the child
  stdout,    \* the pipe fd_in: echoed bytes, and HASH
  kstate,    \* the kernel's state of the child
  report,    \* what waitpid() has to report of it
  pending,   \* signals pending for it
  blocked,   \* its signal mask
  cpc,       \* where it is in process.c
  op,        \* the Op it handles
  buf,       \* the bytes of it that read_store_dword() has read
  digest     \* what it has stored: the requests, as it understood them

parent == <<requests, ppc, sent, hash>>
pipes  == <<stdin, stdout>>
kernel == <<kstate, report, pending, blocked>>
image  == <<cpc, op, buf, digest>>
vars   == <<faults, parent, pipes, kernel, image>>

DWORD == 4
Signals == {"TERM", "CONT", "TSTP"}

(* The signal the parent sends with a request; START needs none. *)
Signal == [CONT |-> "CONT", STOP |-> "TSTP", TERM |-> "TERM"]
(* The request process.c takes a signal for. *)
OpOf == [CONT |-> "CONT", TSTP |-> "STOP", TERM |-> "TERM"]

Number == Len(requests)
Request == Last(requests)
Digest(n, o) == [op |-> o, bytes |-> [i \in 1 .. DWORD |-> n]]

HASH == 0         \* the line of 65 characters that ends a child's output
NOTHING == -1     \* uninitialised memory
TEXT == MAX_REQUESTS + 1  \* a byte that is no request's

(* What the parent has printed and not yet flushed, as far as the child's  *)
(* answers are concerned: none, or some bytes, each of which may happen to *)
(* be the last one of a request's time.                                    *)
Transcripts == BoundedSeq({1, 2, TEXT}, 2)

Init ==
  /\ faults \in BOOLEAN
  /\ requests = <<>>
  /\ ppc = "idle"
  /\ sent = 0
  /\ hash = NOTHING
  /\ stdin = <<>>
  /\ stdout = <<>>
  /\ kstate = "absent"
  /\ report = "none"
  /\ pending = {}
  /\ blocked = {}
  /\ cpc = "boot"
  /\ op = "START"
  /\ buf = <<>>
  /\ digest = <<>>
-----------------------------------------------------------------------------
(***************************************************************************)
(* The parent.  The scheduler makes one request at a time, as the protocol *)
(* of ProcessLifecycle allows.                                             *)
(***************************************************************************)
OpenWithoutReset(o) ==  \* mutant: the loop of send_bytes() starts where it ended
  /\ ppc = "idle"
  /\ Number < MAX_REQUESTS
  /\ requests' = Append(requests, o)
  /\ ppc' = "write"
  /\ UNCHANGED <<sent, hash>>

Open(o) ==
  /\ ppc = "idle"
  /\ Number < MAX_REQUESTS
  /\ requests' = Append(requests, o)
  /\ ppc' = "write"
  /\ sent' = 0
  /\ UNCHANGED hash

(* start_real_process(): pipe(), fork() *)
StartRequest ==
  /\ requests = <<>>
  /\ Open("START")
  /\ kstate' = "running"
  /\ UNCHANGED <<pipes, report, pending, blocked, image>>

(* continue_process(): of a suspended process, or in every cycle *)
ContinueRequest ==
  /\ requests # <<>>
  /\ Request # "TERM"
  /\ Open("CONT")
  /\ UNCHANGED <<pipes, kernel, image>>

(* suspend_process() and finish_process(): of the process that has the CPU *)
StopOrTermRequest(o) ==
  /\ requests # <<>>
  /\ Request \in {"START", "CONT"}
  /\ Open(o)
  /\ UNCHANGED <<pipes, kernel, image>>

(* send_bytes(), one turn of its loop *)
WriteByte ==
  /\ ppc = "write"
  /\ kstate # "exited"
  /\ stdin' = Append(stdin, Number)
  /\ sent' = sent + 1
  /\ ppc' = IF sent' < DWORD THEN "write"
            ELSE IF Request = "START" THEN "wait" ELSE "kill"
  /\ UNCHANGED <<requests, hash, stdout, kernel, image>>

(* No reader is left: SIGPIPE ends the program. *)
WriteFails ==
  /\ ppc = "write"
  /\ kstate = "exited"
  /\ ppc' = "failed"
  /\ UNCHANGED <<requests, sent, hash, pipes, kernel, image>>

(* Signals of the kernel.  SIGCONT resumes a stopped process, whatever its *)
(* mask, and takes back what would stop it; a stop signal takes back a     *)
(* pending SIGCONT.  What is not blocked has its default effect.           *)
GenerateCont ==
  /\ kstate' = "running"
  /\ report' = "none"
  /\ pending' = (pending \ {"TSTP"}) \cup ({"CONT"} \cap blocked)
  /\ UNCHANGED blocked

GenerateStop ==
  /\ kstate' = IF "TSTP" \in blocked THEN kstate ELSE "stopped"
  /\ report' = IF "TSTP" \in blocked THEN report ELSE "stopped"
  /\ pending' = (pending \ {"CONT"}) \cup ({"TSTP"} \cap blocked)
  /\ UNCHANGED blocked

GenerateTerm ==
  /\ kstate' = IF "TERM" \in blocked THEN kstate ELSE "exited"
  /\ report' = IF "TERM" \in blocked THEN report ELSE "exited"
  /\ pending' = pending \cup ({"TERM"} \cap blocked)
  /\ UNCHANGED blocked

Generate(signal) ==
  IF kstate = "exited" THEN UNCHANGED kernel
  ELSE CASE signal = "CONT" -> GenerateCont
         [] signal = "TSTP" -> GenerateStop
         [] signal = "TERM" -> GenerateTerm

(* kill() in continue_process(), suspend_process(), finish_process() *)
Kill ==
  /\ ppc = "kill"
  /\ Generate(Signal[Request])
  /\ ppc' = "wait"
  /\ UNCHANGED <<requests, sent, hash, pipes, image>>

(* Mutants of ReadAndVerify: it does not wait; it takes an EOF for a byte. *)
ReadNothing ==
  /\ ppc = "wait"
  /\ Request \in {"START", "CONT"}
  /\ ppc' = "idle"
  /\ UNCHANGED <<requests, sent, hash, pipes, kernel, image>>

ReadWithoutVerifying ==
  /\ ppc = "wait"
  /\ Request \in {"START", "CONT"}
  /\ stdout # <<>> \/ kstate = "exited"
  /\ stdout' = <<>>
  /\ ppc' = "idle"
  /\ UNCHANGED <<requests, sent, hash, stdin, kernel, image>>

(* The parent is killed. *)
ParentDies ==
  /\ faults
  /\ ppc # "failed"
  /\ ppc' = "failed"
  /\ UNCHANGED <<requests, sent, hash, pipes, kernel, image>>

(* read_and_verify(): an EOF or another byte ends the program. *)
ReadAndVerify ==
  /\ ppc = "wait"
  /\ Request \in {"START", "CONT"}
  /\ stdout # <<>> \/ kstate = "exited"
  /\ IF stdout = <<>>
     THEN ppc' = "failed" /\ UNCHANGED stdout
     ELSE /\ stdout' = Tail(stdout)
          /\ ppc' = IF Head(stdout) = Number THEN "idle" ELSE "failed"
  /\ UNCHANGED <<requests, sent, hash, stdin, kernel, image>>

(* Mutants of WaitUntilStopped: there is no waitpid(); its -1 is ignored. *)
WaitForNothing ==
  /\ ppc = "wait"
  /\ Request = "STOP"
  /\ ppc' = "idle"
  /\ UNCHANGED <<requests, sent, hash, pipes, kernel, image>>

WaitForever ==
  /\ ppc = "wait"
  /\ Request = "STOP"
  /\ report = "stopped"
  /\ report' = "none"
  /\ ppc' = "idle"
  /\ UNCHANGED <<requests, sent, hash, pipes, kstate, pending, blocked, image>>

(* The waitpid() loop of suspend_process().  If the child has exited, the  *)
(* next waitpid() has no child to wait for and ends the program.           *)
WaitUntilStopped ==
  /\ ppc = "wait"
  /\ Request = "STOP"
  /\ report # "none"
  /\ report' = "none"
  /\ ppc' = IF report = "stopped" THEN "idle" ELSE "failed"
  /\ UNCHANGED <<requests, sent, hash, pipes, kstate, pending, blocked, image>>

(* The read() of finish_process(): its result is not looked at, so that    *)
(* an EOF leaves sha256[] as it was.                                       *)
ReadHash ==
  /\ ppc = "wait"
  /\ Request = "TERM"
  /\ stdout # <<>> \/ kstate = "exited"
  /\ IF stdout = <<>>
     THEN UNCHANGED <<hash, stdout>>
     ELSE hash' = Head(stdout) /\ stdout' = Tail(stdout)
  /\ ppc' = "idle"
  /\ UNCHANGED <<requests, sent, stdin, kernel, image>>
-----------------------------------------------------------------------------
(***************************************************************************)
(* The child.  Nothing of it runs unless the kernel lets it.               *)
(***************************************************************************)
Running == kstate = "running"

(* execv() fails: exit() flushes the copy that fork() has made of the      *)
(* parent's buffer for stdout, which is the child's pipe by now.           *)
ExecFails ==
  /\ faults
  /\ Running
  /\ cpc = "boot"
  /\ stdout' \in Transcripts
  /\ cpc' = "exit"
  /\ UNCHANGED <<parent, stdin, kernel, op, buf, digest>>

(* execv() and main() of process.c up to its loop: the signals are blocked *)
(* before the first byte is read.                                          *)
Boot ==
  /\ Running
  /\ cpc = "boot"
  /\ blocked' = Signals
  /\ cpc' = "read"
  /\ UNCHANGED <<parent, pipes, kstate, report, pending, op, buf, digest>>

(* The signal read() takes from the signalfd: SIGTERM, SIGCONT and SIGTSTP *)
(* have the numbers 15, 18 and 20, and the lowest pending one comes first. *)
Lowest(signals) ==
  IF "TERM" \in signals THEN "TERM" ELSE IF "CONT" \in signals THEN "CONT" ELSE "TSTP"

(* Read the signalfd, and set the mask for the handling of the signal.     *)
(* Unblocking a pending signal would deliver it: there is none.            *)
Poll ==
  LET signal == Lowest(pending) IN
    /\ Running
    /\ cpc = "poll"
    /\ pending # {}
    /\ pending' = pending \ {signal}
    /\ op' = OpOf[signal]
    /\ buf' = <<>>
    /\ blocked' = CASE signal = "TERM" -> blocked \ {"TERM"}
                    [] signal = "TSTP" -> blocked \ {"TSTP"}
                    [] signal = "CONT" -> blocked \cup {"TSTP"}
    /\ cpc' = "read"
    /\ UNCHANGED <<parent, pipes, kstate, report, digest>>

(* Mutant of Read: a short read() is taken for the whole dword. *)
ReadOnce ==
  LET n == Min({Len(stdin), DWORD}) IN
    /\ Running
    /\ cpc = "read"
    /\ n > 0
    /\ buf' = SubSeq(stdin, 1, n)
    /\ stdin' = SubSeq(stdin, n + 1, Len(stdin))
    /\ cpc' = "check"
    /\ UNCHANGED <<parent, stdout, kernel, op, digest>>

(* read_store_dword(): one read() of what is there.  Then it looks for     *)
(* bytes that are left over, and only then echoes the last one.  When the  *)
(* parent is dead the input ends, read() returns 0 and the loop never      *)
(* ends: the child goes on reading nothing.                                *)
Read ==
  LET n == Min({Len(stdin), DWORD - Len(buf)}) IN
    /\ Running
    /\ cpc = "read"
    /\ n > 0
    /\ buf' = buf \o SubSeq(stdin, 1, n)
    /\ stdin' = SubSeq(stdin, n + 1, Len(stdin))
    /\ cpc' = IF Len(buf') < DWORD THEN "read" ELSE "check"
    /\ UNCHANGED <<parent, stdout, kernel, op, digest>>

AfterCheck == IF op \in {"START", "CONT"} THEN "echo" ELSE "store"

(* ioctl(FIONREAD): bytes of another request end the child. *)
CheckLeftover ==
  /\ Running
  /\ cpc = "check"
  /\ IF stdin = <<>>
     THEN /\ cpc' = AfterCheck
          /\ UNCHANGED kernel
     ELSE /\ kstate' = "exited"
          /\ report' = "exited"
          /\ UNCHANGED <<cpc, pending, blocked>>
  /\ UNCHANGED <<parent, pipes, op, buf, digest>>

(* A write to a dead parent: SIGPIPE ends the child. *)
WriteToNobody ==
  /\ Running
  /\ cpc \in {"echo", "hash"}
  /\ ppc = "failed"
  /\ kstate' = "exited"
  /\ report' = "exited"
  /\ UNCHANGED <<parent, pipes, pending, blocked, image>>

Echo ==
  /\ Running
  /\ cpc = "echo"
  /\ ppc # "failed"
  /\ stdout' = Append(stdout, Last(buf))
  /\ cpc' = "store"
  /\ UNCHANGED <<parent, stdin, kernel, op, buf, digest>>

AfterStore == CASE op = "STOP" -> "stop" [] op = "TERM" -> "hash" [] OTHER -> "poll"

Store ==
  /\ Running
  /\ cpc = "store"
  /\ digest' = Append(digest, [op |-> op, bytes |-> buf])
  /\ cpc' = AfterStore
  /\ UNCHANGED <<parent, pipes, kernel, op, buf>>

(* raise(SIGSTOP), which cannot be blocked *)
Stop ==
  /\ Running
  /\ cpc = "stop"
  /\ kstate' = "stopped"
  /\ report' = "stopped"
  /\ pending' = pending \ {"CONT"}
  /\ cpc' = "poll"
  /\ UNCHANGED <<parent, pipes, blocked, op, buf, digest>>

(* printf() of the hash, and exit(), which flushes it *)
PrintHash ==
  /\ Running
  /\ cpc = "hash"
  /\ ppc # "failed"
  /\ stdout' = Append(stdout, HASH)
  /\ cpc' = "exit"
  /\ UNCHANGED <<parent, stdin, kernel, op, buf, digest>>

Exit ==
  /\ Running
  /\ cpc = "exit"
  /\ kstate' = "exited"
  /\ report' = "exited"
  /\ UNCHANGED <<parent, pipes, pending, blocked, image>>

(* Somebody else kills the child. *)
Die ==
  /\ faults
  /\ kstate \in {"running", "stopped"}
  /\ kstate' = "exited"
  /\ report' = "exited"
  /\ UNCHANGED <<parent, pipes, pending, blocked, image>>
-----------------------------------------------------------------------------
ParentStep == \/ WriteByte \/ WriteFails \/ Kill
              \/ ReadAndVerify \/ WaitUntilStopped \/ ReadHash

ChildStep == \/ Boot \/ Poll \/ Read \/ CheckLeftover \/ Echo \/ Store
             \/ Stop \/ PrintHash \/ Exit \/ WriteToNobody

Environment == \/ StartRequest \/ ContinueRequest
               \/ \E o \in {"STOP", "TERM"} : StopOrTermRequest(o)
               \/ ExecFails \/ Die \/ ParentDies

Next == (ParentStep \/ ChildStep \/ Environment) /\ UNCHANGED faults

Spec == Init /\ [][Next]_vars

(* The kernel runs both processes whenever they can run. *)
FairSpec == Spec /\ WF_vars(ParentStep /\ UNCHANGED faults) /\ WF_vars(ChildStep /\ UNCHANGED faults)
-----------------------------------------------------------------------------
(***************************************************************************)
(* Properties                                                              *)
(***************************************************************************)
(* The pipes never hold more than one request and one answer, or what is   *)
(* written to a child whose execv() has failed, and by it: no write() to   *)
(* them ever blocks, so that none does here.                               *)
TypeOK ==
  /\ faults \in BOOLEAN
  /\ requests \in Seq({"START", "CONT", "STOP", "TERM"})
  /\ ppc \in {"idle", "write", "kill", "wait", "failed"}
  /\ sent \in 0 .. DWORD
  /\ hash \in NOTHING .. TEXT
  /\ stdin \in Seq(1 .. MAX_REQUESTS) /\ Len(stdin) <= (IF faults THEN 4 * DWORD ELSE DWORD)
  /\ stdout \in Seq(0 .. TEXT) /\ Len(stdout) <= (IF faults THEN 2 ELSE 1)
  /\ kstate \in {"absent", "running", "stopped", "exited"}
  /\ report \in {"none", "stopped", "exited"}
  /\ pending \subseteq Signals
  /\ blocked \subseteq Signals
  /\ cpc \in {"boot", "poll", "read", "check", "echo", "store", "stop", "hash", "exit"}
  /\ op \in {"START", "CONT", "STOP", "TERM"}
  /\ buf \in Seq(1 .. MAX_REQUESTS) /\ Len(buf) <= DWORD
  /\ Len(digest) <= MAX_REQUESTS

(* The parent never gives up: no echo is missing or wrong, no write fails, *)
(* and the child never finds the bytes of two requests in its input.  That *)
(* holds as long as nothing outside of the program kills the child.        *)
NeverFails == ~faults => ppc # "failed"

(* What the child stores, and therefore hashes, is what the parent asked   *)
(* for: every request once, in order, under the operation it was made      *)
(* with.  Signals are not queued, are dequeued by number and cancel each   *)
(* other, and the bytes do not say which signal they go with.              *)
DigestExact ==
  /\ Len(digest) <= Number
  /\ \A i \in DOMAIN digest : digest[i] = Digest(i, requests[i])

(* When the parent goes on, the child is where the parent believes it to   *)
(* be, with nothing left over in pipes or signals: stopped after           *)
(* suspend_process(), about to wait for the next signal, with all of them  *)
(* blocked, after the others, and finished after the last.                 *)
Settled ==
  ~faults /\ ppc = "idle" /\ requests # <<>> =>
    /\ stdin = <<>> /\ stdout = <<>> /\ pending = {}
    /\ CASE Request = "STOP" ->
              kstate = "stopped" /\ cpc = "poll" /\ Len(digest) = Number
         [] Request = "TERM" ->
              cpc = "exit" /\ hash = HASH /\ Len(digest) = Number
         [] OTHER ->
              /\ Running
              /\ blocked = Signals
              /\ \/ cpc = "poll" /\ Len(digest) = Number
                 \/ cpc = "store" /\ Len(digest) = Number - 1

(* The state the child really is in when the parent goes on; while a       *)
(* request is open, what the one before it has brought about.              *)
Actual == IF kstate = "absent" THEN "none"
          ELSE IF kstate = "exited" \/ cpc = "exit" THEN "terminated"
          ELSE kstate
After(o) == CASE o = "STOP" -> "stopped" [] o = "TERM" -> "terminated" [] OTHER -> "running"
status == IF ppc = "idle" THEN Actual
          ELSE IF Number = 1 THEN "none" ELSE After(requests[Number - 1])

Lifecycle == INSTANCE ProcessLifecycle
               WITH Procs <- {"process"}, child <- [p \in {"process"} |-> status]

(* A call of main.c is the action of ProcessLifecycle it stands for: it    *)
(* has its effect, and no other, by the time the parent goes on.  With the *)
(* initial states this implies Lifecycle!Spec.                             *)
Call ==
  IF ppc # "idle" /\ ppc' = "idle"
  THEN CASE Request = "START" -> Lifecycle!Start("process")
         [] Request = "CONT"  -> Lifecycle!Continue("process")
         [] Request = "STOP"  -> Lifecycle!Suspend("process")
         [] Request = "TERM"  -> Lifecycle!Terminate("process")
  ELSE UNCHANGED status
ImplementsLifecycle == Lifecycle!Init /\ [][~faults => Call]_vars

(* Every request ends: parent and child never wait for each other, no      *)
(* signal the parent waits for is lost, and if either process fails, the   *)
(* parent is told by an EOF, a SIGPIPE or waitpid().  (NeverFails: it ends *)
(* with an answer, if nothing fails.  A child whose execv() has failed may *)
(* answer too.)                                                            *)
NeverHangs == (ppc = "write") ~> (ppc \in {"idle", "failed"})

Executed == blocked # {}

(* Whatever fails, the parent goes on after a start, a continuation or a   *)
(* stop of a child that has been executed only if it has read the request. *)
AnswersAreTrue ==
  ppc = "idle" /\ Executed /\ Request # "TERM" =>
    \/ Len(digest) = Number
    \/ cpc = "store" /\ op = Request /\ buf = Digest(Number, Request).bytes

(* A parent that dies in the middle of a request can leave its child in a  *)
(* loop that reads an EOF for ever, but only in the first request: in all  *)
(* others the signal that makes the child read comes after the bytes.      *)
SpinsOnlyAtStart ==
  ppc = "failed" /\ Running /\ cpc = "read" /\ Len(buf) + Len(stdin) < DWORD =>
    op = "START"

=============================================================================
