-------------------------- MODULE RealProcess_proofs --------------------------
(***************************************************************************)
(* Proofs about RealProcess, for any number of requests.                   *)
(***************************************************************************)
EXTENDS RealProcess, SequenceTheorems, TLAPS

(***************************************************************************)
(* The inductive invariant.  Whatever parent and child do, in whatever     *)
(* order, they are in one of five phases, and in each of them the child is *)
(* at the request the parent has open or at the one before it.             *)
(***************************************************************************)
Bytes(k, n) == [i \in 1 .. k |-> n]

(* The signal mask of an executed child that handles o, or has handled it. *)
Mask == [START |-> Signals, CONT |-> Signals,
         STOP |-> Signals \ {"TSTP"}, TERM |-> Signals \ {"TERM"}]

(* The order in which the scheduler makes its requests. *)
Protocol ==
  /\ Number <= MAX_REQUESTS
  /\ \A i \in DOMAIN requests :
       /\ requests[i] = "START" <=> i = 1
       /\ requests[i] = "STOP" /\ i < Number => requests[i + 1] = "CONT"
       /\ requests[i] = "TERM" => i = Number

Sending ==
  /\ ppc = "write" => sent < DWORD
  /\ ppc \in {"kill", "wait"} => sent = DWORD
  /\ ppc = "kill" => Request # "START"
  /\ report \in {"none", kstate}
  /\ digest \in Seq([op : DOMAIN Mask, bytes : Seq(1 .. MAX_REQUESTS)])

NoChild ==
  /\ requests = <<>> /\ ppc \in {"idle", "failed"}
  /\ stdin = <<>> /\ stdout = <<>>
  /\ kstate = "absent" /\ pending = {} /\ blocked = {}
  /\ cpc = "boot" /\ op = "START" /\ buf = <<>> /\ digest = <<>>

(* fork() has returned and execv() has not. *)
Booting ==
  /\ Number = 1 /\ ppc \in {"write", "wait", "failed"}
  /\ stdin = Bytes(sent, 1) /\ stdout = <<>>
  /\ kstate \in {"running", "exited"} /\ (kstate = "exited" => faults)
  /\ pending = {} /\ blocked = {}
  /\ cpc = "boot" /\ op = "START" /\ buf = <<>> /\ digest = <<>>

(* execv() has failed.  The transcript has at most two bytes, so that the  *)
(* parent gives up in the fourth request at the latest.                    *)
NotExecuted ==
  /\ faults
  /\ Number \in 1 .. 4
  /\ Number = 4 => Request = "CONT"
  /\ ppc = "idle" => \/ Number <= 2
                     \/ Number = 3 /\ Request \in {"STOP", "TERM"}
  /\ Len(stdin) = DWORD * (Number - 1) + sent
  /\ stdout \in Seq({1, 2, TEXT}) /\ Len(stdout) <= 2
  /\ ppc = "idle" => sent = DWORD
  /\ kstate # "absent" /\ pending = {} /\ blocked = {}
  /\ cpc = "exit" /\ buf = <<>> /\ digest = <<>>

(* The child has not noticed the last request yet. *)
Behind ==
  /\ Number >= 2
  /\ op = requests[Number - 1]
  /\ blocked = Mask[op]
  /\ buf = Bytes(DWORD, Number - 1)
  /\ stdin = Bytes(sent, Number) /\ stdout = <<>>
  /\ \/ cpc = "poll" /\ Len(digest) = Number - 1
     \/ cpc = "store" /\ Len(digest) = Number - 2 /\ op # "STOP"
  /\ kstate \in {"running", "stopped", "exited"}
  /\ kstate = "exited" => faults
  /\ ppc \in {"write", "kill"} => pending = {} /\ kstate \in {"exited", After(op)}
  /\ ppc = "wait" => \/ kstate = "exited"
                     \/ kstate = "running" /\ pending = {Signal[Request]}
  /\ ppc = "idle" => Request = "TERM" /\ kstate = "exited"
  /\ ppc = "failed" => \/ pending = {}
                       \/ kstate = "exited"
                       \/ pending = {Signal[Request]} /\ sent = DWORD

(* The child handles the last request, or has handled it. *)
Answered == \/ cpc \in {"store", "poll"} /\ op \in {"START", "CONT"}
            \/ cpc = "exit"
Answer == IF cpc = "exit" THEN HASH ELSE Number

Positions ==
  [START |-> {"read", "check", "echo", "store", "poll"},
   CONT  |-> {"read", "check", "echo", "store", "poll"},
   STOP  |-> {"read", "check", "store", "stop", "poll"},
   TERM  |-> {"read", "check", "store", "hash", "exit"}]

AtRequest ==
  /\ Number >= 1
  /\ op = Request
  /\ blocked = Mask[op] /\ pending = {}
  /\ cpc \in Positions[op]
  /\ Len(digest) = IF cpc \in {"read", "check", "echo", "store"} THEN Number - 1 ELSE Number
  /\ IF cpc = "read"
     THEN /\ Len(buf) <= sent /\ Len(buf) < DWORD
          /\ buf = Bytes(Len(buf), Number) /\ stdin = Bytes(sent - Len(buf), Number)
          /\ op # "START" => sent = DWORD
     ELSE buf = Bytes(DWORD, Number) /\ stdin = <<>> /\ sent = DWORD
  /\ ppc # "kill"
  /\ ppc = "write" => op = "START"
  /\ ppc = "idle" => \/ Answered
                     \/ op = "STOP" /\ cpc = "poll"
                     \/ op = "TERM" /\ kstate = "exited"
  /\ ppc = "idle" => sent = DWORD
  /\ IF Answered THEN /\ ppc = "wait" => stdout = <<Answer>>
                      /\ ppc = "idle" => stdout = <<>>
                      /\ stdout \in {<<>>, <<Answer>>}
                 ELSE stdout = <<>>
  /\ kstate \in {"running", "stopped", "exited"}
  /\ kstate = "exited" => faults \/ cpc = "exit"
  /\ kstate = "stopped" <=> op = "STOP" /\ cpc = "poll" /\ kstate # "exited"
  /\ ~faults /\ ppc = "idle" /\ op = "TERM" => cpc = "exit" /\ hash = HASH

Phases == NoChild \/ Booting \/ NotExecuted \/ Behind \/ AtRequest

IInv ==
  /\ TypeOK
  /\ NeverFails
  /\ DigestExact
  /\ Protocol
  /\ Sending
  /\ Phases
-----------------------------------------------------------------------------
(***************************************************************************)
(* The bytes of one request in the pipe and in the child's buffer.         *)
(***************************************************************************)
LEMMA BytesAreASequence ==
  ASSUME NEW S, NEW k \in Nat, NEW n \in S
  PROVE  /\ Bytes(k, n) \in Seq(S) /\ Len(Bytes(k, n)) = k
         /\ \A i \in 1 .. k : Bytes(k, n)[i] = n
         /\ Bytes(0, n) = <<>>
  BY DEF Bytes

LEMMA BytesAppend ==
  ASSUME NEW k \in Nat, NEW n
  PROVE  Append(Bytes(k, n), n) = Bytes(k + 1, n)
<1> DEFINE s == Bytes(k, n)
<1>1. s \in Seq({n}) /\ Len(s) = k /\ \A i \in 1 .. k : s[i] = n
  BY BytesAreASequence
<1>2. /\ Bytes(k + 1, n) \in Seq({n}) /\ Len(Bytes(k + 1, n)) = k + 1
      /\ \A i \in 1 .. k + 1 : Bytes(k + 1, n)[i] = n
  BY k + 1 \in Nat, BytesAreASequence
<1> HIDE DEF s
<1>3. /\ Append(s, n) \in Seq({n}) /\ Len(Append(s, n)) = k + 1
      /\ \A i \in 1 .. k + 1 : Append(s, n)[i] = n
  BY <1>1
<1> QED
  BY <1>2, <1>3, SeqEqual DEF s

(* What read() takes out of the pipe goes to the end of the buffer. *)
LEMMA BytesRead ==
  ASSUME NEW a \in Nat, NEW k \in Nat, NEW m \in 0 .. k, NEW n
  PROVE  /\ Bytes(a, n) \o SubSeq(Bytes(k, n), 1, m) = Bytes(a + m, n)
         /\ SubSeq(Bytes(k, n), m + 1, Len(Bytes(k, n))) = Bytes(k - m, n)
<1>1. \A j \in Nat : /\ Bytes(j, n) \in Seq({n}) /\ Len(Bytes(j, n)) = j
                     /\ \A i \in 1 .. j : Bytes(j, n)[i] = n
  BY BytesAreASequence
<1> DEFINE s == Bytes(k, n)
           t == SubSeq(s, 1, m)
           u == SubSeq(s, m + 1, k)
<1>2. s \in Seq({n}) /\ Len(s) = k /\ \A i \in 1 .. k : s[i] = n
  BY <1>1
<1> HIDE DEF s
<1>3. t \in Seq({n}) /\ Len(t) = m /\ \A i \in 1 .. m : t[i] = n
  BY <1>2
<1>4. u \in Seq({n}) /\ Len(u) = k - m /\ \A i \in 1 .. k - m : u[i] = n
  BY <1>2
<1> HIDE DEF t, u
<1>5. /\ Bytes(a, n) \o t \in Seq({n}) /\ Len(Bytes(a, n) \o t) = a + m
      /\ \A i \in 1 .. a + m : (Bytes(a, n) \o t)[i] = n
  <2> DEFINE v == Bytes(a, n)
  <2>1. v \in Seq({n}) /\ Len(v) = a /\ \A i \in 1 .. a : v[i] = n
    BY <1>1
  <2> HIDE DEF v
  <2> SUFFICES /\ v \o t \in Seq({n}) /\ Len(v \o t) = a + m
               /\ \A i \in 1 .. a + m : (v \o t)[i] = n
    BY DEF v
  <2> QED
    <3>1. /\ v \o t \in Seq({n}) /\ Len(v \o t) = a + m
          /\ \A i \in 1 .. a + m : (v \o t)[i] = IF i <= a THEN v[i] ELSE t[i - a]
      BY <1>3, <2>1, ConcatProperties
    <3>2. ASSUME NEW i \in 1 .. a + m
          PROVE  (v \o t)[i] = n
      <4>1. i > a => i - a \in 1 .. m
        OBVIOUS
      <4>2. i <= a => i \in 1 .. a
        OBVIOUS
      <4> QED
        BY <1>3, <2>1, <3>1, <4>1, <4>2
    <3> QED
      BY <3>1, <3>2
<1>6. Bytes(a, n) \o t = Bytes(a + m, n)
  BY <1>1, <1>5, SeqEqual, a + m \in Nat
<1>7. u = Bytes(k - m, n)
  BY <1>1, <1>4, SeqEqual, k - m \in Nat
<1> QED
  BY <1>2, <1>6, <1>7 DEF s, t, u

LEMMA Minimum ==
  ASSUME NEW a \in Nat, NEW b \in Nat
  PROVE  Min({a, b}) = IF a <= b THEN a ELSE b
<1> DEFINE m == IF a <= b THEN a ELSE b
<1>1. m \in {a, b} /\ \A y \in {a, b} : m <= y
  OBVIOUS
<1>2. \A x \in {a, b} : (\A y \in {a, b} : x <= y) => x = m
  OBVIOUS
<1> HIDE DEF m
<1>3. Min({a, b}) = m
  BY <1>1, <1>2 DEF Min
<1> QED
  BY <1>3 DEF m
-----------------------------------------------------------------------------
(***************************************************************************)
(* The phases, one after the other.                                        *)
(***************************************************************************)
LEMMA SameRequests ==
  ASSUME UNCHANGED requests
  PROVE  Number' = Number /\ Request' = Request
  BY DEF Number, Request, Last

LEMMA Requested ==
  ASSUME TypeOK, NEW o \in DOMAIN Mask, Open(o)
  PROVE  /\ ppc = "idle" /\ ppc' = "write" /\ sent' = 0 /\ hash' = hash
         /\ Number \in Nat /\ Number < MAX_REQUESTS /\ Number' = Number + 1
         /\ Request' = o
         /\ requests' \in Seq(DOMAIN Mask)
         /\ \A i \in 1 .. Number : requests'[i] = requests[i]
<1>1. requests \in Seq(DOMAIN Mask)
  BY DEF TypeOK, Mask
<1>2. requests' = Append(requests, o)
  BY DEF Open
<1>3. /\ Len(requests') = Len(requests) + 1 /\ Len(requests) \in Nat
      /\ requests' \in Seq(DOMAIN Mask)
      /\ requests'[Len(requests) + 1] = o
      /\ \A i \in 1 .. Len(requests) : requests'[i] = requests[i]
  BY <1>1, <1>2, AppendProperties
<1> QED
  BY <1>3 DEF Open, Number, Request, Last

LEMMA NoChildStep ==
  ASSUME IInv, NoChild, Next
  PROVE  Phases' /\ NeverFails'
<1> USE DEF parent, pipes, kernel, image
<1>1. Number = 0
  BY DEF NoChild, Number
<1>2. CASE StartRequest
  <2>1. Open("START") /\ "START" \in DOMAIN Mask
    BY <1>2 DEF StartRequest, Mask
  <2>2. Number' = 1 /\ ppc' = "write" /\ sent' = 0
    BY <1>1, <2>1, Requested DEF IInv
  <2>3. Bytes(0, 1) = <<>>
    BY BytesAreASequence
  <2> QED
    BY <1>2, <2>2, <2>3 DEF StartRequest, NoChild, Booting, Phases, NeverFails
<1>3. CASE ParentDies
  BY <1>3 DEF ParentDies, NoChild, Phases, NeverFails, Next
<1>4. ~(ParentStep \/ ChildStep \/ ExecFails \/ Die)
  BY DEF NoChild, ParentStep, WriteByte, WriteFails, Kill, ReadAndVerify, WaitUntilStopped,
         ReadHash, ChildStep, Boot, Poll, Read, CheckLeftover, Echo, Store, Stop, PrintHash,
         Exit, WriteToNobody, ExecFails, Die, Running
<1>5. ~(ContinueRequest \/ \E o \in {"STOP", "TERM"} : StopOrTermRequest(o))
  BY DEF NoChild, ContinueRequest, StopOrTermRequest
<1> QED
  BY <1>2, <1>3, <1>4, <1>5 DEF Next, Environment

LEMMA BootingStep ==
  ASSUME IInv, Booting, Next
  PROVE  Phases' /\ NeverFails'
<1> USE DEF parent, pipes, kernel, image, DWORD
<1>1. /\ sent \in Nat /\ requests # <<>> /\ Request = "START" /\ ppc # "kill"
      /\ faults' = faults /\ (ppc = "failed" => faults)
  <2>1. Number = 1 /\ Number \in DOMAIN requests
    BY DEF Booting, IInv, TypeOK, Number
  <2>2. requests[1] = "START"
    BY <2>1 DEF IInv, Protocol
  <2> QED
    BY <2>1, <2>2 DEF Booting, IInv, TypeOK, NeverFails, Next, Request, Last, Number
<1>2. CASE WriteByte
  <2>1. Number' = 1
    BY <1>2, SameRequests DEF Booting, WriteByte
  <2>2. stdin' = Bytes(sent + 1, 1)
    BY <1>1, <1>2, BytesAppend DEF WriteByte, Booting
  <2> QED
    BY <1>1, <1>2, <2>1, <2>2 DEF WriteByte, Booting, Phases, NeverFails
<1>3. CASE WriteFails \/ ReadAndVerify \/ ParentDies \/ Die
  <2>1. Number' = 1
    BY <1>3, SameRequests DEF Booting, WriteFails, ReadAndVerify, ParentDies, Die
  <2> QED
    BY <1>1, <1>3, <2>1
       DEF WriteFails, ReadAndVerify, ParentDies, Die, Booting, Phases, NeverFails
<1>4. CASE Boot
  <2>1. Number' = 1 /\ Request' = "START"
    BY <1>1, <1>4, SameRequests DEF Booting, Boot
  <2>2. /\ stdin' = Bytes(sent' - Len(buf'), Number') /\ buf' = Bytes(Len(buf'), Number')
        /\ Len(buf') = 0 /\ Len(digest') = 0 /\ ~Answered'
    <3>1. buf' = <<>> /\ digest' = <<>> /\ cpc' = "read" /\ stdin' = Bytes(sent, 1) /\ sent' = sent
      BY <1>4 DEF Booting, Boot
    <3>2. Len(buf') = 0 /\ Len(digest') = 0 /\ sent - 0 = sent
      BY <1>1, <3>1
    <3>3. Bytes(0, 1) = <<>>
      BY BytesAreASequence
    <3> QED
      BY <2>1, <3>1, <3>2, <3>3 DEF Answered
  <2> QED
    BY <1>1, <1>4, <2>1, <2>2
       DEF Boot, Booting, AtRequest, Mask, Positions, Phases, NeverFails
<1>5. CASE ExecFails
  <2>1. Number' = 1 /\ Request' = "START"
    BY <1>1, <1>5, SameRequests DEF Booting, ExecFails
  <2>2. stdout' \in Seq({1, 2, TEXT}) /\ Len(stdout') <= 2
    <3>1. PICK m \in 0 .. 2 : stdout' \in [1 .. m -> {1, 2, TEXT}]
      BY <1>5, Zenon DEF ExecFails, Transcripts, BoundedSeq, SeqOf
    <3>2. \A k \in 0 .. 2 : \A f \in [1 .. k -> {1, 2, TEXT}] :
            f \in Seq({1, 2, TEXT}) /\ Len(f) <= 2
      OBVIOUS
    <3> QED
      BY <3>1, <3>2
  <2>3. Len(stdin') = sent'
    BY <1>1, <1>5, BytesAreASequence DEF Booting, ExecFails
  <2> QED
    BY <1>1, <1>5, <2>1, <2>2, <2>3 DEF ExecFails, Booting, NotExecuted, Phases, NeverFails
<1>6. /\ ~(Kill \/ WaitUntilStopped \/ ReadHash)
      /\ ~(StartRequest \/ ContinueRequest \/ \E o \in {"STOP", "TERM"} : StopOrTermRequest(o))
  BY <1>1 DEF Kill, WaitUntilStopped, ReadHash, StartRequest, ContinueRequest,
              StopOrTermRequest, Open, Booting
<1>7. ~(Poll \/ Read \/ CheckLeftover \/ Echo \/ Store \/ Stop \/ PrintHash \/ Exit
          \/ WriteToNobody)
  BY DEF Booting, Poll, Read, CheckLeftover, Echo, Store, Stop, PrintHash, Exit, WriteToNobody
<1> QED
  BY <1>2, <1>3, <1>4, <1>5, <1>6, <1>7 DEF Next, ParentStep, ChildStep, Environment

LEMMA Generated ==
  ASSUME TypeOK, report \in {"none", kstate}, kstate # "absent", NEW s \in Signals, Generate(s)
  PROVE  /\ kstate' \in {"running", "stopped", "exited"} /\ blocked' = blocked
         /\ pending' \subseteq Signals /\ report' \in {"none", kstate'}
         /\ report' \in {"none", "stopped", "exited"}
         /\ kstate = "exited" => kstate' = "exited" /\ pending' = pending
         /\ blocked = {} /\ pending = {} => pending' = {}
         /\ s \in blocked /\ pending = {} /\ kstate # "exited" =>
              pending' = {s} /\ kstate' = IF s = "CONT" THEN "running" ELSE kstate
<1> USE DEF kernel
<1>1. CASE kstate = "exited"
  BY <1>1 DEF Generate, TypeOK
<1>2. CASE kstate # "exited" /\ s = "CONT"
  <2>1. GenerateCont
    BY <1>2 DEF Generate
  <2> QED
    BY <1>2, <2>1 DEF GenerateCont, TypeOK, Signals
<1>3. CASE kstate # "exited" /\ s = "TSTP"
  <2>1. GenerateStop
    BY <1>3 DEF Generate
  <2> QED
    BY <1>3, <2>1 DEF GenerateStop, TypeOK, Signals
<1>4. CASE kstate # "exited" /\ s = "TERM"
  <2>1. GenerateTerm
    BY <1>4 DEF Generate
  <2> QED
    BY <1>4, <2>1 DEF GenerateTerm, TypeOK, Signals
<1> QED
  BY <1>1, <1>2, <1>3, <1>4 DEF Signals

(* The signal that is sent is that of a request other than the first. *)
LEMMA Killed ==
  ASSUME IInv, Kill, kstate # "absent"
  PROVE  /\ Signal[Request] \in Signals /\ Generate(Signal[Request])
         /\ Request \in {"CONT", "STOP", "TERM"}
         /\ kstate' \in {"running", "stopped", "exited"} /\ blocked' = blocked
         /\ pending' \subseteq Signals /\ report' \in {"none", kstate'}
         /\ report' \in {"none", "stopped", "exited"}
         /\ UNCHANGED <<requests, sent, hash, pipes, image>> /\ ppc' = "wait"
<1>1. requests # <<>> => Request \in {"START", "CONT", "STOP", "TERM"}
  BY DEF IInv, TypeOK, Request, Last
<1>2. requests # <<>>
  <2>1. requests = <<>> => Number = 0
    BY DEF Number
  <2> QED
    BY <2>1 DEF Kill, IInv, Phases, NoChild, Booting, NotExecuted, Behind, AtRequest
<1>3. Request # "START" /\ Generate(Signal[Request])
  BY DEF Kill, IInv, Sending
<1>4. Signal[Request] \in Signals
  BY <1>1, <1>2, <1>3 DEF Signal, Signals
<1> QED
  BY <1>1, <1>2, <1>3, <1>4, Generated DEF IInv, Sending, Kill

LEMMA NotExecutedStep ==
  ASSUME IInv, NotExecuted, Next
  PROVE  Phases' /\ NeverFails'
<1> USE DEF parent, pipes, kernel, image, DWORD
<1>1. /\ sent \in 0 .. 4 /\ requests # <<>> /\ Number \in 1 .. 4 /\ Number <= MAX_REQUESTS
      /\ Request \in DOMAIN Mask /\ faults /\ faults' /\ TEXT > Number /\ Number \in DOMAIN requests
  BY BoundAssumption
     DEF NotExecuted, IInv, TypeOK, Protocol, Next, TEXT, Mask, Request, Last, Number
<1>2. NeverFails'
  BY <1>1 DEF NeverFails
<1>3. CASE WriteByte
  <2>1. Number' = Number /\ Request' = Request
    BY <1>3, SameRequests DEF WriteByte
  <2>2. Len(stdin') = Len(stdin) + 1 /\ sent' = sent + 1
    BY <1>3, <1>1 DEF WriteByte, IInv, TypeOK
  <2> QED
    BY <1>1, <1>2, <1>3, <2>1, <2>2 DEF WriteByte, NotExecuted, Phases
<1>4. CASE Kill
  <2>1. Number' = Number /\ Request' = Request
    BY <1>4, SameRequests DEF Kill
  <2>2. pending' = {} /\ blocked' = {} /\ kstate' # "absent"
    BY <1>4, Killed, Generated DEF NotExecuted, IInv, Sending
  <2> QED
    BY <1>1, <1>2, <1>4, <2>1, <2>2 DEF Kill, NotExecuted, Phases
<1>5. CASE ReadAndVerify
  <2>1. Number' = Number /\ Request' = Request
    BY <1>5, SameRequests DEF ReadAndVerify
  <2>2. CASE stdout = <<>>
    BY <1>1, <1>2, <1>5, <2>1, <2>2 DEF ReadAndVerify, NotExecuted, Phases
  <2>3. CASE stdout # <<>>
    <3>1. /\ stdout' \in Seq({1, 2, TEXT}) /\ Len(stdout') <= 2 /\ Head(stdout) \in {1, 2, TEXT}
          /\ ppc' = IF Head(stdout) = Number THEN "idle" ELSE "failed"
      BY <1>5, <2>3 DEF ReadAndVerify, NotExecuted
    <3>2. ppc' = "idle" => Number <= 2
      BY <1>1, <3>1 DEF TEXT
    <3>3. sent = DWORD
      BY <1>5 DEF ReadAndVerify, IInv, Sending
    <3> QED
      BY <1>1, <1>2, <1>5, <2>1, <3>1, <3>2, <3>3 DEF ReadAndVerify, NotExecuted, Phases
  <2> QED
    BY <2>2, <2>3
<1>6. CASE WaitUntilStopped \/ ReadHash
  <2>1. Number' = Number /\ Request' = Request /\ Request \in {"STOP", "TERM"} /\ Number <= 3
    BY <1>1, <1>6, SameRequests DEF WaitUntilStopped, ReadHash, NotExecuted
  <2>2. stdout' \in Seq({1, 2, TEXT}) /\ Len(stdout') <= 2
    BY <1>6 DEF WaitUntilStopped, ReadHash, NotExecuted
  <2>3. sent = DWORD
    BY <1>6 DEF WaitUntilStopped, ReadHash, IInv, Sending
  <2> QED
    BY <1>1, <1>2, <1>6, <2>1, <2>2, <2>3 DEF WaitUntilStopped, ReadHash, NotExecuted, Phases
<1>7. CASE WriteFails \/ Exit \/ Die \/ ParentDies
  <2>1. Number' = Number /\ Request' = Request
    BY <1>7, SameRequests DEF WriteFails, Exit, Die, ParentDies
  <2> QED
    BY <1>1, <1>2, <1>7, <2>1 DEF WriteFails, Exit, Die, ParentDies, NotExecuted, Phases
<1>8. CASE ContinueRequest
  <2>1. Open("CONT") /\ "CONT" \in DOMAIN Mask
    BY <1>8 DEF ContinueRequest, Mask
  <2>2. ppc = "idle" /\ ppc' = "write" /\ sent' = 0 /\ Number' = Number + 1 /\ Request' = "CONT"
    BY <2>1, Requested DEF IInv
  <2> QED
    BY <1>1, <1>2, <1>8, <2>2 DEF ContinueRequest, NotExecuted, Phases
<1>9. ASSUME NEW o \in {"STOP", "TERM"}, StopOrTermRequest(o)
      PROVE  Phases' /\ NeverFails'
  <2>1. Open(o) /\ o \in DOMAIN Mask
    BY <1>9 DEF StopOrTermRequest, Mask
  <2>2. ppc = "idle" /\ ppc' = "write" /\ sent' = 0 /\ Number' = Number + 1 /\ Request' = o
    BY <2>1, Requested DEF IInv
  <2> QED
    BY <1>1, <1>2, <1>9, <2>2 DEF StopOrTermRequest, NotExecuted, Phases
<1>10. /\ ~StartRequest
       /\ ~(Boot \/ Poll \/ Read \/ CheckLeftover \/ Echo \/ Store \/ Stop \/ PrintHash
              \/ WriteToNobody \/ ExecFails)
  BY <1>1 DEF NotExecuted, StartRequest, Boot, Poll, Read, CheckLeftover, Echo, Store, Stop,
              PrintHash, WriteToNobody, ExecFails
<1> QED
  BY <1>3, <1>4, <1>5, <1>6, <1>7, <1>8, <1>9, <1>10 DEF Next, ParentStep, ChildStep, Environment

(* What TypeOK, Protocol and Sending say of the last request. *)
LEMMA LastRequest ==
  ASSUME IInv, Number >= 1
  PROVE  /\ Number \in 1 .. MAX_REQUESTS /\ requests # <<>>
         /\ sent \in 0 .. 4
         /\ Request = requests[Number] /\ Request \in DOMAIN Mask
         /\ DOMAIN Mask = {"START", "CONT", "STOP", "TERM"}
         /\ Request = "START" <=> Number = 1
         /\ Number >= 2 => /\ requests[Number - 1] \in {"START", "CONT", "STOP"}
                           /\ requests[Number - 1] = "STOP" => Request = "CONT"
<1>1. /\ Number \in Nat /\ Number <= MAX_REQUESTS /\ MAX_REQUESTS \in Nat
      /\ DOMAIN requests = 1 .. Number
      /\ \A i \in 1 .. Number : requests[i] \in {"START", "CONT", "STOP", "TERM"}
      /\ sent \in 0 .. 4 /\ requests # <<>> /\ Request = requests[Number]
  BY BoundAssumption DEF IInv, TypeOK, Protocol, Number, Request, Last, DWORD
<1>2. Number >= 2 => Number - 1 \in 1 .. Number /\ Number - 1 < Number /\ Number - 1 + 1 = Number
  BY <1>1
<1>3. \A i \in 1 .. Number :
        /\ requests[i] = "START" <=> i = 1
        /\ requests[i] = "STOP" /\ i < Number => requests[i + 1] = "CONT"
        /\ requests[i] = "TERM" => i = Number
  BY <1>1 DEF IInv, Protocol
<1>4. Number \in 1 .. Number /\ (requests[Number] = "START" <=> Number = 1)
  BY <1>1, <1>3
<1>5. ASSUME Number >= 2
      PROVE  /\ requests[Number - 1] \in {"START", "CONT", "STOP"}
             /\ requests[Number - 1] = "STOP" => Request = "CONT"
  BY <1>1, <1>2, <1>3, <1>5
<1> QED
  BY <1>1, <1>4, <1>5 DEF Mask

LEMMA BehindStep ==
  ASSUME IInv, Behind, Next
  PROVE  Phases' /\ NeverFails'
<1> USE DEF parent, pipes, kernel, image, DWORD
<1>1. /\ Number \in Nat /\ Number >= 2 /\ sent \in Nat /\ sent \in 0 .. 4 /\ requests # <<>>
      /\ Request \in {"CONT", "STOP", "TERM"}
      /\ op \in {"START", "CONT", "STOP"} /\ (op = "STOP" => Request = "CONT")
      /\ (ppc = "failed" => faults) /\ faults' = faults
      /\ ppc \in {"idle", "write", "kill", "wait", "failed"}
      /\ report \in {"none", "stopped", "exited"}
  <2>1. Number \in Nat /\ Number >= 2
    BY DEF Behind, IInv, TypeOK, Number
  <2> QED
    BY <2>1, LastRequest DEF Behind, IInv, TypeOK, NeverFails, Next
<1>2. CASE WriteByte
  <2>1. Number' = Number /\ Request' = Request /\ requests' = requests
    BY <1>2, SameRequests DEF WriteByte
  <2>2. stdin' = Bytes(sent', Number)
    BY <1>1, <1>2, BytesAppend DEF WriteByte, Behind
  <2> QED
    BY <1>1, <1>2, <2>1, <2>2 DEF WriteByte, Behind, Phases, NeverFails
<1>3. CASE Kill
  <2>1. Number' = Number /\ Request' = Request /\ requests' = requests
    BY <1>3, SameRequests DEF Kill
  <2>2. /\ kstate' \in {"running", "stopped", "exited"} /\ blocked' = blocked
        /\ ppc' = "wait" /\ UNCHANGED <<sent, hash, stdin, stdout, cpc, op, buf, digest>>
    BY <1>3, Killed DEF Behind
  <2>3. Signal[Request] \in Mask[op]
    BY <1>1 DEF Mask, Signal, Signals
  <2>4. /\ kstate = "exited" => kstate' = "exited"
        /\ kstate # "exited" => kstate' = "running" /\ pending' = {Signal[Request]}
    <3>1. pending = {} /\ kstate \in {"exited", After(op)} /\ blocked = Mask[op]
      BY <1>3 DEF Kill, Behind
    <3>2. /\ kstate = "exited" => kstate' = "exited"
          /\ kstate # "exited" =>
               /\ pending' = {Signal[Request]}
               /\ kstate' = IF Signal[Request] = "CONT" THEN "running" ELSE kstate
      BY <1>3, <2>3, <3>1, Killed, Generated DEF Behind, IInv, Sending
    <3> QED
      BY <1>1, <3>1, <3>2 DEF After, Signal
  <2>5. kstate' = "exited" => faults
    BY <2>4 DEF Behind
  <2> QED
    BY <1>1, <2>1, <2>2, <2>4, <2>5 DEF Behind, Phases, NeverFails
<1>4. CASE WriteFails \/ ReadAndVerify \/ WaitUntilStopped \/ ReadHash \/ Die \/ ParentDies
  <2>1. Number' = Number /\ Request' = Request /\ requests' = requests
    BY <1>4, SameRequests
       DEF WriteFails, ReadAndVerify, WaitUntilStopped, ReadHash, Die, ParentDies
  <2>2. CASE WriteFails \/ ReadAndVerify
    BY <1>1, <2>1, <2>2 DEF WriteFails, ReadAndVerify, Behind, Phases, NeverFails
  <2>3. CASE WaitUntilStopped
    <3>1. kstate = "exited" /\ report = "exited"
      BY <1>1, <2>3 DEF WaitUntilStopped, Behind, IInv, Sending
    <3> QED
      BY <1>1, <2>1, <2>3, <3>1 DEF WaitUntilStopped, Behind, Phases, NeverFails
  <2>4. CASE ReadHash
    BY <1>1, <2>1, <2>4 DEF ReadHash, Behind, Phases, NeverFails
  <2>5. CASE Die
    BY <1>1, <2>1, <2>5 DEF Die, Behind, Phases, NeverFails
  <2>6. CASE ParentDies
    <3>1. ppc = "wait" => sent = DWORD
      BY DEF IInv, Sending
    <3> QED
      BY <1>1, <2>1, <2>6, <3>1 DEF ParentDies, Behind, Phases, NeverFails
  <2> QED
    BY <1>4, <2>2, <2>3, <2>4, <2>5, <2>6
<1>5. CASE Poll
  <2>1. Number' = Number /\ Request' = Request /\ requests' = requests
    BY <1>5, SameRequests DEF Poll
  <2>2. pending = {Signal[Request]} /\ sent = 4 /\ ppc \in {"wait", "failed"}
    BY <1>1, <1>5 DEF Poll, Running, Behind, IInv, Sending
  <2>3. Lowest(pending) = Signal[Request]
    BY <1>1, <2>2 DEF Lowest, Signal
  <2>4. /\ op' = OpOf[Signal[Request]] /\ pending' = pending \ {Signal[Request]}
        /\ blocked' = CASE Signal[Request] = "TERM" -> blocked \ {"TERM"}
                        [] Signal[Request] = "TSTP" -> blocked \ {"TSTP"}
                        [] Signal[Request] = "CONT" -> blocked \cup {"TSTP"}
        /\ buf' = <<>>
    BY <1>5, <2>3 DEF Poll
  <2>5. op' = Request /\ blocked' = Mask[Request] /\ pending' = {}
    <3>1. CASE Request = "CONT"
      BY <1>1, <2>2, <2>4, <3>1 DEF Behind, OpOf, Signal, Mask, Signals
    <3>2. CASE Request = "STOP"
      BY <1>1, <2>2, <2>4, <3>2 DEF Behind, OpOf, Signal, Mask, Signals
    <3>3. CASE Request = "TERM"
      BY <1>1, <2>2, <2>4, <3>3 DEF Behind, OpOf, Signal, Mask, Signals
    <3> QED
      BY <1>1, <3>1, <3>2, <3>3
  <2>6. buf' = Bytes(0, Number) /\ Len(buf') = 0 /\ sent - 0 = sent
    BY <1>1, <2>4, BytesAreASequence
  <2>7. /\ Len(digest') = Number - 1 /\ cpc' = "read" /\ stdout' = <<>> /\ kstate' = "running"
        /\ stdin' = Bytes(sent, Number) /\ UNCHANGED <<ppc, sent, hash>>
    BY <1>5 DEF Poll, Running, Behind
  <2>8. "read" \in Positions[Request] /\ ~Answered'
    BY <1>1, <2>7 DEF Positions, Answered
  <2>9. AtRequest'
    BY <1>1, <2>1, <2>2, <2>5, <2>6, <2>7, <2>8 DEF AtRequest
  <2> QED
    BY <1>1, <2>7, <2>9 DEF Phases, NeverFails
<1>6. CASE Store
  <2>1. Number' = Number /\ Request' = Request /\ requests' = requests
    BY <1>6, SameRequests DEF Store
  <2>2. Len(digest') = Number - 1 /\ cpc' = "poll"
    <3>1. Len(digest) = Number - 2 /\ op \in {"START", "CONT"}
      BY <1>1, <1>6 DEF Store, Behind
    <3>2. [op |-> op, bytes |-> buf] \in [op : DOMAIN Mask, bytes : Seq(1 .. MAX_REQUESTS)]
      BY DEF IInv, TypeOK, Mask
    <3> QED
      BY <1>1, <1>6, <3>1, <3>2 DEF Store, AfterStore, IInv, Sending
  <2> QED
    BY <1>1, <1>6, <2>1, <2>2 DEF Store, Behind, Phases, NeverFails
<1>7. /\ ~(StartRequest \/ ContinueRequest \/ \E o \in {"STOP", "TERM"} : StopOrTermRequest(o))
      /\ ~(Boot \/ Read \/ CheckLeftover \/ Echo \/ Stop \/ PrintHash \/ Exit
             \/ WriteToNobody \/ ExecFails)
  BY <1>1 DEF Behind, StartRequest, ContinueRequest, StopOrTermRequest, Open, Boot, Read,
              CheckLeftover, Echo, Stop, PrintHash, Exit, WriteToNobody, ExecFails
<1> QED
  BY <1>2, <1>3, <1>4, <1>5, <1>6, <1>7 DEF Next, ParentStep, ChildStep, Environment

LEMMA AtRequestStep ==
  ASSUME IInv, AtRequest, Next
  PROVE  Phases' /\ NeverFails'
<1> USE DEF parent, pipes, kernel, image, DWORD
<1>1. /\ Number \in Nat /\ Number >= 1 /\ sent \in Nat /\ sent \in 0 .. 4 /\ requests # <<>>
      /\ Request = requests[Number]
      /\ Request = op /\ op \in {"START", "CONT", "STOP", "TERM"}
      /\ (ppc = "failed" => faults) /\ faults' = faults
      /\ ppc \in {"idle", "write", "kill", "wait", "failed"}
      /\ report \in {"none", "stopped", "exited"} /\ report \in {"none", kstate}
      /\ cpc \in Positions[op] /\ (ppc = "write" => sent < 4) /\ (ppc = "wait" => sent = 4)
  <2>1. Number \in Nat /\ Number >= 1
    BY DEF AtRequest, IInv, TypeOK, Number
  <2> QED
    BY <2>1, LastRequest DEF AtRequest, IInv, TypeOK, NeverFails, Next, Sending
<1>2. /\ op \in {"START", "CONT"} => cpc \in {"read", "check", "echo", "store", "poll"}
      /\ op = "STOP" => cpc \in {"read", "check", "store", "stop", "poll"}
      /\ op = "TERM" => cpc \in {"read", "check", "store", "hash", "exit"}
      /\ \A o \in {"START", "CONT", "STOP", "TERM"} : \A c :
           /\ c \in {"read", "check", "store"} => c \in Positions[o]
           /\ o \in {"START", "CONT"} /\ c \in {"echo", "poll"} => c \in Positions[o]
           /\ o = "STOP" /\ c \in {"stop", "poll"} => c \in Positions[o]
           /\ o = "TERM" /\ c \in {"hash", "exit"} => c \in Positions[o]
  BY <1>1 DEF Positions
<1>3. UNCHANGED requests => Number' = Number /\ Request' = Request
  BY SameRequests
<1>4. CASE WriteByte
  <2>1. cpc = "read" /\ op = "START"
    BY <1>1, <1>4 DEF WriteByte, AtRequest
  <2>2. /\ Len(buf) \in Nat /\ Len(buf) <= sent /\ stdin = Bytes(sent - Len(buf), Number)
        /\ sent' = sent + 1 /\ stdin' = Append(stdin, Number)
    BY <1>1, <1>4, <2>1 DEF WriteByte, AtRequest, IInv, TypeOK
  <2>3. stdin' = Bytes(sent' - Len(buf), Number) /\ Len(buf) <= sent'
    <3>1. PICK j \in Nat : j = sent - Len(buf)
      BY <1>1, <2>2
    <3>2. j + 1 = sent' - Len(buf) /\ Len(buf) <= sent'
      BY <1>1, <2>2, <3>1
    <3>3. stdin' = Bytes(j + 1, Number)
      BY <2>2, <3>1, BytesAppend
    <3> QED
      BY <3>2, <3>3
  <2>4. ~Answered /\ ~Answered'
    BY <1>4, <2>1 DEF WriteByte, Answered
  <2>5. ppc' \in {"write", "wait"}
    BY <1>1, <1>4, <2>1 DEF WriteByte
  <2>6. AtRequest'
    BY <1>1, <1>2, <1>3, <1>4, <2>1, <2>3, <2>4, <2>5 DEF WriteByte, AtRequest
  <2> QED
    BY <2>5, <2>6 DEF Phases, NeverFails
<1>5. CASE WriteFails \/ ParentDies
  <2>1. faults
    BY <1>1, <1>2, <1>5 DEF WriteFails, ParentDies, AtRequest
  <2>2. ppc' = "failed" /\ UNCHANGED <<requests, sent, hash, pipes, kernel, image>>
    BY <1>5 DEF WriteFails, ParentDies
  <2>3. AtRequest'
    BY <1>1, <1>3, <2>1, <2>2 DEF AtRequest, Answered, Answer
  <2> QED
    BY <1>1, <2>1, <2>3 DEF Phases, NeverFails
<1>6. CASE ReadAndVerify
  <2>1. ppc = "wait" /\ op \in {"START", "CONT"} /\ (stdout # <<>> \/ kstate = "exited")
    BY <1>1, <1>6 DEF ReadAndVerify
  <2>2. CASE stdout = <<>>
    <3>1. faults /\ ppc' = "failed" /\ UNCHANGED <<requests, sent, hash, pipes, kernel, image>>
      BY <1>1, <1>2, <1>6, <2>1, <2>2 DEF ReadAndVerify, AtRequest
    <3>2. AtRequest'
      BY <1>1, <1>3, <3>1 DEF AtRequest, Answered, Answer
    <3> QED
      BY <1>1, <3>1, <3>2 DEF Phases, NeverFails
  <2>3. CASE stdout # <<>>
    <3>1. Answered /\ stdout = <<Number>>
      BY <1>1, <1>2, <2>1, <2>3 DEF AtRequest, Answered, Answer
    <3>2. stdout' = <<>> /\ ppc' = "idle" /\ UNCHANGED <<requests, sent, hash, stdin, kernel, image>>
      BY <1>6, <2>3, <3>1 DEF ReadAndVerify
    <3>3. AtRequest'
      BY <1>1, <1>3, <2>1, <3>1, <3>2 DEF AtRequest, Answered, Answer
    <3> QED
      BY <1>1, <3>2, <3>3 DEF Phases, NeverFails
  <2> QED
    BY <2>2, <2>3
<1>7. CASE WaitUntilStopped
  <2>1. /\ ppc = "wait" /\ op = "STOP" /\ report # "none"
        /\ UNCHANGED <<requests, sent, hash, pipes, kstate, pending, blocked, image>>
    BY <1>1, <1>7 DEF WaitUntilStopped
  <2>2. CASE report = "stopped"
    <3>1. ppc' = "idle" /\ cpc = "poll"
      BY <1>1, <1>7, <2>2 DEF WaitUntilStopped, AtRequest
    <3>2. AtRequest'
      BY <1>1, <1>3, <2>1, <3>1 DEF AtRequest, Answered, Answer
    <3> QED
      BY <3>1, <3>2 DEF Phases, NeverFails
  <2>3. CASE report = "exited"
    <3>1. ppc' = "failed" /\ faults
      BY <1>1, <1>2, <1>7, <2>1, <2>3 DEF WaitUntilStopped, AtRequest
    <3>2. AtRequest'
      BY <1>1, <1>3, <2>1, <3>1 DEF AtRequest, Answered, Answer
    <3> QED
      BY <1>1, <3>1, <3>2 DEF Phases, NeverFails
  <2> QED
    BY <1>1, <2>1, <2>2, <2>3
<1>8. CASE ReadHash
  <2>1. /\ ppc = "wait" /\ op = "TERM" /\ (stdout # <<>> \/ kstate = "exited") /\ ppc' = "idle"
        /\ UNCHANGED <<requests, sent, stdin, kernel, image>>
    BY <1>1, <1>8 DEF ReadHash
  <2>2. CASE stdout = <<>>
    <3>1. ~Answered /\ UNCHANGED <<hash, stdout>> /\ kstate = "exited" /\ faults
      BY <1>1, <1>2, <1>8, <2>1, <2>2 DEF ReadHash, AtRequest, Answered
    <3>2. AtRequest'
      BY <1>1, <1>3, <2>1, <3>1 DEF AtRequest, Answered, Answer
    <3> QED
      BY <2>1, <3>2 DEF Phases, NeverFails
  <2>3. CASE stdout # <<>>
    <3>1. Answered /\ cpc = "exit" /\ stdout = <<HASH>>
      BY <1>1, <1>2, <2>1, <2>3 DEF AtRequest, Answered, Answer
    <3>2. hash' = HASH /\ stdout' = <<>>
      BY <1>8, <2>3, <3>1 DEF ReadHash
    <3>3. AtRequest'
      BY <1>1, <1>3, <2>1, <3>1, <3>2 DEF AtRequest, Answered, Answer
    <3> QED
      BY <2>1, <3>3 DEF Phases, NeverFails
  <2> QED
    BY <2>2, <2>3
<1>9. CASE Read
  <2> DEFINE n == Min({Len(stdin), 4 - Len(buf)})
             k == Len(buf)
  <2>1. /\ cpc = "read" /\ n > 0 /\ Running
        /\ buf' = buf \o SubSeq(stdin, 1, n)
        /\ stdin' = SubSeq(stdin, n + 1, Len(stdin))
        /\ cpc' = IF Len(buf') < 4 THEN "read" ELSE "check"
        /\ UNCHANGED <<parent, stdout, kernel, op, digest>>
    BY <1>9 DEF Read
  <2>2. /\ k \in Nat /\ k <= sent /\ k < 4 /\ sent - k \in Nat
        /\ buf = Bytes(k, Number) /\ stdin = Bytes(sent - k, Number)
    <3>1. /\ Len(buf) <= sent /\ Len(buf) < 4
          /\ buf = Bytes(Len(buf), Number) /\ stdin = Bytes(sent - Len(buf), Number)
      BY <2>1 DEF AtRequest
    <3>2. Len(buf) \in Nat
      BY DEF IInv, TypeOK
    <3> QED
      BY <1>1, <3>1, <3>2
  <2>3. Len(stdin) = sent - k
    BY <2>2, BytesAreASequence
  <2>4. n \in 0 .. sent - k /\ n <= 4 - k
    <3>1. n = IF sent - k <= 4 - k THEN sent - k ELSE 4 - k
      BY <2>2, <2>3, Minimum, 4 - k \in Nat
    <3> QED
      BY <1>1, <2>2, <3>1
  <2> HIDE DEF n, k
  <2>5. buf' = Bytes(k + n, Number) /\ stdin' = Bytes(sent - k - n, Number)
    BY <2>1, <2>2, <2>4, BytesRead
  <2>6. /\ Len(buf') = k + n /\ k + n \in 0 .. 4 /\ k + n <= sent
        /\ sent - k - n = sent - (k + n)
    <3>1. /\ k + n \in Nat /\ k + n \in 0 .. 4 /\ k + n <= sent
          /\ sent - k - n = sent - (k + n)
      BY <1>1, <2>2, <2>4
    <3>2. Len(Bytes(k + n, Number)) = k + n
      BY <3>1, BytesAreASequence
    <3> QED
      BY <2>5, <3>1, <3>2
  <2>7. ~Answered /\ ~Answered'
    BY <2>1 DEF Answered
  <2>8. CASE k + n < 4
    <3>1. cpc' = "read"
      BY <2>1, <2>6, <2>8
    <3>2. AtRequest'
      BY <1>1, <1>2, <1>3, <2>1, <2>5, <2>6, <2>7, <2>8, <3>1 DEF AtRequest
    <3> QED
      BY <1>1, <2>1, <3>2 DEF Phases, NeverFails
  <2>9. CASE k + n = 4
    <3>1. cpc' = "check" /\ sent = 4 /\ Bytes(0, Number) = <<>>
      <4>1. Bytes(0, Number) = <<>>
        BY BytesAreASequence
      <4>2. cpc' = "check"
        <5>1. Len(buf') = 4
          BY <2>6, <2>9
        <5>2. cpc' = IF Len(buf') < 4 THEN "read" ELSE "check"
          BY <2>1
        <5> QED
          BY <5>1, <5>2
      <4>3. sent = 4
        BY <1>1, <2>6, <2>9
      <4> QED
        BY <4>1, <4>2, <4>3
    <3>2. ppc # "write"
      BY <1>1, <3>1
    <3>3. stdin' = <<>> /\ buf' = Bytes(4, Number)
      BY <1>1, <2>5, <2>6, <2>9, <3>1
    <3>4. AtRequest'
      BY <1>1, <1>2, <1>3, <2>1, <2>7, <3>1, <3>2, <3>3 DEF AtRequest
    <3> QED
      BY <1>1, <2>1, <3>4 DEF Phases, NeverFails
  <2> QED
    BY <2>6, <2>8, <2>9
<1>10. CASE CheckLeftover
  <2>1. stdin = <<>> /\ cpc = "check"
    BY <1>10 DEF CheckLeftover, AtRequest
  <2>2. /\ cpc' = (IF op \in {"START", "CONT"} THEN "echo" ELSE "store")
        /\ UNCHANGED <<parent, pipes, kernel, op, buf, digest>>
    BY <1>10, <2>1 DEF CheckLeftover, AfterCheck
  <2>3. ~Answered /\ ~Answered'
    BY <1>1, <2>1, <2>2 DEF Answered
  <2>4. AtRequest'
    BY <1>1, <1>2, <1>3, <2>1, <2>2, <2>3 DEF AtRequest
  <2> QED
    BY <1>1, <2>2, <2>4 DEF Phases, NeverFails
<1>11. CASE Echo
  <2>1. /\ cpc = "echo" /\ ppc # "failed" /\ cpc' = "store"
        /\ stdout' = Append(stdout, Last(buf))
        /\ UNCHANGED <<parent, stdin, kernel, op, buf, digest>>
    BY <1>11 DEF Echo
  <2>2. ~Answered /\ stdout = <<>> /\ op \in {"START", "CONT"} /\ buf = Bytes(4, Number)
    BY <1>1, <1>2, <2>1 DEF AtRequest, Answered
  <2>3. Last(buf) = Number
    <3>1. Len(Bytes(4, Number)) = 4 /\ Bytes(4, Number)[4] = Number
      BY 4 \in Nat, 4 \in 1 .. 4, BytesAreASequence
    <3> QED
      BY <2>2, <3>1 DEF Last
  <2>4. stdout' = <<Number>> /\ Answered' /\ Answer' = Number
    BY <1>3, <2>1, <2>2, <2>3 DEF Answered, Answer
  <2>5. ppc = "wait"
    BY <1>1, <2>1, <2>2 DEF AtRequest
  <2>6. AtRequest'
    BY <1>1, <1>2, <1>3, <2>1, <2>2, <2>4, <2>5 DEF AtRequest
  <2> QED
    BY <2>1, <2>6 DEF Phases, NeverFails
<1>12. CASE Store
  <2>1. /\ cpc = "store" /\ digest' = Append(digest, [op |-> op, bytes |-> buf])
        /\ cpc' = AfterStore
        /\ UNCHANGED <<parent, pipes, kernel, op, buf>>
    BY <1>12 DEF Store
  <2>2. /\ cpc' = IF op = "STOP" THEN "stop" ELSE IF op = "TERM" THEN "hash" ELSE "poll"
        /\ kstate = "running"
    BY <1>1, <1>12, <2>1 DEF Store, AfterStore, Running
  <2>3. Len(digest') = Len(digest) + 1 /\ Len(digest) = Number - 1
    <3>1. [op |-> op, bytes |-> buf] \in [op : DOMAIN Mask, bytes : Seq(1 .. MAX_REQUESTS)]
      BY DEF IInv, TypeOK, Mask
    <3> QED
      BY <2>1, <3>1 DEF IInv, Sending, AtRequest
  <2>4. (Answered' <=> Answered) /\ (Answered => Answer' = Answer)
    BY <1>1, <1>3, <2>1, <2>2 DEF Answered, Answer
  <2>5. AtRequest'
    BY <1>1, <1>2, <1>3, <2>1, <2>2, <2>3, <2>4 DEF AtRequest
  <2> QED
    BY <1>1, <2>1, <2>5 DEF Phases, NeverFails
<1>13. CASE Stop
  <2>1. /\ cpc = "stop" /\ kstate' = "stopped" /\ pending' = pending \ {"CONT"} /\ cpc' = "poll"
        /\ UNCHANGED <<parent, pipes, blocked, op, buf, digest>>
    BY <1>13 DEF Stop
  <2>2. op = "STOP" /\ ~Answered /\ ~Answered' /\ pending' = {}
    BY <1>1, <1>2, <2>1 DEF AtRequest, Answered
  <2>3. AtRequest'
    BY <1>1, <1>2, <1>3, <2>1, <2>2 DEF AtRequest
  <2> QED
    BY <1>1, <2>1, <2>3 DEF Phases, NeverFails
<1>14. CASE PrintHash
  <2>1. /\ cpc = "hash" /\ ppc # "failed" /\ stdout' = Append(stdout, HASH) /\ cpc' = "exit"
        /\ UNCHANGED <<parent, stdin, kernel, op, buf, digest>> /\ kstate = "running"
    BY <1>14 DEF PrintHash, Running
  <2>2. op = "TERM" /\ ~Answered /\ Answered' /\ stdout' = <<HASH>> /\ Answer' = HASH
    BY <1>1, <1>2, <2>1 DEF AtRequest, Answered, Answer
  <2>3. ppc = "wait"
    BY <1>1, <2>1, <2>2 DEF AtRequest
  <2>4. AtRequest'
    BY <1>1, <1>2, <1>3, <2>1, <2>2, <2>3 DEF AtRequest
  <2> QED
    BY <2>1, <2>4 DEF Phases, NeverFails
<1>15. CASE Exit \/ Die \/ WriteToNobody
  <2>1. /\ kstate' = "exited" /\ (faults \/ cpc = "exit")
        /\ UNCHANGED <<parent, pipes, pending, blocked, image>>
    BY <1>1, <1>15 DEF Exit, Die, WriteToNobody, Running
  <2>2. (Answered' <=> Answered) /\ Answer' = Answer
    BY <1>3, <2>1 DEF Answered, Answer
  <2>3. AtRequest'
    BY <1>1, <1>2, <1>3, <2>1, <2>2 DEF AtRequest
  <2> QED
    BY <1>1, <2>1, <2>3 DEF Phases, NeverFails
<1>16. ASSUME NEW o \in {"CONT", "STOP", "TERM"}, Open(o), Request # "TERM",
              o # "CONT" => Request \in {"START", "CONT"},
              UNCHANGED <<pipes, kernel, image>>
       PROVE  Phases' /\ NeverFails'
  <2>1. /\ ppc = "idle" /\ ppc' = "write" /\ sent' = 0 /\ Number' = Number + 1 /\ Request' = o
        /\ requests'[Number' - 1] = Request
    <3>1. o \in DOMAIN Mask /\ Number \in 1 .. Number
      BY <1>1 DEF Mask
    <3>2. /\ ppc = "idle" /\ ppc' = "write" /\ sent' = 0 /\ Number' = Number + 1 /\ Request' = o
          /\ requests'[Number] = requests[Number]
      BY <1>16, <3>1, Requested DEF IInv
    <3> QED
      BY <1>1, <3>2
  <2>2. /\ cpc = "poll" \/ (cpc = "store" /\ op \in {"START", "CONT"})
        /\ op \in {"START", "CONT", "STOP"}
    BY <1>1, <1>2, <1>16, <2>1 DEF AtRequest, Answered
  <2>3. /\ stdout = <<>> /\ stdin = <<>> /\ buf = Bytes(4, Number) /\ pending = {}
        /\ blocked = Mask[op] /\ Bytes(0, Number') = <<>>
        /\ Len(digest) = IF cpc = "poll" THEN Number ELSE Number - 1
    BY <2>1, <2>2, BytesAreASequence DEF AtRequest
  <2>4. kstate \in {"exited", After(op)} /\ (kstate = "exited" => faults)
    BY <2>1, <2>2 DEF AtRequest, After
  <2>5. Number' >= 2 /\ Number' - 1 = Number
    BY <1>1, <2>1
  <2>6. Behind'
    BY <1>1, <1>16, <2>1, <2>2, <2>3, <2>4, <2>5 DEF Behind, After
  <2> QED
    BY <2>1, <2>6 DEF Phases, NeverFails
<1>17. CASE ContinueRequest \/ \E o \in {"STOP", "TERM"} : StopOrTermRequest(o)
  BY <1>16, <1>17 DEF ContinueRequest, StopOrTermRequest
<1>18. ~(StartRequest \/ Kill \/ Boot \/ Poll \/ ExecFails)
  BY <1>1, <1>2 DEF AtRequest, StartRequest, Kill, Boot, Poll, ExecFails
<1> QED
  BY <1>4, <1>5, <1>6, <1>7, <1>8, <1>9, <1>10, <1>11, <1>12, <1>13, <1>14, <1>15, <1>17,
     <1>18 DEF Next, ParentStep, ChildStep, Environment

LEMMA NextPhases ==
  ASSUME IInv, Next
  PROVE  Phases' /\ NeverFails'
  BY NoChildStep, BootingStep, NotExecutedStep, BehindStep, AtRequestStep DEF IInv, Phases
-----------------------------------------------------------------------------
(***************************************************************************)
(* The rest of the invariant.                                              *)
(***************************************************************************)
(* TypeOK but for what the phases say of the lengths. *)
Types ==
  /\ faults \in BOOLEAN
  /\ requests \in Seq({"START", "CONT", "STOP", "TERM"})
  /\ ppc \in {"idle", "write", "kill", "wait", "failed"}
  /\ sent \in 0 .. DWORD
  /\ hash \in NOTHING .. TEXT
  /\ stdin \in Seq(1 .. MAX_REQUESTS)
  /\ stdout \in Seq(0 .. TEXT)
  /\ kstate \in {"absent", "running", "stopped", "exited"}
  /\ report \in {"none", "stopped", "exited"}
  /\ pending \subseteq Signals
  /\ blocked \subseteq Signals
  /\ cpc \in {"boot", "poll", "read", "check", "echo", "store", "stop", "hash", "exit"}
  /\ op \in {"START", "CONT", "STOP", "TERM"}
  /\ buf \in Seq(1 .. MAX_REQUESTS)

(* The steps in groups, by what they change. *)
Requesting == \/ StartRequest \/ ContinueRequest
              \/ \E o \in {"STOP", "TERM"} : StopOrTermRequest(o)

LEMMA Opens ==
  ASSUME Requesting
  PROVE  \E o \in DOMAIN Mask : /\ Open(o)
                                /\ o = "START" <=> requests = <<>>
                                /\ requests # <<>> => Request # "TERM"
                                /\ o # "START" => o = "CONT" \/ Request # "STOP"
                                /\ UNCHANGED <<pipes, report, pending, blocked, image>>
                                /\ kstate' = IF o = "START" THEN "running" ELSE kstate
  BY DEF Requesting, StartRequest, ContinueRequest, StopOrTermRequest, Mask, kernel

LEMMA ReadParts ==
  ASSUME TypeOK, Read
  PROVE  buf' \in Seq(1 .. MAX_REQUESTS) /\ stdin' \in Seq(1 .. MAX_REQUESTS)
<1> DEFINE n == Min({Len(stdin), 4 - Len(buf)})
<1>1. /\ stdin \in Seq(1 .. MAX_REQUESTS) /\ buf \in Seq(1 .. MAX_REQUESTS)
      /\ Len(stdin) \in Nat /\ 4 - Len(buf) \in Nat
  BY DEF TypeOK, DWORD
<1>2. n \in Nat /\ n <= Len(stdin)
  <2>1. n = IF Len(stdin) <= 4 - Len(buf) THEN Len(stdin) ELSE 4 - Len(buf)
    BY <1>1, Minimum
  <2> QED
    BY <1>1, <2>1
<1>3. buf' = buf \o SubSeq(stdin, 1, n) /\ stdin' = SubSeq(stdin, n + 1, Len(stdin))
  BY DEF Read, DWORD
<1> HIDE DEF n
<1>4. /\ SubSeq(stdin, 1, n) \in Seq(1 .. MAX_REQUESTS)
      /\ SubSeq(stdin, n + 1, Len(stdin)) \in Seq(1 .. MAX_REQUESTS)
  <2>1. \A i \in 1 .. Len(stdin) : stdin[i] \in 1 .. MAX_REQUESTS
    BY <1>1, ElementOfSeq
  <2>2. /\ n + 1 \in Int /\ Len(stdin) \in Int /\ n \in Int
        /\ \A i \in 1 .. n : i \in 1 .. Len(stdin)
        /\ \A i \in n + 1 .. Len(stdin) : i \in 1 .. Len(stdin)
    BY <1>1, <1>2
  <2> QED
    BY <2>1, <2>2, SubSeqProperties
<1> QED
  BY <1>1, <1>3, <1>4

LEMMA NextTypes ==
  ASSUME IInv, Next
  PROVE  Types'
<1> USE DEF parent, pipes, kernel, image, DWORD
<1>1. Types /\ MAX_REQUESTS \in Nat \ {0} /\ TEXT = MAX_REQUESTS + 1 /\ HASH = 0 /\ NOTHING = 0 - 1
  BY BoundAssumption DEF IInv, TypeOK, Types, TEXT, HASH, NOTHING
<1>2. faults' = faults /\ faults' \in BOOLEAN
  BY <1>1 DEF Next, Types
<1>3. requests # <<>> => Number \in 1 .. MAX_REQUESTS
  BY <1>1 DEF IInv, Protocol, Types, Number
<1>4. ASSUME Requesting
      PROVE  Types'
  <2>1. PICK o \in DOMAIN Mask : /\ Open(o)
                                 /\ UNCHANGED <<pipes, report, pending, blocked, image>>
                                 /\ kstate' \in {"running", kstate}
    BY <1>4, Opens
  <2> QED
    BY <1>1, <1>2, <2>1 DEF Open, Mask, Types
<1>5. CASE WriteByte
  <2>1. Number \in 1 .. MAX_REQUESTS
    <3>1. requests # <<>>
      <4>1. requests = <<>> => Number = 0
        BY DEF Number
      <4> QED
        BY <1>5, <4>1
           DEF WriteByte, IInv, Phases, NoChild, Booting, NotExecuted, Behind, AtRequest
    <3> QED
      BY <1>3, <3>1
  <2>2. stdin' \in Seq(1 .. MAX_REQUESTS) /\ sent' \in 0 .. 4
    BY <1>1, <1>5, <2>1 DEF WriteByte, IInv, Sending, Types
  <2> QED
    BY <1>1, <1>2, <1>5, <2>2 DEF WriteByte, Types
<1>6. CASE WriteFails \/ ParentDies
  BY <1>1, <1>2, <1>6 DEF WriteFails, ParentDies, Types
<1>7. CASE Kill
  <2>1. kstate # "absent"
    BY <1>7 DEF Kill, IInv, Phases, NoChild, Booting, NotExecuted, Behind, AtRequest
  <2>2. /\ kstate' \in {"running", "stopped", "exited"} /\ blocked' = blocked
        /\ pending' \subseteq Signals /\ report' \in {"none", kstate'}
        /\ report' \in {"none", "stopped", "exited"}
        /\ UNCHANGED <<requests, sent, hash, pipes, image>> /\ ppc' = "wait"
    BY <1>7, <2>1, Killed
  <2> QED
    BY <1>1, <1>2, <2>2 DEF Types
<1>8. CASE ReadAndVerify \/ WaitUntilStopped \/ ReadHash
  <2>1. stdout # <<>> => Tail(stdout) \in Seq(0 .. TEXT) /\ Head(stdout) \in 0 .. TEXT
    BY <1>1 DEF Types
  <2>2. CASE ReadAndVerify
    BY <1>1, <1>2, <2>1, <2>2 DEF ReadAndVerify, Types
  <2>3. CASE WaitUntilStopped
    BY <1>1, <1>2, <2>3 DEF WaitUntilStopped, Types
  <2>4. CASE ReadHash
    <3>1. hash' \in NOTHING .. TEXT /\ stdout' \in Seq(0 .. TEXT)
      <4>1. 0 .. TEXT \subseteq NOTHING .. TEXT
        BY <1>1
      <4> QED
        BY <1>1, <2>1, <2>4, <4>1 DEF ReadHash, Types
    <3> QED
      BY <1>1, <1>2, <2>4, <3>1 DEF ReadHash, Types
  <2> QED
    BY <1>8, <2>2, <2>3, <2>4
<1>9. CASE Read
  <2>1. buf' \in Seq(1 .. MAX_REQUESTS) /\ stdin' \in Seq(1 .. MAX_REQUESTS)
    BY <1>9, ReadParts DEF IInv
  <2> QED
    BY <1>1, <1>2, <1>9, <2>1 DEF Read, Types
<1>10. CASE Poll
  <2>1. Lowest(pending) \in Signals /\ buf' \in Seq(1 .. MAX_REQUESTS)
    BY <1>1, <1>10 DEF Poll, Lowest, Types, Signals
  <2>2. /\ pending' \subseteq Signals /\ blocked' \subseteq Signals
        /\ op' \in {"START", "CONT", "STOP", "TERM"}
    <3>1. CASE Lowest(pending) = "TERM"
      BY <1>1, <1>10, <3>1 DEF Poll, Types, Signals, OpOf
    <3>2. CASE Lowest(pending) = "TSTP"
      BY <1>1, <1>10, <3>2 DEF Poll, Types, Signals, OpOf
    <3>3. CASE Lowest(pending) = "CONT"
      BY <1>1, <1>10, <3>3 DEF Poll, Types, Signals, OpOf
    <3> QED
      BY <2>1, <3>1, <3>2, <3>3 DEF Signals
  <2> QED
    BY <1>1, <1>2, <1>10, <2>1, <2>2 DEF Poll, Types
<1>11. CASE Echo
  <2>1. Last(buf) \in 0 .. TEXT
    <3>1. buf = Bytes(4, Number) /\ Number \in 1 .. MAX_REQUESTS
      BY <1>11, <1>3 DEF Echo, IInv, Phases, NoChild, Booting, NotExecuted, Behind, AtRequest, Number
    <3>2. Last(buf) = Number
      BY <3>1, 4 \in Nat, 4 \in 1 .. 4, BytesAreASequence DEF Last
    <3> QED
      BY <1>1, <3>1, <3>2
  <2> QED
    BY <1>1, <1>2, <1>11, <2>1 DEF Echo, Types
<1>12. CASE PrintHash
  <2>1. HASH \in 0 .. TEXT
    BY <1>1
  <2> QED
    BY <1>1, <1>2, <1>12, <2>1 DEF PrintHash, Types
<1>13. CASE ExecFails
  <2>1. stdout' \in Seq(0 .. TEXT)
    <3>1. PICK m \in 0 .. 2 : stdout' \in [1 .. m -> {1, 2, TEXT}]
      BY <1>13, Zenon DEF ExecFails, Transcripts, BoundedSeq, SeqOf
    <3>2. {1, 2, TEXT} \subseteq 0 .. TEXT
      BY <1>1
    <3> QED
      BY <3>1, <3>2
  <2> QED
    BY <1>1, <1>2, <1>13, <2>1 DEF ExecFails, Types
<1>14. CASE CheckLeftover \/ Store \/ Stop \/ Exit \/ WriteToNobody \/ Die \/ Boot
  <2>1. /\ UNCHANGED <<parent, pipes, buf, op>>
        /\ kstate' \in {kstate, "exited", "stopped"}
        /\ report' \in {"none", "exited", "stopped"}
        /\ pending' \subseteq Signals /\ blocked' \subseteq Signals
        /\ cpc' \in {"poll", "echo", "store", "stop", "hash", "read", cpc}
    BY <1>1, <1>14 DEF CheckLeftover, AfterCheck, Store, AfterStore, Stop, Exit, WriteToNobody,
                       Die, Boot, Types
  <2> QED
    BY <1>1, <1>2, <2>1 DEF Types
<1> QED
  BY <1>4, <1>5, <1>6, <1>7, <1>8, <1>9, <1>10, <1>11, <1>12, <1>13, <1>14
     DEF Next, ParentStep, ChildStep, Environment, Requesting

LEMMA NextTypeOK ==
  ASSUME IInv, Next, Protocol', DigestExact'
  PROVE  TypeOK'
<1>1. Types' /\ Phases' /\ sent' \in 0 .. 4
  BY NextTypes, NextPhases DEF Types, DWORD
<1>2. Number' \in Nat /\ \A k \in Nat : \A n : Len(Bytes(k, n)) = k
  <2>1. ASSUME NEW k \in Nat, NEW n
        PROVE  Len(Bytes(k, n)) = k
    BY n \in {n}, BytesAreASequence
  <2> QED
    BY <1>1, <2>1 DEF Types, Number
<1>3. Len(stdin)' \in Nat /\ Len(stdout)' \in Nat /\ Len(buf)' \in Nat
  BY <1>1 DEF Types
<1>4. /\ Len(stdin)' <= 16 /\ (~faults' => Len(stdin)' <= 4)
      /\ Len(stdout)' <= 2 /\ (~faults' => Len(stdout)' <= 1)
      /\ Len(buf)' <= 4
  <2>1. CASE NoChild'
    BY <2>1 DEF NoChild
  <2>2. CASE Booting'
    BY <1>1, <1>2, <2>2 DEF Booting
  <2>3. CASE NotExecuted'
    <3>1. /\ Number' \in 1 .. 4 /\ Len(stdin') = 4 * (Number' - 1) + sent'
          /\ faults' /\ Len(stdout') <= 2 /\ buf' = <<>>
      BY <2>3 DEF NotExecuted, DWORD
    <3>2. \A a \in 1 .. 4, b \in 0 .. 4 : 4 * (a - 1) + b <= 16
      OBVIOUS
    <3>3. 4 * (Number' - 1) + sent' <= 16
      BY <1>1, <3>1, <3>2
    <3>4. Len(buf') = 0
      BY <3>1
    <3> QED
      BY <3>1, <3>3, <3>4
  <2>4. CASE Behind'
    BY <1>1, <1>2, <2>4 DEF Behind, DWORD
  <2>5. CASE AtRequest'
    <3>1. Len(stdout)' <= 1
      <4>1. stdout' = <<>> \/ \E a : stdout' = <<a>>
        BY <2>5 DEF AtRequest
      <4> QED
        BY <4>1
    <3>2. CASE cpc' = "read"
      <4>1. /\ Len(buf)' <= sent' /\ Len(buf)' < 4
            /\ stdin' = Bytes(sent' - Len(buf'), Number')
        BY <2>5, <3>2 DEF AtRequest, DWORD
      <4>2. sent' - Len(buf') \in Nat /\ sent' - Len(buf') <= 4
        BY <1>1, <1>3, <4>1
      <4> QED
        BY <1>2, <1>3, <3>1, <4>1, <4>2
    <3>3. CASE cpc' # "read"
      BY <1>2, <2>5, <3>1, <3>3 DEF AtRequest, DWORD
    <3> QED
      BY <3>2, <3>3
  <2> QED
    BY <1>1, <2>1, <2>2, <2>3, <2>4, <2>5 DEF Phases
<1>5. Len(digest)' <= MAX_REQUESTS
  <2>1. Len(digest)' <= Number' /\ Number' <= MAX_REQUESTS
    BY DEF DigestExact, Protocol
  <2>2. Len(digest)' \in Nat
    <3>1. Number' \in Nat
      BY <1>2
    <3> QED
      BY <1>1, <3>1 DEF Phases, NoChild, Booting, NotExecuted, Behind, AtRequest
  <2> QED
    BY <1>2, <2>1, <2>2, BoundAssumption
<1> QED
  BY <1>1, <1>3, <1>4, <1>5 DEF TypeOK, Types, DWORD

LEMMA NextProtocol ==
  ASSUME IInv, Next
  PROVE  Protocol'
<1> USE DEF parent, pipes, kernel, image
<1>1. CASE requests' = requests
  BY <1>1 DEF IInv, Protocol, Number
<1>2. ASSUME NEW o \in DOMAIN Mask, Open(o),
             o = "START" <=> requests = <<>>,
             requests # <<>> => Request # "TERM",
             o # "START" => o = "CONT" \/ Request # "STOP"
      PROVE  Protocol'
  <2>1. /\ Number \in Nat /\ Number < MAX_REQUESTS /\ Number' = Number + 1
        /\ requests' \in Seq(DOMAIN Mask) /\ requests'[Number + 1] = o
        /\ \A i \in 1 .. Number : requests'[i] = requests[i]
        /\ DOMAIN requests = 1 .. Number /\ DOMAIN requests' = 1 .. Number + 1
        /\ MAX_REQUESTS \in Nat
    <3>1. requests \in Seq(DOMAIN Mask) /\ Len(requests) = Number
      BY DEF IInv, TypeOK, Mask, Number
    <3>2. requests' = Append(requests, o)
      BY <1>2 DEF Open
    <3> QED
      BY <1>2, <3>1, <3>2, Requested, BoundAssumption DEF IInv
  <2>2. /\ Number = 0 <=> requests = <<>>
        /\ requests # <<>> => Request = requests[Number]
    BY <2>1 DEF Request, Last, Number, IInv, TypeOK
  <2>3. \A i \in 1 .. Number :
          /\ requests[i] = "START" <=> i = 1
          /\ requests[i] = "STOP" /\ i < Number => requests[i + 1] = "CONT"
          /\ requests[i] = "TERM" => i = Number
    BY <2>1 DEF IInv, Protocol
  <2>4. ASSUME NEW i \in 1 .. Number + 1
        PROVE  /\ requests'[i] = "START" <=> i = 1
               /\ requests'[i] = "STOP" /\ i < Number + 1 => requests'[i + 1] = "CONT"
               /\ requests'[i] = "TERM" => i = Number + 1
    <3>1. CASE i = Number + 1
      BY <1>2, <2>1, <2>2, <3>1
    <3>2. CASE i = Number
      <4>1. i \in 1 .. Number /\ requests'[i] = Request /\ Request = requests[i]
            /\ requests # <<>>
        BY <2>1, <2>2, <2>4, <3>2
      <4>2. requests[i] # "TERM" /\ (requests[i] = "STOP" => o = "CONT")
        BY <1>2, <4>1
      <4> QED
        BY <2>1, <2>3, <3>2, <4>1, <4>2
    <3>3. CASE i < Number
      <4>1. i \in 1 .. Number /\ i + 1 \in 1 .. Number
        BY <2>1, <2>4, <3>3
      <4> QED
        BY <2>1, <2>3, <3>3, <4>1
    <3> QED
      BY <2>1, <2>4, <3>1, <3>2, <3>3
  <2>5. Number' <= MAX_REQUESTS
    BY <2>1
  <2> QED
    BY <2>1, <2>4, <2>5 DEF Protocol
<1>3. CASE Requesting
  BY <1>2, <1>3, Opens
<1>4. CASE ~Requesting
  <2>1. requests' = requests
    BY <1>4 DEF Next, Requesting, ParentStep, ChildStep, Environment, WriteByte, WriteFails, Kill,
                ReadAndVerify, WaitUntilStopped, ReadHash, Boot, Poll, Read, CheckLeftover, Echo,
                Store, Stop, PrintHash, Exit, WriteToNobody, ExecFails, Die, ParentDies
  <2> QED
    BY <1>1, <2>1
<1> QED
  BY <1>3, <1>4

LEMMA NextSending ==
  ASSUME IInv, Next
  PROVE  Sending'
<1> USE DEF parent, pipes, kernel, image, DWORD
<1>1. /\ sent \in 0 .. 4
      /\ ppc \in {"idle", "write", "kill", "wait", "failed"} /\ report \in {"none", "stopped", "exited"}
  BY DEF IInv, TypeOK
<1>2. UNCHANGED requests => Number' = Number /\ Request' = Request
  BY SameRequests
<1>3. CASE Requesting
  <2>1. PICK o \in DOMAIN Mask : /\ Open(o)
                                 /\ o = "START" <=> requests = <<>>
                                 /\ UNCHANGED <<pipes, report, pending, blocked, image>>
                                 /\ kstate' = IF o = "START" THEN "running" ELSE kstate
    BY <1>3, Opens
  <2>2. ppc' = "write" /\ sent' = 0
    BY <2>1 DEF Open
  <2>3. report' \in {"none", kstate'}
    <3>1. CASE requests = <<>>
      <4>1. kstate = "absent"
        <5>1. Number = 0
          BY <3>1 DEF Number
        <5> QED
          BY <5>1 DEF IInv, Phases, NoChild, Booting, NotExecuted, Behind, AtRequest
      <4> QED
        BY <1>1, <2>1, <4>1 DEF IInv, Sending
    <3>2. CASE requests # <<>>
      BY <2>1, <3>2 DEF IInv, Sending
    <3> QED
      BY <3>1, <3>2
  <2> QED
    BY <2>1, <2>2, <2>3 DEF IInv, Sending
<1>4. CASE WriteByte
  <2>1. /\ sent < 4 /\ sent' = sent + 1 /\ UNCHANGED <<requests, kstate, report, digest>>
        /\ ppc' = IF sent' < 4 THEN "write" ELSE IF Request = "START" THEN "wait" ELSE "kill"
    BY <1>4 DEF WriteByte, IInv, Sending
  <2>2. Request' = Request /\ sent' \in 1 .. 4
    BY <1>1, <1>2, <2>1
  <2>3. /\ ppc' = "write" => sent' < 4
        /\ ppc' \in {"kill", "wait"} => sent' = 4
        /\ ppc' = "kill" => Request' # "START"
    BY <2>1, <2>2
  <2> QED
    BY <2>1, <2>3 DEF IInv, Sending
<1>5. CASE Kill
  <2>1. kstate # "absent"
    BY <1>5 DEF Kill, IInv, Phases, NoChild, Booting, NotExecuted, Behind, AtRequest
  <2>2. /\ report' \in {"none", kstate'} /\ ppc' = "wait" /\ sent' = sent /\ digest' = digest
    BY <1>5, <2>1, Killed
  <2>3. sent = 4
    BY <1>5 DEF Kill, IInv, Sending
  <2> QED
    BY <2>2, <2>3 DEF IInv, Sending
<1>6. CASE \/ WriteFails \/ ReadAndVerify \/ WaitUntilStopped \/ ReadHash \/ ParentDies
  <2>1. /\ ppc' \in {"idle", "failed"} /\ UNCHANGED <<sent, kstate, digest>>
        /\ report' \in {"none", report}
    BY <1>1, <1>6 DEF WriteFails, ReadAndVerify, WaitUntilStopped, ReadHash, ParentDies
  <2> QED
    BY <2>1 DEF IInv, Sending
<1>7. CASE Store
  <2>1. [op |-> op, bytes |-> buf] \in [op : DOMAIN Mask, bytes : Seq(1 .. MAX_REQUESTS)]
    BY DEF IInv, TypeOK, Mask
  <2>2. digest' \in Seq([op : DOMAIN Mask, bytes : Seq(1 .. MAX_REQUESTS)])
    BY <1>7, <2>1, AppendProperties DEF Store, IInv, Sending
  <2> QED
    BY <1>2, <1>7, <2>2 DEF Store, IInv, Sending
<1>8. CASE \/ Boot \/ Poll \/ Read \/ CheckLeftover \/ Echo \/ Stop \/ PrintHash \/ Exit
           \/ WriteToNobody \/ ExecFails \/ Die
  <2>1. /\ UNCHANGED <<requests, ppc, sent, digest>>
        /\ UNCHANGED <<kstate, report>> \/ report' = kstate'
    BY <1>8 DEF Boot, Poll, Read, CheckLeftover, Echo, Stop, PrintHash, Exit, WriteToNobody,
                ExecFails, Die
  <2> QED
    BY <1>2, <2>1 DEF IInv, Sending
<1> QED
  BY <1>3, <1>4, <1>5, <1>6, <1>7, <1>8 DEF Next, ParentStep, ChildStep, Environment, Requesting

(* A request is stored under its own number: the ones before it have been. *)
LEMMA NextDigestExact ==
  ASSUME IInv, Next
  PROVE  DigestExact'
<1> USE DEF parent, pipes, kernel, image, DWORD
<1>1. /\ Number \in Nat /\ requests \in Seq(DOMAIN Mask) /\ Len(requests) = Number
      /\ digest \in Seq([op : DOMAIN Mask, bytes : Seq(1 .. MAX_REQUESTS)])
      /\ Len(digest) \in Nat /\ Len(digest) <= Number
      /\ DOMAIN digest = 1 .. Len(digest)
      /\ \A i \in 1 .. Len(digest) : digest[i] = Digest(i, requests[i])
  BY DEF IInv, TypeOK, Sending, DigestExact, Number, Mask
<1>2. CASE Requesting
  <2>1. PICK o \in DOMAIN Mask : Open(o) /\ UNCHANGED image
    BY <1>2, Opens
  <2>2. Number' = Number + 1 /\ \A i \in 1 .. Number : requests'[i] = requests[i]
    BY <2>1, Requested DEF IInv
  <2>3. \A i \in 1 .. Len(digest) : i \in 1 .. Number
    BY <1>1
  <2>4. digest' = digest /\ Len(digest) <= Number + 1
    BY <1>1, <2>1
  <2>5. \A i \in DOMAIN digest' : digest'[i] = Digest(i, requests'[i])
    BY <1>1, <2>2, <2>3, <2>4
  <2> QED
    BY <2>2, <2>4, <2>5 DEF DigestExact, Digest
<1>3. CASE Store
  <2>1. /\ digest' = Append(digest, [op |-> op, bytes |-> buf]) /\ cpc = "store"
        /\ requests' = requests
    BY <1>3 DEF Store
  <2>2. /\ Len(digest) + 1 \in 1 .. Number /\ op = requests[Len(digest) + 1]
        /\ buf = Bytes(4, Len(digest) + 1)
    <3>1. CASE Behind
      BY <1>1, <2>1, <3>1 DEF Behind
    <3>2. CASE AtRequest
      BY <1>1, <2>1, <3>2 DEF AtRequest, Request, Last
    <3> QED
      BY <2>1, <3>1, <3>2 DEF IInv, Phases, NoChild, Booting, NotExecuted
  <2>3. [op |-> op, bytes |-> buf] = Digest(Len(digest) + 1, requests[Len(digest) + 1])
    BY <2>2 DEF Digest, Bytes
  <2>4. [op |-> op, bytes |-> buf] \in [op : DOMAIN Mask, bytes : Seq(1 .. MAX_REQUESTS)]
    BY DEF IInv, TypeOK, Mask
  <2> DEFINE e == [op |-> op, bytes |-> buf]
  <2> HIDE DEF e
  <2>5. /\ Len(digest') = Len(digest) + 1 /\ DOMAIN digest' = 1 .. Len(digest) + 1
        /\ digest'[Len(digest) + 1] = e
        /\ \A i \in 1 .. Len(digest) : digest'[i] = digest[i]
    BY <1>1, <2>1, <2>4 DEF e
  <2>6. \A i \in DOMAIN digest' : digest'[i] = Digest(i, requests[i])
    <3> SUFFICES ASSUME NEW i \in 1 .. Len(digest) + 1
                 PROVE  digest'[i] = Digest(i, requests[i])
      BY <2>5
    <3>1. i \in 1 .. Len(digest) \/ i = Len(digest) + 1
      BY <1>1
    <3> QED
      BY <1>1, <2>3, <2>5, <3>1 DEF e
  <2>7. Number' = Number
    BY <2>1, SameRequests
  <2> QED
    BY <1>1, <2>1, <2>2, <2>5, <2>6, <2>7 DEF DigestExact
<1>4. CASE ~Requesting /\ ~Store
  <2>1. requests' = requests /\ digest' = digest
    BY <1>4 DEF Next, Requesting, ParentStep, ChildStep, Environment, WriteByte, WriteFails, Kill,
                ReadAndVerify, WaitUntilStopped, ReadHash, Boot, Poll, Read, CheckLeftover, Echo,
                Stop, PrintHash, Exit, WriteToNobody, ExecFails, Die, ParentDies
  <2> QED
    BY <2>1, SameRequests DEF IInv, DigestExact, Digest
<1> QED
  BY <1>2, <1>3, <1>4

LEMMA InitIInv == Init => IInv
<1> SUFFICES ASSUME Init
             PROVE  IInv
  OBVIOUS
<1>1. /\ requests = <<>> /\ Number = 0 /\ ppc = "idle" /\ kstate = "absent" /\ sent = 0
      /\ stdin = <<>> /\ stdout = <<>> /\ pending = {} /\ blocked = {} /\ report = "none"
      /\ cpc = "boot" /\ op = "START" /\ buf = <<>> /\ digest = <<>> /\ hash = NOTHING
      /\ faults \in BOOLEAN
  BY DEF Init, Number
<1>2. NOTHING \in NOTHING .. TEXT /\ MAX_REQUESTS \in Nat \ {0}
  BY BoundAssumption DEF NOTHING, TEXT
<1>3. TypeOK
  BY <1>1, <1>2 DEF TypeOK, DWORD
<1>4. NeverFails /\ DigestExact /\ Protocol
  BY <1>1, <1>2 DEF NeverFails, DigestExact, Protocol
<1>5. Sending
  BY <1>1 DEF Sending
<1>6. Phases
  BY <1>1 DEF Phases, NoChild
<1> QED
  BY <1>3, <1>4, <1>5, <1>6 DEF IInv

LEMMA NextIInv == IInv /\ [Next]_vars => IInv'
<1> SUFFICES ASSUME IInv, [Next]_vars
             PROVE  IInv'
  OBVIOUS
<1>1. CASE Next
  BY <1>1, NextPhases, NextTypeOK, NextProtocol, NextSending, NextDigestExact DEF IInv
<1>2. CASE UNCHANGED vars
  <2> USE <1>2 DEF vars, parent, pipes, kernel, image
  <2>1. Number' = Number /\ Request' = Request
    BY SameRequests
  <2>2. TypeOK' /\ NeverFails' /\ DigestExact' /\ Protocol' /\ Sending'
    BY <2>1 DEF IInv, TypeOK, NeverFails, DigestExact, Digest, Protocol, Sending
  <2>3. Phases'
    BY <2>1 DEF IInv, Phases, NoChild, Booting, NotExecuted, Behind, AtRequest, Answered, Answer
  <2> QED
    BY <2>2, <2>3 DEF IInv
<1> QED
  BY <1>1, <1>2

(* Parent and child are always in one of the five phases. *)
THEOREM InductiveInvariant == Spec => []IInv
<1>1. Init => IInv
  BY InitIInv
<1>2. IInv /\ [Next]_vars => IInv'
  BY NextIInv
<1> QED
  BY <1>1, <1>2, PTL DEF Spec
-----------------------------------------------------------------------------
(***************************************************************************)
(* The theorems.                                                           *)
(***************************************************************************)
(* Neither pipe is ever full: no write() of parent or child blocks.        *)
THEOREM TypeCorrect == Spec => []TypeOK
<1>1. IInv => TypeOK
  BY DEF IInv
<1> QED
  BY <1>1, InductiveInvariant, PTL

(* If nobody is killed, no request ever fails.                             *)
THEOREM RequestsDoNotFail == Spec => []NeverFails
<1>1. IInv => NeverFails
  BY DEF IInv
<1> QED
  BY <1>1, InductiveInvariant, PTL

(* The child hashes the parent's requests, each once and in order, whoever *)
(* is killed when.                                                         *)
THEOREM ChildHashesTheRequests == Spec => []DigestExact
<1>1. IInv => DigestExact
  BY DEF IInv
<1> QED
  BY <1>1, InductiveInvariant, PTL

(* When the parent goes on, nothing of the request is left in pipes or     *)
(* signals and the child is in the state it was told to be in.             *)
THEOREM SettledWhenIdle == Spec => []Settled
<1>1. IInv => Settled
  <2> SUFFICES ASSUME IInv, ~faults, ppc = "idle", requests # <<>>
               PROVE  Settled
    BY DEF Settled
  <2>1. AtRequest /\ kstate \in {"running", "stopped", "exited"}
    BY DEF IInv, Phases, NoChild, Booting, NotExecuted, Behind, AtRequest
  <2>2. Request \in {"START", "CONT", "STOP", "TERM"} /\ op = Request
    BY <2>1 DEF IInv, TypeOK, AtRequest
  <2>3. /\ pending = {} /\ stdout = <<>> /\ cpc \in Positions[op] /\ blocked = Mask[op]
        /\ kstate = "exited" => cpc = "exit"
        /\ Answered \/ (op = "STOP" /\ cpc = "poll") \/ (op = "TERM" /\ cpc = "exit")
        /\ Len(digest) = IF cpc \in {"read", "check", "echo", "store"} THEN Number - 1 ELSE Number
        /\ kstate = "stopped" <=> op = "STOP" /\ cpc = "poll" /\ kstate # "exited"
        /\ op = "TERM" => cpc = "exit" /\ hash = HASH
        /\ cpc # "read" => stdin = <<>>
    BY <2>1 DEF AtRequest, Answered
  <2>4. cpc # "read"
    BY <2>3 DEF Answered
  <2>5. CASE Request = "STOP"
    BY <2>1, <2>2, <2>3, <2>4, <2>5 DEF Settled, Answered, Positions
  <2>6. CASE Request = "TERM"
    BY <2>1, <2>2, <2>3, <2>4, <2>6 DEF Settled, Answered
  <2>7. CASE Request \in {"START", "CONT"}
    BY <2>1, <2>2, <2>3, <2>4, <2>7 DEF Settled, Answered, Positions, Mask, Running
  <2> QED
    BY <2>2, <2>5, <2>6, <2>7
<1> QED
  BY <1>1, InductiveInvariant, PTL

(* Whoever is killed when: the parent takes no answer for that of a child  *)
(* that has been executed and has not read the request.                    *)
THEOREM AnswersTrue == Spec => []AnswersAreTrue
<1>1. IInv => AnswersAreTrue
  <2> SUFFICES ASSUME IInv, ppc = "idle", blocked # {}, Request # "TERM"
               PROVE  \/ Len(digest) = Number
                      \/ cpc = "store" /\ op = Request /\ buf = Digest(Number, Request).bytes
    BY DEF AnswersAreTrue, Executed
  <2>1. AtRequest
    BY DEF IInv, Phases, NoChild, Booting, NotExecuted, Behind
  <2>2. cpc \in {"store", "poll", "exit"} /\ op = Request
    BY <2>1 DEF AtRequest, Answered
  <2>3. CASE cpc = "store"
    BY <2>1, <2>2, <2>3 DEF AtRequest, Bytes, Digest
  <2>4. CASE cpc # "store"
    BY <2>1, <2>2, <2>4 DEF AtRequest
  <2> QED
    BY <2>3, <2>4
<1> QED
  BY <1>1, InductiveInvariant, PTL

(* A child the parent has died under spins only in its first request.      *)
THEOREM SpinsAtStart == Spec => []SpinsOnlyAtStart
<1>1. IInv => SpinsOnlyAtStart
  <2> SUFFICES ASSUME IInv, cpc = "read", Len(buf) + Len(stdin) < DWORD, op # "START"
               PROVE  FALSE
    BY DEF SpinsOnlyAtStart
  <2>1. AtRequest /\ sent = 4
    BY DEF IInv, Phases, NoChild, Booting, NotExecuted, Behind, AtRequest, DWORD
  <2>2. Len(buf) \in Nat /\ Len(buf) < 4 /\ stdin = Bytes(4 - Len(buf), Number)
    BY <2>1 DEF AtRequest, IInv, TypeOK, DWORD
  <2>3. Len(stdin) = 4 - Len(buf)
    BY <2>2, 4 - Len(buf) \in Nat, BytesAreASequence
  <2> QED
    BY <2>2, <2>3 DEF DWORD
<1> QED
  BY <1>1, InductiveInvariant, PTL
-----------------------------------------------------------------------------
(***************************************************************************)
(* The refinement.                                                         *)
(***************************************************************************)
LEMMA NotRequesting ==
  ASSUME Next, ~Requesting
  PROVE  UNCHANGED requests
  BY DEF Next, Requesting, ParentStep, ChildStep, Environment, WriteByte, WriteFails, Kill,
         ReadAndVerify, WaitUntilStopped, ReadHash, Boot, Poll, Read, CheckLeftover, Echo,
         Store, Stop, PrintHash, Exit, WriteToNobody, ExecFails, Die, ParentDies,
         parent, pipes, kernel, image

(* What Settled says of the state the child is in. *)
LEMMA SettledStatus ==
  /\ IInv /\ Settled /\ ~faults /\ ppc = "idle" /\ requests # <<>> => Actual = After(Request)
  /\ IInv /\ requests = <<>> => Number = 0 /\ Actual = "none"
<1>1. ASSUME IInv, Settled, ~faults, ppc = "idle", requests # <<>>
      PROVE  Actual = After(Request)
  <2>1. Request \in {"START", "CONT", "STOP", "TERM"} /\ kstate # "absent"
    BY <1>1 DEF IInv, Phases, NoChild, Booting, NotExecuted, Behind, AtRequest, TypeOK
  <2>2. CASE Request = "STOP"
    BY <1>1, <2>2 DEF Settled, Actual, After
  <2>3. CASE Request = "TERM"
    BY <1>1, <2>1, <2>3 DEF Settled, Actual, After
  <2>4. CASE Request \in {"START", "CONT"}
    BY <1>1, <2>4 DEF Settled, Actual, After, Running
  <2> QED
    BY <2>1, <2>2, <2>3, <2>4
<1>2. ASSUME IInv, requests = <<>>
      PROVE  Number = 0 /\ Actual = "none"
  <2>1. Number = 0
    BY <1>2 DEF Number
  <2> QED
    BY <1>2, <2>1 DEF IInv, Phases, NoChild, Booting, NotExecuted, Behind, AtRequest, Actual
<1> QED
  BY <1>1, <1>2

(* A step of parent or child without failures is a call's or changes       *)
(* nothing of what the callers know.                                       *)
LEMMA StepRefinesCall ==
  ASSUME IInv, IInv', Settled, Settled', Next, ~faults,
         ppc' = "idle" /\ requests' # <<>> => Actual' = After(Request)'
  PROVE  Call
<1>1. /\ ppc # "failed" /\ ppc' # "failed" /\ ppc \in {"idle", "write", "kill", "wait", "failed"}
      /\ faults' = faults
  BY DEF IInv, NeverFails, TypeOK, Next
<1>2. /\ Number \in Nat /\ (Number >= 1 => requests # <<>>) /\ (requests = <<>> <=> Number = 0)
  BY DEF IInv, TypeOK, Number
<1>3. requests = <<>> => ppc = "idle"
  BY <1>1, <1>2 DEF IInv, Phases, NoChild, Booting, NotExecuted, Behind, AtRequest
<1>4. CASE ppc # "idle" /\ ppc' = "idle"
  <2>1. requests' = requests /\ Number' = Number /\ Request' = Request /\ requests # <<>>
    <3>1. ~Requesting
      BY <1>4 DEF Requesting, StartRequest, ContinueRequest, StopOrTermRequest, Open
    <3> QED
      BY <1>3, <1>4, <3>1, NotRequesting, SameRequests
  <2>2. status' = After(Request)
    BY <1>4, <2>1 DEF status, After
  <2>3. status = IF Number = 1 THEN "none" ELSE After(requests[Number - 1])
    BY <1>4 DEF status
  <2>4. /\ Number >= 1 /\ Request \in {"START", "CONT", "STOP", "TERM"}
        /\ Request = "START" <=> Number = 1
        /\ Number >= 2 => /\ requests[Number - 1] \in {"START", "CONT", "STOP"}
                          /\ requests[Number - 1] = "STOP" => Request = "CONT"
    BY <1>2, <2>1, LastRequest
  <2> DEFINE c == [p \in {"process"} |-> status]
  <2>5. c["process"] = status /\ c' = [c EXCEPT !["process"] = After(Request)]
    BY <2>2
  <2> HIDE DEF c
  <2>6. CASE Request = "START"
    <3>1. Lifecycle!Start("process")
      BY <2>3, <2>4, <2>5, <2>6 DEF Lifecycle!Start, After, c
    <3> QED
      BY <1>4, <2>6, <3>1 DEF Call
  <2>7. CASE Request = "CONT"
    <3>1. Lifecycle!Continue("process")
      BY <1>2, <2>3, <2>4, <2>5, <2>7 DEF Lifecycle!Continue, After, c
    <3> QED
      BY <1>4, <2>7, <3>1 DEF Call
  <2>8. CASE Request = "STOP"
    <3>1. Lifecycle!Suspend("process")
      BY <1>2, <2>3, <2>4, <2>5, <2>8 DEF Lifecycle!Suspend, After, c
    <3> QED
      BY <1>4, <2>8, <3>1 DEF Call
  <2>9. CASE Request = "TERM"
    <3>1. Lifecycle!Terminate("process")
      BY <1>2, <2>3, <2>4, <2>5, <2>9 DEF Lifecycle!Terminate, After, c
    <3> QED
      BY <1>4, <2>9, <3>1 DEF Call
  <2> QED
    BY <2>4, <2>6, <2>7, <2>8, <2>9
<1>5. CASE ppc # "idle" /\ ppc' # "idle"
  <2>1. ~Requesting
    BY <1>5 DEF Requesting, StartRequest, ContinueRequest, StopOrTermRequest, Open
  <2>2. requests' = requests /\ Number' = Number
    BY <2>1, NotRequesting, SameRequests
  <2> QED
    BY <1>5, <2>2 DEF Call, status
<1>6. CASE ppc = "idle" /\ ppc' # "idle"
  <2>1. Requesting
    <3>1. ~ParentDies
      BY DEF ParentDies
    <3> QED
      BY <1>6, <3>1
         DEF Next, Requesting, ParentStep, ChildStep, Environment, WriteByte, WriteFails, Kill,
             ReadAndVerify, WaitUntilStopped, ReadHash, Boot, Poll, Read, CheckLeftover, Echo,
             Store, Stop, PrintHash, Exit, WriteToNobody, ExecFails, Die, parent, pipes, kernel,
             image
  <2>2. Number' = Number + 1 /\ \A i \in 1 .. Number : requests'[i] = requests[i]
    BY <2>1, Opens, Requested DEF IInv
  <2>3. CASE requests = <<>>
    BY <1>2, <1>6, <2>2, <2>3, SettledStatus DEF Call, status
  <2>4. CASE requests # <<>>
    <3>1. Actual = After(Request) /\ Request = requests[Number] /\ Number \in 1 .. Number
      BY <1>2, <1>6, <2>4, SettledStatus DEF Request, Last, Number
    <3>2. Number' # 1 /\ requests'[Number' - 1] = Request
      BY <1>2, <2>2, <2>4, <3>1
    <3> QED
      BY <1>6, <3>1, <3>2 DEF Call, status, After
  <2> QED
    BY <2>3, <2>4
<1>7. CASE ppc = "idle" /\ ppc' = "idle"
  <2>1. ~Requesting
    BY <1>7 DEF Requesting, StartRequest, ContinueRequest, StopOrTermRequest, Open
  <2>2. requests' = requests /\ Request' = Request
    BY <2>1, NotRequesting, SameRequests
  <2>3. requests # <<>>
    <3>1. requests = <<>> => NoChild
      BY <1>2 DEF IInv, Phases, Booting, NotExecuted, Behind, AtRequest
    <3>2. ~NoChild
      BY <1>7, <2>1
         DEF NoChild, Next, Requesting, ParentStep, ChildStep, Environment, WriteByte, WriteFails,
             Kill, ReadAndVerify, WaitUntilStopped, ReadHash, Boot, Poll, Read, CheckLeftover,
             Echo, Store, Stop, PrintHash, Exit, WriteToNobody, ExecFails, Die, ParentDies, Running
    <3> QED
      BY <3>1, <3>2
  <2>4. Actual = After(Request) /\ Actual' = After(Request)
    BY <1>7, <2>2, <2>3, SettledStatus DEF After
  <2> QED
    BY <1>7, <2>4 DEF Call, status
<1> QED
  BY <1>4, <1>5, <1>6, <1>7

LEMMA InitLifecycle == Init => Lifecycle!Init
  BY DEF Init, Lifecycle!Init, status, Actual

(* The parent's view is right when it goes on: what Settled says of the    *)
(* child, in the words of ProcessLifecycle.                                *)
StatusIsSettled ==
  ~faults /\ ppc = "idle" /\ requests # <<>> => Actual = After(Request)

(* Without failures every call of main.c has the effect ProcessLifecycle   *)
(* gives it, and no other, when the parent goes on.                        *)
THEOREM CallsImplementLifecycle == Spec => ImplementsLifecycle
<1>1. IInv /\ Settled => StatusIsSettled
  BY SettledStatus DEF StatusIsSettled
<1>2. ASSUME IInv, IInv', Settled, Settled', StatusIsSettled', [Next]_vars
      PROVE  [~faults => Call]_vars
  <2>1. CASE UNCHANGED vars
    BY <2>1
  <2>2. CASE Next
    <3>1. ASSUME ~faults
          PROVE  Call
      <4>1. ~faults'
        BY <2>2, <3>1 DEF Next
      <4>2. ppc' = "idle" /\ requests' # <<>> => Actual' = After(Request)'
        BY <1>2, <4>1 DEF StatusIsSettled
      <4> QED
        BY <1>2, <2>2, <3>1, <4>2, StepRefinesCall
    <3> QED
      BY <3>1
  <2> QED
    BY <1>2, <2>1, <2>2
<1>3. IInv /\ IInv' /\ Settled /\ Settled' /\ StatusIsSettled' /\ [Next]_vars
        => [~faults => Call]_vars
  BY <1>2
<1> QED
  BY <1>1, <1>3, InitLifecycle, InductiveInvariant, SettledWhenIdle, PTL
     DEF Spec, ImplementsLifecycle

(* A behaviour without failures is one of ProcessLifecycle. *)
THEOREM FaultlessRunsImplementLifecycle == Spec /\ ~faults => Lifecycle!Spec
<1>1. ~faults /\ [Next]_vars => ~faults'
  BY DEF Next, vars
<1>2. ASSUME IInv, ~faults, [~faults => Call]_vars
      PROVE  [Lifecycle!Next]_([p \in {"process"} |-> status])
  <2>1. CASE UNCHANGED vars
    <3>1. status' = status
      BY <2>1 DEF status, Actual, Number, vars, parent, kernel, image
    <3> QED
      BY <3>1
  <2>2. CASE Call
    <3>1. CASE ppc # "idle" /\ ppc' = "idle"
      <4>1. requests # <<>>
        <5>1. requests = <<>> => Number = 0
          BY DEF Number
        <5> QED
          BY <1>2, <3>1, <5>1 DEF IInv, NeverFails, Phases, NoChild, Booting, NotExecuted, Behind, AtRequest
      <4>2. Request \in {"START", "CONT", "STOP", "TERM"}
        BY <1>2, <4>1 DEF IInv, TypeOK, Request, Last
      <4>3. \/ Lifecycle!Start("process") \/ Lifecycle!Continue("process")
            \/ Lifecycle!Suspend("process") \/ Lifecycle!Terminate("process")
        <5>1. CASE Request = "START"
          BY <2>2, <3>1, <5>1, Zenon DEF Call
        <5>2. CASE Request = "CONT"
          BY <2>2, <3>1, <5>2 DEF Call
        <5>3. CASE Request = "STOP"
          BY <2>2, <3>1, <5>3 DEF Call
        <5>4. CASE Request = "TERM"
          BY <2>2, <3>1, <5>4 DEF Call
        <5> QED
          BY <4>2, <5>1, <5>2, <5>3, <5>4
      <4> QED
        BY <4>3 DEF Lifecycle!Next
    <3>2. CASE ~(ppc # "idle" /\ ppc' = "idle")
      BY <2>2, <3>2 DEF Call
    <3> QED
      BY <3>1, <3>2
  <2> QED
    BY <1>2, <2>1, <2>2
<1>3. IInv /\ ~faults /\ [~faults => Call]_vars
        => [Lifecycle!Next]_([p \in {"process"} |-> status])
  BY <1>2
<1> QED
  BY <1>1, <1>3, InductiveInvariant, CallsImplementLifecycle, PTL
     DEF Spec, ImplementsLifecycle, Lifecycle!Spec
-----------------------------------------------------------------------------
(***************************************************************************)
(* What it rests on that every request ends.                               *)
(***************************************************************************)
(* The steps that parent and child have left until the next request.       *)
ParentLeft ==
  CASE ppc = "write"  -> 3 + (DWORD - sent)
    [] ppc = "kill"   -> 3
    [] ppc = "wait"   -> 2
    [] ppc = "idle"   -> 1
    [] ppc = "failed" -> 0

ToNextPoll ==
  CASE cpc = "boot"  -> 8
    [] cpc = "read"  -> 3 + (DWORD - Len(buf))
    [] cpc = "check" -> 3
    [] cpc = "echo"  -> 2
    [] cpc = "store" -> 1
    [] cpc = "stop"  -> 9
    [] cpc = "poll"  -> 8
    [] cpc = "hash"  -> 2
    [] cpc = "exit"  -> 1

ChildLeft == IF kstate = "exited" THEN 0 ELSE 10 * (Number - Len(digest)) + ToNextPoll

StepsLeft == ParentLeft + ChildLeft

StepsFall == [][~Requesting => StepsLeft' < StepsLeft]_vars

(* The parent, or the child, has a step to take: it waits for nothing, or  *)
(* what it waits for is there.                                             *)
ParentCan ==
  \/ ppc \in {"write", "kill"}
  \/ ppc = "wait" /\ IF Request = "STOP" THEN report # "none"
                                        ELSE stdout # <<>> \/ kstate = "exited"
ChildCan ==
  /\ Running
  /\ cpc = "poll" => pending # {}
  /\ cpc = "read" => stdin # <<>>

SomebodyCanGoOn == ppc \in {"write", "kill", "wait"} => ParentCan \/ ChildCan

(* waitpid() has something to report of a child that does not run.         *)
Reported ==
  /\ kstate = "exited" /\ ppc # "failed" => report = "exited"
  /\ kstate = "stopped" /\ ppc = "wait" => Request = "STOP" /\ report = "stopped"
  /\ kstate = "stopped" => Number > 1

LEMMA LeftOfIt ==
  ASSUME IInv
  PROVE  /\ Number \in Nat /\ Len(digest) \in Nat /\ Number - Len(digest) \in Nat
         /\ ToNextPoll \in 1 .. 9
         /\ ParentLeft \in 0 .. 7
         /\ ChildLeft \in Nat
         /\ kstate # "exited" => ChildLeft \in Nat \ {0}
<1>1. Number \in Nat /\ Len(digest) \in Nat /\ Len(digest) <= Number
  BY DEF IInv, TypeOK, Sending, DigestExact, Number
<1>2. Number - Len(digest) \in Nat
  BY <1>1
<1>3. ToNextPoll \in 1 .. 9
  <2>1. PICK k : k = Len(buf)
    OBVIOUS
  <2>2. k \in Nat /\ k <= 4
    BY <2>1 DEF IInv, TypeOK, DWORD
  <2>3. cpc \in {"boot", "poll", "read", "check", "echo", "store", "stop", "hash", "exit"}
    BY DEF IInv, TypeOK
  <2>4. 3 + (4 - k) \in 1 .. 9
    BY <2>2
  <2> QED
    BY <2>1, <2>3, <2>4 DEF ToNextPoll, DWORD
<1>4. ParentLeft \in 0 .. 7
  BY DEF IInv, TypeOK, ParentLeft, DWORD
<1> QED
  BY <1>1, <1>2, <1>3, <1>4 DEF ChildLeft

LEMMA ParentStepsFall ==
  ASSUME IInv, ParentStep \/ ParentDies
  PROVE  ParentLeft' < ParentLeft /\ ChildLeft' \in {ChildLeft, 0}
<1> USE DEF parent, pipes, kernel, image
<1>1. ParentLeft' < ParentLeft
  <2>1. CASE WriteByte
    <3>1. /\ ppc = "write" /\ sent' = sent + 1 /\ ppc' \in {"write", "wait", "kill"}
          /\ ppc' = "write" => sent' < DWORD
          /\ sent \in Nat /\ sent < DWORD
      BY <2>1 DEF WriteByte, IInv, TypeOK, Sending
    <3> QED
      BY <3>1 DEF ParentLeft, DWORD
  <2>2. CASE WriteFails \/ ParentDies
    <3>1. ppc' = "failed" /\ ppc # "failed" /\ sent \in 0 .. DWORD
      BY <2>2 DEF WriteFails, ParentDies, IInv, TypeOK
    <3>2. ppc \in {"idle", "write", "kill", "wait", "failed"}
      BY DEF IInv, TypeOK
    <3> QED
      BY <3>1, <3>2 DEF ParentLeft, DWORD
  <2>3. CASE Kill
    BY <2>3 DEF Kill, ParentLeft
  <2>4. CASE ReadAndVerify \/ WaitUntilStopped \/ ReadHash
    <3>1. ppc = "wait" /\ ppc' \in {"idle", "failed"}
      BY <2>4 DEF ReadAndVerify, WaitUntilStopped, ReadHash
    <3> QED
      BY <3>1 DEF ParentLeft
  <2> QED
    BY <2>1, <2>2, <2>3, <2>4 DEF ParentStep
<1>2. /\ UNCHANGED <<requests, digest, cpc, buf>>
      /\ kstate = "exited" => kstate' = "exited"
  <2>1. CASE Kill
    BY <2>1 DEF Kill, Generate
  <2>2. CASE ~Kill
    BY <2>2 DEF ParentStep, ParentDies, WriteByte, WriteFails, ReadAndVerify, WaitUntilStopped,
                ReadHash
  <2> QED
    BY <2>1, <2>2
<1>3. Number' = Number /\ ToNextPoll' = ToNextPoll
  BY <1>2 DEF Number, ToNextPoll
<1>4. ChildLeft' \in {ChildLeft, 0}
  BY <1>2, <1>3 DEF ChildLeft
<1> QED
  BY <1>1, <1>4

LEMMA ChildStepsFall ==
  ASSUME IInv, IInv', ChildStep \/ ExecFails \/ Die
  PROVE  ChildLeft' < ChildLeft /\ ParentLeft' = ParentLeft
<1> USE DEF parent, pipes, kernel, image
<1>1. UNCHANGED <<requests, ppc, sent>>
  BY DEF ChildStep, ExecFails, Die, Boot, Poll, Read, CheckLeftover, Echo, Store, Stop, PrintHash,
         Exit, WriteToNobody
<1>2. Number' = Number /\ ParentLeft' = ParentLeft
  BY <1>1 DEF Number, ParentLeft
<1>3. kstate # "exited"
  BY DEF ChildStep, ExecFails, Die, Boot, Poll, Read, CheckLeftover, Echo, Store, Stop, PrintHash,
         Exit, WriteToNobody, Running
<1>4. CASE kstate' = "exited"
  <2>1. ChildLeft' = 0
    BY <1>4 DEF ChildLeft
  <2> QED
    BY <1>2, <1>3, <2>1, LeftOfIt
<1>5. CASE Store
  <2>1. Len(digest') = Len(digest) + 1
    BY <1>5 DEF Store, IInv, Sending
  <2>2. ToNextPoll = 1 /\ ToNextPoll' \in {2, 8, 9}
    BY <1>5 DEF Store, AfterStore, ToNextPoll
  <2>3. /\ ChildLeft = 10 * (Number - Len(digest)) + 1
        /\ ChildLeft' \in {0, 10 * (Number - Len(digest')) + ToNextPoll'}
    BY <1>2, <1>3, <2>2 DEF ChildLeft
  <2>4. PICK n \in Nat, d \in Nat : n = Number /\ d = Len(digest) /\ n >= d
    BY LeftOfIt
  <2>5. /\ ChildLeft = 10 * (n - d) + 1
        /\ ChildLeft' \in {0, 10 * (n - (d + 1)) + ToNextPoll'}
    BY <2>1, <2>3, <2>4
  <2> QED
    BY <1>2, <2>2, <2>4, <2>5
<1>6. CASE kstate' # "exited" /\ ~Store
  <2>1. digest' = digest
    BY <1>6 DEF ChildStep, ExecFails, Die, Boot, Poll, Read, CheckLeftover, Echo, Stop, PrintHash,
                Exit, WriteToNobody
  <2>2. ToNextPoll' < ToNextPoll
    <3>1. CASE Boot
      <4>1. Len(buf) \in Nat /\ buf' = buf
        BY <3>1 DEF Boot, IInv, TypeOK
      <4> QED
        BY <3>1, <4>1 DEF Boot, ToNextPoll, DWORD
    <3>2. CASE Poll
      BY <3>2 DEF Poll, ToNextPoll, DWORD
    <3>3. CASE Read
      <4>1. /\ cpc = "read" /\ cpc' \in {"read", "check"} /\ Len(buf) \in Nat /\ Len(buf) <= DWORD
            /\ cpc' = "check" => Len(buf) < DWORD
            /\ cpc' = "read" => Len(buf') \in Nat /\ Len(buf) < Len(buf') /\ Len(buf') < DWORD
        <5> DEFINE n == Min({Len(stdin), DWORD - Len(buf)})
                   s == SubSeq(stdin, 1, n)
        <5>1. /\ buf \in Seq(1 .. MAX_REQUESTS) /\ Len(buf) \in Nat /\ Len(buf) <= DWORD
              /\ stdin \in Seq(1 .. MAX_REQUESTS) /\ Len(stdin) \in Nat
          BY DEF IInv, TypeOK
        <5>2. n \in Nat /\ n <= Len(stdin) /\ n <= DWORD - Len(buf) /\ n > 0
          <6>1. PICK a \in Nat, b \in Nat : a = Len(stdin) /\ b = DWORD - Len(buf)
            BY <5>1 DEF DWORD
          <6>2. n = IF a <= b THEN a ELSE b
            BY <6>1, Minimum
          <6>3. n > 0
            BY <3>3 DEF Read
          <6> QED
            BY <6>1, <6>2, <6>3
        <5>3. s \in Seq(1 .. MAX_REQUESTS) /\ Len(s) = n
          <6> HIDE DEF n
          <6>1. \A i \in 1 .. n : stdin[i] \in 1 .. MAX_REQUESTS
            <7>1. DOMAIN stdin = 1 .. Len(stdin)
              BY <5>1
            <7>2. \A i \in 1 .. n : i \in DOMAIN stdin
              BY <5>1, <5>2, <7>1
            <7> QED
              BY <5>1, <7>1, <7>2, ElementOfSeq
          <6>2. s \in Seq(1 .. MAX_REQUESTS) /\ Len(s) = IF 1 <= n THEN n - 1 + 1 ELSE 0
            BY <5>2, <6>1, SubSeqProperties
          <6> QED
            BY <5>2, <6>2
        <5>4. buf' = buf \o s /\ cpc = "read"
              /\ cpc' = IF Len(buf') < DWORD THEN "read" ELSE "check"
          BY <3>3 DEF Read
        <5> HIDE DEF n, s
        <5>5. Len(buf') = Len(buf) + n
          <6>1. Len(buf \o s) = Len(buf) + Len(s)
            BY <5>1, <5>3, ConcatProperties
          <6> QED
            BY <5>3, <5>4, <6>1
        <5> QED
          BY <5>1, <5>2, <5>4, <5>5 DEF DWORD
      <4> QED
        BY <4>1 DEF ToNextPoll, DWORD
    <3>4. CASE CheckLeftover
      BY <1>6, <3>4 DEF CheckLeftover, AfterCheck, ToNextPoll
    <3>5. CASE Echo
      BY <3>5 DEF Echo, ToNextPoll
    <3>6. CASE Stop
      BY <3>6 DEF Stop, ToNextPoll
    <3>7. CASE PrintHash
      BY <3>7 DEF PrintHash, ToNextPoll
    <3>8. CASE ExecFails
      BY <3>8 DEF ExecFails, ToNextPoll
    <3> QED
      BY <1>6, <3>1, <3>2, <3>3, <3>4, <3>5, <3>6, <3>7, <3>8
         DEF ChildStep, Die, Exit, WriteToNobody
  <2>3. ToNextPoll' \in Int /\ ToNextPoll \in Int
    <3>1. PICK k : k = Len(buf')
      OBVIOUS
    <3>2. k \in Nat
      BY <3>1 DEF IInv, TypeOK
    <3>3. cpc' \in {"boot", "poll", "read", "check", "echo", "store", "stop", "hash", "exit"}
      BY DEF IInv, TypeOK
    <3>4. 3 + (DWORD - k) \in Int
      BY <3>2 DEF DWORD
    <3>5. ToNextPoll' \in Int
      BY <3>1, <3>3, <3>4 DEF ToNextPoll
    <3>6. ToNextPoll \in Int
      BY LeftOfIt
    <3> QED
      BY <3>5, <3>6
  <2>4. /\ ChildLeft = 10 * (Number - Len(digest)) + ToNextPoll
        /\ ChildLeft' = 10 * (Number - Len(digest)) + ToNextPoll'
    BY <1>2, <1>3, <1>6, <2>1 DEF ChildLeft
  <2> QED
    BY <1>2, <2>2, <2>3, <2>4, LeftOfIt
<1> QED
  BY <1>2, <1>4, <1>5, <1>6

(* Whoever is killed when: parent and child take a step only a bounded     *)
(* number of times between two requests, because every step of theirs, and *)
(* every fault, leaves them fewer to take. A request leaves them 48 at     *)
(* most, however many there have been before.                              *)
THEOREM EveryStepCounts == Spec => [](StepsLeft \in 0 .. 48) /\ StepsFall
<1> DEFINE Counted == ParentLeft \in Nat /\ ChildLeft \in Nat
<1>1. ASSUME IInv, IInv', Counted, Counted', Next, ~Requesting
      PROVE  StepsLeft' < StepsLeft
  <2>1. PICK a \in Nat, b \in Nat, c \in Nat, d \in Nat :
          a = ParentLeft /\ b = ChildLeft /\ c = ParentLeft' /\ d = ChildLeft'
    BY <1>1
  <2>2. StepsLeft = a + b /\ StepsLeft' = c + d
    BY <2>1 DEF StepsLeft
  <2>3. CASE ParentStep \/ ParentDies
    <3>1. c < a /\ d \in {b, 0}
      BY <1>1, <2>1, <2>3, ParentStepsFall
    <3> QED
      BY <2>2, <3>1
  <2>4. CASE ChildStep \/ ExecFails \/ Die
    <3>1. d < b /\ c = a
      BY <1>1, <2>1, <2>4, ChildStepsFall
    <3> QED
      BY <2>2, <3>1
  <2> QED
    BY <1>1, <2>3, <2>4 DEF Next, Environment, Requesting
<1>2. ASSUME IInv
      PROVE  Counted /\ StepsLeft \in 0 .. 48
  <2>1. PICK a \in 0 .. 7, w \in 1 .. 9, n \in Nat, d \in Nat :
          a = ParentLeft /\ w = ToNextPoll /\ n = Number /\ d = Len(digest)
    BY <1>2, LeftOfIt
  <2>2. n - d \in 0 .. 2 \/ (n - d \in 0 .. 4 /\ w = 1)
    <3>1. CASE NoChild \/ Booting
      <4>1. d = 0 /\ n \in {0, 1}
        BY <2>1, <3>1 DEF NoChild, Booting, Number
      <4> QED
        BY <4>1
    <3>2. CASE NotExecuted
      BY <2>1, <3>2 DEF NotExecuted, ToNextPoll
    <3>3. CASE Behind
      <4>1. d = n - 1 \/ d = n - 2
        BY <2>1, <3>3 DEF Behind
      <4> QED
        BY <2>1, <4>1
    <3>4. CASE AtRequest
      <4>1. d = n \/ d = n - 1
        BY <2>1, <3>4 DEF AtRequest
      <4> QED
        BY <2>1, <4>1
    <3> QED
      BY <1>2, <3>1, <3>2, <3>3, <3>4 DEF IInv, Phases
  <2>3. StepsLeft \in {a, a + (10 * (n - d) + w)}
    <3>1. ChildLeft \in {0, 10 * (n - d) + w}
      BY <2>1 DEF ChildLeft
    <3> QED
      BY <2>1, <3>1 DEF StepsLeft
  <2> QED
    BY <1>2, <2>1, <2>2, <2>3, LeftOfIt
<1>3. IInv /\ IInv' /\ Counted /\ Counted' /\ [Next]_vars =>
        [~Requesting => StepsLeft' < StepsLeft]_vars
  BY <1>1
<1> HIDE DEF Counted
<1> QED
  BY <1>2, <1>3, InductiveInvariant, PTL DEF Spec, StepsFall

(* The parent makes a request, and waits, only for a child that is there.  *)
LEMMA Busy ==
  ASSUME IInv, ppc \in {"write", "kill", "wait"}
  PROVE  Number >= 1 /\ kstate \in {"running", "stopped", "exited"}
<1>1. Number \in Nat
  BY LeftOfIt
<1> QED
  BY <1>1 DEF IInv, Phases, NoChild, Booting, NotExecuted, Behind, AtRequest, TypeOK

LEMMA InitReported == Init => Reported
  BY DEF Init, Reported

LEMMA NextReported ==
  ASSUME IInv, IInv', Reported, [Next]_vars
  PROVE  Reported'
<1> USE DEF parent, pipes, kernel, image
<1>1. CASE UNCHANGED vars
  BY <1>1 DEF vars, Reported, Request, Number, Last
<1>2. CASE Requesting
  <2>1. PICK o \in DOMAIN Mask : Open(o)
    BY <1>2, Opens
  <2>2. ppc = "idle" /\ ppc' = "write" /\ Number' = Number + 1 /\ Number \in Nat
    BY <2>1, Requested DEF IInv
  <2>3. \/ StartRequest /\ kstate' = "running"
        \/ UNCHANGED <<kstate, report>>
    BY <1>2 DEF Requesting, StartRequest, ContinueRequest, StopOrTermRequest
  <2> QED
    BY <2>2, <2>3 DEF Reported
<1>3. CASE Next /\ ~Requesting
  <2>1. Number' = Number /\ Request' = Request
    BY <1>3, NotRequesting, SameRequests
  <2>2. CASE Kill
    <3>1. /\ ppc = "kill" /\ ppc' = "wait" /\ Generate(Signal[Request])
          /\ Request \in {"CONT", "STOP", "TERM"}
      <4>1. Request \in DOMAIN Mask
        BY <2>2, Busy, LastRequest DEF Kill
      <4> QED
        BY <2>2, <4>1 DEF Kill, IInv, Sending, Mask
    <3>2. /\ Number > 1
          /\ blocked = {} \/ kstate \in {"exited", "running"} \/ Request = "CONT"
      <4>1. NotExecuted \/ Behind
        BY <3>1 DEF IInv, Phases, NoChild, Booting, AtRequest
      <4>2. Number \in Nat /\ Number > 1
        BY <3>1, Busy, LastRequest
      <4>3. CASE Behind
        <5>1. op = requests[Number - 1] /\ kstate \in {"exited", After(op)}
          BY <3>1, <4>3 DEF Behind
        <5>2. op \in {"START", "CONT", "STOP"} /\ (op = "STOP" => Request = "CONT")
          BY <4>2, <5>1, LastRequest
        <5> QED
          BY <4>2, <5>1, <5>2 DEF After
      <4> QED
        BY <4>1, <4>2, <4>3 DEF NotExecuted
    <3>3. CASE kstate = "exited"
      BY <2>1, <3>1, <3>2, <3>3 DEF Reported, Generate
    <3>4. CASE Request = "CONT" /\ kstate # "exited"
      BY <3>1, <3>4 DEF Reported, Generate, GenerateCont, Signal
    <3>5. CASE Request = "STOP" /\ kstate # "exited"
      BY <2>1, <3>1, <3>2, <3>5 DEF Reported, Generate, GenerateStop, Signal
    <3>6. CASE Request = "TERM" /\ kstate # "exited"
      BY <2>1, <3>1, <3>2, <3>6 DEF Reported, Generate, GenerateTerm, Signal, IInv, TypeOK
    <3> QED
      BY <3>1, <3>3, <3>4, <3>5, <3>6
  <2>3. CASE WriteByte
    <3>1. ppc' = "wait" => Request = "START"
      BY <2>3 DEF WriteByte
    <3>2. Request = "START" => Number = 1
      BY <2>3, Busy, LastRequest DEF WriteByte
    <3> QED
      BY <2>1, <2>3, <3>1, <3>2 DEF WriteByte, Reported
  <2>4. CASE WriteFails \/ ParentDies \/ ReadAndVerify \/ ReadHash \/ WaitUntilStopped
    <3>1. /\ kstate' = kstate /\ ppc' \in {"idle", "failed"} /\ ppc # "failed"
          /\ report' = report \/ (WaitUntilStopped /\ (ppc' = "idle" => report = "stopped"))
      BY <2>4 DEF WriteFails, ParentDies, ReadAndVerify, ReadHash, WaitUntilStopped
    <3> QED
      BY <2>1, <3>1 DEF Reported
  <2>5. CASE Stop
    <3>1. AtRequest /\ Number >= 1
      BY <2>5 DEF Stop, IInv, Phases, NoChild, Booting, NotExecuted, Behind, AtRequest
    <3>2. op = Request /\ Request = "STOP" /\ Number \in Nat /\ Number > 1
      BY <2>5, <3>1, LastRequest DEF Stop, AtRequest, Positions
    <3> QED
      BY <2>1, <2>5, <3>1, <3>2 DEF Stop, Reported
  <2>6. CASE kstate' = "exited" /\ (CheckLeftover \/ Exit \/ WriteToNobody \/ Die)
    BY <2>6 DEF CheckLeftover, Exit, WriteToNobody, Die, Reported
  <2>7. CASE kstate' # "exited" /\ (ChildStep \/ ExecFails \/ Die) /\ ~Stop
    <3>1. kstate = "running" /\ kstate' = "running"
      BY <2>7 DEF ChildStep, ExecFails, Die, Boot, Poll, Read, CheckLeftover, Echo, Store,
                  PrintHash, Exit, WriteToNobody, Running
    <3> QED
      BY <3>1 DEF Reported
  <2>8. CASE kstate' = "exited" /\ ~(CheckLeftover \/ Exit \/ WriteToNobody \/ Die)
               /\ (ChildStep \/ ExecFails)
    BY <2>8 DEF ChildStep, ExecFails, Boot, Poll, Read, Echo, Store, Stop, PrintHash, Running
  <2> QED
    BY <1>3, <2>2, <2>3, <2>4, <2>5, <2>6, <2>7, <2>8
       DEF Next, Requesting, ParentStep, ChildStep, Environment
<1> QED
  BY <1>1, <1>2, <1>3

(* Whoever is killed when: while a request is open, the parent or the      *)
(* child can go on. What the parent waits for has come, or the child is    *)
(* running and does not itself wait for the parent.                        *)
THEOREM NeverBothWaiting == Spec => []SomebodyCanGoOn
<1>1. ASSUME IInv, Reported, ppc = "wait"
      PROVE  ParentCan \/ ChildCan
  <2>1. sent = DWORD /\ DWORD = 4
    BY <1>1 DEF IInv, Sending, DWORD
  <2>2. CASE kstate = "exited"
    BY <1>1, <2>2 DEF Reported, ParentCan
  <2>3. CASE kstate = "stopped"
    BY <1>1, <2>3 DEF Reported, ParentCan
  <2>4. CASE Booting /\ kstate = "running"
    BY <2>4 DEF Booting, ChildCan, Running
  <2>5. CASE NotExecuted /\ kstate = "running"
    BY <2>5 DEF NotExecuted, ChildCan, Running
  <2>6. CASE Behind /\ kstate = "running"
    BY <1>1, <2>6 DEF Behind, ChildCan, Running
  <2>7. CASE AtRequest /\ kstate = "running"
    <3>1. CASE cpc = "read"
      <4>1. /\ Len(buf) \in Nat /\ Len(buf) < 4 /\ stdin = Bytes(4 - Len(buf), Number)
            /\ buf = Bytes(Len(buf), Number)
        BY <1>1, <2>1, <2>7, <3>1 DEF AtRequest, IInv, TypeOK
      <4>2. Len(stdin) = 4 - Len(buf)
        BY <4>1, 4 - Len(buf) \in Nat, BytesAreASequence
      <4>3. stdin # <<>>
        BY <4>1, <4>2
      <4> QED
        BY <2>7, <3>1, <4>3 DEF ChildCan, Running
    <3>2. CASE cpc = "poll"
      <4>1. op \in {"START", "CONT"} /\ op = Request
        BY <1>1, <2>7, <3>2, Busy, LastRequest DEF AtRequest, Positions
      <4>2. stdout = <<Answer>>
        BY <1>1, <2>7, <3>2, <4>1 DEF AtRequest, Answered
      <4> QED
        BY <1>1, <4>1, <4>2 DEF ParentCan
    <3> QED
      BY <2>7, <3>1, <3>2 DEF ChildCan, Running
  <2> QED
    BY <1>1, <2>2, <2>3, <2>4, <2>5, <2>6, <2>7, Busy DEF IInv, Phases, NoChild
<1>2. IInv /\ Reported => SomebodyCanGoOn
  BY <1>1 DEF SomebodyCanGoOn, ParentCan
<1>3. IInv /\ IInv' /\ Reported /\ [Next]_vars => Reported'
  BY NextReported
<1> QED
  BY <1>2, <1>3, InitReported, InductiveInvariant, PTL DEF Spec
=============================================================================
