------------------------- MODULE LoadProcesses_proofs -------------------------
(***************************************************************************)
(* Proofs about LoadProcesses, for files of any length.                    *)
(***************************************************************************)
EXTENDS LoadProcesses, SequenceTheorems, TLAPS

(***************************************************************************)
(* The inductive invariant.  As long as there was no mismatch, the fields  *)
(* read are exactly the tokens before next, four to a process; only at the *)
(* end of the file can a process have been cut off.  After a mismatch the  *)
(* loop is stuck in front of the word for good, which is only so in a file *)
(* with a word in the place of a number.                                   *)
(***************************************************************************)
Types ==
  /\ file \in Seq({"number", "word"})
  /\ next \in 1 .. Len(file) + 1
  /\ field \in 1 .. 4
  /\ process \in [1 .. 4 -> Nat]
  /\ processes \in Seq([1 .. 4 -> Nat])
  /\ pc \in {"load", "done"}

(* No word before next is in the place of a number. *)
ReadInPlace == \A i \in 1 .. next - 1 : Format[((i - 1) % 4) + 1] \in {"any", file[i]}

(* The tokens of the processes that were enqueued. *)
Filled ==
  \A i \in 1 .. Len(processes), f \in 1 .. 4 :
    processes[i][f] = IF 4 * (i - 1) + f < next THEN 4 * (i - 1) + f ELSE UNSET

Reading ==
  /\ next = 4 * Len(processes) + field
  /\ \A f \in 1 .. 4 : process[f] = IF f < field THEN 4 * Len(processes) + f ELSE UNSET

CutOff ==
  /\ field = 1 /\ next = Len(file) + 1 /\ process = Unread
  /\ 4 * (Len(processes) - 1) < Len(file) /\ Len(file) < 4 * Len(processes)

InStep == ReadInPlace /\ Filled /\ (Reading \/ CutOff)

Stuck ==
  /\ pc = "load" /\ field = 1 /\ next <= Len(file) /\ file[next] = "word"
  /\ ~NumbersInPlace

AtEnd == pc = "done" => field = 1 /\ next = Len(file) + 1

IInv == Types /\ AtEnd /\ (InStep \/ Stuck)
-----------------------------------------------------------------------------
LEMMA FormatFields ==
  /\ Format[1] = "number" /\ Format[2] = "any" /\ Format[3] = "number" /\ Format[4] = "number"
  BY DEF Format

LEMMA FieldOfToken ==
  ASSUME NEW k \in Nat, NEW f \in 1 .. 4
  PROVE  ((4 * k + f - 1) % 4) + 1 = f
  OBVIOUS

LEMMA LinesOfTokens ==
  ASSUME NEW k \in Nat, NEW n \in Nat, 4 * (k - 1) < n, n <= 4 * k
  PROVE  k = (n + 3) \div 4
  OBVIOUS

LEMMA InitIInv == Init => IInv
<1> SUFFICES ASSUME Init PROVE IInv
  OBVIOUS
<1>1. PICK n \in 0 .. MAX_TOKENS : file \in [1 .. n -> {"number", "word"}]
  BY DEF Init
<1>2. file \in Seq({"number", "word"}) /\ Len(file) \in Nat
  BY <1>1, BoundsAssumption
<1>3. /\ next = 1 /\ field = 1 /\ process = Unread /\ processes = <<>> /\ pc = "load"
      /\ Len(processes) = 0
  BY DEF Init
<1>4. Types
  <2>1. process \in [1 .. 4 -> Nat]
    BY <1>3 DEF Unread, UNSET
  <2>2. processes \in Seq([1 .. 4 -> Nat])
    BY <1>3
  <2> QED
    BY <1>2, <1>3, <2>1, <2>2 DEF Types
<1>5. InStep
  BY <1>3 DEF InStep, ReadInPlace, Filled, Reading, Unread
<1> QED
  BY <1>3, <1>4, <1>5 DEF IInv, AtEnd

LEMMA EnqueueTypes ==
  ASSUME Types, NEW p \in [1 .. 4 -> Nat], EnqueueProcess(p)
  PROVE  /\ process' \in [1 .. 4 -> Nat] /\ processes' \in Seq([1 .. 4 -> Nat])
         /\ field' = 1 /\ process' = Unread /\ pc' = pc
         /\ Len(processes') = Len(processes) + 1 /\ Len(processes) \in Nat
         /\ processes'[Len(processes) + 1] = p
         /\ \A i \in 1 .. Len(processes) : processes'[i] = processes[i]
<1>1. processes' = Append(processes, p) /\ process' = Unread /\ field' = 1 /\ pc' = pc
  BY DEF EnqueueProcess
<1>2. Unread \in [1 .. 4 -> Nat]
  BY DEF Unread, UNSET
<1>3. processes \in Seq([1 .. 4 -> Nat])
  BY DEF Types
<1> QED
  BY <1>1, <1>2, <1>3, AppendProperties

LEMMA ConvertIInv ==
  ASSUME IInv, Convert
  PROVE  IInv'
<1>1. /\ pc = "load" /\ next <= Len(file) /\ Format[field] \in {"any", file[next]}
      /\ next' = next + 1 /\ file' = file
  BY DEF Convert
<1>2. PICK p : p = [process EXCEPT ![field] = next]
  OBVIOUS
<1>3. /\ Types /\ next \in Nat /\ next >= 1 /\ field \in 1 .. 4 /\ Len(file) \in Nat
      /\ Len(processes) \in Nat /\ p \in [1 .. 4 -> Nat]
      /\ \A f \in 1 .. 4 : p[f] = IF f = field THEN next ELSE process[f]
  BY <1>2 DEF IInv, Types
<1>4. InStep
  <2>1. ~Stuck
    <3>1. Stuck => Format[field] = "number" /\ file[next] = "word"
      BY FormatFields DEF Stuck
    <3> QED
      BY <1>1, <3>1
  <2> QED
    BY <2>1 DEF IInv
<1>5. Reading /\ ReadInPlace /\ Filled
  BY <1>1, <1>3, <1>4 DEF InStep, CutOff
<1>6. next = 4 * Len(processes) + field
  BY <1>5 DEF Reading
<1>7. ((next - 1) % 4) + 1 = field
  <2>1. PICK k \in Nat : k = Len(processes)
    BY <1>3
  <2>2. next - 1 = 4 * k + field - 1
    BY <1>3, <1>6, <2>1
  <2>3. ((4 * k + field - 1) % 4) + 1 = field
    BY <1>3, FieldOfToken
  <2> QED
    BY <2>2, <2>3
<1>8. ReadInPlace'
  <2>1. ASSUME NEW i \in 1 .. next
        PROVE  Format[((i - 1) % 4) + 1] \in {"any", file[i]}
    <3>1. CASE i = next
      BY <1>1, <1>7, <3>1
    <3>2. CASE i # next
      <4>1. i \in 1 .. next - 1
        BY <1>3, <3>2
      <4> QED
        BY <1>5, <4>1 DEF ReadInPlace
    <3> QED
      BY <3>1, <3>2
  <2> QED
    BY <1>1, <1>3, <2>1 DEF ReadInPlace
<1>9. CASE field = 4
  <2>1. EnqueueProcess(p)
    BY <1>2, <1>9 DEF Convert
  <2>2. Types' /\ AtEnd'
    BY <1>1, <1>3, <2>1, EnqueueTypes DEF Types, AtEnd
  <2> DEFINE L == Len(processes)
  <2>3. /\ L \in Nat /\ processes'[L + 1] = p
        /\ \A i \in 1 .. L : processes'[i] = processes[i]
    BY <1>3, <2>1, EnqueueTypes
  <2>4. next = 4 * L + field /\ \A f \in 1 .. 3 : p[f] = 4 * L + f
    BY <1>3, <1>5, <1>9 DEF Reading
  <2>5. \A i \in 1 .. L, f \in 1 .. 4 : processes[i][f] = IF 4 * (i - 1) + f < next
                                                      THEN 4 * (i - 1) + f ELSE UNSET
    BY <1>5 DEF Filled
  <2>6. Filled'
    <3>1. ASSUME NEW i \in 1 .. L + 1, NEW f \in 1 .. 4
          PROVE  processes'[i][f] = IF 4 * (i - 1) + f < next + 1
                                    THEN 4 * (i - 1) + f ELSE UNSET
      <4> HIDE DEF L
      <4>1. CASE i = L + 1
        <5>1. processes'[i] = p /\ 4 * (i - 1) + f = 4 * L + f
          BY <2>3, <4>1
        <5>2. p[f] = 4 * L + f
          BY <1>3, <1>9, <2>4
        <5>3. 4 * L + f < next + 1
          BY <1>9, <2>3, <2>4
        <5> QED
          BY <5>1, <5>2, <5>3
      <4>2. CASE i # L + 1
        <5>1. i \in 1 .. L /\ processes'[i] = processes[i]
          BY <2>3, <4>2
        <5>2. 4 * (i - 1) + f < next /\ 4 * (i - 1) + f < next + 1
          BY <1>9, <2>3, <2>4, <5>1
        <5> QED
          BY <2>5, <5>1, <5>2
      <4> QED
        BY <4>1, <4>2
    <3>2. Len(processes') = Len(processes) + 1
      BY <1>3, <2>1, EnqueueTypes
    <3> QED
      BY <1>1, <3>1, <3>2 DEF Filled
  <2>7. Reading'
    <3>1. /\ Len(processes') = Len(processes) + 1 /\ field' = 1 /\ process' = Unread
      BY <1>3, <2>1, EnqueueTypes
    <3>2. next' = 4 * Len(processes') + field'
      BY <1>1, <1>3, <1>6, <1>9, <3>1
    <3>3. \A f \in 1 .. 4 : process'[f] = UNSET /\ ~(f < field')
      BY <3>1 DEF Unread
    <3> QED
      BY <3>2, <3>3 DEF Reading
  <2> QED
    BY <1>8, <2>2, <2>6, <2>7 DEF IInv, InStep
<1>10. CASE field # 4
  <2>1. process' = p /\ field' = field + 1 /\ processes' = processes /\ pc' = pc
    BY <1>2, <1>10 DEF Convert
  <2>2. Types' /\ AtEnd'
    BY <1>1, <1>3, <1>10, <2>1 DEF Types, AtEnd
  <2>3. Filled'
    <3>1. ASSUME NEW i \in 1 .. Len(processes), NEW f \in 1 .. 4
          PROVE  4 * (i - 1) + f < next /\ 4 * (i - 1) + f < next + 1
      BY <1>3, <1>6
    <3> QED
      BY <1>1, <1>5, <2>1, <3>1 DEF Filled
  <2>4. Reading'
    <3>1. next' = 4 * Len(processes) + field'
      BY <1>1, <1>3, <1>6, <2>1
    <3>2. ASSUME NEW f \in 1 .. 4
          PROVE  process'[f] = IF f < field' THEN 4 * Len(processes) + f ELSE UNSET
      <4>1. process[f] = IF f < field THEN 4 * Len(processes) + f ELSE UNSET
        BY <1>5 DEF Reading
      <4>2. p[f] = IF f = field THEN next ELSE process[f]
        BY <1>3
      <4> QED
        BY <1>3, <1>6, <2>1, <4>1, <4>2
    <3> QED
      BY <2>1, <3>1, <3>2 DEF Reading
  <2> QED
    BY <1>8, <2>2, <2>3, <2>4 DEF IInv, InStep
<1> QED
  BY <1>9, <1>10

(* A word that stands for a number is met at the first field only, or the  *)
(* process is enqueued without it and the word is met again there.         *)
LEMMA MismatchIInv ==
  ASSUME IInv, Mismatch
  PROVE  IInv' /\ ~NumbersInPlace
<1>1. /\ pc = "load" /\ next <= Len(file) /\ Format[field] \notin {"any", file[next]}
      /\ file' = file /\ next' = next /\ EnqueueProcess(process)
  BY DEF Mismatch
<1>2. Types /\ AtEnd /\ process \in [1 .. 4 -> Nat]
  BY DEF IInv, Types
<1>3. file[next] = "word"
  <2>1. file[next] \in {"number", "word"} /\ Format[field] \in {"any", "number"}
    BY <1>1, <1>2, FormatFields DEF Types
  <2> QED
    BY <1>1, <2>1
<1>4. ~NumbersInPlace
  <2>1. CASE Stuck
    BY <2>1 DEF Stuck
  <2>2. CASE ~Stuck
    <3>1. next = 4 * Len(processes) + field /\ Len(processes) \in Nat /\ field \in 1 .. 4
      BY <1>1, <1>2, <2>2 DEF IInv, Types, InStep, Reading, CutOff
    <3>2. ((next - 1) % 4) + 1 = field
      <4>1. PICK k \in Nat : k = Len(processes)
        BY <3>1
      <4>2. next - 1 = 4 * k + field - 1
        BY <3>1, <4>1
      <4>3. ((4 * k + field - 1) % 4) + 1 = field
        BY <3>1, FieldOfToken
      <4> QED
        BY <4>2, <4>3
    <3>3. next \in DOMAIN file
      BY <1>1, <1>2 DEF Types
    <3> QED
      BY <1>1, <3>2, <3>3 DEF NumbersInPlace
  <2> QED
    BY <2>1, <2>2
<1>5. Types' /\ AtEnd' /\ Stuck'
  <2>1. /\ process' \in [1 .. 4 -> Nat] /\ processes' \in Seq([1 .. 4 -> Nat])
        /\ field' = 1 /\ pc' = pc
    BY <1>1, <1>2, EnqueueTypes
  <2>2. ~NumbersInPlace'
    BY <1>1, <1>4 DEF NumbersInPlace
  <2> QED
    BY <1>1, <1>2, <1>3, <2>1, <2>2 DEF Types, AtEnd, Stuck
<1> QED
  BY <1>4, <1>5 DEF IInv

LEMMA EndOfFileIInv ==
  ASSUME IInv, EndOfFile
  PROVE  IInv'
<1>1. pc = "load" /\ next > Len(file) /\ file' = file /\ next' = next
  BY DEF EndOfFile
<1>2. /\ Types /\ AtEnd /\ process \in [1 .. 4 -> Nat]
      /\ next = Len(file) + 1 /\ Len(file) \in Nat /\ Len(processes) \in Nat
      /\ field \in 1 .. 4
  BY <1>1 DEF IInv, Types
<1>3. InStep
  BY <1>1, <1>2 DEF IInv, Stuck
<1>4. CASE field = 1
  <2>1. pc' = "done" /\ UNCHANGED <<process, processes, field>>
    BY <1>4 DEF EndOfFile
  <2> QED
    BY <1>1, <1>2, <1>3, <1>4, <2>1
       DEF IInv, Types, AtEnd, InStep, ReadInPlace, Filled, Reading, CutOff
<1>5. CASE field # 1
  <2>1. EnqueueProcess(process)
    BY <1>5 DEF EndOfFile
  <2> DEFINE L == Len(processes)
  <2>2. /\ process' \in [1 .. 4 -> Nat] /\ processes' \in Seq([1 .. 4 -> Nat])
        /\ field' = 1 /\ process' = Unread /\ pc' = pc
        /\ Len(processes') = L + 1 /\ processes'[L + 1] = process /\ L \in Nat
        /\ \A i \in 1 .. L : processes'[i] = processes[i]
    BY <1>2, <2>1, EnqueueTypes
  <2>3. /\ next = 4 * L + field
        /\ \A f \in 1 .. 4 : process[f] = IF f < field THEN 4 * L + f ELSE UNSET
    BY <1>3, <1>5 DEF InStep, Reading, CutOff
  <2>4. /\ ReadInPlace
        /\ \A i \in 1 .. L, f \in 1 .. 4 : processes[i][f] = IF 4 * (i - 1) + f < next
                                                       THEN 4 * (i - 1) + f ELSE UNSET
    BY <1>3 DEF InStep, Filled
  <2>5. Types' /\ AtEnd'
    BY <1>1, <1>2, <2>2 DEF Types, AtEnd
  <2>6. ReadInPlace'
    BY <1>1, <2>4 DEF ReadInPlace
  <2>7. CutOff'
    <3> HIDE DEF L
    <3>1. L \in Nat /\ field \in 2 .. 4
      BY <1>2, <1>5, <2>2
    <3>2. Len(file) \in Nat /\ Len(file) + 1 = 4 * L + field
      BY <1>2, <2>3
    <3>3. 4 * ((L + 1) - 1) < Len(file) /\ Len(file) < 4 * (L + 1)
      BY <3>1, <3>2
    <3> QED
      BY <1>1, <1>2, <2>2, <3>3 DEF CutOff
  <2>8. Filled'
    <3>1. ASSUME NEW i \in 1 .. L + 1, NEW f \in 1 .. 4
          PROVE  processes'[i][f] = IF 4 * (i - 1) + f < next
                                    THEN 4 * (i - 1) + f ELSE UNSET
      <4> HIDE DEF L
      <4>1. CASE i = L + 1
        <5>1. processes'[i] = process /\ 4 * (i - 1) + f = 4 * L + f
          BY <2>2, <4>1
        <5>2. 4 * L + f < next <=> f < field
          <6>1. L \in Nat /\ field \in 1 .. 4 /\ next = 4 * L + field
            BY <1>2, <2>2, <2>3
          <6> QED
            BY ONLY <6>1, f \in 1 .. 4
        <5> QED
          BY <2>3, <5>1, <5>2
      <4>2. CASE i # L + 1
        <5>1. L \in Nat /\ \A k \in 1 .. L : processes'[k] = processes[k]
          BY <2>2
        <5>2. i \in 1 .. L
          BY <4>2, <5>1
        <5> QED
          BY <2>4, <5>1, <5>2
      <4> QED
        BY <4>1, <4>2
    <3> QED
      BY <1>1, <2>2, <3>1 DEF Filled
  <2> QED
    BY <2>5, <2>6, <2>7, <2>8 DEF IInv, InStep
<1> QED
  BY <1>4, <1>5

(* load_processes() is always in step with the lines of the file, or stands *)
(* in front of a word where fscanf() expects a number.                     *)
THEOREM InductiveInvariant == Spec => []IInv
<1>1. IInv /\ UNCHANGED vars => IInv'
  BY DEF vars, IInv, Types, AtEnd, InStep, Stuck, NumbersInPlace, ReadInPlace, Filled,
         Reading, CutOff
<1>2. IInv /\ [Next]_vars => IInv'
  BY <1>1, ConvertIInv, MismatchIInv, EndOfFileIInv DEF Next
<1> QED
  BY <1>2, InitIInv, PTL DEF Spec

(* load_processes() goes on with one process per line of the file, and the *)
(* fields of each are those of its line, or it does not go on.             *)
THEOREM EveryLineLoaded == Spec => []LoadedExactly
<1>1. IInv => LoadedExactly
  <2> SUFFICES ASSUME IInv, pc = "done"
               PROVE  /\ NumbersInPlace
                      /\ Len(processes) = (Len(file) + 3) \div 4
                      /\ \A i \in DOMAIN processes, f \in 1 .. 4 :
                           LET token == 4 * (i - 1) + f
                           IN processes[i][f] = IF token <= Len(file) THEN token ELSE UNSET
    BY DEF LoadedExactly
  <2>1. /\ field = 1 /\ next = Len(file) + 1 /\ InStep /\ Len(file) \in Nat
        /\ Len(processes) \in Nat /\ DOMAIN processes = 1 .. Len(processes)
        /\ DOMAIN file = 1 .. Len(file)
    BY DEF IInv, AtEnd, Stuck, Types
  <2>2. NumbersInPlace
    BY <2>1 DEF NumbersInPlace, InStep, ReadInPlace
  <2>3. Len(processes) = (Len(file) + 3) \div 4
    <3>1. 4 * (Len(processes) - 1) < Len(file) /\ Len(file) <= 4 * Len(processes)
      BY <2>1 DEF InStep, Reading, CutOff
    <3> QED
      BY <2>1, <3>1, LinesOfTokens
  <2>4. ASSUME NEW i \in 1 .. Len(processes), NEW f \in 1 .. 4
        PROVE  processes[i][f] = IF 4 * (i - 1) + f <= Len(file)
                                 THEN 4 * (i - 1) + f ELSE UNSET
    <3>1. processes[i][f] = IF 4 * (i - 1) + f < next THEN 4 * (i - 1) + f ELSE UNSET
      BY <2>1 DEF InStep, Filled
    <3>2. 4 * (i - 1) + f < next <=> 4 * (i - 1) + f <= Len(file)
      BY <2>1
    <3> QED
      BY <3>1, <3>2
  <2> QED
    BY <2>1, <2>2, <2>3, <2>4
<1> QED
  BY <1>1, InductiveInvariant, PTL

(* How much load_processes() still has to do with a file: two for a token, *)
(* so that the process that the end cuts off counts as well, and the last  *)
(* call of fscanf().                                                       *)
TokensLeft ==
  2 * (Len(file) + 1 - next)
    + IF pc = "done" THEN 0 ELSE IF field = 1 THEN 1 ELSE 2

(* The loop comes closer to its end with every step.                       *)
LoadingProceeds == [][NumbersInPlace => TokensLeft' < TokensLeft]_vars

(* load_processes() takes finitely many steps over a file with numbers     *)
(* where fscanf() expects them, cut off or not: a mismatch is the only way *)
(* to hang.                                                                *)
THEOREM LoadingEnds == Spec => [](TokensLeft \in Nat) /\ LoadingProceeds
<1>1. IInv => TokensLeft \in Nat
  <2> SUFFICES ASSUME IInv PROVE TokensLeft \in Nat
    OBVIOUS
  <2>1. next \in 1 .. Len(file) + 1 /\ Len(file) \in Nat
    BY DEF IInv, Types
  <2> QED
    BY <2>1 DEF TokensLeft
<1>2. ASSUME IInv, NumbersInPlace, Next
      PROVE  TokensLeft' < TokensLeft
  <2>1. /\ next \in 1 .. Len(file) + 1 /\ Len(file) \in Nat /\ field \in 1 .. 4
        /\ InStep /\ ~Stuck
    BY <1>2 DEF IInv, Types, Stuck
  <2>2. CASE Convert
    <3>1. /\ pc = "load" /\ next <= Len(file) /\ next' = next + 1 /\ file' = file
          /\ pc' = pc /\ field' \in 1 .. 4
      BY <2>1, <2>2 DEF Convert, EnqueueProcess
    <3>2. 2 * (Len(file) + 1 - next') = 2 * (Len(file) + 1 - next) - 2
      BY <2>1, <3>1
    <3>3. CASE field = 4
      <4>1. field' = 1
        BY <2>2, <3>3 DEF Convert, EnqueueProcess
      <4> QED
        BY <2>1, <3>1, <3>2, <3>3, <4>1 DEF TokensLeft
    <3>4. CASE field # 4
      BY <2>1, <3>1, <3>2, <3>4 DEF TokensLeft
    <3> QED
      BY <3>3, <3>4
  <2>3. CASE Mismatch
    BY <1>2, <2>3, MismatchIInv
  <2>4. CASE EndOfFile
    <3>1. pc = "load" /\ next' = next /\ file' = file
      BY <2>4 DEF EndOfFile
    <3>2. CASE field = 1
      <4>1. pc' = "done"
        BY <2>4, <3>2 DEF EndOfFile
      <4> QED
        BY <2>1, <3>1, <3>2, <4>1 DEF TokensLeft
    <3>3. CASE field # 1
      <4>1. field' = 1 /\ pc' = pc
        BY <2>4, <3>3 DEF EndOfFile, EnqueueProcess
      <4> QED
        BY <2>1, <3>1, <3>3, <4>1 DEF TokensLeft
    <3> QED
      BY <3>2, <3>3
  <2> QED
    BY <1>2, <2>2, <2>3, <2>4 DEF Next
<1>3. IInv /\ [Next]_vars => [NumbersInPlace => TokensLeft' < TokensLeft]_vars
  BY <1>2
<1> QED
  BY <1>1, <1>3, InductiveInvariant, PTL DEF Spec, LoadingProceeds
=============================================================================
