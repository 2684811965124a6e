-------------------------- MODULE Descriptors_proofs --------------------------
(***************************************************************************)
(* Proofs about Descriptors, for any number of processes, any limits and   *)
(* any number of children that are alive at once.                          *)
(***************************************************************************)
EXTENDS Descriptors, FiniteSetTheorems, TLAPS

LEMMA AddOne ==
  ASSUME NEW S, NEW x, IsFiniteSet(S)
  PROVE  /\ IsFiniteSet(S \cup {x})
         /\ Cardinality(S \cup {x}) \in Nat
         /\ Cardinality(S \cup {x}) <= Cardinality(S) + 1
<1>1. IsFiniteSet(S \cup {x}) /\ Cardinality(S) \in Nat
  BY FS_AddElement, FS_CardinalityType
<1>2. Cardinality(S \cup {x}) = IF x \in S THEN Cardinality(S) ELSE Cardinality(S) + 1
  BY FS_AddElement
<1> QED
  BY <1>1, <1>2

(* A pipe pair has four ends; a process that gets one has at most four     *)
(* descriptors more than before.                                           *)
LEMMA PipeSize ==
  ASSUME NEW p, NEW S, IsFiniteSet(S)
  PROVE  /\ IsFiniteSet(S \cup Pipe(p))
         /\ Cardinality(S \cup Pipe(p)) <= Cardinality(S) + 4
<1> DEFINE A == S \cup {FdOut(p, READ)}
           B == A \cup {FdOut(p, WRITE)}
           C == B \cup {FdIn(p, READ)}
           D == C \cup {FdIn(p, WRITE)}
<1>1. S \cup Pipe(p) = D
  BY DEF Pipe, FdOut, FdIn, READ, WRITE
<1>2. Cardinality(S) \in Nat
  BY FS_CardinalityType
<1>3. IsFiniteSet(A) /\ Cardinality(A) \in Nat /\ Cardinality(A) <= Cardinality(S) + 1
  BY AddOne
<1> HIDE DEF A
<1>4. IsFiniteSet(B) /\ Cardinality(B) \in Nat /\ Cardinality(B) <= Cardinality(A) + 1
  BY <1>3, AddOne
<1> HIDE DEF B
<1>5. IsFiniteSet(C) /\ Cardinality(C) \in Nat /\ Cardinality(C) <= Cardinality(B) + 1
  BY <1>4, AddOne
<1> HIDE DEF C
<1>6. IsFiniteSet(D) /\ Cardinality(D) \in Nat /\ Cardinality(D) <= Cardinality(C) + 1
  BY <1>5, AddOne
<1> HIDE DEF D
<1> QED
  BY <1>1, <1>2, <1>3, <1>4, <1>5, <1>6
-----------------------------------------------------------------------------
(***************************************************************************)
(* The inductive invariant.  DeathIsSeen alone is not inductive: a child   *)
(* may inherit only what the parent holds when it forks, so that what the  *)
(* parent holds between two requests matters, of all processes.            *)
(***************************************************************************)
HeldFinite == \A x \in DOMAIN held : IsFiniteSet(held[x])

(* The ends that are made for a child are in no other hands, except for    *)
(* the parent's between its fork() and its close().                        *)
OwnEnds ==
  \A p \in Procs, x \in Procs \cup {PARENT} :
    FdOut(p, READ) \in held[x] \/ FdIn(p, WRITE) \in held[x] =>
      \/ x = p
      \/ x = PARENT /\ ppc = "fork" /\ process = p

IInv == TypeOK /\ HeldFinite /\ OwnEnds

LEMMA InitIInv == Init => IInv
<1> SUFFICES ASSUME Init
             PROVE  IInv
  OBVIOUS
<1>1. process \in Procs
  BY ProcsAssumption DEF Init
<1>2. Cardinality({}) = 0 /\ IsFiniteSet({})
  BY FS_EmptySet
<1>3. \A x \in DOMAIN held : held[x] = {}
  BY DEF Init
<1>4. \A x \in DOMAIN held : OTHERS + Cardinality(held[x]) <= open_max
  <2>1. open_max \in Nat /\ open_max >= OTHERS
    BY LimitsAssumption DEF Init
  <2> QED
    BY <1>2, <1>3, <2>1 DEF OTHERS
<1>5. TypeOK
  BY <1>1, <1>4 DEF Init, TypeOK
<1> QED
  BY <1>2, <1>3, <1>5 DEF Init, IInv, HeldFinite, OwnEnds

(* Closing descriptors never does harm. *)
LEMMA Fewer ==
  ASSUME IInv, UNCHANGED open_max,
         held' \in [Procs \cup {PARENT} -> SUBSET Ends],
         \A x \in Procs \cup {PARENT} : held'[x] \subseteq held[x]
  PROVE  /\ HeldFinite'
         /\ \A x \in Procs \cup {PARENT} : OTHERS + Cardinality(held'[x]) <= open_max'
<1>1. DOMAIN held = Procs \cup {PARENT} /\ DOMAIN held' = Procs \cup {PARENT}
  BY DEF IInv, TypeOK
<1> SUFFICES ASSUME NEW x \in Procs \cup {PARENT}
             PROVE  /\ IsFiniteSet(held'[x])
                    /\ OTHERS + Cardinality(held'[x]) <= open_max'
  BY <1>1 DEF HeldFinite
<1>2. IsFiniteSet(held[x]) /\ OTHERS + Cardinality(held[x]) <= open_max /\ open_max \in Nat
  BY <1>1, LimitsAssumption DEF IInv, HeldFinite, TypeOK
<1>3. IsFiniteSet(held'[x]) /\ Cardinality(held'[x]) <= Cardinality(held[x])
  BY <1>2, FS_Subset
<1>4. Cardinality(held[x]) \in Nat /\ Cardinality(held'[x]) \in Nat
  BY <1>2, <1>3, FS_CardinalityType
<1> QED
  BY <1>2, <1>3, <1>4 DEF OTHERS

LEMMA StartIInv ==
  ASSUME IInv, NEW p \in Procs, Start(p)
  PROVE  IInv'
<1> USE DEF IInv
<1>1. /\ held' \in [Procs \cup {PARENT} -> SUBSET Ends]
      /\ held'[PARENT] = held[PARENT] \cup Pipe(p)
      /\ held'[p] = held[PARENT] \cup Pipe(p)
      /\ \A x \in Procs \ {p} : held'[x] = held[x]
  BY ProcsAssumption DEF Start, TypeOK, Ends
<1>2. IsFiniteSet(held[PARENT]) /\ Cardinality(held[PARENT]) \in Nat
  BY FS_CardinalityType DEF HeldFinite, TypeOK
<1>3. /\ IsFiniteSet(held[PARENT] \cup Pipe(p))
      /\ Cardinality(held[PARENT] \cup Pipe(p)) <= Cardinality(held[PARENT]) + 4
      /\ Cardinality(held[PARENT] \cup Pipe(p)) \in Nat
  BY <1>2, PipeSize, FS_CardinalityType
<1>4. HeldFinite'
  BY <1>1, <1>3 DEF HeldFinite, TypeOK
<1>5. open_max \in Nat
  BY LimitsAssumption DEF TypeOK
<1>6. OTHERS + Cardinality(held[PARENT] \cup Pipe(p)) <= open_max
  BY <1>2, <1>3, <1>5 DEF Start, HasDescriptors, OTHERS
<1>7. \A x \in DOMAIN held' : OTHERS + Cardinality(held'[x]) <= open_max'
  BY <1>1, <1>6 DEF Start, TypeOK
<1>8. TypeOK'
  BY <1>1, <1>7 DEF Start, TypeOK
<1>9. ASSUME NEW q \in Procs, NEW x \in Procs \cup {PARENT},
             FdOut(q, READ) \in held'[x] \/ FdIn(q, WRITE) \in held'[x]
      PROVE  x = q \/ (x = PARENT /\ ppc' = "fork" /\ process' = q)
  <2>1. FdOut(q, READ) \in Pipe(p) \/ FdIn(q, WRITE) \in Pipe(p) => q = p
    BY DEF FdOut, FdIn, Pipe
  <2>2. ~(FdOut(q, READ) \in held[PARENT] \/ FdIn(q, WRITE) \in held[PARENT])
    BY ProcsAssumption DEF OwnEnds, Start
  <2>3. CASE x \in {p, PARENT}
    BY <1>1, <1>9, <2>1, <2>2, <2>3 DEF Start
  <2>4. CASE x \notin {p, PARENT}
    <3>1. x \in Procs \ {p} /\ held'[x] = held[x]
      BY <1>1, <2>4
    <3>2. x = q
      BY <1>9, <2>4, <3>1 DEF OwnEnds
    <3> QED
      BY <3>2
  <2> QED
    BY <2>3, <2>4
<1>10. OwnEnds'
  BY <1>9 DEF OwnEnds
<1> QED
  BY <1>4, <1>8, <1>10

LEMMA ExitParentIInv ==
  ASSUME IInv, NEW how \in {"done", "failed"}, ExitParent(how),
         process' \in Procs, answered' \in BOOLEAN, ppc # "fork",
         UNCHANGED <<open_max, finished, child>>
  PROVE  IInv'
<1> USE DEF IInv
<1>1. /\ held' \in [Procs \cup {PARENT} -> SUBSET Ends]
      /\ \A x \in Procs \cup {PARENT} : held'[x] \subseteq held[x]
  BY DEF ExitParent, TypeOK
<1>2. HeldFinite' /\ \A x \in Procs \cup {PARENT} : OTHERS + Cardinality(held'[x]) <= open_max'
  BY <1>1, Fewer
<1>3. TypeOK'
  BY <1>1, <1>2 DEF ExitParent, TypeOK
<1>4. OwnEnds'
  BY <1>1 DEF OwnEnds
<1> QED
  BY <1>2, <1>3, <1>4

LEMMA ParentClosesIInv ==
  ASSUME IInv, ParentCloses
  PROVE  IInv'
<1> USE DEF IInv
<1>1. /\ held' \in [Procs \cup {PARENT} -> SUBSET Ends]
      /\ \A x \in Procs \cup {PARENT} : held'[x] \subseteq held[x]
      /\ held'[PARENT] = held[PARENT] \ ParentEnds(process)
  BY DEF ParentCloses, TypeOK
<1>2. HeldFinite' /\ \A x \in Procs \cup {PARENT} : OTHERS + Cardinality(held'[x]) <= open_max'
  BY <1>1, Fewer DEF ParentCloses
<1>3. TypeOK'
  BY <1>1, <1>2 DEF ParentCloses, TypeOK
<1>4. OwnEnds'
  BY <1>1 DEF OwnEnds, ParentEnds
<1> QED
  BY <1>2, <1>3, <1>4

(* A child closes some of its ends, or all of them. *)
LEMMA ChildClosesSomeIInv ==
  ASSUME IInv, NEW p \in Procs, NEW S \in SUBSET Ends,
         held' = [held EXCEPT ![p] = @ \ S],
         child' \in [Procs -> {"none", "forked", "running", "exiting", "dead"}],
         UNCHANGED <<open_max, ppc, process, answered, finished>>
  PROVE  IInv'
<1> USE DEF IInv
<1>1. /\ held' \in [Procs \cup {PARENT} -> SUBSET Ends]
      /\ \A x \in Procs \cup {PARENT} : held'[x] \subseteq held[x]
  BY DEF TypeOK
<1>2. HeldFinite' /\ \A x \in Procs \cup {PARENT} : OTHERS + Cardinality(held'[x]) <= open_max'
  BY <1>1, Fewer
<1>3. TypeOK'
  BY <1>1, <1>2 DEF TypeOK
<1>4. OwnEnds'
  BY <1>1 DEF OwnEnds
<1> QED
  BY <1>2, <1>3, <1>4

(* A step that neither opens nor closes anything. *)
LEMMA SameHeldIInv ==
  ASSUME IInv, UNCHANGED <<open_max, held>>, ppc # "fork",
         ppc' \in {"idle", "write", "read"}, process' \in Procs, answered' \in BOOLEAN,
         finished' \subseteq Procs,
         child' \in [Procs -> {"none", "forked", "running", "exiting", "dead"}]
  PROVE  IInv'
  BY DEF IInv, TypeOK, HeldFinite, OwnEnds

LEMMA NextIInv == IInv /\ [Next]_vars => IInv'
<1> SUFFICES ASSUME IInv, [Next]_vars
             PROVE  IInv'
  OBVIOUS
<1> USE DEF TypeOK, IInv
<1>1. ASSUME NEW p \in Procs, Start(p)
      PROVE  IInv'
  BY <1>1, StartIInv
<1>2. ASSUME NEW p \in Procs, PipeFails(p)
      PROVE  IInv'
  BY <1>2, ExitParentIInv DEF PipeFails
<1>3. ASSUME NEW p \in Procs, NEW last \in BOOLEAN, Request(p, last)
      PROVE  IInv'
  BY <1>3, SameHeldIInv DEF Request
<1>4. CASE ParentCloses
  BY <1>4, ParentClosesIInv
<1>5. CASE SendBytes
  <2>1. CASE ExitParent("failed")
    BY <1>5, <2>1, ExitParentIInv DEF SendBytes
  <2>2. CASE ~ExitParent("failed")
    BY <1>5, <2>2, SameHeldIInv DEF SendBytes
  <2> QED
    BY <2>1, <2>2
<1>6. CASE Read
  <2>1. CASE ExitParent("failed")
    BY <1>6, <2>1, ExitParentIInv DEF Read
  <2>2. CASE ~ExitParent("failed")
    BY <1>6, <2>2, SameHeldIInv DEF Read
  <2> QED
    BY <2>1, <2>2
<1>7. CASE FreeProcesses
  BY <1>7, ExitParentIInv DEF FreeProcesses
<1>8. ASSUME NEW p \in Procs, Answer(p)
      PROVE  IInv'
  BY <1>8, SameHeldIInv DEF Answer
<1>9. ASSUME NEW p \in Procs, ChildCloses(p)
      PROVE  IInv'
  <2>1. {FdOut(p, WRITE), FdIn(p, READ)} \subseteq Pipe(p)
    BY DEF Pipe, FdOut, FdIn, READ, WRITE
  <2>2. {FdOut(p, WRITE), FdIn(p, READ)} \in SUBSET Ends
    BY <2>1 DEF Ends
  <2> HIDE DEF IInv
  <2> QED
    BY <1>9, <2>2, ChildClosesSomeIInv DEF ChildCloses, IInv
<1>10. ASSUME NEW p \in Procs, Ended(p)
       PROVE  IInv'
  <2>1. held' = [held EXCEPT ![p] = @ \ Ends]
    BY <1>10 DEF Ended
  <2> QED
    BY <1>10, <2>1, ChildClosesSomeIInv DEF Ended
<1>11. CASE UNCHANGED vars
  BY <1>11 DEF vars, HeldFinite, OwnEnds
<1> QED
  BY <1>1, <1>2, <1>3, <1>4, <1>5, <1>6, <1>7, <1>8, <1>9, <1>10, <1>11
     DEF Next, ParentStep, ChildStep, ChildExits, Die
-----------------------------------------------------------------------------
(***************************************************************************)
(* The theorems                                                            *)
(***************************************************************************)
(* Types, limits, finiteness and the ownership of the ends are preserved   *)
(* by every step of the parent and of the children.                        *)
THEOREM InductiveInvariant == Spec => []IInv
<1>1. Init => IInv
  BY InitIInv
<1>2. IInv /\ [Next]_vars => IInv'
  BY NextIInv
<1> QED
  BY <1>1, <1>2, PTL DEF Spec

(* No process ever has more descriptors than the system allows: the test   *)
(* before pipe() is enough for the children, too.                          *)
THEOREM TypeCorrect == Spec => []TypeOK
<1>1. IInv => TypeOK
  BY DEF IInv
<1> QED
  BY <1>1, InductiveInvariant, PTL

(* The child's ends of the pipes of the request that is being made are     *)
(* held by that child alone, so that its death is told by EOF or SIGPIPE,  *)
(* however many children have been forked before and after it.             *)
THEOREM DeathSeen == Spec => []DeathIsSeen
<1>1. IInv => DeathIsSeen
  BY DEF IInv, TypeOK, OwnEnds, DeathIsSeen, Holders
<1> QED
  BY <1>1, InductiveInvariant, PTL
-----------------------------------------------------------------------------
(***************************************************************************)
(* What the parent is told, and that it goes on.                           *)
(***************************************************************************)
InRequest == ppc \in {"fork", "write", "read"}

(* A child that is alive holds its own ends, one that is not holds nothing,*)
(* and a request is only made of a child that was forked.                  *)
Living ==
  /\ answered => ppc = "read"
  /\ InRequest => child[process] # "none"
  /\ \A p \in Procs : IF p \in Alive THEN {FdOut(p, READ), FdIn(p, WRITE)} \subseteq held[p]
                                     ELSE held[p] = {}

LEMMA NextLiving == IInv /\ Living /\ [Next]_vars => Living'
<1> SUFFICES ASSUME IInv, Living, [Next]_vars
             PROVE  Living'
  OBVIOUS
<1>1. /\ child \in [Procs -> {"none", "forked", "running", "exiting", "dead"}]
      /\ held \in [Procs \cup {PARENT} -> SUBSET Ends]
      /\ process \in Procs /\ PARENT \notin Procs
  BY ProcsAssumption DEF IInv, TypeOK
<1>2. ASSUME NEW p \in Procs, Start(p)
      PROVE  Living'
  <2>1. /\ child[p] = "none" /\ ppc = "idle" /\ ppc' = "fork" /\ process' = p
        /\ answered' = answered
        /\ child' = [child EXCEPT ![p] = "forked"]
        /\ held' = [held EXCEPT ![PARENT] = @ \cup Pipe(p), ![p] = held[PARENT] \cup Pipe(p)]
    BY <1>2 DEF Start
  <2>2. {FdOut(p, READ), FdIn(p, WRITE)} \subseteq Pipe(p)
    BY DEF Pipe, FdOut, FdIn, READ, WRITE
  <2>3. {FdOut(p, READ), FdIn(p, WRITE)} \subseteq held'[p] /\ child'[p] = "forked"
    BY <1>1, <2>1, <2>2
  <2>4. \A q \in Procs \ {p} : held'[q] = held[q] /\ child'[q] = child[q]
    BY <1>1, <2>1
  <2> QED
    BY <2>1, <2>3, <2>4 DEF Living, InRequest, Alive
<1>3. CASE /\ UNCHANGED child /\ (answered' => ppc' = "read")
           /\ InRequest' => child'[process'] # "none"
           /\ \A p \in Procs : held'[p] = held[p]
  BY <1>3 DEF Living, Alive
<1>4. ASSUME NEW p \in Procs, PipeFails(p)
      PROVE  Living'
  <2>1. /\ ~answered' /\ ~InRequest' /\ child' = child
        /\ \A q \in Procs : held'[q] = held[q]
    BY <1>1, <1>4 DEF PipeFails, ExitParent, Living, InRequest
  <2> QED
    BY <1>3, <2>1
<1>5. ASSUME NEW p \in Procs, NEW last \in BOOLEAN, Request(p, last)
      PROVE  Living'
  BY <1>3, <1>5 DEF Request, Living, InRequest
<1>6. CASE ParentCloses
  BY <1>1, <1>3, <1>6 DEF ParentCloses, Living, InRequest
<1>7. CASE SendBytes
  <2>1. /\ child' = child /\ process' = process /\ ~answered' /\ InRequest
        /\ \A q \in Procs : held'[q] = held[q]
    BY <1>1, <1>7 DEF SendBytes, ExitParent, Living, InRequest
  <2> QED
    BY <1>3, <2>1 DEF Living
<1>8. CASE Read
  <2>1. /\ child' = child /\ ~answered' /\ ~InRequest'
        /\ \A q \in Procs : held'[q] = held[q]
    BY <1>1, <1>8 DEF Read, ExitParent, InRequest
  <2> QED
    BY <1>3, <2>1
<1>9. CASE FreeProcesses
  <2>1. /\ child' = child /\ ~answered' /\ ~InRequest'
        /\ \A q \in Procs : held'[q] = held[q]
    BY <1>1, <1>9 DEF FreeProcesses, ExitParent, Living, InRequest
  <2> QED
    BY <1>3, <2>1
<1>10. ASSUME NEW p \in Procs, Answer(p)
       PROVE  Living'
  <2>1. /\ ppc = "read" /\ ppc' = ppc /\ process' = process /\ held' = held
        /\ child[p] = "running"
        /\ child' = [child EXCEPT ![p] = IF p \in finished THEN "exiting" ELSE @]
    BY <1>10 DEF Answer
  <2>2. child'[p] \in {"running", "exiting"} /\ \A q \in Procs \ {p} : child'[q] = child[q]
    BY <1>1, <2>1
  <2> QED
    BY <1>1, <2>1, <2>2 DEF Living, InRequest, Alive
<1>11. ASSUME NEW p \in Procs, ChildCloses(p)
       PROVE  Living'
  <2>1. /\ child[p] = "forked" /\ child' = [child EXCEPT ![p] = "running"]
        /\ held' = [held EXCEPT ![p] = @ \ {FdOut(p, WRITE), FdIn(p, READ)}]
        /\ UNCHANGED <<ppc, process, answered>>
    BY <1>11 DEF ChildCloses
  <2>2. /\ FdOut(p, READ) \notin {FdOut(p, WRITE), FdIn(p, READ)}
        /\ FdIn(p, WRITE) \notin {FdOut(p, WRITE), FdIn(p, READ)}
    BY DEF FdOut, FdIn, READ, WRITE
  <2>3. {FdOut(p, READ), FdIn(p, WRITE)} \subseteq held'[p] /\ child'[p] = "running"
    BY <1>1, <2>1, <2>2 DEF Living, Alive
  <2>4. \A q \in Procs \ {p} : held'[q] = held[q] /\ child'[q] = child[q]
    BY <1>1, <2>1
  <2> QED
    BY <1>1, <2>1, <2>3, <2>4 DEF Living, InRequest, Alive
<1>12. ASSUME NEW p \in Procs, Ended(p)
       PROVE  Living'
  <2>1. /\ child' = [child EXCEPT ![p] = "dead"] /\ held' = [held EXCEPT ![p] = {}]
        /\ UNCHANGED <<ppc, process, answered>>
    BY <1>12 DEF Ended
  <2>2. held'[p] = {} /\ child'[p] = "dead"
    BY <1>1, <2>1
  <2>3. \A q \in Procs \ {p} : held'[q] = held[q] /\ child'[q] = child[q]
    BY <1>1, <2>1
  <2> QED
    BY <1>1, <2>1, <2>2, <2>3 DEF Living, InRequest, Alive
<1>13. CASE UNCHANGED vars
  BY <1>13 DEF vars, Living, InRequest, Alive
<1> QED
  BY <1>2, <1>4, <1>5, <1>6, <1>7, <1>8, <1>9, <1>10, <1>11, <1>12, <1>13
     DEF Next, ParentStep, ChildStep, ChildExits, Die

LEMMA AlwaysLiving == Spec => [](IInv /\ Living)
<1>1. Init => Living
  BY ProcsAssumption DEF Init, Living, InRequest, Alive
<1> QED
  BY <1>1, NextLiving, InductiveInvariant, PTL DEF Spec

(* While the parent writes to a child or waits for its answer, an EOF or   *)
(* SIGPIPE tells of the death of that child and of nothing else.           *)
DeathIsTold ==
  ppc \in {"write", "read"} =>
    /\ Holders(FdOut(process, READ)) = {} <=> child[process] = "dead"
    /\ Holders(FdIn(process, WRITE)) = {} <=> child[process] = "dead"

(* send_bytes() and read() fail exactly when the child of the request is   *)
(* dead: its death is not covered up by what the others have inherited,    *)
(* and a child that lives is never taken for dead.                         *)
THEOREM DeathTold == Spec => []DeathIsTold
<1>1. IInv /\ Living => DeathIsTold
  <2> SUFFICES ASSUME IInv, Living, ppc \in {"write", "read"}
               PROVE  /\ Holders(FdOut(process, READ)) = {} <=> child[process] = "dead"
                      /\ Holders(FdIn(process, WRITE)) = {} <=> child[process] = "dead"
    BY DEF DeathIsTold
  <2>1. /\ Holders(FdOut(process, READ)) \subseteq {process}
        /\ Holders(FdIn(process, WRITE)) \subseteq {process}
        /\ process \in Procs
        /\ child[process] \in {"forked", "running", "exiting", "dead"}
    BY DEF IInv, TypeOK, OwnEnds, Holders, Living, InRequest
  <2>2. CASE child[process] = "dead"
    <3>1. held[process] = {}
      BY <2>1, <2>2 DEF Living, Alive
    <3> QED
      BY <2>1, <2>2, <3>1 DEF Holders
  <2>3. CASE child[process] # "dead"
    <3>1. {FdOut(process, READ), FdIn(process, WRITE)} \subseteq held[process]
      BY <2>1, <2>3 DEF Living, Alive
    <3> QED
      BY <2>1, <2>3, <3>1 DEF Holders
  <2> QED
    BY <2>2, <2>3
<1> QED
  BY <1>1, AlwaysLiving, PTL

(* The guards of Read, and of what the child of the request does.          *)
ParentCanRead == answered \/ Holders(FdIn(process, WRITE)) = {}
ChildCanGoOn == child[process] \in {"forked", "running", "exiting"}

(* The parent never blocks in read() while the child can do nothing        *)
(* either.                                                                 *)
NeverBothStuck == ppc = "read" => ParentCanRead \/ ChildCanGoOn

THEOREM NobodyIsWaitedForInVain == Spec => []NeverBothStuck
<1>1. IInv /\ Living /\ DeathIsTold => NeverBothStuck
  BY DEF IInv, TypeOK, Living, InRequest, DeathIsTold, NeverBothStuck, ParentCanRead,
         ChildCanGoOn
<1> QED
  BY <1>1, AlwaysLiving, DeathTold, PTL

(* What is left of a request: the parent's calls, the answer, and what the *)
(* child of the request has to do.                                         *)
RequestLeft ==
  LET calls == IF ppc = "fork" THEN 3 ELSE IF ppc = "write" THEN 2
               ELSE IF ppc = "read" THEN 1 ELSE 0
      answer == IF InRequest /\ ~answered THEN 1 ELSE 0
      steps == IF child[process] = "forked" THEN 3 ELSE IF child[process] = "running" THEN 2
               ELSE IF child[process] = "exiting" THEN 1 ELSE 0
  IN calls + answer + steps

RequestProceeds ==
  [][InRequest =>
       /\ RequestLeft' <= RequestLeft
       /\ ParentStep \/ ChildStep(process) => RequestLeft' < RequestLeft]_vars

(* A request comes closer to its end with each step of the parent and of   *)
(* the child it is made of, and nobody else sets it back: what ParentGoesOn*)
(* needs on top of fairness and NobodyIsWaitedForInVain.                   *)
THEOREM RequestsEnd == Spec => [](RequestLeft \in 0 .. 7) /\ RequestProceeds
<1> DEFINE Proceeds == InRequest =>
                         /\ RequestLeft' <= RequestLeft
                         /\ ParentStep \/ ChildStep(process) => RequestLeft' < RequestLeft
<1>1. RequestLeft \in 0 .. 7
  BY DEF RequestLeft
<1>2. ASSUME IInv, Living, Next, InRequest
      PROVE  /\ RequestLeft' <= RequestLeft
             /\ ParentStep \/ ChildStep(process) => RequestLeft' < RequestLeft
  <2>1. /\ child \in [Procs -> {"none", "forked", "running", "exiting", "dead"}]
        /\ process \in Procs /\ ppc \in {"fork", "write", "read"} /\ (answered => ppc = "read")
        /\ answered \in BOOLEAN
    BY <1>2 DEF IInv, TypeOK, Living, InRequest
  <2>2. ASSUME ParentStep
        PROVE  RequestLeft' < RequestLeft
    <3>1. CASE ParentCloses
      BY <2>1, <3>1 DEF ParentCloses, RequestLeft, InRequest
    <3>2. CASE SendBytes
      BY <2>1, <3>2 DEF SendBytes, ExitParent, RequestLeft, InRequest
    <3>3. CASE Read
      <4>1. /\ ppc = "read" /\ ppc' \in {"idle", "failed"} /\ child' = child
            /\ process' = process
        BY <3>3 DEF Read, ExitParent
      <4> QED
        BY <2>1, <4>1 DEF RequestLeft, InRequest
    <3> QED
      BY <2>2, <3>1, <3>2, <3>3 DEF ParentStep
  <2>3. ASSUME ChildStep(process)
        PROVE  RequestLeft' < RequestLeft
    <3>1. CASE ChildCloses(process)
      <4>1. child[process] = "forked" /\ child'[process] = "running"
        BY <2>1, <3>1 DEF ChildCloses
      <4> QED
        BY <2>1, <3>1, <4>1 DEF ChildCloses, RequestLeft, InRequest
    <3>2. CASE Answer(process)
      <4>1. /\ child[process] = "running" /\ child'[process] \in {"running", "exiting"}
            /\ ~answered /\ answered' /\ UNCHANGED <<ppc, process>>
        BY <2>1, <3>2 DEF Answer
      <4> QED
        BY <2>1, <4>1 DEF RequestLeft, InRequest
    <3>3. CASE ChildExits(process)
      <4>1. /\ child[process] = "exiting" /\ child'[process] = "dead"
            /\ UNCHANGED <<answered, ppc, process>>
        BY <2>1, <3>3 DEF ChildExits, Ended
      <4> QED
        BY <2>1, <4>1 DEF RequestLeft, InRequest
    <3> QED
      BY <2>3, <3>1, <3>2, <3>3 DEF ChildStep
  <2>4. ASSUME NEW p \in Procs, p # process, ChildStep(p) \/ Die(p)
        PROVE  RequestLeft' = RequestLeft
    <3>1. /\ child'[process] = child[process] /\ UNCHANGED <<answered, ppc, process>>
      BY <2>1, <2>4 DEF ChildStep, ChildCloses, Answer, ChildExits, Die, Ended
    <3> QED
      BY <3>1 DEF RequestLeft, InRequest
  <2>5. ASSUME Die(process)
        PROVE  RequestLeft' <= RequestLeft
    <3>1. child'[process] = "dead" /\ UNCHANGED <<answered, ppc, process>>
      BY <2>1, <2>5 DEF Die, Ended
    <3> QED
      BY <2>1, <3>1 DEF RequestLeft, InRequest
  <2>6. RequestLeft \in Nat /\ RequestLeft' \in Nat
    BY DEF RequestLeft
  <2>7. ~FreeProcesses /\ \A p \in Procs : ~Start(p) /\ ~PipeFails(p)
                                       /\ ~Request(p, FALSE) /\ ~Request(p, TRUE)
    BY <2>1 DEF FreeProcesses, Start, PipeFails, Request
  <2>8. ParentStep \/ \E p \in Procs : ChildStep(p) \/ Die(p)
    BY <1>2, <2>7 DEF Next
  <2> HIDE DEF RequestLeft
  <2>9. RequestLeft' <= RequestLeft
    BY <2>2, <2>3, <2>4, <2>5, <2>6, <2>8
  <2> QED
    BY <2>2, <2>3, <2>9
<1>3. IInv /\ Living /\ [Next]_vars => [Proceeds]_vars
  BY <1>2
<1> QED
  BY <1>1, <1>3, AlwaysLiving, PTL DEF Spec, RequestProceeds
-----------------------------------------------------------------------------
(***************************************************************************)
(* What a run costs in descriptors.                                        *)
(***************************************************************************)
Started == {p \in Procs : child[p] # "none"}

(* Two descriptors of the parent for every process that was ever started,  *)
(* finished or not, and four while one is being started.                   *)
KeepsTwo ==
  /\ IsFiniteSet(Started)
  /\ \A p \in Procs \ Started : held[PARENT] \cap Pipe(p) = {}
  /\ ppc = "fork" => ParentEnds(process) \subseteq held[PARENT]
  /\ ppc \notin {"done", "failed"} =>
       Cardinality(held[PARENT]) = 2 * Cardinality(Started) + IF ppc = "fork" THEN 2 ELSE 0

(* The number of processes that a run can start is at most half of what    *)
(* the system allows, however few of them live at the same time.           *)
StartsAreBounded ==
  Started # {} => OTHERS + 2 * Cardinality(Started) + 2 <= open_max

LEMMA PipeAdds ==
  ASSUME NEW p, NEW S, IsFiniteSet(S), S \cap Pipe(p) = {}
  PROVE  Cardinality(S \cup Pipe(p)) = Cardinality(S) + 4
<1> DEFINE A == S \cup {FdOut(p, READ)}
           B == A \cup {FdOut(p, WRITE)}
           C == B \cup {FdIn(p, READ)}
           D == C \cup {FdIn(p, WRITE)}
<1>1. S \cup Pipe(p) = D
  BY DEF Pipe, FdOut, FdIn, READ, WRITE
<1>2. /\ FdOut(p, READ) \notin S /\ FdOut(p, WRITE) \notin A
      /\ FdIn(p, READ) \notin B /\ FdIn(p, WRITE) \notin C
  BY DEF Pipe, FdOut, FdIn, READ, WRITE
<1>3. Cardinality(S) \in Nat
  BY FS_CardinalityType
<1>4. IsFiniteSet(A) /\ Cardinality(A) \in Nat /\ Cardinality(A) = Cardinality(S) + 1
  BY <1>2, FS_AddElement, FS_CardinalityType
<1> HIDE DEF A
<1>5. IsFiniteSet(B) /\ Cardinality(B) \in Nat /\ Cardinality(B) = Cardinality(A) + 1
  BY <1>2, <1>4, FS_AddElement, FS_CardinalityType
<1> HIDE DEF B
<1>6. IsFiniteSet(C) /\ Cardinality(C) \in Nat /\ Cardinality(C) = Cardinality(B) + 1
  BY <1>2, <1>5, FS_AddElement, FS_CardinalityType
<1> HIDE DEF C
<1>7. Cardinality(D) = Cardinality(C) + 1
  BY <1>2, <1>6, FS_AddElement
<1> HIDE DEF D
<1>8. Cardinality(D) = Cardinality(S) + 4
  BY <1>3, <1>4, <1>5, <1>6, <1>7
<1> QED
  BY <1>1, <1>8

LEMMA ClosingTakesTwo ==
  ASSUME NEW p, NEW S, IsFiniteSet(S), ParentEnds(p) \subseteq S
  PROVE  Cardinality(S \ ParentEnds(p)) = Cardinality(S) - 2
<1> DEFINE A == S \ {FdOut(p, READ)}
           B == A \ {FdIn(p, WRITE)}
<1>1. S \ ParentEnds(p) = B /\ FdOut(p, READ) \in S /\ FdIn(p, WRITE) \in A
  BY DEF ParentEnds, FdOut, FdIn
<1>2. Cardinality(S) \in Nat
  BY FS_CardinalityType
<1>3. IsFiniteSet(A) /\ Cardinality(A) \in Nat /\ Cardinality(A) = Cardinality(S) - 1
  BY <1>1, FS_RemoveElement, FS_CardinalityType
<1> HIDE DEF A
<1>4. Cardinality(B) = Cardinality(A) - 1
  BY <1>1, <1>3, FS_RemoveElement
<1> HIDE DEF B
<1> QED
  BY <1>1, <1>2, <1>3, <1>4

LEMMA NextKeepsTwo == IInv /\ Living /\ KeepsTwo /\ [Next]_vars => KeepsTwo'
<1> SUFFICES ASSUME IInv, Living, KeepsTwo, [Next]_vars
             PROVE  KeepsTwo'
  OBVIOUS
<1>1. /\ child \in [Procs -> {"none", "forked", "running", "exiting", "dead"}]
      /\ held \in [Procs \cup {PARENT} -> SUBSET Ends]
      /\ process \in Procs /\ PARENT \notin Procs
      /\ IsFiniteSet(held[PARENT]) /\ IsFiniteSet(Started)
      /\ Cardinality(held[PARENT]) \in Nat /\ Cardinality(Started) \in Nat
  BY ProcsAssumption, FS_CardinalityType DEF IInv, TypeOK, HeldFinite, KeepsTwo
<1>2. ASSUME NEW p \in Procs, Start(p)
      PROVE  KeepsTwo'
  <2>1. /\ child[p] = "none" /\ ppc = "idle" /\ ppc' = "fork" /\ process' = p
        /\ child' = [child EXCEPT ![p] = "forked"]
        /\ held'[PARENT] = held[PARENT] \cup Pipe(p)
    BY <1>1, <1>2 DEF Start
  <2>2. Started' = Started \cup {p} /\ p \notin Started
    BY <1>1, <2>1 DEF Started
  <2>3. /\ IsFiniteSet(Started') /\ Cardinality(Started') = Cardinality(Started) + 1
    BY <1>1, <2>2, FS_AddElement
  <2>4. held[PARENT] \cap Pipe(p) = {}
    BY <2>2 DEF KeepsTwo
  <2>5. Cardinality(held'[PARENT]) = Cardinality(held[PARENT]) + 4
    BY <1>1, <2>1, <2>4, PipeAdds
  <2>6. Cardinality(held[PARENT]) = 2 * Cardinality(Started)
    BY <1>1, <2>1 DEF KeepsTwo
  <2>7. Cardinality(held'[PARENT]) = 2 * Cardinality(Started') + 2
    BY <1>1, <2>3, <2>5, <2>6
  <2>8. ParentEnds(p) \subseteq Pipe(p)
    BY DEF ParentEnds, Pipe, FdOut, FdIn, READ, WRITE
  <2>9. ASSUME NEW q \in Procs \ Started'
        PROVE  held'[PARENT] \cap Pipe(q) = {}
    <3>1. q # p /\ held[PARENT] \cap Pipe(q) = {}
      BY <2>2, <2>9 DEF KeepsTwo
    <3>2. Pipe(p) \cap Pipe(q) = {}
      BY <3>1 DEF Pipe
    <3> QED
      BY <2>1, <3>1, <3>2
  <2> QED
    BY <2>1, <2>3, <2>7, <2>8, <2>9 DEF KeepsTwo
<1>3. CASE Started' = Started /\ held'[PARENT] = held[PARENT] /\ ppc # "fork" /\ ppc' # "fork"
           /\ ppc \notin {"done", "failed"}
  BY <1>3 DEF KeepsTwo
<1>4. CASE Started' = Started /\ held'[PARENT] = {} /\ ppc' \in {"done", "failed"}
  BY <1>4 DEF KeepsTwo
<1>5. CASE ParentCloses
  <2>1. /\ ppc = "fork" /\ ppc' = "write" /\ child' = child
        /\ held'[PARENT] = held[PARENT] \ ParentEnds(process)
    BY <1>1, <1>5 DEF ParentCloses
  <2>2. Started' = Started
    BY <2>1 DEF Started
  <2>3. Cardinality(held'[PARENT]) = Cardinality(held[PARENT]) - 2
    BY <1>1, <2>1, ClosingTakesTwo DEF KeepsTwo
  <2>4. Cardinality(held[PARENT]) = 2 * Cardinality(Started) + 2
    BY <2>1 DEF KeepsTwo
  <2>5. Cardinality(held'[PARENT]) = 2 * Cardinality(Started')
    BY <1>1, <2>2, <2>3, <2>4
  <2>6. \A p \in Procs \ Started' : held'[PARENT] \cap Pipe(p) = {}
    BY <2>1, <2>2 DEF KeepsTwo
  <2> QED
    BY <1>1, <2>1, <2>2, <2>5, <2>6 DEF KeepsTwo
<1>6. ASSUME NEW p \in Procs, PipeFails(p)
      PROVE  KeepsTwo'
  BY <1>1, <1>4, <1>6 DEF PipeFails, ExitParent, Started
<1>7. ASSUME NEW p \in Procs, NEW last \in BOOLEAN, Request(p, last)
      PROVE  KeepsTwo'
  BY <1>3, <1>7 DEF Request, Started
<1>8. CASE SendBytes
  <2>1. CASE ExitParent("failed")
    BY <1>1, <1>4, <1>8, <2>1 DEF SendBytes, ExitParent, Started
  <2>2. CASE ~ExitParent("failed")
    BY <1>3, <1>8, <2>2 DEF SendBytes, Started
  <2> QED
    BY <2>1, <2>2
<1>9. CASE Read
  <2>1. CASE ExitParent("failed")
    BY <1>1, <1>4, <1>9, <2>1 DEF Read, ExitParent, Started
  <2>2. CASE ~ExitParent("failed")
    BY <1>3, <1>9, <2>2 DEF Read, Started
  <2> QED
    BY <2>1, <2>2
<1>10. CASE FreeProcesses
  BY <1>1, <1>4, <1>10 DEF FreeProcesses, ExitParent, Started
<1>11. ASSUME NEW p \in Procs, ChildStep(p) \/ Die(p)
       PROVE  KeepsTwo'
  <2>1. /\ child[p] # "none"
        /\ \E c \in {"running", "exiting", "dead"} : child' = [child EXCEPT ![p] = c]
        /\ held'[PARENT] = held[PARENT] /\ UNCHANGED <<ppc, process>>
    <3>1. CASE Answer(p)
      <4>1. child[p] = "running" /\ UNCHANGED <<ppc, process, held>>
        BY <3>1 DEF Answer
      <4>2. child' = [child EXCEPT ![p] = IF p \in finished THEN "exiting" ELSE "running"]
        BY <3>1, <4>1 DEF Answer
      <4> QED
        BY <4>1, <4>2
    <3>2. CASE ChildCloses(p)
      BY <1>1, <3>2 DEF ChildCloses
    <3>3. CASE ChildExits(p) \/ Die(p)
      BY <1>1, <3>3 DEF ChildExits, Die, Ended, Alive
    <3> QED
      BY <1>11, <3>1, <3>2, <3>3 DEF ChildStep
  <2>2. Started' = Started
    BY <1>1, <2>1 DEF Started
  <2> QED
    BY <2>1, <2>2 DEF KeepsTwo
<1>12. CASE UNCHANGED vars
  BY <1>12 DEF vars, KeepsTwo, Started
<1> QED
  BY <1>2, <1>5, <1>6, <1>7, <1>8, <1>9, <1>10, <1>11, <1>12 DEF Next, ParentStep

(* Descriptors are given back at the end of the run only, so that their    *)
(* limit bounds the length of the file and not the number of processes     *)
(* that are alive: a run that starts n of them needs 2 * n + 6.            *)
THEOREM StartsBounded == Spec => []StartsAreBounded
<1>1. Init => KeepsTwo /\ StartsAreBounded
  <2> SUFFICES ASSUME Init PROVE KeepsTwo /\ StartsAreBounded
    OBVIOUS
  <2>1. Started = {} /\ held[PARENT] = {} /\ ppc = "idle"
    BY DEF Init, Started
  <2>2. IsFiniteSet({}) /\ Cardinality({}) = 0
    BY FS_EmptySet
  <2> QED
    BY <2>1, <2>2 DEF KeepsTwo, StartsAreBounded
<1>2. IInv /\ Living /\ KeepsTwo /\ StartsAreBounded /\ [Next]_vars => StartsAreBounded'
  <2> SUFFICES ASSUME IInv, KeepsTwo, StartsAreBounded, [Next]_vars
               PROVE  StartsAreBounded'
    OBVIOUS
  <2>1. /\ child \in [Procs -> {"none", "forked", "running", "exiting", "dead"}]
        /\ Cardinality(Started) \in Nat /\ IsFiniteSet(Started)
        /\ open_max \in Nat
    BY LimitsAssumption, FS_CardinalityType DEF IInv, TypeOK, KeepsTwo
  <2>2. ASSUME NEW p \in Procs, Start(p)
        PROVE  StartsAreBounded'
    <3>1. /\ child[p] = "none" /\ ppc = "idle" /\ open_max' = open_max
          /\ child' = [child EXCEPT ![p] = "forked"]
          /\ OTHERS + Cardinality(held[PARENT]) + 4 <= open_max
      BY <2>2 DEF Start, HasDescriptors
    <3>2. Started' = Started \cup {p} /\ p \notin Started
      BY <2>1, <3>1 DEF Started
    <3>3. Cardinality(Started') = Cardinality(Started) + 1
      BY <2>1, <3>2, FS_AddElement
    <3>4. Cardinality(held[PARENT]) = 2 * Cardinality(Started)
      BY <2>1, <3>1 DEF KeepsTwo
    <3>5. OTHERS + 2 * Cardinality(Started') + 2 <= open_max'
      BY <2>1, <3>1, <3>3, <3>4 DEF OTHERS
    <3> QED
      BY <3>5 DEF StartsAreBounded
  <2>3. CASE ~\E p \in Procs : Start(p)
    <3>1. open_max' = open_max /\ Started' = Started
      <4>1. CASE child' = child
        BY <2>3, <4>1 DEF Next, vars, Started, PipeFails, Request, ParentStep, ParentCloses,
              SendBytes, Read, FreeProcesses, ChildStep, ChildCloses, Answer, ChildExits,
              Die, Ended
      <4>2. CASE child' # child
        <5>1. PICK p \in Procs : ChildStep(p) \/ Die(p)
          BY <2>3, <4>2 DEF Next, vars, PipeFails, Request, ParentStep, ParentCloses,
                SendBytes, Read, FreeProcesses
        <5>2. /\ child[p] # "none" /\ child'[p] # "none" /\ open_max' = open_max
              /\ \A q \in Procs \ {p} : child'[q] = child[q]
          BY <2>1, <5>1 DEF ChildStep, ChildCloses, Answer, ChildExits, Die, Ended, Alive
        <5> QED
          BY <5>2 DEF Started
      <4> QED
        BY <4>1, <4>2
    <3> QED
      BY <3>1 DEF StartsAreBounded
  <2> QED
    BY <2>2, <2>3
<1> QED
  BY <1>1, <1>2, NextKeepsTwo, AlwaysLiving, PTL DEF Spec
=============================================================================
