-------------------------- MODULE LinkedList_proofs --------------------------
(***************************************************************************)
(* Proofs about LinkedList, for lists of any length.                       *)
(***************************************************************************)
EXTENDS LinkedList, SequenceLemmas, SequenceTheorems, FiniteSetTheorems, TLAPS

(***************************************************************************)
(* What the operations work on.  WellFormed(l): l is a record of functions *)
(* on its nodes.  Linked(l, c): the nodes of l are those of the sequence   *)
(* c, once each, and every link that is ever followed leads to a neighbour *)
(* in c.  The prev of the head is not among them; see HeadFirst.           *)
(***************************************************************************)
WellFormed(l) ==
  l = [data |-> [x \in Live(l) |-> l.data[x]],
       next |-> [x \in Live(l) |-> l.next[x]],
       prev |-> [x \in Live(l) |-> l.prev[x]],
       head |-> l.head,
       tail |-> l.tail,
       num_items |-> l.num_items]

InOrder(l, c) ==
  \A i \in 1 .. Len(c) :
    /\ l.data[c[i]] \in Data
    /\ l.next[c[i]] = IF i = Len(c) THEN NULL ELSE c[i + 1]
    /\ i > 1 => l.prev[c[i]] = c[i - 1]

Linked(l, c) ==
  /\ WellFormed(l)
  /\ Live(l) \subseteq Nodes
  /\ c \in Seq(Live(l))
  /\ IsInjective(c)
  /\ \A x \in Live(l) : \E i \in 1 .. Len(c) : c[i] = x
  /\ l.num_items = Len(c)
  /\ l.head = IF Len(c) = 0 THEN NULL ELSE c[1]
  /\ l.tail = IF Len(c) = 0 THEN NULL ELSE c[Len(c)]
  /\ InOrder(l, c)

HeadFirst(l) == l.head # NULL => l.prev[l.head] = NULL

(***************************************************************************)
(* The inductive invariant: the walk from the head is the list.            *)
(***************************************************************************)
IInv ==
  /\ usage \in {"queue", "input", "holes", "freed"}
  /\ Linked(list, Chain(list))
  /\ usage # "queue" => HeadFirst(list)
  /\ curr \in Live(list) \cup {NULL}
  /\ curr # NULL => usage = "input"
-----------------------------------------------------------------------------
(***************************************************************************)
(* A list that is linked along c has no other walk.                        *)
(***************************************************************************)
LEMMA LinkedProperties ==
  ASSUME NEW l, NEW c, Linked(l, c)
  PROVE  /\ Len(c) \in Nat /\ DOMAIN c = 1 .. Len(c)
         /\ \A i \in 1 .. Len(c) : c[i] \in Live(l) /\ c[i] # NULL
         /\ \A i, j \in 1 .. Len(c) : c[i] = c[j] => i = j
         /\ NULL \notin Live(l)
         /\ IsFiniteSet(Live(l)) /\ Cardinality(Live(l)) = Len(c)
<1>1. /\ Len(c) \in Nat /\ DOMAIN c = 1 .. Len(c) /\ c \in [1 .. Len(c) -> Live(l)]
      /\ \A i \in 1 .. Len(c) : c[i] \in Live(l)
  BY LenProperties, ElementOfSeq DEF Linked
<1>2. NULL \notin Live(l)
  BY NullAssumption DEF Linked
<1>3. \A i, j \in 1 .. Len(c) : c[i] = c[j] => i = j
  BY <1>1 DEF Linked, IsInjective
<1>4. c \in Bijection(1 .. Len(c), Live(l))
  BY <1>1, <1>3 DEF Linked, Bijection, Injection, Surjection, IsInjective
<1>5. IsFiniteSet(Live(l)) /\ Cardinality(Live(l)) = Len(c)
  <2>1. IsFiniteSet(1 .. Len(c)) /\ Cardinality(1 .. Len(c)) = Len(c)
    BY <1>1, FS_Interval
  <2> QED
    BY <1>4, <2>1, FS_Bijection DEF ExistsBijection
<1> QED
  BY <1>1, <1>2, <1>3, <1>5

LEMMA LinkedChain ==
  ASSUME NEW l, NEW c, Linked(l, c)
  PROVE  Chain(l) = c
<1> DEFINE n == Len(c)
           Walks == BoundedSeq(Live(l), Cardinality(Live(l)))
<1>1. /\ n \in Nat /\ DOMAIN c = 1 .. n /\ Cardinality(Live(l)) = n
      /\ c \in Seq(Live(l)) /\ c \in [1 .. n -> Live(l)]
      /\ \A i \in 1 .. n : c[i] \in Live(l) /\ c[i] # NULL
  BY LinkedProperties, LenProperties DEF Linked
<1>2. \A i \in 1 .. n : c[i] = Reached(l, c, i)
  <2>1. ASSUME NEW i \in 1 .. n, i = 1
        PROVE  c[i] = Reached(l, c, i)
    BY <1>1, <2>1 DEF Linked, Reached
  <2>2. ASSUME NEW i \in 1 .. n, i # 1
        PROVE  c[i] = Reached(l, c, i)
    <3>1. /\ i - 1 \in 1 .. n /\ i - 1 # n /\ (i - 1) + 1 = i
      BY <1>1, <2>2
    <3>2. l.next[c[i - 1]] = c[(i - 1) + 1]
      BY <3>1 DEF Linked, InOrder
    <3> QED
      BY <2>2, <3>1, <3>2 DEF Reached
  <2> QED
    BY <2>1, <2>2
<1>3. c \in Walks
  BY <1>1 DEF BoundedSeq, SeqOf
<1>4. IsWalk(l, c)
  BY <1>1, <1>2 DEF IsWalk
<1>5. ASSUME NEW d \in Walks, IsWalk(l, d)
      PROVE  d = c
  <2>1. PICK m \in 0 .. n : d \in [1 .. m -> Live(l)]
    BY <1>1 DEF BoundedSeq, SeqOf
  <2>2. /\ d \in Seq(Live(l)) /\ Len(d) = m /\ DOMAIN d = 1 .. m /\ m \in Nat /\ m <= n
    BY <1>1, <2>1
  <2> HIDE DEF n
  <2>3. \A i \in 1 .. m : d[i] = c[i]
    <3> DEFINE Bad == {i \in Nat : i \in 1 .. m /\ d[i] # c[i]}
    <3>1. SUFFICES ASSUME Bad # {} PROVE FALSE
      BY <2>2
    <3>2. PICK i \in Bad : \A j \in Bad : ~(j < i)
      <4>1. Bad \subseteq Nat
        OBVIOUS
      <4> HIDE DEF Bad
      <4>2. PICK i \in Bad : \A j \in Bad : ~(<<j, i>> \in OpToRel(<, Nat))
        BY <3>1, <4>1, NatLessThanWellFounded, WFMin
      <4> QED
        BY <4>1, <4>2 DEF OpToRel
    <3>3. i \in 1 .. m /\ d[i] # c[i] /\ i \in 1 .. n
      BY <1>1, <2>2, <3>2
    <3>4. d[i] = Reached(l, d, i) /\ c[i] = Reached(l, c, i)
      BY <1>2, <1>5, <2>2, <3>3 DEF IsWalk
    <3>5. i # 1
      BY <3>3, <3>4 DEF Reached
    <3>6. i - 1 \in 1 .. m /\ i - 1 \notin Bad
      BY <2>2, <3>2, <3>3, <3>5
    <3>7. d[i - 1] = c[i - 1]
      BY <3>6
    <3> QED
      BY <3>3, <3>4, <3>5, <3>7 DEF Reached
  <2>4. m = n
    <3>1. ASSUME m < n
          PROVE  FALSE
      <4>1. Reached(l, d, m + 1) \notin Live(l)
        BY <1>1, <1>5, <2>2, <3>1 DEF IsWalk
      <4>2. m + 1 \in 1 .. n /\ (m + 1 # 1 => m \in 1 .. m) /\ (m + 1) - 1 = m
        BY <1>1, <2>2, <3>1
      <4>3. Reached(l, d, m + 1) = Reached(l, c, m + 1)
        BY <2>3, <4>2 DEF Reached
      <4> QED
        BY <1>1, <1>2, <4>1, <4>2, <4>3
    <3> QED
      BY <1>1, <2>2, <3>1
  <2> QED
    BY <1>1, <2>1, <2>3, <2>4
<1> QED
  BY <1>3, <1>4, <1>5 DEF Chain
-----------------------------------------------------------------------------
(***************************************************************************)
(* The operations, by what they do to each link.                           *)
(***************************************************************************)
(* l2 is l with d in the new node n between p and q. *)
IsInsertion(l, l2, n, d, p, q) ==
  /\ WellFormed(l2)
  /\ Live(l2) = Live(l) \cup {n}
  /\ \A x \in Live(l2) :
       /\ l2.data[x] = IF x = n THEN d ELSE l.data[x]
       /\ l2.next[x] = IF x = n THEN q ELSE IF x = p THEN n ELSE l.next[x]
       /\ l2.prev[x] = IF x = n THEN p ELSE IF x = q THEN n ELSE l.prev[x]
  /\ l2.head = IF p = NULL THEN n ELSE l.head
  /\ l2.tail = IF q = NULL THEN n ELSE l.tail
  /\ l2.num_items = l.num_items + 1

(* l2 is l without its node n. *)
IsDeletion(l, l2, n) ==
  /\ WellFormed(l2)
  /\ Live(l2) = Live(l) \ {n}
  /\ \A x \in Live(l2) :
       /\ l2.data[x] = l.data[x]
       /\ l2.next[x] = IF x = l.prev[n] THEN l.next[n] ELSE l.next[x]
       /\ l2.prev[x] = IF x = l.next[n] THEN l.prev[n] ELSE l.prev[x]
  /\ l2.head = IF l.head = n THEN l.next[n] ELSE l.head
  /\ l2.tail = IF l.tail = n THEN l.prev[n] ELSE l.tail
  /\ l2.num_items = l.num_items - 1

LEMMA CreateNodeFields ==
  ASSUME NEW l, WellFormed(l), NEW n, NEW d, NEW next, NEW prev
  PROVE  LET m == CreateNode(l, n, d, next, prev) IN
         /\ WellFormed(m)
         /\ Live(m) = Live(l) \cup {n}
         /\ \A x \in Live(m) : /\ m.data[x] = IF x = n THEN d ELSE l.data[x]
                               /\ m.next[x] = IF x = n THEN next ELSE l.next[x]
                               /\ m.prev[x] = IF x = n THEN prev ELSE l.prev[x]
         /\ m.head = l.head /\ m.tail = l.tail /\ m.num_items = l.num_items + 1
<1> DEFINE A == [x \in Live(l) \cup {n} |-> IF x = n THEN d ELSE l.data[x]]
           B == [x \in Live(l) \cup {n} |-> IF x = n THEN next ELSE l.next[x]]
           C == [x \in Live(l) \cup {n} |-> IF x = n THEN prev ELSE l.prev[x]]
           N == l.num_items + 1
           m == [data |-> A, next |-> B, prev |-> C,
                 head |-> l.head, tail |-> l.tail, num_items |-> N]
<1>1. CreateNode(l, n, d, next, prev)
        = [l EXCEPT !.data = A, !.next = B, !.prev = C, !.num_items = N]
  BY Zenon DEF CreateNode
<1> HIDE DEF A, B, C, N
<1>2. PICK e : e = [l EXCEPT !.data = A, !.next = B, !.prev = C, !.num_items = N]
  OBVIOUS
<1>3. e = m
  <2>1. PICK a, b, c, h, t, k : l = [data |-> a, next |-> b, prev |-> c,
                                     head |-> h, tail |-> t, num_items |-> k]
    BY Zenon DEF WellFormed
  <2> QED
    BY <1>2, <2>1
<1>4. /\ m.data = A /\ m.next = B /\ m.prev = C
      /\ m.head = l.head /\ m.tail = l.tail /\ m.num_items = N
  OBVIOUS
<1>5. Live(m) = Live(l) \cup {n}
  BY <1>4 DEF Live, A
<1>6. WellFormed(m)
  BY <1>5 DEF WellFormed, A, B, C
<1> QED
  <2>1. /\ \A x \in Live(m) : /\ m.data[x] = IF x = n THEN d ELSE l.data[x]
                              /\ m.next[x] = IF x = n THEN next ELSE l.next[x]
                              /\ m.prev[x] = IF x = n THEN prev ELSE l.prev[x]
        /\ m.num_items = l.num_items + 1
    BY <1>4, <1>5 DEF A, B, C, N
  <2> HIDE DEF m
  <2>2. CreateNode(l, n, d, next, prev) = m
    BY <1>1, <1>2, <1>3
  <2> QED
    BY <1>4, <1>5, <1>6, <2>1, <2>2

LEMMA SetNextFields ==
  ASSUME NEW l, WellFormed(l), NEW p \in Live(l) \cup {NULL}, NULL \notin Live(l), NEW n
  PROVE  LET m == SetNext(l, p, n) IN
         /\ WellFormed(m) /\ Live(m) = Live(l)
         /\ m.data = l.data /\ m.prev = l.prev
         /\ \A x \in Live(m) : m.next[x] = IF x = p THEN n ELSE l.next[x]
         /\ m.head = l.head /\ m.tail = l.tail /\ m.num_items = l.num_items
  BY DEF SetNext, Live, WellFormed

LEMMA SetPrevFields ==
  ASSUME NEW l, WellFormed(l), NEW p \in Live(l) \cup {NULL}, NULL \notin Live(l), NEW n
  PROVE  LET m == SetPrev(l, p, n) IN
         /\ WellFormed(m) /\ Live(m) = Live(l)
         /\ m.data = l.data /\ m.next = l.next
         /\ \A x \in Live(m) : m.prev[x] = IF x = p THEN n ELSE l.prev[x]
         /\ m.head = l.head /\ m.tail = l.tail /\ m.num_items = l.num_items
  BY DEF SetPrev, Live, WellFormed

LEMMA FreeFields ==
  ASSUME NEW l, WellFormed(l), NEW nodes
  PROVE  LET m == Free(l, nodes) IN
         /\ WellFormed(m) /\ Live(m) = Live(l) \ nodes
         /\ \A x \in Live(m) : /\ m.data[x] = l.data[x]
                               /\ m.next[x] = l.next[x]
                               /\ m.prev[x] = l.prev[x]
         /\ m.head = l.head /\ m.tail = l.tail /\ m.num_items = l.num_items
<1> DEFINE A == [x \in Live(l) \ nodes |-> l.data[x]]
           B == [x \in Live(l) \ nodes |-> l.next[x]]
           C == [x \in Live(l) \ nodes |-> l.prev[x]]
           m == [data |-> A, next |-> B, prev |-> C,
                 head |-> l.head, tail |-> l.tail, num_items |-> l.num_items]
<1>1. Free(l, nodes) = [l EXCEPT !.data = A, !.next = B, !.prev = C]
  BY Zenon DEF Free
<1> HIDE DEF A, B, C
<1>2. PICK e : e = [l EXCEPT !.data = A, !.next = B, !.prev = C]
  OBVIOUS
<1>3. e = m
  <2>1. PICK a, b, c, h, t, k : l = [data |-> a, next |-> b, prev |-> c,
                                     head |-> h, tail |-> t, num_items |-> k]
    BY Zenon DEF WellFormed
  <2> QED
    BY <1>2, <2>1
<1>4. /\ m.data = A /\ m.next = B /\ m.prev = C
      /\ m.head = l.head /\ m.tail = l.tail /\ m.num_items = l.num_items
  OBVIOUS
<1>5. Live(m) = Live(l) \ nodes
  BY <1>4 DEF Live, A
<1>6. WellFormed(m)
  BY <1>5 DEF WellFormed, A, B, C
<1> QED
  <2>1. \A x \in Live(m) : m.data[x] = l.data[x] /\ m.next[x] = l.next[x]
                             /\ m.prev[x] = l.prev[x]
    BY <1>4, <1>5 DEF A, B, C
  <2> HIDE DEF m
  <2>2. Free(l, nodes) = m
    BY <1>1, <1>2, <1>3
  <2> QED
    BY <1>4, <1>5, <1>6, <2>1, <2>2

(* Nothing but the ends and the number of elements is changed. *)
SameLinks(l, m) ==
  /\ WellFormed(m) /\ Live(m) = Live(l)
  /\ m.data = l.data /\ m.next = l.next /\ m.prev = l.prev

WithHeadTail(l, h, t) == [l EXCEPT !.head = h, !.tail = t]
WithEnds(l, h, t, k) == [l EXCEPT !.head = h, !.tail = t, !.num_items = k]

LEMMA WithEndsFields ==
  ASSUME NEW l, WellFormed(l), NEW h, NEW t, NEW k
  PROVE  LET m == WithEnds(l, h, t, k) IN
         SameLinks(l, m) /\ m.head = h /\ m.tail = t /\ m.num_items = k
<1> PICK m : m = WithEnds(l, h, t, k)
  OBVIOUS
<1>1. PICK a, b, c, e, f, g : l = [data |-> a, next |-> b, prev |-> c,
                                   head |-> e, tail |-> f, num_items |-> g]
  BY Zenon DEF WellFormed
<1>2. /\ l.data = a /\ l.next = b /\ l.prev = c /\ Live(l) = DOMAIN a
      /\ a = [x \in Live(l) |-> a[x]] /\ b = [x \in Live(l) |-> b[x]]
      /\ c = [x \in Live(l) |-> c[x]]
  BY <1>1 DEF WellFormed, Live
<1>3. m = [data |-> a, next |-> b, prev |-> c, head |-> h, tail |-> t, num_items |-> k]
  BY <1>1 DEF WithEnds
<1>4. SameLinks(l, m) /\ m.head = h /\ m.tail = t /\ m.num_items = k
  BY <1>2, <1>3 DEF SameLinks, WellFormed, Live
<1> QED
  BY <1>4

LEMMA WithHeadTailFields ==
  ASSUME NEW l, WellFormed(l), NEW h, NEW t
  PROVE  LET m == WithHeadTail(l, h, t) IN
         SameLinks(l, m) /\ m.head = h /\ m.tail = t /\ m.num_items = l.num_items
<1> PICK m : m = WithHeadTail(l, h, t)
  OBVIOUS
<1>1. PICK a, b, c, e, f, g : l = [data |-> a, next |-> b, prev |-> c,
                                   head |-> e, tail |-> f, num_items |-> g]
  BY Zenon DEF WellFormed
<1>2. /\ l.data = a /\ l.next = b /\ l.prev = c /\ Live(l) = DOMAIN a
      /\ a = [x \in Live(l) |-> a[x]] /\ b = [x \in Live(l) |-> b[x]]
      /\ c = [x \in Live(l) |-> c[x]]
  BY <1>1 DEF WellFormed, Live
<1>3. m = [data |-> a, next |-> b, prev |-> c, head |-> h, tail |-> t, num_items |-> l.num_items]
  BY <1>1 DEF WithHeadTail
<1>4. SameLinks(l, m) /\ m.head = h /\ m.tail = t /\ m.num_items = l.num_items
  BY <1>2, <1>3 DEF SameLinks, WellFormed, Live
<1> QED
  BY <1>4

LEMMA SetTail ==
  ASSUME NEW l, WellFormed(l), NEW t, NEW m, m = [l EXCEPT !.tail = t]
  PROVE  SameLinks(l, m) /\ m.head = l.head /\ m.tail = t /\ m.num_items = l.num_items
<1>1. PICK a, b, c, e, f, g : l = [data |-> a, next |-> b, prev |-> c,
                                   head |-> e, tail |-> f, num_items |-> g]
  BY Zenon DEF WellFormed
<1>2. /\ l.data = a /\ l.next = b /\ l.prev = c /\ Live(l) = DOMAIN a
      /\ a = [x \in Live(l) |-> a[x]] /\ b = [x \in Live(l) |-> b[x]]
      /\ c = [x \in Live(l) |-> c[x]]
  BY <1>1 DEF WellFormed, Live
<1>3. m = [data |-> a, next |-> b, prev |-> c, head |-> l.head, tail |-> t, num_items |-> l.num_items]
  BY <1>1
<1> QED
  BY <1>2, <1>3 DEF SameLinks, WellFormed, Live

(* The ends of a list that is linked along c. *)
LEMMA LinkedEnds ==
  ASSUME NEW l, NEW c, Linked(l, c)
  PROVE  /\ (l.head = NULL) <=> (Len(c) = 0)
         /\ (l.tail = NULL) <=> (Len(c) = 0)
         /\ l.head \in Live(l) \cup {NULL} /\ l.tail \in Live(l) \cup {NULL}
         /\ \A i \in 1 .. Len(c) :
              /\ l.data[c[i]] \in Data
              /\ l.next[c[i]] = IF i = Len(c) THEN NULL ELSE c[i + 1]
              /\ i > 1 => l.prev[c[i]] = c[i - 1]
              /\ HeadFirst(l) => l.prev[c[i]] = IF i = 1 THEN NULL ELSE c[i - 1]
<1>1. /\ Len(c) \in Nat
      /\ \A i \in 1 .. Len(c) : c[i] \in Live(l) /\ c[i] # NULL
  BY LinkedProperties
<1>2. /\ l.head = IF Len(c) = 0 THEN NULL ELSE c[1]
      /\ l.tail = IF Len(c) = 0 THEN NULL ELSE c[Len(c)]
      /\ InOrder(l, c)
  BY DEF Linked
<1>3. Len(c) # 0 => 1 \in 1 .. Len(c) /\ Len(c) \in 1 .. Len(c)
  BY <1>1
<1>4. \A i \in 1 .. Len(c) : Len(c) # 0 /\ (i = 1 \/ i > 1)
  BY <1>1
<1> QED
  BY <1>1, <1>2, <1>3, <1>4 DEF InOrder, HeadFirst

LEMMA EnqueuedInserts ==
  ASSUME NEW l, NEW c, Linked(l, c), NEW n \in Nodes \ Live(l), NEW d
  PROVE  IsInsertion(l, Enqueued(l, n, d), n, d, l.tail, NULL)
<1> DEFINE new == CreateNode(l, n, d, NULL, l.tail)
<1>1. /\ WellFormed(l) /\ NULL \notin Live(l) /\ n # NULL
      /\ l.tail \in Live(l) \cup {NULL} /\ ((l.head = NULL) <=> (l.tail = NULL))
  BY LinkedProperties, LinkedEnds, NullAssumption DEF Linked
<1>2. /\ WellFormed(new) /\ Live(new) = Live(l) \cup {n}
      /\ \A x \in Live(new) : /\ new.data[x] = IF x = n THEN d ELSE l.data[x]
                              /\ new.next[x] = IF x = n THEN NULL ELSE l.next[x]
                              /\ new.prev[x] = IF x = n THEN l.tail ELSE l.prev[x]
      /\ new.head = l.head /\ new.tail = l.tail /\ new.num_items = l.num_items + 1
  BY <1>1, CreateNodeFields
<1> HIDE DEF new
<1>3. CASE l.head = NULL
  <2> DEFINE m == WithHeadTail(new, n, n)
  <2>1. Enqueued(l, n, d) = m
    BY <1>3 DEF Enqueued, new, WithHeadTail
  <2>2. SameLinks(new, m) /\ m.head = n /\ m.tail = n /\ m.num_items = new.num_items
    BY <1>2, WithHeadTailFields
  <2> HIDE DEF m
  <2> QED
    BY <1>1, <1>2, <1>3, <2>1, <2>2 DEF IsInsertion, SameLinks
<1>4. CASE l.head # NULL
  <2> DEFINE s == SetNext(new, l.tail, n)
  <2>1. NULL \notin Live(new) /\ l.tail \in Live(new) \cup {NULL}
    BY <1>1, <1>2
  <2>2. /\ WellFormed(s) /\ Live(s) = Live(new)
        /\ s.data = new.data /\ s.prev = new.prev
        /\ \A x \in Live(s) : s.next[x] = IF x = l.tail THEN n ELSE new.next[x]
        /\ s.head = new.head /\ s.tail = new.tail /\ s.num_items = new.num_items
    BY <1>2, <2>1, SetNextFields
  <2> HIDE DEF s
  <2> PICK m : m = [s EXCEPT !.tail = n]
    OBVIOUS
  <2>3. Enqueued(l, n, d) = m
    BY <1>4 DEF Enqueued, new, s
  <2>4. SameLinks(s, m) /\ m.head = s.head /\ m.tail = n /\ m.num_items = s.num_items
    BY <2>2, SetTail
  <2> QED
    BY <1>1, <1>2, <1>4, <2>2, <2>3, <2>4 DEF IsInsertion, SameLinks
<1> QED
  BY <1>3, <1>4
-----------------------------------------------------------------------------
(***************************************************************************)
(* The operations, by what they do to the sequence of nodes.               *)
(***************************************************************************)
Before(c, k) == IF k = 1 THEN NULL ELSE c[k - 1]
At(c, k) == IF k = Len(c) + 1 THEN NULL ELSE c[k]

LEMMA InsertionLinked ==
  ASSUME NEW l, NEW c, Linked(l, c), NEW n \in Nodes \ Live(l), NEW d \in Data,
         NEW k \in 1 .. Len(c) + 1, NEW l2, IsInsertion(l, l2, n, d, Before(c, k), At(c, k))
  PROVE  Linked(l2, InsertAt(c, k, n)) /\ (HeadFirst(l) => HeadFirst(l2))
<1> DEFINE c2 == InsertAt(c, k, n)
           p == Before(c, k)
           q == At(c, k)
           N == Len(c)
<1>1. /\ N \in Nat /\ k \in 1 .. N + 1
      /\ \A i \in 1 .. N : c[i] \in Live(l) /\ c[i] # NULL /\ c[i] # n
      /\ \A i, j \in 1 .. N : c[i] = c[j] => i = j
  BY LinkedProperties
<1>2. /\ Live(l2) = Live(l) \cup {n} /\ Live(l2) \subseteq Nodes /\ n # NULL
      /\ WellFormed(l2) /\ l2.num_items = N + 1
      /\ l2.head = IF p = NULL THEN n ELSE l.head
      /\ l2.tail = IF q = NULL THEN n ELSE l.tail
      /\ \A x \in Live(l2) :
           /\ l2.data[x] = IF x = n THEN d ELSE l.data[x]
           /\ l2.next[x] = IF x = n THEN q ELSE IF x = p THEN n ELSE l.next[x]
           /\ l2.prev[x] = IF x = n THEN p ELSE IF x = q THEN n ELSE l.prev[x]
  BY NullAssumption DEF IsInsertion, Linked
<1>3. /\ c2 \in Seq(Live(l2)) /\ Len(c2) = N + 1 /\ DOMAIN c2 = 1 .. N + 1
      /\ \A j \in 1 .. N + 1 : c2[j] = IF j < k THEN c[j] ELSE IF j = k THEN n ELSE c[j - 1]
  <2>1. c \in Seq(Live(l2)) /\ n \in Live(l2)
    BY <1>1, <1>2, LenProperties DEF Linked
  <2>2. /\ c2 \in Seq(Live(l2)) /\ Len(c2) = N + 1
        /\ \A j \in 1 .. N + 1 : c2[j] = IF j < k THEN c[j] ELSE IF j = k THEN n ELSE c[j - 1]
    BY <1>1, <2>1, InsertAtProperties
  <2> QED
    BY <2>2, LenProperties
<1> HIDE DEF c2
<1>4. IsInjective(c2)
  <2> SUFFICES ASSUME NEW i \in 1 .. N + 1, NEW j \in 1 .. N + 1, c2[i] = c2[j]
               PROVE  i = j
    BY <1>3 DEF IsInjective
  <2> DEFINE Old(m) == IF m < k THEN m ELSE m - 1
  <2>1. \A m \in 1 .. N + 1 : m = k \/ (m # k /\ Old(m) \in 1 .. N /\ c2[m] = c[Old(m)])
    BY <1>1, <1>3
  <2>2. c2[k] = n
    BY <1>1, <1>3
  <2>3. i # k /\ j # k /\ Old(i) = Old(j) => i = j
    BY <1>1
  <2> HIDE DEF Old
  <2> QED
    BY <1>1, <2>1, <2>2, <2>3
<1>5. ASSUME NEW x \in Live(l2)
      PROVE  \E i \in 1 .. N + 1 : c2[i] = x
  <2>1. CASE x = n
    BY <1>1, <1>3, <2>1
  <2>2. CASE x # n
    <3>1. PICK j \in 1 .. N : c[j] = x
      BY <1>2, <2>2 DEF Linked
    <3>2. CASE j < k
      BY <1>1, <1>3, <3>1, <3>2
    <3>3. CASE ~(j < k)
      <4>1. j + 1 \in 1 .. N + 1 /\ ~(j + 1 < k) /\ j + 1 # k /\ (j + 1) - 1 = j
        BY <1>1, <3>3
      <4> QED
        BY <1>3, <3>1, <4>1
    <3> QED
      BY <3>2, <3>3
  <2> QED
    BY <2>1, <2>2
<1>6. /\ N + 1 # 0 /\ N + 1 \in Nat
      /\ l2.head = c2[1] /\ l2.tail = c2[N + 1]
      /\ HeadFirst(l) => HeadFirst(l2)
  <2>1. /\ (N # 0 => l.head = c[1] /\ l.tail = c[N])
        /\ (k # 1 => N # 0 /\ p = c[k - 1] /\ p # NULL)
        /\ (k = 1 => p = NULL)
        /\ (k # N + 1 => N # 0 /\ q = c[k] /\ q # NULL)
        /\ (k = N + 1 => q = NULL)
    <3>1. N # 0 => l.head = c[1] /\ l.tail = c[N]
      BY DEF Linked
    <3>2. (k # 1 => k - 1 \in 1 .. N) /\ (k # N + 1 => k \in 1 .. N) /\ (1 .. N # {} => N # 0)
      BY <1>1
    <3> QED
      BY <1>1, <3>1, <3>2 DEF Before, At
  <2>2. /\ c2[1] = IF k = 1 THEN n ELSE c[1]
        /\ c2[N + 1] = IF k = N + 1 THEN n ELSE c[N]
    BY <1>1, <1>3
  <2>3. l2.head = c2[1] /\ l2.tail = c2[N + 1]
    BY <1>2, <2>1, <2>2
  <2>4. ASSUME HeadFirst(l)
        PROVE  HeadFirst(l2)
    <3>1. CASE k = 1
      BY <1>2, <2>1, <2>2, <2>3, <3>1 DEF HeadFirst
    <3>2. CASE k # 1
      <4>1. 1 \in 1 .. N /\ c[1] \in Live(l2) /\ c[1] # n /\ c[1] # q /\ c[1] # NULL
        BY <1>1, <1>2, <2>1, <3>2
      <4>2. l2.head = c[1] /\ l.head = c[1]
        BY <2>1, <2>2, <2>3, <3>2
      <4> QED
        BY <1>2, <2>4, <4>1, <4>2 DEF HeadFirst
    <3> QED
      BY <3>1, <3>2
  <2> QED
    BY <1>1, <2>3, <2>4
<1>7. ASSUME NEW i \in 1 .. N + 1
      PROVE  /\ l2.data[c2[i]] \in Data
             /\ l2.next[c2[i]] = IF i = N + 1 THEN NULL ELSE c2[i + 1]
             /\ i > 1 => l2.prev[c2[i]] = c2[i - 1]
  <2>0. \A j \in 1 .. N : /\ l.data[c[j]] \in Data
                          /\ l.next[c[j]] = IF j = N THEN NULL ELSE c[j + 1]
                          /\ j > 1 => l.prev[c[j]] = c[j - 1]
    BY DEF Linked, InOrder
  <2>1. CASE i = k
    <3>1. c2[i] = n /\ n \in Live(l2)
      BY <1>1, <1>2, <1>3, <2>1
    <3>2. i # N + 1 => i + 1 \in 1 .. N + 1 /\ c2[i + 1] = c[i]
      BY <1>1, <1>3, <2>1
    <3>3. i > 1 => i - 1 \in 1 .. N + 1 /\ c2[i - 1] = c[i - 1] /\ i # 1
      BY <1>1, <1>3, <2>1
    <3> QED
      BY <1>2, <2>1, <3>1, <3>2, <3>3 DEF Before, At
  <2>2. CASE i < k
    <3>1. /\ i \in 1 .. N /\ c2[i] = c[i] /\ c[i] \in Live(l2) /\ c[i] # n
          /\ i # N + 1 /\ i + 1 \in 1 .. N + 1
          /\ c2[i + 1] = IF i = k - 1 THEN n ELSE c[i + 1]
          /\ i # k - 1 => i # N
          /\ i > 1 => c2[i - 1] = c[i - 1]
      BY <1>1, <1>2, <1>3, <2>2
    <3>2. /\ (c[i] = p) <=> (i = k - 1)
          /\ c[i] # q
      BY <1>1, <2>2, <3>1 DEF Before, At
    <3> QED
      BY <1>2, <2>0, <3>1, <3>2
  <2>3. CASE i > k
    <3>1. /\ i - 1 \in 1 .. N /\ c2[i] = c[i - 1] /\ c[i - 1] \in Live(l2) /\ c[i - 1] # n
          /\ (i # N + 1 => i - 1 # N /\ c2[i + 1] = c[(i - 1) + 1])
          /\ (i = N + 1 => i - 1 = N)
          /\ c2[i - 1] = IF i - 1 = k THEN n ELSE c[(i - 1) - 1]
          /\ i > 1 /\ (i - 1 # k => i - 1 > 1)
      BY <1>1, <1>2, <1>3, <2>3
    <3>2. /\ c[i - 1] # p
          /\ (c[i - 1] = q) <=> (i - 1 = k)
      BY <1>1, <2>3, <3>1 DEF Before, At
    <3> QED
      BY <1>2, <2>0, <3>1, <3>2
  <2> QED
    BY <1>1, <2>1, <2>2, <2>3
<1> QED
  BY <1>2, <1>3, <1>4, <1>5, <1>6, <1>7 DEF Linked, InOrder, c2

LEMMA DeletionLinked ==
  ASSUME NEW l, NEW c, Linked(l, c), HeadFirst(l), NEW k \in 1 .. Len(c),
         NEW l2, IsDeletion(l, l2, c[k])
  PROVE  Linked(l2, RemoveAt(c, k)) /\ HeadFirst(l2)
<1> DEFINE c2 == RemoveAt(c, k)
           n == c[k]
           p == IF k = 1 THEN NULL ELSE c[k - 1]
           q == IF k = Len(c) THEN NULL ELSE c[k + 1]
           N == Len(c)
<1>1. /\ N \in Nat /\ k \in 1 .. N /\ DOMAIN c = 1 .. N
      /\ \A i \in 1 .. N : c[i] \in Live(l) /\ c[i] # NULL
      /\ \A i, j \in 1 .. N : c[i] = c[j] => i = j
  BY LinkedProperties
<1>2. \A j \in 1 .. N : /\ l.data[c[j]] \in Data
                        /\ l.next[c[j]] = IF j = N THEN NULL ELSE c[j + 1]
                        /\ l.prev[c[j]] = IF j = 1 THEN NULL ELSE c[j - 1]
  BY LinkedEnds
<1>3. l.head = c[1] /\ l.tail = c[N] /\ N # 0
  BY <1>1 DEF Linked
<1>4. /\ Live(l2) = Live(l) \ {n} /\ Live(l2) \subseteq Nodes
      /\ WellFormed(l2) /\ l2.num_items = N - 1
      /\ l2.head = IF l.head = n THEN q ELSE l.head
      /\ l2.tail = IF l.tail = n THEN p ELSE l.tail
      /\ \A x \in Live(l2) :
           /\ l2.data[x] = l.data[x]
           /\ l2.next[x] = IF x = p THEN q ELSE l.next[x]
           /\ l2.prev[x] = IF x = q THEN p ELSE l.prev[x]
  <2>1. n \in Live(l) /\ l.next[n] = q /\ l.prev[n] = p
    BY <1>1, <1>2
  <2> HIDE DEF n, p, q
  <2>2. IsDeletion(l, l2, n)
    BY DEF n
  <2> QED
    BY <2>1, <2>2 DEF IsDeletion, Linked
<1>5. /\ c2 \in Seq(Live(l)) /\ Len(c2) = N - 1 /\ DOMAIN c2 = 1 .. N - 1
      /\ \A j \in 1 .. N - 1 : c2[j] = IF j < k THEN c[j] ELSE c[j + 1]
  <2>1. c \in Seq(Live(l)) /\ k \in DOMAIN c
    BY <1>1 DEF Linked
  <2>2. /\ c2 \in Seq(Live(l)) /\ Len(c2) = N - 1
        /\ \A j \in 1 .. N - 1 : c2[j] = IF j < k THEN c[j] ELSE c[j + 1]
    BY <1>1, <2>1, RemoveAtProperties
  <2> QED
    BY <2>2, LenProperties
<1> HIDE DEF c2
<1> HIDE DEF N
<1>0. N \in Nat /\ k \in 1 .. N
  BY <1>1
<1> DEFINE Old(m) == IF m < k THEN m ELSE m + 1
<1>6. /\ \A m \in 1 .. N - 1 : Old(m) \in 1 .. N /\ Old(m) # k
      /\ \A i, j \in 1 .. N - 1 : Old(i) = Old(j) => i = j
      /\ \A j \in 1 .. N : j # k => \E m \in 1 .. N - 1 : Old(m) = j
      /\ k # 1 => k - 1 \in 1 .. N
      /\ k # N => k + 1 \in 1 .. N
      /\ 1 \in 1 .. N /\ N \in 1 .. N /\ N \in Nat
  <2>1. ASSUME NEW j \in 1 .. N, j # k
        PROVE  \E m \in 1 .. N - 1 : Old(m) = j
    <3>1. CASE j < k
      <4>1. j \in 1 .. N - 1 /\ Old(j) = j
        BY <1>0, <3>1
      <4> QED
        BY <4>1
    <3>2. CASE j > k
      <4>1. j - 1 \in 1 .. N - 1 /\ Old(j - 1) = j
        BY <1>0, <3>2
      <4> QED
        BY <4>1
    <3> QED
      BY <1>0, <2>1, <3>1, <3>2
  <2>2. \A m \in 1 .. N - 1 : Old(m) \in 1 .. N /\ Old(m) # k
    BY <1>0
  <2>3. \A i, j \in 1 .. N - 1 : Old(i) = Old(j) => i = j
    BY <1>0
  <2>4. /\ k # 1 => k - 1 \in 1 .. N
        /\ k # N => k + 1 \in 1 .. N
        /\ 1 \in 1 .. N /\ N \in 1 .. N /\ N \in Nat
    BY <1>0
  <2> QED
    BY <2>1, <2>2, <2>3, <2>4, Zenon
<1>7. \A m \in 1 .. N - 1 : c2[m] = c[Old(m)]
  BY <1>5
<1> DEFINE Arith(i, j) ==
      /\ i = N - 1 => (j = N /\ j # k - 1) \/ (j = k - 1 /\ k = N /\ k # 1)
      /\ i # N - 1 =>
           /\ i + 1 \in 1 .. N - 1
           /\ \/ j = k - 1 /\ k # 1 /\ k # N /\ Old(i + 1) = k + 1
              \/ j # k - 1 /\ j # N /\ Old(i + 1) = j + 1
      /\ i = 1 => (j = 1 /\ j # k + 1) \/ (j = k + 1 /\ k = 1 /\ k # N)
      /\ i # 1 =>
           /\ i - 1 \in 1 .. N - 1
           /\ \/ j = k + 1 /\ k # 1 /\ k # N /\ Old(i - 1) = k - 1
              \/ j # k + 1 /\ j # 1 /\ Old(i - 1) = j - 1
<1>8. \A i \in 1 .. N - 1 : Arith(i, Old(i))
  BY <1>0
<1>9. /\ N = 1 => k = 1 /\ k = N
      /\ N # 1 => /\ N - 1 # 0 /\ 1 \in 1 .. N - 1 /\ N - 1 \in 1 .. N - 1
                  /\ Old(1) = (IF k = 1 THEN k + 1 ELSE 1)
                  /\ Old(N - 1) = (IF k = N THEN k - 1 ELSE N)
                  /\ k # 1 \/ k # N
  BY <1>0
<1> HIDE DEF Old
<1>10. IsInjective(c2)
  <2>1. \A i, j \in 1 .. N - 1 : c2[i] = c2[j] => i = j
    BY <1>1, <1>6, <1>7
  <2> QED
    BY <1>5, <2>1 DEF IsInjective
<1>11. \A i \in 1 .. N - 1 : c2[i] \in Live(l2)
  <2>1. \A j \in 1 .. N : j # k => c[j] \in Live(l2)
    BY <1>1, <1>4
  <2> QED
    BY <1>6, <1>7, <2>1
<1>12. \A x \in Live(l2) : \E i \in 1 .. N - 1 : c2[i] = x
  <2> SUFFICES ASSUME NEW x \in Live(l2)
               PROVE  \E i \in 1 .. N - 1 : c2[i] = x
    OBVIOUS
  <2>1. PICK j \in 1 .. N : c[j] = x
    BY <1>4 DEF Linked, N
  <2>2. j # k
    BY <1>4, <2>1
  <2> QED
    BY <1>6, <1>7, <2>1, <2>2
<1>13. /\ l2.head = IF N - 1 = 0 THEN NULL ELSE c2[1]
       /\ l2.tail = IF N - 1 = 0 THEN NULL ELSE c2[N - 1]
  <2>1. ((c[1] = n) <=> (k = 1)) /\ ((c[N] = n) <=> (k = N))
    BY <1>1, <1>6
  <2>2. CASE N = 1
    BY <1>3, <1>4, <1>9, <2>1, <2>2 DEF N
  <2>3. CASE N # 1
    BY <1>3, <1>4, <1>7, <1>9, <2>1, <2>3 DEF N
  <2> QED
    BY <2>2, <2>3
<1>14. ASSUME NEW i \in 1 .. N - 1
       PROVE  /\ l2.data[c2[i]] \in Data
              /\ l2.next[c2[i]] = IF i = N - 1 THEN NULL ELSE c2[i + 1]
              /\ l2.prev[c2[i]] = IF i = 1 THEN NULL ELSE c2[i - 1]
  <2> PICK j : j = Old(i)
    OBVIOUS
  <2>1. /\ c2[i] \in Live(l2) /\ j \in 1 .. N /\ c2[i] = c[j] /\ Arith(i, j)
    BY <1>6, <1>7, <1>8, <1>11
  <2>2. /\ (c[j] = p) <=> (k # 1 /\ j = k - 1)
        /\ (c[j] = q) <=> (k # N /\ j = k + 1)
    BY <1>1, <1>6, <2>1
  <2>3. l2.data[c2[i]] \in Data
    BY <1>2, <1>4, <2>1
  <2>4. l2.next[c2[i]] = IF i = N - 1 THEN NULL ELSE c2[i + 1]
    <3>1. l2.next[c2[i]] = IF k # 1 /\ j = k - 1 THEN q ELSE IF j = N THEN NULL ELSE c[j + 1]
      <4>1. l2.next[c[j]] = IF c[j] = p THEN q ELSE l.next[c[j]]
        BY <1>4, <2>1
      <4> QED
        BY <1>2, <2>1, <2>2, <4>1
    <3>2. i # N - 1 => c2[i + 1] = c[Old(i + 1)]
      BY <1>7, <2>1
    <3> QED
      BY <2>1, <3>1, <3>2 DEF N
  <2>5. l2.prev[c2[i]] = IF i = 1 THEN NULL ELSE c2[i - 1]
    <3>1. l2.prev[c2[i]] = IF k # N /\ j = k + 1 THEN p ELSE IF j = 1 THEN NULL ELSE c[j - 1]
      BY <1>2, <1>4, <2>1, <2>2
    <3>2. i # 1 => c2[i - 1] = c[Old(i - 1)]
      BY <1>7, <2>1
    <3> QED
      BY <2>1, <3>1, <3>2
  <2> QED
    BY <2>3, <2>4, <2>5
<1>15. HeadFirst(l2)
  <2>1. N - 1 # 0 => 1 \in 1 .. N - 1
    BY <1>0
  <2> QED
    BY <1>13, <1>14, <2>1 DEF HeadFirst
<1>16. /\ c2 \in Seq(Live(l2)) /\ N - 1 \in Nat /\ Len(c2) = N - 1
       /\ \A i \in 1 .. N - 1 : i > 1 => i # 1
  BY <1>1, <1>5, <1>11
<1>17. InOrder(l2, c2)
  BY <1>14, <1>16 DEF InOrder
<1>18. Linked(l2, c2)
  BY <1>4, <1>10, <1>12, <1>13, <1>16, <1>17 DEF Linked
<1> QED
  BY <1>15, <1>18 DEF c2

(* delete_node() and free() take the node out; delete_node() alone leaves *)
(* it its next, which allocate_memory() goes on from.                     *)
LEMMA DeletedDeletes ==
  ASSUME NEW l, NEW c, Linked(l, c), HeadFirst(l), NEW k \in 1 .. Len(c)
  PROVE  /\ IsDeletion(l, Free(Deleted(l, c[k]), {c[k]}), c[k])
         /\ Deleted(l, c[k]).next[c[k]] = l.next[c[k]]
<1> DEFINE n == c[k]
           p == l.prev[n]
           q == l.next[n]
           s1 == SetNext(l, p, q)
           s2 == SetPrev(s1, q, p)
           h == IF s2.head = n THEN q ELSE s2.head
           t == IF s2.tail = n THEN p ELSE s2.tail
           r == WithEnds(s2, h, t, s2.num_items - 1)
<1>1. /\ WellFormed(l) /\ NULL \notin Live(l) /\ n \in Live(l)
      /\ p \in Live(l) \cup {NULL} /\ q \in Live(l) \cup {NULL} /\ p # n /\ q # n
      /\ l.head # NULL /\ l.tail # NULL
  <2>1. /\ Len(c) \in Nat /\ k \in 1 .. Len(c)
        /\ \A i \in 1 .. Len(c) : c[i] \in Live(l) /\ c[i] # NULL
        /\ \A i, j \in 1 .. Len(c) : c[i] = c[j] => i = j
        /\ NULL \notin Live(l)
    BY LinkedProperties
  <2>2. /\ l.head # NULL /\ l.tail # NULL
        /\ l.next[c[k]] = IF k = Len(c) THEN NULL ELSE c[k + 1]
        /\ l.prev[c[k]] = IF k = 1 THEN NULL ELSE c[k - 1]
    BY <2>1, LinkedEnds
  <2>3. (k # 1 => k - 1 \in 1 .. Len(c)) /\ (k # Len(c) => k + 1 \in 1 .. Len(c))
    BY <2>1
  <2> QED
    <3>1. /\ p \in Live(l) \cup {NULL} /\ p # n
      BY <2>1, <2>2, <2>3
    <3>2. /\ q \in Live(l) \cup {NULL} /\ q # n
      BY <2>1, <2>2, <2>3
    <3> QED
      BY <2>1, <2>2, <3>1, <3>2 DEF Linked
<1> HIDE DEF n, p, q
<1>2. /\ WellFormed(s1) /\ Live(s1) = Live(l) /\ s1.data = l.data /\ s1.prev = l.prev
      /\ \A x \in Live(s1) : s1.next[x] = IF x = p THEN q ELSE l.next[x]
      /\ s1.head = l.head /\ s1.tail = l.tail /\ s1.num_items = l.num_items
  BY <1>1, SetNextFields
<1> HIDE DEF s1
<1>3. /\ WellFormed(s2) /\ Live(s2) = Live(l) /\ s2.data = l.data /\ s2.next = s1.next
      /\ \A x \in Live(s2) : s2.prev[x] = IF x = q THEN p ELSE l.prev[x]
      /\ s2.head = l.head /\ s2.tail = l.tail /\ s2.num_items = l.num_items
  BY <1>1, <1>2, SetPrevFields
<1> HIDE DEF s2
<1>4. SameLinks(s2, r) /\ r.head = h /\ r.tail = t /\ r.num_items = s2.num_items - 1
  <2> HIDE DEF h, t
  <2> QED  BY <1>3, WithEndsFields
<1>5. Deleted(l, n) = r
  BY <1>1, Zenon DEF Deleted, WithEnds, s1, s2, p, q
<1> HIDE DEF r
<1> DEFINE f == Free(r, {n})
<1>6. /\ WellFormed(f) /\ Live(f) = Live(l) \ {n}
      /\ \A x \in Live(f) : f.data[x] = r.data[x] /\ f.next[x] = r.next[x] /\ f.prev[x] = r.prev[x]
      /\ f.head = r.head /\ f.tail = r.tail /\ f.num_items = r.num_items
  BY <1>3, <1>4, FreeFields DEF SameLinks
<1> HIDE DEF f
<1>7. IsDeletion(l, f, n)
  BY <1>1, <1>2, <1>3, <1>4, <1>6 DEF IsDeletion, SameLinks, p, q
<1>8. r.next[n] = q
  BY <1>1, <1>2, <1>3, <1>4 DEF SameLinks, q
<1> QED
  BY <1>5, <1>7, <1>8 DEF f, n, q

LEMMA DequeuedLinked ==
  ASSUME NEW l, NEW c, Linked(l, c), l.head # NULL
  PROVE  Linked(Dequeued(l), Tail(c)) /\ Len(c) # 0
<1> DEFINE N == Len(c)
           n == l.head
           q == l.next[n]
           t == IF q = NULL THEN NULL ELSE l.tail
           e == WithEnds(l, q, t, l.num_items - 1)
           f == Free(e, {n})
           c2 == Tail(c)
<1>1. /\ N \in Nat /\ DOMAIN c = 1 .. N /\ NULL \notin Live(l) /\ WellFormed(l)
      /\ \A i \in 1 .. N : c[i] \in Live(l) /\ c[i] # NULL
      /\ \A i, j \in 1 .. N : c[i] = c[j] => i = j
  BY LinkedProperties DEF Linked
<1>2. /\ N # 0 /\ n = c[1] /\ l.tail = c[N] /\ l.num_items = N
      /\ \A i \in 1 .. N : /\ l.data[c[i]] \in Data
                           /\ l.next[c[i]] = IF i = N THEN NULL ELSE c[i + 1]
                           /\ i > 1 => l.prev[c[i]] = c[i - 1]
  BY DEF Linked, InOrder
<1>3. q = IF N = 1 THEN NULL ELSE c[2]
  <2> HIDE DEF N
  <2>1. 1 \in 1 .. N /\ 1 + 1 = 2
    BY <1>1, <1>2
  <2>2. l.next[c[1]] = IF 1 = N THEN NULL ELSE c[2]
    BY <1>2, <2>1
  <2> QED
    BY <1>2, <2>2
<1>4. Dequeued(l) = f
  BY Zenon DEF Dequeued, WithEnds
<1>5. SameLinks(l, e) /\ e.head = q /\ e.tail = t /\ e.num_items = N - 1
  <2> HIDE DEF q, t
  <2>1. SameLinks(l, e) /\ e.head = q /\ e.tail = t /\ e.num_items = l.num_items - 1
    BY <1>1, WithEndsFields
  <2> QED
    BY <1>2, <2>1
<1> HIDE DEF e
<1>6. /\ WellFormed(f) /\ Live(f) = Live(l) \ {n}
      /\ \A x \in Live(f) : f.data[x] = l.data[x] /\ f.next[x] = l.next[x] /\ f.prev[x] = l.prev[x]
      /\ f.head = q /\ f.tail = t /\ f.num_items = N - 1
  BY <1>5, FreeFields DEF SameLinks
<1> HIDE DEF f
<1>7. /\ c2 \in Seq(Live(l)) /\ Len(c2) = N - 1 /\ DOMAIN c2 = 1 .. N - 1
      /\ \A j \in 1 .. N - 1 : c2[j] = c[j + 1]
  <2>1. c \in Seq(Live(l)) /\ c # <<>>
    BY <1>1, <1>2, EmptySeq DEF Linked
  <2>2. c2 \in Seq(Live(l)) /\ Len(c2) = N - 1 /\ \A j \in 1 .. N - 1 : c2[j] = c[j + 1]
    BY <2>1, HeadTailProperties
  <2> QED
    BY <2>2, LenProperties
<1> HIDE DEF c2, N, n, t, q
<1>8. /\ \A j \in 1 .. N - 1 : j + 1 \in 1 .. N /\ j + 1 # 1 /\ j + 1 > 1
                              /\ (j + 1 = N <=> j = N - 1) /\ (j + 1) - 1 = j
                              /\ (j # N - 1 => j + 1 \in 1 .. N - 1)
                              /\ (j > 1 => j - 1 \in 1 .. N - 1 /\ (j - 1) + 1 = j)
      /\ \A j \in 1 .. N : j # 1 => j - 1 \in 1 .. N - 1 /\ (j - 1) + 1 = j
      /\ N # 1 => N - 1 # 0 /\ 1 \in 1 .. N - 1 /\ N - 1 \in 1 .. N - 1 /\ (N - 1) + 1 = N
      /\ N = 1 => N - 1 = 0
      /\ 1 \in 1 .. N /\ 1 + 1 = 2 /\ N - 1 \in Nat
  BY <1>1, <1>2
<1>9. /\ \A j \in 1 .. N - 1 : c2[j] \in Live(f)
      /\ IsInjective(c2)
  <2>1. \A i, j \in 1 .. N - 1 : c2[i] = c2[j] => i = j
    <3>1. \A i, j \in 1 .. N - 1 : i + 1 = j + 1 => i = j
      BY <1>1
    <3> QED
      BY <1>1, <1>7, <1>8, <3>1
  <2>2. \A j \in 1 .. N - 1 : c2[j] \in Live(f)
    BY <1>1, <1>2, <1>6, <1>7, <1>8
  <2> QED
    BY <1>7, <2>1, <2>2 DEF IsInjective
<1>10. \A x \in Live(f) : \E i \in 1 .. N - 1 : c2[i] = x
  <2> SUFFICES ASSUME NEW x \in Live(f)
               PROVE  \E i \in 1 .. N - 1 : c2[i] = x
    OBVIOUS
  <2>1. PICK j \in 1 .. N : c[j] = x
    BY <1>6 DEF Linked, N
  <2>2. j # 1
    BY <1>2, <1>6, <2>1
  <2> QED
    BY <1>7, <1>8, <2>1, <2>2
<1>11. /\ f.head = IF N - 1 = 0 THEN NULL ELSE c2[1]
       /\ f.tail = IF N - 1 = 0 THEN NULL ELSE c2[N - 1]
  <2>1. N # 1 => c[2] # NULL /\ c2[1] = c[2] /\ c2[N - 1] = c[N]
    BY <1>1, <1>7, <1>8
  <2> QED
    BY <1>2, <1>3, <1>6, <1>8, <2>1 DEF t
<1>12. ASSUME NEW i \in 1 .. N - 1
       PROVE  /\ f.data[c2[i]] \in Data
              /\ f.next[c2[i]] = IF i = N - 1 THEN NULL ELSE c2[i + 1]
              /\ i > 1 => f.prev[c2[i]] = c2[i - 1]
  <2> PICK j : j = i + 1
    OBVIOUS
  <2>1. j \in 1 .. N /\ c2[i] = c[j] /\ c[j] \in Live(f) /\ j > 1
    BY <1>7, <1>8, <1>9
  <2>2. /\ f.data[c[j]] \in Data
        /\ f.next[c[j]] = IF j = N THEN NULL ELSE c[j + 1]
        /\ f.prev[c[j]] = c[j - 1]
    BY <1>2, <1>6, <2>1
  <2>3. /\ (j = N <=> i = N - 1) /\ j - 1 = i
        /\ i # N - 1 => c2[i + 1] = c[j + 1]
        /\ i > 1 => c2[i - 1] = c[i]
    BY <1>7, <1>8
  <2> QED
    BY <2>1, <2>2, <2>3
<1>13. InOrder(f, c2)
  BY <1>7, <1>12 DEF InOrder
<1>14. c2 \in Seq(Live(f)) /\ Live(f) \subseteq Nodes
  BY <1>6, <1>7, <1>9 DEF Linked
<1>15. Linked(f, c2)
  BY <1>6, <1>7, <1>8, <1>9, <1>10, <1>11, <1>13, <1>14 DEF Linked
<1> QED
  BY <1>2, <1>4, <1>15 DEF c2, N

(***************************************************************************)
(* The sequence that the list stands for.                                  *)
(***************************************************************************)
LEMMA LinkedItems ==
  ASSUME NEW l, NEW c, Linked(l, c)
  PROVE  /\ Items(l) \in Seq(Data) /\ Len(Items(l)) = Len(c) /\ Len(c) \in Nat
         /\ DOMAIN Items(l) = 1 .. Len(c)
         /\ \A i \in 1 .. Len(c) : Items(l)[i] = l.data[c[i]]
<1>1. Len(c) \in Nat /\ DOMAIN c = 1 .. Len(c) /\ Chain(l) = c
  BY LinkedProperties, LinkedChain
<1>2. Items(l) = [i \in 1 .. Len(c) |-> l.data[c[i]]]
  BY <1>1 DEF Items
<1>3. \A i \in 1 .. Len(c) : l.data[c[i]] \in Data
  BY LinkedEnds
<1> QED
  BY <1>1, <1>2, <1>3

(* The place that insert_node_sorted() looks for. *)
Passed(s, d) == SelectInSeq(s, LAMBDA e : ~Smaller(e, d))

LEMMA PassedProperties ==
  ASSUME NEW s \in Seq(Data), NEW d
  PROVE  \/ /\ Passed(s, d) = 0
            /\ \A j \in 1 .. Len(s) : Smaller(s[j], d)
         \/ /\ Passed(s, d) \in 1 .. Len(s) /\ ~Smaller(s[Passed(s, d)], d)
            /\ \A j \in 1 .. Passed(s, d) - 1 : Smaller(s[j], d)
<1> DEFINE I == {i \in 1 .. Len(s) : ~Smaller(s[i], d)}
<1>1. Passed(s, d) = IF I # {} THEN Min(I) ELSE 0
  BY DEF Passed, SelectInSeq
<1>2. CASE I = {}
  BY <1>1, <1>2
<1>3. CASE I # {}
  <2>1. I \subseteq Nat
    OBVIOUS
  <2> HIDE DEF I
  <2>2. PICK i \in I : \A j \in I : ~(<<j, i>> \in OpToRel(<, Nat))
    BY <1>3, <2>1, NatLessThanWellFounded, WFMin
  <2>3. \A j \in I : i <= j
    <3>1. \A j \in I : j \in Nat /\ i \in Nat /\ ~(j < i)
      BY <2>1, <2>2 DEF OpToRel
    <3> QED
      BY <3>1
  <2>4. Min(I) \in I /\ \A j \in I : Min(I) <= j
    BY <2>3 DEF Min
  <2> PICK m : m = Min(I)
    OBVIOUS
  <2>5. m \in 1 .. Len(s) /\ ~Smaller(s[m], d) /\ Len(s) \in Nat
    BY <2>4 DEF I
  <2>6. ASSUME NEW j \in 1 .. m - 1
        PROVE  Smaller(s[j], d)
    <3>1. j \in 1 .. Len(s) /\ ~(m <= j)
      BY <2>5
    <3> QED
      BY <2>4, <3>1 DEF I
  <2> QED
    BY <1>1, <1>3, <2>5, <2>6
<1> QED
  BY <1>2, <1>3

LEMMA InsertedSortedInserts ==
  ASSUME NEW l, NEW c, Linked(l, c), NEW n \in Nodes \ Live(l), NEW d
  PROVE  \E k \in 1 .. Len(c) + 1 :
           /\ IsInsertion(l, InsertedSorted(l, n, d), n, d, Before(c, k), At(c, k))
           /\ \A j \in 1 .. k - 1 : Smaller(l.data[c[j]], d)
           /\ k <= Len(c) => ~Smaller(l.data[c[k]], d)
<1> DEFINE N == Len(c)
           passed == Passed(Items(l), d)
           k == IF passed = 0 THEN N + 1 ELSE passed
           p == Before(c, k)
           q == At(c, k)
<1>1. /\ N \in Nat /\ NULL \notin Live(l) /\ WellFormed(l) /\ Chain(l) = c /\ n \notin Live(l)
      /\ \A i \in 1 .. N : c[i] \in Live(l) /\ c[i] # NULL
      /\ l.head = (IF N = 0 THEN NULL ELSE c[1]) /\ l.tail = (IF N = 0 THEN NULL ELSE c[N])
      /\ c \in Seq(Live(l)) /\ n # NULL
  BY LinkedProperties, LinkedChain, NullAssumption DEF Linked
<1>2. /\ k \in 1 .. N + 1 /\ ((passed = 0) <=> (k = N + 1))
      /\ (passed # 0 => passed = k)
      /\ \A j \in 1 .. k - 1 : Smaller(l.data[c[j]], d)
      /\ k <= N => ~Smaller(l.data[c[k]], d)
  <2>1. /\ Items(l) \in Seq(Data) /\ Len(Items(l)) = N
        /\ \A i \in 1 .. N : Items(l)[i] = l.data[c[i]]
    BY LinkedItems
  <2>2. \/ /\ passed = 0
           /\ \A j \in 1 .. N : Smaller(Items(l)[j], d)
        \/ /\ passed \in 1 .. N /\ ~Smaller(Items(l)[passed], d)
           /\ \A j \in 1 .. passed - 1 : Smaller(Items(l)[j], d)
    BY <2>1, PassedProperties
  <2> HIDE DEF passed, N
  <2>3. CASE passed = 0
    <3>1. /\ k = N + 1 /\ ~(k <= N) /\ N + 1 \in 1 .. N + 1
          /\ \A j \in 1 .. k - 1 : j \in 1 .. N
      BY <1>1, <2>3
    <3> HIDE DEF k
    <3> QED
      BY <1>1, <2>1, <2>2, <2>3, <3>1
  <2>4. CASE passed # 0
    <3>1. k = passed /\ k \in 1 .. N /\ k # N + 1 /\ \A j \in 1 .. k - 1 : j \in 1 .. N
      BY <1>1, <2>2, <2>4
    <3> HIDE DEF k
    <3> QED
      BY <1>1, <2>1, <2>2, <2>4, <3>1
  <2> QED
    BY <2>3, <2>4
<1>3. q = IF passed = 0 THEN NULL ELSE Chain(l)[passed]
  BY <1>1, <1>2 DEF At
<1>4. p = IF passed = 0 THEN (IF l.head = NULL THEN NULL ELSE Last(Chain(l)))
          ELSE IF passed = 1 THEN NULL ELSE Chain(l)[passed - 1]
  <2>1. Last(Chain(l)) = c[N]
    BY <1>1 DEF Last
  <2>2. (l.head = NULL) <=> (N = 0)
    <3>1. N # 0 => 1 \in 1 .. N
      BY <1>1
    <3> QED
      BY <1>1, <3>1
  <2> HIDE DEF passed, N
  <2>3. (N = 0 <=> N + 1 = 1) /\ (N + 1) - 1 = N
    BY <1>1
  <2> HIDE DEF k
  <2> QED
    BY <1>1, <1>2, <2>1, <2>2, <2>3 DEF Before
<1>5. /\ p \in Live(l) \cup {NULL} /\ q \in Live(l) \cup {NULL}
      /\ p # NULL \/ q # NULL \/ l.head = NULL
  <2>1. (k # 1 => k - 1 \in 1 .. N) /\ (k # N + 1 => k \in 1 .. N) /\ (k = 1 /\ k = N + 1 => N = 0)
    <3> HIDE DEF N, k
    <3> QED  BY <1>1, <1>2
  <2> QED
    BY <1>1, <2>1 DEF Before, At
<1> DEFINE m == CreateNode(l, n, d, q, p)
           s1 == SetNext(m, p, n)
           s2 == SetPrev(s1, q, n)
           h == IF p = NULL THEN n ELSE s2.head
           t == IF q = NULL THEN n ELSE s2.tail
           r == WithHeadTail(s2, h, t)
<1>6. InsertedSorted(l, n, d) = r
  <2> HIDE DEF p, q
  <2> QED
    BY <1>3, <1>4, Zenon DEF InsertedSorted, WithHeadTail, Passed
<1> HIDE DEF passed, k, p, q
<1>7. /\ WellFormed(m) /\ Live(m) = Live(l) \cup {n}
      /\ \A x \in Live(m) : /\ m.data[x] = IF x = n THEN d ELSE l.data[x]
                            /\ m.next[x] = IF x = n THEN q ELSE l.next[x]
                            /\ m.prev[x] = IF x = n THEN p ELSE l.prev[x]
      /\ m.head = l.head /\ m.tail = l.tail /\ m.num_items = l.num_items + 1
  BY <1>1, CreateNodeFields
<1> HIDE DEF m
<1>8. /\ WellFormed(s1) /\ Live(s1) = Live(m) /\ s1.data = m.data /\ s1.prev = m.prev
      /\ \A x \in Live(s1) : s1.next[x] = IF x = p THEN n ELSE m.next[x]
      /\ s1.head = l.head /\ s1.tail = l.tail /\ s1.num_items = l.num_items + 1
  <2>1. p \in Live(m) \cup {NULL} /\ NULL \notin Live(m)
    BY <1>1, <1>5, <1>7
  <2> QED
    BY <1>7, <2>1, SetNextFields
<1> HIDE DEF s1
<1>9. /\ WellFormed(s2) /\ Live(s2) = Live(m) /\ s2.data = m.data /\ s2.next = s1.next
      /\ \A x \in Live(s2) : s2.prev[x] = IF x = q THEN n ELSE s1.prev[x]
      /\ s2.head = l.head /\ s2.tail = l.tail /\ s2.num_items = l.num_items + 1
  <2>1. q \in Live(s1) \cup {NULL} /\ NULL \notin Live(s1)
    BY <1>1, <1>5, <1>7, <1>8
  <2> QED
    BY <1>8, <2>1, SetPrevFields
<1> HIDE DEF s2
<1>10. SameLinks(s2, r) /\ r.head = h /\ r.tail = t /\ r.num_items = s2.num_items
  <2> HIDE DEF h, t
  <2> QED  BY <1>9, WithHeadTailFields
<1> HIDE DEF r
<1>11. p # n /\ q # n
  BY <1>1, <1>5
<1>12. IsInsertion(l, r, n, d, p, q)
  BY <1>1, <1>7, <1>8, <1>9, <1>10, <1>11 DEF IsInsertion, SameLinks
<1> QED
  BY <1>2, <1>6, <1>12 DEF p, q
-----------------------------------------------------------------------------
(***************************************************************************)
(* The operations, by what they do to the sequence of elements.            *)
(***************************************************************************)
LEMMA InsertionItems ==
  ASSUME NEW l, NEW c, Linked(l, c), NEW n \in Nodes \ Live(l), NEW d \in Data,
         NEW k \in 1 .. Len(c) + 1, NEW l2, IsInsertion(l, l2, n, d, Before(c, k), At(c, k))
  PROVE  Items(l2) = InsertAt(Items(l), k, d)
<1> DEFINE N == Len(c)
           c2 == InsertAt(c, k, n)
           s == Items(l)
           s2 == Items(l2)
           t == InsertAt(s, k, d)
<1>1. /\ N \in Nat /\ k \in 1 .. N + 1 /\ s \in Seq(Data) /\ Len(s) = N
      /\ \A i \in 1 .. N : s[i] = l.data[c[i]] /\ c[i] \in Live(l) /\ c[i] # n
      /\ c \in Seq(Live(l) \cup {n})
  <2>1. c \in Seq(Live(l)) /\ \A i \in 1 .. Len(c) : c[i] \in Live(l)
    BY LinkedProperties DEF Linked
  <2>2. c \in Seq(Live(l) \cup {n})
    BY <2>1, LenProperties
  <2> QED
    BY <2>1, <2>2, LinkedItems
<1>2. /\ t \in Seq(Data) /\ Len(t) = N + 1
      /\ \A j \in 1 .. N + 1 : t[j] = IF j < k THEN s[j] ELSE IF j = k THEN d ELSE s[j - 1]
  <2> HIDE DEF s, N
  <2>1. /\ t \in Seq(Data) /\ Len(t) = Len(s) + 1
        /\ \A j \in 1 .. Len(s) + 1 :
             t[j] = IF j < k THEN s[j] ELSE IF j = k THEN d ELSE s[j - 1]
    <3>1. s \in Seq(Data) /\ d \in Data /\ k \in 1 .. Len(s) + 1 /\ Len(s) \in Nat
      BY <1>1
    <3>2. /\ InsertAt(s, k, d) \in Seq(Data)
          /\ Len(InsertAt(s, k, d)) = Len(s) + 1
          /\ \A j \in 1 .. Len(s) + 1 :
               InsertAt(s, k, d)[j] = IF j < k THEN s[j] ELSE IF j = k THEN d ELSE s[j - 1]
      BY <3>1, InsertAtProperties
    <3> QED
      BY <3>2
  <2> QED
    BY <1>1, <2>1
<1>3. /\ Len(c2) = N + 1
      /\ \A j \in 1 .. N + 1 : c2[j] = IF j < k THEN c[j] ELSE IF j = k THEN n ELSE c[j - 1]
  <2> PICK S : S = Live(l) \cup {n}
    OBVIOUS
  <2>1. c \in Seq(S) /\ n \in S /\ k \in 1 .. Len(c) + 1 /\ Len(c) \in Nat
    BY <1>1
  <2>2. /\ InsertAt(c, k, n) \in Seq(S)
        /\ Len(InsertAt(c, k, n)) = Len(c) + 1
        /\ \A j \in 1 .. Len(c) + 1 :
             InsertAt(c, k, n)[j] = IF j < k THEN c[j] ELSE IF j = k THEN n ELSE c[j - 1]
    BY <2>1, InsertAtProperties
  <2> QED
    BY <2>2
<1> HIDE DEF c2, t, s
<1>4. s2 \in Seq(Data) /\ Len(s2) = N + 1 /\ \A i \in 1 .. N + 1 : s2[i] = l2.data[c2[i]]
  <2>1. Linked(l2, c2)
    BY InsertionLinked DEF c2
  <2> QED
    BY <1>3, <2>1, LinkedItems
<1> HIDE DEF s2, N
<1>5. l2.data[n] = d /\ \A x \in Live(l) : x # n => l2.data[x] = l.data[x]
  BY DEF IsInsertion
<1>6. ASSUME NEW j \in 1 .. N + 1
      PROVE  s2[j] = t[j]
  <2>1. CASE j < k
    <3>1. j \in 1 .. N
      BY <1>1, <2>1
    <3>2. c2[j] = c[j] /\ t[j] = s[j]
      BY <1>2, <1>3, <2>1
    <3>3. s[j] = l.data[c[j]] /\ c[j] \in Live(l) /\ c[j] # n
      BY <1>1, <3>1
    <3> QED
      BY <1>4, <1>5, <3>2, <3>3
  <2>2. CASE j = k
    BY <1>1, <1>2, <1>3, <1>4, <1>5, <2>2
  <2>3. CASE j > k
    <3>1. j - 1 \in 1 .. N /\ ~(j < k) /\ j # k
      BY <1>1, <2>3
    <3>2. c2[j] = c[j - 1] /\ t[j] = s[j - 1]
      BY <1>2, <1>3, <3>1
    <3>3. s[j - 1] = l.data[c[j - 1]] /\ c[j - 1] \in Live(l) /\ c[j - 1] # n
      BY <1>1, <3>1
    <3> QED
      BY <1>4, <1>5, <3>2, <3>3
  <2> QED
    BY <1>1, <2>1, <2>2, <2>3
<1>7. s2 = t
  BY <1>2, <1>4, <1>6, SeqEqual
<1> QED
  BY <1>7 DEF s2, s, t

LEMMA DeletionItems ==
  ASSUME NEW l, NEW c, Linked(l, c), HeadFirst(l), NEW k \in 1 .. Len(c),
         NEW l2, IsDeletion(l, l2, c[k])
  PROVE  Items(l2) = RemoveAt(Items(l), k)
<1> DEFINE N == Len(c)
           c2 == RemoveAt(c, k)
           s == Items(l)
           s2 == Items(l2)
           t == RemoveAt(s, k)
<1>1. /\ N \in Nat /\ k \in 1 .. N /\ s \in Seq(Data) /\ Len(s) = N /\ DOMAIN s = 1 .. N
      /\ \A i \in 1 .. N : s[i] = l.data[c[i]] /\ c[i] \in Live(l)
      /\ \A i, j \in 1 .. N : c[i] = c[j] => i = j
      /\ c \in Seq(Live(l)) /\ DOMAIN c = 1 .. N
  BY LinkedProperties, LinkedItems DEF Linked
<1>2. /\ t \in Seq(Data) /\ Len(t) = N - 1
      /\ \A j \in 1 .. N - 1 : t[j] = IF j < k THEN s[j] ELSE s[j + 1]
  <2> HIDE DEF s, N
  <2>1. /\ t \in Seq(Data) /\ Len(t) = Len(s) - 1
        /\ \A j \in 1 .. Len(s) - 1 : t[j] = IF j < k THEN s[j] ELSE s[j + 1]
    <3>1. s \in Seq(Data) /\ k \in DOMAIN s /\ k \in 1 .. Len(s) /\ Len(s) \in Nat
      BY <1>1
    <3> QED
      BY <3>1, RemoveAtProperties
  <2> QED
    BY <1>1, <2>1
<1>3. /\ Len(c2) = N - 1
      /\ \A j \in 1 .. N - 1 : c2[j] = IF j < k THEN c[j] ELSE c[j + 1]
  <2>1. c \in Seq(Live(l)) /\ k \in DOMAIN c /\ k \in 1 .. Len(c) /\ Len(c) \in Nat
    BY <1>1
  <2> QED
    BY <2>1, RemoveAtProperties
<1> HIDE DEF c2, t, s
<1>4. s2 \in Seq(Data) /\ Len(s2) = N - 1 /\ \A i \in 1 .. N - 1 : s2[i] = l2.data[c2[i]]
  <2>1. Linked(l2, c2)
    BY DeletionLinked DEF c2
  <2> QED
    BY <1>3, <2>1, LinkedItems
<1> HIDE DEF s2, N
<1>5. \A j \in 1 .. N : j # k => l2.data[c[j]] = l.data[c[j]]
  BY <1>1 DEF IsDeletion
<1>6. ASSUME NEW j \in 1 .. N - 1
      PROVE  s2[j] = t[j]
  <2>1. /\ j < k => j \in 1 .. N /\ j # k
        /\ ~(j < k) => j + 1 \in 1 .. N /\ j + 1 # k
    BY <1>1
  <2> PICK m : m = IF j < k THEN j ELSE j + 1
    OBVIOUS
  <2>2. m \in 1 .. N /\ m # k /\ c2[j] = c[m] /\ t[j] = s[m]
    BY <1>2, <1>3, <2>1
  <2>3. s[m] = l.data[c[m]]
    BY <1>1, <2>2
  <2> QED
    BY <1>4, <1>5, <2>2, <2>3
<1>7. s2 = t
  BY <1>2, <1>4, <1>6, SeqEqual
<1> QED
  BY <1>7 DEF s2, s, t

LEMMA DequeuedItems ==
  ASSUME NEW l, NEW c, Linked(l, c), l.head # NULL
  PROVE  Items(l) # <<>> /\ Items(Dequeued(l)) = Tail(Items(l))
<1> DEFINE N == Len(c)
           l2 == Dequeued(l)
           c2 == Tail(c)
           s == Items(l)
           s2 == Items(l2)
           t == Tail(s)
<1>1. /\ N \in Nat /\ N # 0 /\ s \in Seq(Data) /\ Len(s) = N /\ s # <<>>
      /\ \A i \in 1 .. N : s[i] = l.data[c[i]] /\ c[i] \in Live(l)
      /\ \A i, j \in 1 .. N : c[i] = c[j] => i = j
      /\ c \in Seq(Live(l)) /\ c # <<>> /\ Linked(l2, c2)
  <2>1. Linked(l2, c2) /\ N # 0
    BY DequeuedLinked
  <2>2. s \in Seq(Data) /\ Len(s) = N /\ \A i \in 1 .. N : s[i] = l.data[c[i]]
    BY LinkedItems
  <2>3. /\ N \in Nat /\ c \in Seq(Live(l)) /\ \A i \in 1 .. N : c[i] \in Live(l)
        /\ \A i, j \in 1 .. N : c[i] = c[j] => i = j
    BY LinkedProperties DEF Linked
  <2>4. s # <<>> /\ c # <<>>
    BY <2>1, <2>2, <2>3, EmptySeq
  <2> QED
    BY <2>1, <2>2, <2>3, <2>4
<1> HIDE DEF l2, s, N
<1>2. /\ t \in Seq(Data) /\ Len(t) = N - 1
      /\ \A j \in 1 .. N - 1 : t[j] = s[j + 1]
  BY <1>1, HeadTailProperties
<1>3. /\ Len(c2) = N - 1
      /\ \A j \in 1 .. N - 1 : c2[j] = c[j + 1]
  BY <1>1, HeadTailProperties DEF N
<1> HIDE DEF c2, t
<1>4. s2 \in Seq(Data) /\ Len(s2) = N - 1 /\ \A i \in 1 .. N - 1 : s2[i] = l2.data[c2[i]]
  BY <1>1, <1>3, LinkedItems
<1> HIDE DEF s2
<1>5. \A j \in 1 .. N - 1 : c2[j] \in Live(l2)
  BY <1>1, <1>3, LinkedProperties
<1>6. \A x \in Live(l2) : l2.data[x] = l.data[x]
  <2> DEFINE q == l.next[l.head]
             e == WithEnds(l, q, IF q = NULL THEN NULL ELSE l.tail, l.num_items - 1)
  <2>1. l2 = Free(e, {l.head})
    BY Zenon DEF l2, Dequeued, WithEnds
  <2>2. WellFormed(l)
    BY DEF Linked
  <2>3. SameLinks(l, e)
    BY <2>2, WithEndsFields
  <2> HIDE DEF e
  <2>4. \A x \in Live(Free(e, {l.head})) : Free(e, {l.head}).data[x] = e.data[x]
    BY <2>3, FreeFields DEF SameLinks
  <2> QED
    BY <2>1, <2>3, <2>4 DEF SameLinks
<1>7. ASSUME NEW j \in 1 .. N - 1
      PROVE  s2[j] = t[j]
  <2>1. j + 1 \in 1 .. N
    BY <1>1
  <2>2. c2[j] = c[j + 1] /\ t[j] = s[j + 1]
    BY <1>2, <1>3
  <2>3. s[j + 1] = l.data[c[j + 1]]
    BY <1>1, <2>1
  <2> QED
    BY <1>4, <1>5, <1>6, <2>2, <2>3
<1>8. s2 = t
  BY <1>2, <1>4, <1>7, SeqEqual
<1> QED
  BY <1>1, <1>8 DEF s2, s, t, l2

LEMMA InsertAtEnd ==
  ASSUME NEW S, NEW s \in Seq(S), NEW e \in S
  PROVE  InsertAt(s, Len(s) + 1, e) = Append(s, e)
<1> DEFINE t == InsertAt(s, Len(s) + 1, e)
           u == Append(s, e)
<1>1. Len(s) \in Nat /\ Len(s) + 1 \in 1 .. Len(s) + 1
  BY LenProperties
<1>2. /\ t \in Seq(S) /\ Len(t) = Len(s) + 1
      /\ \A j \in 1 .. Len(s) + 1 :
           t[j] = IF j < Len(s) + 1 THEN s[j] ELSE IF j = Len(s) + 1 THEN e ELSE s[j - 1]
  BY <1>1, InsertAtProperties
<1>3. /\ u \in Seq(S) /\ Len(u) = Len(s) + 1 /\ u[Len(s) + 1] = e
      /\ \A j \in 1 .. Len(s) : u[j] = s[j]
  BY AppendProperties
<1> HIDE DEF t, u
<1>4. ASSUME NEW j \in 1 .. Len(s) + 1
      PROVE  t[j] = u[j]
  <2>1. CASE j = Len(s) + 1
    BY <1>1, <1>2, <1>3, <2>1
  <2>2. CASE j # Len(s) + 1
    <3>1. j \in 1 .. Len(s) /\ j < Len(s) + 1
      BY <1>1, <2>2
    <3> QED
      BY <1>2, <1>3, <3>1
  <2> QED
    BY <2>1, <2>2
<1>5. t = u
  BY <1>2, <1>3, <1>4, SeqEqual
<1> QED
  BY <1>5 DEF t, u

(* The place of a node in the list, or 0; Position is that of curr. *)
PositionOf(l, x) == IF x = NULL THEN 0 ELSE CHOOSE i \in DOMAIN Chain(l) : Chain(l)[i] = x

LEMMA PositionProperties ==
  ASSUME NEW l, NEW c, Linked(l, c)
  PROVE  /\ PositionOf(l, NULL) = 0
         /\ \A k \in 1 .. Len(c) : PositionOf(l, c[k]) = k
<1>1. /\ Chain(l) = c /\ DOMAIN c = 1 .. Len(c) /\ Len(c) \in Nat
      /\ \A i \in 1 .. Len(c) : c[i] # NULL
      /\ \A i, j \in 1 .. Len(c) : c[i] = c[j] => i = j
  BY LinkedChain, LinkedProperties
<1> QED
  BY <1>1 DEF PositionOf

(***************************************************************************)
(* A list that nothing is in.                                              *)
(***************************************************************************)
LEMMA EmptyLinked ==
  ASSUME NEW l, WellFormed(l), Live(l) = {}, l.head = NULL, l.tail = NULL, l.num_items = 0
  PROVE  Linked(l, <<>>) /\ HeadFirst(l) /\ Items(l) = <<>>
<1>1. Len(<<>>) = 0 /\ <<>> \in Seq(Live(l)) /\ DOMAIN <<>> = {} /\ 1 .. 0 = {}
  OBVIOUS
<1>2. Linked(l, <<>>)
  BY <1>1 DEF Linked, InOrder, IsInjective
<1>3. Items(l) = <<>>
  BY <1>1, <1>2, LinkedItems, EmptySeq
<1> QED
  BY <1>2, <1>3 DEF HeadFirst

LEMMA InitList == Linked(EmptyList, <<>>) /\ HeadFirst(EmptyList) /\ Items(EmptyList) = <<>>
<1>1. /\ WellFormed(EmptyList) /\ Live(EmptyList) = {} /\ EmptyList.head = NULL
      /\ EmptyList.tail = NULL /\ EmptyList.num_items = 0
  BY DEF EmptyList, WellFormed, Live
<1> QED
  BY <1>1, EmptyLinked

LEMMA FreedList ==
  ASSUME NEW l, NEW c, Linked(l, c)
  PROVE  LET m == [Free(l, Range(Chain(l))) EXCEPT !.head = NULL, !.tail = NULL, !.num_items = 0]
         IN  Linked(m, <<>>) /\ HeadFirst(m) /\ Items(m) = <<>>
<1> DEFINE f == Free(l, Range(Chain(l)))
           m == WithEnds(f, NULL, NULL, 0)
<1>1. Range(Chain(l)) = Live(l)
  <2>1. Chain(l) = c /\ DOMAIN c = 1 .. Len(c) /\ \A i \in 1 .. Len(c) : c[i] \in Live(l)
    BY LinkedChain, LinkedProperties
  <2> QED
    BY <2>1 DEF Range, Linked
<1>2. WellFormed(f) /\ Live(f) = {}
  BY <1>1, FreeFields DEF Linked
<1> HIDE DEF f
<1>3. /\ WellFormed(m) /\ Live(m) = {} /\ m.head = NULL /\ m.tail = NULL /\ m.num_items = 0
  BY <1>2, WithEndsFields DEF SameLinks
<1> HIDE DEF m
<1>4. Linked(m, <<>>) /\ HeadFirst(m) /\ Items(m) = <<>>
  BY <1>3, EmptyLinked
<1>5. m = [f EXCEPT !.head = NULL, !.tail = NULL, !.num_items = 0]
  BY Zenon DEF m, WithEnds
<1> QED
  BY <1>4, <1>5, Zenon DEF f
-----------------------------------------------------------------------------
(***************************************************************************)
(* One lemma for each action: it keeps the invariant, and it is a step of  *)
(* the sequence.                                                           *)
(***************************************************************************)
LEMMA PositionIs == Position = PositionOf(list, curr)
  BY DEF Position, PositionOf

LEMMA EnqueueStep ==
  ASSUME IInv, NEW d \in Data, Enqueue(d)
  PROVE  IInv' /\ Sequence!Enqueue(d)
<1> PICK c : c = Chain(list)
  OBVIOUS
<1>1. PICK n \in Nodes \ Live(list) : list' = Enqueued(list, n, d)
  BY DEF Enqueue
<1>2. Linked(list, c) /\ (usage # "queue" => HeadFirst(list)) /\ curr = NULL
      /\ usage' = usage /\ curr' = curr /\ usage \in {"queue", "input"}
  BY DEF IInv, Enqueue
<1> DEFINE k == Len(c) + 1
<1>3. Len(c) \in Nat /\ k \in 1 .. Len(c) + 1 /\ (k = 1 <=> Len(c) = 0) /\ k - 1 = Len(c)
  BY <1>2, LinkedProperties
<1>4. IsInsertion(list, list', n, d, Before(c, k), At(c, k))
  <2>1. IsInsertion(list, list', n, d, list.tail, NULL)
    BY <1>1, <1>2, EnqueuedInserts
  <2>2. list.tail = Before(c, k) /\ At(c, k) = NULL
    BY <1>2, <1>3 DEF Linked, Before, At
  <2> QED
    BY <2>1, <2>2
<1>5. Linked(list', InsertAt(c, k, n)) /\ (HeadFirst(list) => HeadFirst(list'))
  BY <1>2, <1>3, <1>4, InsertionLinked
<1>6. Linked(list', Chain(list'))
  BY <1>5, LinkedChain
<1>7. IInv'
  BY <1>2, <1>5, <1>6 DEF IInv
<1>8. Items(list') = Append(Items(list), d)
  <2>1. Items(list) \in Seq(Data) /\ Len(Items(list)) = Len(c)
    BY <1>2, LinkedItems
  <2>2. Items(list') = InsertAt(Items(list), k, d)
    BY <1>2, <1>3, <1>4, InsertionItems
  <2> QED
    BY <2>1, <2>2, InsertAtEnd
<1>9. PositionOf(list, curr) = 0 /\ PositionOf(list', curr') = 0
  BY <1>2 DEF PositionOf
<1>10. Position = 0 /\ Position' = Position
  BY <1>9 DEF Position, PositionOf
<1> QED
  BY <1>7, <1>8, <1>10 DEF Sequence!Enqueue

LEMMA DequeueStep ==
  ASSUME IInv, Dequeue
  PROVE  IInv' /\ Sequence!Dequeue
<1> PICK c : c = Chain(list)
  OBVIOUS
<1>1. /\ Linked(list, c) /\ list.head # NULL /\ list' = Dequeued(list)
      /\ usage = "queue" /\ usage' = usage /\ curr = NULL /\ curr' = curr
  BY DEF IInv, Dequeue
<1>2. Linked(list', Tail(c))
  BY <1>1, DequeuedLinked
<1>3. Linked(list', Chain(list'))
  BY <1>2, LinkedChain
<1>4. IInv'
  BY <1>1, <1>3 DEF IInv
<1>5. Items(list) # <<>> /\ Items(list') = Tail(Items(list))
  BY <1>1, DequeuedItems
<1>6. Position' = Position
  BY <1>1 DEF Position
<1> QED
  BY <1>4, <1>5, <1>6 DEF Sequence!Dequeue

LEMMA InsertSortedStep ==
  ASSUME IInv, NEW d \in Data, InsertSorted(d)
  PROVE  IInv' /\ Sequence!InsertSorted(d)
<1> PICK c : c = Chain(list)
  OBVIOUS
<1>1. PICK n \in Nodes \ Live(list) : list' = InsertedSorted(list, n, d)
  BY DEF InsertSorted
<1>2. Linked(list, c) /\ usage = "holes" /\ HeadFirst(list) /\ curr = NULL
      /\ usage' = usage /\ curr' = curr
  BY DEF IInv, InsertSorted
<1>3. PICK k \in 1 .. Len(c) + 1 :
        /\ IsInsertion(list, list', n, d, Before(c, k), At(c, k))
        /\ \A j \in 1 .. k - 1 : Smaller(list.data[c[j]], d)
        /\ k <= Len(c) => ~Smaller(list.data[c[k]], d)
  BY <1>1, <1>2, InsertedSortedInserts
<1>4. Linked(list', InsertAt(c, k, n)) /\ HeadFirst(list')
  BY <1>2, <1>3, InsertionLinked
<1>5. Linked(list', Chain(list'))
  BY <1>4, LinkedChain
<1>6. IInv'
  BY <1>2, <1>4, <1>5 DEF IInv
<1>7. /\ Items(list) \in Seq(Data) /\ Len(Items(list)) = Len(c) /\ Len(c) \in Nat
      /\ \A i \in 1 .. Len(c) : Items(list)[i] = list.data[c[i]]
      /\ \A i \in 1 .. Len(c) : Items(list)[i] \in Data
  BY <1>2, LinkedItems, ElementOfSeq
<1>8. Items(list') = InsertAt(Items(list), k, d)
  BY <1>2, <1>3, InsertionItems
<1>9. \A j \in 1 .. k - 1 : Key[Items(list)[j]] < Key[d]
  <2>1. \A j \in 1 .. k - 1 : j \in 1 .. Len(c)
    BY <1>7
  <2> QED
    BY <1>3, <1>7, <2>1 DEF Smaller
<1>10. ASSUME k <= Len(c)
       PROVE  Key[Items(list)[k]] >= Key[d]
  <2>1. k \in 1 .. Len(c)
    BY <1>7, <1>10
  <2>2. ~(Key[Items(list)[k]] < Key[d])
    BY <1>3, <1>7, <1>10, <2>1 DEF Smaller
  <2>3. Key[Items(list)[k]] \in Nat /\ Key[d] \in Nat
    BY <1>7, <2>1, KeyAssumption
  <2> QED
    BY <2>2, <2>3
<1>11. Position' = Position
  BY <1>2 DEF Position
<1>12. k \in 1 .. Len(Items(list)) + 1
  BY <1>7
<1> QED
  <2>1. Items(list') = Sequence!InsertAt(Items(list), k, d)
    BY <1>8 DEF Sequence!InsertAt, InsertAt
  <2>2. Sequence!InsertSorted(d)
    BY <1>7, <1>9, <1>10, <1>11, <1>12, <2>1 DEF Sequence!InsertSorted
  <2> QED
    BY <1>6, <2>2

(* What Delete and Take have in common. *)
Deletes(l, c, k, n, l2) ==
  /\ Linked(l, c) /\ HeadFirst(l)
  /\ k \in 1 .. Len(c) /\ n = c[k]
  /\ l2 = Free(Deleted(l, n), {n})

LEMMA DeletionStep ==
  ASSUME NEW l, NEW c, NEW k, NEW n, NEW l2, Deletes(l, c, k, n, l2)
  PROVE  /\ Linked(l2, RemoveAt(c, k)) /\ Linked(l2, Chain(l2)) /\ HeadFirst(l2)
         /\ Items(l2) = RemoveAt(Items(l), k)
         /\ Deleted(l, n).next[n] = IF k = Len(c) THEN NULL ELSE c[k + 1]
<1>1. /\ Linked(l, c) /\ HeadFirst(l) /\ k \in 1 .. Len(c) /\ n = c[k]
      /\ l2 = Free(Deleted(l, n), {n})
  BY DEF Deletes
<1>2. IsDeletion(l, l2, c[k]) /\ Deleted(l, n).next[n] = l.next[c[k]]
  BY <1>1, DeletedDeletes
<1>3. Linked(l2, RemoveAt(c, k)) /\ HeadFirst(l2)
  BY <1>1, <1>2, DeletionLinked
<1>4. Linked(l2, Chain(l2))
  BY <1>3, LinkedChain
<1>5. Items(l2) = RemoveAt(Items(l), k)
  BY <1>1, <1>2, DeletionItems
<1>6. l.next[c[k]] = IF k = Len(c) THEN NULL ELSE c[k + 1]
  BY <1>1, LinkedEnds
<1> QED
  BY <1>2, <1>3, <1>4, <1>5, <1>6

LEMMA DeleteStep ==
  ASSUME IInv, NEW d \in Data, Delete(d)
  PROVE  IInv' /\ \E i \in DOMAIN Items(list) : Sequence!Delete(i)
<1> PICK c : c = Chain(list)
  OBVIOUS
<1> PICK l, l2 : l = list /\ l2 = list'
  OBVIOUS
<1>1. Linked(l, c) /\ usage = "holes" /\ HeadFirst(l) /\ curr = NULL
      /\ usage' = usage /\ curr' = curr
  BY DEF IInv, Delete
<1>2. DOMAIN c = 1 .. Len(c) /\ DOMAIN Items(l) = 1 .. Len(c)
  BY <1>1, LinkedProperties, LinkedItems
<1>3. \E i \in DOMAIN c : l2 = Free(Deleted(l, c[i]), {c[i]})
  BY DEF Delete
<1>4. PICK k, n : k \in 1 .. Len(c) /\ n = c[k] /\ l2 = Free(Deleted(l, n), {n})
  BY <1>2, <1>3
<1>5. Linked(l2, Chain(l2)) /\ HeadFirst(l2) /\ Items(l2) = RemoveAt(Items(l), k)
  <2>1. Deletes(l, c, k, n, l2)
    BY <1>1, <1>4 DEF Deletes
  <2> QED
    BY <2>1, DeletionStep
<1>6. IInv'
  BY <1>1, <1>5 DEF IInv
<1>7. Position = 0 /\ Position' = Position
  BY <1>1 DEF Position
<1>8. Sequence!Delete(k)
  BY <1>5, <1>7 DEF Sequence!Delete, Sequence!RemoveAt, RemoveAt
<1> QED
  BY <1>2, <1>4, <1>6, <1>8

(* Where the pass stands. *)
LEMMA PassPosition ==
  ASSUME IInv
  PROVE  /\ curr = NULL => Position = 0
         /\ curr # NULL => /\ Position \in 1 .. Len(Chain(list))
                           /\ curr = Chain(list)[Position]
                           /\ usage = "input" /\ HeadFirst(list)
<1> PICK c : c = Chain(list)
  OBVIOUS
<1>1. Linked(list, c) /\ curr \in Live(list) \cup {NULL}
      /\ (curr # NULL => usage = "input" /\ HeadFirst(list))
  BY DEF IInv
<1>2. PositionOf(list, NULL) = 0 /\ \A k \in 1 .. Len(c) : PositionOf(list, c[k]) = k
  BY <1>1, PositionProperties
<1>3. ASSUME curr # NULL
      PROVE  Position \in 1 .. Len(c) /\ curr = c[Position]
  <2>1. PICK k \in 1 .. Len(c) : c[k] = curr
    BY <1>1, <1>3 DEF Linked
  <2> QED
    BY <1>2, <2>1, PositionIs
<1> QED
  BY <1>1, <1>2, <1>3, PositionIs

LEMMA StartPassStep ==
  ASSUME IInv, StartPass
  PROVE  IInv' /\ Sequence!StartPass
<1> PICK c : c = Chain(list)
  OBVIOUS
<1>1. Linked(list, c) /\ list.head # NULL /\ curr = NULL /\ curr' = list.head
      /\ list' = list /\ usage' = usage /\ usage = "input"
  BY DEF IInv, StartPass
<1>2. /\ list.head = c[1] /\ c[1] \in Live(list) /\ 1 \in 1 .. Len(c)
      /\ Items(list) # <<>>
  <2>1. Len(c) \in Nat /\ Len(c) # 0 /\ list.head = c[1]
    BY <1>1, LinkedProperties DEF Linked
  <2>2. 1 \in 1 .. Len(c)
    BY <2>1
  <2> QED
    BY <1>1, <2>1, <2>2, LinkedProperties, LinkedItems, EmptySeq
<1>3. IInv'
  BY <1>1, <1>2 DEF IInv
<1>4. PositionOf(list, c[1]) = 1
  BY <1>1, <1>2, PositionProperties
<1>5. Position = 0 /\ Position' = 1
  <2>1. Position' = PositionOf(list', curr')
    BY DEF Position, PositionOf
  <2> QED
    BY <1>1, <1>2, <1>4, <2>1 DEF Position
<1>6. Items(list') = Items(list)
  BY <1>1
<1> QED
  BY <1>2, <1>3, <1>5, <1>6 DEF Sequence!StartPass

LEMMA SkipStep ==
  ASSUME IInv, Skip
  PROVE  IInv' /\ Sequence!Skip
<1> PICK c : c = Chain(list)
  OBVIOUS
<1> PICK k : k = Position
  OBVIOUS
<1>1. Linked(list, c) /\ curr # NULL /\ curr' = list.next[curr]
      /\ list' = list /\ usage' = usage
  BY DEF IInv, Skip
<1>2. k \in 1 .. Len(c) /\ curr = c[k] /\ usage = "input"
  BY <1>1, PassPosition
<1>3. curr' = IF k = Len(c) THEN NULL ELSE c[k + 1]
  BY <1>1, <1>2, LinkedEnds
<1>4. /\ Len(c) \in Nat /\ (k # Len(c) => k + 1 \in 1 .. Len(c)) /\ k > 0
      /\ \A i \in 1 .. Len(c) : c[i] \in Live(list)
  BY <1>1, <1>2, LinkedProperties
<1>5. IInv'
  BY <1>1, <1>2, <1>3, <1>4 DEF IInv
<1>6. /\ PositionOf(list, NULL) = 0
      /\ \A i \in 1 .. Len(c) : PositionOf(list, c[i]) = i
  BY <1>1, PositionProperties
<1>7. Position' = IF k = Len(c) THEN 0 ELSE k + 1
  <2>1. Position' = PositionOf(list', curr')
    BY DEF Position, PositionOf
  <2> QED
    BY <1>1, <1>3, <1>4, <1>6, <2>1
<1>8. Len(Items(list)) = Len(c) /\ Items(list') = Items(list)
  BY <1>1, LinkedItems
<1> QED
  BY <1>4, <1>5, <1>7, <1>8 DEF Sequence!Skip

LEMMA TakeStep ==
  ASSUME IInv, Take
  PROVE  IInv' /\ Sequence!Take
<1> PICK c : c = Chain(list)
  OBVIOUS
<1> PICK k : k = Position
  OBVIOUS
<1> PICK l, l2 : l = list /\ l2 = list'
  OBVIOUS
<1>1. /\ Linked(l, c) /\ curr # NULL /\ usage' = usage
      /\ l2 = Free(Deleted(l, curr), {curr}) /\ curr' = Deleted(l, curr).next[curr]
  BY DEF IInv, Take
<1>2. k \in 1 .. Len(c) /\ curr = c[k] /\ usage = "input" /\ HeadFirst(l)
  BY <1>1, PassPosition
<1> PICK n : n = c[k]
  OBVIOUS
<1>3. Deletes(l, c, k, n, l2)
  BY <1>1, <1>2 DEF Deletes
<1>4. /\ Linked(l2, RemoveAt(c, k)) /\ Linked(l2, Chain(l2)) /\ HeadFirst(l2)
      /\ Items(l2) = RemoveAt(Items(l), k)
      /\ Deleted(l, n).next[n] = IF k = Len(c) THEN NULL ELSE c[k + 1]
  BY <1>3, DeletionStep
<1>5. curr' = IF k = Len(c) THEN NULL ELSE c[k + 1]
  BY <1>1, <1>2, <1>4
<1> DEFINE c2 == RemoveAt(c, k)
<1>6. /\ Len(c) \in Nat /\ c \in Seq(Live(l)) /\ k \in DOMAIN c
      /\ k # Len(c) => k \in 1 .. Len(c) - 1 /\ ~(k < k)
  BY <1>1, <1>2, LinkedProperties DEF Linked
<1>7. Len(c2) = Len(c) - 1 /\ (k # Len(c) => k \in 1 .. Len(c2) /\ c2[k] = c[k + 1])
  <2>1. /\ Len(c2) = Len(c) - 1
        /\ \A j \in 1 .. Len(c) - 1 : c2[j] = IF j < k THEN c[j] ELSE c[j + 1]
    BY <1>2, <1>6, RemoveAtProperties
  <2> QED
    BY <1>6, <2>1
<1> HIDE DEF c2
<1>8. Linked(l2, c2)
  BY <1>4 DEF c2
<1>9. curr' = IF k = Len(c) THEN NULL ELSE c2[k]
  BY <1>5, <1>7
<1>10. curr' \in Live(l2) \cup {NULL}
  BY <1>7, <1>8, <1>9, LinkedProperties
<1>11. IInv'
  BY <1>1, <1>2, <1>4, <1>10 DEF IInv
<1>12. Position' = IF k = Len(c) THEN 0 ELSE k
  <2>1. Position' = PositionOf(list', curr')
    BY DEF Position, PositionOf
  <2>2. PositionOf(l2, NULL) = 0 /\ \A i \in 1 .. Len(c2) : PositionOf(l2, c2[i]) = i
    BY <1>8, PositionProperties
  <2> QED
    BY <1>7, <1>9, <2>1, <2>2
<1>13. Len(Items(list)) = Len(c) /\ k > 0
  BY <1>1, <1>2, <1>6, LinkedItems
<1>14. Items(list') = Sequence!RemoveAt(Items(list), k)
  BY <1>4 DEF Sequence!RemoveAt, RemoveAt
<1> QED
  BY <1>11, <1>12, <1>13, <1>14 DEF Sequence!Take

LEMMA FreeListStep ==
  ASSUME IInv, FreeList
  PROVE  IInv' /\ Sequence!FreeList
<1> PICK c : c = Chain(list)
  OBVIOUS
<1> PICK l, l2 : l = list /\ l2 = list'
  OBVIOUS
<1>1. /\ Linked(l, c) /\ usage' = "freed" /\ curr = NULL /\ curr' = curr
      /\ l2 = [Free(l, Range(Chain(l))) EXCEPT !.head = NULL, !.tail = NULL, !.num_items = 0]
  BY Zenon DEF IInv, FreeList
<1>2. Linked(l2, <<>>) /\ HeadFirst(l2) /\ Items(l2) = <<>>
  BY <1>1, FreedList, Zenon
<1>3. Linked(l2, Chain(l2))
  BY <1>2, LinkedChain
<1>4. IInv'
  BY <1>1, <1>2, <1>3 DEF IInv
<1>5. Position = 0 /\ Position' = Position
  BY <1>1 DEF Position
<1> QED
  BY <1>2, <1>4, <1>5 DEF Sequence!FreeList
-----------------------------------------------------------------------------
(***************************************************************************)
(* The theorems.                                                           *)
(***************************************************************************)
LEMMA InitStep ==
  ASSUME Init
  PROVE  IInv /\ Sequence!Init
<1>1. list = EmptyList /\ curr = NULL /\ usage \in {"queue", "input", "holes"}
  BY DEF Init
<1>2. Linked(list, <<>>) /\ HeadFirst(list) /\ Items(list) = <<>>
  BY <1>1, InitList
<1>3. Linked(list, Chain(list))
  BY <1>2, LinkedChain
<1> QED
  BY <1>1, <1>2, <1>3 DEF IInv, Sequence!Init, Position

LEMMA NextStep ==
  ASSUME IInv, [Next]_vars
  PROVE  IInv' /\ [Sequence!Next]_(Sequence!vars)
<1>1. ASSUME NEW d \in Data, Enqueue(d)
      PROVE  IInv' /\ Sequence!Next
  BY <1>1, EnqueueStep DEF Sequence!Next
<1>2. ASSUME NEW d \in Data, InsertSorted(d)
      PROVE  IInv' /\ Sequence!Next
  BY <1>2, InsertSortedStep DEF Sequence!Next
<1>3. ASSUME NEW d \in Data, Delete(d)
      PROVE  IInv' /\ Sequence!Next
  BY <1>3, DeleteStep DEF Sequence!Next
<1>4. CASE Dequeue
  BY <1>4, DequeueStep DEF Sequence!Next
<1>5. CASE StartPass
  BY <1>5, StartPassStep DEF Sequence!Next
<1>6. CASE Skip
  BY <1>6, SkipStep DEF Sequence!Next
<1>7. CASE Take
  BY <1>7, TakeStep DEF Sequence!Next
<1>8. CASE FreeList
  BY <1>8, FreeListStep DEF Sequence!Next
<1>9. CASE UNCHANGED vars
  BY <1>9 DEF vars, IInv, Position, Sequence!vars
<1>10. \A d \in Fresh : d \in Data
  BY DEF Fresh
<1> QED
  BY <1>1, <1>2, <1>3, <1>4, <1>5, <1>6, <1>7, <1>8, <1>9, <1>10 DEF Next

(* In every reachable state the list is a chain of its allocated nodes. *)
THEOREM InductiveInvariant == Spec => []IInv
<1>1. Init => IInv
  BY InitStep
<1>2. IInv /\ [Next]_vars => IInv'
  BY NextStep
<1> QED
  BY <1>1, <1>2, PTL DEF Spec

(* The links of the list lead to its nodes, in every reachable state, and  *)
(* so does the pass of allocate_memory(): it stands on no freed node.      *)
THEOREM TypeCorrect == Spec => []TypeOK
<1>1. IInv => TypeOK
  <2> SUFFICES ASSUME IInv
               PROVE  TypeOK
    OBVIOUS
  <2> PICK c : c = Chain(list)
    OBVIOUS
  <2>1. Linked(list, c) /\ usage \in {"queue", "input", "holes", "freed"}
        /\ curr \in Live(list) \cup {NULL}
    BY DEF IInv
  <2>2. /\ Len(c) \in Nat /\ \A i \in 1 .. Len(c) : c[i] \in Live(list)
        /\ \A x \in Live(list) : \E i \in 1 .. Len(c) : c[i] = x
        /\ Live(list) \subseteq Nodes /\ list.num_items \in Nat
    <3>1. Len(c) \in Nat /\ \A i \in 1 .. Len(c) : c[i] \in Live(list)
      BY <2>1, LinkedProperties
    <3>2. /\ \A x \in Live(list) : \E i \in 1 .. Len(c) : c[i] = x
          /\ Live(list) \subseteq Nodes /\ list.num_items = Len(c)
      BY <2>1 DEF Linked
    <3> QED
      BY <3>1, <3>2
  <2>3. /\ list.head \in Live(list) \cup {NULL} /\ list.tail \in Live(list) \cup {NULL}
        /\ \A i \in 1 .. Len(c) :
             /\ list.data[c[i]] \in Data
             /\ list.next[c[i]] = IF i = Len(c) THEN NULL ELSE c[i + 1]
    BY <2>1, LinkedEnds
  <2>4. \A i \in 1 .. Len(c) : i # Len(c) => i + 1 \in 1 .. Len(c)
    BY <2>2
  <2>5. ASSUME NEW x \in Live(list)
        PROVE  list.data[x] \in Data /\ list.next[x] \in Live(list) \cup {NULL}
    BY <2>2, <2>3, <2>4
  <2>6. /\ list.data = [x \in Live(list) |-> list.data[x]]
        /\ list.next = [x \in Live(list) |-> list.next[x]]
    BY <2>1 DEF Linked, WellFormed
  <2>7. list.data \in [Live(list) -> Data] /\ list.next \in [Live(list) -> Live(list) \cup {NULL}]
    BY <2>5, <2>6
  <2> QED
    BY <2>1, <2>2, <2>3, <2>7 DEF TypeOK
<1> QED
  BY <1>1, InductiveInvariant, PTL

(* No element is lost and none is linked twice: the walk from the head     *)
(* meets every node once and ends at the tail, num_items is their number,  *)
(* and the links to the left agree with those to the right.                *)
THEOREM LinksCorrect == Spec => []LinksAgree
<1>1. IInv => LinksAgree
  <2> SUFFICES ASSUME IInv
               PROVE  LinksAgree
    OBVIOUS
  <2> PICK c : c = Chain(list)
    OBVIOUS
  <2>1. Linked(list, c) /\ (usage # "queue" => HeadFirst(list))
    BY DEF IInv
  <2>2. /\ Len(c) \in Nat /\ DOMAIN c = 1 .. Len(c)
        /\ \A i \in 1 .. Len(c) : c[i] \in Live(list) /\ c[i] # NULL
        /\ \A i, j \in 1 .. Len(c) : c[i] = c[j] => i = j
        /\ c \in Seq(Live(list))
    <3>1. c \in Seq(Live(list))
      BY <2>1 DEF Linked
    <3> QED
      BY <2>1, <3>1, LinkedProperties
  <2>3. /\ \A x \in Live(list) : \E i \in 1 .. Len(c) : c[i] = x
        /\ IsInjective(c) /\ list.num_items = Len(c)
        /\ list.tail = IF Len(c) = 0 THEN NULL ELSE c[Len(c)]
        /\ \A i \in 1 .. Len(c) :
             /\ list.next[c[i]] = IF i = Len(c) THEN NULL ELSE c[i + 1]
             /\ i > 1 => list.prev[c[i]] = c[i - 1]
    BY <2>1 DEF Linked, InOrder
  <2>4. (c = <<>> <=> Len(c) = 0) /\ Last(c) = c[Len(c)] /\ (Len(c) # 0 => Len(c) \in 1 .. Len(c))
    BY <2>2, EmptySeq DEF Last
  <2>5. Range(c) = Live(list)
    <3>1. /\ DOMAIN c = 1 .. Len(c) /\ \A i \in 1 .. Len(c) : c[i] \in Live(list)
          /\ \A x \in Live(list) : \E i \in 1 .. Len(c) : c[i] = x
      BY <2>2, <2>3
    <3> QED
      BY <3>1, Zenon DEF Range
  <2>6. WalkMeetsAll
    BY <2>3, <2>4, <2>5 DEF WalkMeetsAll
  <2>7. ASSUME NEW x \in Live(list), list.next[x] # NULL
        PROVE  list.prev[list.next[x]] = x
    <3>1. PICK i \in 1 .. Len(c) : c[i] = x
      BY <2>3
    <3>2. list.next[x] = c[i + 1]
      BY <2>3, <2>7, <3>1
    <3>3. i # Len(c) /\ Len(c) \in Nat
      BY <2>2, <2>3, <2>7, <3>1
    <3>4. i + 1 \in 1 .. Len(c) /\ i + 1 > 1 /\ (i + 1) - 1 = i
      BY <3>3
    <3> QED
      BY <2>3, <3>1, <3>2, <3>4
  <2> QED
    BY <2>1, <2>6, <2>7 DEF LinksAgree, HeadFirst
<1> QED
  BY <1>1, InductiveInvariant, PTL

(* linked_list.c implements a sequence: each call has the effect on the    *)
(* elements that it has on sequences, and the pass of allocate_memory()    *)
(* looks at each element once although it frees nodes as it goes.          *)
THEOREM Implementation == Spec => ImplementsSequence
<1>1. Init => Sequence!Init
  BY InitStep
<1>2. IInv /\ [Next]_vars => [Sequence!Next]_(Sequence!vars)
  BY NextStep
<1> QED
  BY <1>1, <1>2, InductiveInvariant, PTL DEF Spec, ImplementsSequence, Sequence!Spec

(* What the pass of allocate_memory() has still to look at, and that each  *)
(* of its turns looks at one element, taken out or not: every process that *)
(* waits is tried once, the pass ends, and nothing else is done to the     *)
(* list meanwhile.                                                         *)
ToLookAt == IF Position = 0 THEN 0 ELSE Len(Items(list)) + 1 - Position
PassProceeds == [][curr # NULL => ToLookAt' = ToLookAt - 1]_vars

(* curr is an element of the list, if there is a pass. *)
InPass ==
  /\ Len(Items(list)) \in Nat
  /\ curr = NULL => Position = 0
  /\ curr # NULL => Position \in 1 .. Len(Items(list)) /\ usage = "input"

(* The loop of allocate_memory() ends, although it deletes and frees the   *)
(* nodes it stands on.                                                     *)
THEOREM PassesEnd == Spec => [](ToLookAt \in Nat) /\ PassProceeds
<1>1. IInv => InPass
  <2> SUFFICES ASSUME IInv PROVE InPass
    OBVIOUS
  <2>1. Linked(list, Chain(list))
    BY DEF IInv
  <2>2. Len(Items(list)) = Len(Chain(list)) /\ Len(Chain(list)) \in Nat
    BY <2>1, LinkedItems, LinkedProperties
  <2> QED
    BY <2>2, PassPosition DEF InPass
<1>2. InPass => ToLookAt \in Nat
  BY DEF InPass, ToLookAt
<1>3. ASSUME IInv, InPass, InPass', Next, curr # NULL
      PROVE  ToLookAt' = ToLookAt - 1
  <2>1. Position \in 1 .. Len(Items(list)) /\ usage = "input" /\ Len(Items(list)) \in Nat
    BY <1>3 DEF InPass
  <2>2. Sequence!Skip \/ Sequence!Take
    <3>1. Skip \/ Take
      BY <1>3, <2>1 DEF Next, Enqueue, InsertSorted, Delete, Dequeue, StartPass, FreeList
    <3> QED
      BY <1>3, <3>1, SkipStep, TakeStep
  <2> PICK k, s, k2, s2 : k = Position /\ s = Items(list) /\ k2 = Position' /\ s2 = Items(list)'
    OBVIOUS
  <2>3. k \in 1 .. Len(s) /\ Len(s) \in Nat
    BY <2>1
  <2>4. k2 = 0 \/ k2 \in 1 .. Len(s2)
    BY <1>3 DEF InPass
  <2>5. CASE Sequence!Skip
    <3>1. s2 = s /\ k2 = IF k = Len(s) THEN 0 ELSE k + 1
      BY <2>5 DEF Sequence!Skip
    <3> QED
      BY <2>3, <3>1 DEF ToLookAt
  <2>6. CASE Sequence!Take
    <3>1. s2 = Sequence!RemoveAt(s, k) /\ k2 = IF k = Len(s) THEN 0 ELSE k
      BY <2>6 DEF Sequence!Take
    <3>2. Len(s2) = Len(s) - 1
      <4>1. s \in Seq(Data)
        BY <1>3, LinkedItems DEF IInv
      <4>2. s2 = RemoveAt(s, k)
        BY <3>1 DEF Sequence!RemoveAt, RemoveAt
      <4> QED
        BY <2>3, <4>1, <4>2, RemoveAtProperties
    <3> QED
      BY <2>3, <3>1, <3>2 DEF ToLookAt
  <2> QED
    BY <2>2, <2>5, <2>6
<1>4. IInv /\ InPass /\ InPass' /\ [Next]_vars => [curr # NULL => ToLookAt' = ToLookAt - 1]_vars
  BY <1>3
<1> QED
  BY <1>1, <1>2, <1>4, InductiveInvariant, PTL DEF Spec, PassProceeds
=============================================================================
