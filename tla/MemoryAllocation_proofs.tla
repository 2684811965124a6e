----------------------- MODULE MemoryAllocation_proofs -----------------------
(***************************************************************************)
(* Proofs about MemoryAllocation, for every number of processes, nodes and *)
(* cells.                                                                  *)
(***************************************************************************)
EXTENDS MemoryAllocation, SequenceLemmas, SequenceTheorems, TLAPS

(***************************************************************************)
(* The memory list, node by node.  MemoryType(m) says that m has the type  *)
(* TypeOK gives `memory`; what the operations return is a record of        *)
(* functions (WellFormed), and the type follows from its values.           *)
(***************************************************************************)
BlockType == [type : {"HOLE", "PROCESS"}, start_address : Nat, size : Nat]

MemoryType(m) ==
  m \in [block : [Live(m) -> BlockType],
         next  : [Live(m) -> Live(m) \cup {NULL}],
         prev  : [Live(m) -> Live(m) \cup {NULL}],
         head  : Live(m),
         tail  : Live(m)]

WellFormed(m) ==
  m = [block |-> [x \in Live(m) |-> m.block[x]],
       next  |-> [x \in Live(m) |-> m.next[x]],
       prev  |-> [x \in Live(m) |-> m.prev[x]],
       head  |-> m.head,
       tail  |-> m.tail]

NodesTyped(m) ==
  /\ m.head \in Live(m)
  /\ m.tail \in Live(m)
  /\ \A x \in Live(m) : /\ m.block[x] \in BlockType
                        /\ m.next[x] \in Live(m) \cup {NULL}
                        /\ m.prev[x] \in Live(m) \cup {NULL}

LEMMA TypedNodeByNode ==
  ASSUME NEW m
  PROVE  MemoryType(m) <=> WellFormed(m) /\ NodesTyped(m)
<1>1. ASSUME MemoryType(m)
      PROVE  WellFormed(m) /\ NodesTyped(m)
  BY <1>1 DEF MemoryType, WellFormed, NodesTyped
<1>2. ASSUME WellFormed(m), NodesTyped(m)
      PROVE  MemoryType(m)
  BY <1>2 DEF MemoryType, WellFormed, NodesTyped
<1> QED
  BY <1>1, <1>2

LEMMA DeleteNodeFields ==
  ASSUME NEW m, NEW n
  PROVE  LET d == DeleteNode(m, n) IN
         /\ WellFormed(d)
         /\ Live(d) = Live(m) \ {n}
         /\ d.head = IF m.head = n THEN m.next[n] ELSE m.head
         /\ d.tail = IF m.tail = n THEN m.prev[n] ELSE m.tail
         /\ \A x \in Live(d) :
              /\ d.block[x] = m.block[x]
              /\ d.next[x] = IF x = m.prev[n] THEN m.next[n] ELSE m.next[x]
              /\ d.prev[x] = IF x = m.next[n] THEN m.prev[n] ELSE m.prev[x]
BY DEF DeleteNode, Live, WellFormed

LEMMA InsertNodeFields ==
  ASSUME NEW m, NEW n, NEW b, NEW p, NEW q
  PROVE  LET d == InsertNode(m, n, b, p, q) IN
         /\ WellFormed(d)
         /\ Live(d) = Live(m) \cup {n}
         /\ d.head = IF p = NULL THEN n ELSE m.head
         /\ d.tail = IF q = NULL THEN n ELSE m.tail
         /\ \A x \in Live(d) :
              /\ d.block[x] = IF x = n THEN b ELSE m.block[x]
              /\ d.next[x] = IF x = n THEN q ELSE IF x = p THEN n ELSE m.next[x]
              /\ d.prev[x] = IF x = n THEN p ELSE IF x = q THEN n ELSE m.prev[x]
BY DEF InsertNode, Live, WellFormed

LEMMA SetBlockFields ==
  ASSUME NEW m, MemoryType(m), NEW n \in Live(m), NEW b
  PROVE  LET d == SetBlock(m, n, b) IN
         /\ WellFormed(d)
         /\ Live(d) = Live(m)
         /\ d.next = m.next /\ d.prev = m.prev /\ d.head = m.head /\ d.tail = m.tail
         /\ \A x \in Live(d) : d.block[x] = IF x = n THEN b ELSE m.block[x]
BY DEF SetBlock, Live, MemoryType, WellFormed
-----------------------------------------------------------------------------
(***************************************************************************)
(* The inductive invariant.  None of its conjuncts is inductive alone: the *)
(* blocks stay a partition because the list is in address order, the list  *)
(* does because only holes are merged and split, and those are found       *)
(* through the hole list and the processes' block_node.                    *)
(***************************************************************************)
IInv ==
  /\ TypeOK
  /\ ListInAddressOrder
  /\ BlocksPartitionMemory
  /\ BlocksOwned
  /\ HoleListExact
  /\ Coalesced

(* The types of the fields, node by node. *)
LEMMA Typing ==
  ASSUME TypeOK
  PROVE  /\ MemoryType(memory)
         /\ NodesTyped(memory)
         /\ memory.head \in Live(memory) /\ memory.tail \in Live(memory)
         /\ NULL \notin Live(memory)
         /\ \A x \in Live(memory) :
              /\ x \in Nodes
              /\ memory.block[x] \in BlockType
              /\ memory.block[x].type \in {"HOLE", "PROCESS"}
              /\ memory.block[x].start_address \in Nat
              /\ memory.block[x].size \in Nat
              /\ memory.next[x] \in Live(memory) \cup {NULL}
              /\ memory.prev[x] \in Live(memory) \cup {NULL}
         /\ Len(holes) \in Nat /\ DOMAIN holes = 1 .. Len(holes)
         /\ \A i \in 1 .. Len(holes) : holes[i] \in Live(memory)
         /\ DOMAIN block_node = Procs
         /\ \A p \in Procs : block_node[p] \in Live(memory) \cup {NULL}
<1>1. MemoryType(memory)
  BY DEF TypeOK, MemoryType, BlockType, Pointer
<1>2. NodesTyped(memory)
  BY <1>1, TypedNodeByNode
<1>3. /\ Live(memory) \subseteq Nodes
      /\ holes \in Seq(Live(memory))
      /\ block_node \in [Procs -> Live(memory) \cup {NULL}]
  BY DEF TypeOK, Pointer
<1>4. NULL \notin Live(memory)
  BY <1>3, NullAssumption
<1> HIDE DEF Live
<1> QED
  BY <1>1, <1>2, <1>3, <1>4 DEF NodesTyped, BlockType

(* The links of a list in address order, node by node. *)
LEMMA Links ==
  ASSUME TypeOK, ListInAddressOrder, NEW x \in Live(memory)
  PROVE  /\ memory.next[x] # NULL =>
              /\ memory.next[x] \in Live(memory)
              /\ memory.prev[memory.next[x]] = x
              /\ memory.block[memory.next[x]].start_address
                   = memory.block[x].start_address + memory.block[x].size
         /\ memory.prev[x] # NULL =>
              /\ memory.prev[x] \in Live(memory)
              /\ memory.next[memory.prev[x]] = x
              /\ memory.block[memory.prev[x]].start_address
                   + memory.block[memory.prev[x]].size = memory.block[x].start_address
         /\ memory.next[x] = NULL <=> x = memory.tail
         /\ memory.prev[x] = NULL <=> x = memory.head
<1>1. /\ memory.next[x] \in Live(memory) \cup {NULL}
      /\ memory.prev[x] \in Live(memory) \cup {NULL}
  BY Typing
<1> QED
  BY <1>1 DEF ListInAddressOrder, Start, End, Size

(* TypeOK after a step, put together again. *)
LEMMA TypeOKFromParts ==
  ASSUME Live(memory') \subseteq Nodes,
         WellFormed(memory'),
         NodesTyped(memory'),
         holes' \in Seq(Live(memory')),
         block_node' \in [Procs -> Live(memory') \cup {NULL}],
         freeing' \in Procs \cup {NULL},
         direction' \in {"next", "prev"}
  PROVE  TypeOK'
<1>1. MemoryType(memory')
  BY TypedNodeByNode
<1> QED
  BY <1>1 DEF TypeOK, MemoryType, BlockType, Pointer
-----------------------------------------------------------------------------
LEMMA InitIInv == Init => IInv
<1> SUFFICES ASSUME Init PROVE IInv
  OBVIOUS
<1> DEFINE n == Malloc({})
           b == Block("HOLE", 0, MEM_CAPACITY)
<1>1. n \in Nodes /\ n # NULL
  BY NodesAssumption, NullAssumption DEF Malloc
<1>2. MEM_CAPACITY \in Nat /\ MEM_CAPACITY > 0
  BY CapacityAssumption
<1>3. /\ memory = [block |-> [x \in {n} |-> b], next  |-> [x \in {n} |-> NULL],
                   prev  |-> [x \in {n} |-> NULL], head  |-> n, tail  |-> n]
      /\ holes = <<n>>
      /\ block_node = [p \in Procs |-> NULL]
      /\ freeing = NULL
      /\ direction = "next"
  BY DEF Init
<1> HIDE DEF n
<1>4. Live(memory) = {n}
  BY <1>3 DEF Live
<1>5. /\ WellFormed(memory)
      /\ memory.head = n /\ memory.tail = n
      /\ memory.next[n] = NULL /\ memory.prev[n] = NULL
      /\ memory.block[n] = b
  BY <1>3, <1>4 DEF WellFormed
<1>6. b \in BlockType /\ b.type = "HOLE" /\ b.start_address = 0 /\ b.size = MEM_CAPACITY
  BY <1>2 DEF Block, BlockType
<1> HIDE DEF b
<1>7. TypeOK
  <2>1. NodesTyped(memory)
    BY <1>4, <1>5, <1>6 DEF NodesTyped
  <2> QED
    BY <1>1, <1>3, <1>4, <1>5, <2>1, TypedNodeByNode
       DEF TypeOK, MemoryType, BlockType, Pointer
<1>8. ListInAddressOrder
  BY <1>1, <1>2, <1>4, <1>5, <1>6 DEF ListInAddressOrder, Start, End, Size
<1>9. BlocksPartitionMemory
  BY <1>2, <1>4, <1>5, <1>6 DEF BlocksPartitionMemory, Start, End, Size
<1>10. BlocksOwned
  BY <1>3, <1>4, <1>5, <1>6 DEF BlocksOwned, IsHole
<1>11. HoleListExact
  BY <1>3, <1>4, <1>5, <1>6 DEF HoleListExact, IsHole, InFlight
<1>12. Coalesced
  BY <1>1, <1>2, <1>4, <1>5, <1>6 DEF Coalesced, Size
<1> QED
  BY <1>7, <1>8, <1>9, <1>10, <1>11, <1>12 DEF IInv
-----------------------------------------------------------------------------
(***************************************************************************)
(* The hole list.  Sorted is the first conjunct of HoleListExact.          *)
(***************************************************************************)
Sorted(m, h) ==
  \A i, j \in DOMAIN h : i < j => h[i] # h[j] /\ Size(m, h[i]) <= Size(m, h[j])

Listed(h, n) == \E i \in DOMAIN h : h[i] = n

LEMMA RemoveHole ==
  ASSUME NEW S, NEW m, NEW h \in Seq(S), Sorted(m, h), NEW i \in DOMAIN h
  PROVE  /\ RemoveAt(h, i) \in Seq(S)
         /\ RemoveAt(h, i) \in Seq(S \ {h[i]})
         /\ Sorted(m, RemoveAt(h, i))
         /\ \A n : Listed(RemoveAt(h, i), n) <=> Listed(h, n) /\ n # h[i]
<1> DEFINE r == RemoveAt(h, i)
<1>1. /\ r \in Seq(S)
      /\ Len(r) = Len(h) - 1
      /\ \A j \in 1 .. Len(h) - 1 : r[j] = IF j < i THEN h[j] ELSE h[j + 1]
  BY RemoveAtProperties
<1>2. i \in 1 .. Len(h) /\ Len(h) \in Nat /\ DOMAIN h = 1 .. Len(h)
  OBVIOUS
<1> HIDE DEF r
<1>3. DOMAIN r = 1 .. Len(h) - 1
  BY <1>1
<1>4. ASSUME NEW j \in 1 .. Len(h) - 1
      PROVE  r[j] # h[i]
  <2>1. CASE j < i
    <3>1. j \in DOMAIN h /\ i \in DOMAIN h
      BY <1>2
    <3> QED
      BY <2>1, <3>1, <1>1 DEF Sorted
  <2>2. CASE ~(j < i)
    <3>1. j + 1 \in DOMAIN h /\ i \in DOMAIN h /\ i < j + 1
      BY <2>2, <1>2
    <3> QED
      BY <2>2, <3>1, <1>1 DEF Sorted
  <2> QED
    BY <2>1, <2>2
<1>5. r \in Seq(S \ {h[i]})
  BY <1>1, <1>2, <1>4
<1>6. Sorted(m, r)
  <2> DEFINE at(j) == IF j < i THEN j ELSE j + 1
  <2>1. \A j \in 1 .. Len(h) - 1 : at(j) \in 1 .. Len(h) /\ r[j] = h[at(j)]
    BY <1>1, <1>2
  <2>2. \A a, b \in 1 .. Len(h) - 1 : a < b => at(a) < at(b)
    BY <1>2
  <2> HIDE DEF at
  <2>3. ASSUME NEW a \in DOMAIN r, NEW c \in DOMAIN r, a < c
        PROVE  r[a] # r[c] /\ Size(m, r[a]) <= Size(m, r[c])
    <3>1. a \in 1 .. Len(h) - 1 /\ c \in 1 .. Len(h) - 1
      BY <1>3
    <3>2. /\ at(a) \in DOMAIN h /\ at(c) \in DOMAIN h /\ at(a) < at(c)
          /\ r[a] = h[at(a)] /\ r[c] = h[at(c)]
      BY <3>1, <2>1, <2>2, <2>3, <1>2
    <3> QED
      BY <3>2 DEF Sorted
  <2> QED
    BY <2>3 DEF Sorted
<1>7. ASSUME NEW n
      PROVE  Listed(r, n) <=> Listed(h, n) /\ n # h[i]
  <2>1. ASSUME Listed(r, n)
        PROVE  Listed(h, n) /\ n # h[i]
    <3>1. PICK j \in 1 .. Len(h) - 1 : r[j] = n
      BY <2>1, <1>3 DEF Listed
    <3>2. \E k \in 1 .. Len(h) : h[k] = n
      <4>1. r[j] = IF j < i THEN h[j] ELSE h[j + 1]
        BY <1>1
      <4>2. j \in 1 .. Len(h) /\ j + 1 \in 1 .. Len(h)
        BY <1>2
      <4> QED
        BY <3>1, <4>1, <4>2
    <3> QED
      BY <3>1, <3>2, <1>2, <1>4 DEF Listed
  <2>2. ASSUME NEW j \in 1 .. Len(h), h[j] = n, n # h[i]
        PROVE  Listed(r, n)
    <3>1. CASE j < i
      BY <2>2, <3>1, <1>1, <1>2, <1>3 DEF Listed
    <3>2. CASE j > i
      <4>1. j - 1 \in 1 .. Len(h) - 1 /\ ~(j - 1 < i) /\ (j - 1) + 1 = j
        BY <3>2, <1>2
      <4> QED
        BY <4>1, <2>2, <1>1, <1>3 DEF Listed
    <3>3. j # i
      BY <2>2
    <3> QED
      BY <3>1, <3>2, <3>3, <1>2
  <2> QED
    BY <2>1, <2>2, <1>2 DEF Listed
<1> QED
  BY <1>1, <1>5, <1>6, <1>7 DEF r

LEMMA InsertHole ==
  ASSUME NEW S, NEW m, NEW h \in Seq(S), NEW n \in S, NEW h2,
         \A x \in S : Size(m, x) \in Nat,
         Sorted(m, h), ~Listed(h, n), InsertSorted(m, h, n, h2)
  PROVE  /\ h2 \in Seq(S)
         /\ Sorted(m, h2)
         /\ \A x : Listed(h2, x) <=> Listed(h, x) \/ x = n
<1>1. PICK k \in 1 .. Len(h) + 1 :
        /\ \A j \in 1 .. k - 1 : Size(m, h[j]) < Size(m, n)
        /\ k <= Len(h) => Size(m, h[k]) >= Size(m, n)
        /\ h2 = InsertAt(h, k, n)
  BY DEF InsertSorted
<1>2. /\ h2 \in Seq(S)
      /\ Len(h2) = Len(h) + 1
      /\ \A j \in 1 .. Len(h) + 1 :
           h2[j] = IF j < k THEN h[j] ELSE IF j = k THEN n ELSE h[j - 1]
  <2>1. /\ InsertAt(h, k, n) \in Seq(S)
        /\ Len(InsertAt(h, k, n)) = Len(h) + 1
        /\ \A j \in 1 .. Len(h) + 1 :
             InsertAt(h, k, n)[j] = IF j < k THEN h[j] ELSE IF j = k THEN n ELSE h[j - 1]
    BY InsertAtProperties
  <2> QED
    BY <1>1, <2>1
<1>3. Len(h) \in Nat /\ DOMAIN h = 1 .. Len(h) /\ DOMAIN h2 = 1 .. Len(h) + 1
  BY <1>2
<1>4. \A j \in 1 .. Len(h) : h[j] \in S /\ h[j] # n /\ Size(m, h[j]) \in Nat
  BY <1>3 DEF Listed
<1>5. Size(m, n) \in Nat
  OBVIOUS
<1>6. \A j \in 1 .. Len(h) : j >= k => Size(m, h[j]) >= Size(m, n)
  BY <1>1, <1>3, <1>4, <1>5 DEF Sorted
<1>7. k \in 1 .. Len(h) + 1 /\ h2[k] = n
  BY <1>2, <1>3
(* The hole at j of h2 was at at(j) of h, unless it is the new one. *)
<1> DEFINE at(j) == IF j < k THEN j ELSE j - 1
<1>8. \A j \in 1 .. Len(h) + 1 :
        j # k => at(j) \in 1 .. Len(h) /\ h2[j] = h[at(j)] /\ (j < k <=> at(j) < k)
  BY <1>2, <1>3, <1>7
<1>9. \A a, b \in 1 .. Len(h) + 1 : a # k /\ b # k /\ a < b => at(a) < at(b)
  BY <1>3, <1>7
<1>10. \A j \in 1 .. Len(h) : \E a \in 1 .. Len(h) + 1 : a # k /\ at(a) = j
  <2> SUFFICES ASSUME NEW j \in 1 .. Len(h)
               PROVE  \E a \in 1 .. Len(h) + 1 : a # k /\ at(a) = j
    OBVIOUS
  <2>1. CASE j < k
    BY <2>1, <1>3, <1>7
  <2>2. CASE ~(j < k)
    <3>1. j + 1 \in 1 .. Len(h) + 1 /\ j + 1 # k /\ at(j + 1) = j
      BY <2>2, <1>3, <1>7
    <3> QED
      BY <3>1
  <2> QED
    BY <2>1, <2>2
<1> HIDE DEF at
<1>11. Sorted(m, h2)
  <2> SUFFICES ASSUME NEW i \in 1 .. Len(h) + 1, NEW j \in 1 .. Len(h) + 1, i < j
               PROVE  h2[i] # h2[j] /\ Size(m, h2[i]) <= Size(m, h2[j])
    BY <1>3 DEF Sorted
  <2>1. CASE i # k /\ j # k
    <3>1. at(i) \in DOMAIN h /\ at(j) \in DOMAIN h /\ at(i) < at(j)
      BY <2>1, <1>3, <1>8, <1>9
    <3> QED
      BY <3>1, <2>1, <1>8 DEF Sorted
  <2>2. CASE j = k
    <3>1. i < k /\ at(i) < k /\ at(i) \in 1 .. Len(h) /\ h2[i] = h[at(i)] /\ i # k
      BY <2>2, <1>7, <1>8
    <3>2. at(i) \in 1 .. k - 1
      BY <3>1, <1>3, <1>7
    <3>3. Size(m, h[at(i)]) < Size(m, n) /\ h[at(i)] # n /\ Size(m, h[at(i)]) \in Nat
      BY <3>1, <3>2, <1>1, <1>4
    <3> QED
      BY <3>1, <3>3, <2>2, <1>5, <1>7
  <2>3. CASE i = k
    <3>1. j # k /\ ~(j < k)
      BY <2>3, <1>3, <1>7
    <3>2. at(j) \in 1 .. Len(h) /\ h2[j] = h[at(j)] /\ at(j) >= k
      BY <3>1, <1>3, <1>7, <1>8
    <3> QED
      BY <3>2, <2>3, <1>4, <1>5, <1>6, <1>7
  <2> QED
    BY <2>1, <2>2, <2>3
<1>12. ASSUME NEW x
       PROVE  Listed(h2, x) <=> Listed(h, x) \/ x = n
  <2>1. ASSUME NEW j \in 1 .. Len(h) + 1, h2[j] = x
        PROVE  Listed(h, x) \/ x = n
    BY <2>1, <1>3, <1>7, <1>8 DEF Listed
  <2>2. ASSUME NEW j \in 1 .. Len(h), h[j] = x
        PROVE  Listed(h2, x)
    BY <2>2, <1>3, <1>8, <1>10 DEF Listed
  <2>3. Listed(h2, n)
    BY <1>3, <1>7 DEF Listed
  <2> QED
    BY <2>1, <2>2, <2>3, <1>3 DEF Listed
<1> QED
  BY <1>2, <1>11, <1>12
-----------------------------------------------------------------------------
(* Deallocate changes the type of one block and starts the merging.        *)
LEMMA DeallocateIInv ==
  ASSUME IInv, NEW p \in Procs, Deallocate(p)
  PROVE  IInv'
<1> DEFINE n == block_node[p]
           b == memory.block[n]
           hole == Block("HOLE", b.start_address, b.size)
<1>1. /\ TypeOK /\ ListInAddressOrder /\ BlocksPartitionMemory
      /\ BlocksOwned /\ HoleListExact /\ Coalesced
  BY DEF IInv
<1>2. /\ freeing = NULL /\ n # NULL
      /\ memory' = SetBlock(memory, n, hole)
      /\ freeing' = p /\ direction' = "next"
      /\ holes' = holes /\ block_node' = block_node
  BY DEF Deallocate
<1>3. n \in Live(memory)
  BY <1>1, <1>2, Typing
<1>4. ~IsHole(n)
  BY <1>1, <1>2, NullAssumption DEF BlocksOwned
<1>5. hole \in BlockType /\ hole.type = "HOLE"
      /\ hole.start_address = b.start_address /\ hole.size = b.size
  BY <1>1, <1>3, Typing DEF Block, BlockType
<1> HIDE DEF hole
<1>6. /\ WellFormed(memory') /\ Live(memory') = Live(memory)
      /\ memory'.next = memory.next /\ memory'.prev = memory.prev
      /\ memory'.head = memory.head /\ memory'.tail = memory.tail
      /\ \A x \in Live(memory) : memory'.block[x] = IF x = n THEN hole ELSE memory.block[x]
  <2>1. MemoryType(memory)
    BY <1>1, Typing
  <2> QED
    BY <1>2, <1>3, <2>1, SetBlockFields
<1>7. \A x \in Live(memory) :
        /\ memory'.block[x].start_address = memory.block[x].start_address
        /\ memory'.block[x].size = memory.block[x].size
        /\ memory'.block[x].type = IF x = n THEN "HOLE" ELSE memory.block[x].type
  BY <1>5, <1>6
<1> HIDE DEF n, b
<1>8. TypeOK'
  <2>1. NodesTyped(memory')
    BY <1>1, <1>5, <1>6, Typing DEF NodesTyped
  <2>2. Live(memory) \subseteq Nodes /\ holes \in Seq(Live(memory))
        /\ block_node \in [Procs -> Live(memory) \cup {NULL}]
    BY <1>1 DEF TypeOK, Pointer
  <2> QED
    BY <1>2, <1>6, <2>1, <2>2, TypeOKFromParts
<1>9. ListInAddressOrder'
  <2>1. /\ memory'.block[memory.head].start_address = 0
        /\ memory'.block[memory.tail].start_address
             + memory'.block[memory.tail].size = MEM_CAPACITY
    BY <1>1, <1>7, Typing DEF ListInAddressOrder, Start, End, Size
  <2>2. ASSUME NEW x \in Live(memory)
        PROVE  /\ (memory.prev[x] = NULL) <=> (x = memory.head)
               /\ (memory.next[x] = NULL) <=> (x = memory.tail)
               /\ memory.prev[x] # NULL =>
                    /\ memory.next[memory.prev[x]] = x
                    /\ memory'.block[memory.prev[x]].start_address
                         + memory'.block[memory.prev[x]].size = memory'.block[x].start_address
               /\ memory.next[x] # NULL =>
                    /\ memory.prev[memory.next[x]] = x
                    /\ memory'.block[memory.next[x]].start_address
                         = memory'.block[x].start_address + memory'.block[x].size
    <3>1. /\ memory.prev[x] # NULL => memory.prev[x] \in Live(memory)
          /\ memory.next[x] # NULL => memory.next[x] \in Live(memory)
      BY <1>1, Typing
    <3> QED
      BY <3>1, <1>1, <1>7, Links
  <2> QED
    BY <1>6, <2>1, <2>2 DEF ListInAddressOrder, Start, End, Size
<1>10. BlocksPartitionMemory'
  BY <1>1, <1>6, <1>7, Typing DEF BlocksPartitionMemory, Start, End, Size
<1>11. BlocksOwned'
  BY <1>1, <1>2, <1>3, <1>6, <1>7, Typing, NullAssumption DEF BlocksOwned, IsHole, n
<1>12. HoleListExact'
  BY <1>1, <1>2, <1>3, <1>4, <1>6, <1>7, Typing, NullAssumption
     DEF HoleListExact, IsHole, InFlight, Size, n
<1>13. Coalesced'
  BY <1>1, <1>2, <1>3, <1>6, <1>7, Typing, NullAssumption
     DEF Coalesced, IsHole, InFlight, Size, n
<1> QED
  BY <1>8, <1>9, <1>10, <1>11, <1>12, <1>13 DEF IInv
-----------------------------------------------------------------------------
LEMMA HoleList == HoleListExact <=>
  /\ Sorted(memory, holes)
  /\ \A n \in Live(memory) : Listed(holes, n) <=> IsHole(n) /\ ~InFlight(n)
BY DEF HoleListExact, Sorted, Listed

(* The node deallocate_memory() works on, and the neighbour it looks at.   *)
LEMMA Freeing ==
  ASSUME IInv, freeing # NULL
  PROVE  /\ freeing \in Procs
         /\ block_node[freeing] \in Live(memory)
         /\ IsHole(block_node[freeing])
         /\ ~Listed(holes, block_node[freeing])
         /\ direction = "next" => Adjacent = memory.next[block_node[freeing]]
         /\ direction = "prev" => Adjacent = memory.prev[block_node[freeing]]
         /\ direction \in {"next", "prev"}
         /\ Adjacent \in Live(memory) \cup {NULL}
         /\ AdjacentIsHole <=> Adjacent # NULL /\ IsHole(Adjacent)
<1>1. TypeOK /\ BlocksOwned /\ HoleListExact
  BY DEF IInv
<1>2. /\ freeing \in Procs /\ block_node[freeing] # NULL
      /\ block_node[freeing] \in Live(memory)
  BY <1>1, Typing DEF TypeOK, BlocksOwned
<1>3. IsHole(block_node[freeing])
  BY <1>1, <1>2 DEF BlocksOwned
<1>4. ~Listed(holes, block_node[freeing])
  BY <1>1, <1>2, HoleList DEF InFlight
<1>5. direction \in {"next", "prev"}
  BY <1>1 DEF TypeOK
<1>6. /\ direction = "next" => Adjacent = memory.next[block_node[freeing]]
      /\ direction = "prev" => Adjacent = memory.prev[block_node[freeing]]
  BY DEF Adjacent
<1>7. Adjacent \in Live(memory) \cup {NULL}
  BY <1>1, <1>2, <1>5, <1>6, Typing
<1>8. AdjacentIsHole <=> Adjacent # NULL /\ IsHole(Adjacent)
  BY DEF AdjacentIsHole, IsHole
<1> QED
  BY <1>2, <1>3, <1>4, <1>5, <1>6, <1>7, <1>8

(* TurnLeft only records that there is no hole to the right.               *)
LEMMA TurnLeftIInv ==
  ASSUME IInv, TurnLeft
  PROVE  IInv'
<1>1. /\ TypeOK /\ ListInAddressOrder /\ BlocksPartitionMemory
      /\ BlocksOwned /\ HoleListExact /\ Coalesced
  BY DEF IInv
<1>2. /\ freeing # NULL /\ direction = "next" /\ ~AdjacentIsHole
      /\ direction' = "prev"
      /\ memory' = memory /\ holes' = holes
      /\ block_node' = block_node /\ freeing' = freeing
  BY DEF TurnLeft
<1>3. TypeOK'
  BY <1>1, <1>2 DEF TypeOK, Pointer
<1>4. ListInAddressOrder'
  BY <1>1, <1>2 DEF ListInAddressOrder, Start, End, Size
<1>5. BlocksPartitionMemory'
  BY <1>1, <1>2 DEF BlocksPartitionMemory, Start, End, Size
<1>6. BlocksOwned'
  BY <1>1, <1>2 DEF BlocksOwned, IsHole
<1>7. HoleListExact'
  BY <1>1, <1>2 DEF HoleListExact, IsHole, InFlight, Size
<1>8. Coalesced'
  <2>1. ASSUME NEW n \in Live(memory), InFlight(n), memory.next[n] # NULL
        PROVE  ~IsHole(memory.next[n])
    BY <2>1, <1>2, Freeing DEF InFlight
  <2> QED
    BY <1>1, <1>2, <2>1 DEF Coalesced, IsHole, InFlight, Size
<1> QED
  BY <1>3, <1>4, <1>5, <1>6, <1>7, <1>8 DEF IInv

(* EndDeallocate puts the node into the hole list.  There is no hole on    *)
(* its right since it turned left, and none on its left now.               *)
LEMMA EndDeallocateIInv ==
  ASSUME IInv, EndDeallocate
  PROVE  IInv'
<1> DEFINE n == block_node[freeing]
<1>1. /\ TypeOK /\ ListInAddressOrder /\ BlocksPartitionMemory
      /\ BlocksOwned /\ HoleListExact /\ Coalesced
  BY DEF IInv
<1>2. /\ freeing # NULL /\ direction = "prev" /\ ~AdjacentIsHole
      /\ InsertSorted(memory, holes, n, holes')
      /\ block_node' = [block_node EXCEPT ![freeing] = NULL]
      /\ freeing' = NULL /\ direction' = "next" /\ memory' = memory
  BY DEF EndDeallocate
<1>3. /\ freeing \in Procs
      /\ n \in Live(memory) /\ IsHole(n) /\ ~Listed(holes, n)
      /\ Adjacent = memory.prev[n]
      /\ AdjacentIsHole <=> Adjacent # NULL /\ IsHole(Adjacent)
  BY <1>2, Freeing
<1>4. /\ holes' \in Seq(Live(memory))
      /\ Sorted(memory, holes')
      /\ \A x : Listed(holes', x) <=> Listed(holes, x) \/ x = n
  <2>1. holes \in Seq(Live(memory))
    BY <1>1 DEF TypeOK
  <2>2. \A x \in Live(memory) : Size(memory, x) \in Nat
    BY <1>1, Typing DEF Size
  <2>3. Sorted(memory, holes)
    BY <1>1, HoleList
  <2> QED
    BY <1>2, <1>3, <2>1, <2>2, <2>3, InsertHole
<1>5. block_node' \in [Procs -> Live(memory) \cup {NULL}]
      /\ \A q \in Procs : block_node'[q] = IF q = freeing THEN NULL ELSE block_node[q]
  BY <1>1, <1>2, <1>3 DEF TypeOK, Pointer
<1>6. TypeOK'
  BY <1>1, <1>2, <1>4, <1>5 DEF TypeOK, Pointer
<1>7. ListInAddressOrder'
  BY <1>1, <1>2 DEF ListInAddressOrder, Start, End, Size
<1>8. BlocksPartitionMemory'
  BY <1>1, <1>2 DEF BlocksPartitionMemory, Start, End, Size
<1>9. BlocksOwned'
  <2>1. \A q \in Procs : q # freeing /\ block_node[q] # NULL => ~IsHole(block_node[q])
    BY <1>1 DEF BlocksOwned
  <2> QED
    BY <1>1, <1>2, <1>3, <1>5, <2>1, NullAssumption DEF BlocksOwned, IsHole
<1>10. HoleListExact'
  <2>1. \A x \in Live(memory) : Listed(holes', x) <=> IsHole(x)
    BY <1>1, <1>2, <1>3, <1>4, HoleList DEF InFlight
  <2> QED
    BY <1>2, <1>4, <2>1 DEF HoleListExact, Sorted, Listed, IsHole, InFlight, Size
<1>11. Coalesced'
  <2>1. ASSUME NEW x \in Live(memory), memory.next[x] # NULL, IsHole(x),
               IsHole(memory.next[x])
        PROVE  FALSE
    <3>1. memory.next[x] = n
      BY <2>1, <1>1, <1>2 DEF Coalesced, InFlight
    <3>2. memory.prev[n] = x
      BY <2>1, <3>1, <1>1 DEF ListInAddressOrder
    <3> QED
      BY <2>1, <3>2, <1>1, <1>2, <1>3, Typing
  <2> QED
    BY <1>1, <1>2, <2>1 DEF Coalesced, IsHole, InFlight, Size
<1> QED
  BY <1>6, <1>7, <1>8, <1>9, <1>10, <1>11 DEF IInv
-----------------------------------------------------------------------------
(* Merge takes the neighbour adj out of both lists and gives its cells to  *)
(* the block that is being freed.                                          *)
LEMMA MergeIInv ==
  ASSUME IInv, Merge
  PROVE  IInv'
<1> DEFINE main == block_node[freeing]
           adj  == Adjacent
           a    == memory.block[adj]
           b    == memory.block[main]
           low  == IF a.start_address < b.start_address THEN a.start_address
                                                        ELSE b.start_address
           both == Block(b.type, low, b.size + a.size)
           m    == SetBlock(memory, main, both)
<1>1. /\ TypeOK /\ ListInAddressOrder /\ BlocksPartitionMemory
      /\ BlocksOwned /\ HoleListExact /\ Coalesced
  BY DEF IInv
<1>2. /\ freeing # NULL /\ AdjacentIsHole
      /\ block_node' = block_node /\ freeing' = freeing /\ direction' = direction
      /\ memory' = DeleteNode(m, adj)
      /\ \E i \in DOMAIN holes : holes[i] = adj /\ holes' = RemoveAt(holes, i)
  BY DEF Merge, UpdateMemory
<1>3. /\ freeing \in Procs
      /\ main \in Live(memory) /\ IsHole(main) /\ ~Listed(holes, main)
      /\ adj \in Live(memory) /\ IsHole(adj)
      /\ direction = "next" => adj = memory.next[main]
      /\ direction = "prev" => adj = memory.prev[main]
      /\ direction \in {"next", "prev"}
  BY <1>2, Freeing, Typing, <1>1
<1>4. NULL \notin Live(memory)
  BY <1>1, Typing
<1> HIDE DEF main, adj
(* The two nodes and their places in the list *)
<1>5. \/ /\ adj = memory.next[main] /\ memory.prev[adj] = main
         /\ a.start_address = b.start_address + b.size
         /\ adj # memory.head /\ memory.next[main] # NULL
      \/ /\ adj = memory.prev[main] /\ memory.next[adj] = main
         /\ b.start_address = a.start_address + a.size
         /\ adj # memory.tail /\ memory.prev[main] # NULL
  <2>1. CASE direction = "next"
    BY <2>1, <1>1, <1>3, <1>4 DEF ListInAddressOrder, Start, End, Size
  <2>2. CASE direction = "prev"
    BY <2>2, <1>1, <1>3, <1>4 DEF ListInAddressOrder, Start, End, Size
  <2> QED
    BY <2>1, <2>2, <1>3
<1>6. /\ a.start_address \in Nat /\ a.size \in Nat /\ a.size > 0
      /\ b.start_address \in Nat /\ b.size \in Nat /\ b.size > 0
      /\ b.type = "HOLE" /\ a.type = "HOLE"
  BY <1>1, <1>3, Typing DEF Coalesced, Size, IsHole
<1>7. adj # main
  BY <1>5, <1>6
<1>8. /\ both \in BlockType /\ both.type = "HOLE"
      /\ both.start_address = low /\ both.size = b.size + a.size
      /\ low \in Nat
      /\ \/ low = b.start_address /\ a.start_address = b.start_address + b.size
         \/ low = a.start_address /\ b.start_address = a.start_address + a.size
  BY <1>5, <1>6 DEF Block, BlockType
<1> HIDE DEF both, low
<1>9. /\ WellFormed(memory')
      /\ Live(memory') = Live(memory) \ {adj}
      /\ memory'.head = IF memory.head = adj THEN memory.next[adj] ELSE memory.head
      /\ memory'.tail = IF memory.tail = adj THEN memory.prev[adj] ELSE memory.tail
      /\ \A x \in Live(memory') :
           /\ memory'.block[x] = IF x = main THEN both ELSE memory.block[x]
           /\ memory'.next[x] = IF x = memory.prev[adj] THEN memory.next[adj]
                                                        ELSE memory.next[x]
           /\ memory'.prev[x] = IF x = memory.next[adj] THEN memory.prev[adj]
                                                        ELSE memory.prev[x]
  <2>1. MemoryType(memory)
    BY <1>1, Typing
  <2>2. /\ Live(m) = Live(memory)
        /\ m.next = memory.next /\ m.prev = memory.prev
        /\ m.head = memory.head /\ m.tail = memory.tail
        /\ \A x \in Live(m) : m.block[x] = IF x = main THEN both ELSE memory.block[x]
    BY <1>3, <2>1, SetBlockFields
  <2> HIDE DEF m
  <2> QED
    BY <1>2, <2>2, DeleteNodeFields
<1> HIDE DEF a, b, m
(* The list around adj: no other node points to it. *)
<1>10. /\ memory'.head \in Live(memory')
       /\ memory'.tail \in Live(memory')
       /\ \A x \in Live(memory') : /\ memory'.next[x] \in Live(memory') \cup {NULL}
                                   /\ memory'.prev[x] \in Live(memory') \cup {NULL}
  <2>1. /\ adj \in Live(memory) /\ main \in Live(memory)
        /\ memory.head \in Live(memory) /\ memory.tail \in Live(memory)
        /\ \A x \in Live(memory) : /\ memory.next[x] \in Live(memory) \cup {NULL}
                                   /\ memory.prev[x] \in Live(memory) \cup {NULL}
    BY <1>1, <1>3, Typing
  <2>2. \A x \in Live(memory) :
          /\ memory.next[x] = adj => x = memory.prev[adj]
          /\ memory.prev[x] = adj => x = memory.next[adj]
    BY <2>1, <1>1, <1>4, Links
  <2>3. memory.next[adj] # adj /\ memory.prev[adj] # adj
    BY <2>1, <1>1, <1>4, <1>6, Links DEF a
  <2>4. memory.head = adj => memory.next[adj] # NULL
    BY <2>1, <1>1, <1>4, <1>5, Links
  <2>5. memory.tail = adj => memory.prev[adj] # NULL
    BY <2>1, <1>1, <1>4, <1>5, Links
  <2>6. memory'.head \in Live(memory') /\ memory'.tail \in Live(memory')
    BY <2>1, <2>3, <2>4, <2>5, <1>9
  <2>7. ASSUME NEW x \in Live(memory')
        PROVE  /\ memory'.next[x] \in Live(memory') \cup {NULL}
               /\ memory'.prev[x] \in Live(memory') \cup {NULL}
    BY <2>1, <2>2, <2>3, <1>9
  <2> QED
    BY <2>6, <2>7
<1>11. /\ holes' \in Seq(Live(memory'))
       /\ Sorted(memory, holes')
       /\ \A x : Listed(holes', x) <=> Listed(holes, x) /\ x # adj
  <2>1. holes \in Seq(Live(memory)) /\ Sorted(memory, holes)
    BY <1>1, HoleList DEF TypeOK
  <2>2. PICK i \in DOMAIN holes : holes[i] = adj /\ holes' = RemoveAt(holes, i)
    BY <1>2
  <2>3. /\ RemoveAt(holes, i) \in Seq(Live(memory) \ {holes[i]})
        /\ Sorted(memory, RemoveAt(holes, i))
        /\ \A x : Listed(RemoveAt(holes, i), x) <=> Listed(holes, x) /\ x # holes[i]
    BY <2>1, RemoveHole
  <2> QED
    BY <2>2, <2>3, <1>9
<1>12. main \in Live(memory')
  BY <1>3, <1>7, <1>9
<1>13. TypeOK'
  <2>1. NodesTyped(memory')
    BY <1>1, <1>8, <1>9, <1>10, Typing DEF NodesTyped
  <2>2. Live(memory') \subseteq Nodes
    BY <1>1, <1>9, Typing
  <2>3. block_node \in [Procs -> Live(memory') \cup {NULL}]
    <3>1. \A q \in Procs : block_node[q] # adj
      BY <1>1, <1>2, <1>3, <1>4, <1>7 DEF BlocksOwned, main
    <3> QED
      BY <3>1, <1>1, <1>9 DEF TypeOK, Pointer
  <2> QED
    BY <1>2, <1>3, <1>9, <1>11, <2>1, <2>2, <2>3, TypeOKFromParts
<1>14. ListInAddressOrder'
  <2>1. Start(memory.head) = 0 /\ End(memory.tail) = MEM_CAPACITY
    BY <1>1 DEF ListInAddressOrder
  <2>9. \A x \in Live(memory') :
           /\ memory'.block[x].start_address =
                IF x = main THEN low ELSE memory.block[x].start_address
           /\ memory'.block[x].size =
                IF x = main THEN b.size + a.size ELSE memory.block[x].size
    BY <1>8, <1>9
  <2>2. memory'.block[memory'.head].start_address = 0
    <3>1. CASE memory'.head = main
      <4>1. memory.head = main => memory.prev[main] = NULL
        BY <1>1, <1>3 DEF ListInAddressOrder
      <4>2. \/ memory.head = main /\ low = b.start_address
            \/ memory.head = adj /\ low = a.start_address
        <5>1. CASE memory.head = adj
          <6>1. b.start_address = a.start_address + a.size
            BY <5>1, <1>5
          <6> QED
            BY <5>1, <6>1, <1>6, <1>8
        <5>2. CASE memory.head # adj
          <6>1. memory.head = main
            BY <5>2, <3>1, <1>9
          <6>2. a.start_address = b.start_address + b.size
            BY <6>1, <4>1, <1>5
          <6>3. low = b.start_address
            BY <6>2, <1>6, <1>8
          <6> QED
            BY <6>1, <6>3
        <5> QED
          BY <5>1, <5>2
      <4> QED
        BY <4>2, <3>1, <2>1, <2>9, <1>10 DEF Start, a, b
    <3>2. CASE memory'.head # main
      <4>1. memory'.head = memory.head
        BY <3>2, <1>5, <1>9
      <4> QED
        BY <4>1, <3>2, <2>1, <2>9, <1>10 DEF Start
    <3> QED
      BY <3>1, <3>2
  <2>8. memory'.block[memory'.tail].start_address
             + memory'.block[memory'.tail].size = MEM_CAPACITY
    <3>1. CASE memory'.tail = main
      <4>1. memory.tail = main => memory.next[main] = NULL
        BY <1>1, <1>3 DEF ListInAddressOrder
      <4>2. \/ memory.tail = main /\ low + (b.size + a.size) = b.start_address + b.size
            \/ memory.tail = adj /\ low + (b.size + a.size) = a.start_address + a.size
        <5>1. CASE memory.tail = adj
          <6>1. a.start_address = b.start_address + b.size
            BY <5>1, <1>5
          <6> QED
            BY <5>1, <6>1, <1>6, <1>8
        <5>2. CASE memory.tail # adj
          <6>1. memory.tail = main
            BY <5>2, <3>1, <1>9
          <6>2. b.start_address = a.start_address + a.size
            BY <6>1, <4>1, <1>5
          <6>3. low = a.start_address
            BY <6>2, <1>6, <1>8
          <6>4. low + (b.size + a.size) = b.start_address + b.size
            BY <6>2, <6>3, <1>6
          <6> QED
            BY <6>1, <6>4
        <5> QED
          BY <5>1, <5>2
      <4> QED
        BY <4>2, <3>1, <2>1, <2>9, <1>10 DEF Start, End, Size, a, b
    <3>2. CASE memory'.tail # main
      <4>1. memory'.tail = memory.tail
        BY <3>2, <1>5, <1>9
      <4> QED
        BY <4>1, <3>2, <2>1, <2>9, <1>10 DEF Start, End, Size
    <3> QED
      BY <3>1, <3>2
  <2>3. ASSUME NEW x \in Live(memory')
        PROVE  /\ (memory'.prev[x] = NULL) <=> (x = memory'.head)
               /\ (memory'.next[x] = NULL) <=> (x = memory'.tail)
    BY <1>1, <1>3, <1>4, <1>5, <1>7, <1>9, Typing DEF ListInAddressOrder
  <2>4. ASSUME NEW x \in Live(memory'), memory'.prev[x] # NULL
        PROVE  memory'.next[memory'.prev[x]] = x
    BY <2>4, <1>1, <1>3, <1>4, <1>5, <1>7, <1>9, <1>10, Typing DEF ListInAddressOrder
  <2>5. ASSUME NEW x \in Live(memory'), memory'.next[x] # NULL
        PROVE  memory'.prev[memory'.next[x]] = x
    BY <2>5, <1>1, <1>3, <1>4, <1>5, <1>7, <1>9, <1>10, Typing DEF ListInAddressOrder
  <2>6. ASSUME NEW x \in Live(memory'), memory'.next[x] # NULL
        PROVE  memory'.block[memory'.next[x]].start_address
                 = memory'.block[x].start_address + memory'.block[x].size
    <3> DEFINE y == memory'.next[x]
    <3>1. y \in Live(memory')
      BY <2>6, <1>10
    <3>2. CASE y = memory.next[x] /\ x # main /\ y # main
      BY <3>1, <3>2, <2>6, <2>9, <1>1, <1>9 DEF ListInAddressOrder, Start, End, Size
    <3>3. CASE x = main
      <4>1. memory.block[y].start_address = low + (b.size + a.size)
        <5>1. CASE memory.prev[adj] = main /\ a.start_address = b.start_address + b.size
          <6>1. y = memory.next[adj]
            BY <5>1, <3>3, <1>9, <1>12
          <6>2. memory.block[y].start_address = a.start_address + a.size
            BY <6>1, <2>6, <1>1, <1>3, Links DEF a
          <6>3. low = b.start_address
            BY <5>1, <1>6, <1>8
          <6> QED
            BY <5>1, <6>2, <6>3, <1>6
        <5>2. CASE adj = memory.prev[main] /\ b.start_address = a.start_address + a.size
          <6>1. memory.prev[adj] # main
            <7>1. ASSUME memory.prev[adj] = main PROVE FALSE
              <8>1. a.start_address = b.start_address + b.size
                BY <7>1, <1>3, <1>1, <1>4, Links DEF a, b
              <8> QED
                BY <8>1, <5>2, <1>6
            <7> QED
              BY <7>1
          <6>2. y = memory.next[main]
            BY <6>1, <3>3, <1>9, <1>12
          <6>3. memory.block[y].start_address = b.start_address + b.size
            BY <6>2, <2>6, <1>1, <1>3, Links DEF b
          <6>4. low = a.start_address
            BY <5>2, <1>6, <1>8
          <6> QED
            BY <5>2, <6>3, <6>4, <1>6
        <5> QED
          BY <5>1, <5>2, <1>5
      <4>2. y # main
        BY <4>1, <1>6, <1>8 DEF b
      <4> QED
        BY <3>1, <3>3, <4>1, <4>2, <2>9
    <3>4. CASE y = main /\ x # main
      <4>1. x \in Live(memory) /\ main # NULL
        BY <1>4, <1>9, <1>3
      <4>2. memory.block[x].start_address + memory.block[x].size = low
        <5>1. CASE x = memory.prev[adj] /\ memory.next[adj] = main
          <6>1. memory.block[x].start_address + memory.block[x].size = a.start_address
            BY <5>1, <4>1, <1>1, <1>3, <1>4, Links DEF a
          <6>2. b.start_address = a.start_address + a.size
            BY <5>1, <4>1, <1>1, <1>3, Links DEF a, b
          <6> QED
            BY <6>1, <6>2, <1>6, <1>8
        <5>2. CASE x # memory.prev[adj] /\ memory.next[x] = main
          <6>1. memory.block[x].start_address + memory.block[x].size = b.start_address
            BY <5>2, <4>1, <1>1, Links DEF b
          <6>2. memory.prev[main] # adj
            BY <5>2, <4>1, <1>1, <1>9, Links
          <6>3. low = b.start_address
            BY <6>2, <1>5, <1>6, <1>8
          <6> QED
            BY <6>1, <6>3
        <5> QED
          BY <5>1, <5>2, <3>4, <1>9
      <4> QED
        BY <3>1, <3>4, <4>1, <4>2, <2>9
    <3>5. CASE y # memory.next[x]
      <4>1. y = main \/ x = main
        BY <3>5, <1>5, <1>9
      <4> QED
        BY <4>1, <3>3, <3>4
    <3> QED
      BY <3>2, <3>3, <3>4, <3>5
  <2>7. ASSUME NEW x \in Live(memory'), memory'.prev[x] # NULL
        PROVE  memory'.block[memory'.prev[x]].start_address
                 + memory'.block[memory'.prev[x]].size = memory'.block[x].start_address
    <3>1. memory'.prev[x] \in Live(memory') /\ memory'.next[memory'.prev[x]] = x
      BY <2>4, <2>7, <1>10
    <3>2. x # NULL
      BY <1>4, <1>9
    <3> QED
      BY <3>1, <3>2, <2>6
  <2> QED
    BY <2>2, <2>3, <2>4, <2>5, <2>6, <2>7, <2>8, <1>10 DEF ListInAddressOrder, Start, End, Size
<1>15. BlocksPartitionMemory'
  <2>1. ASSUME NEW x \in Live(memory'), x # main
        PROVE  LET c == memory.block[x] IN
               \/ c.start_address + c.size <= low
               \/ low + (b.size + a.size) <= c.start_address
    <3>1. x \in Live(memory) /\ x # adj
      BY <1>9
    <3>2. /\ memory.block[x].start_address \in Nat
          /\ memory.block[x].size \in Nat /\ memory.block[x].size > 0
      BY <3>1, <1>1, Typing DEF Coalesced, Size
    <3>3. /\ End(x) <= Start(main) \/ End(main) <= Start(x)
          /\ End(x) <= Start(adj) \/ End(adj) <= Start(x)
      BY <3>1, <2>1, <1>1, <1>3 DEF BlocksPartitionMemory
    <3>4. LET c == memory.block[x] IN
          /\ c.start_address + c.size <= b.start_address
             \/ b.start_address + b.size <= c.start_address
          /\ c.start_address + c.size <= a.start_address
             \/ a.start_address + a.size <= c.start_address
      BY <3>3 DEF Start, End, Size, a, b
    <3>5. ASSUME NEW s \in Nat, NEW z \in Nat, z > 0,
                 \/ s + z <= b.start_address
                 \/ b.start_address + b.size <= s,
                 \/ s + z <= a.start_address
                 \/ a.start_address + a.size <= s
          PROVE  s + z <= low \/ low + (b.size + a.size) <= s
      BY <3>5, <1>6, <1>8
    <3> QED
      BY <3>2, <3>4, <3>5
  <2>2. ASSUME NEW x \in Live(memory'), NEW y \in Live(memory'), x # y
        PROVE  LET c == memory'.block[x]
                   d == memory'.block[y] IN
               \/ c.start_address + c.size <= d.start_address
               \/ d.start_address + d.size <= c.start_address
    <3>1. x \in Live(memory) /\ y \in Live(memory)
      BY <1>9
    <3>2. CASE x = main
      BY <3>2, <2>1, <2>2, <1>8, <1>9
    <3>3. CASE y = main
      BY <3>3, <2>1, <2>2, <1>8, <1>9
    <3>4. CASE x # main /\ y # main
      <4>1. memory'.block[x] = memory.block[x] /\ memory'.block[y] = memory.block[y]
        BY <3>4, <1>9
      <4> QED
        BY <4>1, <3>1, <2>2, <1>1 DEF BlocksPartitionMemory, Start, End, Size
    <3> QED
      BY <3>2, <3>3, <3>4
  <2>3. ASSUME NEW k \in 0 .. MEM_CAPACITY - 1
        PROVE  \E x \in Live(memory') :
                 /\ memory'.block[x].start_address <= k
                 /\ k < memory'.block[x].start_address + memory'.block[x].size
    <3>1. PICK x \in Live(memory) : Start(x) <= k /\ k < End(x)
      BY <1>1 DEF BlocksPartitionMemory
    <3>2. CASE x = main \/ x = adj
      <4>1. low <= k /\ k < low + (b.size + a.size)
        BY <3>1, <3>2, <1>6, <1>8 DEF Start, End, Size, a, b
      <4> QED
        BY <4>1, <1>8, <1>9, <1>12
    <3>3. CASE x # main /\ x # adj
      BY <3>1, <3>3, <1>9 DEF Start, End, Size
    <3> QED
      BY <3>2, <3>3
  <2> QED
    BY <2>2, <2>3, CapacityAssumption DEF BlocksPartitionMemory, Start, End, Size
<1>16. \A x \in Live(memory') : memory'.block[x].type = memory.block[x].type
  BY <1>3, <1>8, <1>9 DEF IsHole
<1>17. BlocksOwned'
  <2>1. \A p \in Procs : block_node[p] # NULL => block_node[p] \in Live(memory')
    BY <1>1, <1>2, <1>13 DEF TypeOK, Pointer
  <2>2. \A p \in Procs :
          block_node[p] # NULL => (memory'.block[block_node[p]].type = "HOLE" <=> p = freeing)
    BY <2>1, <1>1, <1>16 DEF BlocksOwned, IsHole
  <2>3. \A x \in Live(memory') :
          memory'.block[x].type # "HOLE" => \E p \in Procs : block_node[p] = x
    BY <1>1, <1>9, <1>16 DEF BlocksOwned, IsHole
  <2>4. /\ \A p, r \in Procs : block_node[p] = block_node[r] /\ p # r => block_node[p] = NULL
        /\ freeing # NULL => block_node[freeing] # NULL
    BY <1>1 DEF BlocksOwned
  <2> QED
    BY <2>2, <2>3, <2>4, <1>2 DEF BlocksOwned, IsHole
<1>18. HoleListExact'
  <2>1. \A x \in Live(memory') :
          Listed(holes', x) <=> memory'.block[x].type = "HOLE" /\ x # main
    BY <1>1, <1>2, <1>9, <1>11, <1>16, HoleList DEF IsHole, InFlight, main
  <2>2. \A x \in Live(memory') : x # main => memory'.block[x].size = memory.block[x].size
    BY <1>9
  <2>3. ASSUME NEW i \in DOMAIN holes', NEW j \in DOMAIN holes', i < j
        PROVE  /\ holes'[i] # holes'[j]
               /\ memory'.block[holes'[i]].size <= memory'.block[holes'[j]].size
    <3>1. holes'[i] \in Live(memory') /\ holes'[j] \in Live(memory')
      BY <1>11
    <3>2. holes'[i] # main /\ holes'[j] # main
      BY <3>1, <2>1, <1>11 DEF Listed
    <3> QED
      BY <3>1, <3>2, <2>2, <2>3, <1>11 DEF Sorted, Size
  <2> QED
    BY <1>2, <2>1, <2>3 DEF HoleListExact, Listed, IsHole, InFlight, Size, main
<1>19. Coalesced'
  <2>1. \A x \in Live(memory') : memory'.block[x].size > 0
    BY <1>1, <1>6, <1>8, <1>9, Typing DEF Coalesced, Size
  <2>2. ASSUME NEW x \in Live(memory'), memory'.next[x] # NULL,
               memory'.block[x].type = "HOLE", memory'.block[memory'.next[x]].type = "HOLE"
        PROVE  memory'.next[x] = main \/ (x = main /\ direction = "next")
    <3>1. memory'.next[x] \in Live(memory')
      BY <2>2, <1>10
    <3>2. memory.block[x].type = "HOLE" /\ memory.block[memory'.next[x]].type = "HOLE"
      BY <2>2, <3>1, <1>16
    <3>3. CASE memory'.next[x] = memory.next[x]
      BY <2>2, <3>2, <3>3, <1>1, <1>9 DEF Coalesced, IsHole, InFlight, main
    <3>4. CASE memory'.next[x] # memory.next[x]
      BY <2>2, <3>1, <3>2, <3>4, <1>1, <1>3, <1>4, <1>5, <1>7, <1>9 
         DEF Coalesced, IsHole, InFlight, main, ListInAddressOrder
    <3> QED
      BY <3>3, <3>4
  <2> QED
    BY <2>1, <2>2, <1>2 DEF Coalesced, IsHole, InFlight, Size, main
<1> QED
  BY <1>13, <1>14, <1>15, <1>17, <1>18, <1>19 DEF IInv
-----------------------------------------------------------------------------
(* The hole best_fit() stops at, and the hole list without it.             *)
LEMMA ChosenHole ==
  ASSUME IInv, freeing = NULL, NEW req \in Requirements,
         NEW i \in DOMAIN holes, FirstFit(i, req)
  PROVE  /\ holes[i] \in Live(memory)
         /\ IsHole(holes[i])
         /\ req \in Nat /\ req > 0
         /\ memory.block[holes[i]].start_address \in Nat
         /\ memory.block[holes[i]].size \in Nat
         /\ memory.block[holes[i]].size >= req
         /\ \A q \in Procs : block_node[q] # holes[i]
         /\ \A q \in Procs : block_node[q] # NULL => ~IsHole(block_node[q])
         /\ RemoveAt(holes, i) \in Seq(Live(memory) \ {holes[i]})
         /\ Sorted(memory, RemoveAt(holes, i))
         /\ \A x : Listed(RemoveAt(holes, i), x) <=> Listed(holes, x) /\ x # holes[i]
         /\ \A x \in Live(memory) : Listed(holes, x) <=> IsHole(x)
         /\ \A x \in Live(memory) :
              IsHole(x) /\ memory.next[x] # NULL => ~IsHole(memory.next[x])
<1>1. TypeOK /\ BlocksOwned /\ HoleListExact /\ Coalesced
  BY DEF IInv
<1>2. \A x : ~InFlight(x)
  BY DEF InFlight
<1>3. \A x \in Live(memory) : Listed(holes, x) <=> IsHole(x)
  BY <1>1, <1>2, HoleList
<1>4. holes[i] \in Live(memory) /\ IsHole(holes[i])
  BY <1>1, <1>3, Typing DEF Listed
<1>5. req \in Nat /\ req > 0
  BY RequirementsAssumption
<1>6. /\ memory.block[holes[i]].start_address \in Nat
      /\ memory.block[holes[i]].size \in Nat
      /\ memory.block[holes[i]].size >= req
  BY <1>1, <1>4, Typing DEF FirstFit, Size
<1>7. \A q \in Procs : block_node[q] # NULL => ~IsHole(block_node[q])
  BY <1>1, NullAssumption DEF BlocksOwned
<1>8. NULL \notin Live(memory)
  BY <1>1, Typing
<1>9. \A q \in Procs : block_node[q] # holes[i]
  BY <1>4, <1>7, <1>8
<1>10. holes \in Seq(Live(memory)) /\ Sorted(memory, holes)
  BY <1>1, HoleList DEF TypeOK
<1>11. /\ RemoveAt(holes, i) \in Seq(Live(memory) \ {holes[i]})
       /\ Sorted(memory, RemoveAt(holes, i))
       /\ \A x : Listed(RemoveAt(holes, i), x) <=> Listed(holes, x) /\ x # holes[i]
  BY <1>10, RemoveHole
<1>12. \A x \in Live(memory) :
         IsHole(x) /\ memory.next[x] # NULL => ~IsHole(memory.next[x])
  BY <1>1, <1>2 DEF Coalesced
<1> QED
  BY <1>3, <1>4, <1>5, <1>6, <1>7, <1>9, <1>11, <1>12

(* A hole that fits exactly: its node is freed and a fresh one, possibly   *)
(* in the same cell, takes its place in the list.                          *)
LEMMA ExactFitIInv ==
  ASSUME IInv, freeing = NULL, NEW p \in Procs, block_node[p] = NULL,
         NEW req \in Requirements, NEW i \in DOMAIN holes, FirstFit(i, req),
         memory.block[holes[i]].size - req = 0,
         Split(p, req, holes[i], RemoveAt(holes, i)),
         UNCHANGED <<freeing, direction>>
  PROVE  IInv'
<1> DEFINE old  == holes[i]
           b    == memory.block[old]
           used == Block("PROCESS", b.start_address, req)
           prev == memory.prev[old]
           next == memory.next[old]
           m    == DeleteNode(memory, old)
           n    == Malloc(Live(m))
<1>1. /\ TypeOK /\ ListInAddressOrder /\ BlocksPartitionMemory
      /\ BlocksOwned /\ HoleListExact /\ Coalesced
  BY DEF IInv
<1>2. /\ Nodes \ Live(m) # {}
      /\ holes' = RemoveAt(holes, i)
      /\ memory' = InsertNode(m, n, used, prev, next)
      /\ block_node' = [block_node EXCEPT ![p] = n]
      /\ freeing' = NULL /\ direction' = direction
  BY DEF Split, Block
<1>3. /\ old \in Live(memory) /\ IsHole(old)
      /\ req \in Nat /\ req > 0
      /\ b.start_address \in Nat /\ b.size = req
      /\ \A q \in Procs : block_node[q] # old
      /\ \A q \in Procs : block_node[q] # NULL => ~IsHole(block_node[q])
      /\ holes' \in Seq(Live(memory) \ {old})
      /\ Sorted(memory, holes')
      /\ \A x : Listed(holes', x) <=> Listed(holes, x) /\ x # old
      /\ \A x \in Live(memory) : Listed(holes, x) <=> IsHole(x)
      /\ \A x \in Live(memory) :
           IsHole(x) /\ memory.next[x] # NULL => ~IsHole(memory.next[x])
  BY <1>2, ChosenHole
<1>4. NULL \notin Live(memory) /\ Live(memory) \subseteq Nodes
  BY <1>1, Typing
<1>5. /\ used \in BlockType /\ used.type = "PROCESS"
      /\ used.start_address = b.start_address /\ used.size = req
  BY <1>3 DEF Block, BlockType
<1> HIDE DEF old, used
<1>6. /\ Live(m) = Live(memory) \ {old}
      /\ m.head = IF memory.head = old THEN next ELSE memory.head
      /\ m.tail = IF memory.tail = old THEN prev ELSE memory.tail
      /\ \A x \in Live(m) :
           /\ m.block[x] = memory.block[x]
           /\ m.next[x] = IF x = prev THEN next ELSE memory.next[x]
           /\ m.prev[x] = IF x = next THEN prev ELSE memory.prev[x]
  BY DeleteNodeFields
<1>7. n \in Nodes /\ n \notin Live(m) /\ n # NULL
  BY <1>2, NullAssumption DEF Malloc
<1> HIDE DEF m, n
<1>8. /\ WellFormed(memory')
      /\ Live(memory') = Live(m) \cup {n}
      /\ memory'.head = IF prev = NULL THEN n ELSE m.head
      /\ memory'.tail = IF next = NULL THEN n ELSE m.tail
      /\ \A x \in Live(memory') :
           /\ memory'.block[x] = IF x = n THEN used ELSE m.block[x]
           /\ memory'.next[x] = IF x = n THEN next ELSE IF x = prev THEN n ELSE m.next[x]
           /\ memory'.prev[x] = IF x = n THEN prev ELSE IF x = next THEN n ELSE m.prev[x]
  BY <1>2, InsertNodeFields
(* The links around old *)
<1>9. /\ prev \in Live(m) \cup {NULL} /\ next \in Live(m) \cup {NULL}
      /\ prev = NULL <=> old = memory.head
      /\ next = NULL <=> old = memory.tail
      /\ \A x \in Live(m) : memory.next[x] = old <=> x = prev
      /\ \A x \in Live(m) : memory.prev[x] = old <=> x = next
  <2>1. prev # old /\ next # old
    <3>1. b.size > 0 /\ b.start_address \in Nat /\ b.size \in Nat
      BY <1>3
    <3> QED
      BY <3>1, <1>1, <1>3, <1>4, Links DEF b, prev, next
  <2>2. prev \in Live(memory) \cup {NULL} /\ next \in Live(memory) \cup {NULL}
    BY <1>1, <1>3, Typing
  <2> QED
    BY <2>1, <2>2, <1>1, <1>3, <1>4, <1>6 DEF ListInAddressOrder
(* The new list, node by node: n stands where old stood. *)
<1>10. /\ Live(memory') = (Live(memory) \ {old}) \cup {n}
       /\ n \notin Live(memory) \ {old}
       /\ memory'.head = IF memory.head = old THEN n ELSE memory.head
       /\ memory'.tail = IF memory.tail = old THEN n ELSE memory.tail
       /\ memory'.block[n] = used
       /\ memory'.next[n] = next /\ memory'.prev[n] = prev
       /\ \A x \in Live(memory) \ {old} :
            /\ memory'.block[x] = memory.block[x]
            /\ memory'.next[x] = IF memory.next[x] = old THEN n ELSE memory.next[x]
            /\ memory'.prev[x] = IF memory.prev[x] = old THEN n ELSE memory.prev[x]
  BY <1>6, <1>7, <1>8, <1>9
<1> HIDE DEF prev, next, b
<1>11. TypeOK'
  <2>1. NodesTyped(memory')
    BY <1>1, <1>5, <1>6, <1>9, <1>10, Typing DEF NodesTyped
  <2>2. Live(memory') \subseteq Nodes
    BY <1>4, <1>7, <1>10
  <2>3. block_node' \in [Procs -> Live(memory') \cup {NULL}]
    BY <1>1, <1>2, <1>3, <1>10 DEF TypeOK, Pointer
  <2>4. holes' \in Seq(Live(memory'))
    <3>1. Live(memory) \ {old} \subseteq Live(memory')
      BY <1>10
    <3> QED
      BY <3>1, <1>3
  <2>5. direction' \in {"next", "prev"}
    BY <1>1, <1>2 DEF TypeOK
  <2> QED
    BY <1>2, <1>8, <2>1, <2>2, <2>3, <2>4, <2>5, TypeOKFromParts
<1>12. ListInAddressOrder'
  <2>1. \A x \in Live(memory) \ {old} :
          /\ memory'.block[x].start_address = memory.block[x].start_address
          /\ memory'.block[x].size = memory.block[x].size
    BY <1>10
  <2>2. memory'.block[n].start_address = b.start_address /\ memory'.block[n].size = b.size
    BY <1>3, <1>5, <1>10
  <2>3. /\ memory'.block[memory'.head].start_address = 0
        /\ memory'.block[memory'.tail].start_address
             + memory'.block[memory'.tail].size = MEM_CAPACITY
    <3>1. /\ memory.block[memory.head].start_address = 0
          /\ memory.block[memory.tail].start_address
               + memory.block[memory.tail].size = MEM_CAPACITY
      BY <1>1 DEF ListInAddressOrder, Start, End, Size
    <3>2. memory.head \in Live(memory) /\ memory.tail \in Live(memory)
      BY <1>1, Typing
    <3>3. memory'.block[memory'.head].start_address = 0
      BY <3>1, <3>2, <2>1, <2>2, <1>10 DEF b
    <3>4. memory'.block[memory'.tail].start_address
             + memory'.block[memory'.tail].size = MEM_CAPACITY
      BY <3>1, <3>2, <2>1, <2>2, <1>10 DEF b
    <3> QED
      BY <3>3, <3>4
  <2>4. ASSUME NEW x \in Live(memory')
        PROVE  /\ (memory'.prev[x] = NULL) <=> (x = memory'.head)
               /\ (memory'.next[x] = NULL) <=> (x = memory'.tail)
    <3>1. memory.head \in Live(memory) /\ memory.tail \in Live(memory)
      BY <1>1, Typing
    <3>2. CASE x = n
      <4>1. memory.head = old \/ (memory'.head = memory.head /\ memory.head # n)
        BY <3>1, <1>10
      <4>2. memory.tail = old \/ (memory'.tail = memory.tail /\ memory.tail # n)
        BY <3>1, <1>10
      <4> QED
        BY <3>2, <4>1, <4>2, <1>9, <1>10
    <3>3. CASE x # n
      <4>1. x \in Live(memory) \ {old} /\ old # NULL
        BY <3>3, <1>3, <1>4, <1>10
      <4>2. /\ (memory'.prev[x] = NULL) <=> (memory.prev[x] = NULL)
            /\ (memory'.next[x] = NULL) <=> (memory.next[x] = NULL)
        BY <4>1, <1>7, <1>10
      <4>3. (x = memory'.head <=> x = memory.head) /\ (x = memory'.tail <=> x = memory.tail)
        BY <4>1, <3>3, <1>10
      <4> QED
        BY <4>1, <4>2, <4>3, <1>1 DEF ListInAddressOrder
    <3> QED
      BY <3>2, <3>3
  (* The nodes around n are those that were around old *)
  <2>a. /\ prev # NULL => prev \in Live(memory) \ {old} /\ memory.next[prev] = old
        /\ next # NULL => next \in Live(memory) \ {old} /\ memory.prev[next] = old
    <3>1. NULL \notin Live(m)
      BY <1>1, <1>6, Typing
    <3>2. Live(m) = Live(memory) \ {old}
      BY <1>6
    <3> QED
      BY <3>1, <3>2, <1>9
  <2>b. next # NULL => memory.block[next].start_address = b.start_address + b.size
    BY <1>1, <1>3 DEF ListInAddressOrder, Start, End, Size, b, next
  <2>c. n # NULL /\ old # NULL /\ old \in Live(memory)
    BY <1>3, <1>4, <1>7
  <2>d. \A x \in Live(memory) :
          /\ memory.prev[x] # NULL => /\ memory.prev[x] \in Live(memory)
                                     /\ memory.next[memory.prev[x]] = x
          /\ memory.next[x] # NULL => /\ memory.next[x] \in Live(memory)
                                     /\ memory.prev[memory.next[x]] = x
    <3>1. \A x \in Live(memory) : /\ memory.prev[x] \in Live(memory) \cup {NULL}
                                  /\ memory.next[x] \in Live(memory) \cup {NULL}
      BY <1>1, Typing
    <3> QED
      BY <3>1, <1>1 DEF ListInAddressOrder
  <2>5. ASSUME NEW x \in Live(memory'), memory'.prev[x] # NULL
        PROVE  memory'.next[memory'.prev[x]] = x
    <3>1. CASE x = n
      <4>1. memory'.prev[x] = prev
        BY <3>1, <1>10
      <4>2. prev \in Live(memory) \ {old} /\ memory.next[prev] = old
        BY <4>1, <2>5, <2>a
      <4> QED
        BY <4>1, <4>2, <3>1, <1>10
    <3>2. CASE x # n
      <4>1. x \in Live(memory) \ {old}
        BY <3>2, <1>10
      <4>2. memory'.prev[x] = IF memory.prev[x] = old THEN n ELSE memory.prev[x]
        BY <4>1, <1>10
      <4>3. CASE memory.prev[x] = old
        <5>1. memory.next[old] = x
          BY <4>1, <4>3, <2>c, <2>d
        <5>2. memory'.next[n] = x
          BY <5>1, <1>10 DEF next
        <5> QED
          BY <5>2, <4>2, <4>3
      <4>4. CASE memory.prev[x] # old
        <5>1. /\ memory.prev[x] \in Live(memory) \ {old}
              /\ memory.next[memory.prev[x]] = x
          BY <4>1, <4>2, <4>4, <2>5, <2>d
        <5> QED
          BY <5>1, <4>1, <4>2, <4>4, <1>10
      <4> QED
        BY <4>3, <4>4
    <3> QED
      BY <3>1, <3>2
  <2>6. ASSUME NEW x \in Live(memory'), memory'.next[x] # NULL
        PROVE  memory'.prev[memory'.next[x]] = x
    <3>1. CASE x = n
      <4>1. memory'.next[x] = next
        BY <3>1, <1>10
      <4>2. next \in Live(memory) \ {old} /\ memory.prev[next] = old
        BY <4>1, <2>6, <2>a
      <4> QED
        BY <4>1, <4>2, <3>1, <1>10
    <3>2. CASE x # n
      <4>1. x \in Live(memory) \ {old}
        BY <3>2, <1>10
      <4>2. memory'.next[x] = IF memory.next[x] = old THEN n ELSE memory.next[x]
        BY <4>1, <1>10
      <4>3. CASE memory.next[x] = old
        <5>1. memory.prev[old] = x
          BY <4>1, <4>3, <2>c, <2>d
        <5>2. memory'.prev[n] = x
          BY <5>1, <1>10 DEF prev
        <5> QED
          BY <5>2, <4>2, <4>3
      <4>4. CASE memory.next[x] # old
        <5>1. /\ memory.next[x] \in Live(memory) \ {old}
              /\ memory.prev[memory.next[x]] = x
          BY <4>1, <4>2, <4>4, <2>6, <2>d
        <5> QED
          BY <5>1, <4>1, <4>2, <4>4, <1>10
      <4> QED
        BY <4>3, <4>4
    <3> QED
      BY <3>1, <3>2
  <2>7. ASSUME NEW x \in Live(memory'), memory'.next[x] # NULL
        PROVE  memory'.block[memory'.next[x]].start_address
                 = memory'.block[x].start_address + memory'.block[x].size
    <3>1. CASE x = n
      <4>1. memory'.next[x] = next
        BY <3>1, <1>10
      <4>2. next \in Live(memory) \ {old} /\ next # NULL
        BY <4>1, <2>7, <2>a
      <4>3. memory'.block[next].start_address = memory.block[next].start_address
        BY <4>2, <2>1
      <4> QED
        BY <4>1, <4>2, <4>3, <3>1, <2>2, <2>b
    <3>2. CASE x # n
      <4>1. x \in Live(memory) \ {old} /\ memory.next[x] # NULL
        BY <3>2, <2>7, <1>3, <1>4, <1>10
      <4>2. memory.block[memory.next[x]].start_address
                = memory.block[x].start_address + memory.block[x].size
        BY <4>1, <1>1 DEF ListInAddressOrder, Start, End, Size
      <4>3. CASE memory.next[x] = old
        BY <4>1, <4>2, <4>3, <2>1, <2>2, <1>10 DEF b
      <4>4. CASE memory.next[x] # old
        <5>1. memory.next[x] \in Live(memory) \ {old}
          BY <4>1, <4>4, <1>1, Typing
        <5> QED
          BY <5>1, <4>1, <4>2, <4>4, <2>1, <1>10
      <4> QED
        BY <4>3, <4>4
    <3> QED
      BY <3>1, <3>2
  <2>8. ASSUME NEW x \in Live(memory'), memory'.prev[x] # NULL
        PROVE  memory'.block[memory'.prev[x]].start_address
                 + memory'.block[memory'.prev[x]].size = memory'.block[x].start_address
    <3>1. memory'.prev[x] \in Live(memory') /\ memory'.next[memory'.prev[x]] = x
      BY <2>5, <2>8, <1>6, <1>9, <1>10, <1>1, Typing
    <3>2. x # NULL
      BY <1>4, <1>7, <1>10
    <3> QED
      BY <3>1, <3>2, <2>7
  <2> QED
    BY <2>3, <2>4, <2>5, <2>6, <2>7, <2>8 DEF ListInAddressOrder, Start, End, Size
<1>13. BlocksPartitionMemory'
  <2>1. \A x \in Live(memory') :
          \E y \in Live(memory) :
             /\ x # n => y = x
             /\ x = n => y = old
             /\ memory'.block[x].start_address = memory.block[y].start_address
             /\ memory'.block[x].size = memory.block[y].size
    BY <1>3, <1>5, <1>10 DEF b
  <2>2. ASSUME NEW x \in Live(memory'), NEW y \in Live(memory'), x # y
        PROVE  LET c == memory'.block[x]
                   d == memory'.block[y] IN
               \/ c.start_address + c.size <= d.start_address
               \/ d.start_address + d.size <= c.start_address
    <3>1. PICK x1 \in Live(memory) : /\ x # n => x1 = x
                                     /\ x = n => x1 = old
                                     /\ memory'.block[x].start_address = memory.block[x1].start_address
                                     /\ memory'.block[x].size = memory.block[x1].size
      BY <2>1
    <3>2. PICK y1 \in Live(memory) : /\ y # n => y1 = y
                                     /\ y = n => y1 = old
                                     /\ memory'.block[y].start_address = memory.block[y1].start_address
                                     /\ memory'.block[y].size = memory.block[y1].size
      BY <2>1
    <3>3. x1 # y1
      BY <2>2, <3>1, <3>2, <1>10
    <3> QED
      BY <3>1, <3>2, <3>3, <1>1 DEF BlocksPartitionMemory, Start, End, Size
  <2>3. ASSUME NEW k \in 0 .. MEM_CAPACITY - 1
        PROVE  \E x \in Live(memory') :
                 /\ memory'.block[x].start_address <= k
                 /\ k < memory'.block[x].start_address + memory'.block[x].size
    <3>1. PICK x \in Live(memory) : Start(x) <= k /\ k < End(x)
      BY <1>1 DEF BlocksPartitionMemory
    <3>2. CASE x = old
      BY <3>1, <3>2, <1>3, <1>5, <1>10 DEF Start, End, Size, b
    <3>3. CASE x # old
      BY <3>1, <3>3, <1>10 DEF Start, End, Size
    <3> QED
      BY <3>2, <3>3
  <2> QED
    BY <2>2, <2>3, CapacityAssumption DEF BlocksPartitionMemory, Start, End, Size
<1>14. /\ memory'.block[n].type = "PROCESS"
       /\ \A x \in Live(memory) \ {old} : memory'.block[x].type = memory.block[x].type
  BY <1>5, <1>10
<1>15. BlocksOwned'
  <2>1. \A q \in Procs : block_node'[q] = IF q = p THEN n ELSE block_node[q]
    BY <1>1, <1>2 DEF TypeOK
  <2>2. \A q \in Procs : block_node[q] \in (Live(memory) \ {old}) \cup {NULL}
    BY <1>1, <1>3, Typing
  <2>3. \A q, r \in Procs :
          block_node'[q] = block_node'[r] /\ q # r => block_node'[q] = NULL
    BY <2>1, <2>2, <1>1, <1>7, <1>10 DEF BlocksOwned
  <2>4. \A q \in Procs : block_node'[q] # NULL => memory'.block[block_node'[q]].type # "HOLE"
    BY <2>1, <2>2, <1>3, <1>14 DEF IsHole
  <2>5. \A x \in Live(memory') : memory'.block[x].type # "HOLE" =>
          \E q \in Procs : block_node'[q] = x
    <3> SUFFICES ASSUME NEW x \in Live(memory'), memory'.block[x].type # "HOLE"
                 PROVE  \E q \in Procs : block_node'[q] = x
      OBVIOUS
    <3>1. CASE x = n
      BY <3>1, <2>1
    <3>2. CASE x # n
      <4>1. x \in Live(memory) \ {old} /\ ~IsHole(x) /\ x # NULL
        BY <3>2, <1>4, <1>10, <1>14 DEF IsHole
      <4>2. PICK q \in Procs : block_node[q] = x
        BY <4>1, <1>1 DEF BlocksOwned
      <4> QED
        BY <4>1, <4>2, <2>1
    <3> QED
      BY <3>1, <3>2
  <2> QED
    BY <2>3, <2>4, <2>5, <1>2, NullAssumption DEF BlocksOwned, IsHole
<1>16. HoleListExact'
  <2>1. \A x \in Live(memory') : Listed(holes', x) <=> memory'.block[x].type = "HOLE"
    <3>1. ~Listed(holes', n)
      BY <1>3, <1>10 DEF Listed
    <3> QED
      BY <3>1, <1>3, <1>10, <1>14 DEF IsHole
  <2>2. \A j \in DOMAIN holes' : holes'[j] \in Live(memory) \ {old}
    BY <1>3
  <2>3. \A j, k \in DOMAIN holes' : j < k =>
          /\ holes'[j] # holes'[k]
          /\ memory'.block[holes'[j]].size <= memory'.block[holes'[k]].size
    BY <2>2, <1>3, <1>10 DEF Sorted, Size
  <2> QED
    BY <2>1, <2>3, <1>2 DEF HoleListExact, Listed, IsHole, InFlight, Size
<1>17. Coalesced'
  <2>1. \A x \in Live(memory') : memory'.block[x].size > 0
    BY <1>1, <1>3, <1>5, <1>10 DEF Coalesced, Size
  <2>2. ASSUME NEW x \in Live(memory'), memory'.next[x] # NULL,
               memory'.block[x].type = "HOLE", memory'.block[memory'.next[x]].type = "HOLE"
        PROVE  FALSE
    <3>1. x # n /\ memory'.next[x] # n
      BY <2>2, <1>14
    <3>2. x \in Live(memory) \ {old} /\ memory'.next[x] = memory.next[x]
          /\ memory.next[x] # old /\ memory.next[x] # NULL
      BY <3>1, <2>2, <1>10
    <3>3. memory.next[x] \in Live(memory) \ {old}
      BY <3>2, <1>1, Typing
    <3> QED
      BY <3>2, <3>3, <2>2, <1>3, <1>14 DEF IsHole
  <2> QED
    BY <2>1, <2>2, <1>2 DEF Coalesced, IsHole, InFlight, Size
<1> QED
  BY <1>11, <1>12, <1>13, <1>15, <1>16, <1>17 DEF IInv

(* A larger hole: a fresh node for the process goes before old, which      *)
(* keeps what is left and goes back into the hole list.                    *)
LEMMA LooseFitIInv ==
  ASSUME IInv, freeing = NULL, NEW p \in Procs, block_node[p] = NULL,
         NEW req \in Requirements, NEW i \in DOMAIN holes, FirstFit(i, req),
         memory.block[holes[i]].size - req # 0,
         Split(p, req, holes[i], RemoveAt(holes, i)),
         UNCHANGED <<freeing, direction>>
  PROVE  IInv'
<1> DEFINE old  == holes[i]
           rest == RemoveAt(holes, i)
           b    == memory.block[old]
           used == Block("PROCESS", b.start_address, req)
           free == Block("HOLE", b.start_address + req, b.size - req)
           prev == memory.prev[old]
           m    == SetBlock(memory, old, free)
           n    == Malloc(Live(m))
<1>1. /\ TypeOK /\ ListInAddressOrder /\ BlocksPartitionMemory
      /\ BlocksOwned /\ HoleListExact /\ Coalesced
  BY DEF IInv
<1>2. /\ Nodes \ Live(m) # {}
      /\ InsertSorted(m, rest, old, holes')
      /\ memory' = InsertNode(m, n, used, prev, old)
      /\ block_node' = [block_node EXCEPT ![p] = n]
      /\ freeing' = NULL /\ direction' = direction
  BY DEF Split, Block
<1>3. /\ old \in Live(memory) /\ IsHole(old)
      /\ req \in Nat /\ req > 0
      /\ b.start_address \in Nat /\ b.size \in Nat /\ b.size > req
      /\ \A q \in Procs : block_node[q] # old
      /\ \A q \in Procs : block_node[q] # NULL => ~IsHole(block_node[q])
      /\ rest \in Seq(Live(memory) \ {old})
      /\ Sorted(memory, rest)
      /\ \A x : Listed(rest, x) <=> Listed(holes, x) /\ x # old
      /\ \A x \in Live(memory) : Listed(holes, x) <=> IsHole(x)
      /\ \A x \in Live(memory) :
           IsHole(x) /\ memory.next[x] # NULL => ~IsHole(memory.next[x])
  <2>1. b.size >= req /\ b.size - req # 0 /\ b.size \in Nat /\ req \in Nat
    BY ChosenHole
  <2>2. b.size > req
    BY <2>1
  <2> QED
    BY <2>2, ChosenHole
<1>4. NULL \notin Live(memory) /\ Live(memory) \subseteq Nodes
  BY <1>1, Typing
<1>5. /\ used \in BlockType /\ used.type = "PROCESS"
      /\ used.start_address = b.start_address /\ used.size = req
      /\ free \in BlockType /\ free.type = "HOLE"
      /\ free.start_address = b.start_address + req /\ free.size = b.size - req
  <2> HIDE DEF b
  <2>1. b.start_address + req \in Nat /\ b.size - req \in Nat
    BY <1>3
  <2> QED
    BY <2>1, <1>3 DEF Block, BlockType
<1> HIDE DEF old, used, free, rest
<1>6. /\ Live(m) = Live(memory)
      /\ m.next = memory.next /\ m.prev = memory.prev
      /\ m.head = memory.head /\ m.tail = memory.tail
      /\ \A x \in Live(memory) : m.block[x] = IF x = old THEN free ELSE memory.block[x]
  <2>1. MemoryType(memory)
    BY <1>1, Typing
  <2> QED
    BY <2>1, <1>3, SetBlockFields
<1>7. n \in Nodes /\ n \notin Live(memory) /\ n # NULL /\ n # old
  <2>1. n \in Nodes /\ n \notin Live(m)
    BY <1>2 DEF Malloc
  <2> QED
    BY <2>1, <1>3, <1>6, NullAssumption
<1> HIDE DEF m, n
(* The links around old *)
<1>8. /\ prev # old /\ prev \in Live(memory) \cup {NULL}
      /\ prev = NULL <=> old = memory.head
      /\ \A x \in Live(memory) : memory.next[x] = old <=> x = prev
  <2>1. prev # old
    <3>1. b.size > 0 /\ b.start_address \in Nat /\ b.size \in Nat
      BY <1>3
    <3> QED
      BY <3>1, <1>1, <1>3, <1>4, Links DEF b, prev
  <2>2. prev \in Live(memory) \cup {NULL}
    BY <1>1, <1>3, Typing
  <2> QED
    BY <2>1, <2>2, <1>1, <1>3, <1>4 DEF ListInAddressOrder
(* The new list, node by node: n stands between prev and old. *)
<1>9. /\ WellFormed(memory')
      /\ Live(memory') = Live(memory) \cup {n}
      /\ memory'.head = IF memory.head = old THEN n ELSE memory.head
      /\ memory'.tail = memory.tail
      /\ memory'.block[n] = used
      /\ memory'.next[n] = old /\ memory'.prev[n] = prev
      /\ memory'.block[old] = free /\ memory'.prev[old] = n
      /\ \A x \in Live(memory) :
           /\ x # old => memory'.block[x] = memory.block[x]
           /\ memory'.next[x] = IF memory.next[x] = old THEN n ELSE memory.next[x]
           /\ x # old => memory'.prev[x] = memory.prev[x]
  <2>1. /\ WellFormed(memory')
        /\ Live(memory') = Live(m) \cup {n}
        /\ memory'.head = IF prev = NULL THEN n ELSE m.head
        /\ memory'.tail = IF old = NULL THEN n ELSE m.tail
        /\ \A x \in Live(memory') :
           /\ memory'.block[x] = IF x = n THEN used ELSE m.block[x]
           /\ memory'.next[x] = IF x = n THEN old ELSE IF x = prev THEN n ELSE m.next[x]
           /\ memory'.prev[x] = IF x = n THEN prev ELSE IF x = old THEN n ELSE m.prev[x]
    BY <1>2, InsertNodeFields
  <2> QED
    BY <2>1, <1>3, <1>4, <1>6, <1>7, <1>8
<1> HIDE DEF prev, b
<1>10. \A x \in Live(memory') : /\ memory'.next[x] \in Live(memory') \cup {NULL}
                                 /\ memory'.prev[x] \in Live(memory') \cup {NULL}
  BY <1>1, <1>3, <1>8, <1>9, Typing
<1>11. /\ holes' \in Seq(Live(memory))
       /\ Sorted(m, holes')
       /\ \A x : Listed(holes', x) <=> Listed(holes, x)
  <2>1. rest \in Seq(Live(memory))
    BY <1>3
  <2>2. \A x \in Live(memory) : Size(m, x) \in Nat
    BY <1>1, <1>5, <1>6, Typing DEF Size, BlockType
  <2>3. Sorted(m, rest)
    <3>1. \A j \in DOMAIN rest : rest[j] \in Live(memory) /\ rest[j] # old
      BY <1>3
    <3> QED
      BY <3>1, <1>3, <1>6 DEF Sorted, Size
  <2>4. ~Listed(rest, old)
    BY <1>3
  <2>5. /\ holes' \in Seq(Live(memory))
        /\ Sorted(m, holes')
        /\ \A x : Listed(holes', x) <=> Listed(rest, x) \/ x = old
    BY <2>1, <2>2, <2>3, <2>4, <1>2, <1>3, InsertHole
  <2> QED
    BY <2>5, <1>3
<1>12. TypeOK'
  <2>1. NodesTyped(memory')
    BY <1>1, <1>5, <1>9, <1>10, Typing DEF NodesTyped
  <2>2. Live(memory') \subseteq Nodes
    BY <1>4, <1>7, <1>9
  <2>3. block_node' \in [Procs -> Live(memory') \cup {NULL}]
    BY <1>1, <1>2, <1>9 DEF TypeOK, Pointer
  <2>4. holes' \in Seq(Live(memory'))
    <3>1. Live(memory) \subseteq Live(memory')
      BY <1>9
    <3> QED
      BY <3>1, <1>11
  <2>5. direction' \in {"next", "prev"}
    BY <1>1, <1>2 DEF TypeOK
  <2> QED
    BY <1>2, <1>9, <2>1, <2>2, <2>3, <2>4, <2>5, TypeOKFromParts
(* The addresses: n and old share what was old's. *)
<1>13. /\ memory'.block[n].start_address = b.start_address
       /\ memory'.block[n].size = req
       /\ memory'.block[old].start_address = b.start_address + req
       /\ memory'.block[old].size = b.size - req
       /\ \A x \in Live(memory) \ {old} :
            /\ memory'.block[x].start_address = memory.block[x].start_address
            /\ memory'.block[x].size = memory.block[x].size
  BY <1>5, <1>9
<1>14. ListInAddressOrder'
  <2>1. memory'.block[memory'.head].start_address = 0
    BY <1>1, <1>9, <1>13, Typing DEF ListInAddressOrder, Start, b
  <2>2. memory'.block[memory'.tail].start_address
             + memory'.block[memory'.tail].size = MEM_CAPACITY
    <3>1. CASE memory.tail = old
      <4>1. b.start_address + b.size = MEM_CAPACITY
        BY <3>1, <1>1 DEF ListInAddressOrder, End, Start, Size, b
      <4>2. (b.start_address + req) + (b.size - req) = MEM_CAPACITY
        BY <4>1, <1>3
      <4> QED
        BY <3>1, <4>2, <1>9, <1>13
    <3>2. CASE memory.tail # old
      BY <3>2, <1>1, <1>9, <1>13, Typing DEF ListInAddressOrder, End, Start, Size
    <3> QED
      BY <3>1, <3>2
  <2>3. ASSUME NEW x \in Live(memory')
        PROVE  /\ (memory'.prev[x] = NULL) <=> (x = memory'.head)
               /\ (memory'.next[x] = NULL) <=> (x = memory'.tail)
    <3>1. memory.head \in Live(memory) /\ memory.tail \in Live(memory)
      BY <1>1, Typing
    <3>2. CASE x = n
      BY <3>1, <3>2, <1>3, <1>4, <1>7, <1>8, <1>9
    <3>3. CASE x # n
      BY <3>1, <3>3, <1>1, <1>3, <1>4, <1>7, <1>8, <1>9 DEF ListInAddressOrder
    <3> QED
      BY <3>2, <3>3
  <2>4. ASSUME NEW x \in Live(memory'), memory'.prev[x] # NULL
        PROVE  memory'.next[memory'.prev[x]] = x
    <3>1. CASE x = n
      BY <3>1, <2>4, <1>7, <1>8, <1>9
    <3>2. CASE x = old
      BY <3>2, <1>9
    <3>3. CASE x # n /\ x # old
      <4>1. x \in Live(memory) /\ memory'.prev[x] = memory.prev[x] /\ memory.prev[x] # NULL
        BY <3>3, <2>4, <1>9
      <4>2. memory.prev[x] \in Live(memory) /\ memory.next[memory.prev[x]] = x
        BY <4>1, <1>1, Typing DEF ListInAddressOrder
      <4> QED
        BY <3>3, <4>1, <4>2, <1>9
    <3> QED
      BY <3>1, <3>2, <3>3
  <2>5. ASSUME NEW x \in Live(memory'), memory'.next[x] # NULL
        PROVE  memory'.prev[memory'.next[x]] = x
    <3>1. CASE x = n
      BY <3>1, <1>9
    <3>2. CASE x \in Live(memory) /\ memory.next[x] = old
      <4>1. memory'.next[x] = n /\ x = prev
        BY <3>2, <1>8, <1>9
      <4> QED
        BY <4>1, <1>9
    <3>3. CASE x \in Live(memory) /\ memory.next[x] # old
      <4>1. memory'.next[x] = memory.next[x]
        BY <3>3, <1>9
      <4>2. memory.next[x] \in Live(memory) /\ memory.prev[memory.next[x]] = x
        BY <4>1, <3>3, <2>5, <1>1, Links
      <4> QED
        BY <4>1, <4>2, <3>3, <1>9
    <3> QED
      BY <3>1, <3>2, <3>3, <1>9
  <2>6. ASSUME NEW x \in Live(memory'), memory'.next[x] # NULL
        PROVE  memory'.block[memory'.next[x]].start_address
                 = memory'.block[x].start_address + memory'.block[x].size
    <3>1. CASE x = n
      BY <3>1, <1>9, <1>13
    <3>2. CASE x = old
      <4>1. /\ memory.next[old] # NULL /\ memory.next[old] # old
            /\ memory'.next[old] = memory.next[old]
        BY <2>6, <3>2, <1>3, <1>7, <1>8, <1>9 
      <4>2. memory.next[old] \in Live(memory) \ {old}
        BY <4>1, <1>1, <1>3, Typing
      <4>3. memory.block[memory.next[old]].start_address = b.start_address + b.size
        BY <4>1, <1>1, <1>3 DEF ListInAddressOrder, Start, End, Size, b
      <4>4. (b.start_address + req) + (b.size - req) = b.start_address + b.size
        BY <1>3
      <4> QED
        BY <3>2, <4>1, <4>2, <4>3, <4>4, <1>13
    <3>3. CASE x # n /\ x # old
      <4>1. x \in Live(memory) \ {old} /\ memory.next[x] # NULL
        BY <3>3, <2>6, <1>3, <1>4, <1>9
      <4>2. memory.block[memory.next[x]].start_address
                = memory.block[x].start_address + memory.block[x].size
        BY <4>1, <1>1 DEF ListInAddressOrder, Start, End, Size
      <4>3. CASE memory.next[x] = old
        BY <4>1, <4>2, <4>3, <1>9, <1>13 DEF b
      <4>4. CASE memory.next[x] # old
        <5>1. memory.next[x] \in Live(memory) \ {old}
          BY <4>1, <4>4, <1>1, Typing
        <5> QED
          BY <5>1, <4>1, <4>2, <4>4, <1>9, <1>13
      <4> QED
        BY <4>3, <4>4
    <3> QED
      BY <3>1, <3>2, <3>3
  <2>7. ASSUME NEW x \in Live(memory'), memory'.prev[x] # NULL
        PROVE  memory'.block[memory'.prev[x]].start_address
                 + memory'.block[memory'.prev[x]].size = memory'.block[x].start_address
    <3>1. memory'.prev[x] \in Live(memory') /\ memory'.next[memory'.prev[x]] = x
      BY <2>4, <2>7, <1>10
    <3>2. x # NULL
      BY <1>4, <1>7, <1>9
    <3> QED
      BY <3>1, <3>2, <2>6
  <2> QED
    BY <2>1, <2>2, <2>3, <2>4, <2>5, <2>6, <2>7 DEF ListInAddressOrder, Start, End, Size
<1>p. /\ b.start_address \in Nat /\ b.size \in Nat /\ req \in Nat
      /\ 0 < req /\ req < b.size
  BY <1>3
<1>15. BlocksPartitionMemory'
  (* What lies before or after old lies so to both of its parts. *)
  <2>1. ASSUME NEW x \in Live(memory) \ {old}
        PROVE  LET c == memory'.block[x] IN
               \/ c.start_address + c.size <= b.start_address
               \/ b.start_address + b.size <= c.start_address
    BY <1>1, <1>3, <1>13 DEF BlocksPartitionMemory, Start, End, Size, b
  <2>2. ASSUME NEW x \in Live(memory'), NEW y \in Live(memory'), x # y
        PROVE  LET c == memory'.block[x]
                   d == memory'.block[y] IN
               \/ c.start_address + c.size <= d.start_address
               \/ d.start_address + d.size <= c.start_address
    <3>1. \A z \in Live(memory) \ {old} : /\ memory'.block[z].start_address \in Nat
                                          /\ memory'.block[z].size \in Nat
      BY <1>1, <1>13, Typing
    <3>2. CASE x \in {n, old} /\ y \in {n, old}
      BY <2>2, <3>2, <1>3, <1>13
    (* Both parts of old lie within it *)
    <3>p. ASSUME NEW z \in {n, old}
          PROVE  LET c == memory'.block[z] IN
                 /\ c.start_address \in Nat /\ c.size \in Nat
                 /\ b.start_address <= c.start_address
                 /\ c.start_address + c.size <= b.start_address + b.size
      <4>1. CASE z = n
        BY <4>1, <1>p, <1>13
      <4>2. CASE z = old
        <5>1. /\ b.start_address + req \in Nat /\ b.size - req \in Nat
              /\ b.start_address <= b.start_address + req
              /\ (b.start_address + req) + (b.size - req) = b.start_address + b.size
          BY <1>p
        <5> HIDE DEF b
        <5> QED
          BY <4>2, <5>1, <1>13
      <4> QED
        BY <4>1, <4>2
    <3>q. ASSUME NEW z \in {n, old}, NEW w \in Live(memory) \ {old}
          PROVE  LET c == memory'.block[z]
                     d == memory'.block[w] IN
                 \/ c.start_address + c.size <= d.start_address
                 \/ d.start_address + d.size <= c.start_address
      <4> DEFINE c == memory'.block[z]
                 d == memory'.block[w]
      <4>1. /\ c.start_address \in Nat /\ c.size \in Nat
            /\ b.start_address <= c.start_address
            /\ c.start_address + c.size <= b.start_address + b.size
        BY <3>p
      <4>2. d.start_address + d.size <= b.start_address
              \/ b.start_address + b.size <= d.start_address
        BY <2>1
      <4>3. d.start_address \in Nat /\ d.size \in Nat
        BY <3>1
      <4> HIDE DEF c, d
      <4>4. \/ c.start_address + c.size <= d.start_address
            \/ d.start_address + d.size <= c.start_address
        BY <4>1, <4>2, <4>3, <1>p
      <4> QED
        BY <4>4 DEF c, d
    <3>3. CASE x \in {n, old} /\ y \notin {n, old}
      <4>1. y \in Live(memory) \ {old}
        BY <3>3, <1>9
      <4> QED
        BY <3>3, <4>1, <3>q
    <3>4. CASE x \notin {n, old} /\ y \in {n, old}
      <4>1. x \in Live(memory) \ {old}
        BY <3>4, <1>9
      <4> QED
        BY <3>4, <4>1, <3>q
    <3>5. CASE x \notin {n, old} /\ y \notin {n, old}
      <4>1. x \in Live(memory) \ {old} /\ y \in Live(memory) \ {old}
        BY <3>5, <1>9
      <4> QED
        BY <4>1, <2>2, <1>1, <1>13 DEF BlocksPartitionMemory, Start, End, Size
    <3> QED
      BY <3>2, <3>3, <3>4, <3>5
  <2>3. ASSUME NEW k \in 0 .. MEM_CAPACITY - 1
        PROVE  \E x \in Live(memory') :
                 /\ memory'.block[x].start_address <= k
                 /\ k < memory'.block[x].start_address + memory'.block[x].size
    <3>1. PICK x \in Live(memory) : Start(x) <= k /\ k < End(x)
      BY <1>1 DEF BlocksPartitionMemory
    <3>2. CASE x = old
      <4>1. k \in Int
        BY CapacityAssumption
      <4>2. b.start_address <= k /\ k < b.start_address + b.size
        BY <3>1, <3>2 DEF Start, End, Size, b
      <4>3. CASE k < b.start_address + req
        BY <4>1, <4>2, <4>3, <1>3, <1>9, <1>13
      <4>4. CASE ~(k < b.start_address + req)
        <5>1. /\ b.start_address + req <= k
              /\ k < (b.start_address + req) + (b.size - req)
          BY <4>1, <4>2, <4>4, <1>3
        <5> QED
          BY <5>1, <1>3, <1>9, <1>13
      <4> QED
        BY <4>3, <4>4
    <3>3. CASE x # old
      BY <3>1, <3>3, <1>9 DEF Start, End, Size
    <3> QED
      BY <3>2, <3>3
  <2> QED
    BY <2>2, <2>3, CapacityAssumption DEF BlocksPartitionMemory, Start, End, Size
<1>16. /\ memory'.block[n].type = "PROCESS"
       /\ \A x \in Live(memory) : memory'.block[x].type = memory.block[x].type
  BY <1>3, <1>5, <1>9 DEF IsHole
<1>17. BlocksOwned'
  <2>1. \A q \in Procs : block_node'[q] = IF q = p THEN n ELSE block_node[q]
    BY <1>1, <1>2 DEF TypeOK
  <2>2. \A q \in Procs : block_node[q] \in Live(memory) \cup {NULL}
    BY <1>1, Typing
  <2>3. \A q, r \in Procs :
          block_node'[q] = block_node'[r] /\ q # r => block_node'[q] = NULL
    BY <2>1, <2>2, <1>1, <1>7 DEF BlocksOwned
  <2>4. \A q \in Procs : block_node'[q] # NULL => memory'.block[block_node'[q]].type # "HOLE"
    BY <2>1, <2>2, <1>3, <1>16 DEF IsHole
  <2>5. \A x \in Live(memory') : memory'.block[x].type # "HOLE" =>
          \E q \in Procs : block_node'[q] = x
    <3> SUFFICES ASSUME NEW x \in Live(memory'), memory'.block[x].type # "HOLE"
                 PROVE  \E q \in Procs : block_node'[q] = x
      OBVIOUS
    <3>1. CASE x = n
      BY <3>1, <2>1
    <3>2. CASE x # n
      <4>1. x \in Live(memory) /\ ~IsHole(x) /\ x # NULL
        BY <3>2, <1>4, <1>9, <1>16 DEF IsHole
      <4>2. PICK q \in Procs : block_node[q] = x
        BY <4>1, <1>1 DEF BlocksOwned
      <4> QED
        BY <4>1, <4>2, <2>1
    <3> QED
      BY <3>1, <3>2
  <2> QED
    BY <2>3, <2>4, <2>5, <1>2, NullAssumption DEF BlocksOwned, IsHole
<1>18. HoleListExact'
  <2>1. \A x \in Live(memory') : Listed(holes', x) <=> memory'.block[x].type = "HOLE"
    <3>1. ~Listed(holes', n)
      BY <1>7, <1>11 DEF Listed
    <3> QED
      BY <3>1, <1>3, <1>9, <1>11, <1>16 DEF IsHole
  <2>2. \A j \in DOMAIN holes' :
          /\ holes'[j] \in Live(memory)
          /\ memory'.block[holes'[j]].size = Size(m, holes'[j])
    BY <1>6, <1>9, <1>11 DEF Size
  <2>3. \A j, k \in DOMAIN holes' : j < k =>
          /\ holes'[j] # holes'[k]
          /\ memory'.block[holes'[j]].size <= memory'.block[holes'[k]].size
    BY <2>2, <1>11 DEF Sorted
  <2> QED
    BY <2>1, <2>3, <1>2 DEF HoleListExact, Listed, IsHole, InFlight, Size
<1>19. Coalesced'
  <2>1. \A x \in Live(memory') : memory'.block[x].size > 0
    BY <1>1, <1>3, <1>9, <1>13 DEF Coalesced, Size
  <2>2. ASSUME NEW x \in Live(memory'), memory'.next[x] # NULL,
               memory'.block[x].type = "HOLE", memory'.block[memory'.next[x]].type = "HOLE"
        PROVE  FALSE
    <3>1. x # n /\ memory'.next[x] # n
      BY <2>2, <1>16
    <3>2. /\ x \in Live(memory) /\ memory'.next[x] = memory.next[x]
          /\ memory.next[x] # NULL
      BY <3>1, <2>2, <1>9
    <3>3. memory.next[x] \in Live(memory)
      BY <3>2, <1>1, Typing
    <3> QED
      BY <3>2, <3>3, <2>2, <1>3, <1>16 DEF IsHole
  <2> QED
    BY <2>1, <2>2, <1>2 DEF Coalesced, IsHole, InFlight, Size
<1> QED
  BY <1>12, <1>14, <1>15, <1>17, <1>18, <1>19 DEF IInv
-----------------------------------------------------------------------------
LEMMA BestFitIInv ==
  ASSUME IInv, NEW p \in Procs, NEW req \in Requirements, BestFit(p, req)
  PROVE  IInv'
<1>1. PICK i \in DOMAIN holes : /\ FirstFit(i, req)
                               /\ Split(p, req, holes[i], RemoveAt(holes, i))
  BY DEF BestFit
<1>2. freeing = NULL /\ block_node[p] = NULL /\ UNCHANGED <<freeing, direction>>
  BY DEF BestFit
<1>3. CASE memory.block[holes[i]].size - req = 0
  BY <1>1, <1>2, <1>3, ExactFitIInv
<1>4. CASE memory.block[holes[i]].size - req # 0
  BY <1>1, <1>2, <1>4, LooseFitIInv
<1> QED
  BY <1>3, <1>4

(* Every step of the allocator, and a step that leaves it alone, keeps the *)
(* inductive invariant.                                                    *)
LEMMA NextIInv == IInv /\ [Next]_vars => IInv'
<1> SUFFICES ASSUME IInv, [Next]_vars PROVE IInv'
  OBVIOUS
<1>1. ASSUME NEW p \in Procs, NEW req \in Requirements, BestFit(p, req)
      PROVE  IInv'
  BY <1>1, BestFitIInv
<1>2. ASSUME NEW p \in Procs, Deallocate(p)
      PROVE  IInv'
  BY <1>2, DeallocateIInv
<1>3. CASE Merge
  BY <1>3, MergeIInv
<1>4. CASE TurnLeft
  BY <1>4, TurnLeftIInv
<1>5. CASE EndDeallocate
  BY <1>5, EndDeallocateIInv
<1>6. CASE UNCHANGED vars
  BY <1>6 DEF vars, IInv, TypeOK, Pointer, ListInAddressOrder, BlocksPartitionMemory,
     BlocksOwned, HoleListExact, Coalesced, Start, End, Size, IsHole, InFlight
<1> QED
  BY <1>1, <1>2, <1>3, <1>4, <1>5, <1>6 DEF Next

(* The allocator's structures stay sound whatever processes of whatever    *)
(* size come and go, for every MEM_CAPACITY: what best_fit() and           *)
(* deallocate_memory() do to the links, the addresses, the hole list and   *)
(* the processes' block_node fits together after every step.               *)
THEOREM InductiveInvariant == Spec => []IInv
<1>1. Init => IInv
  BY InitIInv
<1>2. IInv /\ [Next]_vars => IInv'
  BY NextIInv
<1> QED
  BY <1>1, <1>2, PTL DEF Spec

(* No variable, no hole and no process_t.block_node ever points to a node  *)
(* that free() has released.                                               *)
THEOREM TypeCorrect == Spec => []TypeOK
<1>1. IInv => TypeOK
  BY DEF IInv
<1> QED
  BY <1>1, InductiveInvariant, PTL

(* The links of `memory`, the backward ones included, follow the addresses *)
(* from 0 to MEM_CAPACITY.                                                 *)
THEOREM AddressOrder == Spec => []ListInAddressOrder
<1>1. IInv => ListInAddressOrder
  BY DEF IInv
<1> QED
  BY <1>1, InductiveInvariant, PTL

(* No two blocks overlap and no address is lost: no process is ever given  *)
(* memory that another one holds.                                          *)
THEOREM MemoryPartitioned == Spec => []BlocksPartitionMemory
<1>1. IInv => BlocksPartitionMemory
  BY DEF IInv
<1> QED
  BY <1>1, InductiveInvariant, PTL

(* A block that is in use has exactly one owner.                           *)
THEOREM OneOwner == Spec => []BlocksOwned
<1>1. IInv => BlocksOwned
  BY DEF IInv
<1> QED
  BY <1>1, InductiveInvariant, PTL

(* The hole list holds each free block once, in order of size, so that the *)
(* first hole large enough is a best one and no free block is forgotten.   *)
THEOREM HolesExact == Spec => []HoleListExact
<1>1. IInv => HoleListExact
  BY DEF IInv
<1> QED
  BY <1>1, InductiveInvariant, PTL

(* deallocate_memory() leaves no two free blocks next to each other.       *)
THEOREM FullyCoalesced == Spec => []Coalesced
<1>1. IInv => Coalesced
  BY DEF IInv
<1> QED
  BY <1>1, InductiveInvariant, PTL
-----------------------------------------------------------------------------
(***************************************************************************)
(* MemoryAllocation implements AddressSpace: the steps of the lists, seen  *)
(* as what they do to the owners of the cells.  First, what a step does to *)
(* the blocks, without the links.                                          *)
(***************************************************************************)
LEMMA MergeBlocks ==
  ASSUME IInv, Merge
  PROVE  \E main, adj \in Live(memory) :
           /\ main = block_node[freeing] /\ IsHole(main) /\ IsHole(adj)
           /\ main \in Live(memory') /\ Live(memory') = Live(memory) \ {adj}
           /\ \A x \in Live(memory') : x # main => memory'.block[x] = memory.block[x]
           /\ \/ Start(main)' = Start(main) /\ End(main)' = End(adj)
              \/ Start(main)' = Start(adj) /\ End(main)' = End(main)
           /\ block_node' = block_node /\ freeing' = freeing
<1> DEFINE main == block_node[freeing]
           adj  == Adjacent
           a    == memory.block[adj]
           b    == memory.block[main]
           low  == IF a.start_address < b.start_address THEN a.start_address
                                                        ELSE b.start_address
           both == Block(b.type, low, b.size + a.size)
           m    == SetBlock(memory, main, both)
<1>1. TypeOK /\ ListInAddressOrder /\ Coalesced
  BY DEF IInv
<1>2. /\ freeing # NULL /\ AdjacentIsHole
      /\ block_node' = block_node /\ freeing' = freeing
      /\ memory' = DeleteNode(m, adj)
  BY DEF Merge, UpdateMemory
<1>3. /\ main \in Live(memory) /\ IsHole(main)
      /\ adj \in Live(memory) /\ IsHole(adj)
      /\ adj = memory.next[main] \/ adj = memory.prev[main]
      /\ adj # NULL
  BY <1>2, Freeing, Typing, <1>1
<1> HIDE DEF main, adj
<1>4. \/ a.start_address = b.start_address + b.size
      \/ b.start_address = a.start_address + a.size
  BY <1>1, <1>3, Links
<1>5. /\ a.start_address \in Nat /\ a.size \in Nat /\ a.size > 0
      /\ b.start_address \in Nat /\ b.size \in Nat /\ b.size > 0
  BY <1>1, <1>3, Typing DEF Coalesced, Size
<1>6. adj # main
  BY <1>4, <1>5
<1>7. both.start_address = low /\ both.size = b.size + a.size
  BY DEF Block
<1> HIDE DEF both
<1>8. /\ Live(memory') = Live(memory) \ {adj}
      /\ \A x \in Live(memory') :
           memory'.block[x] = IF x = main THEN both ELSE memory.block[x]
  <2>1. MemoryType(memory)
    BY <1>1, Typing
  <2>2. /\ Live(m) = Live(memory)
        /\ \A x \in Live(m) : m.block[x] = IF x = main THEN both ELSE memory.block[x]
    BY <1>3, <2>1, SetBlockFields
  <2> HIDE DEF m
  <2> QED
    BY <1>2, <2>2, DeleteNodeFields
<1>9. memory'.block[main] = both /\ main \in Live(memory')
  BY <1>3, <1>6, <1>8
<1>10. \/ both.start_address = b.start_address
          /\ both.start_address + both.size = a.start_address + a.size
       \/ both.start_address = a.start_address
          /\ both.start_address + both.size = b.start_address + b.size
  BY <1>4, <1>5, <1>7
<1>11. \/ memory'.block[main].start_address = b.start_address
          /\ memory'.block[main].start_address + memory'.block[main].size
               = a.start_address + a.size
       \/ memory'.block[main].start_address = a.start_address
          /\ memory'.block[main].start_address + memory'.block[main].size
               = b.start_address + b.size
  BY <1>9, <1>10
<1>12. PICK x, y : x = main /\ y = adj
  OBVIOUS
<1>13. /\ x \in Live(memory) /\ y \in Live(memory)
       /\ x = block_node[freeing] /\ IsHole(x) /\ IsHole(y)
       /\ x \in Live(memory') /\ Live(memory') = Live(memory) \ {y}
       /\ \A z \in Live(memory') : z # x => memory'.block[z] = memory.block[z]
       /\ block_node' = block_node /\ freeing' = freeing
  BY <1>2, <1>3, <1>8, <1>9, <1>12 DEF main
<1>14. \/ Start(x)' = Start(x) /\ End(x)' = End(y)
       \/ Start(x)' = Start(y) /\ End(x)' = End(x)
  BY <1>11, <1>12 DEF Start, End, Size
<1> HIDE DEF a, b, m, low
<1> QED
  BY <1>13, <1>14

LEMMA SplitBlocks ==
  ASSUME IInv, NEW p \in Procs, NEW req \in Requirements, BestFit(p, req)
  PROVE  \E i \in DOMAIN holes, n \in Live(memory') :
           /\ FirstFit(i, req) /\ freeing = NULL /\ freeing' = NULL
           /\ block_node[p] = NULL /\ block_node' = [block_node EXCEPT ![p] = n]
           /\ n \notin Live(memory) \ {holes[i]}
           /\ Live(memory') \subseteq Live(memory) \cup {n}
           /\ Live(memory) \ {holes[i]} \subseteq Live(memory')
           /\ Start(n)' = Start(holes[i]) /\ End(n)' = Start(holes[i]) + req
           /\ \A x \in Live(memory') \ {n} :
                IF x = holes[i]
                THEN Start(x)' = Start(x) + req /\ End(x)' = End(x)
                ELSE memory'.block[x] = memory.block[x]
<1>1. PICK i \in DOMAIN holes : /\ FirstFit(i, req)
                                /\ Split(p, req, holes[i], RemoveAt(holes, i))
  BY DEF BestFit
<1>2. /\ freeing = NULL /\ freeing' = NULL /\ block_node[p] = NULL
      /\ TypeOK
  BY DEF BestFit, IInv
<1>3. PICK old : old = holes[i]
  OBVIOUS
<1>4. /\ old \in Live(memory) /\ req \in Nat /\ req > 0
      /\ memory.block[old].start_address \in Nat
      /\ memory.block[old].size \in Nat
      /\ memory.block[old].size >= req
      /\ MemoryType(memory)
  BY <1>1, <1>2, <1>3, ChosenHole, Typing
<1> DEFINE b    == memory.block[old]
           used == Block("PROCESS", b.start_address, req)
           free == Block("HOLE", b.start_address + req, b.size - req)
           m    == IF free.size = 0 THEN DeleteNode(memory, old)
                                    ELSE SetBlock(memory, old, free)
           next == IF free.size = 0 THEN memory.next[old] ELSE old
<1>5. PICK n : n = Malloc(Live(m))
  OBVIOUS
<1>6. /\ Nodes \ Live(m) # {}
      /\ memory' = InsertNode(m, n, used, memory.prev[old], next)
      /\ block_node' = [block_node EXCEPT ![p] = n]
  BY <1>1, <1>3, <1>5 DEF Split
<1>7. /\ used.start_address = b.start_address /\ used.size = req
      /\ free.start_address = b.start_address + req /\ free.size = b.size - req
  BY DEF Block
<1>8. n \notin Live(m)
  BY <1>5, <1>6 DEF Malloc
<1>9. /\ Live(m) \subseteq Live(memory) /\ Live(memory) \ {old} \subseteq Live(m)
      /\ \A x \in Live(m) : m.block[x] = IF x = old THEN free ELSE memory.block[x]
  <2>1. CASE free.size = 0
    BY <2>1, DeleteNodeFields
  <2>2. CASE free.size # 0
    BY <2>2, <1>4, SetBlockFields
  <2> QED
    BY <2>1, <2>2
<1> HIDE DEF m, next, used, free
<1>10. /\ Live(memory') = Live(m) \cup {n}
       /\ \A x \in Live(memory') :
            memory'.block[x] = IF x = n THEN used ELSE m.block[x]
  BY <1>6, InsertNodeFields
<1>11. /\ n \in Live(memory') /\ n \notin Live(memory) \ {old}
       /\ Live(memory') \subseteq Live(memory) \cup {n}
       /\ Live(memory) \ {old} \subseteq Live(memory')
  BY <1>8, <1>9, <1>10
<1>12. Start(n)' = Start(old) /\ End(n)' = Start(old) + req
  BY <1>7, <1>10, <1>11 DEF Start, End, Size
<1>13. ASSUME NEW x \in Live(memory') \ {n}
       PROVE  IF x = old
              THEN Start(x)' = Start(x) + req /\ End(x)' = End(x)
              ELSE memory'.block[x] = memory.block[x]
  <2>1. memory'.block[x] = IF x = old THEN free ELSE memory.block[x]
    BY <1>9, <1>10, <1>13
  <2>2. CASE x = old
    <3>1. (b.start_address + req) + (b.size - req) = b.start_address + b.size
      BY <1>4
    <3> QED
      BY <1>7, <2>1, <2>2, <3>1 DEF Start, End, Size
  <2> QED
    BY <2>1, <2>2
<1>14. \A x \in Live(memory') \ {n} :
         IF x = holes[i]
         THEN Start(x)' = Start(x) + req /\ End(x)' = End(x)
         ELSE memory'.block[x] = memory.block[x]
  BY <1>3, <1>13
<1>15. /\ n \in Live(memory') /\ n \notin Live(memory) \ {holes[i]}
       /\ Live(memory') \subseteq Live(memory) \cup {n}
       /\ Live(memory) \ {holes[i]} \subseteq Live(memory')
       /\ Start(n)' = Start(holes[i]) /\ End(n)' = Start(holes[i]) + req
  BY <1>3, <1>11, <1>12
<1>16. block_node' = [block_node EXCEPT ![p] = n]
  BY <1>6
<1> QED
  BY <1>1, <1>2, <1>14, <1>15, <1>16
-----------------------------------------------------------------------------
(***************************************************************************)
(* No block ends behind the memory.  The walk along the links says so too, *)
(* but it would take an induction.                                         *)
(***************************************************************************)
WithinMemory == \A n \in Live(memory) : End(n) <= MEM_CAPACITY

LEMMA BlockBounds ==
  ASSUME IInv, NEW n \in Live(memory)
  PROVE  /\ Start(n) \in Nat /\ End(n) \in Nat /\ Start(n) < End(n)
         /\ n # NULL
<1>1. TypeOK /\ Coalesced
  BY DEF IInv
<1>2. /\ memory.block[n].start_address \in Nat
      /\ memory.block[n].size \in Nat /\ memory.block[n].size > 0
      /\ n # NULL
  BY <1>1, Typing DEF Coalesced, Size
<1> QED
  BY <1>2 DEF Start, End, Size

LEMMA InitWithinMemory == Init => WithinMemory
<1> SUFFICES ASSUME Init PROVE WithinMemory
  OBVIOUS
<1>1. /\ Live(memory) = {Malloc({})}
      /\ \A n \in Live(memory) : memory.block[n] = Block("HOLE", 0, MEM_CAPACITY)
  BY DEF Init, Live
<1> QED
  BY <1>1, CapacityAssumption DEF WithinMemory, End, Start, Size, Block

LEMMA NextWithinMemory == IInv /\ WithinMemory /\ [Next]_vars => WithinMemory'
<1> SUFFICES ASSUME IInv, WithinMemory, [Next]_vars
             PROVE  WithinMemory'
  OBVIOUS
<1>1. ASSUME NEW p \in Procs, NEW req \in Requirements, BestFit(p, req)
      PROVE  WithinMemory'
  <2>1. PICK i \in DOMAIN holes, n \in Live(memory') :
          /\ FirstFit(i, req) /\ freeing = NULL
          /\ Live(memory') \subseteq Live(memory) \cup {n}
          /\ Start(n)' = Start(holes[i]) /\ End(n)' = Start(holes[i]) + req
          /\ \A x \in Live(memory') \ {n} :
               IF x = holes[i]
               THEN Start(x)' = Start(x) + req /\ End(x)' = End(x)
               ELSE memory'.block[x] = memory.block[x]
    BY <1>1, SplitBlocks
  <2>2. /\ holes[i] \in Live(memory)
        /\ memory.block[holes[i]].start_address \in Nat
        /\ memory.block[holes[i]].size \in Nat /\ req \in Nat
        /\ memory.block[holes[i]].size >= req
    BY <2>1, ChosenHole
  <2>3. End(holes[i]) <= MEM_CAPACITY
    BY <2>2 DEF WithinMemory
  <2>4. End(n)' <= MEM_CAPACITY
    BY <2>1, <2>2, <2>3, CapacityAssumption DEF Start, End, Size
  <2>5. ASSUME NEW x \in Live(memory') \ {n}
        PROVE  End(x)' <= MEM_CAPACITY
    <3>1. End(x)' = End(x) /\ x \in Live(memory)
      BY <2>1 DEF End, Start, Size
    <3> QED
      BY <3>1 DEF WithinMemory
  <2>6. \A x \in Live(memory') : End(x)' <= MEM_CAPACITY
    BY <2>4, <2>5
  <2> QED
    BY <2>6 DEF WithinMemory
<1>2. ASSUME NEW p \in Procs, Deallocate(p)
      PROVE  WithinMemory'
  <2>1. MemoryType(memory) /\ block_node[p] \in Live(memory)
    BY <1>2, Typing DEF Deallocate, IInv
  <2>2. PICK n, b : n = block_node[p] /\ b = memory.block[n]
    OBVIOUS
  <2>3. memory' = SetBlock(memory, n, Block("HOLE", b.start_address, b.size))
    BY <1>2, <2>2 DEF Deallocate
  <2>4. \A x \in Live(memory') : x \in Live(memory) /\ End(x)' = End(x)
    BY <2>1, <2>2, <2>3, SetBlockFields DEF End, Start, Size, Block
  <2> QED
    BY <2>4 DEF WithinMemory
<1>3. ASSUME Merge
      PROVE  WithinMemory'
  <2>1. PICK main \in Live(memory), adj \in Live(memory) :
          /\ Live(memory') = Live(memory) \ {adj}
          /\ \A x \in Live(memory') : x # main => memory'.block[x] = memory.block[x]
          /\ End(main)' = End(adj) \/ End(main)' = End(main)
    BY <1>3, MergeBlocks
  <2>2. \A x \in Live(memory') : x # main => End(x)' = End(x)
    BY <2>1 DEF End, Start, Size
  <2> QED
    BY <2>1, <2>2 DEF WithinMemory
<1>4. CASE TurnLeft \/ EndDeallocate \/ UNCHANGED vars
  <2>1. memory' = memory
    BY <1>4 DEF TurnLeft, EndDeallocate, vars
  <2> QED
    BY <2>1 DEF WithinMemory, End, Start, Size
<1> QED
  BY <1>1, <1>2, <1>3, <1>4 DEF Next

(* Every block lies within the memory. *)
THEOREM BlocksWithinMemory == Spec => []WithinMemory
  BY InitWithinMemory, NextWithinMemory, InductiveInvariant, PTL DEF Spec
-----------------------------------------------------------------------------
(***************************************************************************)
(* Who owns a cell.                                                        *)
(***************************************************************************)
Addresses == 0 .. MEM_CAPACITY - 1

OwnersMatch ==
  \A a \in Addresses : /\ owner[a] \in Procs \cup {NULL}
                       /\ \A p \in Procs : owner[a] = p <=> Owns(p, a)

LEMMA OneBlockPerCell ==
  ASSUME IInv, NEW m \in Live(memory), NEW n \in Live(memory), NEW a \in Int,
         Start(m) <= a, a < End(m), Start(n) <= a, a < End(n)
  PROVE  m = n
<1>1. Start(m) \in Nat /\ End(m) \in Nat /\ Start(n) \in Nat /\ End(n) \in Nat
  BY BlockBounds
<1>2. m # n => End(m) <= Start(n) \/ End(n) <= Start(m)
  BY DEF IInv, BlocksPartitionMemory
<1> QED
  BY <1>1, <1>2

LEMMA CellHasBlock ==
  ASSUME IInv, NEW a \in Addresses
  PROVE  \E n \in Live(memory) : Start(n) <= a /\ a < End(n)
  BY DEF IInv, BlocksPartitionMemory, Addresses

(* A process owns a cell if it owns the block that covers it. *)
LEMMA OwnsItsBlock ==
  ASSUME IInv, NEW n \in Live(memory), NEW a \in Int, Start(n) <= a, a < End(n),
         NEW p \in Procs
  PROVE  Owns(p, a) <=> block_node[p] = n /\ p # freeing
<1>1. block_node[p] \in Live(memory) \cup {NULL} /\ n # NULL
  BY Typing, BlockBounds DEF IInv
<1> QED
  BY <1>1, OneBlockPerCell DEF Owns

LEMMA OwnersAreUnique == IInv => OwnersMatch
<1> SUFFICES ASSUME IInv, NEW a \in Addresses
             PROVE  /\ owner[a] \in Procs \cup {NULL}
                    /\ \A p \in Procs : owner[a] = p <=> Owns(p, a)
  BY DEF OwnersMatch
<1>1. owner[a] = IF \E p \in Procs : Owns(p, a) THEN CHOOSE p \in Procs : Owns(p, a)
                                               ELSE NULL
  BY DEF owner, Addresses
<1>2. PICK n \in Live(memory) : Start(n) <= a /\ a < End(n)
  BY CellHasBlock
<1>3. \A p, q \in Procs : Owns(p, a) /\ Owns(q, a) => p = q
  <2>1. ASSUME NEW p \in Procs, NEW q \in Procs, Owns(p, a), Owns(q, a)
        PROVE  p = q
    <3>1. block_node[p] = n /\ block_node[q] = n /\ n # NULL
      BY <1>2, <2>1, OwnsItsBlock, BlockBounds DEF Addresses
    <3> QED
      BY <3>1 DEF IInv, BlocksOwned
  <2> QED
    BY <2>1
<1>4. NULL \notin Procs
  BY NullAssumption
<1>5. CASE \E p \in Procs : Owns(p, a)
  <2>1. owner[a] \in Procs /\ Owns(owner[a], a)
    BY <1>1, <1>5
  <2> QED
    BY <1>3, <2>1
<1>6. CASE ~\E p \in Procs : Owns(p, a)
  BY <1>1, <1>4, <1>6
<1> QED
  BY <1>5, <1>6

(* A cell is free exactly if its block is a hole. *)
LEMMA FreeCells ==
  ASSUME IInv, NEW n \in Live(memory), NEW a \in Addresses, Start(n) <= a, a < End(n)
  PROVE  owner[a] = NULL <=> IsHole(n)
<1>1. OwnersMatch /\ NULL \notin Procs
  BY OwnersAreUnique, NullAssumption
<1>2. owner[a] = NULL <=> \A p \in Procs : ~Owns(p, a)
  BY <1>1 DEF OwnersMatch
<1>3. \A p \in Procs : Owns(p, a) <=> block_node[p] = n /\ p # freeing
  BY OwnsItsBlock DEF Addresses
<1>4. n # NULL
  BY BlockBounds
<1>5. /\ \A p \in Procs : block_node[p] = n => (IsHole(n) <=> p = freeing)
      /\ ~IsHole(n) => \E p \in Procs : block_node[p] = n
  BY <1>4 DEF IInv, BlocksOwned
<1> QED
  BY <1>2, <1>3, <1>5
-----------------------------------------------------------------------------
(***************************************************************************)
(* The steps inside deallocate_memory() change no owner.                   *)
(***************************************************************************)
LEMMA OwnersMatchNext == IInv' => OwnersMatch'
  BY OwnersAreUnique, PTL

LEMMA SameOwners ==
  ASSUME IInv, IInv',
         \A p \in Procs, a \in Addresses : Owns(p, a)' <=> Owns(p, a)
  PROVE  UNCHANGED owner
<1>1. OwnersMatch /\ OwnersMatch' /\ NULL \notin Procs
  BY OwnersAreUnique, OwnersMatchNext, NullAssumption
<1>2. ASSUME NEW a \in Addresses
      PROVE  owner'[a] = owner[a]
  <2>1. /\ owner[a] \in Procs \cup {NULL} /\ owner'[a] \in Procs \cup {NULL}
        /\ \A p \in Procs : owner[a] = p <=> owner'[a] = p
    BY <1>1 DEF OwnersMatch
  <2> QED
    BY <1>1, <2>1
<1>3. owner = [a \in Addresses |-> owner[a]] /\ owner' = [a \in Addresses |-> owner'[a]]
  BY DEF owner, Addresses
<1> QED
  BY <1>2, <1>3

LEMMA MergeOwners ==
  ASSUME IInv, IInv', Merge
  PROVE  UNCHANGED owner
<1>1. PICK main \in Live(memory), adj \in Live(memory) :
        /\ main = block_node[freeing] /\ IsHole(main) /\ IsHole(adj)
        /\ Live(memory') = Live(memory) \ {adj}
        /\ \A x \in Live(memory') : x # main => memory'.block[x] = memory.block[x]
        /\ block_node' = block_node /\ freeing' = freeing
  BY MergeBlocks
<1>2. ASSUME NEW p \in Procs, NEW a \in Addresses
      PROVE  Owns(p, a)' <=> Owns(p, a)
  <2>1. CASE block_node[p] = NULL \/ p = freeing
    BY <1>1, <2>1 DEF Owns
  <2>2. CASE block_node[p] # NULL /\ p # freeing
    <3>1. block_node[p] \in Live(memory) /\ ~IsHole(block_node[p])
      BY <2>2, Typing DEF IInv, BlocksOwned
    <3>2. PICK n : n = block_node[p]
      OBVIOUS
    <3>3. memory'.block[n] = memory.block[n] /\ block_node'[p] = n
      BY <1>1, <3>1, <3>2
    <3> QED
      BY <1>1, <3>2, <3>3 DEF Owns, Start, End, Size
  <2> QED
    BY <2>1, <2>2
<1> QED
  BY <1>2, SameOwners

LEMMA EndDeallocateOwners ==
  ASSUME IInv, IInv', EndDeallocate
  PROVE  UNCHANGED owner
<1>1. /\ memory' = memory /\ freeing \in Procs /\ freeing' = NULL
      /\ block_node' = [block_node EXCEPT ![freeing] = NULL]
      /\ NULL \notin Procs /\ DOMAIN block_node = Procs
  BY Freeing, Typing, NullAssumption DEF EndDeallocate, IInv
<1>2. ASSUME NEW p \in Procs, NEW a \in Addresses
      PROVE  Owns(p, a)' <=> Owns(p, a)
  <2>1. CASE p = freeing
    BY <1>1, <2>1 DEF Owns
  <2>2. CASE p # freeing
    BY <1>1, <2>2 DEF Owns, Start, End, Size
  <2> QED
    BY <2>1, <2>2
<1> QED
  BY <1>2, SameOwners

LEMMA OtherOwners ==
  ASSUME IInv, IInv', TurnLeft \/ UNCHANGED vars
  PROVE  UNCHANGED owner
<1>1. UNCHANGED <<memory, block_node, freeing>>
  BY DEF TurnLeft, vars
<1>2. ASSUME NEW p \in Procs, NEW a \in Addresses
      PROVE  Owns(p, a)' <=> Owns(p, a)
  BY <1>1 DEF Owns, Start, End, Size
<1> QED
  BY <1>2, SameOwners
-----------------------------------------------------------------------------
(***************************************************************************)
(* Entering deallocate_memory() gives all cells of the process back.       *)
(***************************************************************************)
LEMMA DeallocateOwners ==
  ASSUME IInv, IInv', WithinMemory, NEW p \in Procs, Deallocate(p)
  PROVE  Abstract!Deallocate(p)
<1>1. /\ OwnersMatch /\ OwnersMatch' /\ NULL \notin Procs
      /\ MemoryType(memory) /\ block_node[p] \in Live(memory)
      /\ freeing = NULL /\ freeing' = p /\ block_node' = block_node
  BY OwnersAreUnique, OwnersMatchNext, NullAssumption, Typing DEF Deallocate, IInv
<1>2. PICK n, b : n = block_node[p] /\ b = memory.block[n]
  OBVIOUS
<1>3. memory' = SetBlock(memory, n, Block("HOLE", b.start_address, b.size))
  BY <1>2 DEF Deallocate
<1>4. \A x \in Live(memory) : Start(x)' = Start(x) /\ End(x)' = End(x)
  BY <1>1, <1>2, <1>3, SetBlockFields DEF End, Start, Size, Block
<1>5. ASSUME NEW q \in Procs, NEW a \in Addresses
      PROVE  Owns(q, a)' <=> Owns(q, a) /\ q # p
  <2>1. CASE block_node[q] = NULL
    BY <1>1, <2>1 DEF Owns
  <2>2. CASE block_node[q] # NULL
    <3>1. PICK x \in Live(memory) : x = block_node[q] /\ x = block_node'[q]
      BY <1>1, <2>2, Typing DEF IInv
    <3> QED
      BY <1>1, <1>4, <3>1 DEF Owns
  <2> QED
    BY <2>1, <2>2
<1>6. ASSUME NEW a \in Addresses
      PROVE  owner'[a] = IF owner[a] = p THEN NULL ELSE owner[a]
  <2>1. /\ owner[a] \in Procs \cup {NULL} /\ owner'[a] \in Procs \cup {NULL}
        /\ \A q \in Procs : owner'[a] = q <=> owner[a] = q /\ q # p
    BY <1>1, <1>5 DEF OwnersMatch
  <2> QED
    BY <1>1, <2>1
<1>7. owner' = [a \in Addresses |-> IF owner[a] = p THEN NULL ELSE owner[a]]
  BY <1>6 DEF owner, Addresses
<1>8. Start(n) \in Addresses /\ Owns(p, Start(n))
  <2>1. Start(n) \in Nat /\ End(n) \in Nat /\ Start(n) < End(n) /\ End(n) <= MEM_CAPACITY
    BY <1>1, <1>2, BlockBounds DEF WithinMemory
  <2> QED
    BY <1>1, <1>2, <2>1, CapacityAssumption, BlockBounds DEF Addresses, Owns
<1>9. owner[Start(n)] = p
  BY <1>1, <1>8 DEF OwnersMatch
<1> QED
  BY <1>7, <1>8, <1>9
     DEF Abstract!Deallocate, Abstract!CellsOf, Abstract!Addresses, Addresses
-----------------------------------------------------------------------------
(***************************************************************************)
(* best_fit().  A hole is a gap: its cells are free, and the cells next to *)
(* it are not, as its neighbours are not holes.  A gap is a hole, for the  *)
(* same reason.                                                            *)
(***************************************************************************)
LEMMA HoleIsGap ==
  ASSUME IInv, WithinMemory, freeing = NULL, NEW n \in Live(memory), IsHole(n)
  PROVE  Abstract!IsGap(Start(n), End(n) - Start(n))
<1>1. TypeOK /\ ListInAddressOrder /\ Coalesced
  BY DEF IInv
<1>2. /\ Start(n) \in Nat /\ End(n) \in Nat /\ Start(n) < End(n) /\ End(n) <= MEM_CAPACITY
      /\ MEM_CAPACITY \in Nat
  BY BlockBounds, CapacityAssumption DEF WithinMemory
<1>3. \A x : ~InFlight(x)
  BY DEF InFlight
<1>4. ASSUME Start(n) > 0
      PROVE  owner[Start(n) - 1] # NULL
  <2>1. PICK x : x = memory.prev[n]
    OBVIOUS
  <2>2. x # NULL
    <3>1. n # memory.head
      BY <1>1, <1>4 DEF ListInAddressOrder
    <3> QED
      BY <1>1, <2>1, <3>1, Links
  <2>3. x \in Live(memory) /\ memory.next[x] = n /\ End(x) = Start(n)
    BY <1>1, <2>1, <2>2, Links DEF End, Start, Size
  <2>4. ~IsHole(x) /\ Start(x) \in Nat /\ Start(x) < Start(n)
    BY <1>1, <1>3, <2>3, BlockBounds DEF Coalesced
  <2>5. Start(n) - 1 \in Addresses /\ Start(x) <= Start(n) - 1 /\ Start(n) - 1 < End(x)
    BY <1>2, <1>4, <2>3, <2>4 DEF Addresses
  <2> QED
    BY <2>3, <2>4, <2>5, FreeCells
<1>5. ASSUME End(n) < MEM_CAPACITY
      PROVE  owner[End(n)] # NULL
  <2>1. PICK x : x = memory.next[n]
    OBVIOUS
  <2>2. x # NULL
    <3>1. n # memory.tail
      BY <1>1, <1>2, <1>5 DEF ListInAddressOrder
    <3> QED
      BY <1>1, <2>1, <3>1, Links
  <2>3. x \in Live(memory) /\ Start(x) = End(n)
    BY <1>1, <2>1, <2>2, Links DEF End, Start, Size
  <2>4. ~IsHole(x) /\ End(n) < End(x)
    BY <1>1, <1>3, <2>1, <2>2, <2>3, BlockBounds DEF Coalesced
  <2>5. End(n) \in Addresses
    BY <1>2, <1>5 DEF Addresses
  <2> QED
    BY <1>2, <2>3, <2>4, <2>5, FreeCells
<1>6. ASSUME NEW a \in Start(n) .. End(n) - 1
      PROVE  owner[a] = NULL
  <2>1. a \in Addresses /\ Start(n) <= a /\ a < End(n)
    BY <1>2 DEF Addresses
  <2> QED
    BY <2>1, FreeCells
<1>7. PICK s, e : s = Start(n) /\ e = End(n)
  OBVIOUS
<1>8. /\ e - s > 0 /\ s + (e - s) = e
  BY <1>2, <1>7
<1> QED
  BY <1>2, <1>4, <1>5, <1>6, <1>7, <1>8 DEF Abstract!IsGap

LEMMA GapIsHole ==
  ASSUME IInv, WithinMemory, NEW base \in Addresses, NEW len \in 1 .. MEM_CAPACITY,
         freeing = NULL, Abstract!IsGap(base, len)
  PROVE  \E n \in Live(memory) : IsHole(n) /\ Start(n) = base /\ End(n) = base + len
<1>1. TypeOK /\ ListInAddressOrder /\ Coalesced
  BY DEF IInv
<1>2. /\ base + len <= MEM_CAPACITY
      /\ base > 0 => owner[base - 1] # NULL
      /\ base + len < MEM_CAPACITY => owner[base + len] # NULL
      /\ \A a \in base .. base + len - 1 : owner[a] = NULL
  BY DEF Abstract!IsGap
<1>3. base \in Nat /\ len \in Nat /\ len > 0 /\ MEM_CAPACITY \in Nat
  BY CapacityAssumption DEF Addresses
<1>4. PICK n \in Live(memory) : Start(n) <= base /\ base < End(n)
  BY CellHasBlock
<1>5. Start(n) \in Nat /\ End(n) \in Nat /\ End(n) <= MEM_CAPACITY
  BY BlockBounds DEF WithinMemory
<1>6. IsHole(n)
  <2>1. owner[base] = NULL
    BY <1>2, <1>3
  <2> QED
    BY <1>4, <2>1, FreeCells
<1>7. Start(n) = base
  <2>1. ASSUME Start(n) < base
        PROVE  FALSE
    <3>1. base - 1 \in Addresses /\ Start(n) <= base - 1 /\ base - 1 < End(n) /\ base > 0
      BY <1>3, <1>4, <1>5, <2>1 DEF Addresses
    <3> QED
      BY <1>2, <1>6, <3>1, FreeCells
  <2> QED
    BY <1>3, <1>4, <1>5, <2>1
<1>8. End(n) <= base + len
  <2>1. ASSUME End(n) > base + len
        PROVE  FALSE
    <3>1. /\ base + len \in Addresses /\ Start(n) <= base + len /\ base + len < End(n)
          /\ base + len < MEM_CAPACITY
      BY <1>3, <1>5, <1>7, <2>1 DEF Addresses
    <3> QED
      BY <1>2, <1>6, <3>1, FreeCells
  <2> QED
    BY <1>3, <1>5, <2>1
<1>9. End(n) >= base + len
  <2>1. ASSUME End(n) < base + len
        PROVE  FALSE
    <3>1. PICK x : x = memory.next[n]
      OBVIOUS
    <3>2. x # NULL
      <4>1. n # memory.tail
        BY <1>1, <1>2, <1>3, <1>5, <2>1 DEF ListInAddressOrder
      <4> QED
        BY <1>1, <3>1, <4>1, Links
    <3>3. x \in Live(memory) /\ Start(x) = End(n)
      BY <1>1, <3>1, <3>2, Links DEF End, Start, Size
    <3>4. End(n) \in Addresses /\ End(n) \in base .. base + len - 1
      BY <1>2, <1>3, <1>4, <1>5, <2>1 DEF Addresses
    <3>5. Start(x) <= End(n) /\ End(n) < End(x)
      BY <1>5, <3>3, BlockBounds
    <3>6. IsHole(x)
      BY <1>2, <3>3, <3>4, <3>5, FreeCells
    <3> QED
      BY <1>1, <1>6, <3>1, <3>2, <3>6 DEF Coalesced, InFlight
  <2> QED
    BY <1>3, <1>5, <2>1
<1> QED
  BY <1>3, <1>5, <1>6, <1>7, <1>8, <1>9

LEMMA BestFitOwners ==
  ASSUME IInv, IInv', WithinMemory, NEW p \in Procs, NEW req \in Requirements,
         BestFit(p, req)
  PROVE  Abstract!Allocate(p, req)
<1>1. PICK i \in DOMAIN holes, n \in Live(memory') :
        /\ FirstFit(i, req) /\ freeing = NULL /\ freeing' = NULL
        /\ block_node[p] = NULL /\ block_node' = [block_node EXCEPT ![p] = n]
        /\ n \notin Live(memory) \ {holes[i]}
        /\ Live(memory) \ {holes[i]} \subseteq Live(memory')
        /\ Start(n)' = Start(holes[i]) /\ End(n)' = Start(holes[i]) + req
        /\ \A x \in Live(memory') \ {n} :
             x # holes[i] => memory'.block[x] = memory.block[x]
  BY SplitBlocks
<1>2. PICK old : old = holes[i]
  OBVIOUS
<1>3. /\ old \in Live(memory) /\ IsHole(old)
      /\ req \in Nat /\ req > 0 /\ Size(memory, old) >= req
      /\ Size(memory, old) \in Nat
      /\ \A q \in Procs : block_node[q] # old
      /\ \A x \in Live(memory) : Listed(holes, x) <=> IsHole(x)
  BY <1>1, <1>2, ChosenHole DEF Size
<1>4. /\ OwnersMatch /\ OwnersMatch' /\ NULL \notin Procs
      /\ block_node \in [Procs -> Live(memory) \cup {NULL}]
      /\ \A x \in Live(memory') : x # NULL
  <2>1. Live(memory') \subseteq Nodes
    BY DEF IInv, TypeOK
  <2> QED
    BY <2>1, OwnersAreUnique, OwnersMatchNext, NullAssumption DEF IInv, TypeOK, Pointer
<1>5. /\ Start(old) \in Nat /\ End(old) \in Nat /\ End(old) <= MEM_CAPACITY
      /\ End(old) - Start(old) = Size(memory, old)
      /\ MEM_CAPACITY \in Nat
  <2>1. /\ Start(old) \in Nat /\ End(old) \in Nat /\ End(old) <= MEM_CAPACITY
        /\ MEM_CAPACITY \in Nat
    BY <1>3, BlockBounds, CapacityAssumption DEF WithinMemory
  <2>2. End(old) = Start(old) + Size(memory, old)
    BY DEF End
  <2> QED
    BY <1>3, <2>1, <2>2
<1> DEFINE low == Start(old) .. Start(old) + req - 1
(* The new block has the low end of the hole; the others are as before. *)
<1>6. ASSUME NEW q \in Procs, NEW a \in Addresses
      PROVE  Owns(q, a)' <=> IF q = p THEN a \in low ELSE Owns(q, a)
  <2>1. CASE q = p
    <3>1. block_node'[q] = n /\ n # NULL /\ q # freeing'
      BY <1>1, <1>4, <2>1
    <3>2. Owns(q, a)' <=> Start(n)' <= a /\ a < End(n)'
      BY <3>1 DEF Owns
    <3> QED
      BY <1>1, <1>2, <1>3, <1>5, <2>1, <3>2 DEF Addresses
  <2>2. CASE q # p
    <3>1. PICK x : x = block_node[q] /\ x = block_node'[q]
      BY <1>1, <1>4, <2>2
    <3>2. q # freeing /\ q # freeing'
      BY <1>1, <1>4
    <3>3. CASE x = NULL
      BY <2>2, <3>1, <3>3 DEF Owns
    <3>4. CASE x # NULL
      <4>1. x \in Live(memory) /\ x # old
        BY <1>3, <1>4, <3>1, <3>4
      <4>2. memory'.block[x] = memory.block[x]
        BY <1>1, <1>2, <4>1
      <4> QED
        BY <2>2, <3>1, <3>2, <4>2 DEF Owns, Start, End, Size
    <3> QED
      BY <3>3, <3>4
  <2> QED
    BY <2>1, <2>2
<1>7. ASSUME NEW a \in Addresses
      PROVE  owner[a] # p /\ owner'[a] = IF a \in low THEN p ELSE owner[a]
  <2>1. ~Owns(p, a)
    BY <1>1 DEF Owns
  <2>2. /\ owner[a] \in Procs \cup {NULL} /\ owner'[a] \in Procs \cup {NULL}
        /\ \A q \in Procs : owner'[a] = q <=> IF q = p THEN a \in low ELSE owner[a] = q
    BY <1>4, <1>6 DEF OwnersMatch
  <2>3. owner[a] # p
    BY <1>4, <2>1 DEF OwnersMatch
  <2> QED
    BY <1>4, <2>2, <2>3
<1>8. owner' = [a \in Addresses |-> IF a \in low THEN p ELSE owner[a]]
  BY <1>7 DEF owner, Addresses
<1>9. Abstract!CellsOf(p) = {}
  BY <1>7 DEF Abstract!CellsOf, Abstract!Addresses, Addresses
(* It is the best hole. *)
<1> DEFINE gap == <<Start(old), Size(memory, old)>>
<1>10. gap \in Abstract!Fitting(req)
  <2>1. Abstract!IsGap(Start(old), Size(memory, old))
    BY <1>1, <1>3, <1>5, HoleIsGap
  <2>2. Start(old) \in Abstract!Addresses /\ Size(memory, old) \in 1 .. MEM_CAPACITY
    BY <1>3, <1>5 DEF Abstract!Addresses
  <2> QED
    BY <1>3, <2>1, <2>2 DEF Abstract!Fitting
<1>11. ASSUME NEW g \in Abstract!Fitting(req)
       PROVE  Size(memory, old) <= g[2]
  <2>1. PICK base \in Addresses, len \in 1 .. MEM_CAPACITY :
          g = <<base, len>> /\ len >= req /\ Abstract!IsGap(base, len)
    BY DEF Abstract!Fitting, Abstract!Addresses, Addresses
  <2>2. PICK x \in Live(memory) : IsHole(x) /\ Start(x) = base /\ End(x) = base + len
    BY <1>1, <2>1, GapIsHole
  <2>3. Size(memory, x) = len
    <3>1. Size(memory, x) \in Nat /\ base \in Nat /\ len \in Nat
      BY <1>5, Typing DEF IInv, Size, Addresses
    <3>2. End(x) = Start(x) + Size(memory, x)
      BY DEF End
    <3> QED
      BY <2>2, <3>1, <3>2
  <2>4. PICK j \in DOMAIN holes : holes[j] = x
    BY <1>3, <2>2 DEF Listed
  <2>5. i \in Nat /\ j \in Nat /\ ~(j \in 1 .. i - 1)
    <3>1. DOMAIN holes = 1 .. Len(holes) /\ Len(holes) \in Nat
      BY Typing DEF IInv
    <3>2. ASSUME j \in 1 .. i - 1
          PROVE  FALSE
      <4>1. Size(memory, holes[j]) < req
        BY <1>1, <3>2 DEF FirstFit
      <4> QED
        BY <1>3, <2>1, <2>3, <2>4, <4>1
    <3> QED
      BY <3>1, <3>2
  <2>6. i < j \/ i = j
    <3>1. j >= 1
      BY Typing DEF IInv
    <3> QED
      BY <2>5, <3>1
  <2>7. i < j => Size(memory, old) <= Size(memory, x)
    BY <1>2, <2>4 DEF IInv, HoleListExact
  <2>8. i = j => Size(memory, old) = Size(memory, x)
    BY <1>2, <2>4
  <2> QED
    BY <1>3, <2>1, <2>3, <2>6, <2>7, <2>8
<1>12. owner' = [a \in Abstract!Addresses |->
                   IF a \in gap[1] .. gap[1] + req - 1 THEN p ELSE owner[a]]
  BY <1>8 DEF Abstract!Addresses, Addresses
<1> HIDE DEF gap, low
<1>13. \A h \in Abstract!Fitting(req) : gap[2] <= h[2]
  BY <1>11 DEF gap
<1> QED
  BY <1>9, <1>10, <1>12, <1>13 DEF Abstract!Allocate
-----------------------------------------------------------------------------
LEMMA InitAddressSpace == Init => Abstract!Init
<1> SUFFICES ASSUME Init PROVE Abstract!Init
  OBVIOUS
<1>1. ASSUME NEW a \in Addresses, NEW p \in Procs
      PROVE  ~Owns(p, a)
  BY <1>1 DEF Init, Owns
<1>2. owner = [a \in Addresses |-> NULL]
  BY <1>1 DEF owner, Addresses
<1> QED
  BY <1>2 DEF Abstract!Init, Abstract!Addresses, Addresses

(* best_fit() gives a process the low end of a smallest maximal run of     *)
(* free cells that is long enough, deallocate_memory() gives all of its    *)
(* cells back, and no other step changes the owner of a cell.              *)
THEOREM Implementation == Spec => ImplementsAddressSpace
<1>1. IInv /\ IInv' /\ WithinMemory /\ [Next]_vars => [Abstract!Next]_owner
  <2> SUFFICES ASSUME IInv, IInv', WithinMemory, [Next]_vars
               PROVE  [Abstract!Next]_owner
    OBVIOUS
  <2>1. ASSUME NEW p \in Procs, NEW req \in Requirements, BestFit(p, req)
        PROVE  Abstract!Next
    BY <2>1, BestFitOwners DEF Abstract!Next
  <2>2. ASSUME NEW p \in Procs, Deallocate(p)
        PROVE  Abstract!Next
    BY <2>2, DeallocateOwners DEF Abstract!Next
  <2> QED
    BY <2>1, <2>2, MergeOwners, EndDeallocateOwners, OtherOwners DEF Next
<1> QED
  BY <1>1, InitAddressSpace, InductiveInvariant, BlocksWithinMemory, PTL
     DEF Spec, ImplementsAddressSpace, Abstract!Spec
-----------------------------------------------------------------------------
(***************************************************************************)
(* What the users of the allocator rely on.                                *)
(***************************************************************************)
FindsRoom ==
  freeing = NULL =>
    \A req \in Requirements :
      (\E i \in DOMAIN holes : FirstFit(i, req)) <=> Abstract!HasRoom(req)

(* The steps deallocate_memory() has left. *)
DeallocationLeft ==
  IF freeing = NULL THEN 0
  ELSE (IF direction = "next" THEN 3 ELSE 1) + (IF AdjacentIsHole THEN 1 ELSE 0)

DeallocationFalls == [][freeing # NULL => DeallocationLeft' < DeallocationLeft]_vars

(* The searches of deallocate_memory() find what they look for. *)
SearchesEnd ==
  freeing # NULL =>
    IF AdjacentIsHole
    THEN \E i \in DOMAIN holes : /\ holes[i] = Adjacent
                                 /\ \A j \in 1 .. i - 1 : holes[j] # Adjacent
    ELSE \E h \in {InsertAt(holes, k, block_node[freeing]) : k \in 1 .. Len(holes) + 1} :
           InsertSorted(memory, holes, block_node[freeing], h)

(* The first position at which a search stops. *)
LEMMA FirstPosition ==
  ASSUME NEW T, T \subseteq Nat, NEW i \in T
  PROVE  \E x \in T : \A j \in 1 .. x - 1 : j \notin T
<1>1. PICK x \in T : \A y \in T : x <= y
  BY SmallestNumber
<1>2. \A j \in 1 .. x - 1 : j \in Nat /\ ~(x <= j)
  BY <1>1
<1> QED
  BY <1>1, <1>2

LEMMA FirstFitExists ==
  ASSUME IInv, NEW req \in Nat, NEW i \in DOMAIN holes, Size(memory, holes[i]) >= req
  PROVE  \E k \in DOMAIN holes : FirstFit(k, req)
<1>1. /\ Len(holes) \in Nat /\ DOMAIN holes = 1 .. Len(holes)
      /\ \A j \in 1 .. Len(holes) : Size(memory, holes[j]) \in Nat
  BY Typing DEF IInv, Size
<1> DEFINE T == {j \in DOMAIN holes : Size(memory, holes[j]) >= req}
<1>2. T \subseteq Nat /\ i \in T
  BY <1>1
<1>3. PICK k \in T : \A j \in 1 .. k - 1 : j \notin T
  <2> HIDE DEF T
  <2> QED
    BY <1>2, FirstPosition
<1>4. \A j \in 1 .. k - 1 : j \in 1 .. Len(holes)
  BY <1>1
<1>5. \A j \in 1 .. k - 1 : Size(memory, holes[j]) < req
  BY <1>1, <1>3, <1>4
<1> QED
  BY <1>3, <1>5 DEF FirstFit

(* best_fit() returns 0 exactly if no run of free cells is long enough,    *)
(* however the blocks have been split and merged before: a process that    *)
(* fits is never left waiting because its space is not in the hole list.   *)
THEOREM RoomIsFound == Spec => []FindsRoom
<1>1. ASSUME IInv, WithinMemory, freeing = NULL, NEW req \in Requirements,
             NEW i \in DOMAIN holes, FirstFit(i, req)
      PROVE  Abstract!HasRoom(req)
  <2> DEFINE n == holes[i]
  <2>1. n \in Live(memory) /\ Size(memory, n) \in Nat /\ Size(memory, n) >= req
    BY <1>1, Typing DEF IInv, FirstFit, Size
  <2>2. IsHole(n)
    BY <1>1, <2>1 DEF IInv, HoleListExact
  <2> HIDE DEF n
  <2>3. /\ Start(n) \in Nat /\ End(n) \in Nat /\ Start(n) < End(n) /\ End(n) <= MEM_CAPACITY
        /\ MEM_CAPACITY \in Nat /\ End(n) = Start(n) + Size(memory, n)
    BY <1>1, <2>1, BlockBounds, CapacityAssumption DEF WithinMemory, End
  <2>4. Abstract!IsGap(Start(n), Size(memory, n))
    <3>1. End(n) - Start(n) = Size(memory, n)
      BY <2>1, <2>3
    <3> QED
      BY <1>1, <2>1, <2>2, <3>1, HoleIsGap
  <2>5. Start(n) \in Abstract!Addresses /\ Size(memory, n) \in 1 .. MEM_CAPACITY
    BY <2>1, <2>3 DEF Abstract!Addresses
  <2>6. <<Start(n), Size(memory, n)>> \in Abstract!Fitting(req)
    BY <2>1, <2>4, <2>5 DEF Abstract!Fitting
  <2> QED
    BY <2>6 DEF Abstract!HasRoom
<1>2. ASSUME IInv, WithinMemory, freeing = NULL, NEW req \in Requirements,
             Abstract!HasRoom(req)
      PROVE  \E i \in DOMAIN holes : FirstFit(i, req)
  <2>1. PICK base \in Addresses, len \in 1 .. MEM_CAPACITY :
          len >= req /\ Abstract!IsGap(base, len)
    BY <1>2 DEF Abstract!HasRoom, Abstract!Fitting, Abstract!Addresses, Addresses
  <2>2. PICK x \in Live(memory) : IsHole(x) /\ Start(x) = base /\ End(x) = base + len
    BY <1>2, <2>1, GapIsHole
  <2>3. Size(memory, x) = len
    <3>1. Size(memory, x) \in Nat /\ base \in Nat /\ len \in Nat
      BY <1>2, CapacityAssumption, Typing DEF IInv, Size, Addresses
    <3>2. End(x) = Start(x) + Size(memory, x)
      BY DEF End
    <3> QED
      BY <2>2, <3>1, <3>2
  <2>4. PICK i \in DOMAIN holes : holes[i] = x
    BY <1>2, <2>2 DEF IInv, HoleListExact, InFlight
  <2>5. req \in Nat /\ Size(memory, holes[i]) >= req
    BY <2>1, <2>3, <2>4, RequirementsAssumption
  <2> QED
    BY <1>2, <2>5, FirstFitExists
<1>3. IInv /\ WithinMemory => FindsRoom
  BY <1>1, <1>2 DEF FindsRoom
<1> QED
  BY <1>3, InductiveInvariant, BlocksWithinMemory, PTL

(* The loops of check_direction() turn once at most, on either side: what  *)
(* lies behind a neighbour that is merged is in use. So deallocate_memory()*)
(* ends after four steps, however many blocks there are.                   *)
THEOREM DeallocationEnds ==
  Spec => [](DeallocationLeft \in 0 .. 4) /\ DeallocationFalls
<1>1. ASSUME IInv, Merge
      PROVE  ~AdjacentIsHole' /\ freeing # NULL /\ freeing' = freeing /\ direction' = direction
  <2> DEFINE main == block_node[freeing]
             adj  == Adjacent
             m    == SetBlock(memory, main,
                       Block(memory.block[main].type,
                             IF memory.block[adj].start_address < memory.block[main].start_address
                             THEN memory.block[adj].start_address
                             ELSE memory.block[main].start_address,
                             memory.block[main].size + memory.block[adj].size))
  <2>1. /\ freeing # NULL /\ AdjacentIsHole
        /\ block_node' = block_node /\ freeing' = freeing /\ direction' = direction
        /\ memory' = DeleteNode(m, adj)
    BY <1>1 DEF Merge, UpdateMemory
  <2>2. TypeOK /\ ListInAddressOrder /\ Coalesced
    BY <1>1 DEF IInv
  <2>3. /\ main \in Live(memory) /\ IsHole(main)
        /\ adj \in Live(memory) /\ IsHole(adj)
        /\ direction = "next" => adj = memory.next[main]
        /\ direction = "prev" => adj = memory.prev[main]
        /\ direction \in {"next", "prev"} /\ NULL \notin Live(memory)
    BY <1>1, <2>1, <2>2, Freeing, Typing
  <2>4. Adjacent' = memory'[direction][main]
    BY <2>1 DEF Adjacent
  <2> HIDE DEF main, adj
  <2>5. /\ Start(main) < End(main) /\ Start(adj) < End(adj)
        /\ Start(main) \in Nat /\ End(main) \in Nat /\ Start(adj) \in Nat /\ End(adj) \in Nat
    BY <1>1, <2>3, BlockBounds
  <2>6. /\ WellFormed(memory')
        /\ Live(memory') = Live(memory) \ {adj}
        /\ \A x \in Live(memory') :
             /\ x # main => memory'.block[x] = memory.block[x]
             /\ memory'.next[x] = IF x = memory.prev[adj] THEN memory.next[adj]
                                                          ELSE memory.next[x]
             /\ memory'.prev[x] = IF x = memory.next[adj] THEN memory.prev[adj]
                                                          ELSE memory.prev[x]
    <3>1. MemoryType(memory)
      BY <2>2, Typing
    <3>2. PICK both : m = SetBlock(memory, main, both)
      OBVIOUS
    <3> HIDE DEF m
    <3>3. /\ Live(m) = Live(memory)
          /\ m.next = memory.next /\ m.prev = memory.prev
          /\ \A x \in Live(m) : m.block[x] = IF x = main THEN both ELSE memory.block[x]
      BY <2>3, <3>1, <3>2, SetBlockFields
    <3> QED
      BY <2>1, <3>3, DeleteNodeFields
  <2> HIDE DEF m
  <2>7. ASSUME NEW x \in Live(memory), IsHole(x), x # main, x # adj,
               \/ direction = "next" /\ x = memory.next[adj]
               \/ direction = "prev" /\ x = memory.prev[adj]
        PROVE  FALSE
    <3>1. ~InFlight(x) /\ ~InFlight(adj) /\ x # NULL
      <4>1. adj # main
        BY <2>2, <2>3, <2>5 DEF ListInAddressOrder
      <4> QED
        BY <2>3, <2>7, <4>1 DEF InFlight, main
    <3>2. CASE direction = "next"
      BY <2>2, <2>3, <2>7, <3>1, <3>2 DEF Coalesced
    <3>3. CASE direction = "prev"
      <4>1. memory.next[x] = adj
        BY <2>2, <2>3, <2>7, <3>1, <3>3 DEF ListInAddressOrder
      <4> QED
        BY <2>2, <2>3, <2>7, <3>1, <3>3, <4>1 DEF Coalesced
    <3> QED
      BY <2>3, <3>2, <3>3
  <2>8. /\ adj # main /\ memory.next[adj] # adj /\ memory.prev[adj] # adj
        /\ direction = "next" => memory.prev[adj] = main /\ memory.next[adj] # main
        /\ direction = "prev" => memory.next[adj] = main /\ memory.prev[adj] # main
    BY <2>2, <2>3, <2>5, BlockBounds DEF ListInAddressOrder
  <2>9. PICK x : x = Adjacent'
    OBVIOUS
  <2>10. \/ direction = "next" /\ x = memory.next[adj]
         \/ direction = "prev" /\ x = memory.prev[adj]
    <3>1. main \in Live(memory')
      BY <2>3, <2>6, <2>8
    <3>2. CASE direction = "next"
      BY <2>4, <2>6, <2>8, <2>9, <3>1, <3>2
    <3>3. CASE direction = "prev"
      BY <2>4, <2>6, <2>8, <2>9, <3>1, <3>3
    <3> QED
      BY <2>3, <3>2, <3>3
  <2>11. ASSUME x # NULL, memory'.block[x].type = "HOLE"
         PROVE  FALSE
    <3>1. x \in Live(memory) /\ x # main /\ x # adj
      BY <2>2, <2>3, <2>8, <2>10, <2>11, Typing
    <3>2. IsHole(x)
      BY <2>6, <2>11, <3>1 DEF IsHole
    <3> QED
      BY <2>7, <2>10, <3>1, <3>2
  <2> QED
    BY <2>1, <2>9, <2>11 DEF AdjacentIsHole
<1>2. ASSUME IInv, Next, freeing # NULL
      PROVE  DeallocationLeft' < DeallocationLeft
  <2>1. CASE Merge
    BY <1>1, <1>2, <2>1 DEF DeallocationLeft, Merge
  <2>2. CASE TurnLeft
    BY <2>2 DEF TurnLeft, DeallocationLeft
  <2>3. CASE EndDeallocate
    BY <2>3 DEF EndDeallocate, DeallocationLeft
  <2> QED
    BY <1>2, <2>1, <2>2, <2>3 DEF Next, BestFit, Deallocate
<1>3. DeallocationLeft \in 0 .. 4
  BY DEF DeallocationLeft
<1>4. IInv /\ [Next]_vars => [freeing # NULL => DeallocationLeft' < DeallocationLeft]_vars
  BY <1>2
<1> QED
  BY <1>3, <1>4, InductiveInvariant, PTL DEF Spec, DeallocationFalls

(* delete_node_by_data() searches for the neighbour without looking at the *)
(* end of the hole list: the neighbour is always in it. And there is a     *)
(* place for the merged hole in it, before the first that is not smaller.  *)
THEOREM SearchesFind == Spec => []SearchesEnd
<1>1. ASSUME IInv, freeing # NULL, AdjacentIsHole
      PROVE  \E i \in DOMAIN holes : /\ holes[i] = Adjacent
                                     /\ \A j \in 1 .. i - 1 : holes[j] # Adjacent
  <2>1. Adjacent \in Live(memory) /\ IsHole(Adjacent) /\ Adjacent # block_node[freeing]
    <3>1. /\ block_node[freeing] \in Live(memory)
          /\ Adjacent \in Live(memory) /\ IsHole(Adjacent)
          /\ \/ Adjacent = memory.next[block_node[freeing]]
             \/ Adjacent = memory.prev[block_node[freeing]]
      BY <1>1, Freeing
    <3>2. PICK n, x : n = block_node[freeing] /\ x = Adjacent
      OBVIOUS
    <3>3. /\ Start(n) \in Nat /\ End(n) \in Nat /\ Start(n) < End(n)
          /\ x # NULL
      BY <1>1, <3>1, <3>2, BlockBounds
    <3> QED
      BY <1>1, <3>1, <3>2, <3>3 DEF IInv, ListInAddressOrder
  <2>2. PICK i \in DOMAIN holes : holes[i] = Adjacent
    BY <1>1, <2>1 DEF IInv, HoleListExact, InFlight
  <2>3. DOMAIN holes = 1 .. Len(holes) /\ Len(holes) \in Nat
    BY <1>1, Typing DEF IInv
  <2>4. \A j \in 1 .. i - 1 : j \in DOMAIN holes /\ j < i
    BY <2>3
  <2> QED
    BY <1>1, <2>2, <2>4 DEF IInv, HoleListExact
<1>2. ASSUME IInv, freeing # NULL
      PROVE  \E h \in {InsertAt(holes, k, block_node[freeing]) : k \in 1 .. Len(holes) + 1} :
               InsertSorted(memory, holes, block_node[freeing], h)
  <2> DEFINE n == block_node[freeing]
             T == {k \in 1 .. Len(holes) + 1 :
                     k <= Len(holes) => Size(memory, holes[k]) >= Size(memory, n)}
  <2>1. /\ Len(holes) \in Nat
        /\ \A j \in 1 .. Len(holes) : Size(memory, holes[j]) \in Nat
        /\ Size(memory, n) \in Nat
    BY <1>2, Freeing, Typing DEF IInv, Size
  <2>2. T \subseteq Nat /\ Len(holes) + 1 \in T
    BY <2>1
  <2>3. PICK k \in T : \A j \in 1 .. k - 1 : j \notin T
    <3> HIDE DEF T
    <3> QED
      BY <2>2, FirstPosition
  <2>4. \A j \in 1 .. k - 1 : j \in 1 .. Len(holes) /\ Size(memory, holes[j]) < Size(memory, n)
    <3> HIDE DEF n
    <3> SUFFICES ASSUME NEW j \in 1 .. k - 1
                 PROVE  j \in 1 .. Len(holes) /\ Size(memory, holes[j]) < Size(memory, n)
      OBVIOUS
    <3>1. j \in 1 .. Len(holes)
      BY <2>1
    <3> QED
      BY <2>1, <2>3, <3>1
  <2>5. InsertSorted(memory, holes, n, InsertAt(holes, k, n))
    BY <2>3, <2>4 DEF InsertSorted
  <2> QED
    BY <2>5
<1>3. IInv => SearchesEnd
  BY <1>1, <1>2 DEF SearchesEnd
<1> QED
  BY <1>3, InductiveInvariant, PTL
=============================================================================
