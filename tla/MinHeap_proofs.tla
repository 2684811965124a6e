---------------------------- MODULE MinHeap_proofs ----------------------------
(***************************************************************************)
(* Proofs about MinHeap, for heaps of any size and processes of any rank.  *)
(***************************************************************************)
EXTENDS MinHeap, SequenceLemmas, TLAPS

(* The shape of the heap: each index but the first is the left or the      *)
(* right child of its parent.                                              *)
LEMMA ParentOfChild ==
  ASSUME NEW i \in Nat, i > 0
  PROVE  /\ Parent(i) \in Nat
         /\ Parent(i) < i
         /\ i = 2 * Parent(i) + 1 \/ i = 2 * Parent(i) + 2
BY DEF Parent

LEMMA ChildOfParent ==
  ASSUME NEW i \in Nat
  PROVE  Parent(2 * i + 1) = i /\ Parent(2 * i + 2) = i
BY DEF Parent

(* HeapOrder says what it has to say of the steps in between as well, and  *)
(* is inductive on top of the types.                                       *)
IInv == TypeOK /\ NoDuplicates /\ HeapOrder

LEMMA Typing ==
  ASSUME TypeOK
  PROVE  /\ num_items \in Nat /\ Indices = 0 .. num_items - 1
         /\ DOMAIN data = Indices
         /\ \A i \in Indices : i \in Nat /\ data[i] \in Procs /\ Rank[data[i]] \in Nat
         /\ \A i \in Indices \ {0} : /\ Parent(i) \in Indices /\ Parent(i) < i
                                     /\ i = 2 * Parent(i) + 1 \/ i = 2 * Parent(i) + 2
<1>1. num_items \in Nat /\ Indices = 0 .. num_items - 1 /\ data \in [Indices -> Procs]
  BY DEF TypeOK, Indices
<1>2. \A i \in Indices : data[i] \in Procs /\ Rank[data[i]] \in Nat
  BY <1>1, RankAssumption
<1>3. ASSUME NEW i \in Indices, i # 0
      PROVE  /\ Parent(i) \in Indices /\ Parent(i) < i
             /\ i = 2 * Parent(i) + 1 \/ i = 2 * Parent(i) + 2
  <2>1. i \in Nat /\ i > 0 /\ i <= num_items - 1
    BY <1>1, <1>3
  <2>2. /\ Parent(i) \in Nat /\ Parent(i) < i
        /\ i = 2 * Parent(i) + 1 \/ i = 2 * Parent(i) + 2
    BY <2>1, ParentOfChild
  <2> HIDE DEF Parent
  <2> QED
    BY <2>1, <2>2, <1>1
<1> QED
  BY <1>1, <1>2, <1>3

LEMMA InitIInv == Init => IInv
BY SizeAssumption DEF Init, IInv, TypeOK, NoDuplicates, HeapOrder, Indices

(* Exchanging two elements keeps the types and loses nobody. *)
LEMMA SwapElements ==
  ASSUME TypeOK, NoDuplicates, NEW k \in Indices, NEW l \in Indices, Swap(k, l)
  PROVE  /\ data' \in [Indices -> Procs]
         /\ data'[k] = data[l] /\ data'[l] = data[k]
         /\ \A i \in Indices : i # k /\ i # l => data'[i] = data[i]
         /\ \A i, j \in Indices : data'[i] = data'[j] => i = j
<1>1. data \in [Indices -> Procs]
  BY DEF TypeOK
<1>2. data' = [data EXCEPT ![k] = data[l], ![l] = data[k]]
  BY DEF Swap
<1>3. /\ data' \in [Indices -> Procs]
      /\ data'[k] = data[l] /\ data'[l] = data[k]
      /\ \A i \in Indices : i # k /\ i # l => data'[i] = data[i]
  BY <1>1, <1>2
<1>4. \A i, j \in Indices : data'[i] = data'[j] => i = j
  BY <1>3 DEF NoDuplicates
<1> QED
  BY <1>3, <1>4

(* insert_data() puts the element where only up_heap() may find it out of  *)
(* order.                                                                  *)
LEMMA InsertDataIInv ==
  ASSUME IInv, NEW p \in Procs, InsertData(p)
  PROVE  IInv'
<1> DEFINE n == num_items
<1>1. TypeOK /\ NoDuplicates /\ HeapOrder
  BY DEF IInv
<1>2. /\ pc = "idle" /\ p \notin Range(data)
      /\ capacity' = Grown
      /\ data' = [i \in 0 .. n |-> IF i = n THEN p ELSE data[i]]
      /\ num_items' = n + 1 /\ pc' = "up_heap" /\ index' = n /\ min' = min
  BY DEF InsertData
<1>3. n \in Nat /\ Indices = 0 .. n - 1 /\ Indices' = 0 .. n
  BY <1>1, <1>2 DEF TypeOK, Indices
<1>4. \A i \in Indices' : i = n \/ (i \in Indices /\ i # n)
  BY <1>3
<1>5. \A i \in Indices : i \in Indices' /\ data'[i] = data[i] /\ data[i] # p
  BY <1>1, <1>2, <1>3, Typing DEF Range
<1>6. data'[n] = p /\ n \in Indices'
  BY <1>2, <1>3
<1>7. TypeOK'
  <2>1. capacity' \in Nat \ {0} /\ n + 1 <= capacity'
    BY <1>1, <1>2, <1>3 DEF TypeOK, Grown
  <2>2. data' \in [Indices' -> Procs]
    BY <1>1, <1>2, <1>3 DEF TypeOK
  <2>3. min' \in Procs \cup {NULL}
    BY <1>1, <1>2 DEF TypeOK
  <2> QED
    BY <2>1, <2>2, <2>3, <1>2, <1>3, <1>6 DEF TypeOK
<1>8. NoDuplicates'
  BY <1>1, <1>4, <1>5, <1>6 DEF NoDuplicates
<1>9. HeapOrder'
  <2>1. ASSUME NEW i \in Indices', i # 0
        PROVE  /\ i = n \/ ~(Rank[data'[Parent(i)]] > Rank[data'[i]])
               /\ Parent(i) # n
    <3>1. CASE i = n
      <4>1. Parent(i) < i
        BY <3>1, <2>1, <1>3, ParentOfChild
      <4> HIDE DEF Parent
      <4> QED
        BY <3>1, <4>1, <1>3
    <3>2. CASE i # n
      <4>1. i \in Indices \ {0} /\ Parent(i) \in Indices
        BY <3>2, <2>1, <1>1, <1>4, Typing
      <4>2. Parent(i) # n
        BY <4>1, <1>3
      <4>3. ~(Rank[data[Parent(i)]] > Rank[data[i]])
        BY <4>1, <1>1, <1>2 DEF HeapOrder, Ordered, Greater
      <4> QED
        BY <4>1, <4>2, <4>3, <1>5
    <3> QED
      BY <3>1, <3>2
  <2> QED
    BY <2>1, <1>2 DEF HeapOrder, Ordered, Greater
<1> QED
  BY <1>7, <1>8, <1>9 DEF IInv

(* extract_min() puts the last element where only down_heap() may find it  *)
(* out of order.                                                           *)
LEMMA ExtractMinIInv ==
  ASSUME IInv, ExtractMin
  PROVE  IInv'
<1> DEFINE n == num_items
<1>1. TypeOK /\ NoDuplicates /\ HeapOrder
  BY DEF IInv
<1>2. /\ pc = "idle" /\ n > 0
      /\ min' = data[0] /\ num_items' = n - 1
      /\ data' = [i \in 0 .. n - 2 |-> IF i = 0 THEN data[n - 1] ELSE data[i]]
      /\ n = 1 => pc' = pc /\ index' = index
      /\ n # 1 => pc' = "down_heap" /\ index' = 0
      /\ capacity' = capacity
  BY DEF ExtractMin
<1>3. n \in Nat /\ Indices = 0 .. n - 1 /\ Indices' = 0 .. n - 2
  BY <1>1, <1>2 DEF TypeOK, Indices
<1>4. /\ 0 \in Indices /\ n - 1 \in Indices
      /\ \A i \in Indices' : i \in Indices /\ i # n - 1 /\ n # 1
      /\ n # 1 => 0 \in Indices'
  BY <1>2, <1>3
<1>5. \A i \in Indices' : data'[i] = IF i = 0 THEN data[n - 1] ELSE data[i]
  BY <1>2, <1>3
<1>6. TypeOK'
  <2>1. data' \in [Indices' -> Procs]
    BY <1>1, <1>2, <1>3, <1>4, Typing
  <2>2. n - 1 \in Nat /\ n - 1 <= capacity /\ capacity \in Nat \ {0}
    BY <1>1, <1>2, <1>3 DEF TypeOK
  <2>3. min' \in Procs
    BY <1>1, <1>2, <1>4, Typing
  <2>4. index' \in Nat /\ (pc' # "idle" => index' \in Indices')
    BY <1>1, <1>2, <1>4 DEF TypeOK
  <2> QED
    BY <2>1, <2>2, <2>3, <2>4, <1>2 DEF TypeOK
<1>7. NoDuplicates'
  BY <1>1, <1>4, <1>5 DEF NoDuplicates
<1>8. HeapOrder'
  <2>1. ASSUME NEW i \in Indices', i # 0
        PROVE  Parent(i) = 0 \/ ~(Rank[data'[Parent(i)]] > Rank[data'[i]])
    <3>1. /\ i \in Indices \ {0} /\ Parent(i) \in Indices /\ Parent(i) < i /\ i \in Nat
          /\ i <= n - 2
      BY <2>1, <1>1, <1>3, <1>4, Typing
    <3>2. Parent(i) \in Indices'
      <4> HIDE DEF Parent
      <4> QED
        BY <3>1, <1>3
    <3>3. ~(Rank[data[Parent(i)]] > Rank[data[i]])
      BY <3>1, <1>1, <1>2 DEF HeapOrder, Ordered, Greater
    <3> QED
      BY <2>1, <3>2, <3>3, <1>5
  <2>2. \A i \in Indices' : pc' = "down_heap" /\ index' = 0
    BY <1>2, <1>4
  <2> QED
    BY <2>1, <2>2 DEF HeapOrder, Ordered, Greater
<1> QED
  BY <1>6, <1>7, <1>8 DEF IInv

(* up_heap() moves the element up while its parent is greater. *)
LEMMA UpHeapIInv ==
  ASSUME IInv, UpHeap
  PROVE  IInv'
<1> DEFINE k == index
           p == Parent(index)
<1>1. TypeOK /\ NoDuplicates /\ HeapOrder
  BY DEF IInv
<1>2. /\ pc = "up_heap" /\ num_items' = num_items /\ capacity' = capacity /\ min' = min
      /\ Indices' = Indices
      /\ k \in Indices
  BY <1>1 DEF UpHeap, Indices, TypeOK
(* HeapOrder as it is now *)
<1>3. \A i \in Indices \ {0} :
        /\ i # k => ~(Rank[data[Parent(i)]] > Rank[data[i]])
        /\ Parent(i) = k /\ k > 0 => ~(Rank[data[p]] > Rank[data[i]])
  BY <1>1, <1>2 DEF HeapOrder, Ordered, Greater
<1>4. CASE k > 0 /\ Greater(p, k)
  <2>1. Swap(k, p) /\ index' = p /\ pc' = pc
    BY <1>4 DEF UpHeap
  <2>2. p \in Indices /\ p < k /\ k # 0 /\ k \in Nat /\ p \in Nat
    BY <1>1, <1>2, <1>4, Typing
  <2>3. /\ data' \in [Indices -> Procs]
        /\ data'[k] = data[p] /\ data'[p] = data[k]
        /\ \A i \in Indices : i # k /\ i # p => data'[i] = data[i]
        /\ \A i, j \in Indices : data'[i] = data'[j] => i = j
    BY <2>1, <2>2, <1>1, <1>2, SwapElements
  <2>4. Rank[data[p]] > Rank[data[k]]
    BY <1>4 DEF Greater
  <2>5. Parent(k) = p
    OBVIOUS
  <2> HIDE DEF k, p
  <2>6. TypeOK'
    BY <2>1, <2>2, <2>3, <1>1, <1>2 DEF TypeOK
  <2>7. NoDuplicates'
    BY <2>3, <1>2 DEF NoDuplicates
  <2>8. ASSUME NEW i \in Indices, i # 0
        PROVE  /\ i = p \/ ~(Rank[data'[Parent(i)]] > Rank[data'[i]])
               /\ Parent(i) = p /\ p > 0 => ~(Rank[data'[Parent(p)]] > Rank[data'[i]])
    <3>1. Parent(i) \in Indices /\ Parent(i) < i /\ i \in Nat
      BY <2>8, <1>1, Typing
    <3>2. i \in Nat /\ \A j \in Indices : j \in Nat /\ Rank[data[j]] \in Nat
      BY <1>1, Typing
    <3>3. i # k => ~(Rank[data[Parent(i)]] > Rank[data[i]])
      BY <2>8, <1>3
    <3> HIDE DEF Parent
    <3>4. i = p \/ ~(Rank[data'[Parent(i)]] > Rank[data'[i]])
      <4>1. CASE i = k
        BY <4>1, <2>3, <2>4, <2>5, <2>2, <3>2
      <4>2. CASE i # k /\ i # p /\ Parent(i) = k
        <5>1. ~(Rank[data[p]] > Rank[data[i]])
          BY <4>2, <2>2, <2>8, <1>3
        <5> QED
          BY <5>1, <4>2, <2>3
      <4>3. CASE i # k /\ i # p /\ Parent(i) = p
        BY <4>3, <3>2, <3>3, <2>2, <2>3, <2>4, <1>2
      <4>4. CASE i # k /\ i # p /\ Parent(i) # k /\ Parent(i) # p
        BY <4>4, <3>1, <3>3, <2>3
      <4> QED
        BY <4>1, <4>2, <4>3, <4>4
    <3>5. ASSUME Parent(i) = p, p > 0
          PROVE  ~(Rank[data'[Parent(p)]] > Rank[data'[i]])
      <4>1. p \in Indices \ {0} /\ p # k
        BY <3>5, <2>2
      <4>2. Parent(p) \in Indices /\ Parent(p) < p
        BY <4>1, <1>1, Typing
      <4>3. Parent(p) # p /\ Parent(p) # k /\ i # p
        BY <4>2, <3>1, <3>5, <2>2
      <4>4. ~(Rank[data[Parent(p)]] > Rank[data[p]])
        BY <4>1, <1>3
      <4>5. data'[Parent(p)] = data[Parent(p)]
        BY <4>2, <4>3, <2>3
      <4>6. CASE i = k
        BY <4>4, <4>5, <4>6, <2>3
      <4>7. CASE i # k
        <5>1. data'[i] = data[i]
          BY <4>3, <4>7, <2>3
        <5>2. ~(Rank[data[p]] > Rank[data[i]])
          BY <4>7, <3>3, <3>5
        <5>3. /\ Rank[data[Parent(p)]] \in Nat
              /\ Rank[data[p]] \in Nat /\ Rank[data[i]] \in Nat
          BY <4>2, <3>2, <2>2
        <5> QED
          BY <4>4, <4>5, <5>1, <5>2, <5>3
      <4> QED
        BY <4>6, <4>7
    <3> QED
      BY <3>4, <3>5
  <2>9. HeapOrder'
    BY <2>1, <2>8, <1>2 DEF HeapOrder, Ordered, Greater
  <2> QED
    BY <2>6, <2>7, <2>9 DEF IInv
<1>5. CASE ~(k > 0 /\ Greater(p, k))
  <2>1. pc' = "idle" /\ data' = data /\ index' = index
    BY <1>5 DEF UpHeap
  <2>2. TypeOK' /\ NoDuplicates'
    BY <2>1, <1>1, <1>2 DEF TypeOK, NoDuplicates
  <2>3. ASSUME NEW i \in Indices, i # 0
        PROVE  ~(Rank[data[Parent(i)]] > Rank[data[i]])
    <3>1. CASE i = k
      <4>1. k > 0
        BY <2>3, <3>1, <1>1, Typing
      <4> QED
        BY <3>1, <4>1, <1>5 DEF Greater
    <3> QED
      BY <3>1, <2>3, <1>3
  <2>4. HeapOrder'
    BY <2>1, <2>3, <1>2 DEF HeapOrder, Ordered, Greater
  <2> QED
    BY <2>2, <2>4 DEF IInv
<1> QED
  BY <1>4, <1>5

(* The element down_heap() compares the element with: none of its children *)
(* is smaller.                                                             *)
LEMMA SmallestChild ==
  ASSUME IInv, pc = "down_heap"
  PROVE  LET s == Smallest(index) IN
         /\ index \in Indices /\ s \in Indices
         /\ s # index => /\ s # 0 /\ Parent(s) = index /\ index < s
                        /\ Rank[data[index]] > Rank[data[s]]
         /\ \A i \in Indices \ {0} :
              Parent(i) = index => ~(Rank[data[s]] > Rank[data[i]])
<1> DEFINE k == index
           left == 2 * k + 1
           right == 2 * k + 2
           smaller == IF left < num_items /\ Greater(k, left) THEN left ELSE k
           s == IF right < num_items /\ Greater(smaller, right) THEN right ELSE smaller
<1>1. TypeOK /\ k \in Indices /\ k \in Nat
  BY DEF IInv, TypeOK
<1>2. Smallest(index) = s
  BY DEF Smallest
<1>3. num_items \in Nat /\ Indices = 0 .. num_items - 1
  BY <1>1, Typing
<1>4. /\ left \in Nat /\ k < left /\ left # 0 /\ Parent(left) = k
      /\ right \in Nat /\ k < right /\ right # 0 /\ Parent(right) = k
      /\ left < num_items <=> left \in Indices
      /\ right < num_items <=> right \in Indices
  <2>1. Parent(left) = k /\ Parent(right) = k
    BY <1>1, ChildOfParent
  <2> HIDE DEF Parent
  <2> QED
    BY <2>1, <1>1, <1>3
<1>5. \A i \in Indices \ {0} : Parent(i) = k => i = left \/ i = right
  BY <1>1, Typing
<1>6. \A i \in Indices : Rank[data[i]] \in Nat
  BY <1>1, Typing
<1> HIDE DEF left, right, Parent
<1>7. /\ smaller \in Indices
      /\ smaller = k \/ (smaller = left /\ Rank[data[k]] > Rank[data[left]])
      /\ ~(Rank[data[smaller]] > Rank[data[k]])
      /\ left \in Indices => ~(Rank[data[smaller]] > Rank[data[left]])
  BY <1>1, <1>4, <1>6 DEF Greater
<1> HIDE DEF smaller
<1>8. /\ s \in Indices
      /\ s = k \/ (s \in {left, right} /\ Rank[data[k]] > Rank[data[s]])
      /\ left \in Indices => ~(Rank[data[s]] > Rank[data[left]])
      /\ right \in Indices => ~(Rank[data[s]] > Rank[data[right]])
  <2>1. CASE right < num_items /\ Greater(smaller, right)
    BY <2>1, <1>1, <1>4, <1>6, <1>7 DEF Greater
  <2>2. CASE ~(right < num_items /\ Greater(smaller, right))
    BY <2>2, <1>1, <1>4, <1>6, <1>7 DEF Greater
  <2> QED
    BY <2>1, <2>2
<1> HIDE DEF s
<1>9. /\ s # k => /\ s # 0 /\ Parent(s) = k /\ k < s
                  /\ Rank[data[k]] > Rank[data[s]]
      /\ \A i \in Indices \ {0} : Parent(i) = k => ~(Rank[data[s]] > Rank[data[i]])
  BY <1>4, <1>5, <1>8
<1> QED
  BY <1>1, <1>2, <1>8, <1>9

(* down_heap() moves the element down while a child is smaller. *)
LEMMA DownHeapIInv ==
  ASSUME IInv, DownHeap
  PROVE  IInv'
<1> DEFINE k == index
           s == Smallest(index)
<1>1. TypeOK /\ NoDuplicates /\ HeapOrder
  BY DEF IInv
<1>2. /\ pc = "down_heap" /\ num_items' = num_items /\ capacity' = capacity /\ min' = min
      /\ Indices' = Indices
  BY DEF DownHeap, Indices
<1>3. /\ k \in Indices /\ s \in Indices
      /\ s # k => /\ s # 0 /\ Parent(s) = k /\ k < s
                 /\ Rank[data[k]] > Rank[data[s]]
      /\ \A i \in Indices \ {0} : Parent(i) = k => ~(Rank[data[s]] > Rank[data[i]])
  BY <1>2, SmallestChild
(* HeapOrder as it is now *)
<1>4. \A i \in Indices \ {0} :
        /\ Parent(i) # k => ~(Rank[data[Parent(i)]] > Rank[data[i]])
        /\ Parent(i) = k /\ k > 0 => ~(Rank[data[Parent(k)]] > Rank[data[i]])
  BY <1>1, <1>2 DEF HeapOrder, Ordered, Greater
<1>5. CASE s # k
  <2>1. Swap(k, s) /\ index' = s /\ pc' = pc
    BY <1>5 DEF DownHeap
  <2>2. /\ data' \in [Indices -> Procs]
        /\ data'[k] = data[s] /\ data'[s] = data[k]
        /\ \A i \in Indices : i # k /\ i # s => data'[i] = data[i]
        /\ \A i, j \in Indices : data'[i] = data'[j] => i = j
    BY <2>1, <1>1, <1>3, SwapElements
  <2>3. s # 0 /\ Parent(s) = k /\ k < s /\ Rank[data[k]] > Rank[data[s]]
    BY <1>3, <1>5
  <2>4. k \in Nat /\ s \in Nat
    BY <1>1, <1>3, Typing
  <2> HIDE DEF k, s
  <2>5. TypeOK'
    BY <2>1, <2>2, <2>4, <1>1, <1>2, <1>3 DEF TypeOK
  <2>6. NoDuplicates'
    BY <2>2, <1>2 DEF NoDuplicates
  <2>7. ASSUME NEW i \in Indices, i # 0
        PROVE  /\ Parent(i) = s \/ ~(Rank[data'[Parent(i)]] > Rank[data'[i]])
               /\ Parent(i) = s => ~(Rank[data'[Parent(s)]] > Rank[data'[i]])
    <3>1. Parent(i) \in Indices /\ Parent(i) < i /\ i \in Nat /\ Parent(i) # i
      BY <2>7, <1>1, Typing
    <3>2. \A j \in Indices : Rank[data[j]] \in Nat
      BY <1>1, Typing
    <3>3. ASSUME Parent(i) # s
          PROVE  ~(Rank[data'[Parent(i)]] > Rank[data'[i]])
      <4>1. CASE i = s
        BY <4>1, <3>2, <2>2, <2>3, <1>3
      <4>2. CASE i # s /\ Parent(i) = k
        <5>1. data'[i] = data[i]
          BY <4>2, <3>1, <2>2
        <5> QED
          BY <5>1, <4>2, <2>2, <2>7, <1>3
      <4>3. CASE i # s /\ Parent(i) # k /\ i = k
        <5>1. data'[Parent(i)] = data[Parent(i)]
          BY <4>3, <3>1, <3>3, <2>2
        <5>2. k > 0
          BY <4>3, <2>4, <2>7
        <5>3. ~(Rank[data[Parent(k)]] > Rank[data[s]])
          BY <5>2, <2>3, <1>3, <1>4
        <5> QED
          BY <5>1, <5>3, <4>3, <2>2
      <4>4. CASE i # s /\ Parent(i) # k /\ i # k
        <5>1. data'[Parent(i)] = data[Parent(i)] /\ data'[i] = data[i]
          BY <4>4, <3>1, <3>3, <2>2
        <5> QED
          BY <5>1, <4>4, <2>7, <1>4
      <4> QED
        BY <4>1, <4>2, <4>3, <4>4
    <3>4. ASSUME Parent(i) = s
          PROVE  ~(Rank[data'[Parent(s)]] > Rank[data'[i]])
      <4>1. s < i /\ i # s /\ i # k
        BY <3>1, <3>4, <2>3, <2>4
      <4>2. ~(Rank[data[s]] > Rank[data[i]])
        BY <3>4, <2>3, <2>4, <2>7, <1>4
      <4>3. data'[i] = data[i]
        BY <4>1, <2>2
      <4> QED
        BY <4>2, <4>3, <2>2, <2>3
    <3> QED
      BY <3>3, <3>4
  <2>8. HeapOrder'
    BY <2>1, <2>7, <1>2 DEF HeapOrder, Ordered, Greater
  <2> QED
    BY <2>5, <2>6, <2>8 DEF IInv
<1>6. CASE s = k
  <2>1. pc' = "idle" /\ data' = data /\ index' = index
    BY <1>6 DEF DownHeap
  <2>2. TypeOK' /\ NoDuplicates'
    BY <2>1, <1>1, <1>2 DEF TypeOK, NoDuplicates
  <2>3. \A i \in Indices \ {0} : ~(Rank[data[Parent(i)]] > Rank[data[i]])
    <3> HIDE DEF k, s
    <3> QED
      BY <1>3, <1>4, <1>6
  <2>4. HeapOrder'
    BY <2>1, <2>3, <1>2 DEF HeapOrder, Ordered, Greater
  <2> QED
    BY <2>2, <2>4 DEF IInv
<1> QED
  BY <1>5, <1>6
-----------------------------------------------------------------------------
LEMMA NextIInv == IInv /\ [Next]_vars => IInv'
<1> SUFFICES ASSUME IInv, [Next]_vars PROVE IInv'
  OBVIOUS
<1>1. ASSUME NEW p \in Procs, InsertData(p)
      PROVE  IInv'
  BY <1>1, InsertDataIInv
<1>2. CASE UpHeap
  BY <1>2, UpHeapIInv
<1>3. CASE ExtractMin
  BY <1>3, ExtractMinIInv
<1>4. CASE DownHeap
  BY <1>4, DownHeapIInv
<1>5. CASE UNCHANGED vars
  BY <1>5 DEF vars, IInv, TypeOK, NoDuplicates, HeapOrder, Indices, Ordered, Greater
<1> QED
  BY <1>1, <1>2, <1>3, <1>4, <1>5 DEF Next

(* The types, NoDuplicates and HeapOrder hold together after any number of *)
(* calls of insert_data() and extract_min() and in the middle of them.     *)
THEOREM InductiveInvariant == Spec => []IInv
<1>1. Init => IInv
  BY InitIInv
<1>2. IInv /\ [Next]_vars => IInv'
  BY NextIInv
<1> QED
  BY <1>1, <1>2, PTL DEF Spec

(* insert_data() and the two recursive functions stay within the cells     *)
(* that malloc() and realloc() have provided, for any number of processes. *)
THEOREM TypeCorrect == Spec => []TypeOK
<1>1. IInv => TypeOK
  BY DEF IInv
<1> QED
  BY <1>1, InductiveInvariant, PTL

(* No process is doubled by swap() or by the move of the last element to   *)
(* the front; that none is lost is part of Implementation below.           *)
THEOREM NobodyDoubled == Spec => []NoDuplicates
<1>1. IInv => NoDuplicates
  BY DEF IInv
<1> QED
  BY <1>1, InductiveInvariant, PTL

(* Whenever neither of the recursive functions runs, every process in the  *)
(* heap precedes its children or ties with them.                           *)
THEOREM HeapOrdered == Spec => []HeapOrder
<1>1. IInv => HeapOrder
  BY DEF IInv
<1> QED
  BY <1>1, InductiveInvariant, PTL
-----------------------------------------------------------------------------
(***************************************************************************)
(* MinHeap implements PriorityQueue.                                       *)
(***************************************************************************)
(* The order along the branches makes the first element a smallest one:    *)
(* the first element that is smaller would have a parent that is smaller.  *)
LEMMA FirstIsSmallest ==
  ASSUME IInv, pc = "idle", NEW i \in Indices
  PROVE  Rank[data[0]] <= Rank[data[i]]
<1> DEFINE T == {j \in Indices : Rank[data[0]] > Rank[data[j]]}
<1>1. TypeOK /\ HeapOrder
  BY DEF IInv
<1>2. 0 \in Indices /\ \A j \in Indices : j \in Nat /\ Rank[data[j]] \in Nat
  BY <1>1, Typing
<1>3. ASSUME T # {} PROVE FALSE
  <2>1. PICK x \in T : \A y \in T : x <= y
    BY <1>2, <1>3, SmallestNumber
  <2>2. x \in Indices /\ x # 0 /\ Rank[data[0]] > Rank[data[x]]
    BY <1>2
  <2>3. Parent(x) \in Indices /\ Parent(x) < x
    BY <2>2, <1>1, Typing
  <2>4. ~(Rank[data[Parent(x)]] > Rank[data[x]])
    BY <2>2, <1>1 DEF HeapOrder, Ordered, Greater
  <2> HIDE DEF Parent
  <2>5. Parent(x) \in T
    BY <2>2, <2>3, <2>4, <1>2
  <2> HIDE DEF T
  <2> QED
    BY <2>1, <2>2, <2>3, <2>5, <1>2
<1> QED
  BY <1>2, <1>3

LEMMA SwapKeepsRange ==
  ASSUME TypeOK, NoDuplicates, NEW k \in Indices, NEW l \in Indices, Swap(k, l),
         Indices' = Indices
  PROVE  Range(data') = Range(data)
<1>1. /\ DOMAIN data = Indices /\ DOMAIN data' = Indices
      /\ data'[k] = data[l] /\ data'[l] = data[k]
      /\ \A i \in Indices : i # k /\ i # l => data'[i] = data[i]
  BY SwapElements, Typing
<1>2. \A i \in Indices : \E j \in Indices : data'[j] = data[i]
  BY <1>1
<1>3. \A i \in Indices : \E j \in Indices : data[j] = data'[i]
  BY <1>1
<1> QED
  BY <1>1, <1>2, <1>3 DEF Range

LEMMA StepRefines == IInv /\ [Next]_vars => [Abstract!Next]_<<Range(data), min>>
<1> SUFFICES ASSUME IInv, [Next]_vars
             PROVE  [Abstract!Next]_<<Range(data), min>>
  OBVIOUS
<1>1. TypeOK /\ NoDuplicates
  BY DEF IInv
<1>2. /\ num_items \in Nat /\ Indices = 0 .. num_items - 1 /\ DOMAIN data = Indices
      /\ data \in [Indices -> Procs]
  BY <1>1, Typing DEF TypeOK
<1>3. ASSUME NEW p \in Procs, InsertData(p)
      PROVE  Abstract!Insert(p)
  <2>1. p \notin Range(data) /\ min' = min
    BY <1>3 DEF InsertData
  <2>2. data' = [i \in 0 .. num_items |-> IF i = num_items THEN p ELSE data[i]]
    BY <1>3 DEF InsertData
  <2>3. \A i \in 0 .. num_items : i = num_items \/ i \in Indices
    BY <1>2
  <2>4. \A i \in Indices : i \in 0 .. num_items /\ i # num_items
    BY <1>2
  <2>5. num_items \in 0 .. num_items
    BY <1>2
  <2>6. Range(data') = Range(data) \cup {p}
    BY <2>2, <2>3, <2>4, <2>5, <1>2 DEF Range
  <2> QED
    BY <2>1, <2>6 DEF Abstract!Insert
<1>4. CASE UpHeap
  <2>1. Indices' = Indices /\ min' = min
    BY <1>4 DEF UpHeap, Indices
  <2>2. CASE index > 0 /\ Greater(Parent(index), index)
    <3>1. index \in Indices \ {0} /\ Swap(index, Parent(index))
      BY <1>1, <1>4, <2>2 DEF UpHeap, TypeOK
    <3>2. Parent(index) \in Indices
      BY <3>1, <1>1, Typing
    <3> QED
      BY <3>1, <3>2, <2>1, <1>1, SwapKeepsRange
  <2>3. CASE ~(index > 0 /\ Greater(Parent(index), index))
    BY <1>4, <2>1, <2>3 DEF UpHeap
  <2> QED
    BY <2>2, <2>3
<1>5. CASE ExtractMin
  <2>1. /\ pc = "idle" /\ num_items > 0 /\ min' = data[0]
        /\ data' = [i \in 0 .. num_items - 2 |->
                      IF i = 0 THEN data[num_items - 1] ELSE data[i]]
    BY <1>5 DEF ExtractMin
  <2>2. 0 \in Indices /\ data[0] \in Range(data)
    BY <2>1, <1>2 DEF Range
  <2>3. \A q \in Range(data) : Rank[data[0]] <= Rank[q]
    BY <2>1, <1>2, FirstIsSmallest DEF Range
  <2>4. \A i \in 0 .. num_items - 2 :
          \E j \in Indices : j # 0 /\ data'[i] = data[j]
    <3> TAKE i \in 0 .. num_items - 2
    <3>1. i \in Indices /\ num_items - 1 \in Indices /\ num_items - 1 # 0
      BY <1>2
    <3> QED
      BY <3>1, <2>1
  <2>5. \A j \in Indices : j # 0 => \E i \in 0 .. num_items - 2 : data'[i] = data[j]
    <3> SUFFICES ASSUME NEW j \in Indices, j # 0
                 PROVE  \E i \in 0 .. num_items - 2 : data'[i] = data[j]
      OBVIOUS
    <3>1. CASE j = num_items - 1
      <4>1. 0 \in 0 .. num_items - 2
        BY <3>1, <1>2
      <4> QED
        BY <3>1, <4>1, <2>1
    <3>2. CASE j # num_items - 1
      <4>1. j \in 0 .. num_items - 2
        BY <3>2, <1>2
      <4> QED
        BY <4>1, <2>1
    <3> QED
      BY <3>1, <3>2
  <2>6. \A j \in Indices : j # 0 => data[j] # data[0]
    BY <2>2, <1>1 DEF NoDuplicates
  <2>7. Range(data') = Range(data) \ {data[0]}
    <3>1. DOMAIN data' = 0 .. num_items - 2
      BY <2>1
    <3>2. ASSUME NEW q \in Range(data') PROVE q \in Range(data) \ {data[0]}
      BY <3>1, <2>4, <2>6, <1>2 DEF Range
    <3>3. ASSUME NEW q \in Range(data), q # data[0] PROVE q \in Range(data')
      BY <3>1, <3>3, <2>5, <1>2 DEF Range
    <3> QED
      BY <3>2, <3>3
  <2>8. Abstract!ExtractMin
    BY <2>1, <2>2, <2>3, <2>7 DEF Abstract!ExtractMin
  <2> QED
    BY <2>8 DEF Abstract!Next
<1>6. CASE DownHeap
  <2>1. Indices' = Indices /\ min' = min
    BY <1>6 DEF DownHeap, Indices
  <2>2. CASE Smallest(index) # index
    <3>1. /\ pc = "down_heap" /\ Swap(index, Smallest(index))
      BY <1>6, <2>2 DEF DownHeap
    <3>2. index \in Indices /\ Smallest(index) \in Indices
      BY <3>1, SmallestChild
    <3> QED
      BY <3>1, <3>2, <2>1, <1>1, SwapKeepsRange
  <2>3. CASE Smallest(index) = index
    BY <1>6, <2>1, <2>3 DEF DownHeap
  <2> QED
    BY <2>2, <2>3
<1>7. CASE UNCHANGED vars
  BY <1>7 DEF vars
<1> QED
  BY <1>3, <1>4, <1>5, <1>6, <1>7 DEF Next, Abstract!Next

(* extract_min() returns a process that no process in the heap precedes,   *)
(* and the heap holds exactly the processes that were inserted and not     *)
(* extracted, whatever up_heap() and down_heap() exchange meanwhile.       *)
THEOREM Implementation == Spec => ImplementsPriorityQueue
<1>1. Init => Abstract!Init
  BY DEF Init, Abstract!Init, Range
<1>2. IInv /\ [Next]_vars => [Abstract!Next]_<<Range(data), min>>
  BY StepRefines
<1> QED
  BY <1>1, <1>2, InductiveInvariant, PTL
     DEF Spec, ImplementsPriorityQueue, Abstract!Spec

(* Each recursive call of up_heap() at least halves the place of the       *)
(* element, counted from 1, and each of down_heap() at least doubles it.   *)
RecursionHalves ==
  [][/\ (pc = "up_heap" /\ pc' = "up_heap") => 2 * (index' + 1) <= index + 1
     /\ (pc = "down_heap" /\ pc' = "down_heap") => 2 * (index + 1) <= index' + 1]_vars

(* The recursion of an insert_data() or extract_min() is no deeper than    *)
(* the logarithm of the size of the heap: with TypeCorrect the place stays *)
(* between 1 and num_items.                                                *)
THEOREM RecursionIsShallow == Spec => RecursionHalves
<1>1. ASSUME IInv, Next, pc = "up_heap", pc' = "up_heap"
      PROVE  2 * (index' + 1) <= index + 1
  <2>1. UpHeap
    BY <1>1 DEF Next, InsertData, ExtractMin, DownHeap
  <2>2. index > 0 /\ index' = Parent(index)
    BY <1>1, <2>1 DEF UpHeap
  <2>3. index \in Nat
    BY <1>1 DEF IInv, TypeOK
  <2>4. /\ Parent(index) \in Nat
        /\ index = 2 * Parent(index) + 1 \/ index = 2 * Parent(index) + 2
    BY <2>2, <2>3, ParentOfChild
  <2> HIDE DEF Parent
  <2> QED
    BY <2>2, <2>3, <2>4
<1>2. ASSUME IInv, Next, pc = "down_heap", pc' = "down_heap"
      PROVE  2 * (index + 1) <= index' + 1
  <2>1. DownHeap
    BY <1>2 DEF Next, InsertData, ExtractMin, UpHeap
  <2>2. Smallest(index) # index /\ index' = Smallest(index)
    BY <1>2, <2>1 DEF DownHeap
  <2>3. /\ index \in Nat /\ Smallest(index) \in Nat /\ Smallest(index) # 0
        /\ Parent(Smallest(index)) = index
    <3>1. TypeOK
      BY <1>2 DEF IInv
    <3> QED
      BY <1>2, <2>2, <3>1, SmallestChild, Typing
  <2>4. /\ Smallest(index) = 2 * index + 1 \/ Smallest(index) = 2 * index + 2
    BY <2>3, ParentOfChild
  <2> HIDE DEF Smallest
  <2> QED
    BY <2>2, <2>3, <2>4
<1>3. IInv /\ [Next]_vars =>
        [/\ (pc = "up_heap" /\ pc' = "up_heap") => 2 * (index' + 1) <= index + 1
         /\ (pc = "down_heap" /\ pc' = "down_heap") => 2 * (index + 1) <= index' + 1]_vars
  BY <1>1, <1>2
<1> QED
  BY <1>3, InductiveInvariant, PTL DEF Spec, RecursionHalves
=============================================================================
