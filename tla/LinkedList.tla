------------------------------ MODULE LinkedList ------------------------------
(***************************************************************************)
(* linked_list.c with its nodes and links, for the three ways the program  *)
(* uses a list beside `memory` (which is in MemoryAllocation): a queue, an *)
(* input queue from which allocate_memory() takes processes while it       *)
(* passes over it, and the hole list, which is sorted.                     *)
(***************************************************************************)
EXTENDS Integers, SequencesExt

CONSTANTS
  Nodes,  \* the cells malloc() can place a node_t in
  NULL,
  Data,   \* what the elements point to: processes, or nodes of `memory`
  Key     \* get_size() of each

ASSUME NullAssumption == NULL \notin Nodes \cup Data
ASSUME KeyAssumption == Key \in [Data -> Nat]

VARIABLES
  usage,  \* "queue", "input" or "holes"; "freed" after free_list()
  list,   \* its allocated nodes with data and links, head, tail, num_items
  curr    \* curr of the pass in allocate_memory(), NULL outside of it
vars == <<usage, list, curr>>

Live(l) == DOMAIN l.data

EmptyList ==
  LET none == [n \in {} |-> NULL]
  IN [data |-> none, next |-> none, prev |-> none,
      head |-> NULL, tail |-> NULL, num_items |-> 0]

(* create_empty_list() *)
Init ==
  /\ usage \in {"queue", "input", "holes"}
  /\ list = EmptyList
  /\ curr = NULL

(* The nodes that a walk from the head meets, and their data.  The walk    *)
(* ends at NULL or a node that was freed, or when it has met as many nodes *)
(* as there are.                                                           *)
Reached(l, c, i) == IF i = 1 THEN l.head ELSE l.next[c[i - 1]]
IsWalk(l, c) ==
  /\ \A i \in DOMAIN c : c[i] = Reached(l, c, i)
  /\ Len(c) = Cardinality(Live(l)) \/ Reached(l, c, Len(c) + 1) \notin Live(l)
Chain(l) == CHOOSE c \in BoundedSeq(Live(l), Cardinality(Live(l))) : IsWalk(l, c)
Items(l) == [i \in DOMAIN Chain(l) |-> l.data[Chain(l)[i]]]
-----------------------------------------------------------------------------
(***************************************************************************)
(* The operations, each from a list to a list.                             *)
(***************************************************************************)
CreateNode(l, n, d, next, prev) ==
  LET Extend(f, v) == [x \in Live(l) \cup {n} |-> IF x = n THEN v ELSE f[x]]
  IN [l EXCEPT !.data = Extend(@, d), !.next = Extend(@, next), !.prev = Extend(@, prev),
               !.num_items = @ + 1]

Free(l, nodes) ==
  LET Rest(f) == [x \in Live(l) \ nodes |-> f[x]]
  IN [l EXCEPT !.data = Rest(@), !.next = Rest(@), !.prev = Rest(@)]

(* p->next = n and p->prev = n, if p is a node.  Mutant: prev is not set. *)
SetNext(l, p, n) == IF p = NULL THEN l ELSE [l EXCEPT !.next[p] = n]
KeepPrev(l, p, n) == l
SetPrev(l, p, n) == IF p = NULL THEN l ELSE [l EXCEPT !.prev[p] = n]

(* enqueue(l, d) in the node n *)
Enqueued(l, n, d) ==
  LET new == CreateNode(l, n, d, NULL, l.tail)
  IN IF l.head = NULL
     THEN [new EXCEPT !.head = n, !.tail = n]
     ELSE [SetNext(new, l.tail, n) EXCEPT !.tail = n]

(* dequeue(l); the new head keeps its prev. *)
Dequeued(l) ==
  LET next == l.next[l.head]
  IN Free([l EXCEPT !.head = next,
                    !.tail = IF next = NULL THEN NULL ELSE @,
                    !.num_items = @ - 1],
          {l.head})

(* The comparison that lets insert_node_sorted() pass d. *)
Smaller(d, e) == Key[d] < Key[e]

(* insert_node_sorted(l, d) in the node n *)
InsertedSorted(l, n, d) ==
  LET passed == SelectInSeq(Items(l), LAMBDA e : ~Smaller(e, d))
      next == IF passed = 0 THEN NULL ELSE Chain(l)[passed]
      prev == IF passed = 0 THEN (IF l.head = NULL THEN NULL ELSE Last(Chain(l)))
              ELSE IF passed = 1 THEN NULL ELSE Chain(l)[passed - 1]
      new  == SetPrev(SetNext(CreateNode(l, n, d, next, prev), prev, n), next, n)
  IN [new EXCEPT !.head = IF prev = NULL THEN n ELSE @,
                 !.tail = IF next = NULL THEN n ELSE @]

(* delete_node(l, n), without freeing n.  Mutant: the tail is forgotten. *)
DeletedKeepingTail(l, n) ==
  [SetPrev(SetNext(l, l.prev[n], l.next[n]), l.next[n], l.prev[n]) EXCEPT
     !.head = IF @ = n THEN l.next[n] ELSE @, !.num_items = @ - 1]
Deleted(l, n) ==
  IF l.head = NULL \/ l.tail = NULL THEN l
  ELSE [SetPrev(SetNext(l, l.prev[n], l.next[n]), l.next[n], l.prev[n]) EXCEPT
          !.head = IF @ = n THEN l.next[n] ELSE @,
          !.tail = IF @ = n THEN l.prev[n] ELSE @,
          !.num_items = @ - 1]
-----------------------------------------------------------------------------
(* An element is in one list once, as the processes and the holes are. *)
Fresh == {d \in Data : ~Contains(Items(list), d)}

Enqueue(d) ==
  /\ usage \in {"queue", "input"}
  /\ curr = NULL
  /\ \E n \in Nodes \ Live(list) : list' = Enqueued(list, n, d)
  /\ UNCHANGED <<usage, curr>>

Dequeue ==
  /\ usage = "queue"
  /\ list.head # NULL
  /\ list' = Dequeued(list)
  /\ UNCHANGED <<usage, curr>>

InsertSorted(d) ==
  /\ usage = "holes"
  /\ \E n \in Nodes \ Live(list) : list' = InsertedSorted(list, n, d)
  /\ UNCHANGED <<usage, curr>>

(* delete_node() and free() in best_fit(), or delete_node_by_data() *)
Delete(d) ==
  /\ usage = "holes"
  /\ \E i \in DOMAIN Chain(list) :
       /\ Items(list)[i] = d
       /\ list' = Free(Deleted(list, Chain(list)[i]), {Chain(list)[i]})
  /\ UNCHANGED <<usage, curr>>

(* The loop of allocate_memory() under best-fit. *)
StartPass ==
  /\ usage = "input"
  /\ curr = NULL
  /\ list.head # NULL
  /\ curr' = list.head
  /\ UNCHANGED <<usage, list>>

(* There is no space for the process at curr. *)
Skip ==
  /\ curr # NULL
  /\ curr' = list.next[curr]
  /\ UNCHANGED <<usage, list>>

(* It gets its memory: its node is deleted, gives its next, and is freed.  *)
(* Mutant: the pass goes on from the head.                                 *)
TakeAndRestart ==
  /\ curr # NULL
  /\ list' = Free(Deleted(list, curr), {curr})
  /\ curr' = Deleted(list, curr).head
  /\ UNCHANGED usage
Take ==
  LET rest == Deleted(list, curr) IN
    /\ curr # NULL
    /\ curr' = rest.next[curr]
    /\ list' = Free(rest, {curr})
    /\ UNCHANGED usage

(* free_list(), at the end of the program: its walk frees what it meets. *)
FreeList ==
  /\ usage # "freed"
  /\ curr = NULL
  /\ usage' = "freed"
  /\ list' = [Free(list, Range(Chain(list))) EXCEPT
                !.head = NULL, !.tail = NULL, !.num_items = 0]
  /\ UNCHANGED curr

Next ==
  \/ \E d \in Fresh : Enqueue(d) \/ InsertSorted(d)
  \/ \E d \in Data : Delete(d)
  \/ Dequeue \/ StartPass \/ Skip \/ Take \/ FreeList

Spec == Init /\ [][Next]_vars
-----------------------------------------------------------------------------
(***************************************************************************)
(* Properties                                                              *)
(***************************************************************************)
TypeOK ==
  /\ usage \in {"queue", "input", "holes", "freed"}
  /\ Live(list) \subseteq Nodes
  /\ list.data \in [Live(list) -> Data]
  /\ list.next \in [Live(list) -> Live(list) \cup {NULL}]
  /\ {list.head, list.tail, curr} \subseteq Live(list) \cup {NULL}
  /\ list.num_items \in Nat

(* The walk from the head meets every node that is allocated, once, and    *)
(* ends at the tail: no element is lost, none is linked twice, and         *)
(* num_items is their number.                                              *)
WalkMeetsAll ==
  LET chain == Chain(list) IN
    /\ IsInjective(chain)
    /\ Range(chain) = Live(list)
    /\ Len(chain) = list.num_items
    /\ list.tail = IF chain = <<>> THEN NULL ELSE Last(chain)
    /\ chain # <<>> => list.next[list.tail] = NULL

(* The walk is complete, and the links to the left agree with it.  Only a  *)
(* queue has a head whose prev is a node that was freed: dequeue() leaves  *)
(* it there, and delete_node(), which would write to it, is never called   *)
(* of a list that is dequeued.                                             *)
LinksAgree ==
  /\ WalkMeetsAll
  /\ \A n \in Live(list) : list.next[n] # NULL => list.prev[list.next[n]] = n
  /\ usage # "queue" /\ list.head # NULL => list.prev[list.head] = NULL

(* The list is a sequence: every call has the effect it has on sequences,  *)
(* the insertion keeps it sorted, and the pass of allocate_memory() looks  *)
(* at every process once although it frees the node it stands on.          *)
Position ==
  IF curr = NULL THEN 0 ELSE CHOOSE i \in DOMAIN Chain(list) : Chain(list)[i] = curr
Sequence == INSTANCE ItemList WITH items <- Items(list), position <- Position
ImplementsSequence == Sequence!Spec
=============================================================================
