-------------------------- MODULE MemoryAllocation --------------------------
(***************************************************************************)
(* The best-fit allocator of memory_allocation.c on the lists of           *)
(* linked_list.c: `memory`, the doubly linked list of blocks in address    *)
(* order, and `holes`, the list of the free blocks' nodes by size.         *)
(***************************************************************************)
EXTENDS Integers, SequencesExt

CONSTANTS
  Procs,         \* process_t objects
  Nodes,         \* the cells malloc() can place a node_t (and its block) in
  NULL,
  MEM_CAPACITY,  \* 2048 in memory_allocation.h
  Requirements   \* memory requirements a process may have

ASSUME NullAssumption == NULL \notin Nodes \cup Procs
ASSUME NodesAssumption == Nodes # {}
ASSUME CapacityAssumption == MEM_CAPACITY \in Nat \ {0}
(* A process of size 0 is accepted by the code but owns no cell; see README *)
ASSUME RequirementsAssumption == Requirements \subseteq Nat \ {0}

VARIABLES
  memory,      \* the list `memory`: its live nodes with data and links
  holes,       \* the list `holes`: nodes of `memory`, first to last
  block_node,  \* process_t.block_node
  freeing,     \* the process inside deallocate_memory(), or NULL
  direction    \* the get_dir argument of the check_direction() call it is in

vars == <<memory, holes, block_node, freeing, direction>>
-----------------------------------------------------------------------------
(***************************************************************************)
(* linked_list.c on `memory`.  A list is a record of functions whose       *)
(* domain is the set of nodes that are allocated: what a freed node held   *)
(* is gone, so a dangling pointer shows as a node outside the domain.      *)
(***************************************************************************)
Live(m) == DOMAIN m.block

Block(type, start, size) ==
  [type |-> type, start_address |-> start, size |-> size]

Malloc(used) == CHOOSE n \in Nodes : n \notin used

(* delete_node(memory, n) and the free() of the node that follows it. *)
DeleteNode(m, n) ==
  LET left == Live(m) \ {n}
      p == m.prev[n]
      q == m.next[n]
  IN [block |-> [x \in left |-> m.block[x]],
      next  |-> [x \in left |-> IF x = p THEN q ELSE m.next[x]],
      prev  |-> [x \in left |-> IF x = q THEN p ELSE m.prev[x]],
      head  |-> IF m.head = n THEN q ELSE m.head,
      tail  |-> IF m.tail = n THEN p ELSE m.tail]

(* Mutant of InsertNode: the node to the right keeps its prev. *)
InsertNodeOneWay(m, n, b, p, q) ==
  LET all == Live(m) \cup {n}
  IN [block |-> [x \in all |-> IF x = n THEN b ELSE m.block[x]],
      next  |-> [x \in all |-> IF x = n THEN q
                               ELSE IF x = p THEN n ELSE m.next[x]],
      prev  |-> [x \in all |-> IF x = n THEN p ELSE m.prev[x]],
      head  |-> IF p = NULL THEN n ELSE m.head,
      tail  |-> IF q = NULL THEN n ELSE m.tail]

(* insert_node(memory, b, p, q) in the fresh node n. *)
InsertNode(m, n, b, p, q) ==
  LET all == Live(m) \cup {n}
  IN [block |-> [x \in all |-> IF x = n THEN b ELSE m.block[x]],
      next  |-> [x \in all |-> IF x = n THEN q
                               ELSE IF x = p THEN n ELSE m.next[x]],
      prev  |-> [x \in all |-> IF x = n THEN p
                               ELSE IF x = q THEN n ELSE m.prev[x]],
      head  |-> IF p = NULL THEN n ELSE m.head,
      tail  |-> IF q = NULL THEN n ELSE m.tail]

SetBlock(m, n, b) == [m EXCEPT !.block = [m.block EXCEPT ![n] = b]]

Size(m, n) == m.block[n].size

(* Mutant of InsertSorted: the hole goes to the end of the list. *)
InsertLast(m, h, n, h2) == h2 = Append(h, n)

(* insert_node_sorted(holes, n) turns the list h into h2: n goes before    *)
(* the first hole that is not smaller.                                     *)
InsertSorted(m, h, n, h2) ==
  \E k \in 1 .. Len(h) + 1 :
    /\ \A j \in 1 .. k - 1 : Size(m, h[j]) < Size(m, n)
    /\ k <= Len(h) => Size(m, h[k]) >= Size(m, n)
    /\ h2 = InsertAt(h, k, n)
-----------------------------------------------------------------------------
(* initialise_memory() *)
Init ==
  /\ LET n == Malloc({}) IN
       /\ memory = [block |-> [x \in {n} |-> Block("HOLE", 0, MEM_CAPACITY)],
                    next  |-> [x \in {n} |-> NULL],
                    prev  |-> [x \in {n} |-> NULL],
                    head  |-> n,
                    tail  |-> n]
       /\ holes = <<n>>
  /\ block_node = [p \in Procs |-> NULL]
  /\ freeing = NULL
  /\ direction = "next"

(* split(): the process gets the low end of the hole `old`, which is       *)
(* already out of the hole list `rest`.  What is left of the hole keeps    *)
(* its node and goes back into the hole list; a hole that fits exactly is  *)
(* deleted, and its cell may be the one malloc() returns next.             *)
Split(p, req, old, rest) ==
  LET b    == memory.block[old]
      used == Block("PROCESS", b.start_address, req)
      free == Block("HOLE", b.start_address + req, b.size - req)
      prev == memory.prev[old]
      next == memory.next[old]
      m    == IF free.size = 0 THEN DeleteNode(memory, old)
                               ELSE SetBlock(memory, old, free)
      n    == Malloc(Live(m))
  IN /\ Nodes \ Live(m) # {}
     /\ IF free.size = 0
        THEN /\ holes' = rest
             /\ memory' = InsertNode(m, n, used, prev, next)
        ELSE /\ InsertSorted(m, rest, old, holes')
             /\ memory' = InsertNode(m, n, used, prev, old)
     /\ block_node' = [block_node EXCEPT ![p] = n]

(* Mutants of FirstFit: the size is not looked at; any hole will do. *)
FirstHole(i, req) == i = 1
AnyFit(i, req)    == Size(memory, holes[i]) >= req

(* The hole the loop of best_fit() stops at. *)
FirstFit(i, req) ==
  /\ Size(memory, holes[i]) >= req
  /\ \A j \in 1 .. i - 1 : Size(memory, holes[j]) < req

(* best_fit() for a process that is waiting in the input queue.  When no   *)
(* hole is large enough it returns 0 and changes nothing.                  *)
BestFit(p, req) ==
  /\ freeing = NULL
  /\ block_node[p] = NULL
  /\ \E i \in DOMAIN holes :
       /\ FirstFit(i, req)
       /\ Split(p, req, holes[i], RemoveAt(holes, i))
  /\ UNCHANGED <<freeing, direction>>

(* deallocate_memory() runs in several steps, one per turn of its loops;   *)
(* freeing # NULL while it runs, and nothing else changes the lists then.  *)
Deallocate(p) ==
  /\ freeing = NULL
  /\ block_node[p] # NULL
  /\ LET n == block_node[p]
         b == memory.block[n]
     IN memory' = SetBlock(memory, n, Block("HOLE", b.start_address, b.size))
  /\ freeing' = p
  /\ direction' = "next"
  /\ UNCHANGED <<holes, block_node>>

(* The neighbour check_direction() looks at, and whether its loop goes on. *)
Adjacent == memory[direction][block_node[freeing]]

(* Mutant of AdjacentIsHole: what is to the left is not merged. *)
HoleToTheRight == /\ direction = "next"
                  /\ Adjacent # NULL
                  /\ memory.block[Adjacent].type = "HOLE"

AdjacentIsHole == /\ Adjacent # NULL
                  /\ memory.block[Adjacent].type = "HOLE"

(* Mutant of UpdateMemory: main stays where it starts. *)
UpdateSize(main, adj) ==
  LET a == memory.block[adj]
      b == memory.block[main]
  IN /\ memory' = DeleteNode(
         SetBlock(memory, main, Block(b.type, b.start_address, b.size + a.size)), adj)
     /\ \E i \in DOMAIN holes : holes[i] = adj /\ holes' = RemoveAt(holes, i)

(* update_memory(): main takes over the cells of adj, which leaves both    *)
(* lists.  delete_node_by_data() searches for adj until it finds it.       *)
UpdateMemory(main, adj) ==
  LET a == memory.block[adj]
      b == memory.block[main]
      start == IF a.start_address < b.start_address THEN a.start_address
                                                    ELSE b.start_address
  IN /\ memory' = DeleteNode(
                    SetBlock(memory, main, Block(b.type, start, b.size + a.size)),
                    adj)
     /\ \E i \in DOMAIN holes : /\ holes[i] = adj
                                /\ \A j \in 1 .. i - 1 : holes[j] # adj
                                /\ holes' = RemoveAt(holes, i)

Merge ==
  /\ freeing # NULL
  /\ AdjacentIsHole
  /\ UpdateMemory(block_node[freeing], Adjacent)
  /\ UNCHANGED <<block_node, freeing, direction>>

TurnLeft ==
  /\ freeing # NULL
  /\ direction = "next"
  /\ ~AdjacentIsHole
  /\ direction' = "prev"
  /\ UNCHANGED <<memory, holes, block_node, freeing>>

(* Mutant of EndDeallocate: the process keeps its block_node. *)
EndWithoutReset ==
  /\ freeing # NULL
  /\ direction = "prev"
  /\ ~AdjacentIsHole
  /\ InsertSorted(memory, holes, block_node[freeing], holes')
  /\ freeing' = NULL
  /\ direction' = "next"
  /\ UNCHANGED <<memory, block_node>>

EndDeallocate ==
  /\ freeing # NULL
  /\ direction = "prev"
  /\ ~AdjacentIsHole
  /\ InsertSorted(memory, holes, block_node[freeing], holes')
  /\ block_node' = [block_node EXCEPT ![freeing] = NULL]
  /\ freeing' = NULL
  /\ direction' = "next"
  /\ UNCHANGED memory

Next ==
  \/ \E p \in Procs, req \in Requirements : BestFit(p, req)
  \/ \E p \in Procs : Deallocate(p)
  \/ Merge
  \/ TurnLeft
  \/ EndDeallocate

Spec == Init /\ [][Next]_vars
-----------------------------------------------------------------------------
(***************************************************************************)
(* Properties                                                              *)
(***************************************************************************)
Pointer == Live(memory) \cup {NULL}

(* Every variable has its type: no list, hole or process points to a node  *)
(* that has been freed, and no block has a negative size.                  *)
TypeOK ==
  /\ Live(memory) \subseteq Nodes
  /\ memory \in [block : [Live(memory) -> [type : {"HOLE", "PROCESS"},
                                           start_address : Nat, size : Nat]],
                 next  : [Live(memory) -> Pointer],
                 prev  : [Live(memory) -> Pointer],
                 head  : Live(memory),
                 tail  : Live(memory)]
  /\ holes \in Seq(Live(memory))
  /\ block_node \in [Procs -> Pointer]
  /\ freeing \in Procs \cup {NULL}
  /\ direction \in {"next", "prev"}

Start(n) == memory.block[n].start_address
End(n)   == Start(n) + Size(memory, n)   \* first address after the block
IsHole(n) == memory.block[n].type = "HOLE"

(* The node deallocate_memory() is working on: a hole by type already, but *)
(* not in the hole list before its neighbours have been merged into it.    *)
InFlight(n) == freeing # NULL /\ n = block_node[freeing]

(* The links of the memory list agree with each other in both directions   *)
(* and with the addresses: the list runs through memory from 0 to          *)
(* MEM_CAPACITY without a hole or an overlap between neighbours.           *)
(* split() and update_memory() change both the links and the addresses.    *)
ListInAddressOrder ==
  /\ Start(memory.head) = 0
  /\ End(memory.tail) = MEM_CAPACITY
  /\ \A n \in Live(memory) :
       /\ (memory.prev[n] = NULL) <=> (n = memory.head)
       /\ (memory.next[n] = NULL) <=> (n = memory.tail)
       /\ memory.prev[n] # NULL => /\ memory.next[memory.prev[n]] = n
                                  /\ End(memory.prev[n]) = Start(n)
       /\ memory.next[n] # NULL => /\ memory.prev[memory.next[n]] = n
                                  /\ Start(memory.next[n]) = End(n)

(* No address belongs to two blocks, and none is lost: the memory of a     *)
(* process is never given to another one, whatever was split and merged.   *)
BlocksPartitionMemory ==
  /\ \A m, n \in Live(memory) : m # n => End(m) <= Start(n) \/ End(n) <= Start(m)
  /\ \A a \in 0 .. MEM_CAPACITY - 1 :
       \E n \in Live(memory) : Start(n) <= a /\ a < End(n)

(* A block is used exactly while one process owns it.                      *)
BlocksOwned ==
  /\ \A p, q \in Procs : block_node[p] = block_node[q] /\ p # q => block_node[p] = NULL
  /\ \A p \in Procs : block_node[p] # NULL => (IsHole(block_node[p]) <=> p = freeing)
  /\ \A n \in Live(memory) : ~IsHole(n) => \E p \in Procs : block_node[p] = n
  /\ freeing # NULL => block_node[freeing] # NULL

(* The hole list holds exactly the nodes of the free blocks, each once, in *)
(* order of size: otherwise the first hole that fits is not the best one,  *)
(* or memory that is free is never found again.                            *)
HoleListExact ==
  /\ \A i, j \in DOMAIN holes : i < j => /\ holes[i] # holes[j]
                                         /\ Size(memory, holes[i]) <= Size(memory, holes[j])
  /\ \A n \in Live(memory) :
       (\E i \in DOMAIN holes : holes[i] = n) <=> (IsHole(n) /\ ~InFlight(n))

(* Two free blocks are never neighbours, except around the block that is   *)
(* being freed, which has nothing free to its right once it has turned     *)
(* left: deallocate_memory() merges everything there is to merge.          *)
Coalesced ==
  \A n \in Live(memory) :
    /\ Size(memory, n) > 0
    /\ memory.next[n] # NULL /\ IsHole(n) /\ IsHole(memory.next[n]) =>
         InFlight(memory.next[n]) \/ (InFlight(n) /\ direction = "next")
-----------------------------------------------------------------------------
(***************************************************************************)
(* The allocator implements AddressSpace: an address is owned by the       *)
(* process whose block covers it, and is free from the moment the process  *)
(* enters deallocate_memory().                                             *)
(***************************************************************************)
Owns(p, a) == /\ block_node[p] # NULL
              /\ p # freeing
              /\ Start(block_node[p]) <= a
              /\ a < End(block_node[p])

owner == [a \in 0 .. MEM_CAPACITY - 1 |->
            IF \E p \in Procs : Owns(p, a) THEN CHOOSE p \in Procs : Owns(p, a)
                                          ELSE NULL]

Abstract == INSTANCE AddressSpace

(* best_fit() takes the low end of a smallest maximal free run that is     *)
(* large enough, and freeing returns all of a process's cells: every step  *)
(* of the lists is a step of AddressSpace or changes no cell.              *)
ImplementsAddressSpace == Abstract!Spec

=============================================================================
