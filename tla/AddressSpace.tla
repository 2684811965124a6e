---------------------------- MODULE AddressSpace ----------------------------
(***************************************************************************)
(* What memory_allocation.c promises: an array of MEM_CAPACITY cells, each *)
(* owned by one process or free.  A process is given cells at the low end  *)
(* of a smallest maximal run of free cells that is long enough, and gives  *)
(* all of its cells back when it finishes.  Lists, nodes and the hole list *)
(* do not exist at this level; MemoryAllocation implements it.             *)
(***************************************************************************)
EXTENDS Integers

CONSTANTS
  Procs,         \* process_t objects
  NULL,          \* "no process": the owner of a free cell
  MEM_CAPACITY,  \* number of cells
  Requirements   \* memory requirements a process may have

VARIABLE owner   \* owner[a]: the process whose block covers address a

Addresses == 0 .. MEM_CAPACITY - 1

TypeOK == owner \in [Addresses -> Procs \cup {NULL}]

Init == owner = [a \in Addresses |-> NULL]

(* The cells from base on, len of them, are a maximal run of free cells. *)
IsGap(base, len) ==
  /\ len > 0
  /\ base + len <= MEM_CAPACITY
  /\ base > 0 => owner[base - 1] # NULL
  /\ base + len < MEM_CAPACITY => owner[base + len] # NULL
  /\ \A a \in base .. base + len - 1 : owner[a] = NULL

(* The gaps that are large enough, as pairs of base and length. *)
Fitting(req) == {g \in Addresses \X (1 .. MEM_CAPACITY) :
                   g[2] >= req /\ IsGap(g[1], g[2])}

(* best_fit() finds a hole for req. *)
HasRoom(req) == Fitting(req) # {}

CellsOf(p) == {a \in Addresses : owner[a] = p}

(* best_fit() when it finds space. *)
Allocate(p, req) ==
  /\ CellsOf(p) = {}
  /\ LET fitting == Fitting(req)
     IN \E g \in fitting :
          /\ \A h \in fitting : g[2] <= h[2]
          /\ owner' = [a \in Addresses |->
                         IF a \in g[1] .. g[1] + req - 1 THEN p ELSE owner[a]]

(* deallocate_memory(). *)
Deallocate(p) ==
  /\ CellsOf(p) # {}
  /\ owner' = [a \in Addresses |-> IF owner[a] = p THEN NULL ELSE owner[a]]

Next == \E p \in Procs : \/ \E req \in Requirements : Allocate(p, req)
                         \/ Deallocate(p)

Spec == Init /\ [][Next]_owner
=============================================================================
