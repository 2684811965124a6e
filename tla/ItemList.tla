------------------------------- MODULE ItemList -------------------------------
(***************************************************************************)
(* What linked_list.c promises: a sequence, used as a queue, in order of   *)
(* keys, or passed over from its start while elements are taken out.       *)
(***************************************************************************)
EXTENDS Integers, SequencesExt

CONSTANTS
  Data,  \* what the elements point to
  Key    \* get_sort_value() of each

VARIABLES
  items,    \* first to last
  position  \* of the pass over it, or 0
vars == <<items, position>>

Init == items = <<>> /\ position = 0

Enqueue(d) == position = 0 /\ items' = Append(items, d) /\ UNCHANGED position

Dequeue == items # <<>> /\ items' = Tail(items) /\ UNCHANGED position

(* Before the first element that is not smaller. *)
InsertSorted(d) ==
  /\ \E k \in 1 .. Len(items) + 1 :
       /\ \A j \in 1 .. k - 1 : Key[items[j]] < Key[d]
       /\ k <= Len(items) => Key[items[k]] >= Key[d]
       /\ items' = InsertAt(items, k, d)
  /\ UNCHANGED position

Delete(i) == position = 0 /\ items' = RemoveAt(items, i) /\ UNCHANGED position

StartPass == position = 0 /\ items # <<>> /\ position' = 1 /\ UNCHANGED items

(* Every element is looked at once, in order, whichever are taken out. *)
Skip == /\ position > 0
        /\ position' = IF position = Len(items) THEN 0 ELSE position + 1
        /\ UNCHANGED items

Take == /\ position > 0
        /\ position' = IF position = Len(items) THEN 0 ELSE position
        /\ items' = RemoveAt(items, position)

FreeList == position = 0 /\ items' = <<>> /\ UNCHANGED position

Next == \/ \E d \in Data : Enqueue(d) \/ InsertSorted(d)
        \/ \E i \in DOMAIN items : Delete(i)
        \/ Dequeue \/ StartPass \/ Skip \/ Take \/ FreeList

Spec == Init /\ [][Next]_vars
=============================================================================
