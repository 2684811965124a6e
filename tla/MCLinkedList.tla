----------------------------- MODULE MCLinkedList -----------------------------
(* Lists of up to four elements, two of which have the same key. *)
EXTENDS LinkedList

MCKey == [d \in Data |-> (d + 1) \div 2]
=============================================================================
