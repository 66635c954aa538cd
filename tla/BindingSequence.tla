--------------------------- MODULE BindingSequence ---------------------------
(***************************************************************************)
(* What the binding list promises its users: it is the sequence of Bindings *)
(* with no element in it twice; an insertion puts an element in front, a   *)
(* removal takes one out and leaves the order of the others.  The links of *)
(* queue.h implement it (BindingList).                                     *)
(***************************************************************************)
EXTENDS Bindings

CONSTANT Elements

VARIABLE list

Init == list = <<>>

Insert(e) == /\ \A i \in 1 .. Len(list) : list[i] # e
             /\ list' = LIST_INSERT_HEAD(list, e)

Remove(e) == \E i \in 1 .. Len(list) : /\ list[i] = e
                                      /\ list' = remove_binding(list, i)

Next == \E e \in Elements : Insert(e) \/ Remove(e)

Spec == Init /\ [][Next]_list
==============================================================================
