------------------------------- MODULE Bindings ------------------------------
(***************************************************************************)
(* The list of address bindings and its operations (ip_pool_manager.h,     *)
(* ip_pool_manager.c, the LIST macros of queue.h).  A binding_list is the  *)
(* sequence of its elements from the head on, and a pointer to a binding   *)
(* is its place in the sequence, with 0 for NULL.  BindingSearch has the   *)
(* search in it.                                                           *)
(***************************************************************************)
EXTENDS Integers, Sequences

(* binding->status *)
ASSOCIATED == 1
PENDING    == 2
EXPIRED    == 3
RELEASED   == 4
AnyStatus  == 0   \* search_binding's wildcard
Statuses   == {ASSOCIATED, PENDING, EXPIRED, RELEASED}

(* binding->is_static *)
DYNAMIC           == 0
STATIC            == 1
STATIC_OR_DYNAMIC == 2   \* search_binding's wildcard

\* The struct ip_binding. cident stands for the bytes the identifier was copied
\* from, of which the first cident_len are its own.
Binding(Addrs, Cidents, Times) ==
  [address : Addrs, cident_len : 0 .. 255, cident : Cidents,
   binding_time : Times, lease_time : Times,
   status : Statuses, is_static : {DYNAMIC, STATIC}]

\* Faulty forms, which show that the properties of the server tell them
\* apart, stand before the definitions they vary.

\* The element goes to the end of the list.
LIST_INSERT_TAIL(list, binding) == Append(list, binding)

LIST_INSERT_HEAD(list, binding) ==
  [i \in 1 .. Len(list) + 1 |-> IF i = 1 THEN binding ELSE list[i - 1]]

\* LIST_REMOVE and free of the element at place p.
remove_binding(list, p) ==
  [i \in 1 .. Len(list) - 1 |-> IF i < p THEN list[i] ELSE list[i + 1]]
==============================================================================
