----------------------------- MODULE BindingList -----------------------------
(***************************************************************************)
(* The binding list as queue.h builds it: a head that points to the first  *)
(* element, and in every element a pointer to the next one (le_next) and   *)
(* the address of the pointer that points to it (le_prev).  The loop of    *)
(* cleanup_expired_bindings is modelled turn by turn, with the element it  *)
(* is at and the one it has read ahead; malloc and free make and destroy   *)
(* elements, and a destroyed element's memory may be used again.           *)
(***************************************************************************)
EXTENDS Integers, FiniteSets, Sequences

CONSTANTS
  Elements,  \* the places in memory a binding can have
  HeadSlot,  \* the address of lh_first, seen as an element's le_prev
  NULL

ASSUME PlacesAssumption == /\ IsFiniteSet(Elements)
                           /\ HeadSlot \notin Elements
                           /\ NULL \notin Elements
                           /\ HeadSlot # NULL

VARIABLES
  lh_first,  \* head->lh_first
  le_next,   \* le_next[e]; what an element outside the list holds is stale
  le_prev,   \* le_prev[e]: HeadSlot for &head->lh_first, f for &f->le_next
  live,      \* the elements that malloc returned and free did not take
  expired,   \* the live elements whose status is EXPIRED
  binding,   \* the loop variable of cleanup_expired_bindings
  ahead,     \* the variable LIST_FOREACH_SAFE reads ahead into
  pc         \* "idle", or where cleanup_expired_bindings is

vars == <<lh_first, le_next, le_prev, live, expired, binding, ahead, pc>>
links == <<lh_first, le_next, le_prev>>

Init == /\ lh_first = NULL
        /\ le_next = [e \in Elements |-> NULL]
        /\ le_prev = [e \in Elements |-> HeadSlot]
        /\ live = {}
        /\ expired = {}
        /\ binding = NULL
        /\ ahead = NULL
        /\ pc = "idle"

-----------------------------------------------------------------------------
(* Faulty forms, which show that the properties tell them apart, stand      *)
(* before the definitions they vary.                                        *)

\* The old first element keeps its le_prev.
LinkNoBack(e) ==
  /\ le_next' = [le_next EXCEPT ![e] = lh_first]
  /\ le_prev' = [le_prev EXCEPT ![e] = HeadSlot]
  /\ lh_first' = e

\* LIST_INSERT_HEAD.
Link(e) ==
  /\ le_next' = [le_next EXCEPT ![e] = lh_first]
  /\ le_prev' = [f \in Elements |-> IF f = e THEN HeadSlot
                                    ELSE IF f = lh_first THEN e
                                    ELSE le_prev[f]]
  /\ lh_first' = e

\* The pointer that led to e is not redirected.
UnlinkHalf(e) ==
  /\ le_prev' = IF le_next[e] = NULL THEN le_prev
                ELSE [le_prev EXCEPT ![le_next[e]] = le_prev[e]]
  /\ UNCHANGED <<lh_first, le_next>>

\* LIST_REMOVE: the pointer whose address is le_prev[e] takes e's successor.
Unlink(e) ==
  /\ le_prev' = IF le_next[e] = NULL THEN le_prev
                ELSE [le_prev EXCEPT ![le_next[e]] = le_prev[e]]
  /\ IF le_prev[e] = HeadSlot
       THEN lh_first' = le_next[e] /\ UNCHANGED le_next
       ELSE le_next' = [le_next EXCEPT ![le_prev[e]] = le_next[e]] /\ UNCHANGED lh_first

-----------------------------------------------------------------------------
\* malloc or calloc returns a place that is not in use.
Insert(e) == /\ pc = "idle"
             /\ e \notin live
             /\ live' = live \union {e}
             /\ Link(e)
             /\ UNCHANGED <<expired, binding, ahead, pc>>

\* The freed element is not forgotten.
FreeKeepsStatus(e) == /\ Unlink(e)
                      /\ live' = live \ {e}
                      /\ UNCHANGED expired

\* remove_binding: LIST_REMOVE and free.
Free(e) == /\ Unlink(e)
           /\ live' = live \ {e}
           /\ expired' = expired \ {e}

Remove(e) == /\ pc = "idle"
             /\ e \in live
             /\ Free(e)
             /\ UNCHANGED <<binding, ahead, pc>>

Expire(e) == /\ pc = "idle"
             /\ e \in live
             /\ expired' = expired \union {e}
             /\ UNCHANGED <<links, live, binding, ahead, pc>>

CleanupStart == /\ pc = "idle"
                /\ binding' = lh_first
                /\ pc' = "test"
                /\ UNCHANGED <<links, live, expired, ahead>>

\* Nothing is read ahead: after the body the loop still stands on the element
\* it handled, freed or not.
CleanupTestUnsafe == /\ pc = "test" /\ binding # NULL
                     /\ ahead' = binding
                     /\ pc' = "body"
                     /\ UNCHANGED <<links, live, expired, binding>>

\* The loop's test reads the next element ahead.
CleanupTest == /\ pc = "test" /\ binding # NULL
               /\ ahead' = le_next[binding]
               /\ pc' = "body"
               /\ UNCHANGED <<links, live, expired, binding>>

\* An element is skipped after one was removed.
CleanupBodySkips ==
  /\ pc = "body"
  /\ pc' = "test"
  /\ IF binding \in expired
       THEN Free(binding) /\ binding' = IF ahead = NULL THEN NULL ELSE le_next[ahead]
       ELSE UNCHANGED <<links, live, expired>> /\ binding' = ahead
  /\ UNCHANGED ahead

CleanupBody == /\ pc = "body"
               /\ pc' = "test"
               /\ binding' = ahead
               /\ IF binding \in expired
                    THEN Free(binding)
                    ELSE UNCHANGED <<links, live, expired>>
               /\ UNCHANGED ahead

CleanupEnd == /\ pc = "test" /\ binding = NULL
              /\ pc' = "idle"
              /\ UNCHANGED <<links, live, expired, binding, ahead>>

Next == \/ \E e \in Elements : Insert(e) \/ Remove(e) \/ Expire(e)
        \/ CleanupStart \/ CleanupTest \/ CleanupBody \/ CleanupEnd

Cleanup == CleanupTest \/ CleanupBody \/ CleanupEnd

Spec == Init /\ [][Next]_vars

\* A loop that was started is run on.
FairSpec == Spec /\ WF_vars(Cleanup)

-----------------------------------------------------------------------------
(* Properties *)

Pointers == Elements \union {NULL}

TypeOK == /\ lh_first \in Pointers
          /\ le_next \in [Elements -> Pointers]
          /\ le_prev \in [Elements -> Elements \union {HeadSlot}]
          /\ live \subseteq Elements
          /\ expired \subseteq live
          /\ binding \in Pointers
          /\ ahead \in Pointers
          /\ pc \in {"idle", "test", "body"}

\* What the pointer with address p holds.
Target(p) == IF p = HeadSlot THEN lh_first ELSE le_next[p]

\* The links of the list agree in both directions and lead to live elements
\* only: the pointer an element says leads to it does, and every pointer of
\* the list leads to NULL or to an element that says so.
LinksAgree ==
  /\ \A e \in live : le_prev[e] \in live \union {HeadSlot} /\ Target(le_prev[e]) = e
  /\ \A p \in live \union {HeadSlot} :
       Target(p) # NULL => Target(p) \in live /\ le_prev[Target(p)] = p

\* The loop never stands on, or looks ahead to, an element that was freed.
NoUseAfterFree == /\ pc # "idle" => binding \in live \union {NULL}
                  /\ pc = "body" => ahead \in live \union {NULL}

\* The sequence s is linked from the head on, and its last element leads to NULL.
Linked(s) == /\ lh_first = IF s = <<>> THEN NULL ELSE s[1]
             /\ \A i \in 1 .. Len(s) :
                  le_next[s[i]] = IF i = Len(s) THEN NULL ELSE s[i + 1]

\* The elements in the order of the links.
Chain == CHOOSE s \in UNION {[1 .. n -> Elements] : n \in 0 .. Cardinality(Elements)} :
           Linked(s)

\* The loop over the list ends.
CleanupEnds == (pc = "test") ~> (pc = "idle")

\* Once the loop has ended no expired binding is left.
CleanupCompletes == [][CleanupEnd => expired = {}]_vars

List == INSTANCE BindingSequence WITH list <- Chain

\* The linked elements behave as a sequence.
ImplementsSequence == List!Spec
==============================================================================
