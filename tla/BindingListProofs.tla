-------------------------- MODULE BindingListProofs --------------------------
(***************************************************************************)
(* That the links of the binding list agree in both directions, whatever   *)
(* is inserted and removed, for any number of elements in memory, and that *)
(* the loop of cleanup_expired_bindings follows no freed element.          *)
(*                                                                         *)
(* The links' agreement is inductive.  That the loop is safe rests on the  *)
(* absence of a cycle, stated by a rank that grows along the links: the    *)
(* element read ahead is then another one than the element freed.          *)
(*                                                                         *)
(* That the links implement a sequence rests on a witness: some sequence   *)
(* of all live elements is linked, and no other one is.                    *)
(***************************************************************************)
EXTENDS BindingList, FiniteSetTheorems, Induction, TLAPS

IInv == TypeOK /\ LinksAgree

\* LIST_INSERT_HEAD of an element that is not in the list.
LEMMA LinkAgrees ==
  ASSUME IInv, NEW e \in Elements, e \notin live, Link(e), live' = live \union {e}
  PROVE  LinksAgree' /\ lh_first' \in Pointers /\ le_next' \in [Elements -> Pointers]
           /\ le_prev' \in [Elements -> Elements \union {HeadSlot}]
<1> USE PlacesAssumption
<1>1. /\ lh_first' = e
      /\ le_next' \in [Elements -> Pointers] /\ le_next'[e] = lh_first
      /\ \A f \in Elements \ {e} : le_next'[f] = le_next[f]
  BY DEF IInv, TypeOK, Link, Pointers
<1>2. /\ le_prev' \in [Elements -> Elements \union {HeadSlot}]
      /\ le_prev'[e] = HeadSlot
      /\ lh_first # NULL => le_prev'[lh_first] = e
      /\ \A f \in Elements \ {e, lh_first} : le_prev'[f] = le_prev[f]
  <2>1. lh_first # e
    <3>1. Target(HeadSlot) = lh_first
      BY DEF Target
    <3>2. e # NULL
      OBVIOUS
    <3> QED
      BY <3>1, <3>2 DEF IInv, LinksAgree
  <2> QED
    BY <2>1 DEF IInv, TypeOK, Link, Pointers
<1>3. lh_first \in live \union {NULL} /\ live \subseteq Elements
  <2>1. Target(HeadSlot) = lh_first
    BY DEF Target
  <2> QED
    BY <2>1 DEF IInv, TypeOK, LinksAgree
<1>4. \A f \in live' : le_prev'[f] \in live' \union {HeadSlot} /\ Target(le_prev[f])' = f
  <2> SUFFICES ASSUME NEW f \in live'
               PROVE  le_prev'[f] \in live' \union {HeadSlot} /\ Target(le_prev[f])' = f
    OBVIOUS
  <2>1. CASE f = e
    BY <1>1, <1>2, <2>1 DEF Target
  <2>2. CASE f # e /\ f = lh_first
    BY <1>1, <1>2, <1>3, <2>2 DEF Target
  <2>3. CASE f # e /\ f # lh_first
    <3>1. f \in live /\ le_prev'[f] = le_prev[f]
      BY <1>2, <1>3, <2>3
    <3>2. le_prev[f] \in live /\ le_next[le_prev[f]] = f
      BY <2>3, <3>1 DEF IInv, LinksAgree, Target
    <3>3. le_prev[f] # HeadSlot /\ le_prev[f] # e /\ le_prev[f] \in Elements
      BY <1>3, <3>2
    <3> QED
      BY <1>1, <3>1, <3>2, <3>3 DEF Target
  <2> QED
    BY <2>1, <2>2, <2>3
<1>5. \A p \in live' \union {HeadSlot} :
        Target(p)' # NULL => Target(p)' \in live' /\ le_prev'[Target(p)'] = p
  <2> SUFFICES ASSUME NEW p \in live' \union {HeadSlot}, Target(p)' # NULL
               PROVE  Target(p)' \in live' /\ le_prev'[Target(p)'] = p
    OBVIOUS
  <2>1. CASE p = HeadSlot
    BY <1>1, <1>2, <2>1 DEF Target
  <2>2. CASE p = e
    BY <1>1, <1>2, <1>3, <2>2 DEF Target
  <2>3. CASE p # HeadSlot /\ p # e
    <3>1. p \in live /\ Target(p)' = le_next[p] /\ Target(p) = le_next[p]
      BY <1>1, <1>3, <2>3 DEF Target
    <3>2. le_next[p] \in live /\ le_prev[le_next[p]] = p
      BY <3>1 DEF IInv, LinksAgree
    <3>3. le_next[p] # lh_first
      <4>1. CASE lh_first = NULL
        BY <1>3, <3>2, <4>1
      <4>2. CASE lh_first # NULL
        <5>1. le_prev[lh_first] = HeadSlot
          BY <4>2 DEF IInv, LinksAgree, Target
        <5> QED
          BY <2>3, <3>2, <5>1
      <4> QED
        BY <4>1, <4>2
    <3>4. le_prev'[le_next[p]] = p
      BY <1>2, <1>3, <3>2, <3>3
    <3> QED
      BY <3>1, <3>2, <3>4
  <2> QED
    BY <2>1, <2>2, <2>3
<1> QED
  BY <1>1, <1>2, <1>4, <1>5 DEF LinksAgree, Pointers

\* LIST_REMOVE of an element of the list. The lemma does not exclude that the
\* element is its own successor.
LEMMA UnlinkAgrees ==
  ASSUME IInv, NEW e \in live, Unlink(e), live' = live \ {e}
  PROVE  LinksAgree' /\ lh_first' \in Pointers /\ le_next' \in [Elements -> Pointers]
           /\ le_prev' \in [Elements -> Elements \union {HeadSlot}]
<1> USE PlacesAssumption
<1> DEFINE before == le_prev[e]
           after == le_next[e]
<1>1. e \in Elements /\ e # HeadSlot /\ live \subseteq Elements /\ NULL \notin live
  BY DEF IInv, TypeOK
<1>2. /\ before \in live \union {HeadSlot} /\ Target(before) = e
      /\ after \in Pointers /\ Target(e) = after
      /\ after # NULL => after \in live /\ le_prev[after] = e
  <2>1. Target(e) = after
    BY <1>1 DEF Target
  <2> QED
    BY <1>1, <2>1 DEF IInv, TypeOK, LinksAgree
<1>3. /\ lh_first' \in Pointers
      /\ le_next' \in [Elements -> Pointers]
      /\ le_prev' \in [Elements -> Elements \union {HeadSlot}]
  BY <1>1, <1>2 DEF IInv, TypeOK, Unlink, Pointers
<1>4. /\ after # NULL => le_prev'[after] = before
      /\ \A f \in live \ {after} : le_prev'[f] = le_prev[f]
  BY <1>1, <1>2 DEF IInv, TypeOK, Unlink
<1>5. \A q \in (live \union {HeadSlot}) \ {before} : Target(q)' = Target(q)
  BY <1>1, <1>2 DEF IInv, TypeOK, Unlink, Target
<1>6. \A q \in live \union {HeadSlot} : q = before => Target(q)' = after
  BY <1>1, <1>2 DEF IInv, TypeOK, Unlink, Target
<1>7. \A f \in live' : le_prev'[f] \in live' \union {HeadSlot} /\ Target(le_prev[f])' = f
  <2> SUFFICES ASSUME NEW f \in live', NEW q, q = le_prev'[f]
               PROVE  q \in live' \union {HeadSlot} /\ Target(q)' = f
    BY DEF Target
  <2> HIDE DEF before, after
  <2>1. f \in live /\ f # e /\ f # NULL
    BY <1>1
  <2>2. CASE f = after
    <3>1. q = before
      BY <1>4, <2>1, <2>2
    <3>2. before # e
      BY <1>2, <2>1, <2>2
    <3> QED
      BY <1>2, <1>6, <2>2, <3>1, <3>2
  <2>3. CASE f # after
    <3>1. q = le_prev[f]
      BY <1>4, <2>1, <2>3
    <3>2. q \in live \union {HeadSlot} /\ Target(q) = f
      BY <2>1, <3>1 DEF IInv, LinksAgree
    <3>3. q # e /\ q # before
      BY <1>2, <2>1, <2>3, <3>2
    <3> QED
      BY <1>5, <3>2, <3>3
  <2> QED
    BY <2>2, <2>3
<1>8. \A q \in live' \union {HeadSlot} :
        Target(q)' # NULL => Target(q)' \in live' /\ le_prev'[Target(q)'] = q
  <2> SUFFICES ASSUME NEW q \in live' \union {HeadSlot}, NEW t, t = Target(q)', t # NULL
               PROVE  t \in live' /\ le_prev'[t] = q
    OBVIOUS
  <2> HIDE DEF before, after
  <2>1. q \in live \union {HeadSlot} /\ q # e
    BY <1>1
  <2>2. CASE q = before
    <3>1. t = after
      BY <1>6, <2>1, <2>2
    <3>2. after # e
      BY <1>1, <1>2, <2>1, <2>2 DEF before
    <3> QED
      BY <1>2, <1>4, <2>2, <3>1, <3>2
  <2>3. CASE q # before
    <3>1. t = Target(q)
      BY <1>5, <2>1, <2>3
    <3>2. t \in live /\ le_prev[t] = q
      BY <2>1, <3>1 DEF IInv, LinksAgree
    <3>3. t # e
      BY <2>3, <3>2 DEF before
    <3>4. t # after
      BY <1>2, <2>1, <3>2
    <3> QED
      BY <1>4, <3>2, <3>3, <3>4
  <2> QED
    BY <2>2, <2>3
<1> QED
  BY <1>3, <1>7, <1>8 DEF LinksAgree


-----------------------------------------------------------------------------
\* The rank of an element grows along the links: the list has no cycle.
Ranked(rank) == \A e \in live : le_next[e] # NULL => rank[e] < rank[le_next[e]]
Acyclic == \E rank \in [Elements -> Nat] : Ranked(rank)

\* Where the loop of cleanup_expired_bindings is.
LoopInPlace == /\ pc # "idle" => binding \in live \union {NULL}
               /\ pc = "body" => binding \in live /\ ahead = le_next[binding]

SafeInv == IInv /\ Acyclic /\ LoopInPlace

LEMMA LinkRanks ==
  ASSUME IInv, Acyclic, NEW e \in Elements, e \notin live, Link(e), live' = live \union {e}
  PROVE  Acyclic'
<1> USE PlacesAssumption
<1>1. PICK rank \in [Elements -> Nat] : Ranked(rank)
  BY DEF Acyclic
<1> DEFINE new == [f \in Elements |-> IF f = e THEN 0 ELSE rank[f] + 1]
<1>2. /\ le_next'[e] = lh_first
      /\ \A f \in Elements \ {e} : le_next'[f] = le_next[f]
  BY DEF IInv, TypeOK, Link
<1>3. /\ lh_first \in live \union {NULL}
      /\ \A f \in live : le_next[f] \in live \union {NULL}
  <2>1. Target(HeadSlot) = lh_first /\ \A f \in live : Target(f) = le_next[f]
    BY DEF Target, IInv, TypeOK
  <2> QED
    BY <2>1 DEF IInv, LinksAgree
<1>4. ASSUME NEW f \in live', le_next'[f] # NULL
      PROVE  new[f] < new[le_next'[f]]
  <2>1. live \subseteq Elements
    BY DEF IInv, TypeOK
  <2>2. CASE f = e
    BY <1>2, <1>3, <1>4, <2>1, <2>2
  <2>3. CASE f # e
    <3>1. f \in live /\ le_next'[f] = le_next[f] /\ le_next[f] \in live
      BY <1>2, <1>3, <1>4, <2>1, <2>3
    <3>2. rank[f] < rank[le_next[f]]
      BY <1>1, <1>4, <3>1 DEF Ranked
    <3> QED
      BY <2>1, <3>1, <3>2
  <2> QED
    BY <2>2, <2>3
<1>5. new \in [Elements -> Nat]
  OBVIOUS
<1> HIDE DEF new
<1> QED
  BY <1>4, <1>5 DEF Acyclic, Ranked

LEMMA UnlinkRanks ==
  ASSUME IInv, Acyclic, NEW e \in live, Unlink(e), live' = live \ {e}
  PROVE  Acyclic'
<1> USE PlacesAssumption
<1>1. PICK rank \in [Elements -> Nat] : Ranked(rank)
  BY DEF Acyclic
<1>2. /\ live \subseteq Elements /\ NULL \notin live
      /\ \A f \in live : le_next[f] \in live \union {NULL}
  <2>1. \A f \in live : Target(f) = le_next[f]
    BY DEF Target, IInv, TypeOK
  <2> QED
    BY <2>1 DEF IInv, TypeOK, LinksAgree
<1>3. /\ le_prev[e] # HeadSlot => le_prev[e] \in live /\ le_next[le_prev[e]] = e
      /\ \A f \in live : le_next'[f] = IF f = le_prev[e] THEN le_next[e] ELSE le_next[f]
  BY <1>2 DEF IInv, TypeOK, LinksAgree, Target, Unlink
<1>4. ASSUME NEW f \in live', le_next'[f] # NULL
      PROVE  rank[f] < rank[le_next'[f]]
  <2>1. CASE f = le_prev[e]
    <3>1. le_next'[f] = le_next[e] /\ le_next[f] = e /\ f \in live
      BY <1>2, <1>3, <2>1
    <3>2. rank[f] < rank[e] /\ rank[e] < rank[le_next[e]]
      BY <1>1, <1>2, <1>4, <3>1 DEF Ranked
    <3>3. f \in Elements /\ e \in Elements /\ le_next[e] \in Elements
      BY <1>2, <1>4, <3>1
    <3> QED
      BY <3>1, <3>2, <3>3
  <2>2. CASE f # le_prev[e]
    BY <1>1, <1>3, <1>4, <2>2 DEF Ranked
  <2> QED
    BY <2>1, <2>2
<1> QED
  BY <1>1, <1>4 DEF Acyclic, Ranked

LEMMA InitEstablishes == Init => SafeInv
<1> SUFFICES ASSUME Init PROVE SafeInv
  OBVIOUS
<1>1. IInv
  BY PlacesAssumption DEF Init, IInv, TypeOK, LinksAgree, Target, Pointers
<1>2. [e \in Elements |-> 0] \in [Elements -> Nat] /\ Ranked([e \in Elements |-> 0])
  BY DEF Init, Ranked
<1> QED
  BY <1>1, <1>2 DEF Init, SafeInv, Acyclic, LoopInPlace

\* remove_binding of an element of the list.
LEMMA FreeSafe ==
  ASSUME IInv, Acyclic, NEW e \in live, Free(e)
  PROVE  /\ LinksAgree' /\ Acyclic'
         /\ lh_first' \in Pointers /\ le_next' \in [Elements -> Pointers]
         /\ le_prev' \in [Elements -> Elements \union {HeadSlot}]
         /\ live' \subseteq Elements /\ expired' \subseteq live'
<1>1. Unlink(e) /\ live' = live \ {e} /\ expired' = expired \ {e}
  BY DEF Free
<1>2. Acyclic' /\ LinksAgree'
  BY <1>1, UnlinkRanks, UnlinkAgrees
<1> QED
  BY <1>1, <1>2, UnlinkAgrees DEF IInv, TypeOK

\* The next element of a live one is live, and another one.
LEMMA NextIsLive ==
  ASSUME IInv, Acyclic, NEW e \in live
  PROVE  le_next[e] \in (live \ {e}) \union {NULL}
<1> USE PlacesAssumption
<1>1. Target(e) = le_next[e]
  BY DEF Target, IInv, TypeOK
<1>2. le_next[e] \in live \union {NULL}
  BY <1>1 DEF IInv, LinksAgree
<1>3. ASSUME le_next[e] = e PROVE FALSE
  <2>1. PICK rank \in [Elements -> Nat] : Ranked(rank)
    BY DEF Acyclic
  <2>2. e \in Elements /\ e # NULL
    BY DEF IInv, TypeOK
  <2> QED
    BY <1>3, <2>1, <2>2 DEF Ranked
<1> QED
  BY <1>2, <1>3

LEMMA StepPreserves == SafeInv /\ [Next]_vars => SafeInv'
<1> SUFFICES ASSUME SafeInv, [Next]_vars PROVE SafeInv'
  OBVIOUS
<1> USE PlacesAssumption
<1>1. IInv /\ Acyclic /\ LoopInPlace /\ TypeOK
  BY DEF SafeInv, IInv
<1>2. ASSUME NEW e \in Elements, Insert(e) PROVE SafeInv'
  <2>1. e \notin live /\ Link(e) /\ live' = live \union {e} /\ pc = "idle"
        /\ UNCHANGED <<expired, binding, ahead, pc>>
    BY <1>2 DEF Insert
  <2>2. LinksAgree' /\ Acyclic'
    BY <1>1, <2>1, LinkAgrees, LinkRanks
  <2>3. TypeOK'
    BY <1>1, <2>1, LinkAgrees DEF TypeOK, Pointers
  <2>4. LoopInPlace'
    BY <2>1 DEF LoopInPlace
  <2> QED
    BY <2>2, <2>3, <2>4 DEF SafeInv, IInv
<1>3. ASSUME NEW e \in Elements, Remove(e) PROVE SafeInv'
  <2>1. e \in live /\ Free(e) /\ pc = "idle" /\ UNCHANGED <<binding, ahead, pc>>
    BY <1>3 DEF Remove
  <2>2. LinksAgree' /\ Acyclic'
    BY <1>1, <2>1, FreeSafe
  <2>3. TypeOK'
    BY <1>1, <2>1, FreeSafe DEF TypeOK, Pointers
  <2>4. LoopInPlace'
    BY <2>1 DEF LoopInPlace
  <2> QED
    BY <2>2, <2>3, <2>4 DEF SafeInv, IInv
<1>4. ASSUME UNCHANGED <<links, live>>, TypeOK', LoopInPlace' PROVE SafeInv'
  BY <1>1, <1>4 DEF SafeInv, IInv, LinksAgree, Target, Acyclic, Ranked, links
<1>5. ASSUME NEW e \in Elements, Expire(e) PROVE SafeInv'
  BY <1>1, <1>4, <1>5 DEF Expire, TypeOK, LoopInPlace, links
<1>6. CASE CleanupStart
  <2>1. lh_first \in live \union {NULL}
    <3>1. Target(HeadSlot) = lh_first
      BY DEF Target
    <3> QED
      BY <1>1, <3>1 DEF IInv, LinksAgree
  <2> QED
    BY <1>1, <1>4, <1>6, <2>1 DEF CleanupStart, TypeOK, LoopInPlace, links
<1>7. CASE CleanupTest
  <2>1. binding \in live /\ ahead' = le_next[binding] /\ pc' = "body"
        /\ UNCHANGED <<links, live, expired, binding>>
    BY <1>1, <1>7 DEF CleanupTest, LoopInPlace
  <2>2. le_next[binding] \in Pointers
    BY <1>1, <2>1 DEF TypeOK
  <2> QED
    BY <1>1, <1>4, <2>1, <2>2 DEF TypeOK, LoopInPlace, links
<1>8. CASE CleanupBody
  <2>1. binding \in live /\ ahead \in (live \ {binding}) \union {NULL}
    BY <1>1, <1>8, NextIsLive DEF CleanupBody, LoopInPlace
  <2>2. pc' = "test" /\ binding' = ahead /\ ahead' = ahead
    BY <1>8 DEF CleanupBody
  <2>3. CASE binding \in expired
    <3>1. Free(binding) /\ live' = live \ {binding}
      BY <1>8, <2>3 DEF CleanupBody, Free
    <3>2. LinksAgree' /\ Acyclic'
      BY <1>1, <2>1, <3>1, FreeSafe
    <3>3. TypeOK'
      BY <1>1, <2>1, <2>2, <3>1, FreeSafe DEF TypeOK, Pointers
    <3>4. LoopInPlace'
      BY <2>1, <2>2, <3>1 DEF LoopInPlace
    <3> QED
      BY <3>2, <3>3, <3>4 DEF SafeInv, IInv
  <2>4. CASE binding \notin expired
    <3>1. UNCHANGED <<links, live, expired>>
      BY <1>8, <2>4 DEF CleanupBody
    <3> QED
      BY <1>1, <1>4, <2>1, <2>2, <3>1 DEF TypeOK, LoopInPlace, links
  <2> QED
    BY <2>3, <2>4
<1>9. CASE CleanupEnd
  BY <1>1, <1>4, <1>9 DEF CleanupEnd, TypeOK, LoopInPlace, links
<1>10. CASE UNCHANGED vars
  BY <1>1, <1>4, <1>10 DEF vars, TypeOK, LoopInPlace, links
<1> QED
  BY <1>2, <1>3, <1>5, <1>6, <1>7, <1>8, <1>9, <1>10 DEF Next

\* The pointers of the list and of the loop over it hold elements, the head or
\* NULL, and only elements that are allocated are marked as expired.
THEOREM TypeCorrect == Spec => []TypeOK
<1>1. SafeInv => TypeOK
  BY DEF SafeInv, IInv
<1> QED
  BY <1>1, InitEstablishes, StepPreserves, PTL DEF Spec

\* Insertions and removals in any order, with any number of elements in
\* memory, leave the links of queue.h agreeing in both directions and leading
\* to no freed element.
THEOREM LinksAlwaysAgree == Spec => []LinksAgree
<1>1. SafeInv => LinksAgree
  BY DEF SafeInv, IInv
<1> QED
  BY <1>1, InitEstablishes, StepPreserves, PTL DEF Spec

\* cleanup_expired_bindings, which frees the element it stands on, goes on at
\* an element that was not freed, however long the list is.
THEOREM CleanupNeverUsesFreed == Spec => []NoUseAfterFree
<1>1. SafeInv => NoUseAfterFree
  <2> SUFFICES ASSUME SafeInv PROVE NoUseAfterFree
    OBVIOUS
  <2>1. pc = "body" => ahead \in live \union {NULL}
    BY NextIsLive DEF SafeInv, LoopInPlace
  <2> QED
    BY <2>1 DEF SafeInv, LoopInPlace, NoUseAfterFree
<1> QED
  BY <1>1, InitEstablishes, StepPreserves, PTL DEF Spec
-----------------------------------------------------------------------------
(* What the loop leaves behind.  The elements it has passed are not         *)
(* expired, and a link leads from each of them, and from the head, to one   *)
(* of them or to the element the loop stands on.                            *)

PassedBy(passed) ==
  /\ passed \subseteq live
  /\ passed \intersect expired = {}
  /\ lh_first \in passed \union {binding}
  /\ \A e \in passed : le_next[e] \in passed \union {binding}

Passed == pc # "idle" => \E passed : PassedBy(passed)

LoopInv == SafeInv /\ Passed

\* The body frees the element the loop stands on, or adds it to the passed ones.
LEMMA BodyPasses ==
  ASSUME SafeInv, CleanupBody, NEW passed, PassedBy(passed)
  PROVE  \E more : PassedBy(more)'
<1> USE PlacesAssumption
<1>1. /\ IInv /\ Acyclic /\ LinksAgree
      /\ live \subseteq Elements /\ le_next \in [Elements -> Pointers]
      /\ binding \in live /\ ahead = le_next[binding]
  BY DEF SafeInv, IInv, TypeOK, LoopInPlace, CleanupBody
<1>2. binding' = ahead
  BY DEF CleanupBody
<1>3. CASE binding \notin expired
  <2>1. UNCHANGED <<lh_first, le_next, live, expired>>
    BY <1>3 DEF CleanupBody, links
  <2>2. PICK more : more = passed \union {binding}
    OBVIOUS
  <2>3. PassedBy(more)'
    BY <1>1, <1>2, <1>3, <2>1, <2>2 DEF PassedBy
  <2> QED
    BY <2>3
<1>4. CASE binding \in expired
  <2>1. Unlink(binding) /\ live' = live \ {binding} /\ expired' = expired \ {binding}
    BY <1>4 DEF CleanupBody, Free
  <2>2. binding \notin passed /\ passed \subseteq Elements
    BY <1>1, <1>4 DEF PassedBy
  <2>3. lh_first' \in passed \union {ahead}
    <3>1. CASE le_prev[binding] = HeadSlot
      BY <1>1, <2>1, <3>1 DEF Unlink
    <3>2. CASE le_prev[binding] # HeadSlot
      <4>1. lh_first # binding
        <5>1. Target(HeadSlot) = lh_first /\ binding # NULL
          BY <1>1 DEF Target
        <5> QED
          BY <1>1, <3>2, <5>1 DEF LinksAgree
      <4> QED
        BY <2>1, <3>2, <4>1 DEF Unlink, PassedBy
    <3> QED
      BY <3>1, <3>2
  <2>4. ASSUME NEW e \in passed PROVE le_next'[e] \in passed \union {ahead}
    <3>1. e \in live /\ e \in Elements /\ Target(e) = le_next[e]
      BY <1>1 DEF PassedBy, Target
    <3>2. CASE le_next[e] = binding
      <4>1. le_prev[binding] = e /\ e # HeadSlot
        BY <1>1, <3>1, <3>2 DEF LinksAgree
      <4> QED
        BY <1>1, <2>1, <3>1, <4>1 DEF Unlink
    <3>3. CASE le_next[e] # binding
      <4>1. le_prev[binding] # e
        BY <1>1, <3>1, <3>3 DEF LinksAgree
      <4>2. le_next'[e] = le_next[e]
        BY <1>1, <2>1, <3>1, <4>1 DEF Unlink
      <4> QED
        BY <3>3, <4>2 DEF PassedBy
    <3> QED
      BY <3>2, <3>3
  <2>5. PassedBy(passed)'
    BY <1>2, <2>1, <2>2, <2>3, <2>4 DEF PassedBy
  <2> QED
    BY <2>5
<1> QED
  BY <1>3, <1>4

LEMMA StepPasses == LoopInv /\ [Next]_vars => Passed'
<1> SUFFICES ASSUME LoopInv, [Next]_vars, pc' # "idle" PROVE \E passed : PassedBy(passed)'
  BY DEF Passed
<1>1. CASE CleanupStart
  <2>1. PassedBy({})'
    BY <1>1 DEF CleanupStart, PassedBy, links
  <2> QED
    BY <2>1
<1>2. CASE CleanupTest \/ UNCHANGED vars
  <2>1. pc # "idle" /\ UNCHANGED <<lh_first, le_next, live, expired, binding>>
    BY <1>2 DEF CleanupTest, vars, links
  <2>2. PICK passed : PassedBy(passed)
    BY <2>1 DEF LoopInv, Passed
  <2>3. PassedBy(passed)'
    BY <2>1, <2>2 DEF PassedBy
  <2> QED
    BY <2>3
<1>3. CASE CleanupBody
  <2>1. PICK passed : PassedBy(passed)
    BY <1>3 DEF LoopInv, Passed, CleanupBody
  <2> QED
    BY <1>3, <2>1, BodyPasses DEF LoopInv
<1> QED
  BY <1>1, <1>2, <1>3 DEF Next, Insert, Remove, Expire, CleanupEnd

\* When the loop has come to NULL it has passed every element: one that it had
\* not passed, of the least rank, could only follow one that it had passed.
LEMMA AllPassed ==
  ASSUME SafeInv, binding = NULL, NEW passed, PassedBy(passed)
  PROVE  live \subseteq passed
<1> USE PlacesAssumption
<1>1. LinksAgree /\ live \subseteq Elements /\ Acyclic
  BY DEF SafeInv, IInv, TypeOK
<1>2. PICK rank \in [Elements -> Nat] : Ranked(rank)
  BY <1>1 DEF Acyclic
<1> SUFFICES ASSUME NEW missed \in live \ passed PROVE FALSE
  OBVIOUS
<1> DEFINE ranks == {rank[e] : e \in live \ passed}
<1>3. ranks \in SUBSET Nat /\ rank[missed] \in ranks
  BY <1>1
<1>4. PICK r \in ranks : \A q \in ranks : r <= q
  BY <1>3, HasLeast
<1>5. PICK e \in live \ passed : r = rank[e]
  BY <1>4
<1>6. e # NULL /\ e \in Elements
  BY <1>1
<1>7. CASE le_prev[e] = HeadSlot
  <2>1. lh_first = e
    BY <1>1, <1>5, <1>7 DEF LinksAgree, Target
  <2> QED
    BY <1>5, <1>6, <2>1 DEF PassedBy
<1>8. CASE le_prev[e] # HeadSlot
  <2>1. PICK d : d = le_prev[e]
    OBVIOUS
  <2>2. d \in live /\ d \in Elements /\ le_next[d] = e
    BY <1>1, <1>5, <1>8, <2>1 DEF LinksAgree, Target
  <2>3. d \notin passed
    BY <1>5, <1>6, <2>2 DEF PassedBy
  <2>4. rank[d] \in ranks /\ rank[d] < rank[e]
    BY <1>2, <1>6, <2>2, <2>3 DEF Ranked
  <2>5. rank[d] \in Nat /\ rank[e] \in Nat
    BY <1>6, <2>2
  <2> QED
    BY <1>4, <1>5, <2>4, <2>5
<1> QED
  BY <1>7, <1>8

\* However long the list is and however many of its elements, in whatever
\* places, are expired: when cleanup_expired_bindings returns none is left.
THEOREM CleanupIsComplete == Spec => CleanupCompletes
<1>1. Init => LoopInv
  BY InitEstablishes DEF Init, LoopInv, Passed
<1>2. LoopInv /\ [Next]_vars => LoopInv'
  BY StepPreserves, StepPasses DEF LoopInv
<1>3. LoopInv /\ [Next]_vars => [CleanupEnd => expired = {}]_vars
  <2> SUFFICES ASSUME LoopInv, CleanupEnd PROVE expired = {}
    OBVIOUS
  <2>1. binding = NULL /\ SafeInv /\ expired \subseteq live
    BY DEF CleanupEnd, LoopInv, SafeInv, IInv, TypeOK
  <2>2. PICK passed : PassedBy(passed)
    BY DEF CleanupEnd, LoopInv, Passed
  <2>3. live \subseteq passed
    BY <2>1, <2>2, AllPassed
  <2> QED
    BY <2>1, <2>2, <2>3 DEF PassedBy
<1> QED
  BY <1>1, <1>2, <1>3, PTL DEF Spec, CleanupCompletes
-----------------------------------------------------------------------------
(* The refinement.  Listed(s) says that s is the list: it is linked, and    *)
(* has every live element once.                                             *)

Listed(s) ==
  /\ s \in [1 .. Len(s) -> live] /\ Len(s) \in Nat
  /\ Linked(s)
  /\ \A i, j \in 1 .. Len(s) : s[i] = s[j] => i = j
  /\ \A e \in live : \E i \in 1 .. Len(s) : s[i] = e

\* What is linked is determined by the links.
LEMMA OneLinked ==
  ASSUME NEW m \in Nat, NEW n \in Nat, NEW s \in [1 .. m -> Elements],
         NEW t \in [1 .. n -> Elements], Linked(s), Linked(t)
  PROVE  s = t
<1> USE PlacesAssumption
<1>1. ASSUME NEW a \in Nat, NEW b \in Nat, NEW u \in [1 .. a -> Elements],
             NEW v \in [1 .. b -> Elements], Linked(u), Linked(v)
      PROVE  a <= b /\ \A k \in 1 .. a : u[k] = v[k]
  <2> DEFINE T == {k \in Nat : k <= a => k <= b /\ \A i \in 1 .. k : u[i] = v[i]}
  <2>1. Len(u) = a /\ Len(v) = b /\ (u = <<>> <=> a = 0) /\ (v = <<>> <=> b = 0)
    <3>1. u \in Seq(Elements) /\ v \in Seq(Elements)
      OBVIOUS
    <3>2. Len(u) = a /\ Len(v) = b
      BY <3>1
    <3> QED
      BY <3>1, <3>2
  <2>2. 0 \in T
    OBVIOUS
  <2>3. ASSUME NEW k \in 0 .. a - 1, k \in T PROVE k + 1 \in T
    <3>1. k + 1 \in Nat /\ k + 1 \in 1 .. a /\ k <= b /\ \A i \in 1 .. k : u[i] = v[i]
      BY <2>3
    <3>2. u[k + 1] # NULL
      BY <3>1
    <3>3. k + 1 <= b /\ u[k + 1] = v[k + 1]
      <4>1. CASE k = 0
        BY <1>1, <2>1, <3>1, <3>2, <4>1 DEF Linked
      <4>2. CASE k # 0
        <5>1. k \in 1 .. a /\ k \in 1 .. b /\ u[k] = v[k]
          BY <3>1, <4>2
        <5>2. le_next[u[k]] = u[k + 1]
          BY <1>1, <2>1, <5>1 DEF Linked
        <5>3. k # b
          BY <1>1, <2>1, <3>2, <5>1, <5>2 DEF Linked
        <5>4. le_next[v[k]] = v[k + 1]
          BY <1>1, <2>1, <5>1, <5>3 DEF Linked
        <5> QED
          BY <5>1, <5>2, <5>3, <5>4
      <4> QED
        BY <4>1, <4>2
    <3>4. \A i \in 1 .. k + 1 : i \in 1 .. k \/ i = k + 1
      BY <3>1
    <3> QED
      BY <3>1, <3>3, <3>4
  <2> HIDE DEF T
  <2>4. 0 .. a \subseteq T
    BY <2>2, <2>3, UpTo
  <2>5. a \in T
    BY <2>4
  <2> QED
    BY <2>5 DEF T
<1>2. m = n /\ \A k \in 1 .. m : s[k] = t[k]
  <2>1. m <= n /\ \A k \in 1 .. m : s[k] = t[k]
    BY <1>1
  <2>2. n <= m
    BY <1>1
  <2> QED
    BY <2>1, <2>2
<1> QED
  BY <1>2

\* So Chain is the list.
LEMMA ChainIsListed ==
  ASSUME NEW s, Listed(s), live \subseteq Elements
  PROVE  Chain = s
<1> DEFINE n == Len(s)
           some == UNION {[1 .. k -> Elements] : k \in 0 .. Cardinality(Elements)}
<1>1. n \in Nat /\ s \in [1 .. n -> Elements] /\ Linked(s)
  BY DEF Listed
<1>2. s \in Injection(1 .. n, Elements)
  BY <1>1 DEF Injection, IsInjective, Listed
<1>3. IsFiniteSet(Elements) /\ Cardinality(Elements) \in Nat
  BY PlacesAssumption, FS_CardinalityType
<1>4. Cardinality(1 .. n) = n
  BY <1>1, FS_Interval
<1>5. n <= Cardinality(Elements)
  BY <1>2, <1>3, <1>4, FS_Injection
<1>6. s \in some
  BY <1>1, <1>3, <1>5
<1>7. \A t \in some : \E k \in Nat : t \in [1 .. k -> Elements]
  BY <1>3
<1> HIDE DEF n, some
<1>8. \A t \in some : Linked(t) => t = s
  BY <1>1, <1>7, OneLinked
<1>9. Chain = CHOOSE t \in some : Linked(t)
  BY DEF Chain, some
<1> QED
  BY <1>1, <1>6, <1>8, <1>9

ChainListed == \A s : Listed(s) /\ live \subseteq Elements => Chain = s

\* LIST_INSERT_HEAD of queue.h is that of Bindings.
LEMMA InsertLists ==
  ASSUME IInv, NEW s, Listed(s), NEW e \in Elements, e \notin live,
         Link(e), live' = live \union {e}
  PROVE  Listed(List!LIST_INSERT_HEAD(s, e))'
<1> USE PlacesAssumption
<1> DEFINE n == Len(s)
           t == List!LIST_INSERT_HEAD(s, e)
<1>1. /\ n \in Nat /\ s \in [1 .. n -> live] /\ live \subseteq Elements
      /\ \A i \in 1 .. n : s[i] \in live /\ s[i] # e
      /\ s = <<>> <=> n = 0
  <2>1. n \in Nat /\ s \in [1 .. n -> live]
    BY DEF Listed
  <2>2. s \in Seq(live)
    BY <2>1
  <2> QED
    BY <2>1, <2>2 DEF IInv, TypeOK
<1>2. /\ t \in [1 .. n + 1 -> live \union {e}] /\ t[1] = e
      /\ \A i \in 2 .. n + 1 : t[i] = s[i - 1]
  BY <1>1 DEF List!LIST_INSERT_HEAD
<1>3. Len(t) = n + 1 /\ t # <<>>
  <2>1. t \in Seq(live \union {e})
    BY <1>1, <1>2
  <2> QED
    BY <1>1, <1>2, <2>1
<1>4. /\ lh_first' = e /\ le_next'[e] = lh_first
      /\ \A f \in live : le_next'[f] = le_next[f]
  BY <1>1 DEF IInv, TypeOK, Link
<1> HIDE DEF t
<1>5. lh_first = IF n = 0 THEN NULL ELSE s[1]
  BY <1>1 DEF Listed, Linked
<1>6. ASSUME NEW i \in 1 .. n + 1
      PROVE  le_next'[t[i]] = IF i = n + 1 THEN NULL ELSE t[i + 1]
  <2>1. CASE i = 1
    BY <1>1, <1>2, <1>4, <1>5, <2>1
  <2>2. CASE i # 1
    <3>1. i - 1 \in 1 .. n /\ t[i] = s[i - 1]
      BY <1>1, <1>2, <2>2
    <3>2. le_next[s[i - 1]] = IF i - 1 = n THEN NULL ELSE s[(i - 1) + 1]
      BY <3>1 DEF Listed, Linked
    <3>3. i # n + 1 => i + 1 \in 2 .. n + 1 /\ t[i + 1] = s[i]
      BY <1>1, <1>2, <2>2
    <3>4. le_next'[s[i - 1]] = le_next[s[i - 1]]
      BY <1>1, <1>4, <3>1
    <3> QED
      BY <1>1, <3>1, <3>2, <3>3, <3>4
  <2> QED
    BY <2>1, <2>2
<1>7. ASSUME NEW i \in 1 .. n + 1, NEW j \in 1 .. n + 1, t[i] = t[j] PROVE i = j
  <2>1. \A k \in 1 .. n + 1 : k # 1 => k - 1 \in 1 .. n /\ t[k] = s[k - 1] /\ t[k] # e
    BY <1>1, <1>2
  <2>2. CASE i = 1 \/ j = 1
    BY <1>2, <1>7, <2>1, <2>2
  <2>3. CASE i # 1 /\ j # 1
    BY <1>7, <2>1, <2>3 DEF Listed
  <2> QED
    BY <2>2, <2>3
<1>8. ASSUME NEW f \in live \union {e} PROVE \E i \in 1 .. n + 1 : t[i] = f
  <2>1. CASE f = e
    BY <1>1, <1>2, <2>1
  <2>2. CASE f \in live
    <3>1. PICK i \in 1 .. n : s[i] = f
      BY <2>2 DEF Listed
    <3>2. i + 1 \in 2 .. n + 1 /\ (i + 1) - 1 = i /\ i + 1 \in 1 .. n + 1
      BY <1>1
    <3> QED
      BY <1>2, <3>1, <3>2
  <2> QED
    BY <2>1, <2>2
<1>9. Linked(t)'
  BY <1>2, <1>3, <1>4, <1>6 DEF Linked
<1>10. Listed(t)'
  BY <1>1, <1>2, <1>3, <1>7, <1>8, <1>9 DEF Listed
<1> QED
  BY <1>10 DEF t

\* LIST_REMOVE and free are remove_binding of Bindings.
LEMMA FreeLists ==
  ASSUME IInv, NEW s, Listed(s), NEW p \in 1 .. Len(s), Unlink(s[p]),
         live' = live \ {s[p]}
  PROVE  Listed(List!remove_binding(s, p))'
<1> USE PlacesAssumption
<1> DEFINE n == Len(s)
           t == List!remove_binding(s, p)
           at(i) == IF i < p THEN i ELSE i + 1
<1>0. PICK e : e = s[p]
  OBVIOUS
<1>1. /\ n \in Nat /\ n - 1 \in Nat /\ s \in [1 .. n -> live] /\ live \subseteq Elements
      /\ \A i \in 1 .. n : s[i] \in live /\ s[i] # NULL /\ s[i] # HeadSlot
      /\ s # <<>>
  <2>1. n \in Nat /\ s \in [1 .. n -> live] /\ live \subseteq Elements
    BY DEF Listed, IInv, TypeOK
  <2> QED
    BY <2>1
<1>2. \A i, j \in 1 .. n : s[i] = s[j] => i = j
  BY DEF Listed
<1>3. \A i \in 1 .. n - 1 : at(i) \in 1 .. n /\ at(i) # p
  BY <1>1
<1>4. \A i \in 1 .. n - 1 : s[at(i)] \in live' /\ t[i] = s[at(i)]
  BY <1>1, <1>2, <1>3 DEF List!remove_binding
<1>5. t \in [1 .. n - 1 -> live']
  <2>1. t = [i \in 1 .. n - 1 |-> s[at(i)]]
    BY <1>1 DEF List!remove_binding
  <2> QED
    BY <1>4, <2>1
<1>6. Len(t) = n - 1 /\ (t = <<>> <=> n = 1)
  <2> HIDE DEF t
  <2>1. PICK m \in Nat : m = n - 1
    BY <1>1
  <2>2. t \in [1 .. m -> live']
    BY <1>5, <2>1
  <2>3. t \in Seq(live') /\ Len(t) = m
    BY <2>2
  <2> QED
    BY <1>1, <2>1, <2>3
<1> HIDE DEF t
\* What the links were, seen from the places.
<1>7. /\ lh_first = s[1]
      /\ \A i \in 1 .. n : le_next[s[i]] = IF i = n THEN NULL ELSE s[i + 1]
  BY <1>1 DEF Listed, Linked
<1>8. le_prev[e] = IF p = 1 THEN HeadSlot ELSE s[p - 1]
  <2>1. CASE p = 1
    <3>1. Target(HeadSlot) = e /\ e # NULL
      BY <1>0, <1>1, <1>7, <2>1 DEF Target
    <3> QED
      BY <2>1, <3>1 DEF IInv, LinksAgree
  <2>2. CASE p # 1
    <3>1. p - 1 \in 1 .. n /\ p - 1 # n /\ (p - 1) + 1 = p
      BY <1>1, <2>2
    <3>2. s[p - 1] \in live /\ Target(s[p - 1]) = e /\ e # NULL
      BY <1>0, <1>1, <1>7, <3>1 DEF Target
    <3> QED
      BY <2>2, <3>2 DEF IInv, LinksAgree
  <2> QED
    BY <2>1, <2>2
<1>9. /\ lh_first' = IF p = 1 THEN le_next[e] ELSE s[1]
      /\ \A i \in 1 .. n :
           le_next'[s[i]] = IF i = p - 1 THEN le_next[e] ELSE le_next[s[i]]
  <2>1. le_next \in [Elements -> Pointers]
    BY DEF IInv, TypeOK
  <2>2. CASE p = 1
    BY <1>0, <1>1, <1>7, <1>8, <2>2 DEF Unlink
  <2>3. CASE p # 1
    <3>1. p - 1 \in 1 .. n
      BY <1>1, <2>3
    <3>2. le_prev[e] = s[p - 1] /\ s[p - 1] # HeadSlot
      BY <1>1, <1>8, <2>3, <3>1
    <3>3. lh_first' = lh_first /\ le_next' = [le_next EXCEPT ![s[p - 1]] = le_next[e]]
      BY <1>0, <3>2 DEF Unlink
    <3> QED
      BY <1>1, <1>2, <1>7, <2>1, <2>3, <3>1, <3>3
  <2> QED
    BY <2>2, <2>3
<1>10. le_next[e] = IF p = n THEN NULL ELSE s[p + 1]
  BY <1>0, <1>7
<1>11. lh_first' = IF n = 1 THEN NULL ELSE t[1]
  <2>1. n # 1 => 1 \in 1 .. n - 1 /\ t[1] = s[at(1)]
    BY <1>1, <1>4
  <2>2. p = 1 => at(1) = 2
    OBVIOUS
  <2>3. p # 1 => n # 1 /\ at(1) = 1
    BY <1>1
  <2> QED
    BY <1>1, <1>9, <1>10, <2>1, <2>2, <2>3
<1>12. ASSUME NEW i \in 1 .. n - 1
       PROVE  le_next'[t[i]] = IF i = n - 1 THEN NULL ELSE t[i + 1]
  <2>1. i \in Nat /\ p \in Nat /\ t[i] = s[at(i)] /\ at(i) \in 1 .. n
    BY <1>1, <1>3, <1>4
  <2>2. i # n - 1 => i + 1 \in 1 .. n - 1 /\ t[i + 1] = s[at(i + 1)]
    BY <1>1, <1>4
  <2>3. CASE i < p - 1
    BY <1>1, <1>7, <1>9, <2>1, <2>2, <2>3
  <2>4. CASE i = p - 1
    <3>1. at(i) = i /\ at(i + 1) = p + 1
      BY <2>1, <2>4
    <3>2. le_next'[t[i]] = le_next[e]
      BY <1>9, <2>1, <2>4, <3>1
    <3>3. i = n - 1 <=> p = n
      BY <1>1, <2>1, <2>4
    <3> QED
      BY <1>10, <2>2, <3>1, <3>2, <3>3
  <2>5. CASE i >= p
    <3>1. at(i) = i + 1 /\ at(i + 1) = i + 2 /\ i + 1 # p - 1
      BY <2>1, <2>5
    <3>2. le_next'[t[i]] = le_next[s[i + 1]]
      BY <1>9, <2>1, <3>1
    <3>3. i + 1 = n <=> i = n - 1
      BY <1>1, <2>1
    <3> QED
      BY <1>7, <2>1, <2>2, <3>1, <3>2, <3>3
  <2> QED
    BY <1>1, <2>1, <2>3, <2>4, <2>5
<1>13. ASSUME NEW i \in 1 .. n - 1, NEW j \in 1 .. n - 1, t[i] = t[j] PROVE i = j
  <2>1. at(i) = at(j)
    BY <1>2, <1>3, <1>4, <1>13
  <2> QED
    BY <1>1, <2>1
<1>14. ASSUME NEW f \in live' PROVE \E i \in 1 .. n - 1 : t[i] = f
  <2>1. PICK i \in 1 .. n : s[i] = f
    BY DEF Listed
  <2>2. i # p
    BY <2>1
  <2>3. CASE i < p
    BY <1>1, <1>4, <2>1, <2>3
  <2>4. CASE i > p
    <3>1. i - 1 \in 1 .. n - 1 /\ at(i - 1) = i
      BY <1>1, <2>4
    <3> QED
      BY <1>4, <2>1, <3>1
  <2> QED
    BY <1>1, <2>2, <2>3, <2>4
<1>15. Linked(t)'
  BY <1>6, <1>11, <1>12 DEF Linked
<1>16. Listed(t)'
  BY <1>1, <1>5, <1>6, <1>13, <1>14, <1>15 DEF Listed
<1> QED
  BY <1>16 DEF t

\* While the links are left alone the list is the same.
LEMMA SameLists ==
  ASSUME NEW s, Listed(s), UNCHANGED <<links, live>>
  PROVE  Listed(s)'
BY DEF Listed, Linked, links

RefineInv == SafeInv /\ \E s : Listed(s)

\* Every step is one of the sequence, or leaves it as it is.
LEMMA StepRefines ==
  ASSUME RefineInv, SafeInv', ChainListed, ChainListed', [Next]_vars
  PROVE  RefineInv' /\ [List!Next]_Chain
<1>1. PICK s : Listed(s)
  BY DEF RefineInv
<1>2. /\ IInv /\ live \subseteq Elements /\ live' \subseteq Elements
      /\ Len(s) \in Nat /\ \A i \in 1 .. Len(s) : s[i] \in live
  BY <1>1 DEF RefineInv, SafeInv, IInv, TypeOK, Listed
<1>3. Chain = s
  BY <1>1, <1>2 DEF ChainListed
<1>4. \A t : Listed(t)' => Chain' = t
  BY <1>2 DEF ChainListed
<1>5. ASSUME NEW e \in Elements, e \notin live, Link(e), live' = live \union {e}
      PROVE  RefineInv' /\ List!Next
  <2>1. Listed(List!LIST_INSERT_HEAD(s, e))'
    BY <1>1, <1>2, <1>5, InsertLists
  <2>2. Chain' = List!LIST_INSERT_HEAD(s, e)
    BY <1>4, <2>1
  <2>3. List!Insert(e)
    BY <1>2, <1>3, <1>5, <2>2 DEF List!Insert
  <2> QED
    BY <2>1, <2>3 DEF RefineInv, List!Next
<1>6. ASSUME NEW e \in live, Free(e) PROVE RefineInv' /\ List!Next
  <2>1. PICK p \in 1 .. Len(s) : s[p] = e
    BY <1>1 DEF Listed
  <2>2. Listed(List!remove_binding(s, p))'
    BY <1>1, <1>2, <1>6, <2>1, FreeLists DEF Free
  <2>3. Chain' = List!remove_binding(s, p)
    BY <1>4, <2>2
  <2>4. List!Remove(e)
    BY <1>3, <2>1, <2>3 DEF List!Remove
  <2>5. e \in Elements
    BY <1>2
  <2> QED
    BY <2>2, <2>4, <2>5 DEF RefineInv, List!Next
<1>7. ASSUME UNCHANGED <<links, live>> PROVE RefineInv' /\ UNCHANGED Chain
  <2>1. Listed(s)'
    BY <1>1, <1>7, SameLists
  <2> QED
    BY <1>3, <1>4, <2>1 DEF RefineInv
<1>8. CASE \E e \in Elements : Insert(e)
  BY <1>5, <1>8 DEF Insert
<1>9. CASE \E e \in Elements : Remove(e)
  BY <1>6, <1>9 DEF Remove
<1>10. CASE \E e \in Elements : Expire(e)
  BY <1>7, <1>10 DEF Expire
<1>11. CASE CleanupBody
  <2>1. binding \in live
    BY <1>11 DEF RefineInv, SafeInv, LoopInPlace, CleanupBody
  <2> QED
    BY <1>6, <1>7, <1>11, <2>1 DEF CleanupBody
<1>12. CASE CleanupStart \/ CleanupTest \/ CleanupEnd \/ UNCHANGED vars
  BY <1>7, <1>12 DEF CleanupStart, CleanupTest, CleanupEnd, vars, links
<1> QED
  BY <1>8, <1>9, <1>10, <1>11, <1>12 DEF Next

\* The pointers of queue.h, whatever is inserted, removed or cleaned up, behave
\* as the sequence of bindings that the handlers and the pool library are
\* modelled with: LIST_INSERT_HEAD and LIST_REMOVE are the operators of Bindings.
THEOREM SequenceImplemented == Spec => ImplementsSequence
<1>1. Init => RefineInv /\ List!Init
  <2> SUFFICES ASSUME Init PROVE RefineInv /\ List!Init
    OBVIOUS
  <2>1. SafeInv /\ live = {}
    BY InitEstablishes DEF Init
  <2>2. Listed(<<>>)
    BY <2>1 DEF Init, Listed, Linked
  <2>3. Chain = <<>>
    BY <2>1, <2>2, ChainIsListed
  <2> QED
    BY <2>1, <2>2, <2>3 DEF RefineInv, List!Init
<1>2. ChainListed
  BY ChainIsListed DEF ChainListed
<1>3. SafeInv /\ [Next]_vars => SafeInv'
  BY StepPreserves
<1>4. RefineInv /\ SafeInv' /\ ChainListed /\ ChainListed' /\ [Next]_vars
        => RefineInv' /\ [List!Next]_Chain
  BY StepRefines
<1>5. RefineInv => SafeInv
  BY DEF RefineInv
<1> QED
  BY <1>1, <1>2, <1>3, <1>4, <1>5, PTL DEF Spec, ImplementsSequence, List!Spec
=============================================================================
