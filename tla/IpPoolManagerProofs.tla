------------------------- MODULE IpPoolManagerProofs -------------------------
(***************************************************************************)
(* Proofs about IpPoolManager, for any clients, any pool, any radix of the *)
(* addresses and any number of bindings: what expires was overdue and held *)
(* no lease, and the upkeep takes what is overdue and nothing else.        *)
(***************************************************************************)
EXTENDS IpPoolManager, TLAPS

USE DEF ASSOCIATED, PENDING, EXPIRED, RELEASED, DYNAMIC, STATIC, NULL

\* A binding that waits, or waited in vain, has no lease.
Sound(b) == /\ b.status \in {PENDING, EXPIRED} => b.lease_time = 0
            /\ b.status = EXPIRED => now - b.binding_time > PendingTime

AllSound == \A i \in 1 .. Len(bindings) : Sound(bindings[i])

\* Nothing that the last call of update_bindings_statuses should have marked
\* is unmarked.
Updated == call = "update_bindings_statuses"
             => \A i \in 1 .. Len(bindings) : ~ Overdue(bindings[i])

IInv == TypeOK /\ AllSound /\ Updated

Entries == Binding(AllAddresses, Clients, Times)

-----------------------------------------------------------------------------
(* Addresses and the cursor *)

LEMMA AddressesAreNumbers ==
  /\ Radix \in Nat /\ Radix > 0
  /\ Radix * Radix \in Nat /\ Radix * Radix > 0
  /\ Radix * Radix * Radix \in Nat /\ Radix * Radix * Radix > 0
  /\ Radix * Radix * Radix * Radix \in Nat /\ Radix * Radix * Radix * Radix > 0
<1>0. \A x, y \in Nat : x > 0 /\ y > 0 => x * y \in Nat /\ x * y > 0
  OBVIOUS
<1>1. Radix \in Nat /\ Radix > 0
  BY RadixAssumption
<1>2. Radix * Radix \in Nat /\ Radix * Radix > 0
  BY <1>0, <1>1
<1>3. Radix * Radix * Radix \in Nat /\ Radix * Radix * Radix > 0
  BY <1>0, <1>1, <1>2
<1>4. Radix * Radix * Radix * Radix \in Nat /\ Radix * Radix * Radix * Radix > 0
  BY <1>0, <1>1, <1>3
<1> QED
  BY <1>1, <1>2, <1>3, <1>4

LEMMA ByteReversed ==
  ASSUME NEW x \in AllAddresses
  PROVE  ntohl(x) \in Int
<1> DEFINE byte(k) == (x \div k) % Radix
<1>1. x \in Int
  BY AddressesAreNumbers DEF AllAddresses
<1>2. \A k \in Nat : k > 0 => byte(k) \in Int
  BY <1>1, AddressesAreNumbers
<1>3. /\ byte(1) \in Int /\ byte(Radix) \in Int
      /\ byte(Radix * Radix) \in Int /\ byte(Radix * Radix * Radix) \in Int
  BY <1>2, AddressesAreNumbers
<1> HIDE DEF byte
<1>4. ntohl(x) = byte(1) * Radix * Radix * Radix + byte(Radix) * Radix * Radix
                   + byte(Radix * Radix) * Radix + byte(Radix * Radix * Radix)
  BY DEF ntohl, byte
<1>5. \A a, b \in Int : a * b \in Int /\ a + b \in Int
  OBVIOUS
<1>6. /\ byte(1) * Radix * Radix * Radix \in Int /\ byte(Radix) * Radix * Radix \in Int
      /\ byte(Radix * Radix) * Radix \in Int
  BY <1>3, <1>5, AddressesAreNumbers
<1> QED
  BY <1>3, <1>4, <1>5, <1>6

\* The cursor stays an address, even when its bytes have changed places.
LEMMA CursorStaysAddress ==
  ASSUME ip_current \in AllAddresses
  PROVE  NextCursor \in AllAddresses /\ FreeAddress \in AllAddresses
<1> DEFINE all == Radix * Radix * Radix * Radix
<1>1. all \in Nat /\ all > 0
  BY AddressesAreNumbers
<1>2. ntohl(ip_current) + 1 \in Int
  BY ByteReversed
<1> HIDE DEF all
<1>3. (ntohl(ip_current) + 1) % all \in 0 .. all - 1 /\ 0 \in 0 .. all - 1
  BY <1>1, <1>2
<1> QED
  BY <1>3 DEF NextCursor, FreeAddress, AllAddresses, all

LEMMA RangeIsAddresses ==
  ipFirst .. ipLast \subseteq AllAddresses /\ 0 \in AllAddresses /\ ipFirst \in AllAddresses
BY PoolAssumption, AddressesAreNumbers DEF AllAddresses

-----------------------------------------------------------------------------
(* What the operations do to the list *)

LEMMA TimesAreNumbers ==
  /\ MaxTime \in Nat /\ PendingTime \in Nat /\ MaxLease \in Nat /\ MaxBindings \in Nat
  /\ 0 \in Times /\ 0 .. MaxTime \subseteq Times
  /\ \A t \in 0 .. MaxTime : t + MaxLease \in Times
BY BoundsAssumption, LeaseAssumption DEF Times

LEMMA Typed ==
  ASSUME TypeOK
  PROVE  /\ Len(bindings) \in Nat /\ Len(bindings) <= MaxBindings
         /\ bindings \in [1 .. Len(bindings) -> Entries]
         /\ now \in Int
         /\ \A i \in 1 .. Len(bindings) : bindings[i] \in Entries
         /\ \A b \in Entries : b.binding_time \in Int
<1>1. bindings \in Seq(Entries) /\ now \in 0 .. MaxTime
  BY DEF TypeOK, Entries
<1>2. /\ Len(bindings) \in Nat /\ \A i \in 1 .. Len(bindings) : bindings[i] \in Entries
      /\ bindings \in [1 .. Len(bindings) -> Entries]
  BY <1>1
<1>3. \A b \in Entries : b.binding_time \in 0 .. MaxTime + MaxLease
  BY DEF Entries, Binding, Times
<1> QED
  BY <1>1, <1>2, <1>3, TimesAreNumbers DEF TypeOK

LEMMA Made ==
  ASSUME NEW S, NEW n \in Nat, NEW f \in [1 .. n -> S]
  PROVE  f \in Seq(S) /\ Len(f) = n
OBVIOUS

\* The list after the step has sound bindings only.
Lawful == /\ bindings' \in Seq(Entries)
          /\ Len(bindings') <= MaxBindings
          /\ \A i \in 1 .. Len(bindings') : Sound(bindings'[i])

\* A list that is given by its bindings, each of which is sound.
LEMMA MadeLawful ==
  ASSUME NEW n \in Nat, n <= MaxBindings, bindings' \in [1 .. n -> Entries],
         \A i \in 1 .. n : Sound(bindings'[i])
  PROVE  Lawful /\ Len(bindings') = n
<1>1. bindings' \in Seq(Entries) /\ Len(bindings') = n
  BY Made
<1> QED
  BY <1>1 DEF Lawful

LEMMA SameIsLawful ==
  ASSUME TypeOK, AllSound, UNCHANGED bindings
  PROVE  Lawful
BY DEF TypeOK, AllSound, Lawful, Entries

LEMMA RemoveLawful ==
  ASSUME TypeOK, AllSound, NEW p, Remove(p)
  PROVE  Lawful
<1> DEFINE n == Len(bindings) - 1
           f(i) == IF i < p THEN bindings[i] ELSE bindings[i + 1]
<1>1. p \in 1 .. Len(bindings) /\ bindings' = [i \in 1 .. n |-> f(i)]
  BY DEF Remove, remove_binding
<1>2. n \in Nat /\ n <= MaxBindings
  BY <1>1, Typed, TimesAreNumbers
<1>3. \A i \in 1 .. n : f(i) \in Entries /\ Sound(f(i))
  BY <1>1, Typed DEF AllSound
<1> HIDE DEF n, f
<1> QED
  BY <1>1, <1>2, <1>3, MadeLawful

LEMMA UpdateLawful ==
  ASSUME TypeOK, AllSound, update_bindings_statuses
  PROVE  Lawful /\ \A i \in 1 .. Len(bindings') : ~ Overdue(bindings'[i])
<1> DEFINE marked(b) == IF Overdue(b) THEN [b EXCEPT !.status = EXPIRED] ELSE b
           f(i) == marked(bindings[i])
<1>1. bindings' = [i \in 1 .. Len(bindings) |-> f(i)]
  BY DEF update_bindings_statuses
<1>2. \A b \in Entries : Sound(b) => /\ marked(b) \in Entries
                                    /\ Sound(marked(b))
                                    /\ ~ Overdue(marked(b))
  <2> TAKE b \in Entries
  <2>1. CASE Overdue(b)
    <3>1. [b EXCEPT !.status = EXPIRED] \in Entries
      BY DEF Entries, Binding, Statuses
    <3>2. /\ [b EXCEPT !.status = EXPIRED].status = EXPIRED
          /\ [b EXCEPT !.status = EXPIRED].binding_time = b.binding_time
          /\ [b EXCEPT !.status = EXPIRED].lease_time = b.lease_time
      BY DEF Entries, Binding
    <3> QED
      BY <2>1, <3>1, <3>2 DEF Overdue, Sound
  <2>2. CASE ~ Overdue(b)
    BY <2>2
  <2> QED
    BY <2>1, <2>2
<1>3. \A i \in 1 .. Len(bindings) :
        f(i) \in Entries /\ Sound(f(i)) /\ ~ Overdue(f(i))
  BY <1>2, Typed DEF AllSound
<1> HIDE DEF f
<1>4. Lawful /\ Len(bindings') = Len(bindings)
  BY <1>1, <1>3, MadeLawful, Typed
<1> QED
  BY <1>1, <1>3, <1>4

LEMMA CleanupKeeps ==
  ASSUME TypeOK, cleanup_expired_bindings
  PROVE  \E n \in 0 .. Len(bindings) : \E at \in [1 .. n -> 1 .. Len(bindings)] :
           /\ \A k, l \in 1 .. n : k < l => at[k] < at[l]
           /\ \A k \in 1 .. n : Kept(bindings[at[k]])
           /\ \A p \in 1 .. Len(bindings) : Kept(bindings[p]) => \E k \in 1 .. n : at[k] = p
           /\ bindings' = [k \in 1 .. n |-> bindings[at[k]]]
           /\ Len(bindings') = n
<1>1. PICK n \in 0 .. Len(bindings) : \E at \in [1 .. n -> 1 .. Len(bindings)] :
        /\ KeptPlaces(at)
        /\ bindings' = [k \in 1 .. n |-> bindings[at[k]]]
  BY DEF cleanup_expired_bindings
<1>2. PICK at \in [1 .. n -> 1 .. Len(bindings)] :
        /\ KeptPlaces(at)
        /\ bindings' = [k \in 1 .. n |-> bindings[at[k]]]
  BY <1>1
<1>3. n \in Nat
  BY Typed
<1>4. Len(bindings') = n
  BY <1>2, <1>3
<1>5. /\ \A k, l \in 1 .. n : k < l => at[k] < at[l]
      /\ {at[k] : k \in 1 .. n} = {p \in 1 .. Len(bindings) : Kept(bindings[p])}
  BY <1>2 DEF KeptPlaces
<1>6. /\ \A k \in 1 .. n : Kept(bindings[at[k]])
      /\ \A p \in 1 .. Len(bindings) : Kept(bindings[p]) => \E k \in 1 .. n : at[k] = p
  BY <1>5
<1> QED
  BY <1>2, <1>4, <1>5, <1>6

LEMMA CleanupLawful ==
  ASSUME TypeOK, AllSound, cleanup_expired_bindings
  PROVE  Lawful
<1>1. PICK n \in 0 .. Len(bindings) : \E at \in [1 .. n -> 1 .. Len(bindings)] :
        bindings' = [k \in 1 .. n |-> bindings[at[k]]]
  BY CleanupKeeps
<1>2. PICK at \in [1 .. n -> 1 .. Len(bindings)] :
        bindings' = [k \in 1 .. n |-> bindings[at[k]]]
  BY <1>1
<1> DEFINE f(k) == bindings[at[k]]
<1>3. n \in Nat /\ n <= MaxBindings
  BY Typed, TimesAreNumbers
<1>4. \A k \in 1 .. n : f(k) \in Entries /\ Sound(f(k))
  BY Typed DEF AllSound
<1>5. bindings' = [k \in 1 .. n |-> f(k)]
  BY <1>2
<1> HIDE DEF f
<1> QED
  BY <1>3, <1>4, <1>5, MadeLawful

\* One binding is changed into another that is sound.
LEMMA MarkedIsLawful ==
  ASSUME TypeOK, AllSound, NEW p \in 1 .. Len(bindings), NEW b \in Entries, Sound(b),
         bindings' = [bindings EXCEPT ![p] = b]
  PROVE  Lawful
<1> DEFINE f(i) == IF i = p THEN b ELSE bindings[i]
<1>1. bindings' = [i \in 1 .. Len(bindings) |-> f(i)]
  BY Typed
<1>2. \A i \in 1 .. Len(bindings) : f(i) \in Entries /\ Sound(f(i))
  BY Typed DEF AllSound
<1> HIDE DEF f
<1> QED
  BY <1>1, <1>2, MadeLawful, Typed

LEMMA AssociateLawful ==
  ASSUME TypeOK, AllSound, NEW p, NEW c \in Clients, Associate(p, c)
  PROVE  Lawful
<1> DEFINE b == [bindings[p] EXCEPT !.binding_time = now, !.lease_time = now + MaxLease,
                                    !.status = ASSOCIATED, !.is_static = DYNAMIC,
                                    !.cident_len = CidentLen, !.cident = c]
<1>1. p \in 1 .. Len(bindings) /\ bindings[p] \in Entries
  BY Typed DEF Associate
<1>2. bindings' = [bindings EXCEPT ![p] = b]
  BY DEF Associate
<1>3. now \in Times /\ now + MaxLease \in Times
  BY TimesAreNumbers DEF TypeOK
<1>4. b \in Entries /\ b.status = ASSOCIATED
  BY <1>1, <1>3, LengthAssumption DEF Entries, Binding, Statuses
<1> HIDE DEF b
<1>5. Sound(b)
  BY <1>4 DEF Sound
<1> QED
  BY <1>1, <1>2, <1>4, <1>5, MarkedIsLawful

LEMMA ReleaseLawful ==
  ASSUME TypeOK, AllSound, NEW p, Release(p)
  PROVE  Lawful
<1> DEFINE b == [bindings[p] EXCEPT !.status = RELEASED, !.lease_time = 0]
<1>1. p \in 1 .. Len(bindings) /\ bindings[p] \in Entries
  BY Typed DEF Release
<1>2. bindings' = [bindings EXCEPT ![p] = b]
  BY <1>1, Typed DEF Release
<1>3. b \in Entries /\ b.status = RELEASED
  BY <1>1, TimesAreNumbers DEF Entries, Binding, Statuses
<1> HIDE DEF b
<1>4. Sound(b)
  BY <1>3 DEF Sound
<1> QED
  BY <1>1, <1>2, <1>3, <1>4, MarkedIsLawful

LEMMA AddLawful ==
  ASSUME TypeOK, AllSound, Len(bindings) < MaxBindings,
         NEW address \in AllAddresses, NEW cident \in Clients,
         NEW is_static \in {DYNAMIC, STATIC}, Add(address, cident, is_static)
  PROVE  /\ Lawful
         /\ UNCHANGED process /\ returned' \in 0 .. Len(bindings')
<1> DEFINE b == NewBinding(address, cident, is_static)
           f(i) == IF i = 1 THEN b ELSE bindings[i - 1]
<1>1. b \in Entries /\ b.status = PENDING /\ b.lease_time = 0
  BY LengthAssumption, TimesAreNumbers DEF TypeOK, NewBinding, Entries, Binding, Statuses
<1> HIDE DEF b
<1>2. Sound(b)
  BY <1>1 DEF Sound
<1>3. CASE bindings' = LIST_INSERT_HEAD(bindings, b) /\ Return(1)
  <2>1. bindings' = [i \in 1 .. Len(bindings) + 1 |-> f(i)]
    BY <1>3 DEF LIST_INSERT_HEAD
  <2>2. Len(bindings) + 1 \in Nat /\ Len(bindings) + 1 <= MaxBindings
    BY Typed, TimesAreNumbers
  <2>3. \A i \in 1 .. Len(bindings) + 1 : f(i) \in Entries /\ Sound(f(i))
    BY <1>1, <1>2, Typed DEF AllSound
  <2> HIDE DEF f
  <2>4. Lawful /\ Len(bindings') = Len(bindings) + 1
    BY <2>1, <2>2, <2>3, MadeLawful
  <2> QED
    BY <1>3, <2>4, Typed DEF Return
<1>4. CASE UNCHANGED bindings /\ Return(NULL)
  BY <1>4, SameIsLawful, Typed DEF Return
<1> QED
  BY <1>3, <1>4 DEF Add, b

-----------------------------------------------------------------------------
(* The invariant *)

LEMMA InitIInv == Init => IInv
<1> SUFFICES ASSUME Init PROVE IInv
  OBVIOUS
<1>1. Len(bindings) = 0 /\ bindings \in Seq(Entries)
  BY DEF Init
<1>2. TypeOK
  BY <1>1, RangeIsAddresses, BoundsAssumption DEF Init, TypeOK, Entries
<1> QED
  BY <1>1, <1>2 DEF Init, IInv, AllSound, Updated

Calls == {"init_binding_list", "add_binding", "remove_binding", "update_bindings_statuses",
          "cleanup_expired_bindings", "new_dynamic_binding", "associate", "release", "tick"}

\* What any operation does to the state.
Effect == /\ Lawful
          /\ now' \in 0 .. MaxTime /\ now <= now'
          /\ ip_current' \in AllAddresses
          /\ returned' \in 0 .. Len(bindings')
          /\ call' \in Calls
          /\ process' \in {"running", "faulted"}

\* Time does no harm to a sound binding.
LEMMA EffectKeeps ==
  ASSUME TypeOK, Effect
  PROVE  TypeOK' /\ AllSound'
<1>1. TypeOK'
  BY DEF Effect, Lawful, Calls, TypeOK, Entries
<1>2. /\ now \in Int /\ now' \in Int /\ now <= now' /\ PendingTime \in Int
      /\ Len(bindings') \in Nat
      /\ \A i \in 1 .. Len(bindings') :
           bindings'[i] \in Entries /\ Sound(bindings'[i])
  BY Typed, TimesAreNumbers DEF Effect, Lawful
<1>3. ASSUME NEW i \in 1 .. Len(bindings') PROVE Sound(bindings[i])'
  <2>1. bindings'[i].binding_time \in Int /\ Sound(bindings'[i])
    BY <1>2, Typed
  <2> QED
    BY <1>2, <2>1 DEF Sound
<1> QED
  BY <1>1, <1>3 DEF AllSound

\* The operations that leave the cursor and the clock alone and return none.
LEMMA ListEffect ==
  ASSUME TypeOK, Lawful,
         UNCHANGED <<ip_current, now, process>>, returned' = NULL, call' \in Calls
  PROVE  Effect
<1>1. Len(bindings') \in Nat
  BY DEF Lawful
<1> QED
  BY <1>1, Typed DEF Effect, TypeOK

LEMMA AddEffect ==
  ASSUME TypeOK, AllSound, NEW a \in ipFirst .. ipLast, NEW c \in Clients,
         add_binding(a, c, STATIC)
  PROVE  Effect /\ call' # "update_bindings_statuses"
<1>1. a \in AllAddresses
  BY RangeIsAddresses
<1>2. /\ UNCHANGED <<ip_current, now>> /\ call' = "add_binding"
      /\ Len(bindings) < MaxBindings
  BY DEF add_binding, Call
<1>3. /\ Lawful
      /\ UNCHANGED process /\ returned' \in 0 .. Len(bindings')
  BY <1>1, <1>2, AddLawful DEF add_binding
<1> QED
  BY <1>2, <1>3, Typed DEF TypeOK, Effect, Calls

\* The last loop of new_dynamic_binding takes nothing from the list.
LEMMA LastResortKeeps ==
  ASSUME TypeOK, NEW found \in 0 .. Len(bindings), LastResort(found), process = "running"
  PROVE  /\ UNCHANGED bindings
         /\ returned' \in 0 .. Len(bindings)
         /\ process' \in {"running", "faulted"}
BY Typed DEF LastResort, Return, FirstDynamic

LEMMA NewDynamicEffect ==
  ASSUME TypeOK, AllSound, NEW a, NEW c \in Clients, new_dynamic_binding(a, c)
  PROVE  Effect /\ call' # "update_bindings_statuses"
<1>1. /\ UNCHANGED now /\ call' = "new_dynamic_binding"
      /\ Len(bindings) < MaxBindings /\ now \in 0 .. MaxTime /\ now \in Int
      /\ process = "running" /\ ip_current \in AllAddresses
  BY Typed DEF new_dynamic_binding, Call, TypeOK
<1>2. PICK found \in 0 .. Len(bindings) :
        IF Reusable(found)
          THEN Return(found) /\ UNCHANGED <<ip_current, bindings>>
          ELSE NewAddress(found, c)
  BY DEF new_dynamic_binding
<1>3. ASSUME UNCHANGED bindings, returned' \in 0 .. Len(bindings),
             process' \in {"running", "faulted"}, ip_current' \in AllAddresses
      PROVE  Effect
  BY <1>1, <1>3, SameIsLawful DEF Effect, Calls
<1>4. CASE Reusable(found)
  BY <1>1, <1>2, <1>3, <1>4 DEF Return
<1>5. CASE ~ Reusable(found)
  <2>1. NewAddress(found, c)
    BY <1>2, <1>5
  <2>2. ip_current' \in AllAddresses /\ FreeAddress \in AllAddresses
    BY <1>1, <2>1, CursorStaysAddress DEF NewAddress
  <2>3. CASE FreeAddress # 0
    <3>1. /\ Lawful
          /\ UNCHANGED process /\ returned' \in 0 .. Len(bindings')
      BY <1>1, <2>1, <2>2, <2>3, AddLawful DEF NewAddress
    <3> QED
      BY <1>1, <2>2, <3>1 DEF Effect, Calls
  <2>4. CASE FreeAddress = 0
    <3>1. LastResort(found)
      BY <2>1, <2>4 DEF NewAddress
    <3> QED
      BY <1>1, <1>3, <2>2, <3>1, LastResortKeeps
  <2> QED
    BY <2>3, <2>4
<1> QED
  BY <1>1, <1>4, <1>5

LEMMA StepIInv == IInv /\ [Next]_vars => IInv'
<1> SUFFICES ASSUME IInv, [Next]_vars PROVE IInv'
  OBVIOUS
<1>0. TypeOK /\ AllSound
  BY DEF IInv
<1>1. ASSUME Effect, call' # "update_bindings_statuses" PROVE IInv'
  BY <1>0, <1>1, EffectKeeps DEF IInv, Updated
<1>2. ASSUME NEW a \in ipFirst .. ipLast, NEW c \in Clients, add_binding(a, c, STATIC)
      PROVE  IInv'
  BY <1>0, <1>1, <1>2, AddEffect
<1>3. ASSUME NEW a \in {0} \union ipFirst .. ipLast, NEW c \in Clients,
             new_dynamic_binding(a, c)
      PROVE  IInv'
  BY <1>0, <1>1, <1>3, NewDynamicEffect
<1>4. ASSUME NEW p \in 1 .. Len(bindings), NEW c \in Clients, Associate(p, c) PROVE IInv'
  <2>1. UNCHANGED <<ip_current, now, process>> /\ returned' = NULL /\ call' = "associate"
    BY <1>4 DEF Associate, Call, Return
  <2> QED
    BY <1>0, <1>1, <1>4, <2>1, AssociateLawful, ListEffect DEF Calls
<1>5. ASSUME NEW p \in 1 .. Len(bindings), Remove(p) \/ Release(p) PROVE IInv'
  <2>1. /\ UNCHANGED <<ip_current, now, process>> /\ returned' = NULL
        /\ call' \in {"remove_binding", "release"}
    BY <1>5 DEF Remove, Release, Call, Return
  <2> QED
    BY <1>0, <1>1, <1>5, <2>1, RemoveLawful, ReleaseLawful, ListEffect DEF Calls
<1>6. CASE update_bindings_statuses
  <2>1. UNCHANGED <<ip_current, now, process>> /\ returned' = NULL
        /\ call' = "update_bindings_statuses"
    BY <1>6 DEF update_bindings_statuses, Call, Return
  <2>2. Effect
    BY <1>0, <1>6, <2>1, UpdateLawful, ListEffect DEF Calls
  <2>3. Updated'
    BY <1>0, <1>6, <2>1, UpdateLawful DEF Updated, Overdue
  <2> QED
    BY <1>0, <2>2, <2>3, EffectKeeps DEF IInv
<1>7. CASE cleanup_expired_bindings
  <2>1. UNCHANGED <<ip_current, now, process>> /\ returned' = NULL
        /\ call' = "cleanup_expired_bindings"
    BY <1>7 DEF cleanup_expired_bindings, Call, Return
  <2> QED
    BY <1>0, <1>1, <1>7, <2>1, CleanupLawful, ListEffect DEF Calls
<1>8. CASE Tick
  <2>1. /\ UNCHANGED <<ip_current, bindings, process>> /\ returned' = NULL
        /\ call' = "tick" /\ now' = now + 1 /\ now < MaxTime
    BY <1>8 DEF Tick, Call
  <2>2. now' \in 0 .. MaxTime /\ now <= now'
    BY <1>0, <2>1, BoundsAssumption DEF TypeOK
  <2>3. Effect
    BY <1>0, <2>1, <2>2, SameIsLawful, Typed DEF Effect, TypeOK, Calls
  <2> QED
    BY <1>1, <2>1, <2>3
<1>9. CASE UNCHANGED vars
  BY <1>9 DEF vars, IInv, TypeOK, AllSound, Sound, Updated, Overdue
<1> QED
  BY <1>2, <1>3, <1>4, <1>5, <1>6, <1>7, <1>8, <1>9 DEF Next, Rest

-----------------------------------------------------------------------------
(* The theorems *)

\* The list, the cursor and the clock are well typed, the cursor being an
\* address even where take_free_address has swapped its bytes.
THEOREM TypeCorrect == Spec => []TypeOK
<1>1. IInv => TypeOK
  BY DEF IInv
<1> QED
  BY <1>1, InitIInv, StepIInv, PTL DEF Spec

\* Only a binding that was not confirmed in its time, and that nobody holds a
\* lease of, is ever marked as expired.
THEOREM ExpiredInTime == Spec => []ExpiredWasOverdue
<1>1. IInv => ExpiredWasOverdue
  BY DEF IInv, AllSound, Sound, ExpiredWasOverdue
<1> QED
  BY <1>1, InitIInv, StepIInv, PTL DEF Spec

\* cleanup_expired_bindings after update_bindings_statuses leaves no binding
\* that waited too long: the first marks all of them, and the second keeps
\* nothing that is marked.
THEOREM UpkeepIsComplete == Spec => UpkeepReclaims
<1>1. ASSUME IInv, [Next]_vars, call = "update_bindings_statuses",
             call' = "cleanup_expired_bindings"
      PROVE  \A i \in 1 .. Len(bindings') :
               /\ bindings'[i].status # EXPIRED
               /\ bindings'[i].status = PENDING
                    => now - bindings'[i].binding_time <= PendingTime
  <2>1. cleanup_expired_bindings
    BY <1>1 DEF Next, Rest, vars, add_binding, new_dynamic_binding, Remove, Associate,
                Release, update_bindings_statuses, Tick, Call
  <2>2. PICK n \in 0 .. Len(bindings) : \E at \in [1 .. n -> 1 .. Len(bindings)] :
          /\ \A k \in 1 .. n : Kept(bindings[at[k]])
          /\ bindings' = [k \in 1 .. n |-> bindings[at[k]]]
          /\ Len(bindings') = n
    BY <1>1, <2>1, CleanupKeeps, Zenon DEF IInv
  <2>3. PICK at \in [1 .. n -> 1 .. Len(bindings)] :
          /\ \A k \in 1 .. n : Kept(bindings[at[k]])
          /\ bindings' = [k \in 1 .. n |-> bindings[at[k]]]
          /\ Len(bindings') = n
    BY <2>2
  <2> SUFFICES ASSUME NEW i \in 1 .. n
               PROVE  /\ bindings'[i].status # EXPIRED
                      /\ bindings'[i].status = PENDING
                           => now - bindings'[i].binding_time <= PendingTime
    BY <2>3
  <2>4. bindings'[i] = bindings[at[i]] /\ at[i] \in 1 .. Len(bindings)
    BY <2>3
  <2>5. ~ Overdue(bindings[at[i]]) /\ bindings[at[i]].binding_time \in Int /\ now \in Int
    BY <1>1, <2>4, Typed DEF IInv, Updated
  <2> QED
    BY <2>3, <2>4, <2>5, BoundsAssumption DEF Kept, Overdue
<1> QED
  BY <1>1, InitIInv, StepIInv, PTL DEF Spec, UpkeepReclaims

LEMMA UpdateSparesLeases ==
  ASSUME TypeOK, update_bindings_statuses
  PROVE  SameLeases(bindings, bindings')
<1> DEFINE to == [p \in Leases(bindings) |-> p]
<1>1. Len(bindings) \in Nat /\ \A i \in 1 .. Len(bindings) : bindings[i] \in Entries
  BY Typed
<1>2. bindings' = [i \in 1 .. Len(bindings) |->
                     IF Overdue(bindings[i]) THEN [bindings[i] EXCEPT !.status = EXPIRED]
                                             ELSE bindings[i]]
  BY DEF update_bindings_statuses
<1>3. Len(bindings') = Len(bindings)
  BY <1>1, <1>2
<1>4. \A i \in 1 .. Len(bindings) :
        /\ bindings[i].status = ASSOCIATED => bindings'[i] = bindings[i]
        /\ bindings'[i].status = ASSOCIATED => bindings[i].status = ASSOCIATED
  BY <1>1, <1>2 DEF Overdue, Entries, Binding
<1>5. Leases(bindings') = Leases(bindings)
  BY <1>3, <1>4 DEF Leases
<1>6. to \in [Leases(bindings) -> Leases(bindings')]
  BY <1>5
<1>7. \A p \in Leases(bindings) : bindings'[to[p]] = bindings[p]
  BY <1>4 DEF Leases
<1>8. \A p, q \in Leases(bindings) : p < q => to[p] < to[q]
  OBVIOUS
<1>9. \A r \in Leases(bindings') : \E p \in Leases(bindings) : to[p] = r
  BY <1>5
<1> HIDE DEF to
<1> QED
  BY <1>6, <1>7, <1>8, <1>9 DEF SameLeases

LEMMA CleanupSparesLeases ==
  ASSUME TypeOK, cleanup_expired_bindings
  PROVE  SameLeases(bindings, bindings')
<1>1. PICK n \in 0 .. Len(bindings) : \E at \in [1 .. n -> 1 .. Len(bindings)] :
        /\ \A k, l \in 1 .. n : k < l => at[k] < at[l]
        /\ \A p \in 1 .. Len(bindings) : Kept(bindings[p]) => \E k \in 1 .. n : at[k] = p
        /\ bindings' = [k \in 1 .. n |-> bindings[at[k]]]
        /\ Len(bindings') = n
  BY CleanupKeeps, Zenon
<1>2. PICK at \in [1 .. n -> 1 .. Len(bindings)] :
        /\ \A k, l \in 1 .. n : k < l => at[k] < at[l]
        /\ \A p \in 1 .. Len(bindings) : Kept(bindings[p]) => \E k \in 1 .. n : at[k] = p
        /\ bindings' = [k \in 1 .. n |-> bindings[at[k]]]
        /\ Len(bindings') = n
  BY <1>1
<1>3. \A k \in 1 .. n : k \in Leases(bindings') <=> at[k] \in Leases(bindings)
  BY <1>2 DEF Leases
<1>4. \A p \in Leases(bindings) : \E k \in Leases(bindings') : at[k] = p
  <2> TAKE p \in Leases(bindings)
  <2>1. p \in 1 .. Len(bindings) /\ Kept(bindings[p])
    BY DEF Leases, Kept
  <2> QED
    BY <1>2, <1>3, <2>1
<1> DEFINE to == [p \in Leases(bindings) |-> CHOOSE k \in Leases(bindings') : at[k] = p]
<1>5. \A p \in Leases(bindings) : to[p] \in Leases(bindings') /\ at[to[p]] = p
  BY <1>4
<1>6. to \in [Leases(bindings) -> Leases(bindings')]
  BY <1>5
<1> HIDE DEF to
<1>7. \A k \in Leases(bindings') : k \in 1 .. n
  BY <1>2 DEF Leases
<1>8. \A p \in Leases(bindings) : bindings'[to[p]] = bindings[p]
  BY <1>2, <1>5, <1>7
<1>9. \A k, l \in 1 .. n : at[k] < at[l] => k < l
  <2> TAKE k, l \in 1 .. n
  <2>1. k < l \/ k = l \/ l < k
    BY <1>2
  <2>2. at[k] \in Int /\ at[l] \in Int
    BY <1>2
  <2> QED
    BY <1>2, <2>1, <2>2
<1>10. \A p, q \in Leases(bindings) : p < q => to[p] < to[q]
  BY <1>5, <1>7, <1>9
<1>11. \A r \in Leases(bindings') : \E p \in Leases(bindings) : to[p] = r
  <2> TAKE r \in Leases(bindings')
  <2>1. at[r] \in Leases(bindings) /\ r \in 1 .. n
    BY <1>3, <1>7
  <2>2. at[to[at[r]]] = at[r] /\ to[at[r]] \in 1 .. n
    BY <1>5, <1>7, <2>1
  <2>3. to[at[r]] = r
    <3>1. \A k, l \in 1 .. n : at[k] = at[l] => k = l
      <4> TAKE k, l \in 1 .. n
      <4>1. k < l \/ k = l \/ l < k
        BY <1>2
      <4>2. at[k] \in Int /\ at[l] \in Int
        BY <1>2
      <4> QED
        BY <1>2, <4>1, <4>2
    <3> QED
      BY <2>1, <2>2, <3>1
  <2> QED
    BY <2>1, <2>3
<1> QED
  BY <1>6, <1>8, <1>10, <1>11 DEF SameLeases

LEMMA UnchangedSparesLeases ==
  ASSUME TypeOK, UNCHANGED bindings
  PROVE  SameLeases(bindings, bindings')
<1> DEFINE to == [p \in Leases(bindings) |-> p]
<1>1. to \in [Leases(bindings) -> Leases(bindings)]
  OBVIOUS
<1>2. SameLeases(bindings, bindings)
  BY <1>1 DEF SameLeases
<1> QED
  BY <1>2

\* The upkeep takes no lease from its client, changes none, moves none past
\* another and makes none.
THEOREM LeasesAreSpared == Spec => UpkeepSparesLeases
<1>1. ASSUME IInv, [Next]_vars,
             call' \in {"update_bindings_statuses", "cleanup_expired_bindings"}
      PROVE  SameLeases(bindings, bindings')
  <2>1. \/ update_bindings_statuses \/ cleanup_expired_bindings
        \/ UNCHANGED bindings
    BY <1>1 DEF Next, Rest, vars, add_binding, new_dynamic_binding, Remove, Associate,
                Release, Tick, Call
  <2> QED
    BY <1>1, <2>1, UpdateSparesLeases, CleanupSparesLeases, UnchangedSparesLeases DEF IInv
<1> QED
  BY <1>1, InitIInv, StepIInv, PTL DEF Spec, UpkeepSparesLeases
==============================================================================
