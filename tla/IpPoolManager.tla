---------------------------- MODULE IpPoolManager ----------------------------
(***************************************************************************)
(* The operations ip_pool_manager.h offers on the binding list and on the  *)
(* pool's cursor, called one after the other by one thread.  The server    *)
(* calls only init_binding_list, search_binding and remove_binding; the    *)
(* others are compiled into it and called by nothing, so their caller here *)
(* is any program that sets the fields of a binding as the handlers of     *)
(* server_connection.c do (Associate, Release).                            *)
(*                                                                         *)
(* An address is a number of four digits of radix Radix, its bytes.        *)
(***************************************************************************)
EXTENDS Bindings

CONSTANTS
  Clients,          \* client identifiers
  CidentLen,        \* their length
  Radix,            \* the values of a byte (256)
  ipFirst, ipLast,  \* indexes->ip_first and indexes->ip_last
  PendingTime,      \* how long a binding may stay PENDING (3600)
  MaxLease,         \* the caller's config->max_lease_time
  MaxBindings,      \* bound of the model: bindings in the list
  MaxTime           \* bound of the model: the clock stops there

AllAddresses == 0 .. Radix * Radix * Radix * Radix - 1

ASSUME RadixAssumption == Radix \in Nat \ {0, 1}
ASSUME PoolAssumption == /\ ipFirst \in AllAddresses \ {0}
                         /\ ipLast \in AllAddresses
ASSUME LengthAssumption == CidentLen \in 0 .. 255
ASSUME LeaseAssumption == MaxLease \in Nat
ASSUME BoundsAssumption == /\ PendingTime \in Nat
                           /\ MaxBindings \in Nat
                           /\ MaxTime \in Nat

VARIABLES
  ip_current,  \* indexes->ip_current
  bindings,    \* the list
  now,         \* time(NULL)
  returned,    \* the place of the binding the last call returned, 0 for NULL
  call,        \* the operation called last
  process      \* "running", or "faulted" once a null pointer was followed

vars == <<ip_current, bindings, now, returned, call, process>>

Times == 0 .. MaxTime + MaxLease

NULL == 0
InUse == {PENDING, ASSOCIATED}

-----------------------------------------------------------------------------
Init == /\ ip_current = ipFirst
        /\ bindings = <<>>
        /\ now = 0
        /\ returned = NULL
        /\ call = "init_binding_list"
        /\ process = "running"

Call(name) == process = "running" /\ call' = name

Return(p) == returned' = p /\ UNCHANGED process

\* ntohl on a little-endian machine: the bytes change places end to end.
ntohl(x) == LET byte(k) == (x \div k) % Radix IN
            byte(1) * Radix * Radix * Radix + byte(Radix) * Radix * Radix
              + byte(Radix * Radix) * Radix + byte(Radix * Radix * Radix)

\* The address take_free_address returns, and the cursor it leaves.
FreeAddress == IF ip_current <= ipLast THEN ip_current ELSE 0
NextCursor == IF ip_current <= ipLast
                THEN (ntohl(ip_current) + 1) % (Radix * Radix * Radix * Radix)
                ELSE ip_current

\* A faulty form: the status stays EMPTY, as calloc left it.
NewBindingEmpty(address, cident, is_static) ==
  [address |-> address, cident_len |-> CidentLen, cident |-> cident,
   binding_time |-> now, lease_time |-> 0,
   status |-> 0, is_static |-> is_static]

\* calloc zeroes what is not assigned.
NewBinding(address, cident, is_static) ==
  [address |-> address, cident_len |-> CidentLen, cident |-> cident,
   binding_time |-> now, lease_time |-> 0,
   status |-> PENDING, is_static |-> is_static]

\* add_binding; calloc may return NULL.
Add(address, cident, is_static) ==
  \/ /\ bindings' = LIST_INSERT_HEAD(bindings, NewBinding(address, cident, is_static))
     /\ Return(1)
  \/ /\ UNCHANGED bindings
     /\ Return(NULL)

add_binding(address, cident, is_static) ==
  /\ Call("add_binding")
  /\ Len(bindings) < MaxBindings
  /\ Add(address, cident, is_static)
  /\ UNCHANGED <<ip_current, now>>

Remove(p) == /\ Call("remove_binding")
             /\ p \in 1 .. Len(bindings)
             /\ bindings' = remove_binding(bindings, p)
             /\ Return(NULL)
             /\ UNCHANGED <<ip_current, now>>

-----------------------------------------------------------------------------
(* The upkeep of the list.  Faulty forms, which show that the properties    *)
(* tell them apart, stand before the definitions they vary.                 *)

\* The test of the status is forgotten.
OverdueAny(b) == now - b.binding_time > PendingTime

Overdue(b) == b.status = PENDING /\ now - b.binding_time > PendingTime

update_bindings_statuses ==
  /\ Call("update_bindings_statuses")
  /\ bindings' = [i \in 1 .. Len(bindings) |->
                    IF Overdue(bindings[i]) THEN [bindings[i] EXCEPT !.status = EXPIRED]
                                            ELSE bindings[i]]
  /\ Return(NULL)
  /\ UNCHANGED <<ip_current, now>>

\* Released bindings are removed in place of the expired ones.
KeptReleased(b) == b.status # RELEASED

\* cleanup_expired_bindings leaves b in the list.
Kept(b) == b.status # EXPIRED

\* at lists the places of the bindings that are kept, in their order.
KeptPlaces(at) ==
  /\ \A k, l \in DOMAIN at : k < l => at[k] < at[l]
  /\ {at[k] : k \in DOMAIN at} = {p \in 1 .. Len(bindings) : Kept(bindings[p])}

cleanup_expired_bindings ==
  /\ Call("cleanup_expired_bindings")
  /\ \E n \in 0 .. Len(bindings) : \E at \in [1 .. n -> 1 .. Len(bindings)] :
       /\ KeptPlaces(at)
       /\ bindings' = [k \in 1 .. n |-> bindings[at[k]]]
  /\ Return(NULL)
  /\ UNCHANGED <<ip_current, now>>

-----------------------------------------------------------------------------
(* new_dynamic_binding *)

\* found_binding: the last binding of the list with the address asked for.
Found(address, p) ==
  \/ /\ p \in 1 .. Len(bindings)
     /\ address # 0
     /\ bindings[p].address = address
     /\ \A q \in p + 1 .. Len(bindings) : bindings[q].address # address
  \/ /\ p = NULL
     /\ address = 0 \/ \A q \in 1 .. Len(bindings) : bindings[q].address # address

Reusable(p) == /\ p # NULL
               /\ bindings[p].is_static = DYNAMIC
               /\ bindings[p].status \notin InUse

FirstDynamic(p) == /\ p \in 1 .. Len(bindings)
                   /\ bindings[p].is_static = DYNAMIC
                   /\ \A q \in 1 .. p - 1 : bindings[q].is_static = STATIC

AllStatic == \A q \in 1 .. Len(bindings) : bindings[q].is_static = STATIC

\* No address is left. The loop over the list tests the status of
\* found_binding, not of the binding it has reached: a null pointer when none
\* was found, and otherwise the same binding at each turn.
LastResort(found) ==
  /\ UNCHANGED bindings
  /\ \/ /\ AllStatic
        /\ Return(NULL)
     \/ /\ ~ AllStatic /\ found = NULL
        /\ process' = "faulted"
        /\ returned' = NULL
     \/ /\ ~ AllStatic /\ found # NULL /\ bindings[found].status \in InUse
        /\ Return(NULL)
     \/ /\ found # NULL /\ bindings[found].status \notin InUse
        /\ \E p \in 1 .. Len(bindings) : FirstDynamic(p) /\ Return(p)

NewAddress(found, cident) ==
  /\ ip_current' = NextCursor
  /\ IF FreeAddress # 0 THEN Add(FreeAddress, cident, DYNAMIC) ELSE LastResort(found)

new_dynamic_binding(address, cident) ==
  /\ Call("new_dynamic_binding")
  /\ Len(bindings) < MaxBindings
  /\ \E found \in 0 .. Len(bindings) :
       /\ Found(address, found)
       /\ IF Reusable(found)
            THEN Return(found) /\ UNCHANGED <<ip_current, bindings>>
            ELSE NewAddress(found, cident)
  /\ UNCHANGED now

-----------------------------------------------------------------------------
(* The caller *)

\* The caller lets client c have the binding from now on: it sets the fields
\* that send_DHCP_Offer sets, but the address, whatever was in them.
Associate(p, c) ==
  /\ Call("associate")
  /\ p \in 1 .. Len(bindings)
  /\ bindings' = [bindings EXCEPT ![p] =
                    [@ EXCEPT !.binding_time = now, !.lease_time = now + MaxLease,
                              !.status = ASSOCIATED, !.is_static = DYNAMIC,
                              !.cident_len = CidentLen, !.cident = c]]
  /\ Return(NULL)
  /\ UNCHANGED <<ip_current, now>>

\* The caller marks a binding as handle_DHCP_Release does.
Release(p) == /\ Call("release")
              /\ p \in 1 .. Len(bindings)
              /\ bindings[p].status = ASSOCIATED
              /\ bindings' = [bindings EXCEPT ![p].status = RELEASED, ![p].lease_time = 0]
              /\ Return(NULL)
              /\ UNCHANGED <<ip_current, now>>

Tick == /\ Call("tick")
        /\ now < MaxTime
        /\ now' = now + 1
        /\ returned' = NULL
        /\ UNCHANGED <<ip_current, bindings, process>>

\* Nothing runs after a fault.
Rest == process = "faulted" /\ UNCHANGED vars

\* Static bindings are made for addresses of the pool's range.
Next == \/ \E a \in ipFirst .. ipLast, c \in Clients : add_binding(a, c, STATIC)
        \/ \E a \in {0} \union ipFirst .. ipLast, c \in Clients : new_dynamic_binding(a, c)
        \/ \E p \in 1 .. Len(bindings), c \in Clients : Associate(p, c)
        \/ \E p \in 1 .. Len(bindings) : Remove(p) \/ Release(p)
        \/ update_bindings_statuses
        \/ cleanup_expired_bindings
        \/ Tick
        \/ Rest

Spec == Init /\ [][Next]_vars

-----------------------------------------------------------------------------
(* Properties *)

TypeOK ==
  /\ ip_current \in AllAddresses
  /\ bindings \in Seq(Binding(AllAddresses, Clients, Times))
  /\ Len(bindings) <= MaxBindings
  /\ now \in 0 .. MaxTime
  /\ returned \in 0 .. Len(bindings)
  /\ call \in {"init_binding_list", "add_binding", "remove_binding",
               "update_bindings_statuses", "cleanup_expired_bindings",
               "new_dynamic_binding", "associate", "release", "tick"}
  /\ process \in {"running", "faulted"}

\* A binding is EXPIRED only when its whole time to be confirmed went by, and
\* it holds no lease then: neither a binding that is still young nor one that
\* a client was given gets there, in whatever order upkeep and callers meet.
ExpiredWasOverdue ==
  \A i \in 1 .. Len(bindings) :
    bindings[i].status = EXPIRED => /\ now - bindings[i].binding_time > PendingTime
                                    /\ bindings[i].lease_time = 0

Leases(list) == {p \in 1 .. Len(list) : list[p].status = ASSOCIATED}

\* Both lists have the same associated bindings in the same order: to leads
\* from the places they have in one to those they have in the other.
SameLeases(old, new) ==
  \E to \in [Leases(old) -> Leases(new)] :
    /\ \A p \in Leases(old) : new[to[p]] = old[p]
    /\ \A p, q \in Leases(old) : p < q => to[p] < to[q]
    /\ \A r \in Leases(new) : \E p \in Leases(old) : to[p] = r

\* The upkeep takes no lease from its client: every associated binding is in
\* the list after it as it was before, in the same order, and no other
\* binding becomes associated.
UpkeepSparesLeases ==
  [][call' \in {"update_bindings_statuses", "cleanup_expired_bindings"}
       => SameLeases(bindings, bindings')]_vars

\* The two halves of the upkeep fit: when update_bindings_statuses is followed
\* by cleanup_expired_bindings, no binding that waited too long is left.
UpkeepReclaims ==
  [][call = "update_bindings_statuses" /\ call' = "cleanup_expired_bindings"
       => \A i \in 1 .. Len(bindings') :
            /\ bindings'[i].status # EXPIRED
            /\ bindings'[i].status = PENDING
                 => now - bindings'[i].binding_time <= PendingTime]_vars
==============================================================================
