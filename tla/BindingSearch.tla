---------------------------- MODULE BindingSearch ----------------------------
(***************************************************************************)
(* search_binding (ip_pool_manager.c), with the comparison of identifiers. *)
(* An identifier is the first bytes of what a datagram bears from chaddr   *)
(* on, as many as its hlen says: two clients may have a prefix in common   *)
(* and then, with a small hlen, the same identifier.                       *)
(***************************************************************************)
EXTENDS Bindings

CONSTANT
  Prefix    \* Prefix[c][n]: the first n bytes of what c sends from chaddr on

\* memcmp over n bytes of two clients returns 0.
SameBytes(c, d, n) == Prefix[c][n] = Prefix[d][n]

\* Faulty forms, which show that the properties of the server tell them
\* apart, stand before the definitions they vary.

\* The result of memcmp is taken the wrong way round, as find_binding does.
MatchesInverted(binding, cident, cident_len, is_static, status) ==
  /\ is_static \in {binding.is_static, STATIC_OR_DYNAMIC}
  /\ binding.cident_len = cident_len
  /\ ~ SameBytes(binding.cident, cident, cident_len)
  /\ status \in {binding.status, AnyStatus}

\* The client is not compared at all.
MatchesAnyone(binding, cident, cident_len, is_static, status) ==
  /\ is_static \in {binding.is_static, STATIC_OR_DYNAMIC}
  /\ binding.cident_len = cident_len
  /\ status \in {binding.status, AnyStatus}

\* The lengths are not compared: a prefix is enough.
MatchesPrefix(binding, cident, cident_len, is_static, status) ==
  /\ is_static \in {binding.is_static, STATIC_OR_DYNAMIC}
  /\ SameBytes(binding.cident, cident, cident_len)
  /\ status \in {binding.status, AnyStatus}

Matches(binding, cident, cident_len, is_static, status) ==
  /\ is_static \in {binding.is_static, STATIC_OR_DYNAMIC}
  /\ binding.cident_len = cident_len
  /\ SameBytes(binding.cident, cident, cident_len)
  /\ status \in {binding.status, AnyStatus}

\* The last match is returned instead of the first.
search_last(list, cident, cident_len, is_static, status, p) ==
  \/ /\ p \in 1 .. Len(list)
     /\ Matches(list[p], cident, cident_len, is_static, status)
     /\ \A q \in p + 1 .. Len(list) :
          ~ Matches(list[q], cident, cident_len, is_static, status)
  \/ /\ p = 0
     /\ \A q \in 1 .. Len(list) :
          ~ Matches(list[q], cident, cident_len, is_static, status)

\* p is what search_binding returns: the first match from the head, or NULL.
search_binding(list, cident, cident_len, is_static, status, p) ==
  \/ /\ p \in 1 .. Len(list)
     /\ Matches(list[p], cident, cident_len, is_static, status)
     /\ \A q \in 1 .. p - 1 :
          ~ Matches(list[q], cident, cident_len, is_static, status)
  \/ /\ p = 0
     /\ \A q \in 1 .. Len(list) :
          ~ Matches(list[q], cident, cident_len, is_static, status)
==============================================================================
