---------------------------- MODULE MCDhcpClaims -----------------------------
(* DhcpClaims on small instances; see the DhcpClaims*.cfg files. *)
EXTENDS DhcpClaims

\* Ethernet addresses that differ in the first byte.
OwnPrefix ==
  [c \in Clients |-> [n \in 0 .. ETHERNET_LEN |-> IF n = 0 THEN "empty" ELSE c]]
==============================================================================
