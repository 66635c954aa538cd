---------------------------- MODULE MCDhcpServer -----------------------------
(* DhcpServer on small instances; see MCDhcpServer.cfg. *)
EXTENDS DhcpServer, TLC

\* Ethernet addresses of one vendor: they differ in the last two bytes.
VendorPrefix ==
  [c \in Clients |-> [n \in 0 .. ETHERNET_LEN |-> IF n <= 4 THEN "vendor" ELSE c]]

\* No expression of the specification tells clients apart, but by the
\* prefixes, where each client stands for itself.
ClientSymmetry == Permutations(Clients)
==============================================================================
