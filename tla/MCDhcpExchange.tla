--------------------------- MODULE MCDhcpExchange ----------------------------
(* ExchangeRestart on small instances; see DhcpExchange.cfg and ExchangeRestart.cfg. *)
EXTENDS ExchangeRestart

\* Ethernet addresses that differ in the first byte.
OwnPrefix ==
  [c \in Clients |-> [n \in 0 .. ETHERNET_LEN |-> IF n = 0 THEN "empty" ELSE c]]
==============================================================================
