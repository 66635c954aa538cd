--------------------------- MODULE ExchangeRestart ---------------------------
(***************************************************************************)
(* DhcpExchange with a server that is started again after it exited, while *)
(* its clients keep what they were given.  TLC refutes NoTwoHolders.       *)
(***************************************************************************)
EXTENDS DhcpExchange

RestartServer == Restart /\ UNCHANGED <<client, datagrams, replies>>

RestartExchange == ExchangeInit /\ [][ExchangeNext \/ RestartServer]_everything
==============================================================================
