---------------------------- MODULE AddressLedger ----------------------------
(***************************************************************************)
(* What the server promises about addresses between two starts, whatever   *)
(* the order, loss or repetition of the datagrams: an address is given to  *)
(* one client only and told to nobody else, and once its client released   *)
(* or declined it, it is told to nobody again.  DhcpServer implements it.  *)
(***************************************************************************)
EXTENDS Naturals

CONSTANTS
  Clients,
  Addresses,
  Nobody     \* no client

VARIABLES
  ledger,  \* ledger[a]: the state of address a
  told     \* who was told which address

vars == <<ledger, told>>

Entry(status, client) == [status |-> status, client |-> client]
Free == Entry("free", Nobody)
Gone == Entry("gone", Nobody)

Init == /\ ledger = [a \in Addresses |-> Free]
        /\ told = {}

Telling(c, a) == [client |-> c, address |-> a]

Leased(a) == ledger[a].status = "leased"
Holder(a) == ledger[a].client

\* Address a gets entry e. (The first conjunct follows from the second and is
\* decided sooner.)
Becomes(a, e) == /\ ledger'[a] = e
                 /\ ledger' = [ledger EXCEPT ![a] = e]

\* A free address becomes some client's, which may or may not learn of it, or
\* it is used up without a client (no memory for its binding).
Give(a) == /\ ledger[a] = Free
           /\ \/ \E c \in Clients :
                   /\ Becomes(a, Entry("leased", c))
                   /\ told' \in {told, told \union {Telling(c, a)}}
              \/ /\ Becomes(a, Gone)
                 /\ UNCHANGED told

\* The holder of an address is told it.
Confirm(a) == /\ Leased(a)
              /\ told' = told \union {Telling(Holder(a), a)}
              /\ UNCHANGED ledger

\* The holder releases or declines it.
GiveBack(a) == /\ Leased(a)
               /\ Becomes(a, Entry("released", Holder(a))) \/ Becomes(a, Gone)
               /\ UNCHANGED told

\* The server starts again and remembers nothing.
Restart == /\ told' = {}
           /\ ledger' = [a \in Addresses |-> Free]

Next == Restart \/ \E a \in Addresses : Give(a) \/ Confirm(a) \/ GiveBack(a)

Spec == Init /\ [][Next]_vars
==============================================================================
