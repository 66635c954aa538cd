----------------------------- MODULE TaskChannel -----------------------------
(***************************************************************************)
(* What the hand-over between main and the worker threads promises: the    *)
(* datagrams main has submitted form a FIFO channel, a worker takes the    *)
(* oldest one, and every datagram is taken once and its handler finishes.  *)
(* Datagrams are numbered 1, 2, 3, ... in the order recvfrom returns them. *)
(* TaskQueue implements this with an array, a mutex and a condition.       *)
(***************************************************************************)
EXTENDS Naturals, Sequences

CONSTANT Workers     \* the threads that run startThread

VARIABLES
  sent,      \* how many datagrams were submitted
  chan,      \* the submitted datagrams no worker has taken, oldest first
  hand,      \* hand[w]: the datagram worker w is handling
  done,      \* the datagrams whose handler returned
  up         \* FALSE once the process is gone

vars == <<sent, chan, hand, done, up>>

NoTask == 0  \* what a worker holds between two tasks

Init == /\ sent = 0
        /\ chan = <<>>
        /\ hand = [w \in Workers |-> NoTask]
        /\ done = {}
        /\ up = TRUE

Submit == /\ up
          /\ sent' = sent + 1
          /\ chan' = Append(chan, sent')
          /\ UNCHANGED <<hand, done, up>>

Take(w) == /\ up
           /\ hand[w] = NoTask
           /\ chan # <<>>
           /\ hand' = [hand EXCEPT ![w] = Head(chan)]
           /\ chan' = Tail(chan)
           /\ UNCHANGED <<sent, done, up>>

Finish(w) == /\ up
             /\ hand[w] # NoTask
             /\ done' = done \union {hand[w]}
             /\ hand' = [hand EXCEPT ![w] = NoTask]
             /\ UNCHANGED <<sent, chan, up>>

Stop == /\ up
        /\ up' = FALSE
        /\ UNCHANGED <<sent, chan, hand, done>>

Next == \/ Submit
        \/ \E w \in Workers : Take(w) \/ Finish(w)
        \/ Stop

Spec == Init /\ [][Next]_vars

\* While anything is in the channel some worker takes the next datagram, and
\* a handler that was started returns.
FairSpec == /\ Spec
            /\ WF_vars(\E w \in Workers : Take(w))
            /\ \A w \in Workers : WF_vars(Finish(w))
==============================================================================
