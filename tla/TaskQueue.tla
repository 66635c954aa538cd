------------------------------ MODULE TaskQueue ------------------------------
(***************************************************************************)
(* The hand-over of received datagrams from main to the worker threads:    *)
(* main's receive loop, submitTask and startThread (server_connection.c),  *)
(* with the array taskQueue, the counter taskCount, the mutex mutexQueue   *)
(* and the condition variable condQueue they share.                        *)
(*                                                                         *)
(* A ClientTask is the number of its datagram, counted from 1 in the order *)
(* recvfrom returned them; 0 is the zeroed or uninitialised ClientTask.    *)
(***************************************************************************)
EXTENDS Integers, Sequences, FiniteSets

CONSTANTS
  Main,          \* the thread that runs main
  Workers,       \* the threads that run startThread; THREAD_NUM of them
  Nobody,        \* the owner of a free mutex
  QueueSize,     \* the length of taskQueue (256)
  MaxDatagrams   \* bound of the model: datagrams received in one behaviour

ASSUME ThreadsAssumption == /\ Workers # {}
                            /\ Main \notin Workers
                            /\ Nobody \notin Workers \union {Main}
ASSUME QueueSizeAssumption == QueueSize \in Nat \ {0}
ASSUME MaxDatagramsAssumption == MaxDatagrams \in Nat

Threads == Workers \union {Main}
Slots   == 0 .. QueueSize - 1
Tasks   == 0 .. MaxDatagrams

VARIABLES
  taskQueue,   \* [Slots -> Tasks]; slots from taskCount on hold stale copies
  taskCount,
  mutexQueue,  \* the owner of the mutex
  condQueue,   \* the workers blocked in pthread_cond_wait
  pc,          \* where each thread is
  task,        \* main's T and each worker's task
  handled,     \* history: the tasks whose handle_client returned
  process      \* "running", "exited", or "undefined" after an overrun

vars == <<taskQueue, taskCount, mutexQueue, condQueue, pc, task, handled,
          process>>
queueVars == <<taskQueue, taskCount>>

-----------------------------------------------------------------------------
Init == /\ taskQueue = [i \in Slots |-> 0]
        /\ taskCount = 0
        /\ mutexQueue = Nobody
        /\ condQueue = {}
        /\ pc = [t \in Threads |-> IF t = Main THEN "recv" ELSE "lock"]
        /\ task = [t \in Threads |-> 0]
        /\ handled = {}
        /\ process = "running"

\* Thread t moves from one program location to another; nothing runs once
\* the process is gone.
Goto(t, from, to) == /\ process = "running"
                     /\ pc[t] = from
                     /\ pc' = [pc EXCEPT ![t] = to]

\* pthread_mutex_lock returns to t only when nobody holds the mutex.
Lock(t) == /\ mutexQueue = Nobody
           /\ mutexQueue' = t

Unlock == mutexQueue' = Nobody

-----------------------------------------------------------------------------
(* main and submitTask *)

\* recvfrom returns a datagram and main builds the task T from it.
Receive == /\ task[Main] < MaxDatagrams
           /\ Goto(Main, "recv", "lock")
           /\ task' = [task EXCEPT ![Main] = @ + 1]
           /\ UNCHANGED <<queueVars, mutexQueue, condQueue, handled, process>>

\* recvfrom fails: main returns -1 and the process ends with its queue.
ReceiveFails == /\ Goto(Main, "recv", "returned")
                /\ process' = "exited"
                /\ UNCHANGED <<queueVars, mutexQueue, condQueue, task, handled>>

SubmitLock == /\ Goto(Main, "lock", "store")
              /\ Lock(Main)
              /\ UNCHANGED <<queueVars, condQueue, task, handled, process>>

\* Faulty forms, which show that the properties below tell them apart, stand
\* before the definitions they vary.

\* A bound that is one too large.
SubmitStorePastEnd == /\ taskCount <= QueueSize
                      /\ Goto(Main, "store", "count")
                      /\ taskQueue' = [taskQueue EXCEPT ![taskCount] = task[Main]]
                      /\ UNCHANGED <<taskCount, mutexQueue, condQueue, task,
                                     handled, process>>

\* taskQueue[taskCount] = task, with a free slot.
SubmitStore == /\ taskCount < QueueSize
               /\ Goto(Main, "store", "count")
               /\ taskQueue' = [taskQueue EXCEPT ![taskCount] = task[Main]]
               /\ UNCHANGED <<taskCount, mutexQueue, condQueue, task, handled,
                              process>>

\* The same store with all slots taken. submitTask has no test for it: the
\* task is written over taskCount and the mutexes behind the array, after
\* which C gives the program no meaning; the model stops there.
SubmitOverrun == /\ taskCount >= QueueSize
                 /\ Goto(Main, "store", "overrun")
                 /\ process' = "undefined"
                 /\ UNCHANGED <<queueVars, mutexQueue, condQueue, task, handled>>

SubmitCount == /\ Goto(Main, "count", "signal")
               /\ taskCount' = taskCount + 1
               /\ Unlock
               /\ UNCHANGED <<taskQueue, condQueue, task, handled, process>>

\* The signal is forgotten.
SubmitNoSignal ==
  /\ Goto(Main, "signal", "recv")
  /\ UNCHANGED <<queueVars, mutexQueue, condQueue, task, handled, process>>

\* pthread_cond_signal, sent after the unlock: it wakes one waiting worker,
\* which then competes for the mutex again, and is lost when none waits.
SubmitSignal ==
  /\ process = "running" /\ pc[Main] = "signal"
  /\ \/ /\ condQueue = {}
        /\ pc' = [pc EXCEPT ![Main] = "recv"]
        /\ UNCHANGED condQueue
     \/ \E w \in condQueue :
          /\ condQueue' = condQueue \ {w}
          /\ pc' = [pc EXCEPT ![Main] = "recv", ![w] = "lock"]
  /\ UNCHANGED <<queueVars, mutexQueue, task, handled, process>>

-----------------------------------------------------------------------------
(* startThread *)

\* The worker looks at the queue without the mutex.
WorkerNoLock(w) == /\ Goto(w, "lock", "test")
                   /\ UNCHANGED <<queueVars, mutexQueue, condQueue, task,
                                  handled, process>>

WorkerLock(w) == /\ Goto(w, "lock", "test")
                 /\ Lock(w)
                 /\ UNCHANGED <<queueVars, condQueue, task, handled, process>>

\* The queue is empty: pthread_cond_wait gives the mutex back and blocks.
WorkerWait(w) == /\ taskCount = 0
                 /\ Goto(w, "test", "wait")
                 /\ Unlock
                 /\ condQueue' = condQueue \union {w}
                 /\ UNCHANGED <<queueVars, task, handled, process>>

\* POSIX lets pthread_cond_wait return without a signal.
SpuriousWakeup(w) == /\ Goto(w, "wait", "lock")
                     /\ condQueue' = condQueue \ {w}
                     /\ UNCHANGED <<queueVars, mutexQueue, task, handled,
                                    process>>

\* The for loop: slots 0 .. taskCount-2 take their right neighbour's task.
Shifted == [i \in Slots |-> IF i < taskCount - 1 THEN taskQueue[i + 1]
                                                 ELSE taskQueue[i]]

\* The task is copied but not taken out.
WorkerPeek(w) == /\ taskCount > 0
                 /\ Goto(w, "test", "handle")
                 /\ task' = [task EXCEPT ![w] = taskQueue[0]]
                 /\ Unlock
                 /\ UNCHANGED <<queueVars, condQueue, handled, process>>

\* The newest task is taken, as from a stack.
WorkerTakeNewest(w) == /\ taskCount > 0
                       /\ Goto(w, "test", "handle")
                       /\ task' = [task EXCEPT ![w] = taskQueue[taskCount - 1]]
                       /\ taskCount' = taskCount - 1
                       /\ Unlock
                       /\ UNCHANGED <<taskQueue, condQueue, handled, process>>

WorkerTake(w) == /\ taskCount > 0
                 /\ Goto(w, "test", "handle")
                 /\ task' = [task EXCEPT ![w] = taskQueue[0]]
                 /\ taskQueue' = Shifted
                 /\ taskCount' = taskCount - 1
                 /\ Unlock
                 /\ UNCHANGED <<condQueue, handled, process>>

\* handle_client returns.
WorkerHandle(w) == /\ Goto(w, "handle", "lock")
                   /\ handled' = handled \union {task[w]}
                   /\ UNCHANGED <<queueVars, mutexQueue, condQueue, task,
                                  process>>

\* handle_client calls exit because a reply could not be sent.
WorkerExits(w) == /\ Goto(w, "handle", "exit")
                  /\ process' = "exited"
                  /\ UNCHANGED <<queueVars, mutexQueue, condQueue, task, handled>>

-----------------------------------------------------------------------------
SubmitStep == \/ SubmitLock
              \/ SubmitStore
              \/ SubmitOverrun
              \/ SubmitCount
              \/ SubmitSignal

WorkerStep(w) == \/ WorkerLock(w)
                 \/ WorkerWait(w)
                 \/ WorkerTake(w)
                 \/ WorkerHandle(w)

\* No step is left to take: the process is gone, or every datagram of the
\* model was received and handled and all threads wait for the next one.
Quiescent == \/ process # "running"
             \/ /\ task[Main] = MaxDatagrams
                /\ pc[Main] = "recv"
                /\ condQueue = Workers
                /\ taskCount = 0

Rest == Quiescent /\ UNCHANGED vars

Next == \/ Receive
        \/ ReceiveFails
        \/ SubmitStep
        \/ \E w \in Workers : WorkerStep(w) \/ SpuriousWakeup(w) \/ WorkerExits(w)
        \/ Rest

Spec == Init /\ [][Next]_vars

\* The scheduler runs every thread that can run and handlers return; nothing
\* makes a datagram arrive, a wakeup be spurious or a call fail.
Fairness == /\ WF_vars(SubmitStep)
            /\ \A w \in Workers : WF_vars(WorkerStep(w))

FairSpec == Spec /\ Fairness

-----------------------------------------------------------------------------
(* Properties *)

TypeOK == /\ taskQueue \in [Slots -> Tasks]
          /\ taskCount \in 0 .. QueueSize
          /\ mutexQueue \in Threads \union {Nobody}
          /\ condQueue \subseteq Workers
          /\ pc \in [Threads -> {"recv", "returned", "lock", "store", "count",
                                 "signal", "overrun", "test", "wait",
                                 "handle", "exit"}]
          /\ task \in [Threads -> Tasks]
          /\ handled \subseteq Tasks
          /\ process \in {"running", "exited", "undefined"}

\* The datagrams whose submission is complete: taskCount was incremented.
Submitted == IF pc[Main] \in {"lock", "store", "count", "overrun"}
               THEN task[Main] - 1 ELSE task[Main]

\* How many of them the workers have taken out of the queue.
Taken == Submitted - taskCount

Handling == {w \in Workers : pc[w] \in {"handle", "exit"}}

\* The first taskCount slots hold exactly the datagrams submitted last, in
\* the order of their arrival: whatever main's store and counter update
\* interleave with, a worker's copy-and-shift loses, repeats and swaps none.
InArrivalOrder ==
  \A i \in 0 .. taskCount - 1 : taskQueue[i] = Taken + i + 1

\* Every datagram taken from the queue is in the hands of exactly one worker
\* or was handled, and no other is: no task is run twice or skipped.
TakenOnce ==
  /\ handled \union {task[w] : w \in Handling} = 1 .. Taken
  /\ \A w \in Handling : task[w] \notin handled
  /\ \A w, v \in Handling : task[w] = task[v] => w = v

\* While tasks are queued, not every worker sleeps on the condition unless
\* main is still on its way to the signal: the unlock before
\* pthread_cond_signal loses no wakeup.
NoLostWakeup ==
  process = "running" /\ taskCount > 0 /\ condQueue = Workers
    => pc[Main] = "signal"

\* What startThread promises about each datagram: once submitted it is handled,
\* or the process ends.
EveryTaskHandled ==
  \A k \in 1 .. MaxDatagrams :
    (k <= Submitted) ~> (k \in handled \/ process # "running")

\* What the documentation says of the socket and its queue (section 4.1): all
\* requests of the clients are processed. It is false: a burst that fills the
\* array runs over its end.
EveryDatagramProcessed ==
  \A k \in 1 .. MaxDatagrams :
    (task[Main] >= k) ~> (k \in handled \/ process = "exited")

\* The array, the mutex and the condition implement the FIFO channel.
Channel == INSTANCE TaskChannel WITH
             sent <- Submitted,
             chan <- [i \in 1 .. taskCount |-> taskQueue[i - 1]],
             hand <- [w \in Workers |-> IF w \in Handling THEN task[w] ELSE 0],
             done <- handled,
             up   <- process = "running"

\* TaskQueue behaves as TaskChannel, fairness included.
ImplementsChannel == Channel!FairSpec
==============================================================================
