--------------------------- MODULE TaskQueueProofs ---------------------------
(***************************************************************************)
(* Proofs about TaskQueue, for any number of workers, any queue size and   *)
(* any number of datagrams: its four invariants, and that it implements    *)
(* the safety part of TaskChannel.                                         *)
(***************************************************************************)
EXTENDS TaskQueue, SequenceTheorems, TLAPS

USE DEF Threads, Slots, Tasks

MainPc   == {"recv", "returned", "lock", "store", "count", "signal", "overrun"}
WorkerPc == {"lock", "test", "wait", "handle", "exit"}

\* Each thread is at a location of its own code, and the workers blocked in
\* pthread_cond_wait are those at "wait".
Locations == /\ pc[Main] \in MainPc
             /\ \A w \in Workers : pc[w] \in WorkerPc
             /\ condQueue = {w \in Workers : pc[w] = "wait"}

\* A thread between its lock and its unlock holds the mutex.
MutexHeld == /\ pc[Main] \in {"store", "count"} => mutexQueue = Main
             /\ \A w \in Workers : pc[w] = "test" => mutexQueue = w

\* Between the store and the increment, the task is behind the last counted
\* slot; main has a task whenever it is submitting one.
Submitting == /\ pc[Main] = "count" => /\ taskCount < QueueSize
                                       /\ taskQueue[taskCount] = task[Main]
              /\ pc[Main] \in {"lock", "store", "count", "overrun"} => task[Main] > 0

\* No more tasks are in the queue than were submitted.
CountBounded == taskCount <= Submitted

\* The inductive invariant.
IInv == /\ TypeOK
        /\ Locations
        /\ MutexHeld
        /\ Submitting
        /\ CountBounded
        /\ InArrivalOrder
        /\ TakenOnce
        /\ NoLostWakeup

-----------------------------------------------------------------------------
\* The invariant holds when the threads are created.
LEMMA InitIInv == Init => IInv
<1> SUFFICES ASSUME Init PROVE IInv
  OBVIOUS
<1> USE ThreadsAssumption, QueueSizeAssumption, MaxDatagramsAssumption
<1>1. TypeOK
  BY DEF Init, TypeOK
<1>2. Locations /\ MutexHeld /\ Submitting
  BY DEF Init, Locations, MutexHeld, Submitting, MainPc, WorkerPc
<1>3. Submitted = 0 /\ Handling = {}
  BY DEF Init, Submitted, Handling
<1>4. CountBounded /\ InArrivalOrder /\ TakenOnce /\ NoLostWakeup
  BY <1>3 DEF Init, CountBounded, InArrivalOrder, TakenOnce, Taken, NoLostWakeup
<1> QED
  BY <1>1, <1>2, <1>4 DEF IInv

\* Every step, of main or of a worker, keeps the types.
LEMMA TypeStep == IInv /\ [Next]_vars => TypeOK'
<1> SUFFICES ASSUME IInv, [Next]_vars PROVE TypeOK'
  OBVIOUS
<1> USE ThreadsAssumption, QueueSizeAssumption, MaxDatagramsAssumption DEF IInv, TypeOK, queueVars
<1>1. CASE Receive
  BY <1>1 DEF Receive, Goto
<1>2. CASE ReceiveFails
  BY <1>2 DEF ReceiveFails, Goto
<1>3. CASE SubmitLock
  BY <1>3 DEF SubmitLock, Goto, Lock
<1>4. CASE SubmitStore
  BY <1>4 DEF SubmitStore, Goto
<1>5. CASE SubmitOverrun
  BY <1>5 DEF SubmitOverrun, Goto
<1>6. CASE SubmitCount
  BY <1>6 DEF SubmitCount, Goto, Unlock, Submitting
<1>7. CASE SubmitSignal
  BY <1>7 DEF SubmitSignal
<1>8. ASSUME NEW w \in Workers, WorkerLock(w) PROVE TypeOK'
  BY <1>8 DEF WorkerLock, Goto, Lock
<1>9. ASSUME NEW w \in Workers, WorkerWait(w) PROVE TypeOK'
  BY <1>9 DEF WorkerWait, Goto, Unlock
<1>10. ASSUME NEW w \in Workers, WorkerTake(w) PROVE TypeOK'
  <2>1. Shifted \in [Slots -> Tasks]
    BY DEF Shifted
  <2> QED
    BY <1>10, <2>1 DEF WorkerTake, Goto, Unlock
<1>11. ASSUME NEW w \in Workers, WorkerHandle(w) PROVE TypeOK'
  BY <1>11 DEF WorkerHandle, Goto
<1>12. ASSUME NEW w \in Workers, SpuriousWakeup(w) PROVE TypeOK'
  BY <1>12 DEF SpuriousWakeup, Goto
<1>13. ASSUME NEW w \in Workers, WorkerExits(w) PROVE TypeOK'
  BY <1>13 DEF WorkerExits, Goto
<1>14. CASE UNCHANGED vars
  BY <1>14 DEF vars
<1> QED
  BY <1>1, <1>2, <1>3, <1>4, <1>5, <1>6, <1>7, <1>8, <1>9, <1>10, <1>11, <1>12, <1>13, <1>14
     DEF Next, SubmitStep, WorkerStep, Rest

\* Every step keeps the threads at their own locations and the mutex with the
\* thread between its lock and its unlock.
LEMMA ThreadStep == IInv /\ [Next]_vars => Locations' /\ MutexHeld'
<1> SUFFICES ASSUME IInv, [Next]_vars PROVE Locations' /\ MutexHeld'
  OBVIOUS
<1> USE ThreadsAssumption DEF IInv, TypeOK, Locations, MutexHeld, MainPc, WorkerPc, queueVars
<1>1. CASE Receive
  BY <1>1 DEF Receive, Goto
<1>2. CASE ReceiveFails
  BY <1>2 DEF ReceiveFails, Goto
<1>3. CASE SubmitLock
  BY <1>3 DEF SubmitLock, Goto, Lock
<1>4. CASE SubmitStore
  BY <1>4 DEF SubmitStore, Goto
<1>5. CASE SubmitOverrun
  BY <1>5 DEF SubmitOverrun, Goto
<1>6. CASE SubmitCount
  BY <1>6 DEF SubmitCount, Goto, Unlock
<1>7. CASE SubmitSignal
  BY <1>7 DEF SubmitSignal
<1>8. ASSUME NEW w \in Workers, WorkerLock(w) PROVE Locations' /\ MutexHeld'
  BY <1>8 DEF WorkerLock, Goto, Lock
<1>9. ASSUME NEW w \in Workers, WorkerWait(w) PROVE Locations' /\ MutexHeld'
  BY <1>9 DEF WorkerWait, Goto, Unlock
<1>10. ASSUME NEW w \in Workers, WorkerTake(w) PROVE Locations' /\ MutexHeld'
  BY <1>10 DEF WorkerTake, Goto, Unlock
<1>11. ASSUME NEW w \in Workers, WorkerHandle(w) PROVE Locations' /\ MutexHeld'
  BY <1>11 DEF WorkerHandle, Goto
<1>12. ASSUME NEW w \in Workers, SpuriousWakeup(w) PROVE Locations' /\ MutexHeld'
  BY <1>12 DEF SpuriousWakeup, Goto
<1>13. ASSUME NEW w \in Workers, WorkerExits(w) PROVE Locations' /\ MutexHeld'
  BY <1>13 DEF WorkerExits, Goto
<1>14. CASE UNCHANGED vars
  BY <1>14 DEF vars
<1> QED
  BY <1>1, <1>2, <1>3, <1>4, <1>5, <1>6, <1>7, <1>8, <1>9, <1>10, <1>11, <1>12, <1>13, <1>14
     DEF Next, SubmitStep, WorkerStep, Rest

\* Every step keeps the queue and its counter in order: the heart of the
\* proof is that neither a store nor a shift can come between main's store
\* and its increment, because both need the mutex.
LEMMA QueueStep == IInv /\ [Next]_vars => Submitting' /\ CountBounded' /\ InArrivalOrder'
<1> SUFFICES ASSUME IInv, [Next]_vars PROVE Submitting' /\ CountBounded' /\ InArrivalOrder'
  OBVIOUS
<1> USE ThreadsAssumption, QueueSizeAssumption, MaxDatagramsAssumption
    DEF IInv, TypeOK, Locations, MutexHeld, MainPc, WorkerPc, queueVars,
        Submitting, CountBounded, InArrivalOrder, Taken, Submitted
<1>1. CASE Receive
  BY <1>1 DEF Receive, Goto
<1>2. CASE ReceiveFails
  BY <1>2 DEF ReceiveFails, Goto
<1>3. CASE SubmitLock
  BY <1>3 DEF SubmitLock, Goto, Lock
<1>4. CASE SubmitStore
  BY <1>4 DEF SubmitStore, Goto
<1>5. CASE SubmitOverrun
  BY <1>5 DEF SubmitOverrun, Goto
<1>6. CASE SubmitCount
  <2>1. /\ pc[Main] = "count" /\ pc'[Main] = "signal"
        /\ taskCount' = taskCount + 1
        /\ UNCHANGED <<taskQueue, task>>
    BY <1>6 DEF SubmitCount, Goto
  <2>2. Submitted' = Submitted + 1 /\ Taken' = Taken /\ taskQueue[taskCount] = Submitted + 1
    BY <2>1
  <2>3. Submitting' /\ CountBounded'
    BY <2>1, <2>2
  <2>4. ASSUME NEW i \in 0 .. taskCount' - 1 PROVE taskQueue[i] = Taken + i + 1
    <3>1. CASE i = taskCount
      BY <2>2, <3>1
    <3>2. CASE i # taskCount
      BY <2>1, <3>2
    <3> QED
      BY <3>1, <3>2
  <2> QED
    BY <2>1, <2>2, <2>3, <2>4
<1>7. CASE SubmitSignal
  BY <1>7 DEF SubmitSignal
<1>8. ASSUME NEW w \in Workers, WorkerLock(w)
      PROVE Submitting' /\ CountBounded' /\ InArrivalOrder'
  BY <1>8 DEF WorkerLock, Goto, Lock
<1>9. ASSUME NEW w \in Workers, WorkerWait(w)
      PROVE Submitting' /\ CountBounded' /\ InArrivalOrder'
  BY <1>9 DEF WorkerWait, Goto, Unlock
<1>10. ASSUME NEW w \in Workers, WorkerTake(w)
      PROVE Submitting' /\ CountBounded' /\ InArrivalOrder'
  <2>1. w # Main /\ mutexQueue = w /\ pc[Main] \notin {"store", "count"}
    BY <1>10 DEF WorkerTake, Goto
  <2>2. pc'[Main] = pc[Main] /\ task'[Main] = task[Main] /\ taskCount' = taskCount - 1
    BY <1>10, <2>1 DEF WorkerTake, Goto
  <2>3. Submitted' = Submitted /\ Taken' = Taken + 1
    BY <2>2
  <2>4. Submitting' /\ CountBounded'
    BY <2>1, <2>2
  <2>5. ASSUME NEW i \in 0 .. taskCount' - 1 PROVE taskQueue'[i] = Taken' + i + 1
    <3>1. i \in Slots /\ i + 1 \in 0 .. taskCount - 1 /\ taskQueue' = Shifted
      BY <1>10, <2>2 DEF WorkerTake
    <3>2. taskQueue'[i] = taskQueue[i + 1]
      BY <2>2, <3>1 DEF Shifted
    <3>3. taskQueue[i + 1] = Taken + (i + 1) + 1
      BY <3>1
    <3>4. Taken \in Int /\ i \in Int
      OBVIOUS
    <3> HIDE DEF Taken
    <3> QED
      BY <2>3, <3>2, <3>3, <3>4
  <2> QED
    BY <2>4, <2>5
<1>11. ASSUME NEW w \in Workers, WorkerHandle(w)
      PROVE Submitting' /\ CountBounded' /\ InArrivalOrder'
  BY <1>11 DEF WorkerHandle, Goto
<1>12. ASSUME NEW w \in Workers, SpuriousWakeup(w)
      PROVE Submitting' /\ CountBounded' /\ InArrivalOrder'
  BY <1>12 DEF SpuriousWakeup, Goto
<1>13. ASSUME NEW w \in Workers, WorkerExits(w)
      PROVE Submitting' /\ CountBounded' /\ InArrivalOrder'
  BY <1>13 DEF WorkerExits, Goto
<1>14. CASE UNCHANGED vars
  BY <1>14 DEF vars
<1> QED
  BY <1>1, <1>2, <1>3, <1>4, <1>5, <1>6, <1>7, <1>8, <1>9, <1>10, <1>11, <1>12, <1>13, <1>14
     DEF Next, SubmitStep, WorkerStep, Rest

\* Every step keeps the account of the tasks: main's steps move none, a take
\* hands the oldest one to a worker that has none, and a return moves it from
\* the worker's hands to the handled ones.
LEMMA AccountStep == IInv /\ [Next]_vars => TakenOnce'
<1> SUFFICES ASSUME IInv, [Next]_vars PROVE TakenOnce'
  OBVIOUS
<1> USE ThreadsAssumption, QueueSizeAssumption, MaxDatagramsAssumption
    DEF IInv, TypeOK, Locations, MainPc, WorkerPc, queueVars, TakenOnce, Handling
<1>1. ASSUME UNCHANGED handled, Taken' = Taken, Handling' = Handling,
             \A w \in Handling : task'[w] = task[w]
      PROVE TakenOnce'
  <2>1. {task'[w] : w \in Handling'} = {task[w] : w \in Handling}
    <3> HIDE DEF Handling, IInv, TypeOK, TakenOnce
    <3> QED
      BY <1>1
  <2> QED
    BY <1>1, <2>1
<1>2. CASE Receive
  BY <1>1, <1>2 DEF Receive, Goto, Taken, Submitted
<1>3. CASE ReceiveFails
  BY <1>1, <1>3 DEF ReceiveFails, Goto, Taken, Submitted
<1>4. CASE SubmitLock
  BY <1>1, <1>4 DEF SubmitLock, Goto, Taken, Submitted
<1>5. CASE SubmitStore
  BY <1>1, <1>5 DEF SubmitStore, Goto, Taken, Submitted
<1>6. CASE SubmitOverrun
  BY <1>1, <1>6 DEF SubmitOverrun, Goto, Taken, Submitted
<1>7. CASE SubmitCount
  BY <1>1, <1>7 DEF SubmitCount, Goto, Taken, Submitted
<1>8. CASE SubmitSignal
  BY <1>1, <1>8 DEF SubmitSignal, Taken, Submitted
<1>9. ASSUME NEW w \in Workers, WorkerLock(w) PROVE TakenOnce'
  BY <1>1, <1>9 DEF WorkerLock, Goto, Taken, Submitted
<1>10. ASSUME NEW w \in Workers, WorkerWait(w) PROVE TakenOnce'
  BY <1>1, <1>10 DEF WorkerWait, Goto, Taken, Submitted
<1>11. ASSUME NEW w \in Workers, WorkerTake(w) PROVE TakenOnce'
  <2>1. /\ w # Main
        /\ pc[w] = "test"
        /\ taskCount > 0
        /\ pc' = [pc EXCEPT ![w] = "handle"]
        /\ task' = [task EXCEPT ![w] = taskQueue[0]]
        /\ UNCHANGED handled
    BY <1>11 DEF WorkerTake, Goto
  <2>2. Taken' = Taken + 1 /\ Taken \in Nat
    <3>1. pc'[Main] = pc[Main] /\ task'[Main] = task[Main] /\ taskCount' = taskCount - 1
      BY <1>11, <2>1 DEF WorkerTake
    <3>2. Submitted' = Submitted /\ Submitted \in Int /\ taskCount \in Int
      BY <3>1 DEF Submitted
    <3> QED
      BY <3>1, <3>2 DEF Taken, CountBounded
  <2>3. taskQueue[0] = Taken + 1
    BY <2>1, <2>2 DEF InArrivalOrder
  <2>4. Handling' = Handling \union {w} /\ w \notin Handling /\ task'[w] = Taken + 1
    <3>1. Handling' = Handling \union {w} /\ w \notin Handling
      BY <2>1
    <3>2. task'[w] = Taken + 1
      BY <2>1, <2>3
    <3> QED
      BY <3>1, <3>2
  <2>5. \A v \in Handling : task'[v] = task[v]
    BY <2>1, <2>4
  <2>6. {task'[v] : v \in Handling'} = {task[v] : v \in Handling} \union {Taken + 1}
    <3> HIDE DEF Handling, IInv, TypeOK, TakenOnce
    <3> QED
      BY <2>4, <2>5
  <2>7. 1 .. Taken' = (1 .. Taken) \union {Taken + 1}
    BY <2>2
  <2>8. \A v \in Handling : task[v] \in 1 .. Taken
    OBVIOUS
  <2>9. handled \subseteq 1 .. Taken
    OBVIOUS
  <2> QED
    BY <2>1, <2>2, <2>4, <2>5, <2>6, <2>7, <2>8, <2>9
<1>12. ASSUME NEW w \in Workers, WorkerHandle(w) PROVE TakenOnce'
  <2>1. /\ w # Main
        /\ w \in Handling
        /\ pc' = [pc EXCEPT ![w] = "lock"]
        /\ handled' = handled \union {task[w]}
        /\ UNCHANGED <<task, taskCount>>
    BY <1>12 DEF WorkerHandle, Goto
  <2>2. Taken' = Taken
    BY <2>1 DEF Taken, Submitted
  <2>3. Handling' = Handling \ {w}
    BY <2>1
  <2> QED
    BY <2>1, <2>2, <2>3
<1>13. ASSUME NEW w \in Workers, SpuriousWakeup(w) PROVE TakenOnce'
  BY <1>1, <1>13 DEF SpuriousWakeup, Goto, Taken, Submitted
<1>14. ASSUME NEW w \in Workers, WorkerExits(w) PROVE TakenOnce'
  BY <1>1, <1>14 DEF WorkerExits, Goto, Taken, Submitted
<1>15. CASE UNCHANGED vars
  BY <1>1, <1>15 DEF vars, Taken, Submitted
<1> QED
  BY <1>2, <1>3, <1>4, <1>5, <1>6, <1>7, <1>8, <1>9, <1>10, <1>11, <1>12, <1>13, <1>14, <1>15
     DEF Next, SubmitStep, WorkerStep, Rest

\* Every step keeps a wakeup on its way while tasks wait and all workers
\* sleep: a worker goes to sleep only on an empty queue, and main reaches the
\* signal before it receives again.
LEMMA WakeupStep == IInv /\ [Next]_vars => NoLostWakeup'
<1> SUFFICES ASSUME IInv, [Next]_vars PROVE NoLostWakeup'
  OBVIOUS
<1> USE ThreadsAssumption DEF IInv, TypeOK, Locations, MainPc, WorkerPc, queueVars, NoLostWakeup
<1>1. CASE Receive
  BY <1>1 DEF Receive, Goto
<1>2. CASE ReceiveFails
  BY <1>2 DEF ReceiveFails, Goto
<1>3. CASE SubmitLock
  BY <1>3 DEF SubmitLock, Goto
<1>4. CASE SubmitStore
  BY <1>4 DEF SubmitStore, Goto
<1>5. CASE SubmitOverrun
  BY <1>5 DEF SubmitOverrun, Goto
<1>6. CASE SubmitCount
  BY <1>6 DEF SubmitCount, Goto
<1>7. CASE SubmitSignal
  BY <1>7 DEF SubmitSignal
<1>8. ASSUME NEW w \in Workers, WorkerLock(w) PROVE NoLostWakeup'
  BY <1>8 DEF WorkerLock, Goto
<1>9. ASSUME NEW w \in Workers, WorkerWait(w) PROVE NoLostWakeup'
  BY <1>9 DEF WorkerWait, Goto
<1>10. ASSUME NEW w \in Workers, WorkerTake(w) PROVE NoLostWakeup'
  BY <1>10 DEF WorkerTake, Goto
<1>11. ASSUME NEW w \in Workers, WorkerHandle(w) PROVE NoLostWakeup'
  BY <1>11 DEF WorkerHandle, Goto
<1>12. ASSUME NEW w \in Workers, SpuriousWakeup(w) PROVE NoLostWakeup'
  BY <1>12 DEF SpuriousWakeup, Goto
<1>13. ASSUME NEW w \in Workers, WorkerExits(w) PROVE NoLostWakeup'
  BY <1>13 DEF WorkerExits, Goto
<1>14. CASE UNCHANGED vars
  BY <1>14 DEF vars
<1> QED
  BY <1>1, <1>2, <1>3, <1>4, <1>5, <1>6, <1>7, <1>8, <1>9, <1>10, <1>11, <1>12, <1>13, <1>14
     DEF Next, SubmitStep, WorkerStep, Rest

\* The conjunction is an invariant of the hand-over.
LEMMA Inductive == Spec => []IInv
<1>1. Init => IInv
  BY InitIInv
<1>2. IInv /\ [Next]_vars => IInv'
  BY TypeStep, ThreadStep, QueueStep, AccountStep, WakeupStep DEF IInv
<1> QED
  BY <1>1, <1>2, PTL DEF Spec

\* The variables keep their types; in particular taskCount never passes
\* QueueSize, and no task but a received one is ever in a slot or in a hand.
THEOREM TypeCorrect == Spec => []TypeOK
<1>1. IInv => TypeOK
  BY DEF IInv
<1> QED
  BY Inductive, <1>1, PTL

\* The counted slots hold the datagrams submitted last in order of arrival,
\* for any number of workers and any queue size.
THEOREM ArrivalOrder == Spec => []InArrivalOrder
<1>1. IInv => InArrivalOrder
  BY DEF IInv
<1> QED
  BY Inductive, <1>1, PTL

\* Every datagram taken from the queue is handled once or in the hands of
\* one worker, and every other one in nobody's.
THEOREM EachTakenOnce == Spec => []TakenOnce
<1>1. IInv => TakenOnce
  BY DEF IInv
<1> QED
  BY Inductive, <1>1, PTL

\* No wakeup is lost between the unlock and the signal of submitTask.
THEOREM WakeupNotLost == Spec => []NoLostWakeup
<1>1. IInv => NoLostWakeup
  BY DEF IInv
<1> QED
  BY Inductive, <1>1, PTL

-----------------------------------------------------------------------------
(* TaskQueue implements TaskChannel, whose variables are these functions   *)
(* of the state.                                                           *)

chanBar == [i \in 1 .. taskCount |-> taskQueue[i - 1]]
handBar == [w \in Workers |-> IF w \in Handling THEN task[w] ELSE 0]
upBar   == process = "running"

\* A step that moves no task is no step of the channel.
LEMMA Stutters ==
  ASSUME IInv, UNCHANGED <<handled, process>>,
         Submitted' = Submitted, taskCount' = taskCount,
         \A i \in 0 .. taskCount - 1 : taskQueue'[i] = taskQueue[i],
         \A w \in Workers : handBar'[w] = handBar[w]
  PROVE  UNCHANGED Channel!vars
<1>1. chanBar' = chanBar
  <2>1. \A i \in 1 .. taskCount : taskQueue'[i - 1] = taskQueue[i - 1]
    BY DEF IInv, TypeOK
  <2> QED
    BY <2>1 DEF chanBar
<1>2. handBar' = handBar
  BY DEF handBar
<1> QED
  BY <1>1, <1>2 DEF Channel!vars, chanBar, handBar

\* Init of the threads is Init of the channel.
LEMMA InitRefines == Init => Channel!Init
<1> SUFFICES ASSUME Init PROVE Channel!Init
  OBVIOUS
<1>1. Submitted = 0 /\ Handling = {}
  BY ThreadsAssumption DEF Init, Submitted, Handling
<1>2. [i \in 1 .. taskCount |-> taskQueue[i - 1]] = <<>>
  BY DEF Init
<1> QED
  BY <1>1, <1>2 DEF Init, Channel!Init, Channel!NoTask

\* main's increment is the channel's Submit: the stored task becomes its last.
LEMMA CountRefines == IInv /\ SubmitCount => Channel!Submit
<1> SUFFICES ASSUME IInv, SubmitCount PROVE Channel!Submit
  OBVIOUS
<1> USE ThreadsAssumption, QueueSizeAssumption DEF Locations, MainPc, WorkerPc, Submitting
<1>1. /\ pc[Main] = "count" /\ process = "running" /\ taskCount \in Nat
      /\ taskCount' = taskCount + 1
      /\ pc' = [pc EXCEPT ![Main] = "signal"]
      /\ UNCHANGED <<taskQueue, task, handled, process>>
  BY DEF SubmitCount, Goto, IInv, TypeOK, queueVars
<1>2. Submitted' = Submitted + 1 /\ taskQueue[taskCount] = Submitted'
  BY <1>1 DEF IInv, TypeOK, Submitted
<1>3. chanBar' = Append(chanBar, Submitted')
  BY <1>1, <1>2 DEF chanBar
<1>4. handBar' = handBar
  <2>1. \A w \in Workers : pc'[w] = pc[w]
    BY <1>1 DEF IInv, TypeOK
  <2> QED
    BY <1>1, <2>1 DEF handBar, Handling
<1> QED
  BY <1>1, <1>2, <1>3, <1>4 DEF Channel!Submit, chanBar, handBar, upBar

\* A worker's copy and shift is the channel's Take of the oldest datagram.
LEMMA TakeRefines == ASSUME IInv, NEW w \in Workers, WorkerTake(w) PROVE Channel!Take(w)
<1> USE ThreadsAssumption, QueueSizeAssumption
<1>1. /\ w # Main /\ pc[w] = "test" /\ process = "running"
      /\ taskCount \in Nat /\ taskCount > 0 /\ taskCount <= QueueSize
      /\ taskCount' = taskCount - 1
      /\ taskQueue' = Shifted
      /\ pc' = [pc EXCEPT ![w] = "handle"]
      /\ task' = [task EXCEPT ![w] = taskQueue[0]]
      /\ UNCHANGED <<handled, process>>
  BY DEF WorkerTake, Goto, IInv, TypeOK
<1>2. Submitted' = Submitted
  BY <1>1 DEF IInv, TypeOK, Submitted
<1>3. chanBar' = Tail(chanBar)
  <2>1. chanBar \in Seq(Tasks) /\ Len(chanBar) = taskCount
    BY <1>1 DEF chanBar, IInv, TypeOK
  <2>2. chanBar' = [i \in 1 .. taskCount - 1 |-> taskQueue[i]]
    BY <1>1 DEF chanBar, Shifted
  <2>3. /\ Tail(chanBar) \in Seq(Tasks) /\ Len(Tail(chanBar)) = taskCount - 1
        /\ \A i \in 1 .. taskCount - 1 : Tail(chanBar)[i] = chanBar[i + 1]
    <3>1. chanBar # <<>>
      BY <1>1, <2>1
    <3> QED
      BY <1>1, <2>1, <3>1, HeadTailProperties
  <2>4. \A i \in 1 .. taskCount - 1 : chanBar[i + 1] = taskQueue[i]
    BY <1>1 DEF chanBar
  <2>5. Tail(chanBar) \in [1 .. taskCount - 1 -> Tasks]
    BY <2>3, LenProperties
  <2>6. Tail(chanBar) = [i \in 1 .. taskCount - 1 |-> Tail(chanBar)[i]]
    BY <2>5
  <2> QED
    BY <2>2, <2>3, <2>4, <2>6
<1>4. Head(chanBar) = taskQueue[0] /\ chanBar # <<>>
  <2>1. chanBar \in Seq(Tasks) /\ Len(chanBar) = taskCount
    BY <1>1 DEF chanBar, IInv, TypeOK
  <2>2. 1 \in 1 .. taskCount /\ 1 - 1 = 0
    BY <1>1
  <2>3. chanBar[1] = taskQueue[0]
    BY <2>2 DEF chanBar
  <2>4. chanBar # <<>>
    BY <1>1, <2>1
  <2> QED
    BY <2>1, <2>3, <2>4
<1>5. Handling' = Handling \union {w} /\ w \notin Handling
  BY <1>1 DEF Handling, IInv, TypeOK
<1>6. handBar' = [handBar EXCEPT ![w] = Head(chanBar)] /\ handBar[w] = 0
  BY <1>1, <1>4, <1>5 DEF handBar, IInv, TypeOK
<1> QED
  BY <1>1, <1>2, <1>3, <1>4, <1>6 DEF Channel!Take, Channel!NoTask, chanBar, handBar, upBar

\* handle_client's return is the channel's Finish.
LEMMA HandleRefines == ASSUME IInv, NEW w \in Workers, WorkerHandle(w) PROVE Channel!Finish(w)
<1> USE ThreadsAssumption
<1>1. /\ w # Main /\ pc[w] = "handle" /\ process = "running"
      /\ pc' = [pc EXCEPT ![w] = "lock"]
      /\ handled' = handled \union {task[w]}
      /\ UNCHANGED <<taskQueue, taskCount, task, process>>
  BY DEF WorkerHandle, Goto, queueVars
<1>2. Submitted' = Submitted /\ chanBar' = chanBar
  BY <1>1 DEF IInv, TypeOK, Submitted, chanBar
<1>3. Handling' = Handling \ {w} /\ w \in Handling
  BY <1>1 DEF Handling, IInv, TypeOK
<1>4. handBar' = [handBar EXCEPT ![w] = 0] /\ handBar[w] = task[w]
  BY <1>1, <1>3 DEF handBar
<1>5. task[w] # 0
  <2>1. handled \union {task[v] : v \in Handling} = 1 .. Taken
    BY DEF IInv, TakenOnce
  <2>2. task[w] \in 1 .. Taken
    BY <1>3, <2>1
  <2> QED
    BY <2>2
<1> QED
  BY <1>1, <1>2, <1>4, <1>5 DEF Channel!Finish, Channel!NoTask, chanBar, handBar, upBar

\* A step that ends the process is the channel's Stop.
LEMMA EndRefines ==
  ASSUME IInv, ReceiveFails \/ SubmitOverrun \/ \E w \in Workers : WorkerExits(w)
  PROVE  Channel!Stop
<1> USE ThreadsAssumption
<1>1. process = "running" /\ process' # "running" /\ UNCHANGED <<taskQueue, taskCount, task, handled>>
  BY DEF ReceiveFails, SubmitOverrun, WorkerExits, Goto, queueVars
<1>2. Submitted' = Submitted
  BY <1>1 DEF ReceiveFails, SubmitOverrun, WorkerExits, Goto, IInv, TypeOK, Submitted
<1>3. Handling' = Handling
  BY DEF ReceiveFails, SubmitOverrun, WorkerExits, Goto, IInv, TypeOK, Handling
<1>4. chanBar' = chanBar /\ handBar' = handBar
  BY <1>1, <1>3 DEF chanBar, handBar
<1> QED
  BY <1>1, <1>2, <1>4 DEF Channel!Stop, chanBar, handBar, upBar

\* Every other step moves no task.
LEMMA OtherStutters ==
  ASSUME IInv,
         \/ Receive \/ SubmitLock \/ SubmitStore \/ SubmitSignal \/ UNCHANGED vars
         \/ \E w \in Workers : WorkerLock(w) \/ WorkerWait(w) \/ SpuriousWakeup(w)
  PROVE  UNCHANGED Channel!vars
<1> USE ThreadsAssumption, MaxDatagramsAssumption DEF queueVars
<1>1. UNCHANGED <<handled, process, taskCount>>
  BY DEF Receive, SubmitLock, SubmitStore, SubmitSignal, WorkerLock, WorkerWait,
         SpuriousWakeup, Goto, vars
<1>2. Submitted' = Submitted
  BY DEF Receive, SubmitLock, SubmitStore, SubmitSignal, WorkerLock, WorkerWait,
         SpuriousWakeup, Goto, vars, IInv, TypeOK, Submitted, Locations, MainPc
<1>3. \A i \in 0 .. taskCount - 1 : taskQueue'[i] = taskQueue[i]
  BY QueueSizeAssumption
     DEF Receive, SubmitLock, SubmitStore, SubmitSignal, WorkerLock, WorkerWait,
         SpuriousWakeup, Goto, vars, IInv, TypeOK
<1>4. Handling' = Handling /\ \A w \in Workers : task'[w] = task[w]
  BY DEF Receive, SubmitLock, SubmitStore, SubmitSignal, WorkerLock, WorkerWait,
         SpuriousWakeup, Goto, vars, IInv, TypeOK, Handling, Locations, WorkerPc
<1>5. \A w \in Workers : handBar'[w] = handBar[w]
  BY <1>4 DEF handBar
<1> QED
  BY <1>1, <1>2, <1>3, <1>5, Stutters

\* Each step of the threads is a step of the channel or moves no task.
LEMMA StepRefines == IInv /\ [Next]_vars => [Channel!Next]_(Channel!vars)
<1> SUFFICES ASSUME IInv, [Next]_vars PROVE [Channel!Next]_(Channel!vars)
  OBVIOUS
<1>1. CASE SubmitCount
  BY <1>1, CountRefines DEF Channel!Next
<1>2. ASSUME NEW w \in Workers, WorkerTake(w) PROVE Channel!Next
  BY <1>2, TakeRefines DEF Channel!Next
<1>3. ASSUME NEW w \in Workers, WorkerHandle(w) PROVE Channel!Next
  BY <1>3, HandleRefines DEF Channel!Next
<1>4. CASE ReceiveFails \/ SubmitOverrun \/ \E w \in Workers : WorkerExits(w)
  BY <1>4, EndRefines DEF Channel!Next
<1>5. CASE \/ Receive \/ SubmitLock \/ SubmitStore \/ SubmitSignal \/ UNCHANGED vars
           \/ \E w \in Workers : WorkerLock(w) \/ WorkerWait(w) \/ SpuriousWakeup(w)
  BY <1>5, OtherStutters
<1> QED
  BY <1>1, <1>2, <1>3, <1>4, <1>5 DEF Next, SubmitStep, WorkerStep, Rest

\* The array, the counter, the mutex and the condition variable of main and
\* its workers behave as a FIFO channel that hands every datagram to one
\* worker: the safety part of ImplementsChannel, for every instance.
THEOREM Implementation == Spec => Channel!Spec
<1>1. Spec => Channel!Init
  BY InitRefines, PTL DEF Spec
<1>2. Spec => [][Channel!Next]_(Channel!vars)
  BY Inductive, StepRefines, PTL DEF Spec
<1> QED
  BY <1>1, <1>2, PTL DEF Channel!Spec
==============================================================================
