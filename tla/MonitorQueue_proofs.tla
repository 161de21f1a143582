------------------------- MODULE MonitorQueue_proofs -------------------------
(***************************************************************************)
(* Proofs about MonitorQueue, for every set of threads, every set of       *)
(* values and every capacity.  The inductive invariant IInv adds to the    *)
(* invariants of the runs what a pending call remembers: without it,       *)
(* ResumePush could append something that is not an element.               *)
(***************************************************************************)
EXTENDS MonitorQueue, TLAPS

(* arg belongs to the push() the thread is inside, and to nothing else.    *)
ArgOfPush ==
    \A t \in Thread : /\ pc[t] = "push" => arg[t] \in Value
                      /\ pc[t] # "push" => arg[t] = NoValue

IInv == TypeOK /\ ArgOfPush /\ NoLostWakeup /\ Bounded /\ FIFO

(* The constructor establishes the invariant (queue.h:38).                 *)
LEMMA InitIInv == Init => IInv
<1> SUFFICES ASSUME Init
             PROVE  IInv
  OBVIOUS
<1> USE DEF Init
<1>1. TypeOK
  <2>1. q \in Seq(Value) /\ accepted \in Seq(Value) /\ taken \in Seq(Value)
    OBVIOUS
  <2>2. /\ pc \in [Thread -> {"idle", "push", "pop"}]
        /\ arg \in [Thread -> Value \cup {NoValue}]
        /\ result \in [Thread -> {"none", "ok", "false", "ClosedQueue",
                                  "runtime_error"}]
    OBVIOUS
  <2>3. /\ closed \in BOOLEAN
        /\ isNotFull \in SUBSET Thread
        /\ isNotEmpty \in SUBSET Thread
    OBVIOUS
  <2>4. QED
    BY <2>1, <2>2, <2>3 DEF TypeOK
<1>2. ArgOfPush /\ NoLostWakeup
  BY DEF ArgOfPush, NoLostWakeup
<1>3. Bounded /\ FIFO
  BY MaxSizeAssumption DEF Bounded, FIFO
<1>4. QED
  BY <1>1, <1>2, <1>3 DEF IInv

(* Adding an element at the tail of the queue, by a thread that is not     *)
(* waiting, keeps the invariant (queue.h:52-57, 90-94, 108-112).           *)
LEMMA EnqueueIInv ==
  ASSUME IInv, NEW t \in Thread, NEW v \in Value,
         pc[t] \in {"idle", "push"}, t \notin isNotFull, ~Full, Enqueue(t, v)
  PROVE  IInv'
<1> USE DEF IInv
<1>1. TypeOK'
  BY DEF TypeOK, Enqueue, Return
<1>2. ArgOfPush'
  BY DEF ArgOfPush, TypeOK, Enqueue, Return
<1>3. NoLostWakeup'
  <2>1. t \notin isNotEmpty
    BY DEF NoLostWakeup, TypeOK
  <2>2. isNotEmpty' = {}
    BY DEF Enqueue, NoLostWakeup
  <2>3. isNotFull' = {}
    BY DEF Enqueue, NoLostWakeup
  <2>4. QED
    BY <2>2, <2>3 DEF NoLostWakeup
<1>4. Bounded'
  BY MaxSizeAssumption DEF Bounded, Full, TypeOK, Enqueue
<1>5. FIFO'
  <2>1. /\ Len(q') = Len(q) + 1
        /\ Len(accepted') = Len(accepted) + 1
        /\ taken' = taken
    BY DEF TypeOK, Enqueue
  <2>2. Len(q) \in Nat /\ Len(taken) \in Nat /\ Len(accepted) \in Nat
    BY DEF TypeOK
  <2>3. \A i \in 1..Len(accepted) : accepted'[i] = accepted[i]
    BY DEF TypeOK, Enqueue
  <2>4. accepted'[Len(accepted) + 1] = v /\ q'[Len(q) + 1] = v
    BY DEF TypeOK, Enqueue
  <2>5. \A i \in 1..Len(q) : q'[i] = q[i]
    BY DEF TypeOK, Enqueue
  <2>6. Len(accepted) = Len(taken) + Len(q)
    BY DEF FIFO
  <2>7. Len(accepted') = Len(taken') + Len(q')
    BY <2>1, <2>2, <2>6
  <2>8. \A i \in 1..Len(taken') : accepted'[i] = taken'[i]
    BY <2>1, <2>2, <2>3, <2>6 DEF FIFO
  <2>9. \A i \in 1..Len(q') : accepted'[Len(taken') + i] = q'[i]
    <3> SUFFICES ASSUME NEW i \in 1..Len(q')
                 PROVE  accepted'[Len(taken) + i] = q'[i]
      BY <2>1
    <3>1. CASE i = Len(q) + 1
      BY <2>2, <2>4, <2>6, <3>1
    <3>2. CASE i # Len(q) + 1
      <4>1. i \in 1..Len(q) /\ Len(taken) + i \in 1..Len(accepted)
        BY <2>1, <2>2, <2>6, <3>2
      <4>2. accepted[Len(taken) + i] = q[i]
        BY <4>1 DEF FIFO
      <4>3. QED
        BY <2>3, <2>5, <4>1, <4>2
    <3>3. QED
      BY <3>1, <3>2
  <2>10. QED
    BY <2>7, <2>8, <2>9 DEF FIFO
<1>6. QED
  BY <1>1, <1>2, <1>3, <1>4, <1>5

(* Removing the element at the head of the queue keeps the invariant       *)
(* (queue.h:70-76, 126-133).                                               *)
LEMMA DequeueIInv ==
  ASSUME IInv, NEW t \in Thread,
         pc[t] \in {"idle", "pop"}, q # <<>>, Dequeue(t)
  PROVE  IInv'
<1> USE DEF IInv
<1>0. /\ Len(q) \in Nat \ {0}
      /\ Head(q) \in Value
      /\ Tail(q) \in Seq(Value)
      /\ Len(Tail(q)) = Len(q) - 1
      /\ \A i \in 1..(Len(q) - 1) : Tail(q)[i] = q[i + 1]
      /\ Head(q) = q[1]
  BY DEF TypeOK
<1>1. TypeOK'
  BY <1>0 DEF TypeOK, Dequeue, Return
<1>2. ArgOfPush'
  BY DEF ArgOfPush, TypeOK, Dequeue, Return
<1>3. NoLostWakeup'
  <2>1. isNotEmpty' = {}
    BY DEF Dequeue, NoLostWakeup
  <2>2. isNotFull' = {}
    BY DEF Dequeue, NoLostWakeup
  <2>3. QED
    BY <2>1, <2>2 DEF NoLostWakeup
<1>4. Bounded'
  BY <1>0, MaxSizeAssumption DEF Bounded, Dequeue
<1>5. FIFO'
  <2>1. /\ Len(q') = Len(q) - 1
        /\ \A i \in 1..Len(q') : q'[i] = q[i + 1]
        /\ accepted' = accepted
    BY <1>0 DEF Dequeue
  <2>2. /\ Len(taken') = Len(taken) + 1
        /\ taken'[Len(taken) + 1] = q[1]
        /\ \A i \in 1..Len(taken) : taken'[i] = taken[i]
    BY <1>0 DEF TypeOK, Dequeue
  <2>3. Len(taken) \in Nat /\ Len(accepted) \in Nat
    BY DEF TypeOK
  <2>4. accepted[Len(taken) + 1] = q[1]
    BY <1>0 DEF FIFO
  <2>5. Len(accepted') = Len(taken') + Len(q')
    <3>1. Len(accepted) = Len(taken) + Len(q)
      BY DEF FIFO
    <3>2. QED
      BY <1>0, <2>1, <2>2, <2>3, <3>1
  <2>6. \A i \in 1..Len(taken') : accepted'[i] = taken'[i]
    BY <1>0, <2>1, <2>2, <2>3, <2>4 DEF FIFO
  <2>7. \A i \in 1..Len(q') : accepted'[Len(taken') + i] = q'[i]
    BY <1>0, <2>1, <2>2, <2>3 DEF FIFO
  <2>8. QED
    BY <2>5, <2>6, <2>7 DEF FIFO
<1>6. QED
  BY <1>1, <1>2, <1>3, <1>4, <1>5

(* A call that is refused, from outside any wait set, changes nothing the  *)
(* invariant speaks of but the caller's own bookkeeping.                   *)
LEMMA RefuseIInv ==
  ASSUME IInv, NEW t \in Thread, t \notin isNotFull, t \notin isNotEmpty,
         NEW r \in {"false", "ClosedQueue", "runtime_error"}, Refuse(t, r)
  PROVE  IInv'
<1> USE DEF IInv, Refuse, Return
<1>1. TypeOK'
  BY DEF TypeOK
<1>2. ArgOfPush'
  BY DEF ArgOfPush, TypeOK
<1>3. NoLostWakeup'
  BY DEF NoLostWakeup, TypeOK, Full
<1>4. Bounded' /\ FIFO'
  BY DEF Bounded, FIFO
<1>5. QED
  BY <1>1, <1>2, <1>3, <1>4

(* Going to wait in push() on a full queue (queue.h:86-88, 104-106).       *)
LEMMA WaitNotFullIInv ==
  ASSUME IInv, NEW t \in Thread, NEW v \in Value, Full,
         t \notin isNotEmpty, WaitNotFull(t, v)
  PROVE  IInv'
<1> USE DEF IInv, WaitNotFull
<1>1. TypeOK'
  BY DEF TypeOK
<1>2. ArgOfPush'
  BY DEF ArgOfPush, TypeOK
<1>3. NoLostWakeup'
  BY DEF NoLostWakeup, TypeOK, Full
<1>4. Bounded' /\ FIFO'
  BY DEF Bounded, FIFO
<1>5. QED
  BY <1>1, <1>2, <1>3, <1>4

(* Going to wait in pop() on an empty, open queue (queue.h:119-124).       *)
LEMMA WaitNotEmptyIInv ==
  ASSUME IInv, NEW t \in Thread, q = <<>>, ~closed,
         t \notin isNotFull, pc[t] # "push", WaitNotEmpty(t)
  PROVE  IInv'
<1> USE DEF IInv, WaitNotEmpty
<1>1. TypeOK'
  BY DEF TypeOK
<1>2. ArgOfPush'
  BY DEF ArgOfPush, TypeOK
<1>3. NoLostWakeup'
  BY DEF NoLostWakeup, TypeOK, Full
<1>4. Bounded' /\ FIFO'
  BY DEF Bounded, FIFO
<1>5. QED
  BY <1>1, <1>2, <1>3, <1>4

(* Both entries of pop(), the call and the return from wait, run the same  *)
(* loop.                                                                   *)
LEMMA PopLoopIInv ==
  ASSUME IInv, NEW t \in Thread, pc[t] \in {"idle", "pop"},
         t \notin isNotEmpty, PopLoop(t)
  PROVE  IInv'
<1>1. t \notin isNotFull
  BY DEF IInv, NoLostWakeup
<1>2. CASE q # <<>> /\ Dequeue(t)
  BY <1>2, DequeueIInv
<1>3. CASE q = <<>> /\ closed /\ Refuse(t, "ClosedQueue")
  BY <1>1, <1>3, RefuseIInv
<1>4. CASE q = <<>> /\ ~closed /\ WaitNotEmpty(t)
  BY <1>1, <1>4, WaitNotEmptyIInv
<1>5. QED
  BY <1>2, <1>3, <1>4 DEF PopLoop

(* Every step of every thread keeps the invariant.                         *)
LEMMA NextIInv == IInv /\ [Next]_vars => IInv'
<1> SUFFICES ASSUME IInv, [Next]_vars
             PROVE  IInv'
  OBVIOUS
<1>0. ASSUME NEW t \in Thread, pc[t] = "idle"
      PROVE  t \notin isNotFull /\ t \notin isNotEmpty
  BY <1>0 DEF IInv, NoLostWakeup
<1>1. ASSUME NEW t \in Thread, NEW v \in Value, TryPush(t, v)
      PROVE  IInv'
  BY <1>0, <1>1, EnqueueIInv, RefuseIInv DEF TryPush
<1>2. ASSUME NEW t \in Thread, NEW v \in Value, Push(t, v)
      PROVE  IInv'
  BY <1>0, <1>2, EnqueueIInv, RefuseIInv, WaitNotFullIInv DEF Push
<1>3. ASSUME NEW t \in Thread, TryPop(t)
      PROVE  IInv'
  BY <1>0, <1>3, DequeueIInv, RefuseIInv DEF TryPop
<1>4. ASSUME NEW t \in Thread, Pop(t)
      PROVE  IInv'
  BY <1>0, <1>4, PopLoopIInv DEF Pop
<1>5. ASSUME NEW t \in Thread, Close(t)
      PROVE  IInv'
  <2>1. t \notin isNotFull /\ t \notin isNotEmpty /\ pc[t] = "idle"
    BY <1>0, <1>5 DEF Close
  <2>2. CASE closed /\ Refuse(t, "runtime_error")
    BY <2>1, <2>2, RefuseIInv
  <2>3. CASE ~closed /\ ~(closed /\ Refuse(t, "runtime_error"))
    <3> USE DEF IInv
    <3>1. /\ closed' = TRUE /\ isNotEmpty' = {} /\ Return(t, "ok")
          /\ UNCHANGED <<q, isNotFull, accepted, taken>>
      BY <1>5, <2>3 DEF Close
    <3>2. TypeOK'
      BY <3>1 DEF TypeOK, Return
    <3>3. ArgOfPush'
      BY <3>1 DEF ArgOfPush, TypeOK, Return
    <3>4. NoLostWakeup'
      BY <2>1, <3>1 DEF NoLostWakeup, TypeOK, Return, Full
    <3>5. Bounded' /\ FIFO'
      BY <3>1 DEF Bounded, FIFO
    <3>6. QED
      BY <3>2, <3>3, <3>4, <3>5
  <2>4. QED
    BY <1>5, <2>2, <2>3 DEF Close
<1>6. ASSUME NEW t \in Thread, ResumePush(t)
      PROVE  IInv'
  <2>1. arg[t] \in Value /\ t \notin isNotEmpty
    BY <1>6 DEF ResumePush, IInv, ArgOfPush, NoLostWakeup
  <2>2. CASE Full
    BY <1>6, <2>1, <2>2, WaitNotFullIInv DEF ResumePush
  <2>3. CASE ~Full
    BY <1>6, <2>1, <2>3, EnqueueIInv DEF ResumePush
  <2>4. QED
    BY <2>2, <2>3
<1>7. ASSUME NEW t \in Thread, ResumePop(t)
      PROVE  IInv'
  BY <1>7, PopLoopIInv DEF ResumePop
<1>8. ASSUME NEW t \in Thread, SpuriousWakeup(t)
      PROVE  IInv'
  <2> USE <1>8 DEF IInv, SpuriousWakeup
  <2>1. TypeOK' /\ ArgOfPush'
    BY DEF TypeOK, ArgOfPush
  <2>2. NoLostWakeup'
    BY DEF NoLostWakeup, Full
  <2>3. Bounded' /\ FIFO'
    BY DEF Bounded, FIFO
  <2>4. QED
    BY <2>1, <2>2, <2>3
<1>9. CASE UNCHANGED vars
  BY <1>9 DEF vars, IInv, TypeOK, ArgOfPush, NoLostWakeup, Bounded, FIFO, Full
<1>10. QED
  BY <1>1, <1>2, <1>3, <1>4, <1>5, <1>6, <1>7, <1>8, <1>9 DEF Next

(* The inductive invariant holds in every reachable state of the queue.    *)
THEOREM Invariance == Spec => []IInv
  BY InitIInv, NextIInv, PTL DEF Spec

(* The queue's state stays within its types.                               *)
THEOREM TypeCorrect == Spec => []TypeOK
<1>1. IInv => TypeOK
  BY DEF IInv
<1>2. QED
  BY <1>1, Invariance, PTL

(* No thread is ever left waiting on a condition that already holds: the   *)
(* notifications queue.h issues on the empty and full edges are enough,    *)
(* for any number of producers and consumers.                              *)
THEOREM NoWakeupIsLost == Spec => []NoLostWakeup
<1>1. IInv => NoLostWakeup
  BY DEF IInv
<1>2. QED
  BY <1>1, Invariance, PTL

(* What is popped is what was pushed, in that order, and never more than   *)
(* max_size elements are in between.                                       *)
THEOREM FirstInFirstOut == Spec => [](FIFO /\ Bounded)
<1>1. IInv => FIFO /\ Bounded
  BY DEF IInv
<1>2. QED
  BY <1>1, Invariance, PTL
------------------------------------------------------------------------------
(* Adding an element, at once or after a wait, is a Put of the buffer.     *)
LEMMA EnqueueIsPut ==
  ASSUME IInv, NEW t \in Thread, NEW v \in Value, ~Full, Enqueue(t, v),
         (pc[t] = "idle" /\ ~closed) \/ (pc[t] = "push" /\ arg[t] = v)
  PROVE  Abstract!Next
<1>1. Len(q) < MaxSize
  BY MaxSizeAssumption DEF IInv, TypeOK, Bounded, Full
<1>2. Abstract!Put(t, v)
  BY <1>1 DEF Enqueue, Return, Abstract!Put, Abstract!Return
<1>3. QED
  BY <1>2 DEF Abstract!Next

(* Removing the oldest element is a Take.                                  *)
LEMMA DequeueIsTake ==
  ASSUME NEW t \in Thread, pc[t] \in {"idle", "pop"}, q # <<>>, Dequeue(t)
  PROVE  Abstract!Next
<1>1. Abstract!Take(t)
  BY DEF Dequeue, Return, Abstract!Take, Abstract!Return
<1>2. QED
  BY <1>1 DEF Abstract!Next

(* A call that is refused at once leaves the buffer as it is.              *)
LEMMA IdleRefuseStutters ==
  ASSUME IInv, NEW t \in Thread, pc[t] = "idle", NEW r, Refuse(t, r)
  PROVE  UNCHANGED Abstract!vars
<1>1. arg[t] = NoValue
  BY DEF IInv, ArgOfPush
<1>2. pc' = pc /\ arg' = arg
  BY <1>1 DEF Refuse, Return, IInv, TypeOK
<1>3. QED
  BY <1>2 DEF Refuse, Abstract!vars

(* A round of pop()'s loop is a Take, a GiveUp, a Hold or a stutter.       *)
LEMMA PopLoopIsAbstract ==
  ASSUME IInv, NEW t \in Thread, pc[t] \in {"idle", "pop"}, PopLoop(t)
  PROVE  [Abstract!Next]_(Abstract!vars)
<1>1. CASE q # <<>> /\ Dequeue(t)
  BY <1>1, DequeueIsTake
<1>2. CASE q = <<>> /\ closed /\ Refuse(t, "ClosedQueue")
  <2>1. CASE pc[t] = "idle"
    BY <1>2, <2>1, IdleRefuseStutters
  <2>2. CASE pc[t] = "pop"
    <3>1. Abstract!GiveUp(t)
      BY <1>2, <2>2 DEF Refuse, Return, Abstract!GiveUp, Abstract!Return
    <3>2. QED
      BY <3>1 DEF Abstract!Next
  <2>3. QED
    BY <2>1, <2>2
<1>3. CASE q = <<>> /\ ~closed /\ WaitNotEmpty(t)
  <2>1. CASE pc[t] = "idle"
    <3>1. Abstract!Hold(t)
      BY <1>3, <2>1 DEF WaitNotEmpty, Abstract!Hold
    <3>2. QED
      BY <3>1 DEF Abstract!Next
  <2>2. CASE pc[t] = "pop"
    <3>1. pc' = pc
      BY <1>3, <2>2 DEF WaitNotEmpty, IInv, TypeOK
    <3>2. QED
      BY <1>3, <3>1 DEF WaitNotEmpty, Abstract!vars
  <2>3. QED
    BY <2>1, <2>2
<1>4. QED
  BY <1>1, <1>2, <1>3 DEF PopLoop

(* Every step of the monitor is a step of the buffer or a stutter.         *)
LEMMA StepIsAbstract ==
  ASSUME IInv, [Next]_vars
  PROVE  [Abstract!Next]_(Abstract!vars)
<1>0. ASSUME NEW t \in Thread, NEW v \in Value, pc[t] = "idle", ~closed, Full,
             WaitNotFull(t, v)
      PROVE  Abstract!Next
  <2>1. Abstract!Hold(t)
    BY <1>0 DEF WaitNotFull, Full, Abstract!Hold
  <2>2. QED
    BY <2>1 DEF Abstract!Next
<1>1. ASSUME NEW t \in Thread, NEW v \in Value, TryPush(t, v)
      PROVE  [Abstract!Next]_(Abstract!vars)
  BY <1>1, EnqueueIsPut, IdleRefuseStutters DEF TryPush
<1>2. ASSUME NEW t \in Thread, NEW v \in Value, Push(t, v)
      PROVE  [Abstract!Next]_(Abstract!vars)
  BY <1>0, <1>2, EnqueueIsPut, IdleRefuseStutters DEF Push
<1>3. ASSUME NEW t \in Thread, TryPop(t)
      PROVE  [Abstract!Next]_(Abstract!vars)
  BY <1>3, DequeueIsTake, IdleRefuseStutters DEF TryPop
<1>4. ASSUME NEW t \in Thread, Pop(t) \/ ResumePop(t)
      PROVE  [Abstract!Next]_(Abstract!vars)
  BY <1>4, PopLoopIsAbstract DEF Pop, ResumePop
<1>5. ASSUME NEW t \in Thread, Close(t)
      PROVE  [Abstract!Next]_(Abstract!vars)
  <2>1. CASE closed /\ Refuse(t, "runtime_error")
    BY <1>5, <2>1, IdleRefuseStutters DEF Close
  <2>2. CASE ~(closed /\ Refuse(t, "runtime_error"))
    <3>1. arg[t] = NoValue
      BY <1>5 DEF Close, IInv, ArgOfPush
    <3>2. pc' = pc /\ arg' = arg
      BY <1>5, <2>2, <3>1 DEF Close, Return, IInv, TypeOK
    <3>3. Abstract!Close
      BY <1>5, <2>2, <3>2 DEF Close, Abstract!Close
    <3>4. QED
      BY <3>3 DEF Abstract!Next
  <2>3. QED
    BY <2>1, <2>2
<1>6. ASSUME NEW t \in Thread, ResumePush(t)
      PROVE  [Abstract!Next]_(Abstract!vars)
  <2>1. arg[t] \in Value /\ pc[t] = "push"
    BY <1>6 DEF ResumePush, IInv, ArgOfPush
  <2>2. CASE Full /\ WaitNotFull(t, arg[t])
    <3>1. pc' = pc /\ arg' = arg
      BY <2>1, <2>2 DEF WaitNotFull, IInv, TypeOK
    <3>2. QED
      BY <2>2, <3>1 DEF WaitNotFull, Abstract!vars
  <2>3. CASE ~Full /\ Enqueue(t, arg[t])
    BY <2>1, <2>3, EnqueueIsPut
  <2>4. QED
    BY <1>6, <2>2, <2>3 DEF ResumePush
<1>7. ASSUME NEW t \in Thread, SpuriousWakeup(t)
      PROVE  [Abstract!Next]_(Abstract!vars)
  BY <1>7 DEF SpuriousWakeup, Abstract!vars
<1>8. CASE UNCHANGED vars
  BY <1>8 DEF vars, Abstract!vars
<1>9. QED
  BY <1>1, <1>2, <1>3, <1>4, <1>5, <1>6, <1>7, <1>8 DEF Next

(* The monitor implements the closable bounded buffer: every behaviour of  *)
(* queue.h, its condition variables hidden, is one of BoundedFifo.         *)
THEOREM Refinement == Spec => Abstract!Init /\ [][Abstract!Next]_(Abstract!vars)
<1>1. Init => Abstract!Init
  BY DEF Init, Abstract!Init
<1>2. IInv /\ [Next]_vars => [Abstract!Next]_(Abstract!vars)
  BY StepIsAbstract
<1>3. QED
  BY <1>1, <1>2, Invariance, PTL DEF Spec
==============================================================================
