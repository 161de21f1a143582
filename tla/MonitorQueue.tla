---------------------------- MODULE MonitorQueue -----------------------------
(***************************************************************************)
(* The monitor of libs/queue.h: the class Queue<T> through which every     *)
(* pair of threads of the server and of the client talks.  One mutex       *)
(* protects the whole object, so a step is one tenure of that mutex: from  *)
(* the lock to the return, or from the lock (or from the return of wait)   *)
(* to the next wait.  A waiting thread is in the wait set of its condition *)
(* variable; a notified one is out of it and still has to get the mutex    *)
(* back and re-evaluate its loop condition (ResumePush, ResumePop).        *)
(* The specialisations for T* and void* repeat the same code.              *)
(***************************************************************************)
EXTENDS Naturals, Sequences

CONSTANTS Thread, Value, MaxSize, NoValue

ASSUME MaxSizeAssumption == MaxSize \in Nat \ {0}
ASSUME NoValueAssumption == NoValue \notin Value

VARIABLES q, closed, pc, arg,
          isNotFull,   \* wait set of the condition variable is_not_full
          isNotEmpty,  \* wait set of the condition variable is_not_empty
          result,      \* how the thread's last call ended
          accepted,    \* history: every element ever added, in order
          taken        \* history: every element ever removed, in order

vars == <<q, closed, pc, arg, isNotFull, isNotEmpty, result, accepted, taken>>

Full == Len(q) = MaxSize

Init ==
    /\ q = <<>>
    /\ closed = FALSE
    /\ pc = [t \in Thread |-> "idle"]
    /\ arg = [t \in Thread |-> NoValue]
    /\ isNotFull = {}
    /\ isNotEmpty = {}
    /\ result = [t \in Thread |-> "none"]
    /\ accepted = <<>>
    /\ taken = <<>>

(* Elements are told apart, so each is offered to the queue only once.     *)
Fresh(v) == v \notin ({accepted[i] : i \in DOMAIN accepted}
                        \cup {arg[t] : t \in Thread})

Return(t, r) ==
    /\ pc' = [pc EXCEPT ![t] = "idle"]
    /\ arg' = [arg EXCEPT ![t] = NoValue]
    /\ result' = [result EXCEPT ![t] = r]

(* throw, or "return false": the queue itself is left alone.               *)
Refuse(t, r) ==
    /\ Return(t, r)
    /\ UNCHANGED <<q, closed, isNotFull, isNotEmpty, accepted, taken>>

(* Mutant of Enqueue: notify_one instead of notify_all.                    *)
EnqueueNotifiesOne(t, v) ==
    /\ \/ isNotEmpty = {} /\ UNCHANGED isNotEmpty
       \/ \E w \in isNotEmpty :
             isNotEmpty' = IF q = <<>> THEN isNotEmpty \ {w} ELSE isNotEmpty
    /\ q' = Append(q, v)
    /\ accepted' = Append(accepted, v)
    /\ Return(t, "ok")
    /\ UNCHANGED <<closed, isNotFull, taken>>

(* The tail of try_push and of both push overloads: notify_all only if the *)
(* queue was empty, then add the element.                                  *)
Enqueue(t, v) ==
    /\ isNotEmpty' = IF q = <<>> THEN {} ELSE isNotEmpty
    /\ q' = Append(q, v)
    /\ accepted' = Append(accepted, v)
    /\ Return(t, "ok")
    /\ UNCHANGED <<closed, isNotFull, taken>>

(* Mutants of Dequeue: the newest element is removed; nobody is notified.  *)
DequeueNewest(t) ==
    /\ isNotFull' = IF Full THEN {} ELSE isNotFull
    /\ q' = SubSeq(q, 1, Len(q) - 1)
    /\ taken' = Append(taken, q[Len(q)])
    /\ Return(t, "ok")
    /\ UNCHANGED <<closed, isNotEmpty, accepted>>

DequeueSilently(t) ==
    /\ q' = Tail(q)
    /\ taken' = Append(taken, Head(q))
    /\ Return(t, "ok")
    /\ UNCHANGED <<closed, isNotFull, isNotEmpty, accepted>>

(* The tail of try_pop and pop: notify_all only if the queue was full,     *)
(* then remove the oldest element.                                         *)
Dequeue(t) ==
    /\ isNotFull' = IF Full THEN {} ELSE isNotFull
    /\ q' = Tail(q)
    /\ taken' = Append(taken, Head(q))
    /\ Return(t, "ok")
    /\ UNCHANGED <<closed, isNotEmpty, accepted>>

(* Mutant of WaitNotFull: the element is moved from before the wait.       *)
WaitNotFullForgets(t, v) ==
    /\ isNotFull' = isNotFull \cup {t}
    /\ pc' = [pc EXCEPT ![t] = "push"]
    /\ UNCHANGED <<q, closed, arg, isNotEmpty, result, accepted, taken>>

(* is_not_full.wait(), is_not_empty.wait(): the mutex is released.         *)
WaitNotFull(t, v) ==
    /\ isNotFull' = isNotFull \cup {t}
    /\ pc' = [pc EXCEPT ![t] = "push"]
    /\ arg' = [arg EXCEPT ![t] = v]
    /\ UNCHANGED <<q, closed, isNotEmpty, result, accepted, taken>>

WaitNotEmpty(t) ==
    /\ isNotEmpty' = isNotEmpty \cup {t}
    /\ pc' = [pc EXCEPT ![t] = "pop"]
    /\ UNCHANGED <<q, closed, arg, isNotFull, result, accepted, taken>>

TryPush(t, v) ==
    /\ pc[t] = "idle"
    /\ Fresh(v)
    /\ \/ closed /\ Refuse(t, "ClosedQueue")
       \/ ~closed /\ Full /\ Refuse(t, "false")
       \/ ~closed /\ ~Full /\ Enqueue(t, v)

TryPop(t) ==
    /\ pc[t] = "idle"
    /\ \/ q = <<>> /\ closed /\ Refuse(t, "ClosedQueue")
       \/ q = <<>> /\ ~closed /\ Refuse(t, "false")
       \/ q # <<>> /\ Dequeue(t)

(* push(): closed is tested once, before the wait loop.                    *)
Push(t, v) ==
    /\ pc[t] = "idle"
    /\ Fresh(v)
    /\ \/ closed /\ Refuse(t, "ClosedQueue")
       \/ ~closed /\ Full /\ WaitNotFull(t, v)
       \/ ~closed /\ ~Full /\ Enqueue(t, v)

(* Mutant of ResumePush: "if" instead of "while" around the wait.          *)
ResumePushUnchecked(t) ==
    /\ pc[t] = "push"
    /\ t \notin isNotFull
    /\ Enqueue(t, arg[t])

(* push(), back from is_not_full.wait(): only the loop condition is tested *)
(* again.                                                                  *)
ResumePush(t) ==
    /\ pc[t] = "push"
    /\ t \notin isNotFull
    /\ IF Full THEN WaitNotFull(t, arg[t]) ELSE Enqueue(t, arg[t])

(* pop()'s loop: closed is tested in every round, but only on an empty     *)
(* queue.                                                                  *)
PopLoop(t) ==
    \/ q # <<>> /\ Dequeue(t)
    \/ q = <<>> /\ closed /\ Refuse(t, "ClosedQueue")
    \/ q = <<>> /\ ~closed /\ WaitNotEmpty(t)

Pop(t) ==
    /\ pc[t] = "idle"
    /\ PopLoop(t)

ResumePop(t) ==
    /\ pc[t] = "pop"
    /\ t \notin isNotEmpty
    /\ PopLoop(t)

(* Mutant of Close: no notify_all.                                         *)
CloseSilently(t) ==
    /\ pc[t] = "idle"
    /\ ~closed
    /\ closed' = TRUE
    /\ Return(t, "ok")
    /\ UNCHANGED <<q, isNotFull, isNotEmpty, accepted, taken>>

(* close(): wakes the threads waiting in pop(), and only those.            *)
Close(t) ==
    /\ pc[t] = "idle"
    /\ \/ closed /\ Refuse(t, "runtime_error")
       \/ /\ ~closed
          /\ closed' = TRUE
          /\ isNotEmpty' = {}
          /\ Return(t, "ok")
          /\ UNCHANGED <<q, isNotFull, accepted, taken>>

(* std::condition_variable::wait may return without a notification.        *)
SpuriousWakeup(t) ==
    /\ t \in isNotFull \cup isNotEmpty
    /\ isNotFull' = isNotFull \ {t}
    /\ isNotEmpty' = isNotEmpty \ {t}
    /\ UNCHANGED <<q, closed, pc, arg, result, accepted, taken>>

Next ==
    \E t \in Thread :
        \/ \E v \in Value : TryPush(t, v) \/ Push(t, v)
        \/ TryPop(t)
        \/ Pop(t)
        \/ Close(t)
        \/ ResumePush(t)
        \/ ResumePop(t)
        \/ SpuriousWakeup(t)

(* A notified thread eventually gets the mutex back; nobody has to call    *)
(* anything.                                                               *)
Fairness == \A t \in Thread : WF_vars(ResumePush(t) \/ ResumePop(t))

Spec == Init /\ [][Next]_vars /\ Fairness
------------------------------------------------------------------------------
(* Type invariant.                                                         *)
TypeOK ==
    /\ q \in Seq(Value)
    /\ closed \in BOOLEAN
    /\ pc \in [Thread -> {"idle", "push", "pop"}]
    /\ arg \in [Thread -> Value \cup {NoValue}]
    /\ isNotFull \in SUBSET Thread
    /\ isNotEmpty \in SUBSET Thread
    /\ result \in [Thread -> {"none", "ok", "false", "ClosedQueue",
                              "runtime_error"}]
    /\ accepted \in Seq(Value)
    /\ taken \in Seq(Value)

(* A thread sits in a wait set only while the condition it waits for is    *)
(* false and it is inside the matching call.  Since notify_all is issued   *)
(* only on the edges empty -> non-empty and full -> non-full, this is what *)
(* makes those conditional notifications enough (queue.h:52, 70, 90, 126). *)
NoLostWakeup ==
    /\ \A t \in isNotEmpty : pc[t] = "pop" /\ q = <<>> /\ ~closed
    /\ \A t \in isNotFull : pc[t] = "push" /\ Full

(* The buffer never outgrows max_size, whatever woke a blocked push().     *)
Bounded == Len(q) <= MaxSize

(* Nothing is lost, duplicated or reordered between push and pop: the      *)
(* elements ever accepted are those taken followed by those still queued.  *)
FIFO ==
    /\ Len(accepted) = Len(taken) + Len(q)
    /\ \A i \in 1..Len(taken) : accepted[i] = taken[i]
    /\ \A i \in 1..Len(q) : accepted[Len(taken) + i] = q[i]

(* Once the queue is closed, every thread inside pop() returns, with an    *)
(* element or with ClosedQueue: what Sender::stop and ~Client rely on.     *)
CloseReleasesPop ==
    \A t \in Thread : (closed /\ pc[t] = "pop") ~> pc[t] = "idle"

(* The condition variables implement the abstract buffer, its promise that *)
(* a completable pending call completes included.                          *)
Abstract == INSTANCE BoundedFifo WITH q <- q, closed <- closed,
                                       pc <- pc, arg <- arg
ImplementsBoundedFifo == Abstract!Spec

(* queue.h:22, "On a closed queue, any method will raise ClosedQueue": no  *)
(* push may still add an element once the queue is closed.  Violated by a  *)
(* push() that was already waiting.                                        *)
ClosedQueueAcceptsNothing == [][closed => accepted' = accepted]_vars
==============================================================================
