----------------------------- MODULE BoundedFifo -----------------------------
(***************************************************************************)
(* What libs/queue.h promises to the threads that share a Queue<T>: a      *)
(* bounded first-in first-out buffer that can be closed once.  There are   *)
(* no condition variables here: a call that cannot complete is simply      *)
(* pending, and it may complete in any later state in which the buffer     *)
(* allows it.  MonitorQueue, which models the monitor as it is coded,      *)
(* implements this specification (MonitorQueue!Abstract).                  *)
(***************************************************************************)
EXTENDS Naturals, Sequences

CONSTANTS Thread,   \* the threads that call the queue
          Value,    \* the elements they push
          MaxSize,  \* the capacity given to the constructor
          NoValue   \* "no argument", not an element

VARIABLES q,        \* the buffered elements, oldest first
          closed,   \* has close() returned once
          pc,       \* "idle", or the blocking call the thread is inside
          arg       \* the element a pending push wants to add

vars == <<q, closed, pc, arg>>

Init ==
    /\ q = <<>>
    /\ closed = FALSE
    /\ pc = [t \in Thread |-> "idle"]
    /\ arg = [t \in Thread |-> NoValue]

Return(t) ==
    /\ pc' = [pc EXCEPT ![t] = "idle"]
    /\ arg' = [arg EXCEPT ![t] = NoValue]

(* A push that finds the queue full, and a pop that finds it empty, stay   *)
(* pending; neither starts on a closed queue.                              *)
Hold(t) ==
    /\ pc[t] = "idle"
    /\ ~closed
    /\ \/ /\ Len(q) = MaxSize
          /\ \E v \in Value : arg' = [arg EXCEPT ![t] = v]
          /\ pc' = [pc EXCEPT ![t] = "push"]
       \/ /\ q = <<>>
          /\ pc' = [pc EXCEPT ![t] = "pop"]
          /\ UNCHANGED arg
    /\ UNCHANGED <<q, closed>>

(* An element is added: at once on an open queue, or by a pending push,    *)
(* for which it no longer matters that the queue was closed meanwhile.     *)
Put(t, v) ==
    /\ Len(q) < MaxSize
    /\ \/ pc[t] = "idle" /\ ~closed
       \/ pc[t] = "push" /\ arg[t] = v
    /\ q' = Append(q, v)
    /\ Return(t)
    /\ UNCHANGED closed

(* The oldest element is removed, from a closed queue too.                 *)
Take(t) ==
    /\ q # <<>>
    /\ pc[t] \in {"idle", "pop"}
    /\ q' = Tail(q)
    /\ Return(t)
    /\ UNCHANGED closed

(* A pending pop gives up once the queue is closed and drained.            *)
GiveUp(t) ==
    /\ pc[t] = "pop"
    /\ closed
    /\ q = <<>>
    /\ Return(t)
    /\ UNCHANGED <<q, closed>>

Close ==
    /\ ~closed
    /\ closed' = TRUE
    /\ UNCHANGED <<q, pc, arg>>

Next ==
    \/ \E t \in Thread : \/ Hold(t)
                         \/ Take(t)
                         \/ GiveUp(t)
                         \/ \E v \in Value : Put(t, v)
    \/ Close

(* A pending call that stays able to complete does complete: no wakeup is  *)
(* lost.                                                                   *)
PendingCallsComplete ==
    \A t \in Thread :
        /\ WF_vars(pc[t] = "push" /\ Put(t, arg[t]))
        /\ WF_vars(pc[t] = "pop" /\ (Take(t) \/ GiveUp(t)))

Spec == Init /\ [][Next]_vars /\ PendingCallsComplete
==============================================================================
