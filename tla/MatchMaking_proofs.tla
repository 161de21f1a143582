-------------------------- MODULE MatchMaking_proofs --------------------------
(***************************************************************************)
(* Proof that the server implements MatchMaking, for any number of         *)
(* connections, games and places and any capacities: seen from outside, a  *)
(* lobby request is decided and answered at once and a match ends at once, *)
(* although the threads take several steps for either.                     *)
(***************************************************************************)
EXTENDS GameServer_proofs

USE DEF clientVars, receiverVars, senderVars, managerVars, gameVars, accepterVars

------------------------------------------------------------------------------
(* What the refinement needs beyond the invariant of GameServer_proofs     *)

(* What createGame and joinGame found under the mutex is still so when the *)
(* answer is pushed.                                                       *)
Decided ==
    /\ IsFiniteSet(games)
    /\ \A c \in Client :
          /\ rpc[c] \in {"createPush", "createJoin"} => Cardinality(games) < MaxGames
          /\ rpc[c] = "refusePush" => req[c] \in Code /\ ~Joinable(req[c])

(* A match ends once, with its score, or with the server.                  *)
Ended ==
    \A g \in Code :
        /\ outgoing[g] = "score" => over[g] /\ (gpc[g] = "send" \/ ~running[g])
        /\ ~running[g] => outgoing[g] = "score" \/ Ending

(* Who is late is so for good.                                             *)
Latecomers ==
    \A c \in Client :
        /\ late[c] => gameOf[c] \in Code /\ ~running[gameOf[c]]
        /\ rpc[c] = "joinEnter" /\ conn[c] = "open" => LastOf(c) = "joined"

MInv == IInv /\ Decided /\ Ended /\ Latecomers

LEMMA DecidedStep ==
  ASSUME IInv, Decided, [Next]_vars
  PROVE  Decided'
<1> USE DEF Decided, Joinable
<1>0. /\ rpc \in [Client -> {"none", "lobby", "lock", "createPush", "createJoin", "joinPush",
                            "refusePush", "joinEnter", "play", "push", "dead", "freed"}]
      /\ req \in [Client -> Code \cup {"create", None}]
      /\ players \in [Code -> Nat]
      /\ games \in SUBSET Code
      /\ Decided
      /\ MaxGames \in Nat
  BY CapAssumption DEF IInv, TypeOK
<1>1. ASSUME NEW c \in Client, CreateLock(c)
      PROVE  Decided'
  <2>1. CASE Cardinality(games) >= MaxGames
    BY <1>0, <1>1, <2>1 DEF CreateLock, CreateThrows, Goto
  <2>2. CASE ~(Cardinality(games) >= MaxGames)
    <3>1. Cardinality(games) \in Nat
      BY <1>0, FS_CardinalityType
    <3>2. Cardinality(games) < MaxGames
      BY <1>0, <2>2, <3>1
    <3> QED  BY <1>0, <1>1, <2>2, <3>2 DEF CreateLock, Goto
  <2> QED  BY <2>1, <2>2
<1>2. ASSUME NEW c \in Client, CreatePush(c) \/ JoinPush(c)
      PROVE  Decided'
  BY <1>0, <1>2 DEF CreatePush, JoinPush, Goto
<1>3. ASSUME NEW c \in Client, CreateFinish(c)
      PROVE  Decided'
  <2>1. /\ games' = games \cup {req[c]}
        /\ rpc' = [rpc EXCEPT ![c] = "play"]
    BY <1>3, NothingToClean DEF CreateFinish, Goto
  <2>2. \A d \in Client : rpc[d] \in Holding => d = c
    BY <1>3, OneHolds DEF CreateFinish, Holding
  <2>3. IsFiniteSet(games')
    BY <1>0, <2>1, FS_AddElement
  <2> QED  BY <1>0, <2>1, <2>2, <2>3 DEF Holding
<1>4. ASSUME NEW c \in Client, JoinLock(c)
      PROVE  Decided'
  BY <1>0, <1>4 DEF JoinLock, Goto
<1>5. ASSUME NEW c \in Client, JoinEnter(c)
      PROVE  Decided'
  <2>1. \A d \in Client : rpc[d] \in Holding => d = c
    BY <1>5, OneHolds DEF JoinEnter, Holding
  <2>2. rpc' = [rpc EXCEPT ![c] = "play"] /\ UNCHANGED games
    BY <1>5 DEF JoinEnter, Goto
  <2> QED  BY <1>0, <2>1, <2>2 DEF Holding
<1>6. ASSUME NEW c \in Client,
             \/ Accept(c) \/ ReceiveRequest(c) \/ RefusePush(c) \/ PushCommand(c)
             \/ WaitToPush(c) \/ ReceiverEnds(c)
      PROVE  Decided'
  <2>1. \E l \in {"lobby", "lock", "play", "push", "dead"} : rpc' = [rpc EXCEPT ![c] = l]
    BY <1>6 DEF Accept, ReceiveRequest, RefusePush, PushCommand, WaitToPush, ReceiverEnds, Goto
  <2>2. /\ UNCHANGED <<games, players>>
        /\ \A d \in Client \ {c} : req'[d] = req[d]
    BY <1>0, <1>6 DEF Accept, ReceiveRequest, RefusePush, PushCommand, WaitToPush, ReceiverEnds
  <2> QED  BY <1>0, <2>1, <2>2
<1>7. CASE DeleteReceiver
  BY <1>0, <1>7 DEF DeleteReceiver
<1>8. CASE UNCHANGED <<rpc, req, games, players>>
  BY <1>0, <1>8
<1>9. ASSUME NEW c \in Client, ClientCloses(c) \/ Sender(c) \/ Reap(c) \/ KillStop(c)
      PROVE  UNCHANGED <<rpc, req, games, players>>
  BY <1>9 DEF ClientCloses, Sender, SenderDelivers, SenderFails, SenderStopped, Reap, KillStop
<1>10. ASSUME NEW g \in Code, Game(g) \/ StopGame(g)
       PROVE  UNCHANGED <<rpc, req, games, players>>
  BY <1>10
     DEF Game, GameLoop, ExecuteCommand, GameStep, GameThrows, GameSpins,
         GamePush, GameUnlock, StopGame
<1>11. ASSUME \/ Quit \/ AccepterEnds \/ KillJoin \/ KillDone \/ DeleteGame \/ ServerEnds
              \/ UNCHANGED vars
       PROVE  UNCHANGED <<rpc, req, games, players>>
  BY <1>11 DEF Quit, AccepterEnds, KillJoin, KillDone, DeleteGame, ServerEnds, vars
<1> HIDE DEF Decided, Joinable
<1> QED  BY <1>1, <1>2, <1>3, <1>4, <1>5, <1>6, <1>7, <1>8, <1>9, <1>10, <1>11
         DEF Next, Receiver, ReceiverRuns, Accepter

LEMMA EndingStays ==
  ASSUME [Next]_vars, Ending
  PROVE  Ending'
<1> USE DEF Ending
<1>1. ASSUME NEW c \in Client, ClientCloses(c) \/ Accept(c) \/ Sender(c)
      PROVE  Ending'
  BY <1>1 DEF ClientCloses, Accept, Sender, SenderDelivers, SenderFails, SenderStopped
<1>2. ASSUME NEW c \in Client, Receiver(c)
      PROVE  Ending'
  BY <1>2 DEF Receiver, ReceiverRuns, ReceiveRequest, CreateLock, CreatePush, CreateFinish,
     JoinLock, RefusePush, JoinPush, JoinEnter, PushCommand, WaitToPush, ReceiverEnds
<1>3. ASSUME NEW g \in Code, Game(g)
      PROVE  Ending'
  BY <1>3 DEF Game, GameLoop, ExecuteCommand, GameStep, GameThrows, GameSpins, GamePush, GameUnlock
<1>4. CASE Accepter
  BY <1>4 DEF Accepter, AccepterEnds, Reap, KillStop, KillJoin, DeleteReceiver, KillDone,
     StopGame, DeleteGame, ServerEnds
<1>5. CASE Quit \/ UNCHANGED vars
  BY <1>5 DEF Quit, vars
<1> QED  BY <1>1, <1>2, <1>3, <1>4, <1>5 DEF Next

LEMMA EndedStep ==
  ASSUME IInv, Ended, [Next]_vars
  PROVE  Ended'
<1> USE DEF Ended
<1>0. /\ gpc \in [Code -> {"none", "new", "head", "sleep", "send", "spin", "ended", "deleted"}]
      /\ over \in [Code -> BOOLEAN]
      /\ running \in [Code -> BOOLEAN]
      /\ outgoing \in [Code -> {"state", "score"}]
      /\ Ended
  BY DEF IInv, TypeOK
<1>1. Ending => Ending'
  BY EndingStays
<1>2. ASSUME NEW c \in Client, CreateLock(c)
      PROVE  Ended'
  <2>1. UNCHANGED <<over, running, outgoing>>
    BY <1>2 DEF CreateLock
  <2>2. \A g \in Code : gpc'[g] = gpc[g] \/ g \notin games
    BY <1>0, <1>2 DEF CreateLock, CreateThrows
  <2>3. \A g \in Code \ games : running[g]
    BY DEF IInv, Rooms
  <2>4. \A g \in Code \ games : gpc[g] # "send"
    BY DEF IInv, Rooms
  <2> QED  BY <1>0, <1>1, <2>1, <2>2, <2>3, <2>4
<1>3. ASSUME NEW c \in Client, CreateFinish(c)
      PROVE  Ended'
  <2>1. UNCHANGED <<over, running, outgoing>>
    BY <1>3 DEF CreateFinish
  <2>2. req[c] \in Code \ games
    BY <1>3 DEF CreateFinish, IInv, Rooms
  <2>3. gpc' = [gpc EXCEPT ![req[c]] = "head"]
    BY <1>0, <1>3, NothingToClean DEF CreateFinish
  <2>4. gpc[req[c]] # "send" /\ running[req[c]]
    BY <2>2 DEF IInv, Rooms
  <2> QED  BY <1>0, <1>1, <2>1, <2>2, <2>3, <2>4
<1>4. ASSUME NEW g \in Code, GameLoop(g)
      PROVE  Ended'
  BY <1>0, <1>1, <1>4 DEF GameLoop
<1>5. ASSUME NEW g \in Code, GameStep(g)
      PROVE  Ended'
  BY <1>0, <1>1, <1>5 DEF ExecuteCommand, GameStep
<1>6. ASSUME NEW g \in Code, GamePush(g) \/ GameThrows(g) \/ GameSpins(g)
      PROVE  Ended'
  BY <1>0, <1>1, <1>6 DEF GamePush, ExecuteCommand, GameThrows, GameSpins
<1>7. ASSUME NEW g \in Code, GameUnlock(g)
      PROVE  Ended'
  BY <1>0, <1>1, <1>7 DEF GameUnlock, StillRunning
<1>8. ASSUME NEW g \in Code, StopGame(g)
      PROVE  Ended'
  BY <1>0, <1>8 DEF StopGame, Ending
<1>9. CASE DeleteGame
  <2>1. gpc[target] = "ended" /\ gpc' = [gpc EXCEPT ![target] = "deleted"]
    BY <1>9 DEF DeleteGame
  <2> QED  BY <1>0, <1>1, <1>9, <2>1 DEF DeleteGame
<1>10. CASE UNCHANGED <<gpc, over, running, outgoing>>
  BY <1>0, <1>1, <1>10
<1>11. ASSUME NEW c \in Client,
              \/ ClientCloses(c) \/ Accept(c) \/ Sender(c) \/ Reap(c) \/ KillStop(c)
              \/ ReceiveRequest(c) \/ CreatePush(c) \/ JoinLock(c) \/ RefusePush(c)
              \/ JoinPush(c) \/ JoinEnter(c) \/ PushCommand(c) \/ WaitToPush(c)
              \/ ReceiverEnds(c)
       PROVE  UNCHANGED <<gpc, over, running, outgoing>>
  BY <1>11 DEF ClientCloses, Accept, Sender, SenderDelivers, SenderFails, SenderStopped, Reap,
     KillStop, ReceiveRequest, CreatePush, JoinLock, RefusePush, JoinPush, JoinEnter,
     PushCommand, WaitToPush, ReceiverEnds
<1>12. ASSUME \/ Quit \/ AccepterEnds \/ KillJoin \/ KillDone \/ DeleteReceiver \/ ServerEnds
              \/ UNCHANGED vars
       PROVE  UNCHANGED <<gpc, over, running, outgoing>>
  BY <1>12 DEF Quit, AccepterEnds, KillJoin, KillDone, DeleteReceiver, ServerEnds, vars
<1> HIDE DEF Ended
<1> QED  BY <1>2, <1>3, <1>4, <1>5, <1>6, <1>7, <1>8, <1>9, <1>10, <1>11, <1>12
         DEF Next, Receiver, ReceiverRuns, Game, Accepter

LEMMA PushIsLast ==
  ASSUME NEW c \in Client, NEW f, feedback[c] \in Seq(Feedback), f \in Feedback,
         feedback'[c] = Append(feedback[c], f)
  PROVE  LastOf(c)' = f
<1>1. /\ Len(feedback'[c]) = Len(feedback[c]) + 1
      /\ feedback'[c][Len(feedback[c]) + 1] = f
      /\ feedback'[c] # <<>>
  BY AppendProperties, LenProperties, EmptySeq
<1> QED  BY <1>1 DEF LastOf

(* No step but a push, or the end of the connection, changes what was last *)
(* said to a client.                                                       *)
LEMMA DeliveryKeepsLast ==
  ASSUME IInv, NEW c \in Client, SenderDelivers(c)
  PROVE  \A d \in Client : LastOf(d)' = LastOf(d)
<1>1. /\ feedback \in [Client -> Seq(Feedback)]
      /\ seen \in [Client -> Feedback \cup {"none"}]
  BY DEF IInv, TypeOK
<1>2. /\ conn[c] = "open" /\ feedback[c] # <<>>
      /\ seen' = [seen EXCEPT ![c] = Head(feedback[c])]
      /\ feedback' = [feedback EXCEPT ![c] = Tail(@)]
  BY DEF SenderDelivers
<1>3. InOrder(c)
  BY <1>2 DEF IInv, News, Heard
<1>4. LastOf(c)' = LastOf(c)
  BY <1>1, <1>2, <1>3, DeliveryKeepsOrder
<1>5. \A d \in Client \ {c} : feedback'[d] = feedback[d] /\ seen'[d] = seen[d]
  BY <1>1, <1>2
<1> QED  BY <1>4, <1>5 DEF LastOf

LEMMA LatecomersStep ==
  ASSUME IInv, Latecomers, [Next]_vars
  PROVE  Latecomers'
<1> DEFINE Late(d) == late[d] => gameOf[d] \in Code /\ ~running[gameOf[d]]
           Answer(d) == rpc[d] = "joinEnter" /\ conn[d] = "open" => LastOf(d) = "joined"
<1>0. /\ rpc \in [Client -> {"none", "lobby", "lock", "createPush", "createJoin", "joinPush",
                            "refusePush", "joinEnter", "play", "push", "dead", "freed"}]
      /\ conn \in [Client -> {"new", "open", "closed"}]
      /\ gameOf \in [Client -> Code \cup {None}]
      /\ late \in [Client -> BOOLEAN]
      /\ running \in [Code -> BOOLEAN]
      /\ feedback \in [Client -> Seq(Feedback)]
      /\ seen \in [Client -> Feedback \cup {"none"}]
      /\ \A d \in Client : Late(d) /\ Answer(d)
  BY DEF IInv, TypeOK, Latecomers
<1>1. ASSUME \A d \in Client : Late(d)' /\ Answer(d)'
      PROVE  Latecomers'
  BY <1>1 DEF Latecomers
<1>2. ASSUME UNCHANGED <<late, gameOf, running>>
      PROVE  \A d \in Client : Late(d)'
  BY <1>0, <1>2
<1>3. ASSUME NEW c \in Client, NEW l \in {"lobby", "lock", "createPush", "joinPush",
                "refusePush", "createJoin", "play", "push", "dead", "freed"},
             rpc' = [rpc EXCEPT ![c] = l], \A d \in Client \ {c} : conn'[d] = conn[d],
             \A d \in Client \ {c} : feedback'[d] = feedback[d] /\ seen'[d] = seen[d]
      PROVE  \A d \in Client : Answer(d)'
  <2>1. \A d \in Client \ {c} : LastOf(d)' = LastOf(d)
    BY <1>3 DEF LastOf
  <2> QED  BY <1>0, <1>3, <2>1
<1>4. ASSUME UNCHANGED rpc, \A d \in Client : conn'[d] = "open" => conn[d] = "open",
             \A d \in Client : conn'[d] = "open" => LastOf(d)' = LastOf(d)
      PROVE  \A d \in Client : Answer(d)'
  BY <1>0, <1>4
<1>5. ASSUME NEW c \in Client, \E g \in Code : JoinBody(c, g), UNCHANGED running,
             rpc' = [rpc EXCEPT ![c] = "play"], UNCHANGED <<conn, seen, feedback>>
      PROVE  Latecomers'
  <2>1. PICK g \in Code : JoinBody(c, g)
    BY <1>5
  <2>2. late' = [late EXCEPT ![c] = ~running[g]] /\ gameOf' = [gameOf EXCEPT ![c] = g]
    BY <2>1 DEF JoinBody
  <2>3. \A d \in Client : Late(d)'
    BY <1>0, <1>5, <2>2
  <2>4. \A d \in Client : Answer(d)'
    BY <1>3, <1>5
  <2> QED  BY <1>1, <2>3, <2>4
<1>6. ASSUME NEW c \in Client, CreateFinish(c) \/ JoinEnter(c)
      PROVE  Latecomers'
  <2>1. req[c] \in Code
    BY <1>6 DEF IInv, TypeOK, Rooms, CreateFinish, JoinEnter
  <2>2. /\ JoinBody(c, req[c])
        /\ rpc' = [rpc EXCEPT ![c] = "play"]
        /\ UNCHANGED <<running, conn, seen, feedback>>
    BY <1>6 DEF CreateFinish, JoinEnter, Goto
  <2> QED  BY <1>5, <2>1, <2>2
<1>7. ASSUME NEW c \in Client, JoinPush(c)
      PROVE  Latecomers'
  <2>1. /\ rpc' = [rpc EXCEPT ![c] = "joinEnter"]
        /\ feedback' = [feedback EXCEPT ![c] = Append(@, "joined")]
        /\ UNCHANGED <<late, gameOf, running, conn, seen>>
    BY <1>7 DEF JoinPush, PushFeedback, Goto
  <2>2. LastOf(c)' = "joined"
    BY <1>0, <2>1, PushIsLast DEF Feedback, Answers
  <2>3. \A d \in Client \ {c} : LastOf(d)' = LastOf(d)
    BY <1>0, <2>1 DEF LastOf
  <2>4. \A d \in Client : Answer(d)'
    BY <1>0, <2>1, <2>2, <2>3
  <2> QED  BY <1>1, <1>2, <2>1, <2>4
<1>8. ASSUME NEW c \in Client, CreatePush(c) \/ RefusePush(c)
      PROVE  Latecomers'
  <2>1. /\ \E l \in {"createJoin", "lobby"} : rpc' = [rpc EXCEPT ![c] = l]
        /\ \A d \in Client \ {c} : feedback'[d] = feedback[d]
        /\ UNCHANGED <<late, gameOf, running, conn, seen>>
    BY <1>0, <1>8 DEF CreatePush, RefusePush, PushFeedback, Goto
  <2> QED  BY <1>1, <1>2, <1>3, <2>1
<1>9. ASSUME NEW c \in Client,
             \/ Accept(c) \/ ReceiveRequest(c) \/ CreateLock(c) \/ PushCommand(c)
             \/ WaitToPush(c) \/ ReceiverEnds(c)
      PROVE  Latecomers'
  <2>1. /\ \E l \in {"lobby", "lock", "createPush", "play", "push", "dead"} :
              rpc' = [rpc EXCEPT ![c] = l]
        /\ \A d \in Client \ {c} : conn'[d] = conn[d]
        /\ UNCHANGED <<late, gameOf, running, feedback, seen>>
    BY <1>0, <1>9 DEF Accept, ReceiveRequest, CreateLock, CreateThrows, PushCommand,
       WaitToPush, ReceiverEnds, Goto
  <2> QED  BY <1>1, <1>2, <1>3, <2>1
<1>10. ASSUME NEW c \in Client, JoinLock(c)
       PROVE  Latecomers'
  <2>1. /\ \E l \in {"joinPush", "refusePush"} : rpc' = [rpc EXCEPT ![c] = l]
        /\ UNCHANGED <<late, gameOf, running, feedback, seen, conn>>
    BY <1>10 DEF JoinLock, Goto
  <2> QED  BY <1>1, <1>2, <1>3, <2>1
<1>11. CASE DeleteReceiver
  <2>1. target \in Client
    BY <1>11 DEF IInv, TypeOK, Presence, DeleteReceiver
  <2>2. /\ rpc' = [rpc EXCEPT ![target] = "freed"]
        /\ \A d \in Client \ {target} : conn'[d] = conn[d] /\ seen'[d] = seen[d]
        /\ UNCHANGED <<late, gameOf, running, feedback>>
    BY <1>0, <1>11 DEF DeleteReceiver, HangUp
  <2> QED  BY <1>1, <1>2, <1>3, <2>1, <2>2
<1>12. ASSUME NEW c \in Client, ClientCloses(c) \/ KillStop(c)
       PROVE  Latecomers'
  <2>1. /\ \A d \in Client : conn'[d] = "open" => conn[d] = "open" /\ seen'[d] = seen[d]
        /\ UNCHANGED <<late, gameOf, running, feedback, rpc>>
    BY <1>0, <1>12 DEF ClientCloses, KillStop, HangUp
  <2>2. \A d \in Client : conn'[d] = "open" => LastOf(d)' = LastOf(d)
    BY <2>1 DEF LastOf
  <2> QED  BY <1>1, <1>2, <1>4, <2>1, <2>2
<1>13. ASSUME NEW c \in Client, Sender(c)
       PROVE  Latecomers'
  <2>0. UNCHANGED <<late, gameOf, running, rpc, conn>>
    BY <1>13 DEF Sender, SenderDelivers, SenderFails, SenderStopped
  <2>1. CASE SenderDelivers(c)
    BY <1>1, <1>2, <1>4, <2>0, <2>1, DeliveryKeepsLast
  <2>2. CASE SenderFails(c) \/ SenderStopped(c)
    <3>1. \A d \in Client : conn'[d] = "open" => feedback'[d] = feedback[d] /\ seen'[d] = seen[d]
      BY <1>0, <2>2 DEF SenderFails, SenderStopped
    <3>2. \A d \in Client : conn'[d] = "open" => LastOf(d)' = LastOf(d)
      BY <3>1 DEF LastOf
    <3> QED  BY <1>1, <1>2, <1>4, <2>0, <3>2
  <2> QED  BY <1>13, <2>1, <2>2 DEF Sender
<1>14. ASSUME NEW g \in Code, GamePush(g)
       PROVE  Latecomers'
  <2> DEFINE c == queues[g][next[g]]
  <2>1. c \in Client /\ rpc[c] \notin NoGameYet
    BY <1>14, NextIsUnserved
  <2>2. /\ \A d \in Client \ {c} : feedback'[d] = feedback[d]
        /\ UNCHANGED <<late, gameOf, running, rpc, conn, seen>>
    BY <1>0, <1>14 DEF GamePush, Drop
  <2>3. \A d \in Client \ {c} : LastOf(d)' = LastOf(d)
    BY <2>2 DEF LastOf
  <2>4. rpc[c] # "joinEnter"
    BY <2>1 DEF NoGameYet, Answered
  <2>5. \A d \in Client : Answer(d)'
    BY <1>0, <2>2, <2>3, <2>4
  <2> QED  BY <1>1, <1>2, <2>2, <2>5
<1>15. ASSUME \A g \in Code : running'[g] => running[g],
              UNCHANGED <<late, gameOf, rpc, conn, seen, feedback>>
       PROVE  Latecomers'
  <2>1. \A d \in Client : Late(d)'
    BY <1>0, <1>15
  <2>2. \A d \in Client : Answer(d)'
    BY <1>0, <1>15 DEF LastOf
  <2> QED  BY <1>1, <2>1, <2>2
<1>16. ASSUME NEW g \in Code, \/ GameLoop(g) \/ GameStep(g) \/ GameThrows(g) \/ GameSpins(g)
              \/ GameUnlock(g) \/ StopGame(g)
       PROVE  Latecomers'
  BY <1>0, <1>15, <1>16
     DEF GameLoop, ExecuteCommand, GameStep, GameThrows, GameSpins,
         GameUnlock, StillRunning, StopGame
<1>17. ASSUME NEW c \in Client, Reap(c)
       PROVE  Latecomers'
  BY <1>15, <1>17 DEF Reap
<1>18. CASE \/ Quit \/ AccepterEnds \/ KillJoin \/ KillDone \/ DeleteGame \/ ServerEnds
            \/ UNCHANGED vars
  BY <1>15, <1>18 DEF Quit, AccepterEnds, KillJoin, KillDone, DeleteGame, ServerEnds, vars
<1> QED  BY <1>6, <1>7, <1>8, <1>9, <1>10, <1>11, <1>12, <1>13, <1>14, <1>16, <1>17, <1>18
         DEF Next, Receiver, ReceiverRuns, Game, Accepter

LEMMA MoreInvariant == Spec => []MInv
<1>1. Init => MInv
  <2> SUFFICES ASSUME Init
               PROVE  MInv
    OBVIOUS
  <2>1. Decided
    BY FS_EmptySet DEF Init, Decided
  <2>2. Ended /\ Latecomers
    BY DEF Init, Ended, Latecomers
  <2> QED  BY <2>1, <2>2, InitIInv DEF MInv
<1>2. MInv /\ IInv' /\ [Next]_vars => MInv'
  BY DecidedStep, EndedStep, LatecomersStep DEF MInv
<1> QED  BY <1>1, <1>2, Invariant, PTL DEF Spec

------------------------------------------------------------------------------
(* The view of the server that MatchMaking has *)

Same(c) ==
    /\ Link(c)' = Link(c) /\ Seat(c)' = Seat(c) /\ Said(c)' = Said(c)
    /\ Missed(c)' <=> Missed(c)

SameEnds == \A g \in Code : outgoing'[g] = "score" <=> outgoing[g] = "score"

LEMMA Stutter ==
  ASSUME \A c \in Client : Same(c), SameEnds
  PROVE  UNCHANGED Abstract!vars
<1>1. [c \in Client |-> Link(c)]' = [c \in Client |-> Link(c)]
  BY DEF Same
<1>2. [c \in Client |-> Seat(c)]' = [c \in Client |-> Seat(c)]
  BY DEF Same
<1>3. [c \in Client |-> Said(c)]' = [c \in Client |-> Said(c)]
  BY DEF Same
<1>4. [g \in Code |-> outgoing[g] = "score"]' = [g \in Code |-> outgoing[g] = "score"]
  BY DEF SameEnds
<1>5. {c \in Client : Missed(c)}' = {c \in Client : Missed(c)}
  BY DEF Same
<1> QED  BY <1>1, <1>2, <1>3, <1>4, <1>5 DEF Abstract!vars

LEMMA Unseen ==
  ASSUME UNCHANGED <<rpc, conn, req, gameOf, late, feedback, seen, outgoing>>
  PROVE  UNCHANGED Abstract!vars
<1>1. \A c \in Client : Same(c)
  BY DEF Same, Link, Seat, Said, LastOf, Missed
<1> QED  BY <1>1, Stutter DEF SameEnds

(* One client moves.                                                       *)
LEMMA OneMoves ==
  ASSUME NEW c \in Client, \A d \in Client \ {c} : Same(d), SameEnds
  PROVE  /\ [d \in Client |-> Link(d)]' = [[d \in Client |-> Link(d)] EXCEPT ![c] = Link(c)']
         /\ [d \in Client |-> Seat(d)]' = [[d \in Client |-> Seat(d)] EXCEPT ![c] = Seat(c)']
         /\ [d \in Client |-> Said(d)]' = [[d \in Client |-> Said(d)] EXCEPT ![c] = Said(c)']
         /\ [g \in Code |-> outgoing[g] = "score"]' = [g \in Code |-> outgoing[g] = "score"]
         /\ {d \in Client : Missed(d)}' = IF Missed(c)' THEN {d \in Client : Missed(d)} \cup {c}
                                           ELSE {d \in Client : Missed(d)} \ {c}
<1>1. [d \in Client |-> Link(d)]' = [[d \in Client |-> Link(d)] EXCEPT ![c] = Link(c)']
  BY DEF Same
<1>2. [d \in Client |-> Seat(d)]' = [[d \in Client |-> Seat(d)] EXCEPT ![c] = Seat(c)']
  BY DEF Same
<1>3. [d \in Client |-> Said(d)]' = [[d \in Client |-> Said(d)] EXCEPT ![c] = Said(c)']
  BY DEF Same
<1>4. [g \in Code |-> outgoing[g] = "score"]' = [g \in Code |-> outgoing[g] = "score"]
  BY DEF SameEnds
<1>5. {d \in Client : Missed(d)}' = IF Missed(c)' THEN {d \in Client : Missed(d)} \cup {c}
                                    ELSE {d \in Client : Missed(d)} \ {c}
  BY DEF Same
<1> QED  BY <1>1, <1>2, <1>3, <1>4, <1>5

(* The cardinality of MatchMaking is that of FiniteSets.                   *)
LEMMA CardinalityIs == \A S : Abstract!Cardinality(S) = Cardinality(S)
BY DEF Abstract!Cardinality, Cardinality

(* While nobody is between the answer and the place, the places are those  *)
(* of the members, and the games are those of the manager.                 *)
LEMMA PlacesAre ==
  ASSUME MInv, \A c \in Client : rpc[c] \notin Answered
  PROVE  /\ Abstract!Open = games
         /\ \A g \in Code : Cardinality(Abstract!Places(g)) = players[g]
<1>1. \A c \in Client : Seat(c) = gameOf[c]
  BY DEF Seat, Answered
<1>2. \A g : Abstract!Places(g) = Members(g)
  BY <1>1 DEF Abstract!Places, Members
<1>3. \A g \in Code : /\ IsFiniteSet(Members(g)) /\ Cardinality(Members(g)) = players[g]
                      /\ g \in games <=> players[g] # 0
  BY DEF MInv, IInv, Seats, PlayersNumbered, Rooms
<1>4. \A g \in Code : Members(g) = {} <=> players[g] = 0
  BY <1>3, FS_EmptySet
<1>5. games \subseteq Code
  BY DEF MInv, IInv, TypeOK
<1> QED  BY <1>2, <1>3, <1>4, <1>5 DEF Abstract!Open

LEMMA NobodyElseAnswered ==
  ASSUME MInv, NEW c \in Client, rpc[c] \in {"createPush", "joinPush", "refusePush"}
  PROVE  \A d \in Client : rpc[d] \notin Answered
<1>1. \A d \in Client : rpc[d] \in Holding => d = c
  BY OneHolds DEF MInv, Holding
<1> QED  BY <1>1 DEF Holding, Answered

(* A Receiver that is in the lobby, with the request it is deciding.       *)
LEMMA InTheLobby ==
  ASSUME MInv, NEW c \in Client, rpc[c] \in Asking
  PROVE  /\ Link(c) = IF conn[c] = "open" THEN "up" ELSE "cut"
         /\ Seat(c) = None /\ gameOf[c] = None
         /\ Said(c) \in {"none", "notjoined"}
         /\ ~late[c] /\ ~Missed(c)
<1>1. Link(c) = IF conn[c] = "open" THEN "up" ELSE "cut"
  BY DEF Link, Asking
<1>2. gameOf[c] = None /\ Seat(c) = None
  BY DEF MInv, IInv, Seats, NoGameYet, Seat, Asking
<1>3. Said(c) \in {"none", "notjoined"}
  BY <1>1 DEF MInv, IInv, News, Heard, Said
<1>4. ~late[c]
  BY <1>2, NoneAssumption DEF MInv, Latecomers
<1>5. ~Missed(c)
  BY <1>4 DEF Missed, Asking
<1> QED  BY <1>1, <1>2, <1>3, <1>4, <1>5

(* The Receiver pushes an answer.                                          *)
LEMMA AnswerSeen ==
  ASSUME MInv, NEW c \in Client, NEW f \in Answers, NEW l \in {"lobby", "createJoin", "joinEnter"},
         rpc[c] \in {"createPush", "joinPush", "refusePush"}, PushFeedback(c, f), Goto(c, l),
         UNCHANGED <<conn, req, gameOf, late, seen, outgoing>>
  PROVE  /\ \A d \in Client \ {c} : Same(d)
         /\ SameEnds
         /\ Link(c)' = Link(c)
         /\ Said(c)' = IF Link(c) = "up" THEN f ELSE Said(c)
         /\ Seat(c)' = IF l = "lobby" THEN None ELSE req[c]
         /\ Missed(c)' <=> (l = "joinEnter" /\ outgoing[req[c]] = "score")
<1>0. /\ rpc \in [Client -> {"none", "lobby", "lock", "createPush", "createJoin", "joinPush",
                            "refusePush", "joinEnter", "play", "push", "dead", "freed"}]
      /\ feedback \in [Client -> Seq(Feedback)]
  BY DEF MInv, IInv, TypeOK
<1>1. rpc' = [rpc EXCEPT ![c] = l] /\ feedback' = [feedback EXCEPT ![c] = Append(@, f)]
  BY DEF PushFeedback, Goto
<1>2. \A d \in Client \ {c} : Same(d)
  BY <1>0, <1>1 DEF Same, Link, Seat, Said, LastOf, Missed
<1>3. SameEnds
  BY DEF SameEnds
<1>4. /\ Link(c) = IF conn[c] = "open" THEN "up" ELSE "cut"
      /\ Link(c)' = Link(c)
  BY <1>0, <1>1 DEF Link
<1>5. LastOf(c)' = f
  BY <1>0, <1>1, PushIsLast DEF Feedback
<1>6. Said(c)' = IF Link(c) = "up" THEN f ELSE Said(c)
  BY <1>4, <1>5 DEF Said
<1>7. ~late[c] /\ gameOf[c] = None
  BY InTheLobby DEF Asking
<1>8. /\ Seat(c)' = IF l = "lobby" THEN None ELSE req[c]
      /\ Missed(c)' <=> (l = "joinEnter" /\ outgoing[req[c]] = "score")
  BY <1>0, <1>1, <1>7 DEF Seat, Missed
<1> QED  BY <1>2, <1>3, <1>4, <1>6, <1>8

LEMMA CreateSeen ==
  ASSUME MInv, NEW c \in Client, CreatePush(c)
  PROVE  Abstract!Create(c, req[c])
<1>0. rpc[c] = "createPush" /\ req[c] \in Code \ games
  BY DEF CreatePush, MInv, IInv, Rooms
<1>1. /\ PushFeedback(c, "created") /\ Goto(c, "createJoin")
      /\ UNCHANGED <<conn, req, gameOf, late, seen, outgoing>>
  BY DEF CreatePush
<1>2. /\ \A d \in Client \ {c} : Same(d)
      /\ SameEnds
      /\ Link(c)' = Link(c)
      /\ Said(c)' = IF Link(c) = "up" THEN "created" ELSE Said(c)
      /\ Seat(c)' = req[c]
      /\ ~Missed(c)'
  BY <1>0, <1>1, AnswerSeen DEF Answers
<1>3. /\ Link(c) \in {"up", "cut"} /\ Seat(c) = None
      /\ Said(c) \in {"none", "notjoined"} /\ ~Missed(c)
  BY <1>0, InTheLobby DEF Asking
<1>4. Abstract!Open = games
  BY <1>0, PlacesAre, NobodyElseAnswered
<1>5. Cardinality(games) < MaxGames
  BY <1>0 DEF MInv, Decided
<1>6. /\ [d \in Client |-> Link(d)]' = [d \in Client |-> Link(d)]
      /\ [d \in Client |-> Seat(d)]' = [[d \in Client |-> Seat(d)] EXCEPT ![c] = req[c]]
      /\ [d \in Client |-> Said(d)]' = [[d \in Client |-> Said(d)] EXCEPT ![c] = Said(c)']
      /\ [g \in Code |-> outgoing[g] = "score"]' = [g \in Code |-> outgoing[g] = "score"]
      /\ {d \in Client : Missed(d)}' = {d \in Client : Missed(d)}
  BY <1>2, <1>3, OneMoves
<1>7. Abstract!Unanswered(c)
  BY <1>3 DEF Abstract!Unanswered, Abstract!Alive
<1>8. Abstract!Say(c, "created")
  BY <1>2, <1>6 DEF Abstract!Say
<1> QED  BY <1>0, <1>4, <1>5, <1>6, <1>7, <1>8, CardinalityIs DEF Abstract!Create

LEMMA JoinSeen ==
  ASSUME MInv, NEW c \in Client, JoinPush(c)
  PROVE  Abstract!Join(c, req[c])
<1> DEFINE g == req[c]
<1>0. rpc[c] = "joinPush" /\ g \in games /\ g \in Code /\ players[g] < MaxPlayers
  BY DEF JoinPush, MInv, IInv, TypeOK, Rooms
<1>1. /\ PushFeedback(c, "joined") /\ Goto(c, "joinEnter")
      /\ UNCHANGED <<conn, req, gameOf, late, seen, outgoing>>
  BY DEF JoinPush
<1>2. /\ \A d \in Client \ {c} : Same(d)
      /\ SameEnds
      /\ Link(c)' = Link(c)
      /\ Said(c)' = IF Link(c) = "up" THEN "joined" ELSE Said(c)
      /\ Seat(c)' = g
      /\ Missed(c)' <=> outgoing[g] = "score"
  BY <1>0, <1>1, AnswerSeen DEF Answers
<1>3. /\ Link(c) \in {"up", "cut"} /\ Seat(c) = None
      /\ Said(c) \in {"none", "notjoined"} /\ ~Missed(c)
  BY <1>0, InTheLobby DEF Asking
<1>4. Abstract!Open = games /\ Cardinality(Abstract!Places(g)) = players[g]
  BY <1>0, PlacesAre, NobodyElseAnswered
<1>5. /\ [d \in Client |-> Link(d)]' = [d \in Client |-> Link(d)]
      /\ [d \in Client |-> Seat(d)]' = [[d \in Client |-> Seat(d)] EXCEPT ![c] = g]
      /\ [d \in Client |-> Said(d)]' = [[d \in Client |-> Said(d)] EXCEPT ![c] = Said(c)']
      /\ [h \in Code |-> outgoing[h] = "score"]' = [h \in Code |-> outgoing[h] = "score"]
      /\ {d \in Client : Missed(d)}' = IF outgoing[g] = "score"
                                        THEN {d \in Client : Missed(d)} \cup {c}
                                        ELSE {d \in Client : Missed(d)}
  BY <1>2, <1>3, OneMoves
<1>6. Abstract!Unanswered(c)
  BY <1>3 DEF Abstract!Unanswered, Abstract!Alive
<1>7. Abstract!Say(c, "joined")
  BY <1>2, <1>5 DEF Abstract!Say
<1>8. [h \in Code |-> outgoing[h] = "score"][g] = (outgoing[g] = "score")
  BY <1>0
<1> QED  BY <1>0, <1>4, <1>5, <1>6, <1>7, <1>8, CardinalityIs DEF Abstract!Join

LEMMA RefuseSeen ==
  ASSUME MInv, NEW c \in Client, RefusePush(c)
  PROVE  Abstract!Refuse(c)
<1> DEFINE g == req[c]
<1>0. rpc[c] = "refusePush" /\ g \in Code /\ (g \notin games \/ ~(players[g] < MaxPlayers))
  BY DEF RefusePush, MInv, Decided, Joinable
<1>1. /\ PushFeedback(c, "notjoined") /\ Goto(c, "lobby")
      /\ UNCHANGED <<conn, req, gameOf, late, seen, outgoing>>
  BY DEF RefusePush
<1>2. /\ \A d \in Client \ {c} : Same(d)
      /\ SameEnds
      /\ Link(c)' = Link(c)
      /\ Said(c)' = IF Link(c) = "up" THEN "notjoined" ELSE Said(c)
      /\ Seat(c)' = None
      /\ ~Missed(c)'
  BY <1>0, <1>1, AnswerSeen DEF Answers
<1>3. /\ Link(c) \in {"up", "cut"} /\ Seat(c) = None
      /\ Said(c) \in {"none", "notjoined"} /\ ~Missed(c)
  BY <1>0, InTheLobby DEF Asking
<1>4. Abstract!Open = games /\ Cardinality(Abstract!Places(g)) = players[g]
  BY <1>0, PlacesAre, NobodyElseAnswered
<1>5. /\ [d \in Client |-> Link(d)]' = [d \in Client |-> Link(d)]
      /\ [d \in Client |-> Seat(d)]' = [d \in Client |-> Seat(d)]
      /\ [d \in Client |-> Said(d)]' = [[d \in Client |-> Said(d)] EXCEPT ![c] = Said(c)']
      /\ [h \in Code |-> outgoing[h] = "score"]' = [h \in Code |-> outgoing[h] = "score"]
      /\ {d \in Client : Missed(d)}' = {d \in Client : Missed(d)}
  BY <1>2, <1>3, OneMoves, ZenonT(40)
<1>6. Abstract!Unanswered(c)
  BY <1>3 DEF Abstract!Unanswered, Abstract!Alive
<1>7. Abstract!Say(c, "notjoined")
  BY <1>2, <1>5 DEF Abstract!Say
<1>8. players[g] \in Nat /\ MaxPlayers \in Nat
  BY <1>0, CapAssumption DEF MInv, IInv, TypeOK
<1>9. g \in Abstract!Open => Abstract!Cardinality(Abstract!Places(g)) >= MaxPlayers
  BY <1>0, <1>4, <1>8, CardinalityIs
<1> QED  BY <1>0, <1>5, <1>6, <1>7, <1>9 DEF Abstract!Refuse

LEMMA AcceptSeen ==
  ASSUME MInv, NEW c \in Client, Accept(c)
  PROVE  Abstract!Connect(c)
<1>0. /\ rpc \in [Client -> {"none", "lobby", "lock", "createPush", "createJoin", "joinPush",
                            "refusePush", "joinEnter", "play", "push", "dead", "freed"}]
      /\ conn \in [Client -> {"new", "open", "closed"}]
  BY DEF MInv, IInv, TypeOK
<1>1. /\ conn[c] = "new" /\ conn' = [conn EXCEPT ![c] = "open"]
      /\ rpc' = [rpc EXCEPT ![c] = "lobby"]
      /\ UNCHANGED <<req, gameOf, late, feedback, seen, outgoing>>
  BY DEF Accept, Goto
<1>2. rpc[c] = "none" /\ seen[c] = "none" /\ feedback[c] = <<>>
  BY <1>1 DEF MInv, IInv, Presence, News, Heard, Lobby
<1>3. \A d \in Client \ {c} : Same(d)
  BY <1>0, <1>1 DEF Same, Link, Seat, Said, LastOf, Missed
<1>4. SameEnds
  BY <1>1 DEF SameEnds
<1>5. Link(c) = "new" /\ Link(c)' = "up" /\ Seat(c)' = Seat(c) /\ (Missed(c)' <=> Missed(c))
  BY <1>0, <1>1, <1>2 DEF Link, Seat, Missed
<1>6. Said(c)' = Said(c)
  BY <1>1, <1>2, <1>5 DEF Said, LastOf
<1>7. /\ [d \in Client |-> Link(d)]' = [[d \in Client |-> Link(d)] EXCEPT ![c] = "up"]
      /\ [d \in Client |-> Seat(d)]' = [d \in Client |-> Seat(d)]
      /\ [d \in Client |-> Said(d)]' = [d \in Client |-> Said(d)]
      /\ [h \in Code |-> outgoing[h] = "score"]' = [h \in Code |-> outgoing[h] = "score"]
      /\ {d \in Client : Missed(d)}' = {d \in Client : Missed(d)}
  BY <1>3, <1>4, <1>5, <1>6, OneMoves
<1> QED  BY <1>5, <1>7 DEF Abstract!Connect

(* A connection is closed, by either end.                                  *)
LEMMA HangUpSeen ==
  ASSUME MInv, NEW c \in Client, conn[c] # "new", HangUp(c),
         UNCHANGED <<rpc, req, gameOf, late, feedback, outgoing>>
  PROVE  Abstract!Cut(c) \/ UNCHANGED Abstract!vars
<1>0. /\ rpc \in [Client -> {"none", "lobby", "lock", "createPush", "createJoin", "joinPush",
                            "refusePush", "joinEnter", "play", "push", "dead", "freed"}]
      /\ conn \in [Client -> {"new", "open", "closed"}]
      /\ seen \in [Client -> Feedback \cup {"none"}]
      /\ rpc[c] # "none"
  BY DEF MInv, IInv, TypeOK, Presence
<1>1. conn' = [conn EXCEPT ![c] = "closed"] /\ seen' = [seen EXCEPT ![c] = "none"]
  BY DEF HangUp
<1>2. \A d \in Client \ {c} : Same(d)
  BY <1>0, <1>1 DEF Same, Link, Seat, Said, LastOf, Missed
<1>3. SameEnds
  BY DEF SameEnds
<1>4. Seat(c)' = Seat(c) /\ (Missed(c)' <=> Missed(c))
  BY DEF Seat, Missed
<1>5. /\ Link(c)' = IF Link(c) = "up" THEN "cut" ELSE Link(c)
      /\ Said(c)' = "none"
      /\ Link(c) # "up" => Said(c) = "none"
  BY <1>0, <1>1 DEF Link, Said
<1>6. CASE Link(c) = "up"
  <2>1. /\ [d \in Client |-> Link(d)]' = [[d \in Client |-> Link(d)] EXCEPT ![c] = "cut"]
        /\ [d \in Client |-> Seat(d)]' = [d \in Client |-> Seat(d)]
        /\ [d \in Client |-> Said(d)]' = [[d \in Client |-> Said(d)] EXCEPT ![c] = "none"]
        /\ [h \in Code |-> outgoing[h] = "score"]' = [h \in Code |-> outgoing[h] = "score"]
        /\ {d \in Client : Missed(d)}' = {d \in Client : Missed(d)}
    BY <1>2, <1>3, <1>4, <1>5, <1>6, OneMoves
  <2> QED  BY <1>6, <2>1 DEF Abstract!Cut
<1>7. CASE Link(c) # "up"
  <2>1. \A d \in Client : Same(d)
    BY <1>2, <1>4, <1>5, <1>7 DEF Same
  <2> QED  BY <1>3, <2>1, Stutter
<1> QED  BY <1>6, <1>7

(* A Receiver goes on, and nobody sees it.                                 *)
LEMMA ReceiverUnseen ==
  ASSUME MInv, NEW c \in Client,
         NEW l \in {"lobby", "lock", "createPush", "joinPush", "refusePush", "play", "push"},
         rpc[c] \in {"lobby", "lock", "createPush", "joinPush", "refusePush", "play", "push"},
         Goto(c, l), \A d \in Client \ {c} : req'[d] = req[d],
         UNCHANGED <<conn, gameOf, late, feedback, seen, outgoing>>
  PROVE  UNCHANGED Abstract!vars
<1>0. /\ rpc \in [Client -> {"none", "lobby", "lock", "createPush", "createJoin", "joinPush",
                            "refusePush", "joinEnter", "play", "push", "dead", "freed"}]
      /\ rpc' = [rpc EXCEPT ![c] = l]
  BY DEF MInv, IInv, TypeOK, Goto
<1>1. \A d \in Client \ {c} : Same(d)
  BY <1>0 DEF Same, Link, Seat, Said, LastOf, Missed
<1>2. Link(c)' = Link(c) /\ Seat(c)' = Seat(c) /\ (Missed(c)' <=> Missed(c))
  BY <1>0 DEF Link, Seat, Missed
<1>3. Said(c)' = Said(c)
  BY <1>2 DEF Said, LastOf
<1>4. \A d \in Client : Same(d)
  BY <1>1, <1>2, <1>3 DEF Same
<1> QED  BY <1>4, Stutter DEF SameEnds

(* A Receiver ends: in the lobby because there is no place for its game    *)
(* (throws), or because its connection is closed.                          *)
LEMMA DeathSeen ==
  ASSUME MInv, NEW c \in Client, rpc[c] \in {"lobby", "lock", "play"}, Goto(c, "dead"),
         UNCHANGED <<conn, req, gameOf, late, feedback, seen, outgoing>>
  PROVE  /\ [d \in Client |-> Link(d)]' = [[d \in Client |-> Link(d)] EXCEPT ![c] = "gone"]
         /\ [d \in Client |-> Seat(d)]' = [d \in Client |-> Seat(d)]
         /\ [d \in Client |-> Said(d)]' = [[d \in Client |-> Said(d)] EXCEPT ![c] = "none"]
         /\ [h \in Code |-> outgoing[h] = "score"]' = [h \in Code |-> outgoing[h] = "score"]
         /\ {d \in Client : Missed(d)}' = {d \in Client : Missed(d)}
         /\ Link(c) = IF conn[c] = "open" THEN "up" ELSE "cut"
<1>0. /\ rpc \in [Client -> {"none", "lobby", "lock", "createPush", "createJoin", "joinPush",
                            "refusePush", "joinEnter", "play", "push", "dead", "freed"}]
      /\ rpc' = [rpc EXCEPT ![c] = "dead"]
  BY DEF MInv, IInv, TypeOK, Goto
<1>1. \A d \in Client \ {c} : Same(d)
  BY <1>0 DEF Same, Link, Seat, Said, LastOf, Missed
<1>2. SameEnds
  BY DEF SameEnds
<1>3. /\ Link(c) = IF conn[c] = "open" THEN "up" ELSE "cut"
      /\ Link(c)' = "gone"
      /\ Seat(c)' = Seat(c)
      /\ Missed(c)' <=> Missed(c)
  BY <1>0 DEF Link, Seat, Missed
<1>4. Said(c)' = "none"
  BY <1>3 DEF Said
<1>5. {d \in Client : Missed(d)}' = {d \in Client : Missed(d)}
  BY <1>1, <1>3 DEF Same
<1> QED  BY <1>1, <1>2, <1>3, <1>4, <1>5, OneMoves

LEMMA ThrowSeen ==
  ASSUME MInv, NEW c \in Client, CreateLock(c)
  PROVE  Abstract!TurnAway(c) \/ UNCHANGED Abstract!vars
<1>0. /\ rpc[c] = "lock" /\ mgr = None
      /\ UNCHANGED <<conn, gameOf, late, feedback, seen, outgoing>>
  BY DEF CreateLock, ManagerUnlocked
<1>1. CASE Cardinality(games) >= MaxGames
  <2>1. Goto(c, "dead") /\ UNCHANGED req
    BY <1>1 DEF CreateLock, CreateThrows
  <2>2. \A d \in Client : rpc[d] \notin Answered
    BY <1>0, NoneAssumption DEF MInv, IInv, MutexHeld, Holding, Answered
  <2>3. Abstract!Open = games
    BY <2>2, PlacesAre
  <2>4. Seat(c) = None /\ Link(c) \in {"up", "cut"}
    BY <1>0, InTheLobby DEF Asking
  <2> QED  BY <1>0, <1>1, <2>1, <2>3, <2>4, DeathSeen, CardinalityIs
           DEF Abstract!TurnAway, Abstract!Alive
<1>2. CASE ~(Cardinality(games) >= MaxGames)
  <2>1. Goto(c, "createPush") /\ \A d \in Client \ {c} : req'[d] = req[d]
    BY <1>2 DEF CreateLock, MInv, IInv, TypeOK
  <2> QED  BY <1>0, <2>1, ReceiverUnseen
<1> QED  BY <1>1, <1>2

LEMMA EndSeen ==
  ASSUME MInv, NEW c \in Client, ReceiverEnds(c)
  PROVE  Abstract!Forget(c)
<1>1. /\ rpc[c] \in {"lobby", "play"} /\ conn[c] = "closed" /\ Goto(c, "dead")
      /\ UNCHANGED <<conn, req, gameOf, late, feedback, seen, outgoing>>
  BY DEF ReceiverEnds
<1>2. Link(c) = "cut" /\ Said(c) = "none"
  BY <1>1, DeathSeen DEF Said
<1>3. [[d \in Client |-> Said(d)] EXCEPT ![c] = "none"] = [d \in Client |-> Said(d)]
  BY <1>2
<1> QED  BY <1>1, <1>2, <1>3, DeathSeen DEF Abstract!Forget

(* Game::join() completes what the answer promised.                        *)
LEMMA EnteringUnseen ==
  ASSUME MInv, NEW c \in Client, CreateFinish(c) \/ JoinEnter(c)
  PROVE  UNCHANGED Abstract!vars
<1> DEFINE g == req[c]
<1>0. /\ rpc \in [Client -> {"none", "lobby", "lock", "createPush", "createJoin", "joinPush",
                            "refusePush", "joinEnter", "play", "push", "dead", "freed"}]
      /\ gameOf \in [Client -> Code \cup {None}]
      /\ late \in [Client -> BOOLEAN]
      /\ games \subseteq Code
  BY DEF MInv, IInv, TypeOK
<1>1. /\ JoinBody(c, g) /\ rpc' = [rpc EXCEPT ![c] = "play"]
      /\ UNCHANGED <<conn, req, feedback, seen, outgoing, running>>
      /\ rpc[c] \in Answered
  BY DEF CreateFinish, JoinEnter, Goto, Answered
<1>2. gameOf' = [gameOf EXCEPT ![c] = g] /\ late' = [late EXCEPT ![c] = ~running[g]]
  BY <1>1 DEF JoinBody
<1>3. \A d \in Client \ {c} : Same(d)
  BY <1>0, <1>1, <1>2 DEF Same, Link, Seat, Said, LastOf, Missed
<1>4. Link(c)' = Link(c) /\ Seat(c)' = Seat(c)
  BY <1>0, <1>1, <1>2 DEF Link, Seat, Answered
<1>5. Said(c)' = Said(c)
  BY <1>1, <1>4 DEF Said, LastOf
<1>6. gameOf[c] = None /\ ~late[c]
  BY <1>1, NoneAssumption DEF MInv, IInv, Seats, NoGameYet, Latecomers
<1>7. Missed(c)' <=> ~running[g]
  BY <1>0, <1>1, <1>2 DEF Missed
<1>8. Missed(c) <=> ~running[g]
  <2>1. CASE CreateFinish(c)
    <3>1. rpc[c] = "createJoin" /\ g \in Code \ games
      BY <2>1 DEF CreateFinish, MInv, IInv, Rooms
    <3> QED  BY <1>6, <3>1 DEF Missed, MInv, IInv, Rooms
  <2>2. CASE JoinEnter(c)
    <3>1. rpc[c] = "joinEnter" /\ g \in games /\ gpc[g] # "send"
      BY <2>2 DEF JoinEnter, MInv, IInv, Rooms
    <3>2. ~Ending
      BY <3>1 DEF MInv, IInv, Presence
    <3> QED  BY <1>0, <1>6, <3>1, <3>2 DEF Missed, MInv, Ended
  <2> QED  BY <2>1, <2>2
<1>9. \A d \in Client : Same(d)
  BY <1>3, <1>4, <1>5, <1>7, <1>8 DEF Same
<1> QED  BY <1>1, <1>9, Stutter DEF SameEnds

(* What the Sender does.                                                   *)
LEMMA SenderUnseen ==
  ASSUME MInv, NEW c \in Client, Sender(c)
  PROVE  UNCHANGED Abstract!vars
<1>0. feedback \in [Client -> Seq(Feedback)]
  BY DEF MInv, IInv, TypeOK
<1>1. UNCHANGED <<rpc, conn, req, gameOf, late, outgoing>>
  BY DEF Sender, SenderDelivers, SenderFails, SenderStopped
<1>2. \A d \in Client : LastOf(d)' = LastOf(d) \/ conn[d] = "closed"
  <2>1. CASE SenderDelivers(c)
    BY <2>1, DeliveryKeepsLast DEF MInv
  <2>2. CASE SenderFails(c)
    BY <1>0, <2>2 DEF SenderFails, LastOf
  <2>3. CASE SenderStopped(c)
    BY <2>3 DEF SenderStopped, LastOf
  <2> QED  BY <2>1, <2>2, <2>3 DEF Sender
<1>3. \A d \in Client : /\ Link(d)' = Link(d) /\ Seat(d)' = Seat(d)
                        /\ Missed(d)' <=> Missed(d)
  BY <1>1 DEF Link, Seat, Missed
<1>4. \A d \in Client : Link(d) = "up" => conn[d] = "open"
  BY DEF Link
<1>5. \A d \in Client : Said(d)' = Said(d)
  BY <1>2, <1>3, <1>4 DEF Said
<1> QED  BY <1>1, <1>3, <1>5, Stutter DEF Same, SameEnds

(* The match ends when its score is collected.                             *)
LEMMA FinishSeen ==
  ASSUME MInv, NEW g \in Code, GameStep(g)
  PROVE  Abstract!Finish(g) \/ UNCHANGED Abstract!vars
<1> DEFINE Latest == {d \in Client : rpc[d] = "joinEnter" /\ req[d] = g}
<1>0. /\ UNCHANGED <<rpc, conn, req, gameOf, late, feedback, seen>>
      /\ outgoing' = [outgoing EXCEPT ![g] = IF over[g] THEN "score" ELSE "state"]
      /\ outgoing \in [Code -> {"state", "score"}]
  BY DEF ExecuteCommand, GameStep, MInv, IInv, TypeOK
<1>1. CASE outgoing[g] = "state" /\ over[g]
  <2>1. outgoing' = [outgoing EXCEPT ![g] = "score"]
    BY <1>0, <1>1
  <2>2. /\ [d \in Client |-> Link(d)]' = [d \in Client |-> Link(d)]
        /\ [d \in Client |-> Seat(d)]' = [d \in Client |-> Seat(d)]
        /\ [d \in Client |-> Said(d)]' = [d \in Client |-> Said(d)]
    BY <1>0 DEF Link, Seat, Said, LastOf
  <2>3. [h \in Code |-> outgoing[h] = "score"]'
          = [[h \in Code |-> outgoing[h] = "score"] EXCEPT ![g] = TRUE]
    BY <1>0, <2>1
  <2>4. {d \in Client : Missed(d)}' = {d \in Client : Missed(d)} \cup Latest
    <3>1. \A d \in Client : rpc[d] = "joinEnter" => req[d] \in Code
      BY DEF MInv, IInv, TypeOK, Rooms
    <3>2. \A d \in Client : Missed(d)' <=> Missed(d) \/ d \in Latest
      BY <1>0, <1>1, <2>1, <3>1 DEF Missed
    <3> QED  BY <3>2
  <2>5. Latest \in SUBSET {d \in Abstract!Places(g) :
                              [x \in Client |-> Said(x)][d] \notin {"created", "state"}}
    <3>1. ASSUME NEW d \in Latest
          PROVE  Seat(d) = g /\ Said(d) \notin {"created", "state"}
      BY DEF Seat, Said, Link, MInv, Latecomers
    <3> QED  BY <3>1 DEF Abstract!Places
  <2>6. g \in Abstract!Open
    <3>1. g \in games
      BY DEF ExecuteCommand, GameStep, MInv, IInv, Rooms
    <3>2. players[g] # 0 /\ Cardinality(Members(g)) = players[g]
      BY <3>1 DEF MInv, IInv, Rooms, Seats, PlayersNumbered
    <3>3. Members(g) # {}
      BY <3>2, FS_EmptySet
    <3>4. PICK d \in Client : gameOf[d] = g
      BY <3>3 DEF Members
    <3>5. rpc[d] \notin NoGameYet
      BY <3>4, NoneAssumption DEF MInv, IInv, Seats
    <3>6. Seat(d) = g
      BY <3>4, <3>5 DEF Seat, NoGameYet, Answered
    <3>7. d \in Abstract!Places(g)
      BY <3>6 DEF Abstract!Places
    <3> QED  BY <3>7 DEF Abstract!Open
  <2>7. ~[h \in Code |-> outgoing[h] = "score"][g]
    BY <1>1
  <2> HIDE DEF Latest
  <2> QED  BY <2>2, <2>3, <2>4, <2>5, <2>6, <2>7 DEF Abstract!Finish
<1>2. CASE ~(outgoing[g] = "state" /\ over[g])
  <2>1. outgoing[g] = "score" => over[g]
    BY DEF MInv, Ended
  <2>2. outgoing' = outgoing
    BY <1>0, <1>2, <2>1
  <2> QED  BY <1>0, <2>2, Unseen
<1> QED  BY <1>1, <1>2

(* The game thread serves one player.                                      *)
LEMMA TellSeen ==
  ASSUME MInv, NEW g \in Code, GamePush(g)
  PROVE  (\E c \in Client : Abstract!Tell(c)) \/ UNCHANGED Abstract!vars
<1> PICK c \in Client : c = queues[g][next[g]]
  BY NextIsUnserved DEF MInv
<1>0. /\ UNCHANGED <<rpc, conn, req, gameOf, late, seen, outgoing>>
      /\ feedback \in [Client -> Seq(Feedback)]
      /\ outgoing[g] \in {"state", "score"}
      /\ gpc[g] = "send"
  BY DEF GamePush, MInv, IInv, TypeOK
<1>1. /\ gameOf[c] = g /\ conn[c] # "new" /\ rpc[c] \notin NoGameYet
      /\ conn[c] = "open" => LastOf(c) \in {"created", "joined", "state"}
  BY NextIsUnserved DEF MInv
<1>2. CASE UNCHANGED feedback
  BY <1>0, <1>2, Unseen
<1>3. CASE feedback' = [feedback EXCEPT ![c] = Append(@, outgoing[g])]
  <2>1. \A d \in Client \ {c} : Same(d)
    BY <1>0, <1>1, <1>3 DEF Same, Link, Seat, Said, LastOf, Missed
  <2>2. SameEnds
    BY <1>0 DEF SameEnds
  <2>3. Link(c)' = Link(c) /\ Seat(c)' = Seat(c) /\ (Missed(c)' <=> Missed(c))
    BY <1>0 DEF Link, Seat, Missed
  <2>4. CASE Link(c) = "up"
    <3>1. conn[c] = "open"
      BY <2>4 DEF Link
    <3>2. LastOf(c)' = outgoing[g]
      BY <1>0, <1>1, <1>3, PushIsLast DEF Feedback
    <3>3. Said(c)' = outgoing[g] /\ Said(c) \in {"created", "joined", "state"}
      BY <1>1, <2>3, <2>4, <3>1, <3>2 DEF Said
    <3>4. Seat(c) = g /\ g # None
      BY <1>1, NoneAssumption DEF Seat, NoGameYet, Answered
    <3>5. ~Missed(c)
      <4>1. rpc[c] # "joinEnter"
        BY <1>1 DEF NoGameYet, Answered
      <4>2. late[c] => ~running[g]
        BY <1>1 DEF MInv, Latecomers
      <4>3. ~running[g] => Ending
        BY <1>0 DEF MInv, IInv, Rooms
      <4>4. ~Ending
        BY <1>1, <3>1, NobodyAtTheEnd DEF MInv
      <4> QED  BY <4>1, <4>2, <4>3, <4>4 DEF Missed
    <3>6. /\ [d \in Client |-> Link(d)]' = [d \in Client |-> Link(d)]
          /\ [d \in Client |-> Seat(d)]' = [d \in Client |-> Seat(d)]
          /\ [d \in Client |-> Said(d)]' = [[d \in Client |-> Said(d)] EXCEPT ![c] = outgoing[g]]
          /\ [h \in Code |-> outgoing[h] = "score"]' = [h \in Code |-> outgoing[h] = "score"]
          /\ {d \in Client : Missed(d)}' = {d \in Client : Missed(d)}
      BY <1>1, <2>1, <2>2, <2>3, <3>3, <3>5, OneMoves, ZenonT(40)
    <3>7. outgoing[g] = IF [h \in Code |-> outgoing[h] = "score"][g] THEN "score" ELSE "state"
      BY <1>0
    <3>8. /\ [d \in Client |-> Link(d)][c] = "up"
          /\ [d \in Client |-> Seat(d)][c] = g
          /\ [d \in Client |-> Said(d)][c] \in {"created", "joined", "state"}
          /\ c \notin {d \in Client : Missed(d)}
      BY <1>1, <2>4, <3>3, <3>4, <3>5
    <3>9. Abstract!Tell(c)
      BY <3>4, <3>6, <3>7, <3>8 DEF Abstract!Tell
    <3> QED  BY <1>1, <3>9
  <2>5. CASE Link(c) # "up"
    <3>1. Said(c)' = Said(c)
      BY <2>3, <2>5 DEF Said
    <3>2. \A d \in Client : Same(d)
      BY <2>1, <2>3, <3>1 DEF Same
    <3> QED  BY <2>2, <3>2, Stutter
  <2> QED  BY <2>4, <2>5
<1> QED  BY <1>2, <1>3 DEF GamePush, Drop

(* ~Receiver.                                                              *)
LEMMA DeleteUnseen ==
  ASSUME MInv, DeleteReceiver
  PROVE  UNCHANGED Abstract!vars
<1> PICK c \in Client : c = target /\ rpc[c] = "dead"
  BY DEF MInv, IInv, TypeOK, Presence, DeleteReceiver
<1>1. /\ rpc' = [rpc EXCEPT ![c] = "freed"]
      /\ conn' = [conn EXCEPT ![c] = "closed"]
      /\ seen' = [seen EXCEPT ![c] = "none"]
      /\ UNCHANGED <<req, gameOf, late, feedback, outgoing>>
  BY DEF DeleteReceiver, HangUp
<1>2. /\ rpc \in [Client -> {"none", "lobby", "lock", "createPush", "createJoin", "joinPush",
                            "refusePush", "joinEnter", "play", "push", "dead", "freed"}]
      /\ conn \in [Client -> {"new", "open", "closed"}]
      /\ seen \in [Client -> Feedback \cup {"none"}]
  BY DEF MInv, IInv, TypeOK
<1>3. \A d \in Client \ {c} : Same(d)
  BY <1>1, <1>2 DEF Same, Link, Seat, Said, LastOf, Missed
<1>4. Same(c)
  BY <1>1, <1>2 DEF Same, Link, Seat, Said, Missed
<1> QED  BY <1>1, <1>3, <1>4, Stutter DEF SameEnds

LEMMA CutSeen ==
  ASSUME MInv, NEW c \in Client, ClientCloses(c) \/ KillStop(c)
  PROVE  Abstract!Cut(c) \/ UNCHANGED Abstract!vars
<1>1. CASE ClientCloses(c)
  BY <1>1, HangUpSeen DEF ClientCloses
<1>2. CASE KillStop(c) /\ rpc[c] # "dead"
  <2>1. conn[c] # "new"
    BY <1>2 DEF KillStop, MInv, IInv, Presence
  <2>2. HangUp(c) /\ UNCHANGED <<rpc, req, gameOf, late, feedback, outgoing>>
    BY <1>2 DEF KillStop
  <2> QED  BY <2>1, <2>2, HangUpSeen
<1>3. CASE KillStop(c) /\ rpc[c] = "dead"
  BY <1>3, Unseen DEF KillStop
<1> QED  BY <1>1, <1>2, <1>3

(* Every step of a thread is a step of MatchMaking, or nobody sees it.     *)
LEMMA StepIsAbstract ==
  ASSUME MInv, [Next]_vars
  PROVE  UNCHANGED Abstract!vars \/ Abstract!Next
<1> USE DEF Abstract!Next
<1>1. ASSUME NEW c \in Client, Accept(c)
      PROVE  Abstract!Next
  BY <1>1, AcceptSeen
<1>2. ASSUME NEW c \in Client, ClientCloses(c) \/ KillStop(c)
      PROVE  UNCHANGED Abstract!vars \/ Abstract!Next
  BY <1>2, CutSeen
<1>3. ASSUME NEW c \in Client, Sender(c)
      PROVE  UNCHANGED Abstract!vars
  BY <1>3, SenderUnseen
<1>4. ASSUME NEW c \in Client, CreateLock(c)
      PROVE  UNCHANGED Abstract!vars \/ Abstract!Next
  BY <1>4, ThrowSeen
<1>5. ASSUME NEW c \in Client, CreatePush(c)
      PROVE  Abstract!Next
  <2>1. req[c] \in Code
    BY <1>5 DEF CreatePush, MInv, IInv, Rooms
  <2> QED  BY <1>5, <2>1, CreateSeen
<1>6. ASSUME NEW c \in Client, JoinPush(c)
      PROVE  Abstract!Next
  <2>1. req[c] \in Code
    BY <1>6 DEF JoinPush, MInv, IInv, TypeOK, Rooms
  <2> QED  BY <1>6, <2>1, JoinSeen
<1>7. ASSUME NEW c \in Client, RefusePush(c)
      PROVE  Abstract!Next
  BY <1>7, RefuseSeen
<1>8. ASSUME NEW c \in Client, CreateFinish(c) \/ JoinEnter(c)
      PROVE  UNCHANGED Abstract!vars
  BY <1>8, EnteringUnseen
<1>9. ASSUME NEW c \in Client, ReceiverEnds(c)
      PROVE  Abstract!Next
  BY <1>9, EndSeen
<1>10. ASSUME NEW c \in Client,
              ReceiveRequest(c) \/ JoinLock(c) \/ PushCommand(c) \/ WaitToPush(c)
       PROVE  UNCHANGED Abstract!vars
  <2>1. /\ rpc[c] \in {"lobby", "lock", "play", "push"}
        /\ \E l \in {"lock", "joinPush", "refusePush", "play", "push"} : Goto(c, l)
        /\ \A d \in Client \ {c} : req'[d] = req[d]
        /\ UNCHANGED <<conn, gameOf, late, feedback, seen, outgoing>>
    BY <1>10 DEF ReceiveRequest, JoinLock, PushCommand, WaitToPush, MInv, IInv, TypeOK
  <2> QED  BY <2>1, ReceiverUnseen
<1>11. ASSUME NEW g \in Code, GameStep(g)
       PROVE  UNCHANGED Abstract!vars \/ Abstract!Next
  BY <1>11, FinishSeen
<1>12. ASSUME NEW g \in Code, GamePush(g)
       PROVE  UNCHANGED Abstract!vars \/ Abstract!Next
  BY <1>12, TellSeen
<1>13. CASE DeleteReceiver
  BY <1>13, DeleteUnseen
<1>14. ASSUME NEW g \in Code,
              GameLoop(g) \/ GameThrows(g) \/ GameSpins(g) \/ GameUnlock(g) \/ StopGame(g)
       PROVE  UNCHANGED Abstract!vars
  BY <1>14, Unseen DEF GameLoop, GameThrows, GameSpins, GameUnlock, StopGame
<1>15. ASSUME \/ Quit \/ AccepterEnds \/ KillJoin \/ KillDone \/ DeleteGame \/ ServerEnds
              \/ UNCHANGED vars \/ \E c \in Client : Reap(c)
       PROVE  UNCHANGED Abstract!vars
  BY <1>15, Unseen DEF Quit, AccepterEnds, KillJoin, KillDone, DeleteGame, ServerEnds, vars, Reap
<1> QED  BY <1>1, <1>2, <1>3, <1>4, <1>5, <1>6, <1>7, <1>8, <1>9, <1>10, <1>11, <1>12,
            <1>13, <1>14, <1>15
         DEF Next, Receiver, ReceiverRuns, Game, Accepter

LEMMA InitIsAbstract == Init => Abstract!Init
<1> SUFFICES ASSUME Init  PROVE Abstract!Init
  OBVIOUS
<1>1. \A c \in Client : Link(c) = "new" /\ Seat(c) = None /\ Said(c) = "none" /\ ~Missed(c)
  BY DEF Init, Link, Seat, Said, Missed
<1>2. \A g \in Code : outgoing[g] # "score"
  BY DEF Init
<1> QED  BY <1>1, <1>2 DEF Abstract!Init

(* The server implements MatchMaking: hidden its threads, mutexes and      *)
(* queues, a request to create or join a game is decided and answered at   *)
(* once, with the places and the games there are, a place is given once,   *)
(* a match ends once, and each client hears its answer, then states, then  *)
(* the score (game_manager.cpp:75-142, game.cpp:22-37, 61-118).            *)
THEOREM Refinement == Spec => ImplementsMatchMaking
<1>1. MInv /\ [Next]_vars => \/ UNCHANGED <<conn, seen, rpc, req, gameOf, late, feedback, outgoing>>
                            \/ UNCHANGED Abstract!vars
                            \/ Abstract!Next
  BY StepIsAbstract
<1> QED  BY <1>1, InitIsAbstract, MoreInvariant, PTL DEF Spec, ImplementsMatchMaking

(* The same as the specification of MatchMaking itself.                    *)
THEOREM RefinementOfSpec == Spec => Abstract!Spec
<1>1. MInv /\ [Next]_vars => [Abstract!Next]_(Abstract!vars)
  BY StepIsAbstract
<1> QED  BY <1>1, InitIsAbstract, MoreInvariant, PTL DEF Spec, Abstract!Spec

------------------------------------------------------------------------------
(* What follows for the server's clients *)

(* A client that has been given a place, be it that Game::join() is still  *)
(* to come, keeps it in that game for ever: neither its end nor that of    *)
(* the match gives it back (nothing undoes game.cpp:22-37).                *)
THEOREM PlacesAreKept ==
  Spec => [][\A c \in Client : Seat(c) # None => Seat(c)' = Seat(c)]_vars
<1>1. ASSUME MInv, [Next]_vars, NEW c \in Client, Seat(c) # None
      PROVE  Seat(c)' = Seat(c)
  <2> DEFINE room == [d \in Client |-> Seat(d)]
  <2>1. CASE UNCHANGED room
    <3>1. room'[c] = room[c]
      BY <2>1
    <3> QED  BY <3>1
  <2>2. CASE \E d \in Client, g \in Code : Abstract!Create(d, g) \/ Abstract!Join(d, g)
    <3>1. PICK d \in Client, g \in Code :
             room[d] = None /\ room' = [room EXCEPT ![d] = g]
      BY <2>2 DEF Abstract!Create, Abstract!Join, Abstract!Unanswered
    <3>2. d # c
      BY <1>1, <3>1
    <3>3. room'[c] = room[c]
      BY <3>1, <3>2
    <3> QED  BY <3>3
  <2>3. UNCHANGED room \/ \E d \in Client, g \in Code : Abstract!Create(d, g) \/ Abstract!Join(d, g)
    BY <1>1, StepIsAbstract
       DEF Abstract!Next, Abstract!vars, Abstract!Connect, Abstract!Cut, Abstract!Forget,
           Abstract!TurnAway, Abstract!Refuse, Abstract!Tell, Abstract!Finish
  <2> QED  BY <2>1, <2>2, <2>3
<1>2. MInv /\ [Next]_vars => [\A c \in Client : Seat(c) # None => Seat(c)' = Seat(c)]_vars
  BY <1>1
<1> QED  BY <1>2, MoreInvariant, PTL DEF Spec

(* MAX_SIZE bounds the games that ever existed, not those that are being   *)
(* played: cleanEmptyGames() removes none, so that a server that has had   *)
(* MAX_SIZE games never creates another (game_manager.cpp:37, 79-88).      *)
GamesLimited == IsFiniteSet(games) /\ Cardinality(games) <= MaxGames

THEOREM GamesAreKept ==
  Spec => /\ []GamesLimited
          /\ [][games \subseteq games' /\ (Cardinality(games) = MaxGames => games' = games)]_vars
<1>1. ASSUME MInv, GamesLimited, [Next]_vars
      PROVE  /\ GamesLimited'
             /\ games \subseteq games'
             /\ Cardinality(games) = MaxGames => games' = games
  <2>1. ASSUME NEW c \in Client, CreateFinish(c)
        PROVE  /\ GamesLimited'
               /\ games \subseteq games'
               /\ Cardinality(games) = MaxGames => games' = games
    <3>1. games' = games \cup {req[c]} /\ req[c] \notin games
      BY <1>1, <2>1, NothingToClean DEF MInv, IInv, Rooms, CreateFinish
    <3>2. Cardinality(games) < MaxGames /\ Cardinality(games) \in Nat /\ MaxGames \in Nat
      BY <1>1, <2>1, CapAssumption, FS_CardinalityType DEF MInv, Decided, CreateFinish, GamesLimited
    <3>3. IsFiniteSet(games') /\ Cardinality(games') = Cardinality(games) + 1
      BY <1>1, <3>1, FS_AddElement DEF GamesLimited
    <3> QED  BY <3>1, <3>2, <3>3 DEF GamesLimited
  <2>2. CASE UNCHANGED games
    BY <1>1, <2>2 DEF GamesLimited
  <2>3. ASSUME NEW c \in Client,
               \/ ClientCloses(c) \/ Accept(c) \/ Sender(c) \/ Reap(c) \/ KillStop(c)
               \/ ReceiveRequest(c) \/ CreateLock(c) \/ CreatePush(c) \/ JoinLock(c)
               \/ RefusePush(c) \/ JoinPush(c) \/ JoinEnter(c) \/ PushCommand(c)
               \/ WaitToPush(c) \/ ReceiverEnds(c)
        PROVE  UNCHANGED games
    BY <2>3 DEF ClientCloses, Accept, Sender, SenderDelivers, SenderFails, SenderStopped, Reap,
       KillStop, ReceiveRequest, CreateLock, CreatePush, JoinLock, RefusePush, JoinPush,
       JoinEnter, PushCommand, WaitToPush, ReceiverEnds
  <2>4. ASSUME NEW g \in Code, Game(g) \/ StopGame(g)
        PROVE  UNCHANGED games
    BY <2>4
       DEF Game, GameLoop, ExecuteCommand, GameStep, GameThrows, GameSpins,
           GamePush, GameUnlock, StopGame
  <2>5. ASSUME \/ Quit \/ AccepterEnds \/ KillJoin \/ KillDone \/ DeleteReceiver \/ DeleteGame
               \/ ServerEnds \/ UNCHANGED vars
        PROVE  UNCHANGED games
    BY <2>5 DEF Quit, AccepterEnds, KillJoin, KillDone, DeleteReceiver, DeleteGame, ServerEnds, vars
  <2> HIDE DEF GamesLimited
  <2> QED  BY <1>1, <2>1, <2>2, <2>3, <2>4, <2>5 DEF Next, Receiver, ReceiverRuns, Accepter
<1>2. Init => GamesLimited
  BY FS_EmptySet, CapAssumption DEF Init, GamesLimited
<1> QED  BY <1>1, <1>2, MoreInvariant, PTL DEF Spec

(* Only a Game thread ends itself: at the head of its loop, once           *)
(* is_running is false, or by an exception.                                *)
LEMMA EndOfThread ==
  ASSUME IInv, [Next]_vars, NEW h \in Code, gpc[h] # "ended", gpc'[h] = "ended"
  PROVE  (gpc[h] = "head" /\ ~running[h]) \/ GameThrows(h)
<1>0. /\ gpc \in [Code -> {"none", "new", "head", "sleep", "send", "spin", "ended", "deleted"}]
      /\ running \in [Code -> BOOLEAN]
      /\ players \in [Code -> Nat]
  BY DEF IInv, TypeOK
<1>1. ~ \E c \in Client : CreateLock(c)
  BY <1>0 DEF CreateLock, CreateThrows
<1>2. ~ \E c \in Client : CreateFinish(c)
  BY <1>0, NothingToClean DEF CreateFinish
<1>3. ASSUME NEW g \in Code, Game(g)
      PROVE  (gpc[h] = "head" /\ ~running[h]) \/ GameThrows(h)
  <2>1. g = h
    BY <1>0, <1>3
       DEF Game, GameLoop, ExecuteCommand, GameStep, GameThrows, GameSpins, GamePush, GameUnlock
  <2>2. GameLoop(h) \/ GameThrows(h)
    BY <1>0, <1>3, <2>1 DEF Game, GameStep, GameSpins, GamePush, GameUnlock
  <2>3. ASSUME GameLoop(h)
        PROVE  gpc[h] = "head" /\ ~running[h]
    <3>1. gpc[h] = "head"
      BY <2>3 DEF GameLoop
    <3>2. players[h] > 0
      BY <1>0, <3>1 DEF IInv, Rooms
    <3> QED  BY <1>0, <2>3, <3>1, <3>2 DEF GameLoop
  <2> QED  BY <2>2, <2>3
<1>4. ~ DeleteGame
  BY <1>0 DEF DeleteGame
<1>5. gpc' # gpc
  OBVIOUS
<1>6. ASSUME NEW c \in Client,
             \/ ClientCloses(c) \/ Accept(c) \/ Sender(c) \/ Reap(c) \/ KillStop(c)
             \/ ReceiveRequest(c) \/ CreatePush(c) \/ JoinLock(c) \/ RefusePush(c)
             \/ JoinPush(c) \/ JoinEnter(c) \/ PushCommand(c) \/ WaitToPush(c)
             \/ ReceiverEnds(c)
      PROVE  UNCHANGED gpc
  BY <1>6 DEF ClientCloses, Accept, Sender, SenderDelivers, SenderFails, SenderStopped, Reap,
     KillStop, ReceiveRequest, CreatePush, JoinLock, RefusePush, JoinPush, JoinEnter,
     PushCommand, WaitToPush, ReceiverEnds
<1>7. ASSUME \/ Quit \/ AccepterEnds \/ KillJoin \/ KillDone \/ DeleteReceiver \/ ServerEnds
             \/ UNCHANGED vars \/ \E g \in Code : StopGame(g)
      PROVE  UNCHANGED gpc
  BY <1>7 DEF Quit, AccepterEnds, KillJoin, KillDone, DeleteReceiver, ServerEnds, vars, StopGame
<1> QED  BY <1>1, <1>2, <1>3, <1>4, <1>5, <1>6, <1>7
         DEF Next, Receiver, ReceiverRuns, Accepter

(* A Game thread ends for three reasons only: its match is over and the    *)
(* score has been collected, the server is ending, or an exception in a    *)
(* step of the match, which Thread::main() swallows; that it has no        *)
(* players left is none, for players_amount counts those that came.  A     *)
(* thread that an exception ended, is_running still set, leaves a match    *)
(* without a score (game.cpp:22-37, 61-118; thread.h:22-30).               *)
THEOREM GamesRunToTheEnd ==
  Spec => /\ [][\A g \in Code : gpc[g] # "ended" /\ gpc'[g] = "ended" =>
                   \/ over[g] /\ outgoing[g] = "score"
                   \/ Ending
                   \/ GameThrows(g)]_vars
          /\ [](\A g \in Code : gpc[g] = "ended" /\ running[g] => outgoing[g] = "state")
<1>1. MInv /\ [Next]_vars =>
        [\A g \in Code : gpc[g] # "ended" /\ gpc'[g] = "ended" =>
            \/ over[g] /\ outgoing[g] = "score"
            \/ Ending
            \/ GameThrows(g)]_vars
  BY EndOfThread DEF MInv, Ended
<1>2. MInv => \A g \in Code : gpc[g] = "ended" /\ running[g] => outgoing[g] = "state"
  BY DEF MInv, Ended, IInv, TypeOK
<1> QED  BY <1>1, <1>2, MoreInvariant, PTL DEF Spec
==============================================================================
