--------------------------- MODULE GameServer_proofs --------------------------
(***************************************************************************)
(* Proofs about GameServer, for any number of clients, games and places    *)
(* and for any capacities: who holds the manager's mutex, which games and  *)
(* which Receivers exist at a time, and in which order a client is served. *)
(***************************************************************************)
EXTENDS GameServer, FiniteSetTheorems, SequenceTheorems, TLAPS

(* Where a Receiver holds GameManager::mtx, where it has no game yet, and  *)
(* where its client has not been let in.                                   *)
Holding == {"createPush", "createJoin", "joinPush", "refusePush", "joinEnter"}
Asking == {"lobby", "lock", "createPush", "joinPush", "refusePush"}
Answered == {"createJoin", "joinEnter"}
NoGameYet == {"none"} \cup Asking \cup Answered

MutexHeld == \A c \in Client : rpc[c] \in Holding => mgr = c

(* ~Accepter has come to the games.                                        *)
Ending == apc \in {"games", "gameJoin", "done"}

(* Which Receivers exist, and which one the Accepter is deleting.          *)
Presence ==
    /\ \A c \in Client :
          /\ c \in clients <=> rpc[c] \notin {"none", "freed"}
          /\ conn[c] = "new" <=> rpc[c] = "none"
          /\ rpc[c] = "freed" => conn[c] = "closed"
    /\ \A c \in reap : c \in clients /\ rpc[c] = "dead"
    /\ apc \notin {"reap", "reapJoin"} => reap = {}
    /\ apc \in {"reapJoin", "killSender"} => target \in clients /\ rpc[target] = "dead"
    /\ apc = "reapJoin" => target \notin reap
    /\ apc = "killJoin" => target \in clients
    /\ apc = "gameJoin" => target \in games
    /\ Ending => clients = {}

(* Which games exist.                                                      *)
Rooms ==
    /\ \A g \in games :
          /\ players[g] # 0
          /\ gpc[g] \in {"head", "sleep", "send", "spin", "ended", "deleted"}
          /\ gpc[g] = "deleted" => Ending
          /\ ~running[g] => gpc[g] \in {"head", "ended"} \/ Ending
    /\ \A g \in Code \ games :
          /\ gpc[g] \in {"none", "new"}
          /\ players[g] = 0 /\ queues[g] = <<>> /\ running[g]
    /\ \A c \in Client :
          /\ rpc[c] \in {"createPush", "createJoin"} => req[c] \in Code \ games
          /\ rpc[c] \in {"joinPush", "joinEnter"} =>
                req[c] \in games /\ players[req[c]] < MaxPlayers

(* Who is in which game.                                                   *)
Seats ==
    /\ \A c \in Client :
          /\ gameOf[c] \in games \cup {None}
          /\ rpc[c] \in NoGameYet => gameOf[c] = None
          /\ rpc[c] \in {"play", "push"} => gameOf[c] \in games
    /\ \A g \in Code : IsFiniteSet(Members(g))
    /\ PlayersNumbered

(* A Receiver in the lobby finds its queue empty when it has an answer.    *)
Lobby ==
    \A c \in Client :
        /\ rpc[c] \in {"none", "lock", "createPush", "joinPush", "refusePush"} =>
              feedback[c] = <<>>
        /\ rpc[c] = "lobby" => feedback[c] \in {<<>>, <<"notjoined">>}
        /\ rpc[c] = "lobby" /\ conn[c] = "open" /\ ~asking[c] => feedback[c] = <<>>
        /\ rpc[c] \in Asking \ {"lobby"} /\ conn[c] = "open" => asking[c]

(* A game feeds its own members, each once.                                *)
Queued ==
    \A g \in Code : \A i \in 1..Len(queues[g]) :
        /\ gameOf[queues[g][i]] = g
        /\ \A j \in 1..Len(queues[g]) : queues[g][j] = queues[g][i] => j = i

InOrder(c) ==
    /\ feedback[c] # <<>> => Follows(seen[c], feedback[c][1])
    /\ \A i \in 1..(Len(feedback[c]) - 1) : Follows(feedback[c][i], feedback[c][i + 1])

(* The score has been sent to the i-th player of g.                        *)
Scored(g, i) ==
    \/ gpc[g] = "send" /\ outgoing[g] = "score" /\ i < next[g]
    \/ gpc[g] \in {"head", "ended"} /\ ~running[g]

(* What a client has been sent, and what a game has sent to its queues.    *)
Heard(c) ==
    /\ conn[c] = "new" => seen[c] = "none"
    /\ conn[c] = "open" =>
          /\ InOrder(c)
          /\ rpc[c] \in Asking => LastOf(c) \in {"none", "notjoined"}
          /\ rpc[c] \in Answered => LastOf(c) \in {"created", "joined"}

Served(g, i, c) ==
    conn[c] = "open" =>
        /\ LastOf(c) \in {"created", "joined", "state", "score"}
        /\ LastOf(c) = "score" => Scored(g, i)
        /\ Scored(g, i) => late[c] \/ LastOf(c) = "score"

Told(g) == \A c \in Client : \A i \in 1..Len(queues[g]) : queues[g][i] = c => Served(g, i, c)

News == (\A c \in Client : Heard(c)) /\ (\A g \in Code : Told(g))

IInv == /\ TypeOK /\ MutexHeld /\ Presence /\ Rooms /\ Seats
        /\ Lobby /\ Queued /\ News

USE DEF clientVars, receiverVars, senderVars, managerVars, gameVars, accepterVars

------------------------------------------------------------------------------
(* Sequences *)

LEMMA RemoveAtIs ==
  ASSUME NEW S, NEW s \in Seq(S), NEW i \in 1..Len(s)
  PROVE  /\ RemoveAt(s, i) \in Seq(S)
         /\ Len(RemoveAt(s, i)) = Len(s) - 1
         /\ \A j \in 1..(Len(s) - 1) :
               RemoveAt(s, i)[j] = IF j < i THEN s[j] ELSE s[j + 1]
<1> DEFINE a == SubSeq(s, 1, i - 1)
           b == SubSeq(s, i + 1, Len(s))
<1>1. Len(s) \in Nat
  BY LenProperties
<1>2. /\ a \in Seq(S) /\ Len(a) = i - 1
      /\ \A j \in 1..(i - 1) : a[j] = s[j]
  <2>1. \A j \in 1..(i - 1) : s[j] \in S
    BY <1>1, ElementOfSeq
  <2> QED  BY <1>1, <2>1, SubSeqProperties
<1>3. /\ b \in Seq(S) /\ Len(b) = Len(s) - i
      /\ \A j \in 1..(Len(s) - i) : b[j] = s[i + j]
  <2>1. \A j \in (i + 1)..Len(s) : s[j] \in S
    BY <1>1, ElementOfSeq
  <2>2. Len(b) = IF i + 1 <= Len(s) THEN Len(s) - (i + 1) + 1 ELSE 0
    BY <1>1, <2>1, SubSeqProperties
  <2>3. \A j \in 1..(Len(s) - (i + 1) + 1) : b[j] = s[(i + 1) + j - 1]
    BY <1>1, <2>1, SubSeqProperties
  <2>4. b \in Seq(S)
    BY <1>1, <2>1, SubSeqProperties
  <2> HIDE DEF b
  <2> QED  BY <1>1, <2>2, <2>3, <2>4
<1>4. RemoveAt(s, i) = a \o b
  BY DEF RemoveAt
<1> HIDE DEF a, b
<1>5. /\ a \o b \in Seq(S)
      /\ Len(a \o b) = Len(a) + Len(b)
      /\ \A j \in 1..(Len(a) + Len(b)) : (a \o b)[j] = IF j <= Len(a) THEN a[j] ELSE b[j - Len(a)]
  BY <1>2, <1>3, ConcatProperties
<1> QED  BY <1>1, <1>2, <1>3, <1>4, <1>5

------------------------------------------------------------------------------
(* Types *)

LEMMA PushTyped ==
  ASSUME TypeOK, NEW c \in Client, NEW f \in Feedback, PushFeedback(c, f)
  PROVE  feedback' \in [Client -> Seq(Feedback)]
BY DEF TypeOK, PushFeedback

LEMMA JoinTyped ==
  ASSUME TypeOK, NEW c \in Client, NEW g \in Code, JoinBody(c, g)
  PROVE  /\ gameOf' \in [Client -> Code \cup {None}]
         /\ queues' \in [Code -> Seq(Client)]
         /\ players' \in [Code -> Nat]
         /\ playerId' \in [Client -> Nat]
         /\ late' \in [Client -> BOOLEAN]
<1>1. queues' \in [Code -> Seq(Client)]
  <2>1. Append(queues[g], c) \in Seq(Client)
    BY DEF TypeOK
  <2> QED  BY <2>1 DEF TypeOK, JoinBody
<1>2. players[g] \in Nat /\ players[g] + 1 \in Nat
  BY DEF TypeOK
<1>3. (~running[g]) \in BOOLEAN
  OBVIOUS
<1> QED  BY <1>1, <1>2, <1>3 DEF TypeOK, JoinBody

LEMMA InitTyped ==
  ASSUME Init
  PROVE  TypeOK
<1>1. 0 \in 0..CommandCap
  BY CapAssumption
<1>2. <<>> \in Seq(Feedback) /\ <<>> \in Seq(Client)
  BY EmptySeq
<1>3. /\ commands \in [Code -> 0..CommandCap]
      /\ queues \in [Code -> Seq(Client)]
      /\ feedback \in [Client -> Seq(Feedback)]
  BY <1>1, <1>2 DEF Init
<1>4. /\ next \in [Code -> Nat \ {0}]
      /\ players \in [Code -> Nat]
      /\ playerId \in [Client -> Nat]
  BY DEF Init
<1> QED  BY <1>3, <1>4 DEF Init, TypeOK

LEMMA TypeStep ==
  ASSUME IInv, [Next]_vars
  PROVE  TypeOK'
<1> USE DEF TypeOK
<1>0. TypeOK
  BY DEF IInv
<1>1. ASSUME NEW c \in Client, ClientCloses(c)
      PROVE  TypeOK'
  BY <1>0, <1>1 DEF ClientCloses, HangUp
<1>2. ASSUME NEW c \in Client, Accept(c)
      PROVE  TypeOK'
  BY <1>0, <1>2 DEF Accept, Goto, Dead
<1>3. ASSUME NEW c \in Client, ReceiveRequest(c)
      PROVE  TypeOK'
  BY <1>0, <1>3, SMTT(20) DEF ReceiveRequest, Goto
<1>4. ASSUME NEW c \in Client, CreateLock(c)
      PROVE  TypeOK'
  <2>1. CASE Cardinality(games) >= MaxGames
    <3>1. /\ rpc' = [rpc EXCEPT ![c] = "dead"]
          /\ UNCHANGED <<clientVars, req, gameOf, playerId, late, senderVars, managerVars,
                         gameVars, accepterVars>>
      BY <1>4, <2>1 DEF CreateLock, CreateThrows, Goto
    <3> QED  BY <1>0, <3>1
  <2>2. CASE ~(Cardinality(games) >= MaxGames)
    <3>1. PICK g \in Code \ games : /\ req' = [req EXCEPT ![c] = g]
                                    /\ gpc' = [gpc EXCEPT ![g] = "new"]
      BY <1>4, <2>2 DEF CreateLock
    <3> QED  BY <1>0, <1>4, <2>2, <3>1 DEF CreateLock, Goto
  <2> QED  BY <2>1, <2>2
<1>5. ASSUME NEW c \in Client, CreatePush(c)
      PROVE  TypeOK'
  <2>1. feedback' \in [Client -> Seq(Feedback)]
    BY <1>0, <1>5, PushTyped DEF CreatePush, Feedback, Answers
  <2> QED  BY <1>0, <1>5, <2>1 DEF CreatePush, Goto
<1>6. ASSUME NEW c \in Client, CreateFinish(c)
      PROVE  TypeOK'
  <2>1. req[c] \in Code
    BY <1>6 DEF IInv, Rooms, CreateFinish
  <2>2. JoinBody(c, req[c])
    BY <1>6 DEF CreateFinish
  <2> HIDE DEF TypeOK
  <2>3. /\ gameOf' \in [Client -> Code \cup {None}]
        /\ queues' \in [Code -> Seq(Client)]
        /\ players' \in [Code -> Nat]
        /\ playerId' \in [Client -> Nat]
        /\ late' \in [Client -> BOOLEAN]
    BY <1>0, <2>1, <2>2, JoinTyped
  <2> USE DEF TypeOK
  <2>4. games' \in SUBSET Code /\ running' = running
    BY <1>0, <1>6, <2>1 DEF CreateFinish
  <2>5. gpc' \in [Code -> {"none", "new", "head", "sleep", "send", "spin", "ended", "deleted"}]
    BY <1>0, <1>6, <2>1 DEF CreateFinish
  <2>6. /\ rpc' = [rpc EXCEPT ![c] = "play"] /\ mgr' = None
        /\ UNCHANGED <<clientVars, req, senderVars, commands, over, running, outgoing, next,
                       accepterVars>>
    BY <1>6 DEF CreateFinish, Goto
  <2> QED  BY <1>0, <2>3, <2>4, <2>5, <2>6
<1>7. ASSUME NEW c \in Client, JoinLock(c)
      PROVE  TypeOK'
  <2>1. /\ \E l \in {"joinPush", "refusePush"} : rpc' = [rpc EXCEPT ![c] = l]
        /\ mgr' = c
        /\ UNCHANGED <<clientVars, req, gameOf, playerId, late, senderVars, games, gameVars,
                       accepterVars>>
    BY <1>7 DEF JoinLock, Goto
  <2> QED  BY <1>0, <2>1
<1>8. ASSUME NEW c \in Client, RefusePush(c)
      PROVE  TypeOK'
  <2>1. feedback' \in [Client -> Seq(Feedback)]
    BY <1>0, <1>8, PushTyped DEF RefusePush, Feedback, Answers
  <2> QED  BY <1>0, <1>8, <2>1 DEF RefusePush, Goto
<1>9. ASSUME NEW c \in Client, JoinPush(c)
      PROVE  TypeOK'
  <2>1. feedback' \in [Client -> Seq(Feedback)]
    BY <1>0, <1>9, PushTyped DEF JoinPush, Feedback, Answers
  <2> QED  BY <1>0, <1>9, <2>1 DEF JoinPush, Goto
<1>10. ASSUME NEW c \in Client, JoinEnter(c)
      PROVE  TypeOK'
  <2>1. req[c] \in Code
    BY <1>0, <1>10 DEF IInv, Rooms, JoinEnter
  <2>2. JoinBody(c, req[c])
    BY <1>10 DEF JoinEnter
  <2> HIDE DEF TypeOK
  <2>3. /\ gameOf' \in [Client -> Code \cup {None}]
        /\ queues' \in [Code -> Seq(Client)]
        /\ players' \in [Code -> Nat]
        /\ playerId' \in [Client -> Nat]
        /\ late' \in [Client -> BOOLEAN]
    BY <1>0, <2>1, <2>2, JoinTyped
  <2> QED  BY <1>0, <1>10, <2>3 DEF JoinEnter, Goto, TypeOK
<1>11. ASSUME NEW c \in Client, PushCommand(c)
      PROVE  TypeOK'
  <2>1. /\ rpc' = [rpc EXCEPT ![c] = "play"]
        /\ commands' = [commands EXCEPT ![gameOf[c]] = @ + 1]
        /\ commands[gameOf[c]] < CommandCap
    BY <1>11 DEF PushCommand, Goto, RoomFor
  <2>2. gameOf[c] \in Code
    BY <1>0, <1>11 DEF IInv, Seats, PushCommand
  <2>3. commands' \in [Code -> 0..CommandCap]
    <3>1. commands \in [Code -> 0..CommandCap] /\ CommandCap \in Nat
      BY <1>0, CapAssumption
    <3>2. commands[gameOf[c]] + 1 \in 0..CommandCap
      BY <2>1, <2>2, <3>1
    <3> QED  BY <2>1, <2>2, <3>1, <3>2
  <2> QED  BY <1>0, <1>11, <2>1, <2>3 DEF PushCommand
<1>12. ASSUME NEW c \in Client, WaitToPush(c) \/ ReceiverEnds(c)
      PROVE  TypeOK'
  <2>1. /\ \E l \in {"push", "dead"} : rpc' = [rpc EXCEPT ![c] = l]
        /\ UNCHANGED <<clientVars, req, gameOf, playerId, late, senderVars, managerVars,
                       gameVars, accepterVars>>
    BY <1>12 DEF WaitToPush, ReceiverEnds, Goto
  <2> QED  BY <1>0, <2>1
<1>13. ASSUME NEW c \in Client, Sender(c)
      PROVE  TypeOK'
  <2>1. CASE SenderDelivers(c)
    BY <1>0, <2>1, SMTT(20) DEF SenderDelivers
  <2>2. CASE SenderFails(c)
    BY <1>0, <2>2 DEF SenderFails
  <2>3. CASE SenderStopped(c)
    BY <1>0, <2>3 DEF SenderStopped
  <2> QED  BY <1>13, <2>1, <2>2, <2>3 DEF Sender
<1>14. ASSUME NEW g \in Code, GameLoop(g)
      PROVE  TypeOK'
  BY <1>0, <1>14 DEF GameLoop
<1>15. ASSUME NEW g \in Code, GameStep(g) \/ GameThrows(g) \/ GameSpins(g)
      PROVE  TypeOK'
  <2>1. commands' \in [Code -> 0..CommandCap]
    <3>1. commands' = [commands EXCEPT ![g] = IF @ > 0 THEN @ - 1 ELSE 0]
      BY <1>15 DEF ExecuteCommand, GameStep, GameThrows, GameSpins
    <3> QED  BY <1>0, <3>1, CapAssumption, SMTT(20)
  <2>2. /\ \E o \in {"state", "score"} : outgoing' = [outgoing EXCEPT ![g] = o]
        /\ \E l \in {"send", "spin", "ended"} : gpc' = [gpc EXCEPT ![g] = l]
        /\ \E o \in BOOLEAN : over' = [over EXCEPT ![g] = o]
        /\ \E n \in Nat \ {0} : next' = [next EXCEPT ![g] = n]
        /\ UNCHANGED <<clientVars, receiverVars, senderVars, managerVars, players, queues,
                       running, accepterVars>>
    <3>1. CASE GameStep(g)
      <4>1. \E o \in {"state", "score"} : outgoing' = [outgoing EXCEPT ![g] = o]
        BY <3>1 DEF GameStep
      <4>2. \E o \in BOOLEAN : over' = [over EXCEPT ![g] = o]
        BY <1>0, <3>1 DEF GameStep
      <4>3. \E n \in Nat \ {0} : next' = [next EXCEPT ![g] = n]
        <5>1. next' = [next EXCEPT ![g] = 1] /\ 1 \in Nat \ {0}
          BY <3>1 DEF GameStep
        <5> QED  BY <5>1
      <4>4. \E l \in {"send", "spin", "ended"} : gpc' = [gpc EXCEPT ![g] = l]
        BY <3>1 DEF GameStep
      <4> QED  BY <3>1, <4>1, <4>2, <4>3, <4>4 DEF GameStep
    <3>2. CASE GameThrows(g) \/ GameSpins(g)
      <4>1. \E o \in {"state", "score"} : outgoing' = [outgoing EXCEPT ![g] = o]
        <5>1. outgoing' = [outgoing EXCEPT ![g] = outgoing[g]] /\ outgoing[g] \in {"state", "score"}
          BY <1>0, <3>2 DEF GameThrows, GameSpins
        <5> QED  BY <5>1
      <4>2. \E o \in BOOLEAN : over' = [over EXCEPT ![g] = o]
        BY <1>0, <3>2 DEF GameThrows, GameSpins
      <4>3. \E n \in Nat \ {0} : next' = [next EXCEPT ![g] = n]
        <5>1. next' = [next EXCEPT ![g] = next[g]] /\ next[g] \in Nat \ {0}
          BY <1>0, <3>2 DEF GameThrows, GameSpins
        <5> QED  BY <5>1
      <4>4. \E l \in {"send", "spin", "ended"} : gpc' = [gpc EXCEPT ![g] = l]
        BY <3>2 DEF GameThrows, GameSpins
      <4> QED  BY <3>2, <4>1, <4>2, <4>3, <4>4 DEF GameThrows, GameSpins
    <3> QED  BY <1>15, <3>1, <3>2
  <2> QED  BY <1>0, <2>1, <2>2, SMTT(20)
<1>16. ASSUME NEW g \in Code, GamePush(g)
      PROVE  TypeOK'
  <2> DEFINE c == queues[g][next[g]]
  <2>1. queues[g] \in Seq(Client) /\ next[g] \in 1..Len(queues[g]) /\ c \in Client
    BY <1>0, <1>16, ElementOfSeq, LenProperties DEF GamePush
  <2>2. RemoveAt(queues[g], next[g]) \in Seq(Client)
    BY <2>1, RemoveAtIs
  <2>3. Append(feedback[c], outgoing[g]) \in Seq(Feedback)
    BY <1>0, <2>1, SMTT(20) DEF Feedback
  <2>4. next[g] + 1 \in Nat \ {0}
    BY <1>0
  <2>5. CASE ~fbClosed[c] /\ Len(feedback[c]) < FeedbackCap
    <3>1. /\ feedback' = [feedback EXCEPT ![c] = Append(@, outgoing[g])]
          /\ next' = [next EXCEPT ![g] = @ + 1]
          /\ UNCHANGED queues
      BY <1>16, <2>5 DEF GamePush
    <3> QED  BY <1>0, <1>16, <2>3, <2>4, <3>1 DEF GamePush
  <2>6. CASE ~(~fbClosed[c] /\ Len(feedback[c]) < FeedbackCap)
    <3>1. Drop(g)
      BY <1>16, <2>6 DEF GamePush
    <3> QED  BY <1>0, <1>16, <2>2, <3>1 DEF GamePush, Drop
  <2> QED  BY <2>5, <2>6
<1>17. ASSUME NEW g \in Code, GameUnlock(g)
      PROVE  TypeOK'
  BY <1>0, <1>17 DEF GameUnlock, StillRunning
<1>18. CASE Quit \/ AccepterEnds \/ KillDone \/ ServerEnds
  <2>1. /\ quit' \in BOOLEAN /\ apc' \in {"accept", "reap", "reapJoin", "kill", "killJoin",
                                           "killSender", "games", "gameJoin", "done"}
        /\ UNCHANGED <<clientVars, receiverVars, senderVars, managerVars, gameVars, clients,
                       reap, target>>
    BY <1>0, <1>18 DEF Quit, AccepterEnds, KillDone, ServerEnds
  <2> QED  BY <1>0, <2>1
<1>19. ASSUME NEW c \in Client, Reap(c) \/ KillStop(c)
      PROVE  TypeOK'
  <2>1. CASE Reap(c)
    BY <1>0, <2>1 DEF Reap, StopSender
  <2>2. CASE KillStop(c)
    <3>1. CASE rpc[c] = "dead"
      BY <1>0, <2>2, <3>1 DEF KillStop
    <3>2. CASE rpc[c] # "dead"
      <4>1. /\ conn' = [conn EXCEPT ![c] = "closed"]
            /\ asking' = [asking EXCEPT ![c] = FALSE]
            /\ seen' = [seen EXCEPT ![c] = "none"]
            /\ target' = c /\ apc' = "killJoin"
            /\ UNCHANGED <<receiverVars, senderVars, managerVars, gameVars, quit, clients, reap>>
        BY <2>2, <3>2 DEF KillStop, HangUp
      <4> QED  BY <1>0, <4>1
    <3> QED  BY <3>1, <3>2
  <2> QED  BY <1>19, <2>1, <2>2
<1>20. CASE KillJoin \/ DeleteReceiver
  <2>1. CASE KillJoin
    BY <1>0, <2>1 DEF KillJoin, StopSender
  <2>2. CASE DeleteReceiver
    BY <1>0, <2>2 DEF DeleteReceiver, HangUp
  <2> QED  BY <1>20, <2>1, <2>2
<1>21. ASSUME NEW g \in Code, StopGame(g)
      PROVE  TypeOK'
  BY <1>0, <1>21 DEF StopGame
<1>22. CASE DeleteGame
  BY <1>0, <1>22 DEF DeleteGame
<1>23. CASE UNCHANGED vars
  BY <1>0, <1>23 DEF vars
<1> HIDE DEF TypeOK
<1> QED  BY <1>1, <1>2, <1>3, <1>4, <1>5, <1>6, <1>7, <1>8, <1>9, <1>10, <1>11, <1>12, <1>13,
            <1>14, <1>15, <1>16, <1>17, <1>18, <1>19, <1>20, <1>21, <1>22, <1>23
         DEF Next, Receiver, ReceiverRuns, Game, Accepter

------------------------------------------------------------------------------
(* The manager's mutex *)

LEMMA MutexStep ==
  ASSUME IInv, [Next]_vars
  PROVE  MutexHeld'
<1> USE DEF MutexHeld, Holding
<1>0. /\ rpc \in [Client -> {"none", "lobby", "lock", "createPush", "createJoin", "joinPush",
                            "refusePush", "joinEnter", "play", "push", "dead", "freed"}]
      /\ MutexHeld
      /\ None \notin Client
  BY NoneAssumption DEF IInv, TypeOK
<1>1. ASSUME NEW c \in Client, CreateLock(c) \/ JoinLock(c)
      PROVE  MutexHeld'
  BY <1>0, <1>1 DEF CreateLock, CreateThrows, JoinLock, ManagerUnlocked, Goto
<1>2. ASSUME NEW c \in Client, CreatePush(c) \/ JoinPush(c)
      PROVE  MutexHeld'
  BY <1>0, <1>2 DEF CreatePush, JoinPush, Goto
<1>3. ASSUME NEW c \in Client, CreateFinish(c) \/ RefusePush(c) \/ JoinEnter(c)
      PROVE  MutexHeld'
  BY <1>0, <1>3 DEF CreateFinish, RefusePush, JoinEnter, Goto
<1>4. ASSUME NEW c \in Client,
             \/ Accept(c) \/ ReceiveRequest(c) \/ PushCommand(c) \/ WaitToPush(c)
             \/ ReceiverEnds(c)
      PROVE  MutexHeld'
  BY <1>0, <1>4 DEF Accept, ReceiveRequest, PushCommand, WaitToPush, ReceiverEnds, Goto
<1>5. CASE DeleteReceiver
  BY <1>0, <1>5 DEF DeleteReceiver
<1>6. CASE UNCHANGED <<rpc, mgr>>
  BY <1>0, <1>6
<1>7. ASSUME NEW c \in Client, ClientCloses(c) \/ Sender(c) \/ Reap(c) \/ KillStop(c)
      PROVE  UNCHANGED <<rpc, mgr>>
  BY <1>7 DEF ClientCloses, Sender, SenderDelivers, SenderFails, SenderStopped, Reap, KillStop
<1>8. ASSUME NEW g \in Code, Game(g) \/ StopGame(g)
      PROVE  UNCHANGED <<rpc, mgr>>
  BY <1>8
     DEF Game, GameLoop, ExecuteCommand, GameStep, GameThrows, GameSpins,
         GamePush, GameUnlock, StopGame
<1>9. CASE \/ Quit \/ AccepterEnds \/ KillJoin \/ KillDone \/ DeleteGame \/ ServerEnds
           \/ UNCHANGED vars
  BY <1>0, <1>9 DEF Quit, AccepterEnds, KillJoin, KillDone, DeleteGame, ServerEnds, vars
<1> HIDE DEF MutexHeld, Holding
<1> QED  BY <1>1, <1>2, <1>3, <1>4, <1>5, <1>6, <1>7, <1>8, <1>9
         DEF Next, Receiver, ReceiverRuns, Accepter

------------------------------------------------------------------------------
(* Receivers and the Accepter *)

(* What the steps of Receivers, Senders and games make of a Receiver: it   *)
(* lives, and who has come to its end does not move.                       *)
LEMMA PresenceStep ==
  ASSUME IInv, [Next]_vars
  PROVE  Presence'
<1> USE DEF Presence, Ending
<1>0. /\ rpc \in [Client -> {"none", "lobby", "lock", "createPush", "createJoin", "joinPush",
                            "refusePush", "joinEnter", "play", "push", "dead", "freed"}]
      /\ conn \in [Client -> {"new", "open", "closed"}]
      /\ clients \in SUBSET Client /\ reap \in SUBSET Client
      /\ Presence
  BY DEF IInv, TypeOK
<1>1. ASSUME NEW c \in Client,
             \/ ReceiveRequest(c) \/ CreateLock(c) \/ CreatePush(c) \/ JoinLock(c)
             \/ RefusePush(c) \/ JoinPush(c) \/ JoinEnter(c) \/ CreateFinish(c)
             \/ PushCommand(c) \/ WaitToPush(c) \/ ReceiverEnds(c)
      PROVE  Presence'
  <2>1. rpc[c] \notin {"none", "dead", "freed"}
    BY <1>1 DEF ReceiveRequest, CreateLock, CreatePush, JoinLock, RefusePush, JoinPush,
       JoinEnter, CreateFinish, PushCommand, WaitToPush, ReceiverEnds
  <2>2. \E l \in {"lobby", "lock", "createPush", "createJoin", "joinPush", "refusePush",
                  "joinEnter", "play", "push", "dead"} : rpc' = [rpc EXCEPT ![c] = l]
    BY <1>1 DEF ReceiveRequest, CreateLock, CreateThrows, CreatePush, JoinLock, RefusePush,
       JoinPush, JoinEnter, CreateFinish, PushCommand, WaitToPush, ReceiverEnds, Goto
  <2>3. UNCHANGED <<conn, clients, reap, apc, target>>
    BY <1>1 DEF ReceiveRequest, CreateLock, CreateThrows, CreatePush, JoinLock, RefusePush,
       JoinPush, JoinEnter, CreateFinish, PushCommand, WaitToPush, ReceiverEnds
  <2>4. games \subseteq games' \/ clients = {}
    <3>1. CASE CreateFinish(c)
      <4>1. EmptyGames = {}
        BY DEF IInv, Rooms, EmptyGames
      <4> QED  BY <3>1, <4>1 DEF CreateFinish
    <3>2. CASE ~CreateFinish(c)
      BY <1>1, <3>2 DEF ReceiveRequest, CreateLock, CreateThrows, CreatePush, JoinLock,
         RefusePush, JoinPush, JoinEnter, PushCommand, WaitToPush, ReceiverEnds
    <3> QED  BY <3>1, <3>2
  <2>5. c \in clients
    BY <1>0, <2>1
  <2> QED  BY <1>0, <2>1, <2>2, <2>3, <2>4, <2>5
<1>2. ASSUME NEW c \in Client, Accept(c)
      PROVE  Presence'
  BY <1>0, <1>2 DEF Accept, Goto, Dead
<1>3. ASSUME NEW c \in Client, ClientCloses(c)
      PROVE  Presence'
  BY <1>0, <1>3 DEF ClientCloses, HangUp
<1>4. ASSUME NEW c \in Client, Reap(c)
      PROVE  Presence'
  BY <1>0, <1>4 DEF Reap
<1>5. ASSUME NEW c \in Client, KillStop(c)
      PROVE  Presence'
  BY <1>0, <1>5 DEF KillStop, HangUp
<1>6. CASE KillJoin
  BY <1>0, <1>6 DEF KillJoin
<1>7. CASE DeleteReceiver
  <2>1. target \in clients /\ rpc[target] = "dead"
    BY <1>0, <1>7 DEF DeleteReceiver
  <2>2. apc = "killSender" => reap = {}
    BY <1>0
  <2>3. target \notin reap
    BY <1>0, <1>7, <2>2 DEF DeleteReceiver
  <2>4. UNCHANGED <<games, reap>>
    BY <1>7 DEF DeleteReceiver
  <2>5. apc' \in {"kill", "accept", "reap"} /\ (apc' # "reap" => reap = {})
    BY <1>7, <2>2 DEF DeleteReceiver
  <2> QED  BY <1>0, <1>7, <2>1, <2>3, <2>4, <2>5 DEF DeleteReceiver, HangUp
<1>8. CASE AccepterEnds \/ KillDone \/ ServerEnds \/ DeleteGame
  BY <1>0, <1>8 DEF AccepterEnds, KillDone, ServerEnds, DeleteGame
<1>9. ASSUME NEW g \in Code, StopGame(g)
      PROVE  Presence'
  BY <1>0, <1>9 DEF StopGame
<1>10. CASE UNCHANGED <<rpc, conn, clients, reap, apc, target, games>>
  BY <1>0, <1>10
<1>11. ASSUME NEW c \in Client, Sender(c)
      PROVE  UNCHANGED <<rpc, conn, clients, reap, apc, target, games>>
  BY <1>11 DEF Sender, SenderDelivers, SenderFails, SenderStopped
<1>12. ASSUME NEW g \in Code, Game(g)
      PROVE  UNCHANGED <<rpc, conn, clients, reap, apc, target, games>>
  BY <1>12 DEF Game, GameLoop, ExecuteCommand, GameStep, GameThrows, GameSpins, GamePush, GameUnlock
<1>13. CASE Quit \/ UNCHANGED vars
  BY <1>13, <1>10 DEF Quit, vars
<1> HIDE DEF Presence, Ending
<1> QED  BY <1>1, <1>2, <1>3, <1>4, <1>5, <1>6, <1>7, <1>8, <1>9, <1>10, <1>11, <1>12, <1>13
         DEF Next, Receiver, ReceiverRuns, Accepter

------------------------------------------------------------------------------
(* Games *)

(* One Receiver at a time is in createGame or joinGame.                    *)
LEMMA OneHolds ==
  ASSUME IInv, NEW c \in Client, rpc[c] \in Holding
  PROVE  \A d \in Client : rpc[d] \in Holding => d = c
BY DEF IInv, MutexHeld

(* cleanEmptyGames finds nothing: a game never loses a member.             *)
LEMMA NothingToClean ==
  ASSUME IInv
  PROVE  EmptyGames = {}
BY DEF IInv, Rooms, EmptyGames

LEMMA RoomsStep ==
  ASSUME IInv, [Next]_vars
  PROVE  Rooms'
<1> USE DEF Rooms, Ending
<1>0. /\ rpc \in [Client -> {"none", "lobby", "lock", "createPush", "createJoin", "joinPush",
                            "refusePush", "joinEnter", "play", "push", "dead", "freed"}]
      /\ req \in [Client -> Code \cup {"create", None}]
      /\ gpc \in [Code -> {"none", "new", "head", "sleep", "send", "spin", "ended", "deleted"}]
      /\ players \in [Code -> Nat]
      /\ queues \in [Code -> Seq(Client)]
      /\ running \in [Code -> BOOLEAN]
      /\ games \in SUBSET Code
      /\ Rooms
  BY DEF IInv, TypeOK
<1>1. ASSUME NEW c \in Client,
             \/ Accept(c) \/ ReceiveRequest(c) \/ RefusePush(c) \/ PushCommand(c)
             \/ WaitToPush(c) \/ ReceiverEnds(c)
      PROVE  Rooms'
  <2>1. \E l \in {"lobby", "lock", "play", "push", "dead"} : rpc' = [rpc EXCEPT ![c] = l]
    BY <1>1 DEF Accept, ReceiveRequest, RefusePush, PushCommand, WaitToPush, ReceiverEnds, Goto
  <2>2. /\ UNCHANGED <<games, gpc, players, queues, running>>
        /\ \A d \in Client \ {c} : req'[d] = req[d]
        /\ apc \notin {"games", "gameJoin", "done"} \/ apc' = apc
    BY <1>0, <1>1 DEF Accept, ReceiveRequest, RefusePush, PushCommand, WaitToPush, ReceiverEnds
  <2> QED  BY <1>0, <2>1, <2>2
<1>2. ASSUME NEW c \in Client, CreateLock(c)
      PROVE  Rooms'
  <2>1. CASE Cardinality(games) >= MaxGames
    BY <1>0, <1>2, <2>1 DEF CreateLock, CreateThrows, Goto
  <2>2. CASE ~(Cardinality(games) >= MaxGames)
    <3>1. PICK g \in Code \ games : /\ req' = [req EXCEPT ![c] = g]
                                    /\ gpc' = [gpc EXCEPT ![g] = "new"]
      BY <1>2, <2>2 DEF CreateLock
    <3>2. rpc' = [rpc EXCEPT ![c] = "createPush"]
      BY <1>2, <2>2 DEF CreateLock, Goto
    <3>3. UNCHANGED <<games, players, queues, running, apc>>
      BY <1>2 DEF CreateLock
    <3> QED  BY <1>0, <3>1, <3>2, <3>3
  <2> QED  BY <2>1, <2>2
<1>3. ASSUME NEW c \in Client, CreatePush(c) \/ JoinPush(c)
      PROVE  Rooms'
  BY <1>0, <1>3 DEF CreatePush, JoinPush, Goto
<1>4. ASSUME NEW c \in Client, JoinLock(c)
      PROVE  Rooms'
  BY <1>0, <1>4 DEF JoinLock, Joinable, Goto
<1>5. ASSUME NEW c \in Client, CreateFinish(c)
      PROVE  Rooms'
  <2>1. req[c] \in Code \ games
    BY <1>0, <1>5 DEF CreateFinish
  <2>2. /\ games' = games \cup {req[c]}
        /\ gpc' = [gpc EXCEPT ![req[c]] = "head"]
        /\ players' = [players EXCEPT ![req[c]] = @ + 1]
        /\ \A g \in Code \ {req[c]} : queues'[g] = queues[g]
        /\ rpc' = [rpc EXCEPT ![c] = "play"]
        /\ UNCHANGED <<req, running, apc>>
    BY <1>0, <1>5, NothingToClean DEF CreateFinish, JoinBody, Goto
  <2>3. \A d \in Client : rpc[d] \in Holding => d = c
    BY <1>5, OneHolds DEF CreateFinish, Holding
  <2> QED  BY <1>0, <2>1, <2>2, <2>3 DEF Holding
<1>6. ASSUME NEW c \in Client, JoinEnter(c)
      PROVE  Rooms'
  <2>1. req[c] \in games
    BY <1>0, <1>6 DEF JoinEnter
  <2>2. /\ players' = [players EXCEPT ![req[c]] = @ + 1]
        /\ \A g \in Code \ {req[c]} : queues'[g] = queues[g]
        /\ rpc' = [rpc EXCEPT ![c] = "play"]
        /\ UNCHANGED <<games, gpc, req, running, apc>>
    BY <1>0, <1>6 DEF JoinEnter, JoinBody, Goto
  <2>3. \A d \in Client : rpc[d] \in Holding => d = c
    BY <1>6, OneHolds DEF JoinEnter, Holding
  <2> QED  BY <1>0, <2>1, <2>2, <2>3 DEF Holding
<1>7. ASSUME NEW g \in Code, GameLoop(g)
      PROVE  Rooms'
  BY <1>0, <1>7 DEF GameLoop
<1>8. ASSUME NEW g \in Code, GameStep(g) \/ GameThrows(g) \/ GameSpins(g)
      PROVE  Rooms'
  <2>1. /\ gpc[g] = "sleep"
        /\ \E l \in {"send", "spin", "ended"} : gpc' = [gpc EXCEPT ![g] = l]
        /\ UNCHANGED <<rpc, req, games, players, queues, running, apc>>
    BY <1>8 DEF ExecuteCommand, GameStep, GameThrows, GameSpins
  <2> QED  BY <1>0, <2>1
<1>9. ASSUME NEW g \in Code, GamePush(g)
      PROVE  Rooms'
  <2>1. g \in games
    BY <1>0, <1>9 DEF GamePush
  <2>2. /\ \A h \in Code \ {g} : queues'[h] = queues[h]
        /\ UNCHANGED <<rpc, req, games, gpc, players, running, apc>>
    BY <1>0, <1>9 DEF GamePush, Drop
  <2> QED  BY <1>0, <2>1, <2>2
<1>10. ASSUME NEW g \in Code, GameUnlock(g)
      PROVE  Rooms'
  BY <1>0, <1>10 DEF GameUnlock, StillRunning
<1>11. CASE DeleteReceiver
  BY <1>0, <1>11 DEF DeleteReceiver
<1>12. ASSUME NEW g \in Code, StopGame(g)
      PROVE  Rooms'
  BY <1>0, <1>12 DEF StopGame
<1>13. CASE DeleteGame
  BY <1>0, <1>13 DEF DeleteGame
<1>14. ASSUME UNCHANGED <<rpc, req, games, gpc, players, queues, running>>, Ending => Ending'
      PROVE  Rooms'
  BY <1>0, <1>14
<1>15. ASSUME NEW c \in Client, ClientCloses(c) \/ Sender(c) \/ Reap(c) \/ KillStop(c)
      PROVE  Rooms'
  BY <1>15, <1>14
     DEF ClientCloses, Sender, SenderDelivers, SenderFails, SenderStopped, Reap, KillStop
<1>16. CASE Quit \/ AccepterEnds \/ KillJoin \/ KillDone \/ ServerEnds \/ UNCHANGED vars
  BY <1>16, <1>14 DEF Quit, AccepterEnds, KillJoin, KillDone, ServerEnds, vars
<1> HIDE DEF Rooms, Ending
<1> QED  BY <1>1, <1>2, <1>3, <1>4, <1>5, <1>6, <1>7, <1>8, <1>9, <1>10, <1>11, <1>12, <1>13,
            <1>15, <1>16
         DEF Next, Receiver, ReceiverRuns, Game, Sender, Accepter

------------------------------------------------------------------------------
(* Who is in which game *)

(* Game::join() takes the next id for a Receiver that has none.            *)
LEMMA SeatTaken ==
  ASSUME IInv, NEW c \in Client, NEW g \in Code, gameOf[c] = None,
         players[g] < MaxPlayers, JoinBody(c, g)
  PROVE  (\A h \in Code : IsFiniteSet(Members(h)))' /\ PlayersNumbered'
<1>0. /\ gameOf \in [Client -> Code \cup {None}]
      /\ players \in [Code -> Nat]
      /\ playerId \in [Client -> Nat]
      /\ \A h \in Code : IsFiniteSet(Members(h))
      /\ PlayersNumbered
      /\ None \notin Code
      /\ MaxPlayers \in Nat
  BY CapAssumption, NoneAssumption DEF IInv, TypeOK, Seats
<1>1. /\ gameOf' = [gameOf EXCEPT ![c] = g]
      /\ players' = [players EXCEPT ![g] = @ + 1]
      /\ playerId' = [playerId EXCEPT ![c] = players[g] + 1]
  BY DEF JoinBody
<1>2. /\ Members(g)' = Members(g) \cup {c}
      /\ c \notin Members(g)
      /\ \A h \in Code \ {g} : Members(h)' = Members(h) /\ c \notin Members(h)
  BY <1>0, <1>1 DEF Members
<1>3. /\ IsFiniteSet(Members(g) \cup {c})
      /\ Cardinality(Members(g) \cup {c}) = Cardinality(Members(g)) + 1
  BY <1>0, <1>2, FS_AddElement
<1>4. \A h \in Code : IsFiniteSet(Members(h)')
  BY <1>0, <1>2, <1>3
<1>5. ASSUME NEW h \in Code
      PROVE  /\ players'[h] <= MaxPlayers
             /\ Cardinality(Members(h)') = players'[h]
             /\ {playerId'[d] : d \in Members(h)'} = 1..players'[h]
  <2>0. /\ players[h] <= MaxPlayers /\ players[h] \in Nat
        /\ Cardinality(Members(h)) = players[h]
        /\ {playerId[d] : d \in Members(h)} = 1..players[h]
    BY <1>0 DEF PlayersNumbered
  <2>1. \A d \in Members(h) : d # c /\ d \in Client /\ playerId'[d] = playerId[d]
    BY <1>0, <1>1, <1>2 DEF Members
  <2>2. {playerId'[d] : d \in Members(h)} = 1..players[h]
    BY <2>0, <2>1
  <2>3. CASE h = g
    <3>1. playerId'[c] = players[g] + 1 /\ players'[g] = players[g] + 1
      BY <1>0, <1>1
    <3>2. {playerId'[d] : d \in Members(h) \cup {c}}
             = {playerId'[d] : d \in Members(h)} \cup {players[g] + 1}
      BY <3>1
    <3>3. (1..players[g]) \cup {players[g] + 1} = 1..(players[g] + 1)
      BY <2>0, <2>3
    <3>4. Members(h)' = Members(h) \cup {c}
      BY <1>2, <2>3
    <3>5. {playerId'[d] : d \in Members(h)'} = 1..players'[h]
      BY <2>2, <2>3, <3>1, <3>2, <3>3, <3>4
    <3>6. Cardinality(Members(h)') = players'[h]
      BY <1>3, <2>0, <2>3, <3>1, <3>4
    <3>7. players'[h] <= MaxPlayers
      BY <1>0, <2>0, <2>3, <3>1
    <3> QED  BY <3>5, <3>6, <3>7
  <2>4. CASE h # g
    BY <1>0, <1>1, <1>2, <2>0, <2>2, <2>4
  <2> QED  BY <2>3, <2>4
<1> QED  BY <1>4, <1>5 DEF PlayersNumbered

LEMMA SeatsStep ==
  ASSUME IInv, [Next]_vars
  PROVE  Seats'
<1> USE DEF NoGameYet, Asking, Answered
<1> DEFINE Seated == \A c \in Client :
                       /\ gameOf[c] \in games \cup {None}
                       /\ rpc[c] \in NoGameYet => gameOf[c] = None
                       /\ rpc[c] \in {"play", "push"} => gameOf[c] \in games
           Numbered == (\A g \in Code : IsFiniteSet(Members(g))) /\ PlayersNumbered
<1>0. /\ rpc \in [Client -> {"none", "lobby", "lock", "createPush", "createJoin", "joinPush",
                            "refusePush", "joinEnter", "play", "push", "dead", "freed"}]
      /\ gameOf \in [Client -> Code \cup {None}]
      /\ games \in SUBSET Code
      /\ Seated /\ Numbered
      /\ None \notin Code
      /\ MaxPlayers \in Nat \ {0}
  BY CapAssumption, NoneAssumption DEF IInv, TypeOK, Seats
<1>1. ASSUME NEW c \in Client, NEW g \in Code, gameOf[c] = None, players[g] < MaxPlayers,
             JoinBody(c, g), games' = games \cup {g}, rpc' = [rpc EXCEPT ![c] = "play"]
      PROVE  Seats'
  <2>1. Numbered'
    BY <1>1, SeatTaken
  <2>2. Seated'
    BY <1>0, <1>1 DEF JoinBody
  <2> QED  BY <2>1, <2>2 DEF Seats
<1>2. ASSUME NEW c \in Client, CreateFinish(c)
      PROVE  Seats'
  <2>1. req[c] \in Code /\ players[req[c]] = 0 /\ gameOf[c] = None
    BY <1>0, <1>2 DEF IInv, Rooms, CreateFinish
  <2>2. /\ JoinBody(c, req[c])
        /\ games' = games \cup {req[c]}
        /\ rpc' = [rpc EXCEPT ![c] = "play"]
    BY <1>2, NothingToClean DEF CreateFinish, Goto
  <2>3. players[req[c]] < MaxPlayers
    BY <1>0, <2>1
  <2> QED  BY <1>1, <2>1, <2>2, <2>3
<1>3. ASSUME NEW c \in Client, JoinEnter(c)
      PROVE  Seats'
  <2>1. req[c] \in games /\ players[req[c]] < MaxPlayers /\ gameOf[c] = None
    BY <1>0, <1>3 DEF IInv, Rooms, JoinEnter
  <2>2. /\ JoinBody(c, req[c])
        /\ games' = games \cup {req[c]}
        /\ rpc' = [rpc EXCEPT ![c] = "play"]
        /\ req[c] \in Code
    BY <1>0, <1>3, <2>1 DEF JoinEnter, Goto
  <2> QED  BY <1>1, <2>1, <2>2
<1>4. ASSUME Seated', UNCHANGED <<gameOf, players, playerId>>
      PROVE  Seats'
  BY <1>0, <1>4 DEF Seats, Members, PlayersNumbered
<1>5. ASSUME NEW c \in Client,
             \/ ReceiveRequest(c) \/ CreateLock(c) \/ CreatePush(c) \/ JoinLock(c)
             \/ RefusePush(c) \/ JoinPush(c) \/ PushCommand(c) \/ WaitToPush(c)
             \/ ReceiverEnds(c)
      PROVE  Seats'
  <2>1. UNCHANGED <<gameOf, players, playerId, games>>
    BY <1>5 DEF ReceiveRequest, CreateLock, CreateThrows, CreatePush, JoinLock,
       RefusePush, JoinPush, PushCommand, WaitToPush, ReceiverEnds
  <2>2. \/ \E l \in {"lobby", "lock", "createPush", "createJoin", "joinPush", "refusePush",
                     "joinEnter", "dead"} :
              rpc' = [rpc EXCEPT ![c] = l] /\ (l = "dead" \/ rpc[c] \in NoGameYet)
        \/ \E l \in {"play", "push"} :
              rpc' = [rpc EXCEPT ![c] = l] /\ rpc[c] \in {"play", "push"}
    BY <1>5 DEF ReceiveRequest, CreateLock, CreateThrows, CreatePush, JoinLock,
       RefusePush, JoinPush, PushCommand, WaitToPush, ReceiverEnds, Goto
  <2>3. Seated'
    BY <1>0, <2>1, <2>2
  <2> HIDE DEF Seated
  <2> QED  BY <1>4, <2>1, <2>3
<1>6. ASSUME NEW c \in Client, Accept(c)
      PROVE  Seats'
  <2>1. rpc[c] = "none"
    BY <1>6 DEF IInv, Presence, Accept
  <2>2. rpc' = [rpc EXCEPT ![c] = "lobby"] /\ UNCHANGED <<gameOf, players, playerId, games>>
    BY <1>6 DEF Accept, Goto
  <2>3. Seated'
    BY <1>0, <2>1, <2>2
  <2> HIDE DEF Seated
  <2> QED  BY <1>4, <2>2, <2>3
<1>7. CASE DeleteReceiver
  <2>1. rpc' = [rpc EXCEPT ![target] = "freed"] /\ UNCHANGED <<gameOf, players, playerId, games>>
    BY <1>7 DEF DeleteReceiver
  <2>2. Seated'
    BY <1>0, <2>1
  <2> HIDE DEF Seated
  <2> QED  BY <1>4, <2>1, <2>2
<1>8. CASE UNCHANGED <<rpc, gameOf, players, playerId, games>>
  <2>1. Seated'
    BY <1>0, <1>8
  <2> HIDE DEF Seated
  <2> QED  BY <1>4, <1>8, <2>1
<1>9. ASSUME NEW c \in Client, ClientCloses(c) \/ Sender(c) \/ Reap(c) \/ KillStop(c)
      PROVE  UNCHANGED <<rpc, gameOf, players, playerId, games>>
  BY <1>9 DEF ClientCloses, Sender, SenderDelivers, SenderFails, SenderStopped, Reap, KillStop
<1>10. ASSUME NEW g \in Code, Game(g) \/ StopGame(g)
       PROVE  UNCHANGED <<rpc, gameOf, players, playerId, games>>
  BY <1>10
     DEF Game, GameLoop, ExecuteCommand, GameStep, GameThrows, GameSpins,
         GamePush, GameUnlock, StopGame
<1>11. ASSUME \/ Quit \/ AccepterEnds \/ KillJoin \/ KillDone \/ DeleteGame \/ ServerEnds
              \/ UNCHANGED vars
       PROVE  UNCHANGED <<rpc, gameOf, players, playerId, games>>
  BY <1>11 DEF Quit, AccepterEnds, KillJoin, KillDone, DeleteGame, ServerEnds, vars
<1> HIDE DEF NoGameYet, Asking, Answered
<1> QED  BY <1>2, <1>3, <1>5, <1>6, <1>7, <1>8, <1>9, <1>10, <1>11
         DEF Next, Receiver, ReceiverRuns, Accepter

------------------------------------------------------------------------------
(* The lobby *)

LEMMA LobbyStep ==
  ASSUME IInv, [Next]_vars
  PROVE  Lobby'
<1> USE DEF Lobby, Asking
<1>0. /\ rpc \in [Client -> {"none", "lobby", "lock", "createPush", "createJoin", "joinPush",
                            "refusePush", "joinEnter", "play", "push", "dead", "freed"}]
      /\ conn \in [Client -> {"new", "open", "closed"}]
      /\ asking \in [Client -> BOOLEAN]
      /\ feedback \in [Client -> Seq(Feedback)]
      /\ Lobby
  BY DEF IInv, TypeOK
<1>1. ASSUME NEW c \in Client, ClientCloses(c)
      PROVE  Lobby'
  BY <1>0, <1>1 DEF ClientCloses, HangUp
<1>2. ASSUME NEW c \in Client, Accept(c)
      PROVE  Lobby'
  <2>1. rpc[c] = "none"
    BY <1>2 DEF IInv, Presence, Accept
  <2> QED  BY <1>0, <1>2, <2>1 DEF Accept, Goto
<1>3. ASSUME NEW c \in Client, ReceiveRequest(c)
      PROVE  Lobby'
  BY <1>0, <1>3 DEF ReceiveRequest, Goto
<1>4. ASSUME NEW c \in Client, CreateLock(c) \/ JoinLock(c)
      PROVE  Lobby'
  <2>1. rpc[c] = "lock" /\ UNCHANGED <<feedback, conn, asking>>
    BY <1>4 DEF CreateLock, JoinLock
  <2>2. \E l \in {"createPush", "joinPush", "refusePush", "dead"} : rpc' = [rpc EXCEPT ![c] = l]
    BY <1>4 DEF CreateLock, CreateThrows, JoinLock, Goto
  <2> QED  BY <1>0, <2>1, <2>2
<1>5. ASSUME NEW c \in Client, CreatePush(c) \/ JoinPush(c)
      PROVE  Lobby'
  BY <1>0, <1>5 DEF CreatePush, JoinPush, PushFeedback, Goto
<1>6. ASSUME NEW c \in Client, RefusePush(c)
      PROVE  Lobby'
  <2>1. feedback' = [feedback EXCEPT ![c] = Append(@, "notjoined")]
    BY <1>6 DEF RefusePush, PushFeedback
  <2>2. feedback[c] = <<>> /\ Append(feedback[c], "notjoined") = <<"notjoined">>
    <3>1. Append(<<>>, "notjoined") = <<"notjoined">>
      OBVIOUS
    <3> QED  BY <1>0, <1>6, <3>1 DEF RefusePush
  <2>3. rpc' = [rpc EXCEPT ![c] = "lobby"] /\ UNCHANGED <<conn, asking>>
    BY <1>6 DEF RefusePush, Goto
  <2>4. conn[c] = "open" => asking[c]
    BY <1>0, <1>6 DEF RefusePush
  <2> QED  BY <1>0, <2>1, <2>2, <2>3, <2>4
<1>7. ASSUME NEW c \in Client,
             \/ CreateFinish(c) \/ JoinEnter(c) \/ PushCommand(c) \/ WaitToPush(c)
             \/ ReceiverEnds(c)
      PROVE  Lobby'
  <2>1. \E l \in {"play", "push", "dead"} : rpc' = [rpc EXCEPT ![c] = l]
    BY <1>7 DEF CreateFinish, JoinEnter, PushCommand, WaitToPush, ReceiverEnds, Goto
  <2>2. UNCHANGED <<feedback, conn, asking>>
    BY <1>7 DEF CreateFinish, JoinEnter, PushCommand, WaitToPush, ReceiverEnds
  <2> QED  BY <1>0, <2>1, <2>2
<1>8. ASSUME NEW c \in Client, SenderDelivers(c) \/ SenderFails(c)
      PROVE  Lobby'
  <2>1. feedback[c] # <<>> /\ feedback' = [feedback EXCEPT ![c] = Tail(@)] /\ UNCHANGED <<conn, rpc>>
    BY <1>8 DEF SenderDelivers, SenderFails
  <2>2. rpc[c] \notin {"none", "lock", "createPush", "joinPush", "refusePush"}
    BY <1>0, <2>1
  <2>3. rpc[c] = "lobby" => Tail(feedback[c]) = <<>>
    <3>1. Tail(<<"notjoined">>) = <<>>
      OBVIOUS
    <3> QED  BY <1>0, <2>1, <3>1
  <2>4. \A d \in Client \ {c} : asking'[d] = asking[d]
    BY <1>0, <1>8 DEF SenderDelivers, SenderFails
  <2> QED  BY <1>0, <2>1, <2>2, <2>3, <2>4
<1>9. ASSUME NEW g \in Code, GamePush(g)
      PROVE  Lobby'
  <2> DEFINE c == queues[g][next[g]]
  <2>1. queues[g] \in Seq(Client) /\ next[g] \in 1..Len(queues[g]) /\ c \in Client
    BY <1>9, ElementOfSeq, LenProperties DEF IInv, TypeOK, GamePush
  <2>2. gameOf[c] = g /\ g # None
    BY <2>1, NoneAssumption DEF IInv, Queued
  <2>3. rpc[c] \notin {"none", "lobby", "lock", "createPush", "joinPush", "refusePush"}
    BY <2>1, <2>2 DEF IInv, Seats, NoGameYet, Answered
  <2>4. feedback' = feedback \/ feedback' = [feedback EXCEPT ![c] = Append(@, outgoing[g])]
    BY <1>9 DEF GamePush, Drop
  <2>5. UNCHANGED <<rpc, conn, asking>>
    BY <1>9 DEF GamePush
  <2> HIDE DEF c
  <2> QED  BY <1>0, <2>1, <2>3, <2>4, <2>5
<1>10. ASSUME NEW c \in Client, KillStop(c)
      PROVE  Lobby'
  BY <1>0, <1>10 DEF KillStop, HangUp
<1>11. CASE DeleteReceiver
  BY <1>0, <1>11 DEF DeleteReceiver, HangUp
<1>12. CASE UNCHANGED <<rpc, conn, asking, feedback>>
  BY <1>0, <1>12
<1>13. ASSUME NEW c \in Client, SenderStopped(c) \/ Reap(c)
      PROVE  UNCHANGED <<rpc, conn, asking, feedback>>
  BY <1>13 DEF SenderStopped, Reap
<1>14. ASSUME NEW g \in Code, \/ GameLoop(g) \/ GameStep(g) \/ GameThrows(g) \/ GameSpins(g)
              \/ GameUnlock(g) \/ StopGame(g)
      PROVE  UNCHANGED <<rpc, conn, asking, feedback>>
  BY <1>14 DEF GameLoop, ExecuteCommand, GameStep, GameThrows, GameSpins, GameUnlock, StopGame
<1>15. ASSUME \/ Quit \/ AccepterEnds \/ KillJoin \/ KillDone \/ DeleteGame \/ ServerEnds
              \/ UNCHANGED vars
       PROVE  UNCHANGED <<rpc, conn, asking, feedback>>
  BY <1>15 DEF Quit, AccepterEnds, KillJoin, KillDone, DeleteGame, ServerEnds, vars
<1> HIDE DEF Lobby, Asking
<1> QED  BY <1>1, <1>2, <1>3, <1>4, <1>5, <1>6, <1>7, <1>8, <1>9, <1>10, <1>11, <1>12, <1>13,
            <1>14, <1>15
         DEF Next, Receiver, ReceiverRuns, Game, Sender, Accepter

------------------------------------------------------------------------------
(* player_queues *)

(* player_queues[g] loses the element at i.                                *)
LEMMA QueuedRemoves ==
  ASSUME TypeOK, Queued, NEW g \in Code, NEW i \in 1..Len(queues[g]),
         queues' = [queues EXCEPT ![g] = RemoveAt(@, i)], UNCHANGED gameOf
  PROVE  Queued'
<1>0. queues \in [Code -> Seq(Client)] /\ Len(queues[g]) \in Nat
  BY LenProperties DEF TypeOK
<1>1. /\ Len(queues'[g]) = Len(queues[g]) - 1
      /\ \A j \in 1..(Len(queues[g]) - 1) :
            queues'[g][j] = IF j < i THEN queues[g][j] ELSE queues[g][j + 1]
  BY <1>0, RemoveAtIs
<1>2. ASSUME NEW j \in 1..Len(queues'[g])
      PROVE  gameOf[queues'[g][j]] = g
  <2>1. \E k \in 1..Len(queues[g]) : queues'[g][j] = queues[g][k]
    BY <1>0, <1>1
  <2> QED  BY <2>1 DEF Queued
<1>3. ASSUME NEW j \in 1..Len(queues'[g]), NEW k \in 1..Len(queues'[g]),
             queues'[g][j] = queues'[g][k]
      PROVE  j = k
  <2> DEFINE From(m) == IF m < i THEN m ELSE m + 1
  <2>1. /\ From(j) \in 1..Len(queues[g]) /\ queues'[g][j] = queues[g][From(j)]
        /\ From(k) \in 1..Len(queues[g]) /\ queues'[g][k] = queues[g][From(k)]
    BY <1>0, <1>1
  <2>2. From(j) = From(k)
    <3> HIDE DEF From
    <3> QED  BY <1>3, <2>1 DEF Queued
  <2> QED  BY <2>2
<1>4. \A h \in Code \ {g} : queues'[h] = queues[h]
  BY <1>0
<1> SUFFICES ASSUME NEW h \in Code, NEW j \in 1..Len(queues'[h])
              PROVE  /\ gameOf'[queues'[h][j]] = h
                     /\ \A k \in 1..Len(queues'[h]) : queues'[h][k] = queues'[h][j] => k = j
  BY DEF Queued
<1>5. CASE h = g
  <2>1. gameOf' = gameOf
    OBVIOUS
  <2> QED  BY <1>2, <1>3, <1>5, <2>1
<1>6. CASE h # g
  BY <1>4, <1>6 DEF Queued
<1> QED  BY <1>5, <1>6

(* c, that was in no game, is appended to player_queues[g].                *)
LEMMA QueuedAppends ==
  ASSUME TypeOK, Queued, NEW c \in Client, NEW g \in Code, gameOf[c] = None, JoinBody(c, g)
  PROVE  Queued'
<1>0. /\ queues \in [Code -> Seq(Client)] /\ \A h \in Code : Len(queues[h]) \in Nat
      /\ gameOf \in [Client -> Code \cup {None}]
      /\ None \notin Code
  BY LenProperties, NoneAssumption DEF TypeOK
<1>1. /\ \A h \in Code : \A i \in 1..Len(queues[h]) :
            queues[h][i] \in Client /\ queues[h][i] # c
  BY <1>0, ElementOfSeq DEF Queued
<1>2. \A h \in Code : \A i \in 1..Len(queues[h]) : gameOf'[queues[h][i]] = h
  BY <1>0, <1>1 DEF Queued, JoinBody
<1>3. \A h \in Code \ {g} : queues'[h] = queues[h]
  BY <1>0 DEF JoinBody
<1>4. /\ queues'[g] = Append(queues[g], c)
      /\ Len(queues'[g]) = Len(queues[g]) + 1
      /\ queues'[g][Len(queues[g]) + 1] = c
      /\ \A i \in 1..Len(queues[g]) : queues'[g][i] = queues[g][i]
  BY <1>0, AppendProperties DEF JoinBody
<1>5. gameOf'[c] = g
  BY <1>0 DEF JoinBody
<1>6. \A i \in 1..Len(queues'[g]) : i \in 1..Len(queues[g]) \/ i = Len(queues[g]) + 1
  BY <1>0, <1>4
<1>7. ASSUME NEW i \in 1..Len(queues'[g]), NEW j \in 1..Len(queues'[g]),
             queues'[g][j] = queues'[g][i]
      PROVE  j = i
  BY <1>1, <1>4, <1>6, <1>7 DEF Queued
<1>8. ASSUME NEW i \in 1..Len(queues'[g])
      PROVE  gameOf'[queues'[g][i]] = g
  BY <1>2, <1>4, <1>5, <1>6
<1> QED  BY <1>2, <1>3, <1>7, <1>8 DEF Queued

LEMMA QueuedStep ==
  ASSUME IInv, [Next]_vars
  PROVE  Queued'
<1>0. TypeOK /\ Queued
  BY DEF IInv
<1>1. ASSUME NEW c \in Client, CreateFinish(c) \/ JoinEnter(c)
      PROVE  Queued'
  <2>1. req[c] \in Code /\ gameOf[c] = None
    BY <1>1 DEF IInv, TypeOK, Rooms, Seats, NoGameYet, Answered, CreateFinish, JoinEnter
  <2>2. JoinBody(c, req[c])
    BY <1>1 DEF CreateFinish, JoinEnter
  <2> QED  BY <1>0, <2>1, <2>2, QueuedAppends
<1>2. ASSUME NEW g \in Code, GamePush(g)
      PROVE  Queued'
  <2>1. next[g] \in 1..Len(queues[g])
    BY <1>0, <1>2, LenProperties DEF TypeOK, GamePush
  <2>2. \/ UNCHANGED <<queues, gameOf>>
        \/ queues' = [queues EXCEPT ![g] = RemoveAt(@, next[g])] /\ UNCHANGED gameOf
    BY <1>2 DEF GamePush, Drop
  <2>3. CASE UNCHANGED <<queues, gameOf>>
    BY <1>0, <2>3 DEF Queued
  <2> QED  BY <1>0, <2>1, <2>2, <2>3, QueuedRemoves
<1>3. CASE UNCHANGED <<queues, gameOf>>
  BY <1>0, <1>3 DEF Queued
<1>4. ASSUME NEW c \in Client,
             \/ ClientCloses(c) \/ Accept(c) \/ ReceiveRequest(c) \/ CreateLock(c)
             \/ CreatePush(c) \/ JoinLock(c) \/ RefusePush(c) \/ JoinPush(c)
             \/ PushCommand(c) \/ WaitToPush(c) \/ ReceiverEnds(c) \/ Sender(c)
             \/ Reap(c) \/ KillStop(c)
      PROVE  UNCHANGED <<queues, gameOf>>
  BY <1>4 DEF ClientCloses, Accept, ReceiveRequest, CreateLock, CreateThrows, CreatePush,
     JoinLock, RefusePush, JoinPush, PushCommand, WaitToPush, ReceiverEnds, Sender,
     SenderDelivers, SenderFails, SenderStopped, Reap, KillStop
<1>5. ASSUME NEW g \in Code, \/ GameLoop(g) \/ GameStep(g) \/ GameThrows(g) \/ GameSpins(g)
              \/ GameUnlock(g) \/ StopGame(g)
      PROVE  UNCHANGED <<queues, gameOf>>
  BY <1>5 DEF GameLoop, ExecuteCommand, GameStep, GameThrows, GameSpins, GameUnlock, StopGame
<1>6. ASSUME \/ Quit \/ AccepterEnds \/ KillJoin \/ DeleteReceiver \/ KillDone \/ DeleteGame
             \/ ServerEnds \/ UNCHANGED vars
      PROVE  UNCHANGED <<queues, gameOf>>
  BY <1>6 DEF Quit, AccepterEnds, KillJoin, DeleteReceiver, KillDone, DeleteGame, ServerEnds, vars
<1> QED  BY <1>1, <1>2, <1>3, <1>4, <1>5, <1>6
         DEF Next, Receiver, ReceiverRuns, Game, Accepter

------------------------------------------------------------------------------
(* What clients are sent *)

(* A feedback that may follow the last one is pushed.                      *)
LEMMA PushFollows ==
  ASSUME NEW c \in Client, NEW f \in Feedback, feedback[c] \in Seq(Feedback),
         feedback'[c] = Append(feedback[c], f), seen'[c] = seen[c],
         InOrder(c), Follows(LastOf(c), f)
  PROVE  InOrder(c)' /\ LastOf(c)' = f
<1> DEFINE n == Len(feedback[c])
<1>1. /\ n \in Nat
      /\ Len(feedback'[c]) = n + 1
      /\ feedback'[c][n + 1] = f
      /\ \A i \in 1..n : feedback'[c][i] = feedback[c][i]
      /\ feedback'[c] # <<>>
      /\ feedback[c] = <<>> <=> n = 0
  BY AppendProperties, LenProperties, EmptySeq
<1> HIDE DEF n
<1>2. LastOf(c)' = f
  BY <1>1 DEF LastOf
<1>3. LastOf(c) = IF n = 0 THEN seen[c] ELSE feedback[c][n]
  BY <1>1 DEF LastOf, n
<1>4. Follows(seen'[c], feedback'[c][1])
  <2>1. CASE n = 0
    BY <1>1, <1>3, <2>1
  <2>2. CASE n # 0
    BY <1>1, <2>2 DEF InOrder
  <2> QED  BY <2>1, <2>2
<1>5. ASSUME NEW i \in 1..n
      PROVE  Follows(feedback'[c][i], feedback'[c][i + 1])
  <2>1. CASE i = n
    BY <1>1, <1>3, <1>5, <2>1
  <2>2. CASE i # n
    <3>1. i \in 1..(n - 1) /\ i + 1 \in 1..n
      BY <1>1, <1>5, <2>2
    <3> QED  BY <1>1, <3>1 DEF InOrder, n
  <2> QED  BY <2>1, <2>2
<1>6. Len(feedback'[c]) - 1 = n
  BY <1>1
<1>7. InOrder(c)'
  BY <1>4, <1>5, <1>6 DEF InOrder
<1> QED  BY <1>2, <1>7

(* The client receives the first of them.                                  *)
LEMMA DeliveryKeepsOrder ==
  ASSUME NEW c \in Client, feedback[c] \in Seq(Feedback), feedback[c] # <<>>,
         feedback'[c] = Tail(feedback[c]), seen'[c] = Head(feedback[c]), InOrder(c)
  PROVE  InOrder(c)' /\ LastOf(c)' = LastOf(c)
<1> DEFINE n == Len(feedback[c])
<1>1. /\ n \in Nat /\ n # 0
      /\ Len(feedback'[c]) = n - 1
      /\ \A i \in 1..(n - 1) : feedback'[c][i] = feedback[c][i + 1]
      /\ seen'[c] = feedback[c][1]
      /\ feedback'[c] = <<>> <=> n = 1
  <2>1. n \in Nat /\ n # 0
    BY LenProperties, EmptySeq
  <2>2. /\ Len(feedback'[c]) = n - 1
        /\ \A i \in 1..(n - 1) : feedback'[c][i] = feedback[c][i + 1]
        /\ feedback'[c] \in Seq(Feedback)
    BY HeadTailProperties
  <2>3. seen'[c] = feedback[c][1]
    OBVIOUS
  <2>4. feedback'[c] = <<>> <=> n = 1
    <3> HIDE DEF n
    <3> QED  BY <2>1, <2>2, EmptySeq
  <2> QED  BY <2>1, <2>2, <2>3, <2>4
<1>2. \A i \in 1..(n - 1) : Follows(feedback[c][i], feedback[c][i + 1])
  BY DEF InOrder
<1>3. LastOf(c) = feedback[c][n]
  BY DEF LastOf
<1> HIDE DEF n
<1>4. LastOf(c)' = feedback[c][n]
  BY <1>1 DEF LastOf
<1>5. ASSUME feedback'[c] # <<>>
      PROVE  Follows(seen'[c], feedback'[c][1])
  <2>1. 1 \in 1..(n - 1)
    BY <1>1, <1>5
  <2>2. Follows(feedback[c][1], feedback[c][1 + 1])
    BY <1>2, <2>1
  <2> QED  BY <1>1, <2>1, <2>2
<1>6. \A i \in 1..(n - 2) : Follows(feedback'[c][i], feedback'[c][i + 1])
  BY <1>1, <1>2
<1>7. Len(feedback'[c]) - 1 = n - 2
  BY <1>1
<1>8. InOrder(c)'
  BY <1>5, <1>6, <1>7 DEF InOrder
<1> QED  BY <1>3, <1>4, <1>8

(* What the steps that do not push leave as it is.                         *)
LEMMA SameNews ==
  ASSUME NEW c \in Client, feedback'[c] = feedback[c], seen'[c] = seen[c]
  PROVE  (InOrder(c)' <=> InOrder(c)) /\ LastOf(c)' = LastOf(c)
BY DEF InOrder, LastOf

(* The next player of a game has not had its score.                        *)
LEMMA NextIsUnserved ==
  ASSUME IInv, NEW g \in Code, GamePush(g)
  PROVE  /\ next[g] \in 1..Len(queues[g])
         /\ queues[g][next[g]] \in Client
         /\ gameOf[queues[g][next[g]]] = g
         /\ conn[queues[g][next[g]]] # "new"
         /\ rpc[queues[g][next[g]]] \notin NoGameYet
         /\ conn[queues[g][next[g]]] = "open" =>
               /\ InOrder(queues[g][next[g]])
               /\ LastOf(queues[g][next[g]]) \in {"created", "joined", "state"}
<1> DEFINE c == queues[g][next[g]]
<1>1. next[g] \in 1..Len(queues[g]) /\ c \in Client
  BY ElementOfSeq, LenProperties DEF IInv, TypeOK, GamePush
<1>2. gameOf[c] = g /\ g # None
  BY <1>1, NoneAssumption DEF IInv, Queued
<1>3. rpc[c] \notin NoGameYet
  BY <1>1, <1>2 DEF IInv, Seats
<1>4. conn[c] # "new"
  BY <1>1, <1>3 DEF IInv, Presence, NoGameYet
<1>5. ~Scored(g, next[g])
  BY <1>1 DEF Scored, GamePush
<1>6. conn[c] = "open" => LastOf(c) \in {"created", "joined", "state"}
  BY <1>1, <1>5 DEF IInv, News, Told, Served
<1>7. conn[c] = "open" => InOrder(c)
  BY <1>1 DEF IInv, News, Heard
<1> QED  BY <1>1, <1>2, <1>3, <1>4, <1>6, <1>7

LEMMA HeardStep ==
  ASSUME IInv, [Next]_vars, NEW d \in Client
  PROVE  Heard(d)'
<1> USE DEF Asking, Answered
<1>0. /\ rpc \in [Client -> {"none", "lobby", "lock", "createPush", "createJoin", "joinPush",
                            "refusePush", "joinEnter", "play", "push", "dead", "freed"}]
      /\ conn \in [Client -> {"new", "open", "closed"}]
      /\ seen \in [Client -> Feedback \cup {"none"}]
      /\ feedback \in [Client -> Seq(Feedback)]
      /\ Heard(d)
      /\ conn[d] = "new" <=> rpc[d] = "none"
  BY DEF IInv, TypeOK, News, Presence
<1>1. CASE conn'[d] = "closed"
  BY <1>1 DEF Heard
<1>2. ASSUME seen'[d] = seen[d], feedback'[d] = feedback[d], conn'[d] = conn[d],
             \/ rpc'[d] = rpc[d]
             \/ rpc'[d] \in {"play", "push", "dead", "freed"}
             \/ rpc[d] \in Asking /\ rpc'[d] \in Asking
      PROVE  Heard(d)'
  BY <1>0, <1>2, SameNews DEF Heard
<1>3. ASSUME NEW c \in Client, NEW f \in Answers, PushFeedback(c, f),
             UNCHANGED <<conn, seen>>, rpc[c] \in Asking \ {"lobby"},
             \/ f = "notjoined" /\ rpc' = [rpc EXCEPT ![c] = "lobby"]
             \/ f # "notjoined" /\ rpc' \in {[rpc EXCEPT ![c] = "createJoin"],
                                             [rpc EXCEPT ![c] = "joinEnter"]}
      PROVE  Heard(d)'
  <2>1. CASE c # d
    BY <1>0, <1>2, <1>3, <2>1 DEF PushFeedback
  <2>2. CASE c = d /\ conn[d] = "open"
    <3>1. InOrder(d) /\ LastOf(d) \in {"none", "notjoined"}
      BY <1>0, <1>3, <2>2 DEF Heard
    <3>2. f \in Feedback /\ Follows(LastOf(d), f)
      BY <1>3, <3>1 DEF Follows, Feedback
    <3>3. feedback'[d] = Append(feedback[d], f) /\ seen'[d] = seen[d] /\ conn'[d] = "open"
      BY <1>0, <1>3, <2>2 DEF PushFeedback
    <3>4. InOrder(d)' /\ LastOf(d)' = f
      BY <1>0, <3>1, <3>2, <3>3, PushFollows
    <3>5. \/ f = "notjoined" /\ rpc'[d] = "lobby"
          \/ f \in {"created", "joined"} /\ rpc'[d] \in {"createJoin", "joinEnter"}
      BY <1>0, <1>3, <2>2 DEF Answers
    <3> QED  BY <3>3, <3>4, <3>5 DEF Heard
  <2>3. CASE c = d /\ conn[d] # "open"
    BY <1>0, <1>1, <1>3, <2>3
  <2> QED  BY <2>1, <2>2, <2>3
<1>4. ASSUME NEW c \in Client, CreatePush(c) \/ RefusePush(c) \/ JoinPush(c)
      PROVE  Heard(d)'
  BY <1>3, <1>4 DEF CreatePush, RefusePush, JoinPush, Answers, Goto
<1>5. ASSUME NEW c \in Client, Accept(c)
      PROVE  Heard(d)'
  <2>1. CASE c # d
    BY <1>0, <1>2, <1>5, <2>1 DEF Accept, Goto
  <2>2. CASE c = d
    <3>1. seen[d] = "none" /\ feedback[d] = <<>> /\ UNCHANGED <<seen, feedback>>
      BY <1>0, <1>5, <2>2 DEF IInv, Lobby, Heard, Accept
    <3>2. conn'[d] = "open" /\ rpc'[d] = "lobby"
      BY <1>0, <1>5, <2>2 DEF Accept, Goto
    <3>3. InOrder(d)' /\ LastOf(d)' = "none"
      BY <3>1, LenProperties, EmptySeq DEF InOrder, LastOf
    <3> QED  BY <3>2, <3>3 DEF Heard
  <2> QED  BY <2>1, <2>2
<1>6. ASSUME NEW c \in Client,
             \/ ReceiveRequest(c) \/ CreateLock(c) \/ JoinLock(c) \/ CreateFinish(c)
             \/ JoinEnter(c) \/ PushCommand(c) \/ WaitToPush(c) \/ ReceiverEnds(c)
      PROVE  Heard(d)'
  <2>1. UNCHANGED <<conn, seen, feedback>>
    BY <1>6 DEF ReceiveRequest, CreateLock, JoinLock, CreateFinish, JoinEnter, PushCommand,
       WaitToPush, ReceiverEnds
  <2>2. \/ rpc[c] \in Asking /\ \E l \in Asking \cup {"dead"} : rpc' = [rpc EXCEPT ![c] = l]
        \/ \E l \in {"play", "push", "dead"} : rpc' = [rpc EXCEPT ![c] = l]
    BY <1>6 DEF ReceiveRequest, CreateLock, CreateThrows, JoinLock, CreateFinish, JoinEnter,
       PushCommand, WaitToPush, ReceiverEnds, Goto
  <2>3. \/ rpc'[d] = rpc[d]
        \/ rpc'[d] \in {"play", "push", "dead", "freed"}
        \/ rpc[d] \in Asking /\ rpc'[d] \in Asking
    BY <1>0, <2>2
  <2> QED  BY <1>2, <2>1, <2>3
<1>7. ASSUME NEW c \in Client, SenderDelivers(c)
      PROVE  Heard(d)'
  <2>1. CASE c # d
    BY <1>0, <1>2, <1>7, <2>1 DEF SenderDelivers
  <2>2. CASE c = d
    <3>1. /\ conn[d] = "open" /\ feedback[d] # <<>> /\ UNCHANGED <<conn, rpc>>
          /\ feedback'[d] = Tail(feedback[d])
          /\ seen'[d] = Head(feedback[d])
      BY <1>0, <1>7, <2>2 DEF SenderDelivers
    <3>2. InOrder(d)
      BY <1>0, <3>1 DEF Heard
    <3>3. InOrder(d)' /\ LastOf(d)' = LastOf(d)
      BY <1>0, <3>1, <3>2, DeliveryKeepsOrder
    <3> QED  BY <1>0, <3>1, <3>3 DEF Heard
  <2> QED  BY <2>1, <2>2
<1>8. ASSUME NEW c \in Client, SenderFails(c)
      PROVE  Heard(d)'
  <2>1. CASE c # d
    BY <1>0, <1>2, <1>8, <2>1 DEF SenderFails
  <2>2. CASE c = d
    BY <1>1, <1>8, <2>2 DEF SenderFails
  <2> QED  BY <2>1, <2>2
<1>9. ASSUME NEW g \in Code, GamePush(g)
      PROVE  Heard(d)'
  <2> DEFINE c == queues[g][next[g]]
  <2>1. UNCHANGED <<conn, seen, rpc>>
    BY <1>9 DEF GamePush
  <2>2. feedback' = feedback \/ feedback' = [feedback EXCEPT ![c] = Append(@, outgoing[g])]
    BY <1>9 DEF GamePush, Drop
  <2>3. CASE feedback'[d] = feedback[d]
    BY <1>2, <2>1, <2>3
  <2>4. CASE feedback'[d] # feedback[d]
    <3>1. c = d /\ feedback'[d] = Append(feedback[d], outgoing[g])
      BY <1>0, <2>2, <2>4
    <3>2. conn[d] # "new" /\ rpc[d] \notin Asking \cup Answered
      BY <1>9, <3>1, NextIsUnserved DEF NoGameYet
    <3>3. CASE conn[d] = "open"
      <4>1. InOrder(d) /\ LastOf(d) \in {"created", "joined", "state"}
        BY <1>9, <3>1, <3>3, NextIsUnserved
      <4>2. outgoing[g] \in {"state", "score"}
        BY DEF IInv, TypeOK
      <4>3. outgoing[g] \in Feedback /\ Follows(LastOf(d), outgoing[g])
        BY <4>1, <4>2 DEF Follows, Feedback
      <4>4. InOrder(d)'
        BY <1>0, <2>1, <3>1, <4>1, <4>3, PushFollows
      <4> QED  BY <2>1, <3>2, <3>3, <4>4 DEF Heard
    <3>4. CASE conn[d] = "closed"
      BY <1>1, <2>1, <3>4
    <3> QED  BY <1>0, <3>2, <3>3, <3>4
  <2> QED  BY <2>3, <2>4
<1>10. ASSUME NEW c \in Client, HangUp(c), UNCHANGED feedback,
              rpc' = rpc \/ rpc' = [rpc EXCEPT ![c] = "freed"]
       PROVE  Heard(d)'
  <2>1. CASE c # d
    BY <1>0, <1>2, <1>10, <2>1 DEF HangUp
  <2>2. CASE c = d
    BY <1>0, <1>1, <1>10, <2>2 DEF HangUp
  <2> QED  BY <2>1, <2>2
<1>11. CASE UNCHANGED <<conn, seen, rpc, feedback>>
  BY <1>2, <1>11
<1>12. ASSUME NEW c \in Client, ClientCloses(c) \/ KillStop(c)
       PROVE  Heard(d)'
  BY <1>10, <1>11, <1>12 DEF ClientCloses, KillStop
<1>13. CASE DeleteReceiver
  <2>1. target \in Client
    BY <1>13 DEF IInv, TypeOK, Presence, DeleteReceiver
  <2> QED  BY <1>10, <1>13, <2>1 DEF DeleteReceiver
<1>14. ASSUME NEW c \in Client, SenderStopped(c) \/ Reap(c)
       PROVE  UNCHANGED <<conn, seen, rpc, feedback>>
  BY <1>14 DEF SenderStopped, Reap
<1>15. ASSUME NEW g \in Code, \/ GameLoop(g) \/ GameStep(g) \/ GameThrows(g) \/ GameSpins(g)
              \/ GameUnlock(g) \/ StopGame(g)
       PROVE  UNCHANGED <<conn, seen, rpc, feedback>>
  BY <1>15 DEF GameLoop, ExecuteCommand, GameStep, GameThrows, GameSpins, GameUnlock, StopGame
<1>16. ASSUME \/ Quit \/ AccepterEnds \/ KillJoin \/ KillDone \/ DeleteGame \/ ServerEnds
              \/ UNCHANGED vars
       PROVE  UNCHANGED <<conn, seen, rpc, feedback>>
  BY <1>16 DEF Quit, AccepterEnds, KillJoin, KillDone, DeleteGame, ServerEnds, vars
<1> HIDE DEF Asking, Answered
<1> QED  BY <1>4, <1>5, <1>6, <1>7, <1>8, <1>9, <1>11, <1>12, <1>13, <1>14, <1>15, <1>16
         DEF Next, Receiver, ReceiverRuns, Game, Sender, Accepter

(* In ~Accepter's last part nobody is connected any more.                  *)
LEMMA NobodyAtTheEnd ==
  ASSUME IInv, Ending, NEW c \in Client
  PROVE  conn[c] # "open"
<1>1. c \notin clients
  BY DEF IInv, Presence
<1> QED  BY <1>1 DEF IInv, Presence

(* A client without a game is in no player_queues.                         *)
LEMMA OutsiderIsNotQueued ==
  ASSUME IInv, NEW c \in Client, rpc[c] \in NoGameYet, NEW g \in Code, NEW i \in 1..Len(queues[g])
  PROVE  queues[g][i] # c
BY NoneAssumption DEF IInv, Queued, Seats

(* Game::join() appends its client, that has its answer.                   *)
LEMMA JoinTells ==
  ASSUME IInv, NEW c \in Client, NEW g \in Code, rpc[c] \in Answered, JoinBody(c, g),
         UNCHANGED <<conn, seen, feedback, outgoing, next, running>>,
         gpc'[g] # "send", queues[g] = <<>> \/ gpc'[g] = gpc[g],
         \A h \in Code \ {g} : gpc'[h] = gpc[h],
         NEW h \in Code
  PROVE  Told(h)'
<1>0. /\ queues \in [Code -> Seq(Client)]
      /\ Len(queues[h]) \in Nat
      /\ late \in [Client -> BOOLEAN]
      /\ rpc[c] \in NoGameYet
      /\ Told(h) /\ Heard(c)
  BY LenProperties DEF IInv, TypeOK, News, NoGameYet
<1>1. late' = [late EXCEPT ![c] = ~running[g]]
  BY DEF JoinBody
<1>2. \A d \in Client : LastOf(d)' = LastOf(d)
  BY SameNews
<1>3. ASSUME NEW d \in Client, NEW i \in 1..Len(queues[h]), queues[h][i] = d
      PROVE  Served(h, i, d)'
  <2>1. d # c /\ late'[d] = late[d]
    BY <1>0, <1>1, <1>3, OutsiderIsNotQueued
  <2>2. Scored(h, i)' <=> Scored(h, i)
    <3>1. CASE h # g
      BY <3>1 DEF Scored
    <3>2. CASE h = g /\ queues[h] = <<>>
      BY <3>2, EmptySeq
    <3>3. CASE h = g /\ gpc'[h] = gpc[h]
      BY <3>3 DEF Scored
    <3> QED  BY <3>1, <3>2, <3>3
  <2>3. Served(h, i, d)
    BY <1>0, <1>3 DEF Told
  <2>4. LastOf(d)' = LastOf(d) /\ conn'[d] = conn[d]
    BY <1>2
  <2> QED  BY <2>1, <2>2, <2>3, <2>4 DEF Served
<1>4. CASE h # g
  <2>1. queues'[h] = queues[h]
    BY <1>0, <1>4 DEF JoinBody
  <2> QED  BY <1>3, <2>1 DEF Told
<1>5. CASE h = g
  <2>1. /\ queues'[h] = Append(queues[h], c)
        /\ Len(queues'[h]) = Len(queues[h]) + 1
        /\ queues'[h][Len(queues[h]) + 1] = c
        /\ \A i \in 1..Len(queues[h]) : queues'[h][i] = queues[h][i]
    BY <1>0, <1>5, AppendProperties DEF JoinBody
  <2>2. ASSUME NEW i \in Nat
        PROVE  Served(h, i, c)'
    <3>1. conn[c] = "open" => LastOf(c)' \in {"created", "joined"}
      BY <1>0, <1>2 DEF Heard
    <3>2. Scored(h, i)' => late'[c]
      BY <1>0, <1>1, <1>5 DEF Scored
    <3> QED  BY <3>1, <3>2 DEF Served
  <2>3. ASSUME NEW d \in Client, NEW i \in 1..Len(queues'[h]), queues'[h][i] = d
        PROVE  Served(h, i, d)'
    <3>1. CASE i \in 1..Len(queues[h])
      BY <1>3, <2>1, <2>3, <3>1
    <3>2. CASE i = Len(queues[h]) + 1
      <4>1. d = c /\ i \in Nat
        BY <1>0, <2>1, <2>3, <3>2
      <4> QED  BY <2>2, <4>1
    <3> QED  BY <1>0, <2>1, <3>1, <3>2
  <2> QED  BY <2>3 DEF Told
<1> QED  BY <1>4, <1>5

(* Who is told the same as before, if the game is where it was.            *)
LEMMA ToldAsBefore ==
  ASSUME NEW g \in Code, Told(g),
         queues'[g] = queues[g], UNCHANGED late,
         \A i \in 1..Len(queues[g]) : Scored(g, i)' <=> Scored(g, i),
         \A c \in Client : \A i \in 1..Len(queues[g]) :
            queues[g][i] = c => \/ conn'[c] = "closed"
                                \/ conn'[c] = conn[c] /\ LastOf(c)' = LastOf(c)
  PROVE  Told(g)'
<1> SUFFICES ASSUME NEW c \in Client, NEW i \in 1..Len(queues[g]), queues[g][i] = c
             PROVE  Served(g, i, c)'
  BY DEF Told
<1>1. Served(g, i, c)
  BY DEF Told
<1> QED  BY <1>1 DEF Served

(* try_push() to the next player of g succeeds.                            *)
LEMMA ServingTells ==
  ASSUME IInv, NEW g \in Code, GamePush(g), NEW c \in Client, c = queues[g][next[g]],
         feedback' = [feedback EXCEPT ![c] = Append(@, outgoing[g])],
         next' = [next EXCEPT ![g] = @ + 1], UNCHANGED queues,
         NEW h \in Code
  PROVE  Told(h)'
<1>0. /\ next[g] \in 1..Len(queues[g]) /\ gameOf[c] = g /\ Queued
      /\ next \in [Code -> Nat \ {0}]
      /\ feedback \in [Client -> Seq(Feedback)]
      /\ outgoing[g] \in {"state", "score"} /\ gpc[g] = "send"
      /\ Told(h)
  BY NextIsUnserved DEF IInv, TypeOK, News, GamePush
<1>1. UNCHANGED <<conn, seen, late, gpc, outgoing, running>>
  BY DEF GamePush
<1>2. \A d \in Client \ {c} : LastOf(d)' = LastOf(d)
  BY <1>0, <1>1, SameNews
<1>3. ASSUME h # g
      PROVE  Told(h)'
  <2>1. ASSUME NEW i \in 1..Len(queues[h])
        PROVE  queues[h][i] # c
    <3>1. gameOf[queues[h][i]] = h
      BY <1>0 DEF Queued
    <3> QED  BY <1>0, <1>3, <3>1
  <2>2. \A i \in 1..Len(queues[h]) : Scored(h, i)' <=> Scored(h, i)
    BY <1>0, <1>1, <1>3 DEF Scored
  <2> QED  BY <1>0, <1>1, <1>2, <2>1, <2>2, ToldAsBefore
<1>4. ASSUME h = g
      PROVE  Told(h)'
  <2> SUFFICES ASSUME NEW d \in Client, NEW i \in 1..Len(queues[h]), queues[h][i] = d
               PROVE  Served(h, i, d)'
    BY DEF Told
  <2>1. CASE i = next[g]
    <3>1. d = c
      BY <1>4, <2>1
    <3>2. CASE conn[c] = "open"
      <4>1. InOrder(c) /\ LastOf(c) \in {"created", "joined", "state"}
        BY <3>2, NextIsUnserved
      <4>2. outgoing[g] \in Feedback /\ Follows(LastOf(c), outgoing[g])
        BY <1>0, <4>1 DEF Follows, Feedback
      <4>3. LastOf(c)' = outgoing[g]
        BY <1>0, <1>1, <4>1, <4>2, PushFollows
      <4>4. Scored(h, i)' <=> outgoing[g] = "score"
        BY <1>0, <1>1, <1>4, <2>1 DEF Scored
      <4> QED  BY <1>0, <3>1, <4>3, <4>4 DEF Served
    <3>3. CASE conn[c] # "open"
      BY <1>1, <3>1, <3>3 DEF Served
    <3> QED  BY <3>2, <3>3
  <2>2. CASE i # next[g]
    <3>1. d # c
      BY <1>0, <1>4, <2>2 DEF Queued
    <3>2. Scored(h, i)' <=> Scored(h, i)
      BY <1>0, <1>1, <1>4, <2>2 DEF Scored
    <3>3. Served(h, i, d)
      BY <1>0 DEF Told
    <3> QED  BY <1>1, <1>2, <3>1, <3>2, <3>3 DEF Served
  <2> QED  BY <2>1, <2>2
<1> QED  BY <1>3, <1>4

(* The next player of g is erased.                                         *)
LEMMA DroppingTells ==
  ASSUME IInv, NEW g \in Code, GamePush(g), Drop(g), NEW h \in Code
  PROVE  Told(h)'
<1>0. /\ next[g] \in 1..Len(queues[g])
      /\ queues \in [Code -> Seq(Client)] /\ Len(queues[g]) \in Nat
      /\ gpc[g] = "send"
      /\ Told(h)
  BY NextIsUnserved, LenProperties DEF IInv, TypeOK, News, GamePush
<1>1. UNCHANGED <<conn, seen, late, gpc, outgoing, running, feedback, next>>
  BY DEF GamePush, Drop
<1>2. \A d \in Client : LastOf(d)' = LastOf(d)
  BY <1>1, SameNews
<1>3. \A i : Scored(h, i)' <=> Scored(h, i)
  BY <1>1 DEF Scored
<1>4. ASSUME h # g
      PROVE  Told(h)'
  <2>1. queues'[h] = queues[h]
    BY <1>0, <1>4 DEF Drop
  <2> QED  BY <1>0, <1>1, <1>2, <1>3, <2>1, ToldAsBefore
<1>5. ASSUME h = g
      PROVE  Told(h)'
  <2>1. /\ Len(queues'[g]) = Len(queues[g]) - 1
        /\ \A j \in 1..(Len(queues[g]) - 1) :
              queues'[g][j] = IF j < next[g] THEN queues[g][j] ELSE queues[g][j + 1]
    <3>1. queues'[g] = RemoveAt(queues[g], next[g])
      BY <1>0 DEF Drop
    <3>2. queues[g] \in Seq(Client) /\ next[g] \in 1..Len(queues[g])
      BY <1>0
    <3>3. /\ Len(RemoveAt(queues[g], next[g])) = Len(queues[g]) - 1
          /\ \A j \in 1..(Len(queues[g]) - 1) :
                RemoveAt(queues[g], next[g])[j]
                  = IF j < next[g] THEN queues[g][j] ELSE queues[g][j + 1]
      BY <3>2, RemoveAtIs
    <3> QED  BY <3>1, <3>3
  <2> SUFFICES ASSUME NEW d \in Client, NEW j \in 1..Len(queues'[h]), queues'[h][j] = d
               PROVE  Served(h, j, d)'
    BY DEF Told
  <2>2. PICK i \in 1..Len(queues[g]) : queues[g][i] = d /\ (i < next[g] <=> j < next[g])
                                       /\ (j < next[g] => i = j)
    <3>1. CASE j < next[g]
      BY <1>0, <1>5, <2>1, <3>1
    <3>2. CASE ~(j < next[g])
      <4>1. j + 1 \in 1..Len(queues[g]) /\ ~(j + 1 < next[g]) /\ queues[g][j + 1] = d
        BY <1>0, <1>5, <2>1, <3>2
      <4> QED  BY <3>2, <4>1
    <3> QED  BY <3>1, <3>2
  <2>3. Served(h, i, d)
    BY <1>0, <1>5, <2>2 DEF Told
  <2>4. Scored(h, i) <=> Scored(h, j)
    BY <1>0, <1>5, <2>2 DEF Scored
  <2>5. Scored(h, j)' <=> Scored(h, j)
    BY <1>3
  <2> QED  BY <1>1, <1>2, <2>3, <2>4, <2>5 DEF Served
<1> QED  BY <1>4, <1>5

LEMMA ToldStep ==
  ASSUME IInv, [Next]_vars, NEW h \in Code
  PROVE  Told(h)'
<1>0. /\ gpc \in [Code -> {"none", "new", "head", "sleep", "send", "spin", "ended", "deleted"}]
      /\ conn \in [Client -> {"new", "open", "closed"}]
      /\ feedback \in [Client -> Seq(Feedback)]
      /\ queues \in [Code -> Seq(Client)]
      /\ running \in [Code -> BOOLEAN]
      /\ next \in [Code -> Nat \ {0}]
      /\ outgoing \in [Code -> {"state", "score"}]
      /\ Rooms
      /\ Told(h)
  BY DEF IInv, TypeOK, News
<1>1. ASSUME UNCHANGED <<queues, late, gpc, outgoing, next, running>>, NEW c \in Client,
             \A d \in Client \ {c} : /\ conn'[d] = conn[d] /\ seen'[d] = seen[d]
                                     /\ feedback'[d] = feedback[d],
             \/ conn'[c] = "closed"
             \/ conn'[c] = conn[c] /\ LastOf(c)' = LastOf(c)
             \/ rpc[c] \in NoGameYet
      PROVE  Told(h)'
  <2>1. \A i \in 1..Len(queues[h]) : Scored(h, i)' <=> Scored(h, i)
    BY <1>1 DEF Scored
  <2>2. \A d \in Client \ {c} : conn'[d] = conn[d] /\ LastOf(d)' = LastOf(d)
    BY <1>1, SameNews
  <2>3. rpc[c] \in NoGameYet => \A i \in 1..Len(queues[h]) : queues[h][i] # c
    BY OutsiderIsNotQueued
  <2>4. queues'[h] = queues[h] /\ UNCHANGED late
    BY <1>1
  <2> QED  BY <1>0, <1>1, <2>1, <2>2, <2>3, <2>4, ToldAsBefore
<1>2. ASSUME UNCHANGED <<queues, late, conn, seen, feedback>>,
             \A i \in 1..Len(queues[h]) : Scored(h, i)' <=> Scored(h, i)
      PROVE  Told(h)'
  <2>1. \A d \in Client : LastOf(d)' = LastOf(d)
    BY <1>2, SameNews
  <2> QED  BY <1>0, <1>2, <2>1, ToldAsBefore
<1>3. CASE UNCHANGED <<queues, late, gpc, outgoing, next, running, conn, seen, feedback>>
  BY <1>2, <1>3 DEF Scored
<1>4. ASSUME Ending, UNCHANGED <<queues, conn>>
      PROVE  Told(h)'
  <2>1. \A d \in Client : conn'[d] # "open"
    BY <1>4, NobodyAtTheEnd
  <2> QED  BY <2>1 DEF Told, Served
<1>5. ASSUME NEW c \in Client,
             ClientCloses(c) \/ Accept(c) \/ CreatePush(c) \/ RefusePush(c) \/ JoinPush(c)
      PROVE  Told(h)'
  <2>1. UNCHANGED <<queues, late, gpc, outgoing, next, running>>
    BY <1>5 DEF ClientCloses, Accept, CreatePush, RefusePush, JoinPush
  <2>2. \A d \in Client \ {c} : /\ conn'[d] = conn[d] /\ seen'[d] = seen[d]
                                /\ feedback'[d] = feedback[d]
    <3>1. CASE ClientCloses(c) \/ Accept(c)
      BY <1>0, <3>1 DEF ClientCloses, HangUp, Accept, IInv, TypeOK
    <3>2. CASE CreatePush(c) \/ RefusePush(c) \/ JoinPush(c)
      BY <1>0, <3>2 DEF CreatePush, RefusePush, JoinPush, PushFeedback
    <3> QED  BY <1>5, <3>1, <3>2
  <2>3. conn'[c] = "closed" \/ rpc[c] \in NoGameYet
    BY <1>0, <1>5 DEF ClientCloses, HangUp, Accept, CreatePush, RefusePush, JoinPush, NoGameYet,
       Asking, IInv, Presence
  <2> QED  BY <1>1, <2>1, <2>2, <2>3
<1>6. ASSUME NEW c \in Client, CreateLock(c)
      PROVE  Told(h)'
  <2>1. UNCHANGED <<queues, late, outgoing, next, running, conn, seen, feedback>>
    BY <1>6 DEF CreateLock
  <2>2. \A i \in 1..Len(queues[h]) : Scored(h, i)' <=> Scored(h, i)
    <3>1. CASE queues[h] = <<>>
      BY <3>1, EmptySeq
    <3>2. CASE queues[h] # <<>>
      <4>1. gpc'[h] = gpc[h]
        BY <1>0, <1>6, <3>2 DEF Rooms, CreateLock, CreateThrows
      <4> QED  BY <2>1, <4>1 DEF Scored
    <3> QED  BY <3>1, <3>2
  <2> QED  BY <1>2, <2>1, <2>2
<1>7. ASSUME NEW c \in Client, CreateFinish(c)
      PROVE  Told(h)'
  <2>1. req[c] \in Code \ games /\ rpc[c] \in Answered
    BY <1>0, <1>7 DEF Rooms, CreateFinish, Answered
  <2>2. queues[req[c]] = <<>> /\ gpc' = [gpc EXCEPT ![req[c]] = "head"]
    BY <1>0, <1>7, <2>1, NothingToClean DEF Rooms, CreateFinish
  <2>3. JoinBody(c, req[c]) /\ UNCHANGED <<conn, seen, feedback, outgoing, next, running>>
    BY <1>7 DEF CreateFinish
  <2>4. gpc'[req[c]] # "send" /\ \A g \in Code \ {req[c]} : gpc'[g] = gpc[g]
    BY <1>0, <2>1, <2>2
  <2> QED  BY <2>1, <2>2, <2>3, <2>4, JoinTells
<1>8. ASSUME NEW c \in Client, JoinEnter(c)
      PROVE  Told(h)'
  <2>1. req[c] \in Code /\ rpc[c] \in Answered
    BY <1>0, <1>8 DEF Rooms, IInv, TypeOK, JoinEnter, Answered
  <2>2. /\ JoinBody(c, req[c]) /\ gpc[req[c]] # "send"
        /\ UNCHANGED <<conn, seen, feedback, outgoing, next, running, gpc>>
    BY <1>8 DEF JoinEnter
  <2> QED  BY <2>1, <2>2, JoinTells
<1>9. ASSUME NEW c \in Client, SenderDelivers(c)
      PROVE  Told(h)'
  <2>1. UNCHANGED <<queues, late, gpc, outgoing, next, running, conn>>
    BY <1>9 DEF SenderDelivers
  <2>2. \A d \in Client \ {c} : seen'[d] = seen[d] /\ feedback'[d] = feedback[d]
    BY <1>0, <1>9 DEF SenderDelivers
  <2>3. LastOf(c)' = LastOf(c)
    <3>1. /\ conn[c] = "open" /\ feedback[c] # <<>>
          /\ feedback'[c] = Tail(feedback[c])
          /\ seen'[c] = Head(feedback[c])
      BY <1>0, <1>9 DEF SenderDelivers, IInv, TypeOK
    <3>2. InOrder(c)
      BY <3>1 DEF IInv, News, Heard
    <3> QED  BY <1>0, <3>1, <3>2, DeliveryKeepsOrder
  <2> QED  BY <1>1, <2>1, <2>2, <2>3
<1>10. ASSUME NEW c \in Client, SenderFails(c)
       PROVE  Told(h)'
  <2>1. UNCHANGED <<queues, late, gpc, outgoing, next, running, conn, seen>> /\ conn'[c] = "closed"
    BY <1>10 DEF SenderFails
  <2>2. \A d \in Client \ {c} : feedback'[d] = feedback[d]
    BY <1>0, <1>10 DEF SenderFails
  <2> QED  BY <1>1, <2>1, <2>2
<1>11. ASSUME NEW g \in Code, GameLoop(g) \/ GameThrows(g) \/ GameSpins(g)
       PROVE  Told(h)'
  <2>1. UNCHANGED <<queues, late, outgoing, next, running, conn, seen, feedback>>
    BY <1>11 DEF GameLoop, GameThrows, GameSpins
  <2>2. CASE Ending
    BY <1>4, <2>1, <2>2
  <2>3. CASE ~Ending
    <3>1. \/ gpc[g] = "head"
          \/ gpc[g] = "sleep" /\ running[g]
      BY <1>0, <1>11, <2>3 DEF GameLoop, ExecuteCommand, GameThrows, GameSpins, Rooms
    <3>2. \/ gpc[g] = "head" /\ \E l \in {"sleep", "ended"} : gpc' = [gpc EXCEPT ![g] = l]
          \/ gpc[g] = "sleep" /\ \E l \in {"spin", "ended"} : gpc' = [gpc EXCEPT ![g] = l]
      BY <1>11 DEF GameLoop, ExecuteCommand, GameThrows, GameSpins
    <3>3. gpc[g] = "head" /\ gpc'[g] = "sleep" => running[g]
      BY <1>0, <1>11 DEF GameLoop, ExecuteCommand, GameThrows, GameSpins
    <3>4. \A i \in 1..Len(queues[h]) : Scored(h, i)' <=> Scored(h, i)
      BY <1>0, <2>1, <3>1, <3>2, <3>3 DEF Scored
    <3> QED  BY <1>2, <2>1, <3>4
  <2> QED  BY <2>2, <2>3
<1>12. ASSUME NEW g \in Code, GameStep(g)
       PROVE  Told(h)'
  <2>1. UNCHANGED <<queues, late, running, conn, seen, feedback>>
    BY <1>12 DEF GameStep
  <2>2. ASSUME NEW i \in 1..Len(queues[h])
        PROVE  Scored(h, i)' <=> Scored(h, i)
    <3>1. CASE h = g
      <4>1. gpc'[h] = "send" /\ next'[h] = 1 /\ gpc[h] = "sleep"
        BY <1>0, <1>12, <3>1 DEF ExecuteCommand, GameStep
      <4>2. ~(i < 1)
        BY <2>2
      <4> QED  BY <4>1, <4>2 DEF Scored
    <3>2. CASE h # g
      BY <1>0, <1>12, <3>2 DEF GameStep, Scored
    <3> QED  BY <3>1, <3>2
  <2> QED  BY <1>2, <2>1, <2>2
<1>13. ASSUME NEW g \in Code, GamePush(g)
       PROVE  Told(h)'
  <2>1. queues[g][next[g]] \in Client
    BY <1>13, NextIsUnserved
  <2>2. \/ /\ feedback' = [feedback EXCEPT ![queues[g][next[g]]] = Append(@, outgoing[g])]
           /\ next' = [next EXCEPT ![g] = @ + 1]
           /\ UNCHANGED queues
        \/ Drop(g)
    BY <1>13 DEF GamePush
  <2> QED  BY <1>13, <2>1, <2>2, ServingTells, DroppingTells
<1>14. ASSUME NEW g \in Code, GameUnlock(g)
       PROVE  Told(h)'
  <2>1. UNCHANGED <<queues, late, outgoing, conn, seen, feedback>>
    BY <1>14 DEF GameUnlock
  <2>2. CASE Ending
    BY <1>4, <2>1, <2>2
  <2>3. CASE ~Ending
    <3>1. ASSUME NEW i \in 1..Len(queues[h])
          PROVE  Scored(h, i)' <=> Scored(h, i)
      <4>1. CASE h # g
        BY <1>0, <1>14, <4>1 DEF GameUnlock, Scored
      <4>2. CASE h = g
        <5>1. running[g]
          BY <1>0, <1>14, <2>3 DEF GameUnlock, Rooms
        <5>2. gpc'[g] = "head" /\ gpc[g] = "send" /\ (running'[g] <=> outgoing[g] # "score")
          BY <1>0, <1>14, <5>1 DEF GameUnlock, StillRunning
        <5>3. i < next[g]
          BY <1>0, <1>14, <3>1, <4>2, LenProperties DEF GameUnlock
        <5> QED  BY <4>2, <5>2, <5>3 DEF Scored
      <4> QED  BY <4>1, <4>2
    <3> QED  BY <1>2, <2>1, <3>1
  <2> QED  BY <2>2, <2>3
<1>15. ASSUME NEW c \in Client, KillStop(c)
       PROVE  Told(h)'
  <2>1. UNCHANGED <<queues, late, gpc, outgoing, next, running, feedback>>
    BY <1>15 DEF KillStop
  <2>2. CASE UNCHANGED clientVars
    BY <1>3, <2>1, <2>2
  <2>3. CASE HangUp(c)
    <3>1. conn'[c] = "closed" /\ \A d \in Client \ {c} : conn'[d] = conn[d] /\ seen'[d] = seen[d]
      BY <1>0, <2>3 DEF HangUp, IInv, TypeOK
    <3> QED  BY <1>1, <2>1, <3>1
  <2> QED  BY <1>15, <2>2, <2>3 DEF KillStop
<1>16. CASE DeleteReceiver
  <2>1. target \in Client
    BY <1>16 DEF IInv, TypeOK, Presence, DeleteReceiver
  <2>2. UNCHANGED <<queues, late, gpc, outgoing, next, running, feedback>> /\ HangUp(target)
    BY <1>16 DEF DeleteReceiver
  <2>3. /\ conn'[target] = "closed"
        /\ \A d \in Client \ {target} : conn'[d] = conn[d] /\ seen'[d] = seen[d]
    BY <1>0, <2>1, <2>2 DEF HangUp, IInv, TypeOK
  <2> QED  BY <1>1, <2>1, <2>2, <2>3
<1>17. ASSUME NEW g \in Code, StopGame(g)
       PROVE  Told(h)'
  BY <1>4, <1>17 DEF StopGame, Ending
<1>18. CASE DeleteGame
  BY <1>4, <1>18 DEF DeleteGame, Ending
<1>19. ASSUME NEW c \in Client,
              \/ ReceiveRequest(c) \/ JoinLock(c) \/ PushCommand(c) \/ WaitToPush(c)
              \/ ReceiverEnds(c) \/ SenderStopped(c) \/ Reap(c)
       PROVE  Told(h)'
  BY <1>3, <1>19 DEF ReceiveRequest, JoinLock, PushCommand, WaitToPush, ReceiverEnds,
     SenderStopped, Reap
<1>20. CASE \/ Quit \/ AccepterEnds \/ KillJoin \/ KillDone \/ ServerEnds \/ UNCHANGED vars
  BY <1>3, <1>20 DEF Quit, AccepterEnds, KillJoin, KillDone, ServerEnds, vars
<1> QED  BY <1>5, <1>6, <1>7, <1>8, <1>9, <1>10, <1>11, <1>12, <1>13, <1>14, <1>15, <1>16, <1>17,
            <1>18, <1>19, <1>20
         DEF Next, Receiver, ReceiverRuns, Game, Sender, Accepter

------------------------------------------------------------------------------
(* The theorems *)

LEMMA InitIInv ==
  ASSUME Init
  PROVE  IInv
<1>0. TypeOK
  BY InitTyped
<1>1. Len(<<>>) = 0
  OBVIOUS
<1>2. MutexHeld /\ Presence
  BY DEF Init, MutexHeld, Holding, Presence, Ending
<1>3. Rooms /\ Lobby
  BY DEF Init, Rooms, Lobby, Asking
<1>4. Seats
  <2>1. \A g \in Code : Members(g) = {}
    BY NoneAssumption DEF Init, Members
  <2>2. IsFiniteSet({}) /\ Cardinality({}) = 0
    BY FS_EmptySet
  <2>3. \A g \in Code : players[g] = 0 /\ players[g] <= MaxPlayers
    BY CapAssumption DEF Init
  <2>4. PlayersNumbered
    BY <2>1, <2>2, <2>3 DEF PlayersNumbered
  <2> QED  BY <2>1, <2>2, <2>4 DEF Seats, Init
<1>5. Queued
  BY <1>1 DEF Init, Queued
<1>6. News
  BY <1>1 DEF Init, News, Heard, Told
<1> QED  BY <1>0, <1>2, <1>3, <1>4, <1>5, <1>6 DEF IInv

THEOREM Invariant == Spec => []IInv
<1>1. Init => IInv
  BY InitIInv
<1>2. IInv /\ [Next]_vars => IInv'
  <2> SUFFICES ASSUME IInv, [Next]_vars
               PROVE  IInv'
    OBVIOUS
  <2>1. News'
    BY HeardStep, ToldStep DEF News
  <2> QED  BY <2>1, TypeStep, MutexStep, PresenceStep, RoomsStep, SeatsStep, LobbyStep, QueuedStep
           DEF IInv
<1> QED  BY <1>1, <1>2, PTL DEF Spec

(* Every variable keeps its type; in particular commands_recv never grows  *)
(* beyond its capacity.                                                    *)
THEOREM TypeCorrect == Spec => []TypeOK
<1>1. IInv => TypeOK
  BY DEF IInv
<1> QED  BY <1>1, Invariant, PTL

(* createGame and joinGame push an answer with the blocking push() under   *)
(* GameManager::mtx: the queue is always empty then, so the lobby of       *)
(* everybody else never waits for a client that does not read.             *)
THEOREM LobbyNeverWaits == Spec => []LobbyPushNeverBlocks
<1>1. IInv => LobbyPushNeverBlocks
  BY DEF IInv, Lobby, LobbyPushNeverBlocks
<1> QED  BY <1>1, Invariant, PTL

(* However many Receivers create and join, the members of a game have the  *)
(* ids 1..players_amount and are at most MAX_PLAYERS.                      *)
THEOREM SeatsAreNumbered == Spec => []PlayersNumbered
<1>1. IInv => PlayersNumbered
  BY DEF IInv, Seats
<1> QED  BY <1>1, Invariant, PTL

(* The raw pointers to a game's queue and to the Game being joined never   *)
(* dangle, whatever ~Accepter and cleanEmptyGames delete.                  *)
THEOREM QueuesOutliveReceivers == Spec => []GameQueueAlive
<1>1. ASSUME IInv, NEW c \in Client, rpc[c] \notin {"none", "freed"}
      PROVE  ~Ending
  BY <1>1 DEF IInv, Presence
<1>2. IInv => GameQueueAlive
  BY <1>1 DEF IInv, Rooms, Seats, GameQueueAlive
<1> QED  BY <1>2, Invariant, PTL

LEMMA StreamIs ==
  ASSUME TypeOK, NEW c \in Client
  PROVE  /\ Len(feedback[c]) \in Nat
         /\ Stream(c) \in Seq(Feedback \cup {"none"})
         /\ Len(Stream(c)) = Len(feedback[c]) + 1
         /\ Stream(c)[1] = seen[c]
         /\ \A i \in 1..Len(feedback[c]) : Stream(c)[i + 1] = feedback[c][i]
<1> DEFINE S == Feedback \cup {"none"}
           f == feedback[c]
<1>1. <<seen[c]>> \in Seq(S) /\ Len(<<seen[c]>>) = 1 /\ <<seen[c]>>[1] = seen[c]
  BY DEF TypeOK
<1>2. f \in Seq(Feedback) /\ Len(f) \in Nat
  BY LenProperties DEF TypeOK
<1>3. f \in Seq(S)
  <2>1. \A i \in 1..Len(f) : f[i] \in S
    BY <1>2, ElementOfSeq
  <2> QED  BY <1>2, <2>1
<1> HIDE DEF S, f
<1>4. /\ Stream(c) \in Seq(S)
      /\ Len(Stream(c)) = 1 + Len(f)
      /\ \A i \in 1..(1 + Len(f)) :
            Stream(c)[i] = IF i <= 1 THEN <<seen[c]>>[i] ELSE f[i - 1]
  BY <1>1, <1>2, <1>3, ConcatProperties DEF Stream, f
<1>5. \A i \in 1..Len(f) : Stream(c)[i + 1] = f[i]
  BY <1>2, <1>4
<1>6. Len(Stream(c)) = Len(f) + 1
  BY <1>2, <1>4
<1>7. Stream(c)[1] = seen[c]
  <2>1. 1 \in 1..(1 + Len(f))
    BY <1>2
  <2>2. Stream(c)[1] = <<seen[c]>>[1]
    BY <1>4, <2>1
  <2> QED  BY <1>1, <2>2
<1> QED  BY <1>2, <1>4, <1>5, <1>6, <1>7, Zenon DEF S, f

(* Two threads push to a client's queue, the Receiver its answers and the  *)
(* Game thread what the match sends: the client is told a refusal, then    *)
(* one answer that lets it in, then states, then the score, and nothing    *)
(* after the score.                                                        *)
THEOREM FeedbackOrdered == Spec => []FeedbackInOrder
<1>1. ASSUME IInv
      PROVE  FeedbackInOrder
  <2> SUFFICES ASSUME NEW c \in Client, conn[c] = "open",
                      NEW i \in 1..(Len(Stream(c)) - 1)
               PROVE  Follows(Stream(c)[i], Stream(c)[i + 1])
    BY DEF FeedbackInOrder
  <2>1. /\ Len(feedback[c]) \in Nat
        /\ Len(Stream(c)) = Len(feedback[c]) + 1
        /\ Stream(c)[1] = seen[c]
        /\ \A j \in 1..Len(feedback[c]) : Stream(c)[j + 1] = feedback[c][j]
    BY <1>1, StreamIs DEF IInv
  <2>2. InOrder(c)
    BY <1>1 DEF IInv, News, Heard
  <2>3. i \in 1..Len(feedback[c]) /\ Stream(c)[i + 1] = feedback[c][i]
    BY <2>1
  <2>4. CASE i = 1
    <3>1. feedback[c] # <<>>
      BY <2>1, <2>3, EmptySeq
    <3> QED  BY <2>1, <2>2, <2>3, <2>4, <3>1 DEF InOrder
  <2>5. CASE i # 1
    <3>1. i - 1 \in 1..(Len(feedback[c]) - 1) /\ (i - 1) + 1 = i
      BY <2>1, <2>3, <2>5
    <3>2. Follows(feedback[c][i - 1], feedback[c][(i - 1) + 1])
      BY <2>2, <3>1 DEF InOrder
    <3>3. Stream(c)[i] = feedback[c][i - 1]
      <4>1. i - 1 \in 1..Len(feedback[c])
        BY <2>1, <3>1
      <4>2. Stream(c)[(i - 1) + 1] = feedback[c][i - 1]
        BY <2>1, <4>1
      <4> QED  BY <3>1, <4>2
    <3> QED  BY <2>3, <3>1, <3>2, <3>3
  <2> QED  BY <2>4, <2>5
<1>2. IInv => FeedbackInOrder
  BY <1>1
<1> QED  BY <1>2, Invariant, PTL

(* The score of a match is pushed to every player that is still in         *)
(* player_queues, although the loop erases from the vector it runs over.   *)
THEOREM ScoreIsSent == Spec => []ScoreReachesPlayers
<1>1. ASSUME IInv
      PROVE  ScoreReachesPlayers
  <2> SUFFICES ASSUME NEW g \in games, NEW c \in Client,
                      ~running[g], gpc[g] \in {"head", "ended"},
                      ~late[c], conn[c] = "open", c \in ToSet(queues[g])
               PROVE  "score" \in ToSet(Stream(c))
    BY DEF ScoreReachesPlayers
  <2>1. PICK i \in 1..Len(queues[g]) : queues[g][i] = c
    <3>1. g \in Code /\ queues[g] \in Seq(Client)
      BY <1>1 DEF IInv, TypeOK
    <3>2. DOMAIN queues[g] = 1..Len(queues[g])
      BY <3>1, LenProperties
    <3> QED  BY <3>2 DEF ToSet
  <2>2. g \in Code /\ Scored(g, i)
    BY <1>1 DEF IInv, TypeOK, Scored
  <2>3. LastOf(c) = "score"
    BY <1>1, <2>1, <2>2 DEF IInv, News, Told, Served
  <2>4. /\ Len(feedback[c]) \in Nat
        /\ Stream(c) \in Seq(Feedback \cup {"none"})
        /\ Len(Stream(c)) = Len(feedback[c]) + 1
        /\ Stream(c)[1] = seen[c]
        /\ \A j \in 1..Len(feedback[c]) : Stream(c)[j + 1] = feedback[c][j]
    BY <1>1, StreamIs DEF IInv
  <2>5. \E j \in 1..Len(Stream(c)) : Stream(c)[j] = "score"
    <3>1. CASE feedback[c] = <<>>
      BY <2>3, <2>4, <3>1 DEF LastOf
    <3>2. CASE feedback[c] # <<>>
      <4>1. Len(feedback[c]) \in 1..Len(feedback[c])
        <5>1. feedback[c] \in Seq(Feedback)
          BY <1>1 DEF IInv, TypeOK
        <5> QED  BY <2>4, <3>2, <5>1, EmptySeq
      <4>2. Stream(c)[Len(feedback[c]) + 1] = "score"
        BY <2>3, <2>4, <3>2, <4>1 DEF LastOf
      <4> QED  BY <2>4, <4>2
    <3> QED  BY <3>1, <3>2
  <2>6. DOMAIN Stream(c) = 1..Len(Stream(c))
    BY <2>4, LenProperties
  <2> QED  BY <2>5, <2>6 DEF ToSet
<1>2. IInv => ScoreReachesPlayers
  BY <1>1
<1> QED  BY <1>2, Invariant, PTL

------------------------------------------------------------------------------
(* What the liveness of the server rests on: nobody is waited for that has *)
(* not been told, or is not able, to go on.                                *)

(* Who has GameManager::mtx is in createGame or joinGame: no path leaves   *)
(* them with the mutex locked, the exception and both refusals included.   *)
Released == mgr # None => mgr \in Client /\ rpc[mgr] \in Holding

LEMMA ReleasedStep ==
  ASSUME IInv, Released, [Next]_vars
  PROVE  Released'
<1> USE DEF Released, Holding
<1>0. /\ rpc \in [Client -> {"none", "lobby", "lock", "createPush", "createJoin", "joinPush",
                            "refusePush", "joinEnter", "play", "push", "dead", "freed"}]
      /\ Released
      /\ None \notin Client
  BY NoneAssumption DEF IInv, TypeOK
<1>1. ASSUME NEW c \in Client, CreateLock(c) \/ JoinLock(c)
      PROVE  Released'
  BY <1>0, <1>1 DEF CreateLock, CreateThrows, JoinLock, ManagerUnlocked, Goto
<1>2. ASSUME NEW c \in Client, CreatePush(c) \/ JoinPush(c)
      PROVE  Released'
  BY <1>0, <1>2 DEF CreatePush, JoinPush, Goto
<1>3. ASSUME NEW c \in Client, CreateFinish(c) \/ RefusePush(c) \/ JoinEnter(c)
      PROVE  Released'
  BY <1>3 DEF CreateFinish, RefusePush, JoinEnter
<1>4. ASSUME NEW c \in Client,
             \/ Accept(c) \/ ReceiveRequest(c) \/ PushCommand(c) \/ WaitToPush(c)
             \/ ReceiverEnds(c)
      PROVE  Released'
  <2>1. rpc[c] \in {"none", "lobby", "play", "push"} /\ UNCHANGED mgr
    BY <1>4 DEF Accept, ReceiveRequest, PushCommand, WaitToPush, ReceiverEnds, IInv, Presence
  <2>2. \A d \in Client \ {c} : rpc'[d] = rpc[d]
    BY <1>0, <1>4 DEF Accept, ReceiveRequest, PushCommand, WaitToPush, ReceiverEnds, Goto
  <2> QED  BY <1>0, <2>1, <2>2
<1>5. CASE DeleteReceiver
  <2>1. rpc[target] = "dead"
    BY <1>5 DEF DeleteReceiver, IInv, Presence
  <2> QED  BY <1>0, <1>5, <2>1 DEF DeleteReceiver
<1>6. CASE UNCHANGED <<rpc, mgr>>
  BY <1>0, <1>6
<1>7. ASSUME NEW c \in Client, ClientCloses(c) \/ Sender(c) \/ Reap(c) \/ KillStop(c)
      PROVE  UNCHANGED <<rpc, mgr>>
  BY <1>7 DEF ClientCloses, Sender, SenderDelivers, SenderFails, SenderStopped, Reap, KillStop
<1>8. ASSUME NEW g \in Code, Game(g) \/ StopGame(g)
      PROVE  UNCHANGED <<rpc, mgr>>
  BY <1>8
     DEF Game, GameLoop, ExecuteCommand, GameStep, GameThrows, GameSpins,
         GamePush, GameUnlock, StopGame
<1>9. ASSUME \/ Quit \/ AccepterEnds \/ KillJoin \/ KillDone \/ DeleteGame \/ ServerEnds
             \/ UNCHANGED vars
      PROVE  UNCHANGED <<rpc, mgr>>
  BY <1>9 DEF Quit, AccepterEnds, KillJoin, KillDone, DeleteGame, ServerEnds, vars
<1> HIDE DEF Released, Holding
<1> QED  BY <1>1, <1>2, <1>3, <1>4, <1>5, <1>6, <1>7, <1>8, <1>9
         DEF Next, Receiver, ReceiverRuns, Accepter

(* Whoever holds the manager's mutex gets on: there is room for its answer *)
(* in its queue, and the Game whose mutex it needs is there, and its       *)
(* thread gives that mutex back, for it pushes to the players with         *)
(* try_push(); or else that Game spins.  Nothing but a match that spins    *)
(* locks the lobby for good (game_manager.cpp:79-140).                     *)
THEOREM HolderGetsOn ==
  Spec => [](mgr # None =>
                /\ mgr \in Client
                /\ \/ rpc[mgr] = "createJoin"
                   \/ /\ rpc[mgr] \in {"createPush", "joinPush", "refusePush"}
                      /\ Len(feedback[mgr]) < FeedbackCap
                   \/ /\ rpc[mgr] = "joinEnter"
                      /\ gpc[req[mgr]] \in {"head", "sleep", "send", "ended"}
                   \/ HeldInJoin(mgr))
<1> DEFINE GetsOn == mgr # None =>
                /\ mgr \in Client
                /\ \/ rpc[mgr] = "createJoin"
                   \/ /\ rpc[mgr] \in {"createPush", "joinPush", "refusePush"}
                      /\ Len(feedback[mgr]) < FeedbackCap
                   \/ /\ rpc[mgr] = "joinEnter"
                      /\ gpc[req[mgr]] \in {"head", "sleep", "send", "ended"}
                   \/ HeldInJoin(mgr)
<1>1. ASSUME IInv, Released
      PROVE  GetsOn
  <2> SUFFICES ASSUME mgr # None
               PROVE  GetsOn
    OBVIOUS
  <2>1. mgr \in Client /\ rpc[mgr] \in Holding
    BY <1>1 DEF Released
  <2>2. rpc[mgr] \in {"createPush", "joinPush", "refusePush"} => Len(feedback[mgr]) < FeedbackCap
    <3>1. rpc[mgr] \in {"createPush", "joinPush", "refusePush"} => feedback[mgr] = <<>>
      BY <1>1, <2>1 DEF IInv, Lobby
    <3>2. Len(<<>>) = 0
      BY EmptySeq
    <3> QED  BY <3>1, <3>2, CapAssumption
  <2>3. rpc[mgr] = "joinEnter" => gpc[req[mgr]] \in {"head", "sleep", "send", "spin", "ended"}
    <3>1. rpc[mgr] = "joinEnter" => req[mgr] \in games /\ mgr \in clients
      BY <1>1, <2>1 DEF IInv, Rooms, Presence
    <3>2. mgr \in clients => ~Ending
      BY <1>1 DEF IInv, Presence
    <3> QED  BY <1>1, <3>1, <3>2 DEF IInv, Rooms
  <2> QED  BY <2>1, <2>2, <2>3 DEF Holding, HeldInJoin
<1>2. Init => Released
  BY DEF Init, Released
<1>3. IInv /\ Released /\ [Next]_vars => Released'
  BY ReleasedStep
<1> HIDE DEF GetsOn
<1>4. Spec => []GetsOn
  BY <1>1, <1>2, <1>3, Invariant, PTL DEF Spec
<1> QED  BY <1>4 DEF GetsOn

(* Every thread that the Accepter joins has ended or has been told to end: *)
(* a Receiver by the end of its connection, a Sender by its queue, a Game  *)
(* by is_running.                                                          *)
JoinsEnd ==
    /\ apc = "killJoin" => rpc[target] = "dead" \/ conn[target] = "closed"
    /\ apc \in {"reapJoin", "killSender"} =>
          spc[target] = "dead" \/ (spc[target] = "run" /\ fbClosed[target])
    /\ apc = "gameJoin" =>
          ~running[target] /\ gpc[target] \in {"head", "sleep", "send", "spin", "ended"}

SendersStarted == \A c \in clients : spc[c] \in {"run", "dead"}

LEMMA JoinsStep ==
  ASSUME IInv, IInv', JoinsEnd, SendersStarted, [Next]_vars
  PROVE  JoinsEnd' /\ SendersStarted'
<1> USE DEF JoinsEnd, SendersStarted
<1>0. /\ rpc \in [Client -> {"none", "lobby", "lock", "createPush", "createJoin", "joinPush",
                            "refusePush", "joinEnter", "play", "push", "dead", "freed"}]
      /\ conn \in [Client -> {"new", "open", "closed"}]
      /\ spc \in [Client -> {"none", "run", "dead", "freed"}]
      /\ fbClosed \in [Client -> BOOLEAN]
      /\ running \in [Code -> BOOLEAN]
      /\ gpc \in [Code -> {"none", "new", "head", "sleep", "send", "spin", "ended", "deleted"}]
      /\ clients \subseteq Client /\ games \subseteq Code /\ reap \subseteq clients
      /\ apc \in {"reapJoin", "killSender", "killJoin"} => target \in clients
      /\ apc \in {"reapJoin", "killSender"} => rpc[target] = "dead"
      /\ apc = "gameJoin" => target \in games
      /\ apc \in {"games", "gameJoin", "done"} => clients = {}
      /\ JoinsEnd /\ SendersStarted
  BY DEF IInv, TypeOK, Presence, Ending
<1>1. ASSUME NEW c \in Client,
             \/ ReceiveRequest(c) \/ CreateLock(c) \/ CreatePush(c) \/ JoinLock(c)
             \/ RefusePush(c) \/ JoinPush(c) \/ JoinEnter(c) \/ CreateFinish(c)
             \/ PushCommand(c) \/ WaitToPush(c) \/ ReceiverEnds(c)
      PROVE  JoinsEnd' /\ SendersStarted'
  <2>1. rpc[c] \notin {"none", "dead", "freed"}
    BY <1>1 DEF ReceiveRequest, CreateLock, CreatePush, JoinLock, RefusePush, JoinPush,
       JoinEnter, CreateFinish, PushCommand, WaitToPush, ReceiverEnds
  <2>2. \E l \in {"lobby", "lock", "createPush", "createJoin", "joinPush", "refusePush",
                  "joinEnter", "play", "push", "dead"} : rpc' = [rpc EXCEPT ![c] = l]
    BY <1>1 DEF ReceiveRequest, CreateLock, CreateThrows, CreatePush, JoinLock, RefusePush,
       JoinPush, JoinEnter, CreateFinish, PushCommand, WaitToPush, ReceiverEnds, Goto
  <2>3. UNCHANGED <<conn, clients, apc, target, spc, fbClosed, running>>
    BY <1>1 DEF ReceiveRequest, CreateLock, CreateThrows, CreatePush, JoinLock, RefusePush,
       JoinPush, JoinEnter, CreateFinish, PushCommand, WaitToPush, ReceiverEnds
  <2>4. apc # "gameJoin"
    <3>1. c \in clients
      BY <2>1 DEF IInv, Presence
    <3> QED  BY <1>0, <3>1
  <2> QED  BY <1>0, <2>1, <2>2, <2>3, <2>4
<1>2. ASSUME NEW c \in Client, Accept(c)
      PROVE  JoinsEnd' /\ SendersStarted'
  BY <1>0, <1>2 DEF Accept
<1>3. ASSUME NEW c \in Client, ClientCloses(c)
      PROVE  JoinsEnd' /\ SendersStarted'
  <2>1. conn' = [conn EXCEPT ![c] = "closed"]
    BY <1>3 DEF ClientCloses, HangUp
  <2>2. UNCHANGED <<rpc, clients, apc, target, spc, fbClosed, running, gpc>>
    BY <1>3 DEF ClientCloses
  <2> QED  BY <1>0, <2>1, <2>2
<1>4. ASSUME NEW c \in Client, Sender(c)
      PROVE  JoinsEnd' /\ SendersStarted'
  <2>1. \/ UNCHANGED spc
        \/ spc[c] = "run" /\ spc' = [spc EXCEPT ![c] = "dead"]
    BY <1>4 DEF Sender, SenderDelivers, SenderFails, SenderStopped
  <2>2. UNCHANGED <<conn, rpc, clients, apc, target, fbClosed, running, gpc>>
    BY <1>4 DEF Sender, SenderDelivers, SenderFails, SenderStopped
  <2> QED  BY <1>0, <2>1, <2>2
<1>5. ASSUME NEW g \in Code, Game(g)
      PROVE  JoinsEnd' /\ SendersStarted'
  <2>1. /\ gpc[g] \in {"head", "sleep", "send"}
        /\ gpc'[g] \in {"head", "sleep", "send", "spin", "ended"}
        /\ \A h \in Code \ {g} : gpc'[h] = gpc[h]
        /\ \A h \in Code : running'[h] => running[h]
    BY <1>0, <1>5, SMTT(20)
       DEF Game, GameLoop, ExecuteCommand, GameStep, GameThrows, GameSpins,
           GamePush, GameUnlock, StillRunning
  <2>2. UNCHANGED <<conn, rpc, clients, apc, target, spc, fbClosed>>
    BY <1>5
       DEF Game, GameLoop, ExecuteCommand, GameStep, GameThrows, GameSpins, GamePush, GameUnlock
  <2> QED  BY <1>0, <2>1, <2>2
<1>6. ASSUME NEW c \in Client, Reap(c)
      PROVE  JoinsEnd' /\ SendersStarted'
  BY <1>0, <1>6 DEF Reap, StopSender
<1>7. ASSUME NEW c \in Client, KillStop(c)
      PROVE  JoinsEnd' /\ SendersStarted'
  BY <1>0, <1>7 DEF KillStop, HangUp
<1>8. CASE KillJoin
  BY <1>0, <1>8 DEF KillJoin, StopSender
<1>9. CASE DeleteReceiver
  BY <1>0, <1>9 DEF DeleteReceiver
<1>10. ASSUME NEW g \in Code, StopGame(g)
       PROVE  JoinsEnd' /\ SendersStarted'
  BY <1>0, <1>10 DEF StopGame, IInv, Rooms
<1>11. CASE AccepterEnds \/ KillDone \/ ServerEnds \/ DeleteGame
  BY <1>0, <1>11 DEF AccepterEnds, KillDone, ServerEnds, DeleteGame
<1>12. CASE Quit \/ UNCHANGED vars
  BY <1>0, <1>12 DEF Quit, vars
<1> HIDE DEF JoinsEnd, SendersStarted
<1> QED  BY <1>1, <1>2, <1>3, <1>4, <1>5, <1>6, <1>7, <1>8, <1>9, <1>10, <1>11, <1>12
         DEF Next, Receiver, ReceiverRuns, Accepter

(* reapDead(), killAll() and cleanAllGames() wait for nobody that does not *)
(* know that it has to end: the chain of joins of the shutdown can only    *)
(* stop at a Receiver that waits, in push() or for a mutex, and at a Game  *)
(* that spins (accepter.cpp:40-58, receiver.cpp:97, game_manager.cpp:48-54,*)
(* 136-138).                                                               *)
THEOREM JoinedThreadsWereStopped == Spec => []JoinsEnd
<1>1. Init => JoinsEnd /\ SendersStarted
  BY DEF Init, JoinsEnd, SendersStarted
<1>2. IInv /\ IInv' /\ JoinsEnd /\ SendersStarted /\ [Next]_vars => (JoinsEnd /\ SendersStarted)'
  BY JoinsStep
<1> QED  BY <1>1, <1>2, Invariant, PTL DEF Spec
==============================================================================
