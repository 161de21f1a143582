----------------------------- MODULE GameServer ------------------------------
(***************************************************************************)
(* The threads of the server and what they share: the main thread and the  *)
(* Accepter, one Receiver and one Sender per connection, the GameManager   *)
(* with its map of games, and one Game thread per game.  The queues        *)
(* between them are the bounded, closable buffers of BoundedFifo, which    *)
(* libs/queue.h implements (MonitorQueue): an operation on one is a step.  *)
(*                                                                         *)
(* Abstractions.  An in-game command is opaque: commands_recv is its       *)
(* length.  A Match is reduced to is_over(), which simulateStep may turn   *)
(* true in any step (over), and to the steps that do not return.  The      *)
(* client is the environment, as src/Client behaves: it has one unanswered *)
(* lobby request at most, sends commands only once it is in a game, be it  *)
(* after the score, when what was queued is still sent, and may close its  *)
(* connection at any time.  A request or command is read from the socket   *)
(* in the step that sends it.  A GameManager or Game critical section is   *)
(* split where it can block or where another thread can see between.       *)
(***************************************************************************)
EXTENDS Naturals, Sequences, FiniteSets, SequencesExt

CONSTANTS Client,       \* the connections
          Code,         \* the game codes the generator can produce
          MaxGames,     \* MAX_SIZE of game_manager.cpp
          MaxPlayers,   \* MAX_PLAYERS of game_manager.cpp
          FeedbackCap,  \* capacity of a Receiver's send_state_queue
          CommandCap,   \* capacity of a Game's commands_recv
          Leavers,      \* the clients that may close their connection
          Movers,       \* the clients that send game commands
          Failures,     \* what may go wrong in a step of a match: "throws", "spins"
          MayQuit,      \* does the operator ever type "q"
          None          \* "no client", "no game"

ASSUME CapAssumption ==
    {MaxGames, MaxPlayers, FeedbackCap, CommandCap} \subseteq Nat \ {0}
ASSUME EnvironmentAssumption ==
    /\ Leavers \subseteq Client
    /\ Movers \subseteq Client
    /\ Failures \subseteq {"throws", "spins"}
    /\ MayQuit \in BOOLEAN
ASSUME NoneAssumption == None \notin Client \cup Code \cup {"create"}

VARIABLES
    conn,       \* [Client]: "new" | "open" | "closed", the socket
    asking,     \* [Client]: a lobby request awaits its answer
    seen,       \* [Client]: last feedback the client has received
    rpc,        \* [Client]: where its Receiver thread is
    req,        \* [Client]: the lobby request or the new game's code
    gameOf,     \* [Client]: the game that game_queue points into
    playerId,   \* [Client]: Receiver::player_id
    late,       \* [Client]: history, joined when the game was already over
    spc,        \* [Client]: where its Sender thread is
    feedback,   \* [Client]: send_state_queue
    fbClosed,   \* [Client]: send_state_queue is closed
    mgr,        \* the Receiver holding GameManager::mtx
    games,      \* the domain of GameManager::games
    gpc,        \* [Code]: where its Game thread is
    players,    \* [Code]: players_amount
    queues,     \* [Code]: player_queues
    commands,   \* [Code]: length of commands_recv
    over,       \* [Code]: Match::is_over()
    running,    \* [Code]: Game::is_running
    outgoing,   \* [Code]: the feedback being pushed to the players
    next,       \* [Code]: index in player_queues of the next push
    quit,       \* main has read "q" and shut the listening socket
    apc,        \* where the Accepter thread, then ~Accepter in main, is
    clients,    \* Accepter::clients
    reap,       \* the dead clients that reapDead() has yet to delete
    target      \* the client being stopped, joined and deleted

clientVars == <<conn, asking, seen>>
receiverVars == <<rpc, req, gameOf, playerId, late>>
senderVars == <<spc, feedback, fbClosed>>
managerVars == <<mgr, games>>
gameVars == <<gpc, players, queues, commands, over, running, outgoing, next>>
accepterVars == <<quit, apc, clients, reap, target>>
vars == <<clientVars, receiverVars, senderVars, managerVars, gameVars,
          accepterVars>>

Answers == {"notjoined", "joined", "created"}
Feedback == Answers \cup {"state", "score"}

Init ==
    /\ conn = [c \in Client |-> "new"]
    /\ asking = [c \in Client |-> FALSE]
    /\ seen = [c \in Client |-> "none"]
    /\ rpc = [c \in Client |-> "none"]
    /\ req = [c \in Client |-> None]
    /\ gameOf = [c \in Client |-> None]
    /\ playerId = [c \in Client |-> 0]
    /\ late = [c \in Client |-> FALSE]
    /\ spc = [c \in Client |-> "none"]
    /\ feedback = [c \in Client |-> <<>>]
    /\ fbClosed = [c \in Client |-> FALSE]
    /\ mgr = None
    /\ games = {}
    /\ gpc = [g \in Code |-> "none"]
    /\ players = [g \in Code |-> 0]
    /\ queues = [g \in Code |-> <<>>]
    /\ commands = [g \in Code |-> 0]
    /\ over = [g \in Code |-> FALSE]
    /\ running = [g \in Code |-> TRUE]
    /\ outgoing = [g \in Code |-> "state"]
    /\ next = [g \in Code |-> 1]
    /\ quit = FALSE
    /\ apc = "accept"
    /\ clients = {}
    /\ reap = {}
    /\ target = None

------------------------------------------------------------------------------
(* The client and its socket *)

(* Either end closes the connection; what the client knew goes with it.    *)
HangUp(c) ==
    /\ conn' = [conn EXCEPT ![c] = "closed"]
    /\ asking' = [asking EXCEPT ![c] = FALSE]
    /\ seen' = [seen EXCEPT ![c] = "none"]

(* The user leaves, or the client process dies.                            *)
ClientCloses(c) ==
    /\ c \in Leavers
    /\ conn[c] = "open"
    /\ HangUp(c)
    /\ UNCHANGED <<receiverVars, senderVars, managerVars, gameVars,
                   accepterVars>>

------------------------------------------------------------------------------
(* Receiver *)

Goto(c, l) == rpc' = [rpc EXCEPT ![c] = l]

(* queue.push(): a step that is enabled when there is room.                *)
PushFeedback(c, f) ==
    /\ Len(feedback[c]) < FeedbackCap
    /\ feedback' = [feedback EXCEPT ![c] = Append(@, f)]

(* joinGame(): protocol.recvPreGameCommand() yields a request to create a  *)
(* game or to join one by its code.                                        *)
ReceiveRequest(c) ==
    /\ rpc[c] = "lobby"
    /\ conn[c] = "open"
    /\ ~asking[c]
    /\ \E r \in Code \cup {"create"} : req' = [req EXCEPT ![c] = r]
    /\ asking' = [asking EXCEPT ![c] = TRUE]
    /\ Goto(c, "lock")
    /\ UNCHANGED <<conn, seen, gameOf, playerId, late, senderVars,
                   managerVars, gameVars, accepterVars>>

(* Mutant of ManagerUnlocked: no lock_guard in createGame and joinGame.    *)
ManagerUnguarded == TRUE

(* GameManager::mtx is free.                                               *)
ManagerUnlocked == mgr = None

(* MAX_SIZE games exist: the runtime_error ends the Receiver.              *)
CreateThrows(c) ==
    /\ Goto(c, "dead")
    /\ UNCHANGED <<req, mgr, gpc>>

(* GameManager::createGame() gets the mutex; over the limit it throws,     *)
(* which ends the Receiver.                                                *)
CreateLock(c) ==
    /\ rpc[c] = "lock"
    /\ req[c] = "create"
    /\ ManagerUnlocked
    /\ IF Cardinality(games) >= MaxGames
       THEN CreateThrows(c)
       ELSE /\ mgr' = c
            /\ \E g \in Code \ games :
                  /\ req' = [req EXCEPT ![c] = g]
                  /\ gpc' = [gpc EXCEPT ![g] = "new"]
            /\ Goto(c, "createPush")
    /\ UNCHANGED <<clientVars, gameOf, playerId, late, senderVars, games,
                   players, queues, commands, over, running, outgoing, next,
                   accepterVars>>

CreatePush(c) ==
    /\ rpc[c] = "createPush"
    /\ PushFeedback(c, "created")
    /\ Goto(c, "createJoin")
    /\ UNCHANGED <<clientVars, req, gameOf, playerId, late, spc,
                   fbClosed, managerVars, gameVars, accepterVars>>

(* Game::join(): the body, under Game::mtx.                                *)
JoinBody(c, g) ==
    /\ gameOf' = [gameOf EXCEPT ![c] = g]
    /\ queues' = [queues EXCEPT ![g] = Append(@, c)]
    /\ players' = [players EXCEPT ![g] = @ + 1]
    /\ playerId' = [playerId EXCEPT ![c] = players[g] + 1]
    /\ late' = [late EXCEPT ![c] = ~running[g]]

(* cleanEmptyGames(): a game without players is stopped, joined and        *)
(* deleted.                                                                *)
EmptyGames == {g \in games : players[g] = 0}

(* The rest of createGame(): join, insert, start, cleanEmptyGames, unlock. *)
CreateFinish(c) ==
    /\ rpc[c] = "createJoin"
    /\ JoinBody(c, req[c])
    /\ games' = (games \ EmptyGames) \cup {req[c]}
    /\ gpc' = [g \in Code |-> IF g = req[c] THEN "head"
                              ELSE IF g \in EmptyGames THEN "deleted"
                              ELSE gpc[g]]
    /\ mgr' = None
    /\ Goto(c, "play")
    /\ UNCHANGED <<clientVars, req, senderVars, commands, over, running,
                   outgoing, next, accepterVars>>

(* isFull() is false.                                                      *)
Joinable(g) == g \in games /\ players[g] < MaxPlayers

(* Mutant of JoinLock: Game::join() comes before the answer as well.       *)
JoinLockJoinsFirst(c) ==
    /\ rpc[c] = "lock"
    /\ req[c] \in Code
    /\ ManagerUnlocked
    /\ Joinable(req[c])
    /\ gpc[req[c]] \notin {"send", "spin"}
    /\ mgr' = c
    /\ JoinBody(c, req[c])
    /\ Goto(c, "joinPush")
    /\ UNCHANGED <<clientVars, req, senderVars, games, gpc, commands, over,
                   running, outgoing, next, accepterVars>>

(* GameManager::joinGame() gets the mutex and looks the code up.           *)
JoinLock(c) ==
    /\ rpc[c] = "lock"
    /\ req[c] \in Code
    /\ ManagerUnlocked
    /\ mgr' = c
    /\ IF Joinable(req[c])
       THEN Goto(c, "joinPush")
       ELSE Goto(c, "refusePush")
    /\ UNCHANGED <<clientVars, req, gameOf, playerId, late, senderVars, games,
                   gameVars, accepterVars>>

(* Mutant of RefusePush: a mutex locked by hand stays locked on this path. *)
RefusePushLocked(c) ==
    /\ rpc[c] = "refusePush"
    /\ PushFeedback(c, "notjoined")
    /\ Goto(c, "lobby")
    /\ UNCHANGED <<clientVars, req, gameOf, playerId, late, spc, fbClosed, managerVars,
                   gameVars, accepterVars>>

(* Not found, or full: NOT_JOINED, and back to the lobby loop.             *)
RefusePush(c) ==
    /\ rpc[c] = "refusePush"
    /\ PushFeedback(c, "notjoined")
    /\ mgr' = None
    /\ Goto(c, "lobby")
    /\ UNCHANGED <<clientVars, req, gameOf, playerId, late, spc,
                   fbClosed, games, gameVars, accepterVars>>

JoinPush(c) ==
    /\ rpc[c] = "joinPush"
    /\ PushFeedback(c, "joined")
    /\ Goto(c, "joinEnter")
    /\ UNCHANGED <<clientVars, req, gameOf, playerId, late, spc,
                   fbClosed, managerVars, gameVars, accepterVars>>

(* Game::join() waits for Game::mtx, which the Game thread holds while it  *)
(* simulates and pushes.                                                   *)
JoinEnter(c) ==
    /\ rpc[c] = "joinEnter"
    /\ gpc[req[c]] \notin {"send", "spin"}
    /\ JoinBody(c, req[c])
    /\ mgr' = None
    /\ Goto(c, "play")
    /\ UNCHANGED <<clientVars, req, senderVars, games, gpc, commands, over,
                   running, outgoing, next, accepterVars>>

(* Mutant of RoomFor: the capacity is off by one.                          *)
RoomForOneMore(g) == commands[g] <= CommandCap

(* commands_recv is not full.                                              *)
RoomFor(g) == commands[g] < CommandCap

(* The client knows that it is in a game.                                  *)
InGame(c) == seen[c] \in {"created", "joined", "state", "score"}

(* readCommands(): a command is read and pushed; push() waits while the    *)
(* game's queue is full.                                                   *)
PushCommand(c) ==
    /\ \/ rpc[c] = "play" /\ conn[c] = "open" /\ c \in Movers
                         /\ InGame(c)
       \/ rpc[c] = "push"
    /\ RoomFor(gameOf[c])
    /\ commands' = [commands EXCEPT ![gameOf[c]] = @ + 1]
    /\ Goto(c, "play")
    /\ UNCHANGED <<clientVars, req, gameOf, playerId, late, senderVars,
                   managerVars, gpc, players, queues, over, running, outgoing,
                   next, accepterVars>>

WaitToPush(c) ==
    /\ c \in Movers
    /\ rpc[c] = "play"
    /\ conn[c] = "open"
    /\ InGame(c)
    /\ ~RoomFor(gameOf[c])
    /\ Goto(c, "push")
    /\ UNCHANGED <<clientVars, req, gameOf, playerId, late, senderVars,
                   managerVars, gameVars, accepterVars>>

(* A read on a closed socket throws ClosedSocket; after stop() the loops   *)
(* also see keep_talking = false.                                          *)
ReceiverEnds(c) ==
    /\ rpc[c] \in {"lobby", "play"}
    /\ conn[c] = "closed"
    /\ Goto(c, "dead")
    /\ UNCHANGED <<clientVars, req, gameOf, playerId, late, senderVars,
                   managerVars, gameVars, accepterVars>>

------------------------------------------------------------------------------
(* Sender *)

(* One round of run() for a client that reads: pop(), sendFeedback().  An  *)
(* element being sent still counts as queued.                              *)
SenderDelivers(c) ==
    /\ spc[c] = "run"
    /\ conn[c] = "open"
    /\ feedback[c] # <<>>
    /\ seen' = [seen EXCEPT ![c] = Head(feedback[c])]
    /\ asking' = [asking EXCEPT ![c] = @ /\ Head(feedback[c]) \notin Answers]
    /\ feedback' = [feedback EXCEPT ![c] = Tail(@)]
    /\ UNCHANGED <<conn, receiverVars, spc, fbClosed, managerVars, gameVars,
                   accepterVars>>

(* sendFeedback() throws on a closed socket.  The Sender's thread ends,    *)
(* its queue stays open.                                                   *)
SenderFails(c) ==
    /\ spc[c] = "run"
    /\ conn[c] = "closed"
    /\ feedback[c] # <<>>
    /\ feedback' = [feedback EXCEPT ![c] = Tail(@)]
    /\ spc' = [spc EXCEPT ![c] = "dead"]
    /\ UNCHANGED <<clientVars, receiverVars, fbClosed, managerVars, gameVars,
                   accepterVars>>

(* stop() was called: the loop sees keep_talking = false, or pop() throws  *)
(* ClosedQueue.                                                            *)
SenderStopped(c) ==
    /\ spc[c] = "run"
    /\ fbClosed[c]
    /\ spc' = [spc EXCEPT ![c] = "dead"]
    /\ UNCHANGED <<clientVars, receiverVars, feedback, fbClosed, managerVars,
                   gameVars, accepterVars>>

------------------------------------------------------------------------------
(* Game *)

(* The loop condition, tested without the mutex, then sleep_for.           *)
GameLoop(g) ==
    /\ gpc[g] = "head"
    /\ gpc' = [gpc EXCEPT ![g] = IF running[g] /\ players[g] > 0
                                 THEN "sleep" ELSE "ended"]
    /\ UNCHANGED <<clientVars, receiverVars, senderVars, managerVars, players,
                   queues, commands, over, running, outgoing, next,
                   accepterVars>>

(* Under Game::mtx, at most one command is popped and executed.            *)
ExecuteCommand(g) ==
    /\ gpc[g] = "sleep"
    /\ commands' = [commands EXCEPT ![g] = IF @ > 0 THEN @ - 1 ELSE 0]

(* Still under the mutex, the match is simulated, or, if it was over       *)
(* already, its score is collected.                                        *)
GameStep(g) ==
    /\ ExecuteCommand(g)
    /\ outgoing' = [outgoing EXCEPT ![g] = IF over[g] THEN "score" ELSE "state"]
    /\ \E o \in BOOLEAN : over' = [over EXCEPT ![g] = @ \/ o]
    /\ next' = [next EXCEPT ![g] = 1]
    /\ gpc' = [gpc EXCEPT ![g] = "send"]
    /\ UNCHANGED <<clientVars, receiverVars, senderVars, managerVars, players,
                   queues, running, accepterVars>>

(* simulateStep() throws: a torn score.yaml in updateScore(), an unset     *)
(* victim_id in shoot().  The mutex is released, Thread::main() swallows   *)
(* the exception and the thread ends, is_running as it was.                *)
GameThrows(g) ==
    /\ "throws" \in Failures
    /\ ExecuteCommand(g)
    /\ ~over[g]
    /\ gpc' = [gpc EXCEPT ![g] = "ended"]
    /\ UNCHANGED <<clientVars, receiverVars, senderVars, managerVars, players,
                   queues, over, running, outgoing, next, accepterVars>>

(* simulateStep() does not return, nor gives Game::mtx back: the loop of   *)
(* setRandomPosition(), at the end of a step of Survival (Arena!Spin).     *)
GameSpins(g) ==
    /\ "spins" \in Failures
    /\ ExecuteCommand(g)
    /\ ~over[g]
    /\ \E o \in BOOLEAN : over' = [over EXCEPT ![g] = o]
    /\ gpc' = [gpc EXCEPT ![g] = "spin"]
    /\ UNCHANGED <<clientVars, receiverVars, senderVars, managerVars, players,
                   queues, running, outgoing, next, accepterVars>>

(* Mutants of Drop: the index advances too; a player whose queue is full   *)
(* or closed stays.                                                        *)
DropAndSkip(g) ==
    /\ queues' = [queues EXCEPT ![g] = RemoveAt(@, next[g])]
    /\ next' = [next EXCEPT ![g] = @ + 1]
    /\ UNCHANGED feedback

KeepLaggard(g) ==
    /\ next' = [next EXCEPT ![g] = @ + 1]
    /\ UNCHANGED <<queues, feedback>>

(* it = player_queues.erase(it); after ClosedQueue the old iterator is     *)
(* kept, which in a vector that does not grow is the same place.           *)
Drop(g) ==
    /\ queues' = [queues EXCEPT ![g] = RemoveAt(@, next[g])]
    /\ UNCHANGED <<feedback, next>>

(* try_push() to the next player; a queue that is full or closed is erased *)
(* from player_queues and the loop goes on with the one that follows it.   *)
GamePush(g) ==
    /\ gpc[g] = "send"
    /\ next[g] <= Len(queues[g])
    /\ LET c == queues[g][next[g]]
       IN IF ~fbClosed[c] /\ Len(feedback[c]) < FeedbackCap
          THEN /\ feedback' = [feedback EXCEPT ![c] = Append(@, outgoing[g])]
               /\ next' = [next EXCEPT ![g] = @ + 1]
               /\ UNCHANGED queues
          ELSE Drop(g)
    /\ UNCHANGED <<clientVars, receiverVars, spc, fbClosed,
                   managerVars, gpc, players, commands, over, running,
                   outgoing, accepterVars>>

(* Mutant of StillRunning: the score does not end the game.                *)
StillRunningAfterScore(g) == running[g]

(* is_running, set to false once the score has been pushed.                *)
StillRunning(g) == running[g] /\ outgoing[g] # "score"

(* All players served: the mutex is released; after the score the thread   *)
(* is told to end.                                                         *)
GameUnlock(g) ==
    /\ gpc[g] = "send"
    /\ next[g] > Len(queues[g])
    /\ running' = [running EXCEPT ![g] = StillRunning(g)]
    /\ next' = [next EXCEPT ![g] = 1]
    /\ gpc' = [gpc EXCEPT ![g] = "head"]
    /\ UNCHANGED <<clientVars, receiverVars, senderVars, managerVars, players,
                   queues, commands, over, outgoing, accepterVars>>

------------------------------------------------------------------------------
(* Accepter and main *)

(* main reads "q": ~Server calls accepter.stop().                          *)
Quit ==
    /\ MayQuit
    /\ ~quit
    /\ quit' = TRUE
    /\ UNCHANGED <<clientVars, receiverVars, senderVars, managerVars, gameVars,
                   apc, clients, reap, target>>

(* acceptClient(), a Receiver for the peer, whose run() starts its Sender, *)
(* then reapDead(), which examines the clients together: one that dies     *)
(* during the loop is one that dies just before or just after it.          *)
Dead == {c \in clients : rpc[c] = "dead"}

Accept(c) ==
    /\ apc = "accept"
    /\ ~quit
    /\ conn[c] = "new"
    /\ conn' = [conn EXCEPT ![c] = "open"]
    /\ Goto(c, "lobby")
    /\ spc' = [spc EXCEPT ![c] = "run"]
    /\ clients' = clients \cup {c}
    /\ reap' = Dead
    /\ apc' = IF Dead = {} THEN "accept" ELSE "reap"
    /\ UNCHANGED <<asking, seen, req, gameOf, playerId, late, feedback,
                   fbClosed, managerVars, gameVars, quit, target>>

(* Mutant of AccepterEnds: the game manager is destroyed before killAll(). *)
AccepterEndsGamesFirst ==
    /\ apc = "accept"
    /\ quit
    /\ apc' = "games"
    /\ UNCHANGED <<clientVars, receiverVars, senderVars, managerVars, gameVars,
                   quit, clients, reap, target>>

(* acceptClient() throws once the listening socket is closed; main's join  *)
(* returns and ~Accepter starts killAll().                                 *)
AccepterEnds ==
    /\ apc = "accept"
    /\ quit
    /\ apc' = "kill"
    /\ UNCHANGED <<clientVars, receiverVars, senderVars, managerVars, gameVars,
                   quit, clients, reap, target>>

(* Mutant of StopSender: the queue is left open.                           *)
StopSenderOnly(c) == UNCHANGED fbClosed

(* ~Receiver of a Receiver that has ended: a Sender that still runs is     *)
(* stopped, its queue closed.                                              *)
StopSender(c) == fbClosed' = [fbClosed EXCEPT ![c] = @ \/ spc[c] # "dead"]

Reap(c) ==
    /\ apc = "reap"
    /\ c \in reap
    /\ reap' = reap \ {c}
    /\ target' = c
    /\ apc' = "reapJoin"
    /\ StopSender(c)
    /\ UNCHANGED <<clientVars, receiverVars, spc, feedback, managerVars,
                   gameVars, quit, clients>>

(* killAll(): stop() shuts and closes the socket of a Receiver that runs.  *)
KillStop(c) ==
    /\ apc = "kill"
    /\ c \in clients
    /\ target' = c
    /\ apc' = "killJoin"
    /\ IF rpc[c] = "dead" THEN UNCHANGED clientVars ELSE HangUp(c)
    /\ UNCHANGED <<receiverVars, senderVars, managerVars, gameVars, quit,
                   clients, reap>>

(* killAll(): the Receiver is joined, then deleted.                        *)
KillJoin ==
    /\ apc = "killJoin"
    /\ rpc[target] = "dead"
    /\ StopSender(target)
    /\ apc' = "killSender"
    /\ UNCHANGED <<clientVars, receiverVars, spc, feedback,
                   managerVars, gameVars, quit, clients, reap, target>>

(* ~Receiver: sender.join(), then the members, the socket among them, are  *)
(* destroyed.  reapDead() and killAll() share it.                          *)
DeleteReceiver ==
    /\ apc \in {"reapJoin", "killSender"}
    /\ spc[target] = "dead"
    /\ rpc' = [rpc EXCEPT ![target] = "freed"]
    /\ spc' = [spc EXCEPT ![target] = "freed"]
    /\ HangUp(target)
    /\ apc' = IF apc = "killSender" THEN "kill"
              ELSE IF reap = {} THEN "accept" ELSE "reap"
    /\ clients' = clients \ {target}
    /\ target' = None
    /\ UNCHANGED <<req, gameOf, playerId, late, feedback, fbClosed,
                   managerVars, gameVars, quit, reap>>

(* ~Accepter goes on to its member game_manager: cleanAllGames().          *)
KillDone ==
    /\ apc = "kill"
    /\ clients = {}
    /\ apc' = "games"
    /\ UNCHANGED <<clientVars, receiverVars, senderVars, managerVars, gameVars,
                   quit, clients, reap, target>>

StopGame(g) ==
    /\ apc = "games"
    /\ g \in games
    /\ gpc[g] # "deleted"
    /\ target' = g
    /\ apc' = "gameJoin"
    /\ running' = [running EXCEPT ![g] = FALSE]
    /\ UNCHANGED <<clientVars, receiverVars, senderVars, managerVars, gpc,
                   players, queues, commands, over, outgoing, next, quit,
                   clients, reap>>

DeleteGame ==
    /\ apc = "gameJoin"
    /\ gpc[target] = "ended"
    /\ gpc' = [gpc EXCEPT ![target] = "deleted"]
    /\ target' = None
    /\ apc' = "games"
    /\ UNCHANGED <<clientVars, receiverVars, senderVars, managerVars, players,
                   queues, commands, over, running, outgoing, next, quit,
                   clients, reap>>

ServerEnds ==
    /\ apc = "games"
    /\ \A g \in games : gpc[g] = "deleted"
    /\ apc' = "done"
    /\ UNCHANGED <<clientVars, receiverVars, senderVars, managerVars, gameVars,
                   quit, clients, reap, target>>

------------------------------------------------------------------------------
(* What a Receiver does on its own: everything but reading its socket.     *)
ReceiverRuns(c) ==
    \/ CreateLock(c)
    \/ CreatePush(c)
    \/ CreateFinish(c)
    \/ JoinLock(c)
    \/ RefusePush(c)
    \/ JoinPush(c)
    \/ JoinEnter(c)
    \/ rpc[c] = "push" /\ PushCommand(c)
    \/ ReceiverEnds(c)

Receiver(c) ==
    \/ ReceiverRuns(c)
    \/ ReceiveRequest(c)
    \/ PushCommand(c)
    \/ WaitToPush(c)

Sender(c) == SenderDelivers(c) \/ SenderFails(c) \/ SenderStopped(c)

Game(g) ==
    \/ GameLoop(g)
    \/ GameStep(g) \/ GameThrows(g) \/ GameSpins(g)
    \/ GamePush(g)
    \/ GameUnlock(g)

Accepter ==
    \/ AccepterEnds
    \/ \E c \in Client : Reap(c) \/ KillStop(c)
    \/ KillJoin
    \/ DeleteReceiver
    \/ KillDone
    \/ \E g \in Code : StopGame(g)
    \/ DeleteGame
    \/ ServerEnds

Next ==
    \/ \E c \in Client : ClientCloses(c) \/ Accept(c) \/ Receiver(c) \/ Sender(c)
    \/ \E g \in Code : Game(g)
    \/ Quit
    \/ Accepter

(* Every thread that can run does.  A Receiver contends for two mutexes    *)
(* and for room in a queue, hence strong fairness: GameManager::mtx is     *)
(* released between two requests of a connection, Game::mtx during the     *)
(* 5 ms sleep of every iteration, and every waiting push() is notified.    *)
(* A Game thread in a step of its match may end or spin instead.  Nothing  *)
(* obliges a client to send, to read or to leave, nor main to quit.  The   *)
(* subscripts are what every step of the action changes.                   *)
Fairness ==
    /\ \A c \in Client : /\ SF_rpc(ReceiverRuns(c))
                        /\ WF_spc(SenderFails(c) \/ SenderStopped(c))
    /\ \A g \in Code : WF_gameVars(Game(g))
    /\ WF_apc(Accepter)

Spec == Init /\ [][Next]_vars /\ Fairness

(* The same with clients that read what they are sent, as the Receiver     *)
(* thread of src/Client does.                                              *)
ReadingSpec == Spec /\ \A c \in Client : WF_vars(SenderDelivers(c))
------------------------------------------------------------------------------
(* Type invariant.                                                         *)
TypeOK ==
    /\ conn \in [Client -> {"new", "open", "closed"}]
    /\ asking \in [Client -> BOOLEAN]
    /\ seen \in [Client -> Feedback \cup {"none"}]
    /\ rpc \in [Client -> {"none", "lobby", "lock", "createPush",
                           "createJoin", "joinPush", "refusePush",
                           "joinEnter", "play", "push", "dead", "freed"}]
    /\ req \in [Client -> Code \cup {"create", None}]
    /\ gameOf \in [Client -> Code \cup {None}]
    /\ playerId \in [Client -> Nat]
    /\ late \in [Client -> BOOLEAN]
    /\ spc \in [Client -> {"none", "run", "dead", "freed"}]
    /\ feedback \in [Client -> Seq(Feedback)]
    /\ fbClosed \in [Client -> BOOLEAN]
    /\ mgr \in Client \cup {None}
    /\ games \in SUBSET Code
    /\ gpc \in [Code -> {"none", "new", "head", "sleep", "send", "spin",
                         "ended", "deleted"}]
    /\ players \in [Code -> Nat]
    /\ queues \in [Code -> Seq(Client)]
    /\ commands \in [Code -> 0..CommandCap]
    /\ over \in [Code -> BOOLEAN]
    /\ running \in [Code -> BOOLEAN]
    /\ outgoing \in [Code -> {"state", "score"}]
    /\ next \in [Code -> Nat \ {0}]
    /\ quit \in BOOLEAN
    /\ apc \in {"accept", "reap", "reapJoin", "kill", "killJoin", "killSender",
                "games", "gameJoin", "done"}
    /\ clients \in SUBSET Client
    /\ reap \in SUBSET Client
    /\ target \in Client \cup Code \cup {None}

(* What a client may receive after what: refusals, then one answer that    *)
(* lets it in, then states, and the score last.                            *)
Follows(f, h) ==
    CASE f \in {"none", "notjoined"} -> h \in Answers
      [] f \in {"joined", "created", "state"} -> h \in {"state", "score"}
      [] f = "score" -> FALSE

(* Everything the server has sent, or still holds, for a client since the  *)
(* last feedback it received.                                              *)
Stream(c) == <<seen[c]>> \o feedback[c]

(* The answer to a lobby request comes before any state of the game, and   *)
(* nothing follows the score, although the Receiver (under GameManager's   *)
(* mutex) and the Game thread push to the same queue: the client casts the *)
(* first feedback it pops to the answer it expects                         *)
(* (game_manager.cpp:98-102, 136-138; lobbywindow.cpp).                    *)
FeedbackInOrder ==
    \A c \in Client :
        conn[c] = "open" =>
            \A i \in 1..(Len(Stream(c)) - 1) : Follows(Stream(c)[i], Stream(c)[i + 1])

Members(g) == {c \in Client : gameOf[c] = g}

(* The members of a game have distinct ids, 1..players_amount, and are at  *)
(* most MAX_PLAYERS, although isFull() is tested outside Game::mtx and     *)
(* join() increments inside it (game_manager.cpp:132-138, game.cpp:31).    *)
PlayersNumbered ==
    \A g \in Code :
        /\ players[g] <= MaxPlayers
        /\ Cardinality(Members(g)) = players[g]
        /\ {playerId[c] : c \in Members(g)} = 1..players[g]

(* The raw pointer game_queue of a Receiver that may still push, and the   *)
(* Game* that joinGame() holds, point to a game that is not deleted: the   *)
(* games go after the Receivers in ~Accepter, and never before.            *)
GameQueueAlive ==
    \A c \in Client :
        /\ rpc[c] \in {"play", "push"} => gpc[gameOf[c]] \notin {"none", "deleted"}
        /\ rpc[c] \in {"joinPush", "joinEnter"} =>
              req[c] \in games /\ gpc[req[c]] # "deleted"

(* The answer of a lobby request is pushed with the blocking push() while  *)
(* GameManager::mtx is held; it never waits, or one slow client would      *)
(* stop everybody else's lobby.                                            *)
LobbyPushNeverBlocks ==
    \A c \in Client :
        rpc[c] \in {"createPush", "joinPush", "refusePush"} => feedback[c] = <<>>

(* When a match ends every player that is still in player_queues gets its  *)
(* score, if still connected and whatever players the same loop erased     *)
(* (game.cpp:99-118).  Those who joined after the end are late.            *)
ScoreReachesPlayers ==
    \A g \in games, c \in Client :
        (/\ ~running[g] /\ outgoing[g] = "score" /\ gpc[g] \in {"head", "ended"}
         /\ gameOf[c] = g /\ ~late[c] /\ conn[c] = "open") =>
            "score" \in ToSet(Stream(c)) \/ c \notin ToSet(queues[g])

(* The server, its threads, mutexes and queues hidden, is MatchMaking: a   *)
(* place is taken when its answer is pushed, although Game::join() comes   *)
(* later and waits for Game::mtx (game_manager.cpp:98-111, 126-138), and   *)
(* the match may end between the two.                                      *)
Link(c) ==
    CASE rpc[c] = "none" -> "new"
      [] rpc[c] \in {"dead", "freed"} -> "gone"
      [] OTHER -> IF conn[c] = "open" THEN "up" ELSE "cut"

Seat(c) == IF rpc[c] \in {"createJoin", "joinEnter"} THEN req[c] ELSE gameOf[c]

(* The last feedback on its way to a client, or the last it has received.  *)
LastOf(c) == IF feedback[c] = <<>> THEN seen[c] ELSE feedback[c][Len(feedback[c])]

Said(c) == IF Link(c) = "up" THEN LastOf(c) ELSE "none"

Missed(c) == late[c] \/ (rpc[c] = "joinEnter" /\ outgoing[req[c]] = "score")

Abstract == INSTANCE MatchMaking WITH
    link <- [c \in Client |-> Link(c)],
    room <- [c \in Client |-> Seat(c)],
    said <- [c \in Client |-> Said(c)],
    final <- [g \in Code |-> outgoing[g] = "score"],
    missed <- {c \in Client : Missed(c)}

(* Abstract!Spec, written with the stutters first, for they are most       *)
(* steps, and before them those that change nothing the mapping reads.     *)
ImplementsMatchMaking ==
    /\ Abstract!Init
    /\ [][\/ UNCHANGED <<conn, seen, rpc, req, gameOf, late, feedback, outgoing>>
          \/ UNCHANGED Abstract!vars
          \/ Abstract!Next]_vars

(* A Receiver that waits for ever: in push(), on the full commands_recv of *)
(* a game whose thread has ended or spins, which nobody pops or closes; in *)
(* Game::join(), for the mutex of a game whose thread spins; or behind     *)
(* such a one, for GameManager::mtx.                                       *)
HeldInPush(c) ==
    /\ rpc[c] = "push"
    /\ commands[gameOf[c]] = CommandCap
    /\ gpc[gameOf[c]] \in {"ended", "spin"}

HeldInJoin(c) == rpc[c] = "joinEnter" /\ gpc[req[c]] = "spin"

Held(c) ==
    \/ HeldInPush(c)
    \/ HeldInJoin(c)
    \/ rpc[c] = "lock" /\ \E d \in Client : HeldInJoin(d)

(* A lobby request that reached the server is decided, whatever the games  *)
(* and the other Receivers do: GameManager::mtx is never kept, but by one  *)
(* that waits for a game that spins under its own mutex                    *)
(* (game_manager.cpp:87, 126-138).                                         *)
RequestsDecided ==
    \A c \in Client : rpc[c] = "lock" ~> (rpc[c] \in {"lobby", "play", "dead"} \/ Held(c))

(* docs/Features.odt, "Entrar y salir cuando quieras": the server stops    *)
(* feeding a player that left, though nobody tells the Game thread.        *)
LeaversForgotten ==
    \A c \in Leavers, g \in Code :
        (conn[c] = "closed" /\ c \in ToSet(queues[g])) ~>
            (c \notin ToSet(queues[g]) \/ gpc[g] \in {"ended", "spin", "deleted"})

(* After "q" the server ends, also if a Game thread has ended by an        *)
(* exception, with two exceptions: ~Accepter joins a Receiver that waits   *)
(* for ever, or a Game thread that spins and does not look at is_running   *)
(* (accepter.cpp:43, game_manager.cpp:48).                                 *)
ShutdownCompletes ==
    quit ~> \/ apc = "done"
            \/ apc = "killJoin" /\ Held(target)
            \/ apc = "gameJoin" /\ gpc[target] = "spin"

(* "Features": "los jugadores en una misma partida reciben la misma        *)
(* informacion" -- whoever is told JOINED hears from the game, or leaves.  *)
(* Violated: a finished game stays joinable and silent.                    *)
JoinedPlayersHear ==
    \A c \in Client :
        seen[c] = "joined" ~> (seen[c] \in {"state", "score"} \/ conn[c] = "closed")
==============================================================================
