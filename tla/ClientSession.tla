---------------------------- MODULE ClientSession ----------------------------
(***************************************************************************)
(* One client from its lobby to its exit, and the connection that serves   *)
(* it.  In the client: the main thread, which runs the lobby's window,     *)
(* then the game loop, then ~Client; the Sender and the Receiver, with a   *)
(* queue each; the socket.  In the server: the Receiver and the Sender of  *)
(* the connection and its send_state_queue; the Accepter that may reap     *)
(* them; the game, which other players keep going.  What GameServer leaves *)
(* out is here: the buffers of the socket, a Sender blocked in send(), a   *)
(* user that dwells in the lobby.                                          *)
(*                                                                         *)
(* The queues behave as BoundedFifo says, so a push that waits on a full   *)
(* queue is not released by close().  A message is its kind.  A send on a  *)
(* connection that has been closed fails, though the first may seem to     *)
(* succeed and be lost.                                                    *)
(***************************************************************************)
EXTENDS Naturals, Sequences, SequencesExt

CONSTANTS ActionsCap,   \* actions_to_send, 5000 in client.cpp
          FeedbackCap,  \* feedback_received, 10000 in client.cpp
          OutCap,       \* send_state_queue, 5000 in the server's receiver.cpp
          WireCap       \* what the socket buffers in each direction

ASSUME CapAssumption == {ActionsCap, FeedbackCap, OutCap, WireCap} \subseteq Nat \ {0}

Requests == {"create", "join"}
Commands == {"pick", "act", "exit"}
Answers == {"created", "joined", "notjoined"}
Updates == {"state", "score"}

VARIABLES
    gui,        \* where the main thread of the client is; "key" and "escape":
                \* in push() for a key, for Escape
    page,       \* the lobby's page: "main" | "difficulty" | "code" | "pick"
    quit,       \* ClientGame::quit
    actions,    \* actions_to_send
    actClosed,  \* it is closed, and keep_sending false
    snd,        \* the client's Sender: "pop" | "send" | "dead"
    action,     \* the action it is sending
    feedback,   \* feedback_received
    fbClosed,   \* it is closed
    rcv,        \* the client's Receiver: "recv" | "push" | "wait" | "dead"
    feed,       \* the feedback it is pushing
    conn,       \* "open", or "cut" once either end has closed it
    toServer,   \* sent by the client, not yet received
    toClient,   \* sent by the server, not yet received
    srv,        \* the server's Receiver: "lobby" | "play" | "dead" | "reaped";
                \* "held": waits for ever for a mutex (GameServer!Held)
    out,        \* send_state_queue
    outClosed,  \* it is closed
    ssnd,       \* the server's Sender: "run" | "dead"
    game,       \* the game joined: "none" | "live" | "over"
    member      \* it still has this player's queue

guiVars == <<gui, page, quit>>
sndVars == <<snd, action>>
rcvVars == <<rcv, feed>>
wires == <<toServer, toClient>>
srvVars == <<srv, out, outClosed, ssnd, game, member>>
vars == <<guiVars, actions, actClosed, sndVars, feedback, fbClosed, rcvVars, conn,
          wires, srvVars>>

Init ==
    /\ gui = "lobby" /\ page = "main" /\ quit = FALSE
    /\ actions = <<>> /\ actClosed = FALSE
    /\ snd = "pop" /\ action = "none"
    /\ feedback = <<>> /\ fbClosed = FALSE
    /\ rcv = "recv" /\ feed = "none"
    /\ conn = "open" /\ toServer = <<>> /\ toClient = <<>>
    /\ srv = "lobby" /\ out = <<>> /\ outClosed = FALSE /\ ssnd = "run"
    /\ game = "none" /\ member = FALSE

------------------------------------------------------------------------------
(* The main thread, in the lobby *)

(* Mutant of Push: it does not wait for room.                              *)
PushAnyway(m) == actions' = Append(actions, m)

(* actions_to_send.push(): the step in which it returns.                   *)
Push(m) ==
    /\ Len(actions) < ActionsCap
    /\ actions' = Append(actions, m)

(* The request is pushed, which never waits (LobbyHasRoom), then the       *)
(* window waits in feedback_received.pop().                                *)
Ask(m) ==
    /\ Push(m)
    /\ gui' = "answer"
    /\ UNCHANGED <<quit, actClosed, sndVars, feedback, fbClosed, rcvVars, conn,
                   wires, srvVars>>

ClickJoin == gui = "lobby" /\ page = "main" /\ Ask("join") /\ UNCHANGED page

Turn(from, to) ==
    /\ gui = "lobby" /\ page = from
    /\ page' = to
    /\ UNCHANGED <<gui, quit, actions, actClosed, sndVars, feedback, fbClosed,
                   rcvVars, conn, wires, srvVars>>

ClickCreate == Turn("main", "difficulty")
ClickContinue == Turn("code", "pick")

(* create_game_process()                                                   *)
ClickDifficulty ==
    /\ gui = "lobby" /\ page = "difficulty"
    /\ page' = "code"
    /\ Ask("create")

(* Mutant of TakeAnswer: a refusal is taken for an answer.                 *)
TakeAnswerAnyway ==
    /\ gui = "answer" /\ feedback # <<>>
    /\ feedback' = Tail(feedback)
    /\ page' = IF page = "main" THEN "pick" ELSE page
    /\ gui' = "lobby"
    /\ UNCHANGED <<quit, actions, actClosed, sndVars, fbClosed, rcvVars, conn, wires,
                   srvVars>>

(* The pop returns, and its result is cast to the answer that is due.      *)
TakeAnswer ==
    /\ gui = "answer" /\ feedback # <<>>
    /\ feedback' = Tail(feedback)
    /\ page' = IF page = "main" /\ Head(feedback) # "notjoined" THEN "pick" ELSE page
    /\ gui' = "lobby"
    /\ UNCHANGED <<quit, actions, actClosed, sndVars, fbClosed, rcvVars, conn, wires,
                   srvVars>>

(* A soldier is picked, the window closes, the game loop begins.           *)
ClickSoldier ==
    /\ gui = "lobby" /\ page = "pick"
    /\ Push("pick")
    /\ gui' = "game"
    /\ UNCHANGED <<page, quit, actClosed, sndVars, feedback, fbClosed, rcvVars, conn,
                   wires, srvVars>>

(* The window is closed on any page, joined or not: ~Client.               *)
CloseWindow ==
    /\ gui = "lobby"
    /\ gui' = "leave"
    /\ UNCHANGED <<page, quit, actions, actClosed, sndVars, feedback, fbClosed,
                   rcvVars, conn, wires, srvVars>>

------------------------------------------------------------------------------
(* The main thread, in the game loop *)

(* processEvent() calls actions_to_send.push() when a key goes down or up, *)
(* and when the window is closed or Escape pressed.                        *)
PressTo(where) ==
    /\ gui = "game" /\ ~quit
    /\ gui' = where
    /\ UNCHANGED <<page, quit, actions, actClosed, sndVars, feedback, fbClosed,
                   rcvVars, conn, wires, srvVars>>

PressKey == PressTo("key")
PressEscape == PressTo("escape")

(* That push() returns; no frame is run until it does.                     *)
Pressed ==
    /\ gui \in {"key", "escape"}
    /\ Push(IF gui = "key" THEN "act" ELSE "exit")
    /\ gui' = "game"
    /\ quit' = (gui = "escape")
    /\ UNCHANGED <<page, actClosed, sndVars, feedback, fbClosed, rcvVars, conn,
                   wires, srvVars>>

(* Mutant of Latest: the first one is kept.                                *)
Earliest(s) == Head(s)

(* try_pop() until there is none: only the last is looked at.              *)
Latest(s) == Last(s)

(* A frame: the feedback that has come, then the loop's condition.         *)
Frame ==
    /\ gui = "game"
    /\ feedback' = <<>>
    /\ IF feedback # <<>> /\ Latest(feedback) = "score"
       THEN gui' = "stats" /\ quit' = TRUE
       ELSE gui' = (IF quit THEN "leave" ELSE "game") /\ UNCHANGED quit
    /\ UNCHANGED <<page, actions, actClosed, sndVars, fbClosed, rcvVars, conn, wires,
                   srvVars>>

(* The window of showFinalStats() is closed.                               *)
CloseStats ==
    /\ gui = "stats"
    /\ gui' = "leave"
    /\ UNCHANGED <<page, quit, actions, actClosed, sndVars, feedback, fbClosed,
                   rcvVars, conn, wires, srvVars>>

------------------------------------------------------------------------------
(* The main thread, in ~Client *)

(* Mutant of StopReceiver: the socket is not shut down.                    *)
StopReceiverQuietly ==
    /\ gui = "leave"
    /\ gui' = IF rcv = "dead" THEN "stop" ELSE "close"
    /\ UNCHANGED <<page, quit, actions, actClosed, sndVars, feedback, fbClosed,
                   rcvVars, conn, wires, srvVars>>

(* receiver.stop(), if it is not dead: the socket, then the queue.         *)
StopReceiver ==
    /\ gui = "leave"
    /\ gui' = IF rcv = "dead" THEN "stop" ELSE "close"
    /\ conn' = IF rcv = "dead" THEN conn ELSE "cut"
    /\ UNCHANGED <<page, quit, actions, actClosed, sndVars, feedback, fbClosed,
                   rcvVars, wires, srvVars>>

CloseFeedback ==
    /\ gui = "close"
    /\ gui' = "stop"
    /\ fbClosed' = TRUE
    /\ UNCHANGED <<page, quit, actions, actClosed, sndVars, feedback, rcvVars, conn,
                   wires, srvVars>>

(* sender.stop(), if it is not dead.                                       *)
StopSender ==
    /\ gui = "stop"
    /\ gui' = "join"
    /\ actClosed' = (snd # "dead")
    /\ UNCHANGED <<page, quit, actions, sndVars, feedback, fbClosed, rcvVars, conn,
                   wires, srvVars>>

(* Both threads are joined and the socket is destroyed.                    *)
ClientEnds ==
    /\ gui = "join" /\ rcv = "dead" /\ snd = "dead"
    /\ gui' = "done"
    /\ conn' = "cut"
    /\ UNCHANGED <<page, quit, actions, actClosed, sndVars, feedback, fbClosed,
                   rcvVars, wires, srvVars>>

------------------------------------------------------------------------------
(* The client's Sender *)

SenderMoves ==
    UNCHANGED <<guiVars, actClosed, feedback, fbClosed, rcvVars, conn, toClient, srvVars>>

(* pop() yields an element of a closed queue too.                          *)
SenderPops ==
    /\ snd = "pop" /\ actions # <<>>
    /\ action' = Head(actions)
    /\ actions' = Tail(actions)
    /\ snd' = "send"
    /\ UNCHANGED toServer
    /\ SenderMoves

SenderSends ==
    /\ snd = "send" /\ conn = "open"
    /\ Len(toServer) < WireCap
    /\ toServer' = Append(toServer, action)
    /\ snd' = "pop" /\ action' = "none"
    /\ UNCHANGED actions
    /\ SenderMoves

(* keep_sending is false, pop() throws ClosedQueue, or send() fails.       *)
SenderEnds ==
    /\ \/ snd = "pop" /\ actClosed
       \/ snd = "send" /\ conn = "cut"
    /\ snd' = "dead" /\ action' = "none"
    /\ UNCHANGED <<actions, toServer>>
    /\ SenderMoves

------------------------------------------------------------------------------
(* The client's Receiver *)

ReceiverMoves ==
    UNCHANGED <<guiVars, actions, actClosed, sndVars, fbClosed, conn, toServer, srvVars>>

Receives ==
    /\ rcv = "recv" /\ toClient # <<>>
    /\ feed' = Head(toClient)
    /\ toClient' = Tail(toClient)
    /\ rcv' = "push"
    /\ UNCHANGED feedback
    /\ ReceiverMoves

(* feedback_received.push() of an open queue: a full one is waited for.    *)
ReceiverPushes ==
    /\ \/ rcv = "push" /\ ~fbClosed
       \/ rcv = "wait" /\ Len(feedback) < FeedbackCap
    /\ IF Len(feedback) < FeedbackCap
       THEN /\ feedback' = Append(feedback, feed)
            /\ rcv' = "recv" /\ feed' = "none"
       ELSE rcv' = "wait" /\ UNCHANGED <<feedback, feed>>
    /\ UNCHANGED toClient
    /\ ReceiverMoves

(* recv() fails, or push() finds the queue closed.                         *)
ReceiverEnds ==
    /\ \/ rcv = "recv" /\ conn = "cut"
       \/ rcv = "push" /\ fbClosed
    /\ rcv' = "dead" /\ feed' = "none"
    /\ UNCHANGED <<feedback, toClient>>
    /\ ReceiverMoves

------------------------------------------------------------------------------
(* The server's end of the connection *)

clientSide == <<guiVars, actions, actClosed, sndVars, feedback, fbClosed, rcvVars>>

(* A message arrives, and the server's Receiver takes it.                  *)
ServerReceives(where) ==
    /\ srv = where
    /\ toServer # <<>>
    /\ toServer' = Tail(toServer)
    /\ UNCHANGED <<clientSide, conn, toClient, outClosed, ssnd>>

(* send_state_queue.push() of the answer.                                  *)
Answer(a) ==
    /\ Len(out) < OutCap
    /\ out' = Append(out, a)

Enter == srv' = "play" /\ member' = TRUE

(* A mutex is never released (GameServer!Held).                            *)
HeldUp == srv' = "held" /\ UNCHANGED member

(* createGame(); or MAX_SIZE games exist and it throws; or it waits for    *)
(* the manager's mutex.                                                    *)
ServeCreate ==
    /\ ServerReceives("lobby") /\ Head(toServer) = "create"
    /\ \/ Answer("created") /\ Enter /\ game' = "live"
       \/ srv' = "dead" /\ UNCHANGED <<out, game, member>>
       \/ HeldUp /\ UNCHANGED <<out, game>>

(* Mutant of ServeJoin: an unknown code is not answered.                   *)
ServeJoinSilent ==
    /\ ServerReceives("lobby") /\ Head(toServer) = "join"
    /\ \/ Answer("joined") /\ Enter /\ game' \in {"live", "over"}
       \/ UNCHANGED <<srv, out, game, member>>

(* joinGame() of a game that goes on or has ended; or it refuses; or it    *)
(* waits for the mutex of the game, after the answer, or of the manager.   *)
ServeJoin ==
    /\ ServerReceives("lobby") /\ Head(toServer) = "join"
    /\ \/ Answer("joined") /\ Enter /\ game' \in {"live", "over"}
       \/ Answer("joined") /\ HeldUp /\ game' = "live"
       \/ Answer("notjoined") /\ UNCHANGED <<srv, game, member>>
       \/ HeldUp /\ UNCHANGED <<out, game>>

(* Mutant of ServePlay: a player's exit ends the Receiver.                 *)
ServePlayToExit ==
    /\ ServerReceives("play")
    /\ srv' = IF Head(toServer) \in Commands \ {"exit"} THEN "play" ELSE "dead"
    /\ UNCHANGED <<out, game, member>>

(* recvInGameCommand(): anything else than a command ends the Receiver.    *)
ServePlay ==
    /\ ServerReceives("play")
    /\ srv' = IF Head(toServer) \in Commands THEN "play" ELSE "dead"
    /\ UNCHANGED <<out, game, member>>

(* What is not a request ends the Receiver too; so does a closed socket.   *)
ServerLoses ==
    /\ srv \in {"lobby", "play"}
    /\ \/ conn = "cut"
       \/ srv = "lobby" /\ toServer # <<>> /\ Head(toServer) \notin Requests
    /\ srv' = "dead"
    /\ UNCHANGED <<clientSide, conn, wires, out, outClosed, ssnd, game, member>>

ServerSends ==
    /\ ssnd = "run" /\ out # <<>> /\ conn = "open"
    /\ Len(toClient) < WireCap
    /\ toClient' = Append(toClient, Head(out))
    /\ out' = Tail(out)
    /\ UNCHANGED <<clientSide, conn, toServer, srv, outClosed, ssnd, game, member>>

(* send() on a closed socket, or pop() on a closed queue; in a send() that *)
(* waits for room neither happens.                                         *)
ServerSenderEnds ==
    /\ ssnd = "run"
    /\ \/ conn = "cut" /\ out # <<>>
       \/ outClosed /\ out = <<>>
    /\ ssnd' = "dead"
    /\ UNCHANGED <<clientSide, conn, wires, srv, out, outClosed, game, member>>

(* A step of the game, then the score; a player without room is dropped.   *)
GameSends(f) ==
    /\ game = "live"
    /\ game' = IF f = "score" THEN "over" ELSE "live"
    /\ LET room == member /\ Len(out) < OutCap /\ ~outClosed
       IN /\ out' = IF room THEN Append(out, f) ELSE out
          /\ member' = room
    /\ UNCHANGED <<clientSide, conn, wires, srv, outClosed, ssnd>>

(* reapDead(), when somebody else connects: ~Receiver stops its Sender,    *)
(* joins it, and the socket is destroyed with it.                          *)
ReapStops ==
    /\ srv = "dead" /\ ~outClosed
    /\ outClosed' = TRUE
    /\ UNCHANGED <<clientSide, conn, wires, srv, out, ssnd, game, member>>

ReapJoins ==
    /\ srv = "dead" /\ outClosed /\ ssnd = "dead"
    /\ srv' = "reaped"
    /\ conn' = "cut"
    /\ UNCHANGED <<clientSide, wires, out, outClosed, ssnd, game, member>>

(* The operator ends the server: killAll().                                *)
ServerQuits ==
    /\ conn = "open" /\ srv \in {"lobby", "play", "held"}
    /\ conn' = "cut"
    /\ UNCHANGED <<clientSide, wires, srvVars>>

------------------------------------------------------------------------------
User == \/ ClickJoin \/ ClickCreate \/ ClickDifficulty \/ ClickContinue
        \/ ClickSoldier \/ CloseWindow \/ PressKey \/ PressEscape \/ CloseStats

Gui == TakeAnswer \/ Pressed \/ Frame \/ StopReceiver \/ CloseFeedback \/ StopSender \/ ClientEnds

ClientSender == SenderPops \/ SenderSends \/ SenderEnds
ClientReceiver == Receives \/ ReceiverPushes \/ ReceiverEnds
ServerReceiver == ServeCreate \/ ServeJoin \/ ServePlay \/ ServerLoses
ServerSender == ServerSends \/ ServerSenderEnds

Next ==
    \/ User \/ Gui \/ ClientSender \/ ClientReceiver
    \/ ServerReceiver \/ ServerSender
    \/ \E f \in Updates : GameSends(f)
    \/ ReapStops \/ ReapJoins
    \/ ServerQuits

(* Every thread that can run does; and a frame is run in the end, for the  *)
(* user does not press keys faster than the main thread pushes them.       *)
(* Nothing obliges the user to do anything, a game to go on or to end, nor *)
(* anybody else to connect; and the server's Receiver may wait for ever on *)
(* the queue of a game that has ended, so that commands need not be read.  *)
Fairness ==
    /\ WF_vars(Gui) /\ SF_vars(Frame)
    /\ WF_vars(ClientSender) /\ WF_vars(ClientReceiver)
    /\ WF_vars(ServeCreate \/ ServeJoin \/ ServerLoses) /\ WF_vars(ServerSender)

Spec == Init /\ [][Next]_vars /\ Fairness
------------------------------------------------------------------------------
(* Type invariant.                                                         *)
TypeOK ==
    /\ gui \in {"lobby", "answer", "game", "key", "escape", "stats", "leave", "close",
                "stop", "join", "done"}
    /\ page \in {"main", "difficulty", "code", "pick"}
    /\ actions \in BoundedSeq(Requests \cup Commands, ActionsCap)
    /\ action \in Requests \cup Commands \cup {"none"} /\ (snd = "send" <=> action # "none")
    /\ feedback \in BoundedSeq(Answers \cup Updates, FeedbackCap)
    /\ feed \in Answers \cup Updates \cup {"none"}
    /\ rcv \in {"push", "wait"} <=> feed # "none"
    /\ toServer \in BoundedSeq(Requests \cup Commands, WireCap)
    /\ toClient \in BoundedSeq(Answers \cup Updates, WireCap)
    /\ out \in BoundedSeq(Answers \cup Updates, OutCap)

(* Neither end ever reads what it does not expect, though each keeps its   *)
(* own idea of how far the session has come and four threads and five      *)
(* buffers lie between them: the first feedback the lobby pops is the      *)
(* answer to what it asked, or dynamic_cast would throw in its slot        *)
(* (lobbywindow.cpp:72,154); the game loop gets updates only               *)
(* (game.cpp:37-43); the server gets requests, then a pick, then commands  *)
(* (the server's receiver.cpp:38,57).                                      *)
BothUnderstand ==
    /\ (gui = "answer" /\ feedback # <<>>) =>
          Head(feedback) \in IF page = "main" THEN {"joined", "notjoined"} ELSE {"created"}
    /\ (gui = "game" /\ feedback # <<>>) => Latest(feedback) \in Updates
    /\ (srv = "lobby" /\ toServer # <<>>) => Head(toServer) \in Requests
    /\ (srv = "play" /\ toServer # <<>>) => Head(toServer) \in Commands

(* A lobby request is answered, unless the server has ended its Receiver   *)
(* or the connection, or holds that Receiver for ever: then the window     *)
(* waits for ever, since the client's Receiver does not close              *)
(* feedback_received when it ends (lobbywindow.cpp:71,153).                *)
LobbyAnswered ==
    gui = "answer" ~> (gui # "answer" \/ srv \in {"dead", "reaped", "held"} \/ conn = "cut")

(* The Receiver was waiting in push() when its queue was closed.           *)
LeftInPush == rcv = "wait" /\ fbClosed /\ Len(feedback) = FeedbackCap

(* The main thread waits in push() on a full actions_to_send, which its    *)
(* Sender does not pop, being in a send() that the server does not read,   *)
(* or dead.                                                                *)
HeldInPush ==
    gui \in {"key", "escape"} /\ Len(actions) = ActionsCap /\ snd \in {"send", "dead"}

(* Whoever closes the window or presses Escape gets out of the client, or  *)
(* is shown the score on the way, wherever its threads are and whatever    *)
(* the server does, with two exceptions: the push() of the exit waits for  *)
(* ever, since no frame and no ~Client comes before it returns             *)
(* (handler_event.cpp:75,81); and a Receiver that waits for room in        *)
(* feedback_received when it is closed is not woken (queue.h:86), as when  *)
(* a user dwells in the lobby of a running game and then closes the window.*)
ExitEnds ==
    gui \in {"escape", "leave"} ~>
        (gui \in {"stats", "done"} \/ LeftInPush \/ []HeldInPush)

ScoreSent == "score" \in ToSet(out \o toClient \o <<feed>> \o feedback)

(* A player that stays is shown the score that was sent to it, though each *)
(* frame throws away all the feedback it finds but the last (game.cpp:34), *)
(* unless a key's push() waits for ever: the server's Receiver need not    *)
(* read, for its game may have ended (handler_event.cpp:93).               *)
ScoreShown ==
    (gui \in {"game", "key"} /\ ScoreSent) ~>
        (gui = "stats" \/ quit \/ conn = "cut" \/ []HeldInPush)

(* reapDead() joins a Sender, and nobody connects meanwhile: it is never   *)
(* one that waits for a client that does not read, because a Receiver dies *)
(* only with its connection, or before the client has entered a game       *)
(* (accepter.cpp:52).                                                      *)
ReaperNeverWaits == (srv = "dead" /\ conn = "open") => out = <<>> /\ ~member
==============================================================================
