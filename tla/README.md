# Taller1-TP-Left4Dead: models and proofs

A multiplayer Left 4 Dead in C++: a server that runs one thread per game and two per
connection, and a Qt/SDL client. These modules model what is hard to test in it: the
queue through which all threads talk, the life of the server's threads, a client's
session from its lobby to its exit, the score file the matches share, the rules that
decide a match, the fight with the zombies, and the map on which it takes place. TLC
checks them on small instances; TLAPS proves the main results for every instance. Paths
are relative to `src/`.

## The system

| Part | State | Operations | Talks to |
|---|---|---|---|
| `Queue<T>` (`libs/queue.h`) | a deque, `max_size`, `closed`, a mutex, two condition variables | `try_push`, `try_pop`, `push`, `pop`, `close` | every pair of threads |
| main, `Server` (`Server/src/server.cpp`) | the `Accepter` | reads `q`, stops and joins the Accepter | Accepter |
| `Accepter` | listening socket, `GameManager`, list of Receivers | accept, `reapDead`, `killAll` | Receivers, GameManager (a member) |
| `Receiver`, one per connection | socket, feedback queue (5000), pointer to the game's command queue, player id | lobby loop `joinGame`, then `readCommands` | GameManager, Game's `commands_recv`, its Sender |
| `Sender`, one per connection | reference to the feedback queue | pop, send | the client |
| `GameManager` | map code -> `Game*`, a mutex | `createGame`, `joinGame`, `cleanEmptyGames`, `cleanAllGames` | Receivers call it, it owns the Games |
| `Game`, one thread per game | command queue (10000), the players' queues, `players_amount`, `is_running`, a mutex, a `Match` | `run`, `join`, `stop` | Receivers (commands in, feedback out) |
| `Match`, `Survival`, `ClearTheZone` | soldiers, zombies, throwables, counters, `over` | one operation per command, `simulateStep`, `updateScore` | Game thread only; `score.yaml` |
| `Soldier` | activity flags, health, `alive`, `dying`, `times_revived`, weapon | `move` ... `idle`, `recvDamage`, `simulate` | other soldiers (revival), zombies, throwables |
| `Zombie` and its subclasses | activity flags, stun, victim, blow received, health, `alive`, `counted` | `move` ... `idle`, `recvDamage`, `be_stunned`, `simulate` | soldiers (attack, kills), the match |
| Weapons | ammunition, damage, scope | `shoot`, `reload` | the zombies in the line of fire |
| Throwables | kind, time, owner | `simulateExplosion` | zombies (stun, damage), soldiers |
| `Position`, `Hitbox` | a box on a map that is circular in x | `collides`, `calculateNextPos`, the areas | every moving actor |
| Client | socket, action queue (5000), feedback queue (10000), lobby window, game loop, Sender, Receiver | lobby clicks, key events, frames, `~Client` | the server's Receiver and Sender |

What is hard: answers to lobby requests and game states reach one queue from two
threads; the manager's mutex is held across blocking pushes; players are erased from the
list that is being iterated; games, receivers and senders are deleted in an order that
nothing but member order enforces; shutdown is a chain of joins; several matches rewrite
one file; a soldier's flags, its `dying` and its `alive` are changed by commands, hits,
comrades and the clock in one step, and a zombie's by blows, smoke, sight and a witch's
screams; a dead zombie stays in the map, to be hit and counted again; the two edges of
the map overlap; the client's window waits for answers that a third thread delivers, and
leaves while two threads may be blocked. `PROJECT.json` lists each of these hazards at
its line.

What makes each part correct:

- Queue: bounded, FIFO, no lost wakeup, `close` ends every `pop`.
- Connection: the answer precedes the game's states, nothing follows the score; every
  request is decided; a client that leaves is forgotten.
- GameManager and Game: at most `MAX_PLAYERS` with distinct ids; nobody is dropped while
  there is room in its queue; everybody left gets the score; no dangling game.
- Accepter: after `q` the server ends.
- Match: deaths are counted once, the match ends with its last soldier.
- Soldier: on the ground it does nothing, it never gets up alone, revivals are limited.
- Score file: a score that was recorded stays.
- Zombie: it strikes only whom it has found, not when it was just hit; its death is one
  kill; a stun ends. The match is won in the step in which the last one dies.
- Map: a walk and the walk back cancel out; nobody enters a zombie; a bullet spares
  nobody on its way; placing a zombie ends.
- Client: each end reads what it expects; a request is answered; the score is shown;
  leaving ends, and leaves nothing behind that could hold up the server.

## Modules

`BoundedFifo` is what `queue.h` promises: a closable bounded buffer in which a call that
cannot complete is pending, with no condition variables.

`MonitorQueue` is `queue.h` as coded. A step is one tenure of the mutex: from the lock to
the return or to the wait, or from the return of the wait on. The wait sets of the two
condition variables are explicit, notifications are issued where the code issues them
(only on the empty and the full edge), and `SpuriousWakeup` is allowed. `accepted` and
`taken` are history. `ImplementsBoundedFifo` is the refinement.

`GameServer` composes main, Accepter, Receivers, Senders, GameManager and Games. `rpc`,
`spc`, `gpc` and `apc` say where each thread is; a critical section of `GameManager::mtx`
(`mgr`) or of `Game::mtx` (`gpc[g] = "send"`) is split where the code can block or where
another thread can look in between: lock, push of the answer, `Game::join`, unlock; one
`try_push` per player. The queues are those of `BoundedFifo`. A step of the match returns,
throws (`GameThrows`: `Thread::main` swallows the exception, the thread is gone and
`is_running` stays set) or never returns and keeps `Game::mtx` (`GameSpins`); `Failures`
says which of the last two an instance has. `MCGameServer` adds the symmetry set and a
constraint.

`MatchMaking` is what the lobby and the games promise, without threads, mutexes or queues:
connections, places in games, what was last said to each client, and which matches have
ended. A lobby request is one step, `Create`, `Join`, `Refuse` or `TurnAway`, and so is the
end of a match. `GameServer!Abstract` is the mapping: a place is taken when its answer is
pushed (`Seat`), not when `Game::join()` runs, what was said is the last feedback pushed
(`Said`), and a client misses the score (`Missed`) if the match ended before it entered.
`ImplementsMatchMaking` is the refinement.

`ScoreFile` is `Match::updateScore` in the Game threads of several matches: load, truncate,
write. When two rewrites overlay each other the file may be torn; whether it parses then,
and to what, is left open. `MCScoreFile` adds the symmetry set.

`MatchRules` is one match: at most one command, then hits, then the soldiers in the order
of their ids, then the count of the dead, as `Game::run` and `simulateStep` order them; a
match that is over still executes a command before the score is collected. A
soldier is its set of activity flags and its `alive`, `dying` and `times_revived`. Every
command and every `simulate...` of `soldier.cpp` is one operator on flags.

`Combat` is the other side of the match, in ClearTheZone: zombies in the order of their
ids, `delete_dead_zombies`, explosions, shots, the win. A zombie is its set of flags, its
victim, the blow it received, its health and the age of its stun. The three
`simulateMove`s (`Zombie`'s, `Venom`'s, `Witch`'s) are disjunctions over what a zombie may
see and hear. `met`, `killer`, `slowed` and `struck` are history.

`TorusPosition` is `position.cpp` and `hitbox.cpp` as operators: wrapping, areas,
`collides` case by case, and beside them the reference, distances on a circle. `Arena` is
a soldier on that map: `simulateMove` with the team's range, the three weapons with their
line of fire and ammunition, and `Survival::add_zombies` with `setRandomPosition`'s loop.
`thread` says whether the Game thread still steps: the loop may go round for ever (`Spin`)
and `zombies.at()` may throw (`AtThrows`). These are two of the ways in which `GameServer`'s
matches spin and throw; the torn file of `ScoreFile` is the third.

`ClientSession` is one client and its connection: the lobby's pages, the game loop and
`~Client` in the main thread, both client threads with their queues, the socket's bounded
buffers, both server threads, and of the game that it sends states, then a score. It
opens what `GameServer` takes as its environment, and takes as its own environment what
`GameServer` opens (the manager, the game, the Accepter). A key, and Escape, is two steps,
the call of `push()` and its return, and no frame is run between them. The server's Receiver
may be held for ever (`srv = "held"`), as `GameServer!Held` says it may.

`MonitorQueue_proofs`, `GameServer_proofs`, `MatchMaking_proofs`, `ScoreFile_proofs`,
`MatchRules_proofs`, `Combat_proofs`, `Arena_proofs` and `ClientSession_proofs` hold the
proofs, each about the module of its name; `MatchMaking_proofs` proves the refinement.

An operator whose comment begins with "Mutant of" is a plausible bug of the definition
that follows it; with it in that definition's place, the property that `PROJECT.json`
names for it fails. It takes no part in the specification.

Abstractions and why they are sound for the properties stated:

- An in-game command is a count in `GameServer`; what it does is in `MatchRules`. A match
  may end in any step.
- The client is the environment as `Client/src` behaves: one unanswered lobby request at
  a time (the lobby pushes and then pops), commands only in a game, after the score too,
  when queued ones are still sent. It may never read, and may close at any time.
- In `GameServer` the kernel's socket buffers are left out: a Sender stopped while in
  `send()` is taken to return. `ClientSession` has the buffers, and `ReaperNeverWaits`
  there says that the Accepter never joins a Sender that waits for room in one.
- Time and space in `MatchRules`: cooldowns have elapsed or not, a revival reaches any set
  of the others, any soldier may be hit, mortally or not. Everything the code can do is
  among these outcomes; the converse does not hold (a run of hits may be impossible in
  space), so the safety results carry over.
- Each player picks a soldier once, as the lobby does. `Combat`'s match has been joined,
  so that `finalizable` is true.
- Space in `Combat`: in its turn a zombie may see any soldier that stands, in reach or
  not, and hear any witch that screams; an explosion hits any zombies, a bullet any that
  is not dying. Distances, damage by distance and speed are in `Arena` or left out. Again
  everything the code can do is among the outcomes.
- Coordinates are integers in `TorusPosition`, `Unit` of them to 1.0, so that the strip
  between `dim_x` and `dim_x + 1.0`, where the two edges are joined, has places in it.
- A socket that is closed makes the peer's `recv` fail at some time, with or without what
  was still in the buffers.

## Runs

| Run | Instance | Shows |
|---|---|---|
| `monitorqueue_calls` | 3 threads, 4 elements, capacity 2 | `NoLostWakeup`, `FIFO`, `CloseReleasesPop`, and the refinement `ImplementsBoundedFifo` with its liveness |
| `monitorqueue_closed` | 2 threads, capacity 1 | a waiting `push` adds to a closed queue, against `queue.h:22` (violation) |
| `gameserver_session` | 3 clients, 1 game of 2 places, queues of 1, one client may leave and only that one sends commands, both failures of a match | `FeedbackInOrder`, `LobbyPushNeverBlocks`, `PlayersNumbered`, `ScoreReachesPlayers`, and the refinement `ImplementsMatchMaking` |
| `gameserver_live` | 2 clients, 1 game of 2 places, queues of 1, one may leave and only that one sends commands, `q` any time, both failures of a match; a departure or `q`, not both (`LeaveOrQuit`) | `GameQueueAlive`, `RequestsDecided`, `LeaversForgotten`, `ShutdownCompletes` |
| `gameserver_late` | 2 clients that read | a player told JOINED by a finished game hears nothing (violation) |
| `scorefile_serial` | 2 matches of 2 soldiers | `SerialUpdatesKeepScores` |
| `scorefile_persist` | the same | two overlapping updates lose a score (violation) |
| `matchrules_match` | 2 soldiers, 1 life, both modes, all commands | the six rules of a match |
| `matchrules_risen` | 2 soldiers | a dead soldier is revived (violation) |
| `arena_walk` | a map of 11 places and a joint, 2 zombies of which one comes later, all weapons, one bullet | `KeepsApart`, `WalkIsReversible`, `SpawnEnds`, `NearestIsHit` |
| `combat_step` | 2 zombies of any of the 3 kinds, 1 soldier, health 2, a stun of 1 step | `AttacksWhatItFound`, `KillsCounted`, `ClearedIsWon`, `StunWearsOff`, `BlowDisarms` |
| `client_session` | action queue, server queue and socket of 1, feedback queue of 2 | `BothUnderstand`, `ReaperNeverWaits`, `LobbyAnswered`, `ExitEnds`, `ScoreShown` |

Each passing run also checks the `TypeOK` of its module, but for `gameserver_live`, where
the other `GameServer` run does, and `scorefile_serial`, where the proof is enough.

Why the bounds are enough. Two waiters on one condition are the smallest case in which a
missing `notify_all` shows; capacity 2 keeps the empty and the full edge apart. The race
for a place needs a creator and two joiners; a joiner that waits for the game's mutex with
the manager's needs two clients and two places. `gameserver_live` leaves out, for the size
of its graph, the behaviours in which a client leaves and the operator types `q` as well, so
that TLC does not see the liveness of a shutdown that meets a departure; that the Accepter
joins nobody who was not told to end is proved for those too. One client's commands are enough to fill a
queue of one and to be left in its `push()`, connection closed, when the game ends. A
server queue of one element makes every slow client a laggard, and lets an answer be in
the way of a state; the client's of two lets a state and the score meet in one frame.
Two matches are the smallest overlap. Two soldiers give a fallen one and its comrade in
both id orders; the limits themselves are proved for any number. `MaxGames = 1` makes
the capacity exception of `createGame` happen. Two zombies give every pair of kinds, a
witch and who hears it, and both id orders; health 2 lets one survive a blow. In
`arena_walk` a soldier's box is wider than the joint, the strides cross the edge and end
in the joint, the bullet's reach is less than the map, and with two zombies one stands
behind the other or beside it. Runs that are checked for liveness use no symmetry.
Deadlock is checked in `arena_walk` only: elsewhere queues may be left alone for good,
the server and the client end, matches end.

Fairness. `MonitorQueue`: a notified thread gets the mutex back (weak). `GameServer`: weak
fairness for a Game thread, the Accepter, and a Sender that has been stopped or whose
socket is closed; strong fairness for what a Receiver does on its own, since it contends
for two mutexes and for room in a queue: the manager's mutex is released between requests,
the game's during the 5 ms sleep of each iteration, and a waiting push is notified. That a
Game thread goes on does not mean that `simulateStep` returns: to throw and to spin are
steps of it, and a thread that spins takes no other. No
client is obliged to send, to read or to leave, except that `gameserver_late` grants that
clients read (otherwise silence would prove nothing). `MatchRules`: the Game thread keeps
stepping a match that is not over, so that `AllDownIsLost` is about a match whose steps
neither throw nor hang. `ClientSession`: weak fairness for the main thread
outside the user's choices, for the client's Sender and Receiver, and for the server's
Sender and its Receiver in the lobby; strong fairness for a frame, since a user does not
press keys so fast that the loop over the events never ends. Nothing obliges a user to
click, a game to go on or end, anybody else to connect, or the server's Receiver to take a
command, since it may wait on the queue of a game that has ended. The safety of `Combat`
and `Arena` needs none.

The liveness properties have exceptions, each stated in the property and each a way in
which the code really stops:

- A Receiver may wait for ever (`Held`): in `push()`, on the full `commands_recv` of a game
  whose thread has ended or spins; in `Game::join`, for the mutex of a game that spins; or
  for `GameManager::mtx`, which the one before keeps. `RequestsDecided` excepts it, and so
  does `LobbyAnswered` for the client's side of it.
- `ShutdownCompletes` has two: `~Accepter` joins such a Receiver, or `cleanAllGames` joins a
  Game thread that spins in `setRandomPosition` and never looks at `is_running`. A thread
  that an exception has ended does not by itself hold up the shutdown.
- `LeaversForgotten`: a Game thread that has ended or spins drops nobody any more; it feeds
  nobody either.
- `ExitEnds` has two. A user that dwells in the lobby after it has joined lets the game's
  states fill `feedback_received` (a state every 5 ms and 10000 places), the client's
  Receiver waits in `push()`, `close()` does not wake it, and `~Client` waits for it. And
  the exit itself is pushed with a `push()` that may wait for ever (`HeldInPush`), when
  `actions_to_send` is full and its Sender is dead or in a `send()` that nobody reads.
- `ScoreShown` has the second of these: while a key's `push()` waits no frame is run, and
  the server's Receiver need not read. Without the exception TLC shows the score unseen.
- `LobbyAnswered` also ends where the server has ended the Receiver or the connection:
  `createGame` above `MAX_SIZE` throws without an answer, and the window waits for ever.

What else the models show, stated as exceptions of the properties:

- `KeepsApart`: of `collides`'s cases, a box across the edge against one that is not
  (`position.cpp:39-44`) misses the one that reaches into the free part.
- The case the other way round (`position.cpp:46-52`) has the comment "Tengo que ver si
  area está fuera" (I must see whether the area is outside) and tests that it is inside:
  it lacks the `!` of the case before. A live zombie across the edge so stops every soldier
  in the rows that it reaches, anywhere on the map (`EdgeStopsTheRow`, proved).
- `SpawnEnds`: `setRandomPosition` tests the position the zombie does not have yet, so
  the loop is endless while the soldier stands in a corner at the top, and the result may
  collide with the soldier elsewhere. The loop runs on the Game thread and under
  `Game::mtx`; what that does to the lobby and the shutdown is in `GameServer`.
- `NearestIsHit`: when all targets of an IDF or a P90 are exactly at the bullet's reach the
  victim's id is unset: the bullet hits any zombie, a dead one or one elsewhere, or
  `zombies.at()` throws and the Game thread ends. A bullet also stops at the edge of a map that is circular for walkers, and
  `TEAM_RANGE` is measured without the circle, so that a lone soldier cannot cross the
  edge once it is far from the mass centre.
- `AttacksWhatItFound`: a Venom beside a screaming witch goes on hitting its last victim
  wherever that is (`venom.cpp:115-118`).
- A stunned zombie goes on moving and attacking, more slowly, though `docs/Features.odt`
  says that it stops whatever it does and does nothing for a time ("durante un tiempo no
  podran hacer nada"); only a Venom stops, for that step. A witch screams on when its
  victim leaves (`witch.cpp:59-83`).
- The exit command may never leave: `~Client` stops the Receiver, and the socket with it,
  before the Sender has sent what is queued. The server notices the closed socket instead.

Where the code and its documents disagree (the violation runs): the closed queue that
accepts an element; the finished game that can be joined (`cleanEmptyGames` looks for
`players_amount == 0`, and nothing ever decrements it, so no game leaves the map while the
server runs); the score file whose mutex is per match; the soldier that dies for ever and
is revived. `PROJECT.json`, "findings", quotes the sentences.

## Proofs

`MonitorQueue_proofs`. The inductive invariant is the conjunction of the types, the
waits' conditions (`NoLostWakeup`), the history equation (`FIFO`), the bound, and that a
thread has an argument exactly while it is inside `push`. `NoLostWakeup` needs the bound:
a `push` waits on a full queue, and only the step that leaves it full by one notifies.
From it follow the safety properties and `Refinement`: every step of the monitor is one of
`BoundedFifo` or a stutter. Assumed: a positive capacity, and that `NoValue` is no element.

`ScoreFile_proofs`. While no two updates have overlapped, one match at most is updating;
its document is the recorded scores and all of its own; the file is empty between its
truncation and its write and equals the recorded scores otherwise. Without the middle
clause the write step would not be inductive. Nothing is assumed of the matches.

`MatchRules_proofs`. `CountersAgree` alone is not inductive, because it says nothing of
`counted` in the middle of a step: the strengthening is that counted soldiers are dead at
any time, which holds because no operation makes a soldier alive again (revival clears
`dying` only). With the cardinality facts for finite sets this gives `OverWhenAllDead`.
`TurnKeeps` and `DownedIdle` are the two facts about a soldier's turn on which the limit
on revivals and the two action properties rest. Assumed: the ids are a finite set of
positive numbers, `LIVES` is a natural number.

`Combat_proofs`. The inductive invariant is `TypeOK`, `AttacksWhatItFound`, `KillsCounted`
and `ClearedIsWon` with three additions. `Blows`: a zombie that is being hurt has an
attacker that is a soldier, and is not attacking; without it the kill would be credited to
nobody, and `BlowDisarms` would not follow. `StunClock` relates the age of a stun, the
two flags and the history. `Counting`: `dead_zombies` is the number of `counted` zombies,
all of them dead, and who is dead before the throwables is counted after them, which with
the phases gives `ClearedIsWon`. Assumed: finite sets of players and zombies, the zombies'
ids natural numbers and at least one, positive health and damage, `NoOne` and `AWitch` no
players.

`GameServer_proofs`. Every safety property of the server, for any number of clients, games
and places and any capacities. The inductive invariant has a part for each thing that the
code keeps true by order alone: `MutexHeld` (who holds `GameManager::mtx`, and where its
holder is), `Presence` (which Receivers exist and which one is being deleted), `Rooms`
(which games exist and when their threads run; that `EmptyGames` is always empty is part
of it), `Seats` (ids and places), `Lobby` (a Receiver in the lobby has at most one answer
to give, and its queue holds none of a game), `Queued` (who may be in a game's list) and
`News` (the last feedback pushed to each client, against where its Receiver and its game
are; `Scored` says which of the list the score has reached in the middle of the final
loop). `GameQueueAlive` and `ScoreReachesPlayers` rest on the order in which `~Accepter`
works: no game is deleted while a client is there. Assumed: capacities and places positive
(`CapAssumption`), `None` no client and no code, and what the environment may do is given
by Booleans and subsets.
Two more theorems are what the server's liveness rests on. `HolderGetsOn`: whoever has the
manager's mutex is on its way out of `createGame` or `joinGame`, with room for its answer
(`Released`, the converse of `MutexHeld`), or waits for a game that spins.
`JoinedThreadsWereStopped`: the Accepter joins no thread that has not ended or been told to,
so that the shutdown can stop only at a Receiver that waits for ever or at a Game that does
not look at `is_running`.

`MatchMaking_proofs`. That `GameServer` implements `MatchMaking`: under the mapping each
step of a thread is a step of `MatchMaking` or changes nothing of it. The answer is the
step at which a request counts, so what `createGame` and `joinGame` found under the mutex
must still hold when they push it (`Decided`), and what happens between the answer and the
place must not be seen: nobody else is then deciding (`MutexHeld`), and of the match only
its end can fall in between, which makes the client miss the score. `Ended` says that a
match whose score is out stays so and that its thread is told to stop for no other reason
before the server ends, `Latecomers` that who is late stays so and has heard no more than
its answer.
From the refinement follows `PlacesAreKept`, and from the same invariant `GamesAreKept`:
once the manager has had `MAX_SIZE` games it never has another. `GamesRunToTheEnd` says how
a Game thread ends: its match is over and the score collected, the server ends, or an
exception is swallowed by `Thread::main`, which leaves `is_running` set and the score
uncollected; `players_amount > 0` never ends it.

`Arena_proofs`. The inductive invariant is `TypeOK`, that the soldier is inside the map,
that no zombie stands in the joint of the two edges, and that a Game thread spins only
where `NeverPlaced` says. `WalkIsReversible` is about the wrap of a stride at
either edge, `NearestIsHit` needs that a finite set of targets has a nearest one (by a
minimal element of a well-founded relation), `SpawnEnds` that what `NeverPlaced` says
happens in a corner only. `CollidesIsOverlap` shows that away from the edge `collides` is
the distance on the circle, and `EdgeStopsTheRow` what it does at the edge. Assumed: natural sizes, strides and places within the map, a
finite set of zombies, and in four theorems what the configuration files give: boxes of
width 2 (`PlacingEnds`), and boxes of which two fit around the map (`NobodyIsEntered` and
the two about `collides`).

`ClientSession_proofs`. Until the server has let the client in, one message at most is on
its way, up or down, and while it is the window waits; from then on only commands go up,
and what comes down is the answer, if the window still waits for it, and then states and
the score. This says where each message may be among five queues and two threads' hands,
and `BothUnderstand` is read off it. `EndedEarly`, a Receiver that ended with its socket
open never left the lobby and has nothing to send, gives `ReaperNeverWaits`. What the
client's liveness rests on is proved too: `AnswerIsUnderway` (the window waits for a request
or an answer that is on its way, or for a connection or a Receiver that the server has
ended or holds), `LobbyHasRoom` (the lobby's own `push()` never waits, so that it is one
step), and `ExitWaitsForOneOnly` (when `~Client` joins, the socket is cut and the queues are closed, so
that only the Receiver of `LeftInPush` can stay). Assumed: positive capacities.

Checked by TLC only: all liveness (`CloseReleasesPop`, the fairness half of
`ImplementsBoundedFifo`, `RequestsDecided`, `LeaversForgotten`, `ShutdownCompletes`,
`AllDownIsLost`, `LobbyAnswered`, `ExitEnds`, `ScoreShown`), which TLAPS
does not reach; of `RequestsDecided`, `ShutdownCompletes`, `LobbyAnswered` and `ExitEnds`
the part that is safety is proved, that nobody waits for what cannot come. Every invariant
and every action property that a passing run checks is proved.

## Not modelled

- Health amounts of soldiers: two hits of one step overwrite each other (`soldier.cpp:109`);
  `MatchRules` lets any hit be mortal or not.
- The throwers' side of throwables beyond the flags: flight, the poison cloud, cooldowns.
- The difficulty tables of the configurator, which are numbers read from YAML; its
  placement of zombies is in `Arena`.
- Byte formats of the protocol, errors and partial transfers of sockets: a message is
  its kind, a connection is open or closed.
- Drawing and sound of the client (SDL, Qt): no protocol state.
- `Old/` (not built) and the vendored libraries (`libs/libSDL2pp-0.18.1`, most of the lines
  of the repository), which are third-party code.

The map of `PROJECT.json` names about a tenth of the repository's lines: two thirds of them
are the vendored SDL2pp, and of the rest a large part is tests, declarations, windows and
drawing. What is left of the server's logic is listed above.

## Next

1. Soldiers' health in `MatchRules`, for the overwritten hit, and the flight of throwables
   and the poison cloud in `Arena`.
2. The loops of `sendData` and `recvData`, for a transfer cut in the middle of a message.
