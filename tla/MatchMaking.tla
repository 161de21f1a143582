----------------------------- MODULE MatchMaking -----------------------------
(***************************************************************************)
(* What the lobby and the games of the server promise, without threads,    *)
(* mutexes or queues: a request to create a game or to join one is decided *)
(* and answered in one step, a place in a game is given once and kept, a   *)
(* match comes to its end once, and what a client is told is an answer,    *)
(* then states, then the score.  GameServer, in which a request takes      *)
(* several steps of several threads, implements this specification         *)
(* (GameServer!Abstract).                                                  *)
(***************************************************************************)
EXTENDS Naturals, FiniteSets

CONSTANTS Client,      \* the connections
          Code,        \* the game codes
          MaxGames,    \* the games that may exist
          MaxPlayers,  \* the places of a game
          None         \* "no game"

VARIABLES link,   \* [Client]: "new" | "up" | "cut", its connection is closed but its
                  \*   Receiver is still at work | "gone"
          room,   \* [Client]: the game in which it has a place
          said,   \* [Client]: the last feedback that was queued for it
          final,  \* [Code]: the match has ended, its score is what is told
          missed  \* the clients that got their place too late to hear the score

vars == <<link, room, said, final, missed>>

Places(g) == {c \in Client : room[c] = g}
Open == {g \in Code : Places(g) # {}}
Alive(c) == link[c] \in {"up", "cut"}

Init ==
    /\ link = [c \in Client |-> "new"]
    /\ room = [c \in Client |-> None]
    /\ said = [c \in Client |-> "none"]
    /\ final = [g \in Code |-> FALSE]
    /\ missed = {}

Connect(c) ==
    /\ link[c] = "new"
    /\ link' = [link EXCEPT ![c] = "up"]
    /\ UNCHANGED <<room, said, final, missed>>

(* Nothing that is said to a client matters once its connection is closed. *)
Cut(c) ==
    /\ link[c] = "up"
    /\ link' = [link EXCEPT ![c] = "cut"]
    /\ said' = [said EXCEPT ![c] = "none"]
    /\ UNCHANGED <<room, final, missed>>

(* The Receiver ends.  The place it had in a game is not given back.       *)
Forget(c) ==
    /\ link[c] = "cut"
    /\ link' = [link EXCEPT ![c] = "gone"]
    /\ UNCHANGED <<room, said, final, missed>>

(* A client that wants a game when there are MaxGames is dismissed without *)
(* an answer.                                                              *)
TurnAway(c) ==
    /\ Alive(c)
    /\ room[c] = None
    /\ Cardinality(Open) >= MaxGames
    /\ link' = [link EXCEPT ![c] = "gone"]
    /\ said' = [said EXCEPT ![c] = "none"]
    /\ UNCHANGED <<room, final, missed>>

Say(c, f) == said' = IF link[c] = "up" THEN [said EXCEPT ![c] = f] ELSE said

Unanswered(c) ==
    /\ Alive(c)
    /\ room[c] = None
    /\ said[c] \in {"none", "notjoined"}

(* The game it asks for does not exist, or has no place left.              *)
Refuse(c) ==
    /\ Unanswered(c)
    /\ \E g \in Code : g \in Open => Cardinality(Places(g)) >= MaxPlayers
    /\ Say(c, "notjoined")
    /\ UNCHANGED <<link, room, final, missed>>

Create(c, g) ==
    /\ Unanswered(c)
    /\ g \notin Open
    /\ Cardinality(Open) < MaxGames
    /\ room' = [room EXCEPT ![c] = g]
    /\ Say(c, "created")
    /\ UNCHANGED <<link, final, missed>>

(* Whoever joins a match that has ended hears nothing of it.               *)
Join(c, g) ==
    /\ Unanswered(c)
    /\ g \in Open
    /\ Cardinality(Places(g)) < MaxPlayers
    /\ room' = [room EXCEPT ![c] = g]
    /\ Say(c, "joined")
    /\ missed' = IF final[g] THEN missed \cup {c} ELSE missed
    /\ UNCHANGED <<link, final>>

(* A game tells one of its players its state, or, in the end, its score.   *)
Tell(c) ==
    /\ link[c] = "up"
    /\ room[c] # None
    /\ c \notin missed
    /\ said[c] \in {"created", "joined", "state"}
    /\ said' = [said EXCEPT ![c] = IF final[room[c]] THEN "score" ELSE "state"]
    /\ UNCHANGED <<link, room, final, missed>>

(* A match ends.  Who has just been given a place in it may miss the end;  *)
(* who created it, or has heard of it, does not.                           *)
Finish(g) ==
    /\ g \in Open
    /\ ~final[g]
    /\ final' = [final EXCEPT ![g] = TRUE]
    /\ \E M \in SUBSET {c \in Places(g) : said[c] \notin {"created", "state"}} :
          missed' = missed \cup M
    /\ UNCHANGED <<link, room, said>>

Next ==
    \/ \E c \in Client : Tell(c)
    \/ \E c \in Client : \/ Connect(c) \/ Cut(c) \/ Forget(c)
                         \/ TurnAway(c) \/ Refuse(c)
                         \/ \E g \in Code : Create(c, g) \/ Join(c, g)
    \/ \E g \in Code : Finish(g)

Spec == Init /\ [][Next]_vars
==============================================================================
