---------------------------- MODULE MCGameServer -----------------------------
(* Small instances of GameServer.  The connections that neither leave nor  *)
(* move are interchangeable; only the run without liveness uses Symmetry.  *)
EXTENDS GameServer, TLC

Symmetry == Permutations(Client \ (Leavers \cup Movers))

(* For liveness: a client leaves or the operator types "q", not both.      *)
LeaveOrQuit ==
    /\ (quit' # quit) => \A c \in Leavers : conn[c] # "closed"
    /\ (quit /\ conn' # conn) => apc' # apc
==============================================================================
