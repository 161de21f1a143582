----------------------------- MODULE MatchRules ------------------------------
(***************************************************************************)
(* One match as its Game thread runs it: at most one command per           *)
(* iteration, then simulateStep, which lets zombies and throwables hit     *)
(* soldiers, simulates the soldiers in the order of their ids, counts the  *)
(* dead and decides whether the match is over.                             *)
(*                                                                         *)
(* The state of a soldier is the set of its boolean flags.  Time is        *)
(* abstract: a cooldown or a duration has elapsed or not, in any step.     *)
(* Space is abstract: a reviving soldier reaches any set of the others.    *)
(* Zombies and throwables are abstract: any soldier may be hit in any      *)
(* step, by a hit that leaves it health or one that does not; the last     *)
(* zombie may die in any step.                                             *)
(***************************************************************************)
EXTENDS Naturals, FiniteSets

CONSTANTS Soldier,       \* the player ids, which order the map of soldiers
          Lives,         \* LIVES of soldier.cpp
          Modes,         \* the modes a match may be created with
          Commands       \* the commands the players send

ASSUME SoldierAssumption == Soldier \subseteq Nat \ {0} /\ IsFiniteSet(Soldier)
ASSUME LivesAssumption == Lives \in Nat
ASSUME ModesAssumption == Modes \subseteq {"SURVIVAL", "CLEAR_THE_ZONE"}

Command == {"move", "shoot", "reload", "revive", "throw", "change", "idle",
            "exit"}
ASSUME CommandsAssumption == Commands \subseteq Command

VARIABLES
    mode,        \* the subclass of Match
    soldiers,    \* the domain of Match::soldiers
    flags,       \* [Soldier]: the activity flags that are true
    alive,       \* [Soldier]: Soldier::alive
    dying,       \* [Soldier]: Soldier::dying, on the ground
    lethal,      \* [Soldier]: damage_recv is not less than actual_health
    revived,     \* [Soldier]: times_revived
    counted,     \* the soldiers whose counted flag is set
    total,       \* soldier_counter
    dead,        \* dead_soldiers_counter
    over,        \* Match::over
    phase,       \* "command" | "hits" | "soldiers" | "count" | "done"
    turn,        \* the soldiers already simulated in this step
    acted        \* history: what each soldier did in its last turn

soldierVars == <<flags, alive, dying, lethal, revived>>
counterVars == <<mode, soldiers, counted, total, dead, over>>
vars == <<soldierVars, counterVars, phase, turn, acted>>

Busy == {"reloading", "shooting", "moving", "throwing", "reviving",
         "being_hurt", "throwed"}
Flag == Busy \cup {"changing"}

Init ==
    /\ mode \in Modes
    /\ soldiers = {}
    /\ flags = [s \in Soldier |-> {}]
    /\ alive = [s \in Soldier |-> TRUE]
    /\ dying = [s \in Soldier |-> FALSE]
    /\ lethal = [s \in Soldier |-> FALSE]
    /\ revived = [s \in Soldier |-> 0]
    /\ counted = {}
    /\ total = 0
    /\ dead = 0
    /\ over = FALSE
    /\ phase = "command"
    /\ turn = {}
    /\ acted = [s \in Soldier |-> {}]

------------------------------------------------------------------------------
(* What a command makes of the flags f of a soldier (all commands arrive   *)
(* with state ON).                                                         *)
StartMove(f, down) == IF down THEN f ELSE (f \cap {"changing"}) \cup {"moving"}
StartShoot(f) ==
    IF "reloading" \in f THEN f ELSE (f \cap {"changing"}) \cup {"shooting"}
StartReload(f) == (f \cap {"changing"}) \cup {"reloading"}
StartRevive(f) == (f \cap {"changing"}) \cup {"reviving"}
StartThrow(f) ==
    IF "throwed" \in f
    THEN f \ {"moving"}
    ELSE (f \ {"shooting", "reloading", "reviving", "being_hurt"}) \cup {"throwing"}
Idle(f) == f \ Busy
RecvDamage(f) ==
    (f \ {"reloading", "throwing", "reviving", "throwed"}) \cup {"being_hurt"}

Commanded(k, s) ==
    CASE k = "move" -> StartMove(flags[s], dying[s])
      [] k = "shoot" -> StartShoot(flags[s])
      [] k = "reload" -> StartReload(flags[s])
      [] k = "revive" -> StartRevive(flags[s])
      [] k = "throw" -> StartThrow(flags[s])
      [] k = "change" -> flags[s] \cup {"changing"}
      [] k = "idle" -> Idle(flags[s])
      [] k = "exit" -> flags[s]

(* Game::run executes at most one command in an iteration, and tests only  *)
(* then whether the match is over: a finished match still sees one.        *)
AfterCommand == IF over THEN "done" ELSE "hits"

NoCommand ==
    /\ phase = "command"
    /\ phase' = AfterCommand
    /\ UNCHANGED <<soldierVars, counterVars, turn, acted>>

(* A command of a player that is in the match; exit is killActor.          *)
ExecuteCommand(s, k) ==
    /\ phase = "command"
    /\ s \in soldiers
    /\ flags' = [flags EXCEPT ![s] = Commanded(k, s)]
    /\ alive' = [alive EXCEPT ![s] = @ /\ k # "exit"]
    /\ phase' = AfterCommand
    /\ UNCHANGED <<dying, lethal, revived, counterVars, turn, acted>>

(* Match::join, by the player's choice of a soldier: once per player.      *)
Join(s) ==
    /\ phase = "command"
    /\ s \notin soldiers
    /\ soldiers' = soldiers \cup {s}
    /\ total' = total + 1
    /\ phase' = AfterCommand
    /\ UNCHANGED <<mode, soldierVars, counted, dead, over, turn, acted>>

------------------------------------------------------------------------------
(* simulateStep, first part: zombies and throwables call recvDamage(ON).   *)
(* A second hit in the same step replaces the first one's damage.          *)
Hits ==
    /\ phase = "hits"
    /\ \E hit \in SUBSET soldiers : \E kills \in SUBSET hit :
          /\ flags' = [s \in Soldier |-> IF s \in hit THEN RecvDamage(flags[s])
                                         ELSE flags[s]]
          /\ lethal' = [s \in Soldier |-> IF s \in hit THEN s \in kills
                                          ELSE lethal[s]]
    /\ phase' = "soldiers"
    /\ turn' = {}
    /\ UNCHANGED <<alive, dying, revived, counterVars, acted>>

Standing(s) == alive[s] /\ ~dying[s]

(* Mutant of Bleeds: only the clock kills.                                 *)
BleedsSlowly(s, expired) == expired

(* simulateDie: the soldier is set idle; it dies when the revive cooldown  *)
(* is over, or when nobody else stands.                                    *)
Bleeds(s, expired) ==
    expired \/ \A o \in soldiers \ {s} : ~Standing(o)

(* Mutant of Revivable: one life too many.                                 *)
RevivableOnceMore(o) == revived[o] <= Lives + 1

(* be_revived: the lives that are left.                                    *)
Revivable(o) == revived[o] <= Lives

(* Mutant of AfterDie: the activity goes on.                               *)
AfterDieActive(f, down) == f

(* simulateDie begins with idle(ON).                                       *)
AfterDie(f, down) == IF down THEN Idle(f) ELSE f

(* simulate_change_grenade: every soldier starts with the smoke grenade    *)
(* (t_type of soldier.yaml) and holds one of the two types ever after.     *)
AfterChange(f) == f \ {"changing"}

(* Mutant of OnGround: dying is recomputed, not kept.                      *)
OnGroundWhenHurt(s, f) == "being_hurt" \in f /\ lethal[s]

(* simulateRecvdmg, start_dying: who is on the ground after its turn.      *)
OnGround(s, f) == dying[s] \/ ("being_hurt" \in f /\ lethal[s])

(* simulateRecvdmg, simulateReload, simulateShoot, simulateThrow: the      *)
(* flags each leaves.  The environment decides what time and ammo allow.   *)
AfterDamage(f, kills) ==
    IF "being_hurt" \notin f THEN f
    ELSE IF kills THEN Idle(f) ELSE f \ {"being_hurt"}
AfterReload(f, done) ==
    IF "reloading" \notin f THEN f
    ELSE f \cap ({"changing"} \cup (IF done THEN {} ELSE {"reloading"}))
AfterShoot(f, hasAmmo) ==
    IF "shooting" \notin f \/ hasAmmo THEN f ELSE StartReload(f)
AfterThrow(f, elapsed) ==
    IF "throwing" \notin f THEN f
    ELSE IF "throwed" \in f
         THEN IF elapsed THEN f \ {"throwing", "throwed"} ELSE f
         ELSE IF elapsed
              THEN (f \cap {"changing"}) \cup {"throwing", "throwed"}
              ELSE f \ {"throwing"}

(* What time and ammo allow is open when it is looked at.                  *)
Outcomes(lookedAt) == IF lookedAt THEN BOOLEAN ELSE {FALSE}

(* Soldier::simulate, given what it finds: each activity tests the flag    *)
(* that the previous ones left.                                            *)
Turn(s, expired, done, hasAmmo, elapsed, reach) ==
    LET f1 == AfterChange(AfterDie(flags[s], dying[s]))
        f2 == AfterDamage(f1, lethal[s])
        f3 == AfterReload(f2, done)
        f4 == AfterShoot(f3, hasAmmo)
        f5 == AfterThrow(f4, elapsed)
        down == {o \in reach : "reviving" \in f1 /\ dying[o]}
        up == {o \in down : Revivable(o)}
    IN /\ flags' = [o \in Soldier |-> IF o = s THEN f5
                                      ELSE IF o \in up THEN Idle(flags[o])
                                      ELSE flags[o]]
       /\ dying' = [o \in Soldier |-> IF o = s THEN OnGround(s, f1)
                                      ELSE dying[o] /\ o \notin up]
       /\ alive' = [o \in Soldier |->
                      IF o = s THEN alive[s] /\ ~(dying[s] /\ Bleeds(s, expired))
                      ELSE alive[o] /\ o \notin down \ up]
       /\ revived' = [o \in Soldier |-> IF o \in up THEN revived[o] + 1
                                        ELSE revived[o]]
       /\ acted' = [acted EXCEPT ![s] =
                      (f1 \cap {"reviving"}) \cup (f3 \cap {"shooting"})
                      \cup (f4 \cap {"moving", "throwing"})]

(* The soldiers are simulated in the order of their ids.                   *)
Simulate(s) ==
    /\ phase = "soldiers"
    /\ s \in soldiers \ turn
    /\ \A o \in soldiers \ turn : s <= o
    /\ \E expired \in Outcomes(dying[s]),
         done \in Outcomes("reloading" \in flags[s]),
         hasAmmo \in Outcomes("shooting" \in flags[s]),
         elapsed \in Outcomes("throwing" \in flags[s]),
         reach \in SUBSET {o \in soldiers \ {s} : "reviving" \in flags[s]} :
            Turn(s, expired, done, hasAmmo, elapsed, reach)
    /\ lethal' = [lethal EXCEPT ![s] = FALSE]
    /\ turn' = turn \cup {s}
    /\ UNCHANGED <<counterVars, phase>>

AllSimulated ==
    /\ phase = "soldiers"
    /\ soldiers \subseteq turn
    /\ phase' = "count"
    /\ UNCHANGED <<soldierVars, counterVars, turn, acted>>

(* Mutant of NewlyDead: the counted flag is not tested.                    *)
NewlyDeadAgain == {s \in soldiers : ~alive[s]}

(* delete_dead_soldiers, then winMatch or loseMatch; finalizable is set by *)
(* the first join.                                                         *)
NewlyDead == {s \in soldiers : ~alive[s] /\ s \notin counted}

(* Mutant of Tally: it counts down.                                        *)
TallyDown == dead - Cardinality(NewlyDead)

Tally == dead + Cardinality(NewlyDead)

(* Mutant of Lost: tested before the dead of this step are counted.        *)
LostLastStep(d) == dead = total

Lost(d) == d = total

Count ==
    /\ phase = "count"
    /\ counted' = counted \cup NewlyDead
    /\ dead' = Tally
    /\ \E cleared \in Outcomes(mode = "CLEAR_THE_ZONE") :
          over' = (total > 0 /\ (cleared \/ Lost(dead')))
    /\ phase' = "command"
    /\ turn' = {}
    /\ UNCHANGED <<mode, soldierVars, soldiers, total, acted>>

Step ==
    \/ NoCommand
    \/ Hits
    \/ \E s \in Soldier : Simulate(s)
    \/ AllSimulated
    \/ Count

Next ==
    \/ Step
    \/ \E s \in Soldier : Join(s) \/ \E k \in Commands : ExecuteCommand(s, k)

Spec == Init /\ [][Next]_vars /\ WF_vars(Step)
------------------------------------------------------------------------------
(* Type invariant.                                                         *)
TypeOK ==
    /\ mode \in Modes
    /\ soldiers \in SUBSET Soldier
    /\ flags \in [Soldier -> SUBSET Flag]
    /\ alive \in [Soldier -> BOOLEAN]
    /\ dying \in [Soldier -> BOOLEAN]
    /\ lethal \in [Soldier -> BOOLEAN]
    /\ revived \in [Soldier -> Nat]
    /\ counted \in SUBSET Soldier
    /\ total \in Nat
    /\ dead \in Nat
    /\ over \in BOOLEAN
    /\ phase \in {"command", "hits", "soldiers", "count", "done"}
    /\ turn \in SUBSET Soldier
    /\ acted \in [Soldier -> SUBSET {"reviving", "shooting", "moving", "throwing"}]

(* The two counters that decide the match agree with the soldiers          *)
(* themselves: at the end of every step each dead soldier, however it died *)
(* and whatever else happened to it since, has been counted exactly once.  *)
CountersAgree ==
    /\ total = Cardinality(soldiers)
    /\ dead = Cardinality(counted)
    /\ phase = "command" => counted = {s \in soldiers : ~alive[s]}

(* A match ends in the very step in which its last soldier dies, however   *)
(* its soldiers died; a Survival match never ends while one is alive.      *)
OverWhenAllDead ==
    phase = "command" /\ soldiers # {} =>
        LET allDead == \A s \in soldiers : ~alive[s]
        IN (allDead => over) /\ (over /\ mode = "SURVIVAL" => allDead)

(* A soldier that is on the ground when its turn comes does nothing in it, *)
(* although commands other than move and hits still set its flags.         *)
DownedDoNothing ==
    [][\A s \in Soldier :
          (s \in turn' \ turn /\ dying[s]) => acted'[s] = {}]_vars

(* A soldier is revived LIVES + 1 times at most ("Features": hasta tres    *)
(* veces), even by two comrades in one step.                               *)
RevivedAtMost == \A s \in Soldier : revived[s] <= Lives + 1

(* A soldier that stands at the end of a step stood at its beginning, or   *)
(* was put on its feet by a comrade that was itself not on the ground:     *)
(* nobody gets up alone.                                                   *)
NobodyRisesAlone ==
    [][\A s \in Soldier :
          (dying[s] /\ ~dying'[s]) =>
             \E o \in soldiers \ {s} : /\ turn' \ turn = {o}
                                      /\ ~dying[o]
                                      /\ "reviving" \in acted'[o]]_vars

(* Once every player has joined and nobody stands, the match is over       *)
(* before anybody can get up, unless a dead soldier is not on the ground   *)
(* (its player left, or it was revived after its death).                   *)
AllDown ==
    /\ phase = "command"
    /\ soldiers = Soldier
    /\ \A s \in soldiers : dying[s]

AllDownIsLost == AllDown ~> over

(* "Features": "Si el tiempo termina, muere para siempre": a soldier that  *)
(* died on the ground never gets up.  Violated: simulateRevive tests dying *)
(* and not alive, so a comrade puts the dead soldier back on its feet; it  *)
(* obeys its player again, and is still counted among the dead.            *)
DeadStayDown ==
    [][\A s \in Soldier : (~alive[s] /\ dying[s]) => dying'[s]]_vars
==============================================================================
