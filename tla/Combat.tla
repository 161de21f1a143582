------------------------------- MODULE Combat --------------------------------
(***************************************************************************)
(* The zombies of a ClearTheZone match and what is done to them, step by   *)
(* step: the zombies are simulated in the order of their ids, the dead are *)
(* counted, throwables explode, soldiers shoot, the end is decided.        *)
(*                                                                         *)
(* The state of a zombie is the set of its boolean flags.  Space is        *)
(* abstract: in its turn a zombie may see any standing soldier, within its *)
(* reach or not, and hear any screaming zombie.  So is time, but for a     *)
(* stun, whose age is counted in steps.  What a blow does to a soldier,    *)
(* and who stands after a step, is the business of MatchRules.             *)
(***************************************************************************)
EXTENDS Naturals, FiniteSets

CONSTANTS Soldier,    \* the players' ids
          Zombie,     \* the zombies' ids, which order the map of zombies
          Kinds,      \* the subclasses of Zombie
          MaxHealth,  \* health
          Damages,    \* the damage of a shot or of a grenade
          StunTime,   \* stunned_cooldown, in steps
          NoOne, AWitch

(* Spear and Jumper have no code of their own.                             *)
Kind == {"Infected", "Venom", "Witch"}

ASSUME SoldierAssumption == IsFiniteSet(Soldier) /\ {NoOne, AWitch} \cap Soldier = {}
ASSUME ZombieAssumption == Zombie \subseteq Nat /\ IsFiniteSet(Zombie) /\ Zombie # {}
ASSUME KindsAssumption == Kinds \subseteq Kind
ASSUME DamageAssumption == /\ MaxHealth \in Nat \ {0} /\ StunTime \in Nat
                           /\ Damages \subseteq Nat \ {0}

VARIABLES
    kind,          \* [Zombie]: the subclass, Infected for Spear and Jumper
    flags,         \* [Zombie]: the flags that are true, all but alive
    att_vic,       \* [Zombie]: att_vic, or NoOne
    damage_recv,   \* [Zombie]: damage_recv
    attacker_id,   \* [Zombie]: attacker_id, NoOne for the initial 500
    actual_health, \* [Zombie]: actual_health
    stun_age,      \* [Zombie]: steps since stunned_time
    dead,          \* the zombies with alive = false
    counted,       \* the zombies whose counted flag is set
    dead_zombies,  \* dead_zombies_counter
    kills,         \* [Soldier]: kill_counter
    standing,      \* the soldiers that are neither dying nor dead
    over,          \* Match::over
    phase,         \* "zombies" | "throwables" | "soldiers"
    turn,          \* the zombies already simulated in this step
    met,           \* history, [Zombie]: whom its last move found in reach
    killer,        \* history, [Zombie]: who was credited with its death
    slowed,        \* history, [Zombie]: its turns since it was stunned
    struck         \* history: the soldiers hit in the last zombie's turn

bodyVars == <<damage_recv, attacker_id, actual_health, stun_age, dead, kills,
              killer, slowed>>
mindVars == <<att_vic, met>>
matchVars == <<kind, counted, dead_zombies, standing, over>>
vars == <<flags, bodyVars, mindVars, matchVars, phase, turn, struck>>

Flag == {"moving", "attacking", "being_hurt", "screaming", "throwing",
         "is_stunned", "stunned", "dying"}

Init ==
    /\ kind \in [Zombie -> Kinds]
    /\ flags = [z \in Zombie |-> {}]
    /\ att_vic = [z \in Zombie |-> NoOne]
    /\ damage_recv = [z \in Zombie |-> 0]
    /\ attacker_id = [z \in Zombie |-> NoOne]
    /\ actual_health = [z \in Zombie |-> MaxHealth]
    /\ stun_age = [z \in Zombie |-> 0]
    /\ dead = {}
    /\ counted = {}
    /\ dead_zombies = 0
    /\ kills = [s \in Soldier |-> 0]
    /\ standing = Soldier
    /\ over = FALSE
    /\ phase = "zombies"
    /\ turn = {}
    /\ met = [z \in Zombie |-> NoOne]
    /\ killer = [z \in Zombie |-> NoOne]
    /\ slowed = [z \in Zombie |-> 0]
    /\ struck = {}

------------------------------------------------------------------------------
(* What the commands of a Zombie make of its flags f.                      *)
MoveOn(f) == (f \ {"attacking", "being_hurt", "screaming"}) \cup {"moving"}
MoveOff(f) == f \ {"moving"}
AttackOn(f) == (f \ {"moving", "being_hurt", "screaming"}) \cup {"attacking"}
AttackOff(f) == f \ {"attacking"}
Idle(f) == f \ {"moving", "attacking", "being_hurt", "screaming"}
Die(f) == Idle(f) \cup {"dying"}

(* Mutant of RecvDamage: the attack is not interrupted.                    *)
RecvDamageOn(f) == (f \ {"moving", "screaming"}) \cup {"being_hurt"}

RecvDamage(f) == (f \ {"moving", "attacking", "screaming"}) \cup {"being_hurt"}

ScreamOn(f) == (f \ {"moving", "attacking", "being_hurt"}) \cup {"screaming"}
ThrowOn(f) == (f \ {"moving", "attacking", "being_hurt"}) \cup {"throwing"}

------------------------------------------------------------------------------
(* The first part of a turn: the stun, and the blow received.              *)

StunOver(z) == {"is_stunned", "stunned"} \subseteq flags[z] /\ stun_age[z] >= StunTime

(* simulateStunned *)
AfterStun(z) ==
    IF "is_stunned" \notin flags[z] THEN flags[z]
    ELSE IF StunOver(z) THEN flags[z] \ {"is_stunned", "stunned"}
    ELSE flags[z] \cup {"stunned"}

(* Mutant of NextAge: it is not reset when the stun is over.               *)
NextAgeOn(z) == IF {"is_stunned", "stunned"} \subseteq flags[z]
                THEN stun_age[z] + 1 ELSE 0

NextAge(z) == IF {"is_stunned", "stunned"} \subseteq flags[z] /\ ~StunOver(z)
              THEN stun_age[z] + 1 ELSE 0

(* simulateRecvDamage *)
Hurt(z) == "being_hurt" \in flags[z]
Killed(z) == Hurt(z) /\ damage_recv[z] >= actual_health[z]

AfterDamage(z) ==
    IF Killed(z) THEN Die(AfterStun(z)) ELSE AfterStun(z) \ {"being_hurt"}

Body(z) ==
    /\ stun_age' = [stun_age EXCEPT ![z] = NextAge(z)]
    /\ slowed' = [slowed EXCEPT ![z] = IF "is_stunned" \in AfterStun(z) THEN @ + 1 ELSE 0]
    /\ actual_health' = [actual_health EXCEPT
          ![z] = IF Hurt(z) /\ ~Killed(z) THEN @ - damage_recv[z] ELSE @]
    /\ IF Killed(z)
       THEN /\ kills' = [kills EXCEPT ![attacker_id[z]] = @ + 1]
            /\ killer' = [killer EXCEPT ![z] = attacker_id[z]]
       ELSE UNCHANGED <<kills, killer>>
    /\ UNCHANGED <<damage_recv, attacker_id, dead>>

(* simulateAttack *)
Strikes(z) == "attacking" \in AfterDamage(z)

------------------------------------------------------------------------------
(* The second part: simulateMove.  f is what the first part left of z's    *)
(* flags; blocked moves differ from the others in space only.              *)

Decide(z, f, victim, found) ==
    /\ flags' = [flags EXCEPT ![z] = f]
    /\ att_vic' = [att_vic EXCEPT ![z] = victim]
    /\ met' = [met EXCEPT ![z] = found]

AWitchScreams == \E w \in Zombie : "screaming" \in flags[w]

FindsVictim(z, f) ==
    \E s \in standing : Decide(z, AttackOn(MoveOff(f)), s, s)

SeesNobody(z, f) == Decide(z, AttackOff(MoveOff(f)), NoOne, NoOne)

(* Mutant of Chases: the attack goes on.                                   *)
ChasesAttacking(z, f) ==
    standing # {} /\ Decide(z, f \cup {"moving"}, att_vic[z], NoOne)

Chases(z, f) == standing # {} /\ Decide(z, MoveOn(AttackOff(f)), NoOne, NoOne)

(* On the way to a witch, in a free place or in one that is taken.         *)
GoesToWitch(z, f) ==
    AWitchScreams /\ (\/ Decide(z, MoveOn(f), att_vic[z], NoOne)
                      \/ Decide(z, MoveOff(MoveOn(f)), att_vic[z], NoOne))

(* Zombie::simulateMove: Infected, Spear and Jumper.                       *)
ZombieMove(z, f) ==
    \/ FindsVictim(z, f)
    \/ Chases(z, f)
    \/ GoesToWitch(z, f)
    \/ AWitchScreams /\ Decide(z, Idle(MoveOff(f)), att_vic[z], AWitch)
    \/ SeesNobody(z, f)

(* Venom::simulateMove: it throws, on the way to a victim, and keeps its   *)
(* attack when it has reached a screaming witch.  A throw begins, goes on  *)
(* or ends.                                                                *)
Throw(f) == IF "throwing" \in f THEN {f, f \ {"throwing"}} ELSE {f, ThrowOn(f)}

VenomMove(z, f) ==
    \/ FindsVictim(z, f)
    \/ /\ standing # {}
       /\ \E g \in Throw(MoveOn(AttackOff(f))) :
             Decide(z, IF "throwing" \in g THEN MoveOff(g) ELSE g, NoOne, NoOne)
    \/ AWitchScreams /\ Decide(z, MoveOn(f), att_vic[z], NoOne)
    \/ AWitchScreams /\ Decide(z, MoveOff(f), att_vic[z], AWitch)
    \/ \E g \in IF "throwing" \in f THEN Throw(f) ELSE {f} : SeesNobody(z, g)

(* Witch::simulateMove: at the sight of a victim it screams from time to   *)
(* time, and does nothing else meanwhile.                                  *)
Quiet(f) == f \ {"screaming"}

WitchMove(z, f) ==
    \/ standing # {} /\ Decide(z, IF "screaming" \in f THEN f ELSE ScreamOn(f),
                               att_vic[z], NoOne)
    \/ FindsVictim(z, Quiet(f))
    \/ Chases(z, Quiet(f))
    \/ SeesNobody(z, f)

Move(z, f) == \/ kind[z] = "Infected" /\ ZombieMove(z, f)
              \/ kind[z] = "Venom" /\ VenomMove(z, f)
              \/ kind[z] = "Witch" /\ WitchMove(z, f)

------------------------------------------------------------------------------
(* simulateStep *)

(* Mutant of Dying: one that is hit again is taken for alive.              *)
DyingUnhurt(z) == "dying" \in flags[z] /\ ~Hurt(z)

Dying(z) == "dying" \in flags[z]

HasTurn(z) ==
    /\ phase = "zombies" /\ ~over
    /\ z \notin turn
    /\ \A o \in Zombie : o < z => o \in turn
    /\ turn' = turn \cup {z}
    /\ UNCHANGED <<matchVars, phase>>

(* Zombie::simulate *)
Simulate(z) ==
    /\ HasTurn(z)
    /\ ~Dying(z)
    /\ Body(z)
    /\ struck' = IF Strikes(z) THEN {att_vic[z]} ELSE {}
    /\ Move(z, AfterDamage(z))

(* The same, for one that is dying: simulateDie.                           *)
SimulateDie(z) ==
    /\ HasTurn(z)
    /\ Dying(z)
    /\ flags' = [flags EXCEPT ![z] = Idle(@)]
    /\ dead' \in {dead, dead \cup {z}}
    /\ struck' = {}
    /\ UNCHANGED <<damage_recv, attacker_id, actual_health, stun_age, kills,
                   killer, slowed, mindVars>>

(* Mutant of CountDead: the flag counted is forgotten.                     *)
CountDeadAgain ==
    /\ phase = "zombies" /\ ~over
    /\ turn = Zombie
    /\ dead_zombies' = dead_zombies + Cardinality(dead)
    /\ counted' = dead
    /\ phase' = "throwables"
    /\ struck' = {}
    /\ UNCHANGED <<flags, bodyVars, mindVars, kind, standing, over, turn>>

(* delete_dead_zombies *)
CountDead ==
    /\ phase = "zombies" /\ ~over
    /\ turn = Zombie
    /\ dead_zombies' = dead_zombies + Cardinality(dead \ counted)
    /\ counted' = dead
    /\ phase' = "throwables"
    /\ struck' = {}
    /\ UNCHANGED <<flags, bodyVars, mindVars, kind, standing, over, turn>>

(* recvDamage(ON, damage, s) on the zombies of hit.                        *)
Wound(s, hit, damage) ==
    /\ flags' = [z \in Zombie |-> IF z \in hit THEN RecvDamage(flags[z]) ELSE flags[z]]
    /\ damage_recv' = [z \in Zombie |-> IF z \in hit THEN damage[z] ELSE damage_recv[z]]
    /\ attacker_id' = [z \in Zombie |-> IF z \in hit THEN s ELSE attacker_id[z]]
    /\ UNCHANGED <<actual_health, stun_age, dead, kills, killer, slowed,
                   mindVars, matchVars, phase, turn, struck>>

(* Grenade_t::simulateExplosion, thrown by s: the dying are hit as well.   *)
Explode(s, hit) ==
    /\ phase = "throwables"
    /\ \E damage \in [hit -> Damages] : Wound(s, hit, damage)

(* Mutant of Stun: a new smoke starts the stun again.                      *)
StunAgain(z) == (flags[z] \ {"stunned"}) \cup {"is_stunned"}

(* be_stunned(ON) *)
Stun(z) ==
    IF kind[z] = "Venom"
    THEN (Idle(flags[z]) \ {"throwing"}) \cup {"is_stunned"}
    ELSE flags[z] \cup {"is_stunned"}

(* Smoke::simulateExplosion *)
Smoke(hit) ==
    /\ phase = "throwables"
    /\ flags' = [z \in Zombie |-> IF z \in hit THEN Stun(z) ELSE flags[z]]
    /\ UNCHANGED <<bodyVars, mindVars, matchVars, phase, turn, struck>>

ThrowablesDone ==
    /\ phase = "throwables"
    /\ phase' = "soldiers"
    /\ UNCHANGED <<flags, bodyVars, mindVars, matchVars, turn, struck>>

(* A bullet of s: a Scout's hits several zombies, one after the other.     *)
Shoot(s, z) ==
    /\ phase = "soldiers"
    /\ ~Dying(z)
    /\ \E damage \in [{z} -> Damages] : Wound(s, {z}, damage)

(* The match is won when all zombies are counted; it may be lost when no   *)
(* soldier stands.                                                         *)
Won == dead_zombies = Cardinality(Zombie)

SoldiersDone ==
    /\ phase = "soldiers"
    /\ standing' \in SUBSET Soldier
    /\ \/ over' = Won
       \/ standing' = {} /\ over' = TRUE
    /\ phase' = "zombies"
    /\ turn' = {}
    /\ UNCHANGED <<flags, bodyVars, mindVars, kind, counted, dead_zombies, struck>>

Next ==
    \/ \E z \in Zombie : Simulate(z) \/ SimulateDie(z)
    \/ CountDead
    \/ \E s \in Soldier, hit \in SUBSET Zombie \ {{}} : Explode(s, hit)
    \/ \E hit \in SUBSET Zombie \ {{}} : Smoke(hit)
    \/ ThrowablesDone
    \/ \E s \in Soldier, z \in Zombie : Shoot(s, z)
    \/ SoldiersDone

Spec == Init /\ [][Next]_vars
------------------------------------------------------------------------------
Someone == Soldier \cup {NoOne}

(* Type invariant.                                                         *)
TypeOK ==
    /\ kind \in [Zombie -> Kind]
    /\ flags \in [Zombie -> SUBSET Flag]
    /\ att_vic \in [Zombie -> Someone]
    /\ damage_recv \in [Zombie -> Nat]
    /\ attacker_id \in [Zombie -> Someone]
    /\ actual_health \in [Zombie -> 1..MaxHealth]
    /\ stun_age \in [Zombie -> 0..StunTime]
    /\ dead \in SUBSET Zombie
    /\ counted \in SUBSET Zombie
    /\ dead_zombies \in Nat
    /\ kills \in [Soldier -> Nat]
    /\ standing \in SUBSET Soldier
    /\ over \in BOOLEAN
    /\ phase \in {"zombies", "throwables", "soldiers"}
    /\ turn \in SUBSET Zombie
    /\ met \in [Zombie -> Someone \cup {AWitch}]
    /\ killer \in [Zombie -> Someone]
    /\ slowed \in [Zombie -> Nat]
    /\ struck \in SUBSET Soldier

(* att_vic is used a step after it was set (zombie.cpp:355).  It is never  *)
(* null then, and it is the soldier the zombie last found within reach:    *)
(* nothing keeps an attack alive from one turn to the next.  The exception *)
(* is a Venom beside a screaming witch, which goes on hitting its last     *)
(* victim wherever it is (venom.cpp:115-118).                              *)
AttacksWhatItFound ==
    \A z \in Zombie : "attacking" \in flags[z] =>
        /\ att_vic[z] \in Soldier
        /\ met[z] = att_vic[z] \/ (kind[z] = "Venom" /\ met[z] = AWitch)

(* Every zombie that dies is one kill of one soldier, whoever hits it      *)
(* again while it is dying, and a dead one was dying.                      *)
KillsCounted ==
    /\ \A s \in Soldier : kills[s] = Cardinality({z \in Zombie : killer[z] = s})
    /\ \A z \in Zombie : "dying" \in flags[z] <=> killer[z] \in Soldier
    /\ dead \subseteq {z \in Zombie : "dying" \in flags[z]}

(* The match goes on as long as a zombie or a soldier is alive, and is     *)
(* over in the step in which the last zombie dies.                         *)
ClearedIsWon ==
    /\ over => dead = Zombie \/ standing = {}
    /\ (phase = "zombies" /\ turn = {} /\ dead = Zombie) => over

(* A blow disarms: whatever else happened since, a zombie that was hit     *)
(* strikes nobody in its next turn, whether it dies of the blow or not.    *)
BlowDisarms ==
    [][\A z \in Zombie : (z \in turn' \ turn /\ Hurt(z)) => struck' = {}]_vars

(* A stun wears off after stunned_cooldown, however much smoke is thrown   *)
(* meanwhile: no zombie is slowed for longer.                              *)
StunWearsOff == \A z \in Zombie : slowed[z] <= StunTime + 1
==============================================================================
