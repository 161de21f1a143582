---------------------------- MODULE Combat_proofs ----------------------------
(***************************************************************************)
(* The zombies of a match for any number of zombies and soldiers, any      *)
(* health and any cooldown: what an attack stands on, how deaths and kills *)
(* are counted, when the match is won, and how long a stun lasts.          *)
(***************************************************************************)
EXTENDS Combat, FiniteSetTheorems, TLAPS

(* A blow has an author and stops an attack, and so does a scream.         *)
Blows ==
    \A z \in Zombie : /\ "being_hurt" \in flags[z] => attacker_id[z] \in Soldier
                      /\ "being_hurt" \in flags[z] => "attacking" \notin flags[z]
                      /\ "screaming" \in flags[z] => "attacking" \notin flags[z]

(* The age of a stun and the turns it has lasted grow together.            *)
StunClock ==
    \A z \in Zombie :
        /\ slowed[z] <= StunTime + 1
        /\ "stunned" \in flags[z] => "is_stunned" \in flags[z]
        /\ "dying" \notin flags[z] =>
              slowed[z] = IF "stunned" \in flags[z] THEN stun_age[z] + 1 ELSE 0

(* The count of the dead is level with them but for the zombies' phase.    *)
Counting ==
    /\ dead_zombies = Cardinality(counted)
    /\ counted \subseteq dead
    /\ phase # "zombies" => counted = dead
    /\ phase # "zombies" => ~over
    /\ over => turn = {}

IInv == /\ TypeOK /\ AttacksWhatItFound /\ KillsCounted /\ ClearedIsWon
        /\ Blows /\ StunClock /\ Counting

(* Every set of zombies is finite.                                         *)
LEMMA ZombiesFinite ==
  ASSUME NEW S \in SUBSET Zombie
  PROVE  IsFiniteSet(S) /\ Cardinality(S) \in Nat
  BY ZombieAssumption, FS_Subset, FS_CardinalityType

(* A match begins with the inductive invariant.                            *)
LEMMA InitIInv == Init => IInv
<1> SUFFICES ASSUME Init PROVE IInv
  OBVIOUS
<1>1. TypeOK
  <2>1. kind \in [Zombie -> Kind]
    BY KindsAssumption DEF Init
  <2>2. NoOne \in Someone /\ MaxHealth \in 1..MaxHealth /\ 0 \in 0..StunTime
    BY DamageAssumption DEF Someone
  <2>3. QED
    BY <2>1, <2>2 DEF Init, TypeOK
<1>2. AttacksWhatItFound /\ Blows
  BY DEF Init, AttacksWhatItFound, Blows
<1>3. KillsCounted
  <2>1. \A s \in Soldier : {z \in Zombie : killer[z] = s} = {}
    BY SoldierAssumption DEF Init
  <2>2. QED
    BY <2>1, SoldierAssumption, FS_EmptySet DEF Init, KillsCounted
<1>4. ClearedIsWon
  BY ZombieAssumption DEF Init, ClearedIsWon
<1>5. StunClock
  BY DamageAssumption DEF Init, StunClock
<1>6. Counting
  BY FS_EmptySet DEF Init, Counting
<1>7. QED
  BY <1>1, <1>2, <1>3, <1>4, <1>5, <1>6 DEF IInv
------------------------------------------------------------------------------
(* The first part of a turn: it leaves flags, takes the blow away, adds no *)
(* attack and no scream, keeps a stun or lets it wear off, and kills when  *)
(* the blow does.                                                          *)
LEMMA FirstPart ==
  ASSUME IInv, NEW z \in Zombie, ~Dying(z)
  PROVE  /\ AfterDamage(z) \in SUBSET Flag
         /\ "being_hurt" \notin AfterDamage(z)
         /\ "attacking" \in AfterDamage(z) => "attacking" \in flags[z]
         /\ "screaming" \in AfterDamage(z) => "screaming" \in flags[z]
         /\ "dying" \in AfterDamage(z) <=> Killed(z)
         /\ "stunned" \in AfterDamage(z) <=> ("is_stunned" \in flags[z] /\ ~StunOver(z))
         /\ "is_stunned" \in AfterDamage(z) <=> "stunned" \in AfterDamage(z)
         /\ "is_stunned" \in AfterStun(z) <=> "stunned" \in AfterDamage(z)
<1>1. flags[z] \in SUBSET Flag /\ "dying" \notin flags[z]
  BY DEF IInv, TypeOK, Dying
<1>2. "stunned" \in flags[z] => "is_stunned" \in flags[z]
  BY DEF IInv, StunClock
<1>3. StunOver(z) => "is_stunned" \in flags[z] /\ "stunned" \in flags[z]
  BY DEF StunOver
<1>4. /\ AfterStun(z) \in SUBSET Flag
      /\ \A x \in Flag \ {"is_stunned", "stunned"} : x \in AfterStun(z) <=> x \in flags[z]
  BY <1>1 DEF AfterStun, Flag
<1>5. /\ "stunned" \in AfterStun(z) <=> ("is_stunned" \in flags[z] /\ ~StunOver(z))
      /\ "is_stunned" \in AfterStun(z) <=> "stunned" \in AfterStun(z)
  BY <1>1, <1>2, <1>3 DEF AfterStun
<1>6. CASE Killed(z)
  BY <1>1, <1>4, <1>5, <1>6 DEF AfterDamage, Die, Idle, Flag
<1>7. CASE ~Killed(z)
  BY <1>1, <1>4, <1>5, <1>7 DEF AfterDamage, Flag
<1>8. QED
  BY <1>6, <1>7

(* What a move decides: g are the flags it leaves, v the victim, m what it *)
(* found in reach.                                                         *)
Decided(z, f, g, v, m) ==
    /\ g \in SUBSET Flag
    /\ \A x \in {"dying", "is_stunned", "stunned"} : x \in g <=> x \in f
    /\ "being_hurt" \notin g
    /\ "screaming" \in g => "attacking" \notin g
    /\ v \in Someone /\ m \in Someone \cup {AWitch}
    /\ "attacking" \in g => /\ v \in Soldier
                            /\ m = v \/ (kind[z] = "Venom" /\ m = AWitch)

(* The second part of a turn, for every kind of zombie.                    *)
LEMMA SecondPart ==
  ASSUME IInv, NEW z \in Zombie, NEW f \in SUBSET Flag, Move(z, f),
         "being_hurt" \notin f,
         "attacking" \in f => "attacking" \in flags[z],
         "screaming" \in f => "screaming" \in flags[z]
  PROVE  \E g, v, m : Decide(z, g, v, m) /\ Decided(z, f, g, v, m)
<1> DEFINE Goal == \E g, v, m : Decide(z, g, v, m) /\ Decided(z, f, g, v, m)
<1> DEFINE old == att_vic[z]
<1>1. old \in Someone /\ NoOne \in Someone /\ standing \subseteq Soldier
  BY DEF IInv, TypeOK, Someone
<1>2. "attacking" \in f => old \in Soldier
  BY DEF IInv, AttacksWhatItFound
<1>3. "screaming" \in f => "attacking" \notin f
  BY DEF IInv, Blows
<1> HIDE DEF old
<1>4. ASSUME NEW e \in {f, Quiet(f)}, FindsVictim(z, e) PROVE Goal
  <2>1. PICK s \in standing : Decide(z, AttackOn(MoveOff(e)), s, s)
    BY <1>4 DEF FindsVictim
  <2>2. Decided(z, f, AttackOn(MoveOff(e)), s, s)
    BY <1>1, <1>3 DEF Decided, AttackOn, MoveOff, Quiet, Flag, Someone
  <2>3. QED
    BY <2>1, <2>2
<1>5. ASSUME NEW e \in {f, Quiet(f)}, Chases(z, e) PROVE Goal
  <2>1. Decided(z, f, MoveOn(AttackOff(e)), NoOne, NoOne)
    BY <1>1 DEF Decided, MoveOn, AttackOff, Quiet, Flag
  <2>2. QED
    BY <1>5, <2>1 DEF Chases
<1>6. ASSUME NEW e \in SUBSET Flag, SeesNobody(z, e), "being_hurt" \notin e,
             \A x \in {"dying", "is_stunned", "stunned"} : x \in e <=> x \in f
      PROVE  Goal
  <2>1. Decided(z, f, AttackOff(MoveOff(e)), NoOne, NoOne)
    BY <1>1, <1>6 DEF Decided, AttackOff, MoveOff, Flag
  <2>2. QED
    BY <1>6, <2>1 DEF SeesNobody
<1>7. CASE kind[z] = "Infected" /\ ZombieMove(z, f)
  <2>1. CASE FindsVictim(z, f) \/ Chases(z, f) \/ SeesNobody(z, f)
    BY <2>1, <1>4, <1>5, <1>6
  <2>2. CASE GoesToWitch(z, f)
    <3>1. Decided(z, f, MoveOn(f), old, NoOne)
      BY <1>1 DEF Decided, MoveOn, Flag
    <3>2. Decided(z, f, MoveOff(MoveOn(f)), old, NoOne)
      BY <1>1 DEF Decided, MoveOn, MoveOff, Flag
    <3>3. QED
      BY <2>2, <3>1, <3>2 DEF GoesToWitch, old
  <2>3. CASE Decide(z, Idle(MoveOff(f)), att_vic[z], AWitch)
    <3>1. Decided(z, f, Idle(MoveOff(f)), old, AWitch)
      BY <1>1 DEF Decided, Idle, MoveOff, Flag
    <3>2. QED
      BY <2>3, <3>1 DEF old
  <2>4. QED
    BY <1>7, <2>1, <2>2, <2>3 DEF ZombieMove
<1>8. CASE kind[z] = "Venom" /\ VenomMove(z, f)
  <2>1. CASE FindsVictim(z, f)
    BY <2>1, <1>4
  <2>2. ASSUME NEW g \in Throw(MoveOn(AttackOff(f))),
               Decide(z, IF "throwing" \in g THEN MoveOff(g) ELSE g, NoOne, NoOne)
        PROVE  Goal
    <3>1. Decided(z, f, IF "throwing" \in g THEN MoveOff(g) ELSE g, NoOne, NoOne)
      BY <1>1 DEF Decided, Throw, ThrowOn, MoveOn, MoveOff, AttackOff, Flag
    <3>2. QED
      BY <2>2, <3>1
  <2>3. CASE Decide(z, MoveOn(f), att_vic[z], NoOne)
    <3>1. Decided(z, f, MoveOn(f), old, NoOne)
      BY <1>1 DEF Decided, MoveOn, Flag
    <3>2. QED
      BY <2>3, <3>1 DEF old
  <2>4. CASE Decide(z, MoveOff(f), att_vic[z], AWitch)
    <3>1. Decided(z, f, MoveOff(f), old, AWitch)
      BY <1>1, <1>2, <1>3, <1>8 DEF Decided, MoveOff, Flag
    <3>2. QED
      BY <2>4, <3>1 DEF old
  <2>5. ASSUME NEW g \in (IF "throwing" \in f THEN Throw(f) ELSE {f}), SeesNobody(z, g)
        PROVE  Goal
    <3>1. g = f \/ g = f \ {"throwing"}
      BY <2>5 DEF Throw
    <3>2. QED
      BY <1>6, <2>5, <3>1
  <2>6. QED
    BY <1>8, <2>1, <2>2, <2>3, <2>4, <2>5 DEF VenomMove
<1>9. CASE kind[z] = "Witch" /\ WitchMove(z, f)
  <2>1. CASE Decide(z, IF "screaming" \in f THEN f ELSE ScreamOn(f), att_vic[z], NoOne)
    <3>1. Decided(z, f, IF "screaming" \in f THEN f ELSE ScreamOn(f), old, NoOne)
      BY <1>1, <1>3 DEF Decided, ScreamOn, Flag
    <3>2. QED
      BY <2>1, <3>1 DEF old
  <2>2. CASE FindsVictim(z, Quiet(f)) \/ Chases(z, Quiet(f)) \/ SeesNobody(z, f)
    BY <2>2, <1>4, <1>5, <1>6
  <2>3. QED
    BY <1>9, <2>1, <2>2 DEF WitchMove
<1>10. QED
  BY <1>7, <1>8, <1>9 DEF Move
------------------------------------------------------------------------------
(* One more zombie with killer s is one more kill of s.                    *)
LEMMA OneMoreKill ==
  ASSUME IInv, NEW z \in Zombie, killer[z] \notin Soldier, NEW a \in Soldier,
         kills' = [kills EXCEPT ![a] = @ + 1],
         killer' = [killer EXCEPT ![z] = a]
  PROVE  \A s \in Soldier : kills'[s] = Cardinality({o \in Zombie : killer'[o] = s})
<1>1. killer \in [Zombie -> Someone] /\ kills \in [Soldier -> Nat]
  BY DEF IInv, TypeOK
<1> SUFFICES ASSUME NEW s \in Soldier
             PROVE  kills'[s] = Cardinality({o \in Zombie : killer'[o] = s})
  OBVIOUS
<1> DEFINE K == {o \in Zombie : killer[o] = s}
<1>2. kills[s] = Cardinality(K)
  BY DEF IInv, KillsCounted
<1>3. IsFiniteSet(K) /\ z \notin K
  BY ZombiesFinite
<1>4. CASE s = a
  <2>1. {o \in Zombie : killer'[o] = s} = K \cup {z}
    BY <1>1, <1>4
  <2>2. Cardinality(K \cup {z}) = Cardinality(K) + 1
    BY <1>3, FS_AddElement
  <2>3. QED
    BY <1>1, <1>2, <1>4, <2>1, <2>2
<1>5. CASE s # a
  <2>1. {o \in Zombie : killer'[o] = s} = K
    BY <1>1, <1>3, <1>5
  <2>2. QED
    BY <1>1, <1>2, <1>5, <2>1
<1>6. QED
  BY <1>4, <1>5

(* The turn of a zombie that is not dying keeps the invariant.             *)
LEMMA SimulateStep ==
  ASSUME IInv, NEW z \in Zombie, Simulate(z)
  PROVE  IInv'
<1>1. TypeOK /\ ~Dying(z) /\ HasTurn(z) /\ Body(z)
  BY DEF IInv, Simulate
<1> DEFINE f == AfterDamage(z)
<1>2. /\ f \in SUBSET Flag /\ "being_hurt" \notin f
      /\ "attacking" \in f => "attacking" \in flags[z]
      /\ "screaming" \in f => "screaming" \in flags[z]
      /\ "dying" \in f <=> Killed(z)
      /\ "stunned" \in f <=> ("is_stunned" \in flags[z] /\ ~StunOver(z))
      /\ "is_stunned" \in f <=> "stunned" \in f
      /\ "is_stunned" \in AfterStun(z) <=> "stunned" \in f
  BY <1>1, FirstPart
<1>3. Move(z, f)
  BY DEF Simulate
<1> HIDE DEF f
<1>4. PICK g, v, m : Decide(z, g, v, m) /\ Decided(z, f, g, v, m)
  BY <1>2, <1>3, SecondPart
<1>5. /\ flags' = [flags EXCEPT ![z] = g]
      /\ att_vic' = [att_vic EXCEPT ![z] = v]
      /\ met' = [met EXCEPT ![z] = m]
  BY <1>4 DEF Decide
<1>6. /\ g \in SUBSET Flag
      /\ "dying" \in g <=> Killed(z)
      /\ "stunned" \in g <=> ("is_stunned" \in flags[z] /\ ~StunOver(z))
      /\ "is_stunned" \in g <=> "stunned" \in g
      /\ "being_hurt" \notin g
      /\ "screaming" \in g => "attacking" \notin g
      /\ v \in Someone /\ m \in Someone \cup {AWitch}
      /\ "attacking" \in g => /\ v \in Soldier
                              /\ m = v \/ (kind[z] = "Venom" /\ m = AWitch)
  BY <1>2, <1>4 DEF Decided
<1>7. Killed(z) => attacker_id[z] \in Soldier
  BY DEF IInv, Blows, Killed, Hurt
<1>8. "dying" \notin flags[z] /\ killer[z] \notin Soldier
  BY <1>1 DEF Dying, IInv, KillsCounted
<1>9. UNCHANGED <<matchVars, phase, dead, damage_recv, attacker_id>> /\ turn' = turn \cup {z}
  BY <1>1 DEF HasTurn, Body
<1>10. stun_age' = [stun_age EXCEPT ![z] = NextAge(z)] /\ NextAge(z) \in 0..StunTime
  <2>1. stun_age[z] \in 0..StunTime
    BY <1>1 DEF TypeOK
  <2>2. ASSUME {"is_stunned", "stunned"} \subseteq flags[z], ~StunOver(z)
        PROVE  stun_age[z] + 1 \in 0..StunTime
    BY <2>1, <2>2, DamageAssumption DEF StunOver
  <2>3. NextAge(z) \in 0..StunTime
    BY <2>2, DamageAssumption DEF NextAge
  <2>4. QED
    BY <1>1, <2>3 DEF Body
<1>11. TypeOK'
  <2>1. actual_health' \in [Zombie -> 1..MaxHealth]
    <3> DEFINE h == IF Hurt(z) /\ ~Killed(z) THEN actual_health[z] - damage_recv[z]
                    ELSE actual_health[z]
    <3>1. actual_health[z] \in 1..MaxHealth /\ damage_recv[z] \in Nat
      BY <1>1 DEF TypeOK
    <3>2. h \in 1..MaxHealth
      BY <3>1, DamageAssumption DEF Killed
    <3>3. actual_health' = [actual_health EXCEPT ![z] = h]
      BY <1>1 DEF Body
    <3>4. QED
      BY <1>1, <3>2, <3>3 DEF TypeOK
  <2>2. kills' \in [Soldier -> Nat] /\ killer' \in [Zombie -> Someone]
    BY <1>1, <1>7 DEF TypeOK, Body, Someone
  <2>3. struck' \in SUBSET Soldier
    <3>1. Strikes(z) => att_vic[z] \in Soldier
      BY <1>2 DEF Strikes, f, IInv, AttacksWhatItFound
    <3>2. QED
      BY <3>1 DEF Simulate
  <2>4. slowed' \in [Zombie -> Nat]
    BY <1>1 DEF TypeOK, Body
  <2>5. flags' \in [Zombie -> SUBSET Flag] /\ att_vic' \in [Zombie -> Someone]
        /\ met' \in [Zombie -> Someone \cup {AWitch}]
    BY <1>1, <1>5, <1>6 DEF TypeOK
  <2>6. stun_age' \in [Zombie -> 0..StunTime]
    BY <1>1, <1>10 DEF TypeOK
  <2>7. QED
    BY <1>1, <1>9, <2>1, <2>2, <2>3, <2>4, <2>5, <2>6 DEF TypeOK, matchVars
<1>12. AttacksWhatItFound'
  BY <1>1, <1>5, <1>6, <1>9 DEF IInv, AttacksWhatItFound, TypeOK, matchVars
<1>13. Blows'
  BY <1>1, <1>5, <1>6, <1>9 DEF IInv, Blows, TypeOK
<1>14. KillsCounted'
  <2>1. CASE Killed(z)
    <3>1. /\ kills' = [kills EXCEPT ![attacker_id[z]] = @ + 1]
          /\ killer' = [killer EXCEPT ![z] = attacker_id[z]]
      BY <1>1, <2>1 DEF Body
    <3>2. \A s \in Soldier : kills'[s] = Cardinality({o \in Zombie : killer'[o] = s})
      BY <1>7, <1>8, <2>1, <3>1, OneMoreKill
    <3>3. \A o \in Zombie : "dying" \in flags'[o] <=> killer'[o] \in Soldier
      BY <1>1, <1>5, <1>6, <1>7, <2>1, <3>1 DEF IInv, KillsCounted, TypeOK
    <3>4. dead' \subseteq {o \in Zombie : "dying" \in flags'[o]}
      BY <1>1, <1>5, <1>6, <1>9, <2>1 DEF IInv, KillsCounted, TypeOK
    <3>5. QED
      BY <3>2, <3>3, <3>4 DEF KillsCounted
  <2>2. CASE ~Killed(z)
    <3>1. UNCHANGED <<kills, killer>>
      BY <1>1, <2>2 DEF Body
    <3>2. \A o \in Zombie : "dying" \in flags'[o] <=> "dying" \in flags[o]
      BY <1>1, <1>5, <1>6, <1>8, <2>2 DEF TypeOK
    <3>3. QED
      BY <1>9, <3>1, <3>2 DEF IInv, KillsCounted
  <2>3. QED
    BY <2>1, <2>2
<1>15. ClearedIsWon'
  BY <1>9 DEF IInv, ClearedIsWon, matchVars
<1>16. StunClock'
  <2>1. slowed' = [slowed EXCEPT ![z] = IF "stunned" \in g THEN slowed[z] + 1 ELSE 0]
    BY <1>1, <1>2, <1>6 DEF Body
  <2>2. slowed[z] = IF "stunned" \in flags[z] THEN stun_age[z] + 1 ELSE 0
    BY <1>8 DEF IInv, StunClock
  <2>3. "stunned" \in flags[z] => "is_stunned" \in flags[z]
    BY DEF IInv, StunClock
  <2>4. "stunned" \in g => NextAge(z) = IF "stunned" \in flags[z] THEN stun_age[z] + 1 ELSE 0
    BY <1>6, <2>3 DEF NextAge
  <2>5. slowed'[z] = IF "stunned" \in g THEN NextAge(z) + 1 ELSE 0
    BY <1>1, <2>1, <2>2, <2>4 DEF TypeOK
  <2>6. slowed'[z] <= StunTime + 1
    BY <1>10, <2>5, DamageAssumption
  <2>7. stun_age'[z] = NextAge(z) /\ flags'[z] = g
    BY <1>1, <1>5, <1>10 DEF TypeOK
  <2>8. \A o \in Zombie \ {z} : /\ slowed'[o] = slowed[o] /\ stun_age'[o] = stun_age[o]
                                /\ flags'[o] = flags[o]
    BY <1>1, <1>5, <1>10, <2>1 DEF TypeOK
  <2>9. QED
    BY <1>6, <2>5, <2>6, <2>7, <2>8 DEF IInv, StunClock
<1>17. Counting'
  BY <1>1, <1>9 DEF IInv, Counting, matchVars, HasTurn
<1>18. QED
  BY <1>11, <1>12, <1>13, <1>14, <1>15, <1>16, <1>17 DEF IInv

(* So does the turn of one that is dying.                                  *)
LEMMA DieStep ==
  ASSUME IInv, NEW z \in Zombie, SimulateDie(z)
  PROVE  IInv'
<1>1. TypeOK /\ "dying" \in flags[z] /\ HasTurn(z)
  BY DEF IInv, SimulateDie, Dying
<1>2. flags' = [flags EXCEPT ![z] = Idle(flags[z])] /\ dead' \in {dead, dead \cup {z}}
  BY DEF SimulateDie
<1>3. UNCHANGED <<damage_recv, attacker_id, actual_health, stun_age, kills, killer,
                  slowed, att_vic, met, matchVars, phase>>
  BY <1>1 DEF SimulateDie, mindVars, HasTurn
<1>4. \A o \in Zombie :
        /\ flags'[o] \in SUBSET Flag
        /\ "attacking" \in flags'[o] => "attacking" \in flags[o]
        /\ "screaming" \in flags'[o] => "screaming" \in flags[o]
        /\ "being_hurt" \in flags'[o] => "being_hurt" \in flags[o]
        /\ \A x \in {"dying", "is_stunned", "stunned"} : x \in flags'[o] <=> x \in flags[o]
  BY <1>1, <1>2 DEF TypeOK, Idle
<1>5. TypeOK'
  <2>1. flags' \in [Zombie -> SUBSET Flag]
    BY <1>1, <1>2, <1>4 DEF TypeOK
  <2>2. struck' \in SUBSET Soldier /\ turn' \in SUBSET Zombie /\ dead' \in SUBSET Zombie
    BY <1>1, <1>2 DEF SimulateDie, TypeOK, HasTurn
  <2>3. QED
    BY <1>1, <1>3, <2>1, <2>2 DEF TypeOK, matchVars
<1>6. AttacksWhatItFound'
  BY <1>3, <1>4 DEF IInv, AttacksWhatItFound, matchVars
<1>7. Blows'
  BY <1>3, <1>4 DEF IInv, Blows
<1>8. KillsCounted'
  BY <1>1, <1>2, <1>3, <1>4 DEF IInv, KillsCounted
<1>9. turn' # {} /\ phase = "zombies" /\ ~over
  BY <1>1 DEF HasTurn
<1>10. ClearedIsWon'
  BY <1>3, <1>9 DEF ClearedIsWon, matchVars
<1>11. StunClock'
  BY <1>3, <1>4 DEF IInv, StunClock
<1>12. Counting'
  BY <1>2, <1>3, <1>9 DEF IInv, Counting, matchVars
<1>13. QED
  BY <1>5, <1>6, <1>7, <1>8, <1>10, <1>11, <1>12 DEF IInv

(* Counting the dead brings the counter level with them.                   *)
LEMMA CountStep ==
  ASSUME IInv, CountDead
  PROVE  IInv'
<1>1. TypeOK /\ counted \subseteq dead /\ dead \subseteq Zombie
  BY DEF IInv, Counting, TypeOK
<1>2. UNCHANGED <<flags, bodyVars, mindVars, kind, standing, over, turn>>
      /\ counted' = dead /\ phase' = "throwables" /\ struck' = {}
  BY DEF CountDead
<1>3. dead_zombies' = Cardinality(dead)
  <2>1. dead_zombies = Cardinality(counted)
    BY DEF IInv, Counting
  <2>2. IsFiniteSet(dead) /\ Cardinality(dead) \in Nat /\ Cardinality(counted) \in Nat
    BY <1>1, ZombiesFinite
  <2>3. dead \cap counted = counted
    BY <1>1
  <2>4. Cardinality(dead \ counted) = Cardinality(dead) - Cardinality(counted)
    BY <2>2, <2>3, FS_Difference
  <2>5. dead_zombies' = Cardinality(counted) + Cardinality(dead \ counted)
    BY <2>1 DEF CountDead
  <2>6. QED
    BY <2>2, <2>4, <2>5
<1>4. TypeOK'
  BY <1>1, <1>2, <1>3, ZombiesFinite DEF TypeOK, bodyVars, mindVars
<1>5. AttacksWhatItFound' /\ Blows' /\ StunClock' /\ KillsCounted'
  BY <1>2 DEF IInv, AttacksWhatItFound, Blows, StunClock, KillsCounted, bodyVars, mindVars
<1>6. ~over
  BY DEF CountDead
<1>7. ClearedIsWon' /\ Counting'
  BY <1>2, <1>3, <1>6 DEF IInv, ClearedIsWon, Counting, bodyVars
<1>8. QED
  BY <1>4, <1>5, <1>7 DEF IInv

(* A blow, whoever it meets, the dying included.                           *)
LEMMA WoundStep ==
  ASSUME IInv, NEW s \in Soldier, NEW hit \in SUBSET Zombie,
         NEW damage \in [hit -> Damages], Wound(s, hit, damage)
  PROVE  IInv'
<1>1. TypeOK
  BY DEF IInv
<1>2. UNCHANGED <<actual_health, stun_age, dead, kills, killer, slowed, mindVars,
                  matchVars, phase, turn, struck>>
  BY DEF Wound
<1>3. \A z \in Zombie : flags'[z] = IF z \in hit THEN RecvDamage(flags[z]) ELSE flags[z]
  BY DEF Wound
<1>4. \A z \in Zombie :
        /\ flags'[z] \in SUBSET Flag
        /\ "attacking" \in flags'[z] => "attacking" \in flags[z]
        /\ "screaming" \in flags'[z] => "screaming" \in flags[z]
        /\ \A x \in {"dying", "is_stunned", "stunned"} : x \in flags'[z] <=> x \in flags[z]
  <2> SUFFICES ASSUME NEW z \in Zombie
               PROVE  /\ flags'[z] \in SUBSET Flag
                      /\ "attacking" \in flags'[z] => "attacking" \in flags[z]
                      /\ "screaming" \in flags'[z] => "screaming" \in flags[z]
                      /\ \A x \in {"dying", "is_stunned", "stunned"} :
                            x \in flags'[z] <=> x \in flags[z]
    OBVIOUS
  <2> DEFINE f == flags[z]
  <2>1. f \in SUBSET Flag /\ flags'[z] \in {f, RecvDamage(f)}
    BY <1>1, <1>3 DEF TypeOK
  <2> HIDE DEF f
  <2>2. /\ RecvDamage(f) \in SUBSET Flag
        /\ "attacking" \notin RecvDamage(f) /\ "screaming" \notin RecvDamage(f)
        /\ \A x \in {"dying", "is_stunned", "stunned"} : x \in RecvDamage(f) <=> x \in f
    BY <2>1 DEF RecvDamage, Flag
  <2>3. QED
    BY <2>1, <2>2 DEF f
<1>5. \A z \in Zombie : "being_hurt" \in flags'[z] => /\ attacker_id'[z] \in Soldier
                                                    /\ "attacking" \notin flags'[z]
  BY <1>3 DEF IInv, Blows, Wound, RecvDamage
<1>6. TypeOK'
  <2>1. damage_recv' \in [Zombie -> Nat] /\ attacker_id' \in [Zombie -> Someone]
    BY <1>1, DamageAssumption DEF TypeOK, Wound, Someone
  <2>2. flags' \in [Zombie -> SUBSET Flag]
    BY <1>4 DEF Wound
  <2>3. QED
    BY <1>1, <1>2, <2>1, <2>2 DEF TypeOK, mindVars, matchVars
<1>7. AttacksWhatItFound'
  BY <1>2, <1>4 DEF IInv, AttacksWhatItFound, mindVars, matchVars
<1>8. Blows'
  BY <1>4, <1>5 DEF IInv, Blows
<1>9. StunClock' /\ KillsCounted'
  BY <1>2, <1>4 DEF IInv, StunClock, KillsCounted
<1>10. ClearedIsWon' /\ Counting'
  BY <1>2 DEF IInv, ClearedIsWon, Counting, matchVars
<1>11. QED
  BY <1>6, <1>7, <1>8, <1>9, <1>10 DEF IInv

(* Smoke stuns, or leaves a stun as it is.                                 *)
LEMMA SmokeStep ==
  ASSUME IInv, NEW hit \in SUBSET Zombie, Smoke(hit)
  PROVE  IInv'
<1>1. TypeOK
  BY DEF IInv
<1>2. UNCHANGED <<bodyVars, mindVars, matchVars, phase, turn, struck>>
  BY DEF Smoke
<1>3. \A z \in Zombie : flags'[z] = IF z \in hit THEN Stun(z) ELSE flags[z]
  BY DEF Smoke
<1>4. \A z \in Zombie :
        /\ flags'[z] \in SUBSET Flag
        /\ "attacking" \in flags'[z] => "attacking" \in flags[z]
        /\ "screaming" \in flags'[z] => "screaming" \in flags[z]
        /\ "being_hurt" \in flags'[z] => "being_hurt" \in flags[z]
        /\ \A x \in {"dying", "stunned"} : x \in flags'[z] <=> x \in flags[z]
        /\ "is_stunned" \in flags[z] => "is_stunned" \in flags'[z]
  <2> SUFFICES ASSUME NEW z \in Zombie
               PROVE  /\ flags'[z] \in SUBSET Flag
                      /\ \A x \in {"attacking", "screaming", "being_hurt"} :
                            x \in flags'[z] => x \in flags[z]
                      /\ \A x \in {"dying", "stunned"} : x \in flags'[z] <=> x \in flags[z]
                      /\ "is_stunned" \in flags[z] => "is_stunned" \in flags'[z]
    OBVIOUS
  <2> DEFINE f == flags[z]
  <2>1. /\ f \in SUBSET Flag
        /\ flags'[z] \in {f, f \cup {"is_stunned"},
                          (Idle(f) \ {"throwing"}) \cup {"is_stunned"}}
    BY <1>1, <1>3 DEF TypeOK, Stun
  <2> HIDE DEF f
  <2>2. ASSUME NEW g \in {f, f \cup {"is_stunned"},
                          (Idle(f) \ {"throwing"}) \cup {"is_stunned"}}
        PROVE  /\ g \in SUBSET Flag
               /\ \A x \in {"attacking", "screaming", "being_hurt"} : x \in g => x \in f
               /\ \A x \in {"dying", "stunned"} : x \in g <=> x \in f
               /\ "is_stunned" \in f => "is_stunned" \in g
    BY <2>1, <2>2 DEF Idle, Flag
  <2>3. QED
    BY <2>1, <2>2 DEF f
<1>5. TypeOK'
  <2>1. flags' \in [Zombie -> SUBSET Flag]
    BY <1>4 DEF Smoke
  <2>2. QED
    BY <1>1, <1>2, <2>1 DEF TypeOK, bodyVars, mindVars, matchVars
<1>6. AttacksWhatItFound' /\ Blows'
  BY <1>2, <1>4 DEF IInv, AttacksWhatItFound, Blows, bodyVars, mindVars, matchVars
<1>7. StunClock' /\ KillsCounted'
  BY <1>2, <1>4 DEF IInv, StunClock, KillsCounted, bodyVars
<1>8. ClearedIsWon' /\ Counting'
  BY <1>2 DEF IInv, ClearedIsWon, Counting, bodyVars, matchVars
<1>9. QED
  BY <1>5, <1>6, <1>7, <1>8 DEF IInv

(* The end of the throwables, and the end of the step.                     *)
LEMMA PhaseStep ==
  ASSUME IInv, ThrowablesDone \/ SoldiersDone
  PROVE  IInv'
<1>1. TypeOK
  BY DEF IInv
<1>2. UNCHANGED <<flags, bodyVars, mindVars, kind, counted, dead_zombies, struck>>
  BY DEF ThrowablesDone, SoldiersDone, matchVars
<1>3. AttacksWhatItFound' /\ Blows' /\ StunClock' /\ KillsCounted'
  BY <1>2 DEF IInv, AttacksWhatItFound, Blows, StunClock, KillsCounted, bodyVars, mindVars
<1>4. phase # "zombies" /\ counted = dead /\ ~over
  BY DEF IInv, Counting, ThrowablesDone, SoldiersDone
<1>5. CASE ThrowablesDone
  <2>1. phase' = "soldiers" /\ UNCHANGED <<standing, over, turn>>
    BY <1>5 DEF ThrowablesDone, matchVars
  <2>2. TypeOK'
    BY <1>1, <1>2, <2>1 DEF TypeOK, bodyVars, mindVars
  <2>3. ClearedIsWon' /\ Counting'
    BY <1>2, <1>4, <2>1 DEF IInv, ClearedIsWon, Counting, bodyVars
  <2>4. QED
    BY <1>3, <2>2, <2>3 DEF IInv
<1>6. CASE SoldiersDone
  <2>1. /\ phase' = "zombies" /\ turn' = {} /\ standing' \in SUBSET Soldier
        /\ over' = Won \/ (standing' = {} /\ over' = TRUE)
    BY <1>6 DEF SoldiersDone
  <2>2. Won <=> dead = Zombie
    <3>1. dead \subseteq Zombie /\ dead_zombies = Cardinality(dead)
      BY <1>1, <1>4 DEF IInv, Counting, TypeOK
    <3>2. Cardinality(dead) = Cardinality(Zombie) => dead = Zombie
      BY <3>1, ZombieAssumption, FS_Subset
    <3>3. QED
      BY <3>1, <3>2 DEF Won
  <2>3. Won \in BOOLEAN
    BY DEF Won
  <2>4. TypeOK'
    BY <1>1, <1>2, <2>1, <2>3 DEF TypeOK, bodyVars, mindVars
  <2>5. ClearedIsWon' /\ Counting'
    BY <1>2, <1>4, <2>1, <2>2 DEF IInv, ClearedIsWon, Counting, bodyVars
  <2>6. QED
    BY <1>3, <2>4, <2>5 DEF IInv
<1>7. QED
  BY <1>5, <1>6

(* Every step keeps the inductive invariant.                               *)
LEMMA NextIInv == IInv /\ [Next]_vars => IInv'
<1> SUFFICES ASSUME IInv, [Next]_vars PROVE IInv'
  OBVIOUS
<1>1. ASSUME NEW z \in Zombie, Simulate(z) \/ SimulateDie(z) PROVE IInv'
  BY <1>1, SimulateStep, DieStep
<1>2. CASE CountDead
  BY <1>2, CountStep
<1>3. ASSUME NEW s \in Soldier, NEW hit \in SUBSET Zombie, Explode(s, hit) PROVE IInv'
  BY <1>3, WoundStep DEF Explode
<1>4. ASSUME NEW hit \in SUBSET Zombie, Smoke(hit) PROVE IInv'
  BY <1>4, SmokeStep
<1>5. ASSUME NEW s \in Soldier, NEW z \in Zombie, Shoot(s, z) PROVE IInv'
  <2>1. {z} \in SUBSET Zombie
    OBVIOUS
  <2>2. QED
    BY <1>5, <2>1, WoundStep DEF Shoot
<1>6. CASE ThrowablesDone \/ SoldiersDone
  BY <1>6, PhaseStep
<1>7. CASE UNCHANGED vars
  BY <1>7 DEF vars, bodyVars, mindVars, matchVars, IInv, TypeOK, AttacksWhatItFound,
              KillsCounted, ClearedIsWon, Blows, StunClock, Counting
<1>8. QED
  BY <1>1, <1>2, <1>3, <1>4, <1>5, <1>6, <1>7 DEF Next

(* The inductive invariant holds throughout a match.                       *)
LEMMA Inductive == Spec => []IInv
  BY InitIInv, NextIInv, PTL DEF Spec
------------------------------------------------------------------------------
(* The variables keep their types.                                         *)
THEOREM Typed == Spec => []TypeOK
<1>1. IInv => TypeOK
  BY DEF IInv
<1>2. QED
  BY <1>1, Inductive, PTL

(* simulateAttack never dereferences a null victim, and hits whom the      *)
(* zombie last found in reach, but for a Venom beside a witch.             *)
THEOREM VictimsInReach == Spec => []AttacksWhatItFound
<1>1. IInv => AttacksWhatItFound
  BY DEF IInv
<1>2. QED
  BY <1>1, Inductive, PTL

(* Each death is one kill of one soldier.                                  *)
THEOREM EveryDeathOneKill == Spec => []KillsCounted
<1>1. IInv => KillsCounted
  BY DEF IInv
<1>2. QED
  BY <1>1, Inductive, PTL

(* A ClearTheZone match is over exactly when it should be.                 *)
THEOREM WonWhenCleared == Spec => []ClearedIsWon
<1>1. IInv => ClearedIsWon
  BY DEF IInv
<1>2. QED
  BY <1>1, Inductive, PTL

(* Smoke does not prolong a stun.                                          *)
THEOREM StunIsBounded == Spec => []StunWearsOff
<1>1. IInv => StunWearsOff
  BY DEF IInv, StunClock, StunWearsOff
<1>2. QED
  BY <1>1, Inductive, PTL

(* A zombie that was hit does not strike in its next turn.                 *)
THEOREM HitZombiesDoNotStrike == Spec => BlowDisarms
<1> DEFINE Disarmed == \A z \in Zombie : (z \in turn' \ turn /\ Hurt(z)) => struck' = {}
<1>1. ASSUME IInv, NEW z \in Zombie, Hurt(z), NEW o \in Zombie, z \in turn' \ turn,
             Simulate(o)
      PROVE  struck' = {}
  <2>1. z = o
    BY <1>1 DEF Simulate, HasTurn
  <2>2. "attacking" \notin flags[z]
    BY <1>1 DEF IInv, Blows, Hurt
  <2>3. "attacking" \notin AfterDamage(z)
    BY <1>1, <2>1, <2>2, FirstPart DEF Simulate
  <2>4. QED
    BY <1>1, <2>1, <2>3 DEF Simulate, Strikes
<1>2. ASSUME NEW z \in Zombie, z \in turn' \ turn, Next
      PROVE  \E o \in Zombie : Simulate(o) \/ SimulateDie(o)
  BY <1>2 DEF Next, CountDead, Explode, Wound, Smoke, ThrowablesDone, Shoot, SoldiersDone
<1>3. IInv /\ [Next]_vars => [Disarmed]_vars
  BY <1>1, <1>2 DEF SimulateDie, vars
<1>4. QED
  BY <1>3, Inductive, PTL DEF Spec, BlowDisarms
==============================================================================
