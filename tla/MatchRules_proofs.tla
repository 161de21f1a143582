-------------------------- MODULE MatchRules_proofs --------------------------
(***************************************************************************)
(* The rules of a match for any set of soldiers, any number of lives and   *)
(* both modes: the types, the counters that decide the match, the limit    *)
(* on revivals, and what a soldier on the ground cannot do.                *)
(***************************************************************************)
EXTENDS MatchRules, FiniteSetTheorems, TLAPS

DeadSoldiers == {s \in soldiers : ~alive[s]}

(* counted is never ahead of the deaths, and level with them between two   *)
(* steps; nothing ever makes a soldier alive again.                        *)
Counters ==
    /\ total = Cardinality(soldiers)
    /\ dead = Cardinality(counted)
    /\ counted \subseteq DeadSoldiers
    /\ phase = "command" => counted = DeadSoldiers

IInv == TypeOK /\ Counters /\ RevivedAtMost /\ OverWhenAllDead

(* Every set of soldiers is finite.                                        *)
LEMMA SoldiersFinite ==
  ASSUME NEW S \in SUBSET Soldier
  PROVE  IsFiniteSet(S) /\ Cardinality(S) \in Nat
  BY SoldierAssumption, FS_Subset, FS_CardinalityType

(* An empty match satisfies the inductive invariant.                       *)
LEMMA InitIInv == Init => IInv
<1> SUFFICES ASSUME Init PROVE IInv
  OBVIOUS
<1>1. TypeOK
  BY DEF Init, TypeOK
<1>2. Counters
  BY FS_EmptySet DEF Init, Counters, DeadSoldiers
<1>3. RevivedAtMost /\ OverWhenAllDead
  BY LivesAssumption DEF Init, RevivedAtMost, OverWhenAllDead
<1>4. QED
  BY <1>1, <1>2, <1>3 DEF IInv
------------------------------------------------------------------------------
(* Commands and hits leave a soldier with flags.                           *)
LEMMA CommandFlags ==
  ASSUME TypeOK, NEW s \in Soldier, NEW k \in Commands
  PROVE  Commanded(k, s) \in SUBSET Flag /\ RecvDamage(flags[s]) \in SUBSET Flag
<1> DEFINE f == flags[s]
<1>1. f \in SUBSET Flag
  BY DEF TypeOK
<1>2. \A down : StartMove(f, down) \in SUBSET Flag
  BY <1>1 DEF StartMove, Flag, Busy
<1>3. StartShoot(f) \in SUBSET Flag /\ StartReload(f) \in SUBSET Flag
  BY <1>1 DEF StartShoot, StartReload, Flag, Busy
<1>4. StartRevive(f) \in SUBSET Flag /\ StartThrow(f) \in SUBSET Flag
  BY <1>1 DEF StartRevive, StartThrow, Flag, Busy
<1>5. Idle(f) \in SUBSET Flag /\ f \cup {"changing"} \in SUBSET Flag
  BY <1>1 DEF Idle, Flag
<1>6. RecvDamage(f) \in SUBSET Flag
  BY <1>1 DEF RecvDamage, Flag, Busy
<1>7. k \in Command
  BY CommandsAssumption
<1>8. QED
  BY <1>1, <1>2, <1>3, <1>4, <1>5, <1>6, <1>7 DEF Commanded, Command

(* So does each activity of a soldier's turn.                              *)
LEMMA ActivityFlags ==
  ASSUME NEW f \in SUBSET Flag, NEW s, NEW b
  PROVE  /\ AfterDie(f, b) \in SUBSET Flag
         /\ AfterChange(f) \in SUBSET Flag
         /\ AfterDamage(f, b) \in SUBSET Flag
         /\ AfterReload(f, b) \in SUBSET Flag
         /\ AfterShoot(f, b) \in SUBSET Flag
         /\ AfterThrow(f, b) \in SUBSET Flag
<1>1. AfterDie(f, b) \in SUBSET Flag /\ AfterChange(f) \in SUBSET Flag
  BY DEF AfterDie, AfterChange, Idle
<1>2. AfterDamage(f, b) \in SUBSET Flag
  BY DEF AfterDamage, Idle
<1>3. AfterReload(f, b) \in SUBSET Flag /\ AfterShoot(f, b) \in SUBSET Flag
  BY DEF AfterReload, AfterShoot, StartReload, Flag, Busy
<1>4. AfterThrow(f, b) \in SUBSET Flag
  BY DEF AfterThrow, Flag, Busy
<1>5. QED
  BY <1>1, <1>2, <1>3, <1>4

(* A soldier on the ground takes its turn without any activity.            *)
LEMMA DownedIdle ==
  ASSUME NEW s \in Soldier, dying[s], NEW done, NEW hasAmmo
  PROVE  LET f1 == AfterChange(AfterDie(flags[s], dying[s]))
             f3 == AfterReload(AfterDamage(f1, lethal[s]), done)
         IN /\ f1 \cap Busy = {}
            /\ f3 = f1
            /\ AfterShoot(f3, hasAmmo) = f1
<1> DEFINE f1 == AfterChange(AfterDie(flags[s], dying[s]))
<1>1. f1 \cap Busy = {}
  BY DEF AfterChange, AfterDie, Idle
<1>2. "being_hurt" \notin f1 /\ "reloading" \notin f1 /\ "shooting" \notin f1
  BY <1>1 DEF Busy
<1> HIDE DEF f1
<1>3. AfterDamage(f1, lethal[s]) = f1
  BY <1>2 DEF AfterDamage
<1>4. AfterReload(f1, done) = f1 /\ AfterShoot(f1, hasAmmo) = f1
  BY <1>2 DEF AfterReload, AfterShoot
<1>5. f1 \cap Busy = {} /\ AfterReload(AfterDamage(f1, lethal[s]), done) = f1
      /\ AfterShoot(AfterReload(AfterDamage(f1, lethal[s]), done), hasAmmo) = f1
  BY <1>1, <1>3, <1>4
<1>6. QED
  BY <1>5 DEF f1

(* A turn keeps the types, never makes anybody alive, and revives only     *)
(* those who have a life left.                                             *)
LEMMA TurnKeeps ==
  ASSUME TypeOK, RevivedAtMost, NEW s \in Soldier, NEW expired, NEW done,
         NEW hasAmmo, NEW elapsed, NEW reach \in SUBSET Soldier,
         Turn(s, expired, done, hasAmmo, elapsed, reach)
  PROVE  /\ flags' \in [Soldier -> SUBSET Flag]
         /\ dying' \in [Soldier -> BOOLEAN]
         /\ alive' \in [Soldier -> BOOLEAN]
         /\ revived' \in [Soldier -> Nat]
         /\ acted' \in [Soldier -> SUBSET {"reviving", "shooting", "moving", "throwing"}]
         /\ \A o \in Soldier : alive'[o] => alive[o]
         /\ RevivedAtMost'
<1> DEFINE f1 == AfterChange(AfterDie(flags[s], dying[s]))
           f2 == AfterDamage(f1, lethal[s])
           f3 == AfterReload(f2, done)
           f4 == AfterShoot(f3, hasAmmo)
           f5 == AfterThrow(f4, elapsed)
           down == {o \in reach : "reviving" \in f1 /\ dying[o]}
           up == {o \in down : Revivable(o)}
<1>1. f1 \in SUBSET Flag
  BY ActivityFlags DEF TypeOK
<1>2. f5 \in SUBSET Flag
  <2>1. f2 \in SUBSET Flag
    BY <1>1, ActivityFlags
  <2>2. f3 \in SUBSET Flag
    BY <2>1, ActivityFlags
  <2>3. f4 \in SUBSET Flag
    BY <2>2, ActivityFlags
  <2>4. QED
    BY <2>3, ActivityFlags
<1>3. \A o \in Soldier : Idle(flags[o]) \in SUBSET Flag
  BY DEF TypeOK, Idle
<1>4. flags' = [o \in Soldier |-> IF o = s THEN f5
                                  ELSE IF o \in up THEN Idle(flags[o])
                                  ELSE flags[o]]
  BY DEF Turn
<1>5. flags' \in [Soldier -> SUBSET Flag]
  BY <1>2, <1>3, <1>4 DEF TypeOK
<1>6. dying' = [o \in Soldier |-> IF o = s THEN OnGround(s, f1)
                                  ELSE dying[o] /\ o \notin up]
  BY DEF Turn
<1>7. dying' \in [Soldier -> BOOLEAN]
  <2>1. OnGround(s, f1) \in BOOLEAN
    BY DEF OnGround
  <2>2. QED
    BY <1>6, <2>1, Zenon
<1>8. alive' = [o \in Soldier |->
                  IF o = s THEN alive[s] /\ ~(dying[s] /\ Bleeds(s, expired))
                  ELSE alive[o] /\ o \notin down \ up]
  BY DEF Turn
<1>9. alive' \in [Soldier -> BOOLEAN] /\ \A o \in Soldier : alive'[o] => alive[o]
  BY <1>8, Zenon
<1>10. revived' = [o \in Soldier |-> IF o \in up THEN revived[o] + 1 ELSE revived[o]]
  BY DEF Turn
<1>11. revived' \in [Soldier -> Nat] /\ RevivedAtMost'
  <2>1. \A o \in up : revived[o] <= Lives
    BY DEF Revivable
  <2>2. revived' \in [Soldier -> Nat]
    BY <1>10 DEF TypeOK
  <2>3. ASSUME NEW o \in Soldier PROVE revived'[o] <= Lives + 1
    BY <1>10, <2>1, <2>3, LivesAssumption DEF TypeOK, RevivedAtMost
  <2>4. QED
    BY <2>2, <2>3 DEF RevivedAtMost
<1>12. acted' \in [Soldier -> SUBSET {"reviving", "shooting", "moving", "throwing"}]
  <2>1. acted' = [acted EXCEPT ![s] = (f1 \cap {"reviving"}) \cup (f3 \cap {"shooting"})
                                      \cup (f4 \cap {"moving", "throwing"})]
    BY DEF Turn
  <2>2. QED
    BY <2>1 DEF TypeOK
<1>13. QED
  BY <1>5, <1>7, <1>9, <1>11, <1>12
------------------------------------------------------------------------------
(* A step that moves neither counters nor soldiers out of their places     *)
(* and makes nobody alive keeps the counters, outside the command phase.   *)
LEMMA CountersStay ==
  ASSUME Counters, TypeOK, phase' # "command",
         UNCHANGED <<soldiers, counted, total, dead>>,
         \A s \in Soldier : alive'[s] => alive[s]
  PROVE  Counters'
<1>1. counted' \subseteq DeadSoldiers'
  BY DEF Counters, DeadSoldiers, TypeOK
<1>2. QED
  BY <1>1 DEF Counters

(* Counting the dead brings counted level with the deaths, and decides the *)
(* match by comparing two cardinalities.                                   *)
LEMMA CountKeeps == IInv /\ Count => IInv'
<1> SUFFICES ASSUME IInv, Count PROVE IInv'
  OBVIOUS
<1> USE DEF IInv
<1>1. counted' = DeadSoldiers /\ counted \cap NewlyDead = {}
  BY DEF Count, NewlyDead, Counters, DeadSoldiers
<1>2. DeadSoldiers' = DeadSoldiers /\ soldiers' = soldiers
  BY DEF Count, DeadSoldiers, soldierVars
<1>3. dead' = Cardinality(DeadSoldiers)
  <2>1. counted \in SUBSET Soldier /\ NewlyDead \in SUBSET Soldier
    BY DEF NewlyDead, TypeOK
  <2>2. IsFiniteSet(counted) /\ IsFiniteSet(NewlyDead)
    BY <2>1, SoldiersFinite
  <2>3. Cardinality(counted) \in Nat /\ Cardinality(NewlyDead) \in Nat
    BY <2>1, SoldiersFinite
  <2>4. Cardinality(counted \cup NewlyDead)
           = Cardinality(counted) + Cardinality(NewlyDead) - Cardinality(counted \cap NewlyDead)
    BY <2>2, FS_Union
  <2>5. Cardinality(counted \cap NewlyDead) = 0
    BY <1>1, FS_EmptySet
  <2>6. counted' = counted \cup NewlyDead /\ dead' = dead + Cardinality(NewlyDead)
    BY DEF Count, Tally
  <2>7. QED
    BY <1>1, <2>3, <2>4, <2>5, <2>6 DEF Counters
<1>4. Counters'
  <2>1. total' = total
    BY DEF Count
  <2>2. QED
    BY <1>1, <1>2, <1>3, <2>1 DEF Counters
<1>5. TypeOK'
  <2>1. dead' \in Nat /\ counted' \in SUBSET Soldier
    <3>1. DeadSoldiers \in SUBSET Soldier
      BY DEF DeadSoldiers, TypeOK
    <3>2. QED
      BY <1>1, <1>3, <3>1, SoldiersFinite
  <2>2. over' \in BOOLEAN
    BY DEF Count
  <2>3. QED
    BY <2>1, <2>2 DEF Count, TypeOK, soldierVars
<1>6. RevivedAtMost'
  BY DEF Count, RevivedAtMost, soldierVars
<1>7. OverWhenAllDead'
  <2>1. PICK cleared \in Outcomes(mode = "CLEAR_THE_ZONE") :
           over' = (total > 0 /\ (cleared \/ Lost(dead')))
    BY DEF Count
  <2>2. mode = "SURVIVAL" => cleared = FALSE
    BY <2>1 DEF Outcomes
  <2>3. DeadSoldiers \subseteq soldiers /\ soldiers \in SUBSET Soldier
    BY DEF DeadSoldiers, TypeOK
  <2>4. IsFiniteSet(soldiers) /\ Cardinality(soldiers) \in Nat
    BY <2>3, SoldiersFinite
  <2>5. Lost(dead') <=> DeadSoldiers = soldiers
    BY <1>3, <2>3, <2>4, FS_Subset DEF Lost, Counters
  <2>6. soldiers # {} => total > 0
    BY <2>4, FS_EmptySet DEF Counters
  <2>7. DeadSoldiers = soldiers <=> \A s \in soldiers : ~alive[s]
    BY DEF DeadSoldiers
  <2>8. UNCHANGED <<alive, soldiers, mode>>
    BY DEF Count, soldierVars
  <2>9. QED
    BY <2>1, <2>2, <2>5, <2>6, <2>7, <2>8 DEF OverWhenAllDead
<1>8. QED
  BY <1>4, <1>5, <1>6, <1>7

(* The inductive invariant is kept by every step.                          *)
LEMMA NextIInv == IInv /\ [Next]_vars => IInv'
<1> SUFFICES ASSUME IInv, [Next]_vars PROVE IInv'
  OBVIOUS
<1> USE DEF IInv
<1>1. CASE NoCommand
  <2>1. TypeOK' /\ RevivedAtMost' /\ OverWhenAllDead'
    BY <1>1 DEF NoCommand, AfterCommand, TypeOK, RevivedAtMost, OverWhenAllDead, soldierVars, counterVars
  <2>2. Counters'
    BY <1>1, CountersStay DEF NoCommand, AfterCommand, soldierVars, counterVars
  <2>3. QED
    BY <2>1, <2>2
<1>2. ASSUME NEW s \in Soldier, NEW k \in Commands, ExecuteCommand(s, k)
      PROVE  IInv'
  <2>1. flags' \in [Soldier -> SUBSET Flag]
    BY <1>2, CommandFlags DEF ExecuteCommand, TypeOK
  <2>2. alive' = [alive EXCEPT ![s] = @ /\ k # "exit"]
    BY <1>2 DEF ExecuteCommand
  <2>3. alive' \in [Soldier -> BOOLEAN] /\ \A o \in Soldier : alive'[o] => alive[o]
    BY <2>2, Zenon DEF TypeOK
  <2>4. TypeOK'
    BY <1>2, <2>1, <2>3 DEF ExecuteCommand, AfterCommand, TypeOK, counterVars
  <2>5. RevivedAtMost' /\ OverWhenAllDead'
    BY <1>2 DEF ExecuteCommand, AfterCommand, RevivedAtMost, OverWhenAllDead, counterVars
  <2>6. Counters'
    BY <1>2, <2>3, CountersStay DEF ExecuteCommand, AfterCommand, counterVars
  <2>7. QED
    BY <2>4, <2>5, <2>6
<1>3. ASSUME NEW s \in Soldier, Join(s)
      PROVE  IInv'
  <2>1. soldiers \in SUBSET Soldier /\ IsFiniteSet(soldiers) /\ s \notin soldiers
    BY <1>3, SoldiersFinite DEF Join, TypeOK
  <2>2. total' = Cardinality(soldiers')
    BY <1>3, <2>1, FS_AddElement DEF Join, Counters
  <2>3. Counters'
    BY <1>3, <2>2 DEF Join, AfterCommand, Counters, DeadSoldiers, soldierVars
  <2>4. TypeOK' /\ RevivedAtMost' /\ OverWhenAllDead'
    BY <1>3 DEF Join, AfterCommand, TypeOK, RevivedAtMost, OverWhenAllDead, soldierVars
  <2>5. QED
    BY <2>3, <2>4
<1>4. CASE Hits
  <2>1. flags' \in [Soldier -> SUBSET Flag]
    <3>1. \A s \in Soldier : RecvDamage(flags[s]) \in SUBSET Flag
      BY DEF TypeOK, RecvDamage, Flag, Busy
    <3>2. QED
      BY <1>4, <3>1 DEF Hits, TypeOK
  <2>2. lethal' \in [Soldier -> BOOLEAN]
    <3>1. PICK hit, kills :
             lethal' = [s \in Soldier |-> IF s \in hit THEN s \in kills ELSE lethal[s]]
      BY <1>4 DEF Hits
    <3>2. ASSUME NEW s \in Soldier
          PROVE  (IF s \in hit THEN s \in kills ELSE lethal[s]) \in BOOLEAN
      <4>1. (s \in kills) \in BOOLEAN
        OBVIOUS
      <4>2. lethal[s] \in BOOLEAN
        BY DEF TypeOK
      <4>3. QED
        BY <4>1, <4>2, Zenon
    <3>3. QED
      BY <3>1, <3>2, Zenon
  <2>3. TypeOK'
    BY <1>4, <2>1, <2>2 DEF Hits, TypeOK, counterVars
  <2>4. RevivedAtMost' /\ OverWhenAllDead'
    BY <1>4 DEF Hits, RevivedAtMost, OverWhenAllDead, counterVars
  <2>5. Counters'
    BY <1>4, CountersStay DEF Hits, counterVars
  <2>6. QED
    BY <2>3, <2>4, <2>5
<1>5. ASSUME NEW s \in Soldier, Simulate(s)
      PROVE  IInv'
  <2>1. PICK expired, done, hasAmmo, elapsed, reach :
           /\ reach \in SUBSET Soldier
           /\ Turn(s, expired, done, hasAmmo, elapsed, reach)
    <3>1. soldiers \in SUBSET Soldier
      BY DEF TypeOK
    <3>2. QED
      BY <1>5, <3>1 DEF Simulate
  <2>2. /\ flags' \in [Soldier -> SUBSET Flag]
        /\ dying' \in [Soldier -> BOOLEAN]
        /\ alive' \in [Soldier -> BOOLEAN]
        /\ revived' \in [Soldier -> Nat]
        /\ acted' \in [Soldier -> SUBSET {"reviving", "shooting", "moving", "throwing"}]
        /\ \A o \in Soldier : alive'[o] => alive[o]
        /\ RevivedAtMost'
    BY <2>1, TurnKeeps
  <2>3. TypeOK'
    BY <1>5, <2>2 DEF Simulate, TypeOK, counterVars
  <2>4. phase' = "soldiers" /\ UNCHANGED counterVars
    BY <1>5 DEF Simulate
  <2>5. Counters'
    BY <2>2, <2>4, CountersStay DEF counterVars
  <2>6. OverWhenAllDead'
    BY <2>4 DEF OverWhenAllDead
  <2>7. QED
    BY <2>2, <2>3, <2>5, <2>6
<1>6. CASE AllSimulated
  <2>1. TypeOK' /\ RevivedAtMost' /\ OverWhenAllDead'
    BY <1>6 DEF AllSimulated, TypeOK, RevivedAtMost, OverWhenAllDead, soldierVars, counterVars
  <2>2. Counters'
    BY <1>6, CountersStay DEF AllSimulated, soldierVars, counterVars
  <2>3. QED
    BY <2>1, <2>2
<1>7. CASE Count
  BY <1>7, CountKeeps
<1>8. CASE UNCHANGED vars
  BY <1>8 DEF vars, soldierVars, counterVars, TypeOK, Counters, DeadSoldiers,
              RevivedAtMost, OverWhenAllDead
<1>9. QED
  BY <1>1, <1>2, <1>3, <1>4, <1>5, <1>6, <1>7, <1>8 DEF Next, Step

(* The inductive invariant holds in every reachable state of a match.      *)
THEOREM Invariance == Spec => []IInv
  BY InitIInv, NextIInv, PTL DEF Spec

(* A match's state stays within its types.                                 *)
THEOREM TypeCorrect == Spec => []TypeOK
<1>1. IInv => TypeOK
  BY DEF IInv
<1>2. QED
  BY <1>1, Invariance, PTL

(* Every death is counted once, whatever order falls, revivals, deaths and *)
(* departures come in.                                                     *)
THEOREM DeathsAreCountedOnce == Spec => []CountersAgree
<1>1. IInv => CountersAgree
  BY DEF IInv, Counters, CountersAgree, DeadSoldiers
<1>2. QED
  BY <1>1, Invariance, PTL

(* The match ends with its last soldier: in that very step, and in         *)
(* Survival not before.                                                    *)
THEOREM EndsWithTheLastSoldier == Spec => []OverWhenAllDead
<1>1. IInv => OverWhenAllDead
  BY DEF IInv
<1>2. QED
  BY <1>1, Invariance, PTL

(* Nobody is revived more than LIVES + 1 times.                            *)
THEOREM RevivalsAreLimited == Spec => []RevivedAtMost
<1>1. IInv => RevivedAtMost
  BY DEF IInv
<1>2. QED
  BY <1>1, Invariance, PTL
------------------------------------------------------------------------------
(* Only the turn of s itself adds s to turn, and only in that turn.        *)
LEMMA OneTurnAtATime ==
  ASSUME [Next]_vars, NEW s, s \in turn' \ turn
  PROVE  s \in Soldier /\ Simulate(s)
  BY DEF Next, Step, NoCommand, ExecuteCommand, Join, Hits, Simulate,
         AllSimulated, Count, vars

(* A soldier that starts its turn on the ground does nothing in it.        *)
THEOREM DownedSoldiersDoNothing == Spec => DownedDoNothing
<1>1. IInv /\ [Next]_vars =>
        [\A s \in Soldier :
          (s \in turn' \ turn /\ dying[s]) => acted'[s] = {}]_vars
  <2> SUFFICES ASSUME IInv, [Next]_vars,
                      NEW s \in Soldier, s \in turn' \ turn, dying[s]
               PROVE  acted'[s] = {}
    OBVIOUS
  <2>1. Simulate(s)
    BY OneTurnAtATime
  <2>2. PICK expired, done, hasAmmo, elapsed, reach :
           Turn(s, expired, done, hasAmmo, elapsed, reach)
    BY <2>1 DEF Simulate
  <2> DEFINE f1 == AfterChange(AfterDie(flags[s], dying[s]))
             f3 == AfterReload(AfterDamage(f1, lethal[s]), done)
             f4 == AfterShoot(f3, hasAmmo)
  <2>4. f1 \cap Busy = {} /\ f3 = f1 /\ f4 = f1
    BY DownedIdle
  <2>5. acted'[s] = (f1 \cap {"reviving"}) \cup (f3 \cap {"shooting"})
                    \cup (f4 \cap {"moving", "throwing"})
    BY <2>2 DEF Turn, IInv, TypeOK
  <2>6. QED
    BY <2>4, <2>5 DEF Busy
<1>2. QED
  BY <1>1, Invariance, PTL DEF Spec, DownedDoNothing

(* Whoever gets up was reached by a comrade that stood and was reviving.   *)
THEOREM NobodyGetsUpAlone == Spec => NobodyRisesAlone
<1>1. IInv /\ [Next]_vars =>
        [\A s \in Soldier :
          (dying[s] /\ ~dying'[s]) =>
             \E o \in soldiers \ {s} : /\ turn' \ turn = {o}
                                      /\ ~dying[o]
                                      /\ "reviving" \in acted'[o]]_vars
  <2> SUFFICES ASSUME IInv, [Next]_vars,
                      NEW s \in Soldier, dying[s], ~dying'[s]
               PROVE  \E o \in soldiers \ {s} : /\ turn' \ turn = {o}
                                                /\ ~dying[o]
                                                /\ "reviving" \in acted'[o]
    OBVIOUS
  <2>1. PICK o \in Soldier : Simulate(o)
    BY DEF Next, Step, NoCommand, ExecuteCommand, Join, Hits, AllSimulated,
           Count, vars, soldierVars
  <2>2. PICK expired, done, hasAmmo, elapsed, reach :
           Turn(o, expired, done, hasAmmo, elapsed, reach)
    BY <2>1 DEF Simulate
  <2> DEFINE f1 == AfterChange(AfterDie(flags[o], dying[o]))
             f3 == AfterReload(AfterDamage(f1, lethal[o]), done)
             f4 == AfterShoot(f3, hasAmmo)
             up == {p \in {p \in reach : "reviving" \in f1 /\ dying[p]} : Revivable(p)}
  <2>3. dying' = [p \in Soldier |-> IF p = o THEN OnGround(o, f1)
                                    ELSE dying[p] /\ p \notin up]
    BY <2>2 DEF Turn
  <2>4. s # o /\ s \in up
    BY <2>3 DEF OnGround
  <2>5. "reviving" \in f1 /\ o \in soldiers
    BY <2>1, <2>4 DEF Simulate
  <2>6. ~dying[o]
    <3>1. SUFFICES ASSUME dying[o] PROVE FALSE
      OBVIOUS
    <3>2. f1 \cap Busy = {}
      BY <3>1, DownedIdle
    <3>3. QED
      BY <2>5, <3>2 DEF Busy
  <2>7. "reviving" \in acted'[o]
    <3>1. acted'[o] = (f1 \cap {"reviving"}) \cup (f3 \cap {"shooting"})
                      \cup (f4 \cap {"moving", "throwing"})
      BY <2>2 DEF Turn, IInv, TypeOK
    <3>2. QED
      BY <2>5, <3>1
  <2>8. turn' \ turn = {o}
    BY <2>1 DEF Simulate
  <2>9. QED
    BY <2>4, <2>5, <2>6, <2>7, <2>8
<1>2. QED
  BY <1>1, Invariance, PTL DEF Spec, NobodyRisesAlone
==============================================================================
