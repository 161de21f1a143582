-------------------------------- MODULE Arena --------------------------------
(***************************************************************************)
(* One soldier on the map of TorusPosition: it walks, shoots and reloads   *)
(* among zombies that stand where setRandomPosition put them, some before  *)
(* the match began and some, in a Survival, during it.  Where the          *)
(* rest of the team is (the mass centre), how long a step lasts (the       *)
(* distance walked, the reach of a bullet) and which zombies the shots     *)
(* kill are inputs.  A damage is a fraction: a numerator over Reach, or    *)
(* the number of bodies a Scout's bullet has passed.                       *)
(***************************************************************************)
EXTENDS TorusPosition, FiniteSets

CONSTANTS Zombie,      \* the zombies' ids, which order the map of zombies
          Late,        \* the ones that add_zombies brings
          HalfWidth, HalfHeight,  \* of every actor
          Columns, Rows,  \* the coordinates at which zombies are placed
          Centers,     \* where the mass centre of the team may be
          Kinds,       \* the weapons: subset of {"IDF", "P90", "Scout"}
          Strides,     \* distances a soldier may walk in a step
          Reach,       \* bullet_speed * time
          HalfScope,   \* scope * HALF
          Ammo,        \* the magazine
          TeamRange    \* TEAM_RANGE of soldier.cpp

ASSUME ZombieAssumption == /\ Zombie \subseteq Nat /\ IsFiniteSet(Zombie)
                           /\ Late \subseteq Zombie
ASSUME SizeAssumption ==
    /\ {HalfWidth, HalfHeight, Reach, HalfScope, Ammo, TeamRange} \subseteq Nat
    /\ Strides \subseteq 0..DimX /\ Centers \subseteq 0..DimX
    /\ Columns \subseteq 0..DimX /\ Rows \subseteq 1..(DimY - 1)
    /\ 0 < HalfHeight /\ 2 * HalfHeight <= DimY
    /\ Kinds \subseteq {"IDF", "P90", "Scout"}

VARIABLES soldier,   \* Soldier::position
          dirX,      \* Soldier::dir_x
          weapon,    \* the subclass of Weapon
          ammo,      \* actual_ammo
          zombies,   \* the zombies in the map and their positions
          thread,    \* the Game thread: "steps", "spins" in setRandomPosition,
                     \* or "ended" by an exception
          dying,     \* the zombies that are dying or dead
          shot       \* history: the hits of the last shot, zombie -> damage

vars == <<soldier, dirX, weapon, ammo, zombies, thread, dying, shot>>

NoHit == [z \in {} |-> 0]

Placed(x, y) == MakePosition(x, y, HalfWidth, HalfHeight)

(* Where setRandomPosition may put a zombie: it does not look at the       *)
(* others, and a soldier's does not look at the zombies.                   *)
Places == {Placed(x, y) : x \in Columns, y \in Rows}

Init ==
    /\ \E x \in 0..DimX, y \in Rows : soldier = Placed(x, y)
    /\ dirX = RIGHT
    /\ weapon \in Kinds
    /\ ammo = Ammo
    /\ zombies \in [Zombie \ Late -> Places]
    /\ thread = "steps"
    /\ dying = {}
    /\ shot = NoHit

------------------------------------------------------------------------------
(* Survival::add_zombies and Zombie::setRandomPosition *)

(* The position a zombie is constructed with: on a map without extent.     *)
NoMap == INSTANCE TorusPosition WITH DimX <- 0, DimY <- 0
Unset == NoMap!MakePosition(0, 0, HalfWidth, HalfHeight)

(* Mutant of NeverPlaced: only the rows are compared.                      *)
NeverPlacedByRow == Reaches(NoMap!YArea(Unset), YArea(soldier))

(* setRandomPosition draws places until none collides with a soldier, but  *)
(* tests the zombie's position in place of the one drawn: whether the loop *)
(* ends depends on where the soldier stands alone.                         *)
NeverPlaced == AreasCollide(NoMap!XArea(Unset), NoMap!YArea(Unset),
                            XArea(soldier), YArea(soldier))

AddZombies ==
    /\ thread = "steps"
    /\ Late \cap DOMAIN zombies = {}
    /\ thread' = IF NeverPlaced /\ Late # {} THEN "spins" ELSE "steps"
    /\ \E added \in [Late -> Places] :
          zombies' = IF thread' = "spins" THEN zombies
                     ELSE [z \in Zombie |-> IF z \in Late THEN added[z] ELSE zombies[z]]
    /\ UNCHANGED <<soldier, dirX, weapon, ammo, dying>>
    /\ shot' = NoHit

(* The loop goes round.                                                    *)
Spin == thread = "spins" /\ UNCHANGED vars

------------------------------------------------------------------------------
(* Soldier::simulateMove *)

Live == DOMAIN zombies \ dying

(* The next x coordinate takes the soldier away from the mass centre and   *)
(* out of the team's range; the distances are not taken around the map.    *)
LeavesTeam(x, center) ==
    /\ AbsDiff(x, center) >= TeamRange
    /\ AbsDiff(x, center) > AbsDiff(soldier.x, center)

(* Mutant of Blocked: the place left is tested, not the place entered.     *)
BlockedHere(next) == \E z \in Live : Collides(soldier, zombies[z])

Blocked(next) == \E z \in Live : Collides(next, zombies[z])

MoveTo(x, y, center) ==
    /\ thread = "steps"
    /\ soldier' = IF LeavesTeam(x, center) \/ Blocked(Placed(x, y))
                  THEN soldier ELSE Placed(x, y)
    /\ shot' = NoHit
    /\ UNCHANGED <<weapon, ammo, zombies, thread, dying>>

WalkX(dir, distance, center) ==
    /\ dirX' = dir
    /\ MoveTo(NextX(soldier, dir, distance), soldier.y, center)

WalkY(dir, distance, center) ==
    /\ MoveTo(soldier.x, NextY(soldier, dir, distance), center)
    /\ UNCHANGED dirX

------------------------------------------------------------------------------
(* Weapon::shoot *)

Distance(z) == AbsDiff(soldier.x, zombies[z].x)

(* The part of the soldier's row that a bullet covers: it stops at the     *)
(* edge of the map.                                                        *)
LineOfFire ==
    LET far == soldier.x + dirX * Reach
        left == IF dirX = RIGHT THEN soldier.x ELSE IF far < 0 THEN 0 ELSE far
        right == IF dirX = LEFT THEN soldier.x
                 ELSE IF far > DimX THEN DimX ELSE far
    IN {z \in DOMAIN zombies : InHitbox(zombies[z], left, right, soldier.y - HalfScope,
                                soldier.y + HalfScope)}

Targets == LineOfFire \cap Live

(* Mutant of Nearer: the last one found wins.                              *)
NearerOrLater(z, o) == z >= o

(* z is preferred to o: nearer, or as near and earlier in the map.         *)
Nearer(z, o) == \/ Distance(z) < Distance(o)
                \/ Distance(z) = Distance(o) /\ z <= o

(* IdfWeapon, P90Weapon: a target that is exactly at the bullet's reach    *)
(* sets collision but not victim_id.                                       *)
VictimUnset == Targets # {} /\ \A z \in Targets : Distance(z) >= Reach

(* The nearest target.  An id that was never set is whatever was on the    *)
(* stack: that of a zombie, dead or alive, or one that at() refuses        *)
(* (AtThrows).                                                             *)
OneVictim ==
    IF Targets = {} THEN {{}}
    ELSE IF VictimUnset THEN {{z} : z \in DOMAIN zombies}
    ELSE {{z \in Targets : \A o \in Targets : Nearer(z, o)}}

(* The damage, over Reach, at a distance.                                  *)
IdfDamage(z) == Reach - Distance(z)
P90Damage(z) == Distance(z)

(* ScoutWeapon: the bullet goes through all targets, from the nearest on,  *)
(* and is weaker after each; targets at the same distance in any order.    *)
Orders ==
    {f \in [Targets -> 0..(Cardinality(Targets) - 1)] :
        \A z, o \in Targets : z # o => /\ f[z] # f[o]
                                       /\ Distance(z) < Distance(o) => f[z] < f[o]}

Hits == CASE weapon = "IDF" -> {[z \in v |-> IdfDamage(z)] : v \in OneVictim}
          [] weapon = "P90" -> {[z \in v |-> P90Damage(z)] : v \in OneVictim}
          [] weapon = "Scout" -> Orders

Shoot ==
    /\ thread = "steps"
    /\ ammo > 0
    /\ ammo' = ammo - 1
    /\ shot' \in Hits
    /\ \E killed \in SUBSET DOMAIN shot' : dying' = dying \cup killed
    /\ UNCHANGED <<soldier, dirX, weapon, zombies, thread>>

(* zombies.at() with an id that is nobody's: out_of_range leaves the step, *)
(* before the ammunition is counted, and Thread::main swallows it.  The    *)
(* match makes no further step.                                            *)
AtThrows ==
    /\ thread = "steps"
    /\ ammo > 0
    /\ weapon \in {"IDF", "P90"} /\ VictimUnset
    /\ thread' = "ended"
    /\ shot' = NoHit
    /\ UNCHANGED <<soldier, dirX, weapon, ammo, zombies, dying>>

Ended == thread = "ended" /\ UNCHANGED vars

(* No bullets: shoot() returns false and the soldier reloads.              *)
Reload ==
    /\ thread = "steps"
    /\ ammo = 0
    /\ ammo' = Ammo
    /\ shot' = NoHit
    /\ UNCHANGED <<soldier, dirX, weapon, zombies, thread, dying>>

Next ==
    \/ \E dir \in {LEFT, RIGHT}, distance \in Strides, center \in Centers :
          WalkX(dir, distance, center) \/ WalkY(dir, distance, center)
    \/ Shoot
    \/ AtThrows
    \/ Reload
    \/ AddZombies
    \/ Spin
    \/ Ended

Spec == Init /\ [][Next]_vars
------------------------------------------------------------------------------
Position == [x : Int, y : Int, w : {HalfWidth}, h : {HalfHeight}]

(* Type invariant; whoever crosses an edge is on the map, and is moved to   *)
(* the other name of its place at most.                                    *)
TypeOK ==
    /\ soldier \in Position /\ OnMap(soldier)
    /\ dirX \in {LEFT, RIGHT}
    /\ weapon \in Kinds
    /\ ammo \in 0..Ammo
    /\ DOMAIN zombies \in {Zombie, Zombie \ Late}
    /\ \A z \in DOMAIN zombies : zombies[z] \in Position /\ OnMap(zombies[z])
    /\ thread \in {"steps", "spins", "ended"}
    /\ dying \in SUBSET Zombie
    /\ DOMAIN shot \subseteq Zombie /\ \A z \in DOMAIN shot : shot[z] \in Int

(* A soldier that walks never ends up inside a live zombie on the circle   *)
(* that the map is, the joint of its edges included -- but for the case of *)
(* position.cpp:39-44, a soldier across the edge and a zombie that is not, *)
(* where a box that reaches into the free part is not seen.                *)
KeepsApart ==
    [][\A z \in Live :
          (soldier' # soldier /\ (Straddles(soldier') => Straddles(zombies[z])))
          => ~Overlap(soldier', zombies[z])]_vars

(* Zombies can be added to a Survival: the loop that places one ends,      *)
(* unless the soldier stands in a corner at the top of the map, where its  *)
(* box meets the one of a position without a map.                          *)
SpawnEnds ==
    thread = "spins" => /\ soldier.y <= HalfHeight
                        /\ soldier.x <= HalfWidth \/ soldier.x > DimX - HalfWidth

(* The two edges are joined without a gap and without an overlap: whoever  *)
(* walks a distance and back, across the edge or not, is where it was,     *)
(* though the constructor and calculateNextPos both wrap.                  *)
WalkIsReversible ==
    \A dir \in {LEFT, RIGHT}, distance \in Strides :
        LET there == Placed(NextX(soldier, dir, distance), soldier.y)
            back == Placed(NextX(there, -dir, distance), soldier.y)
        IN SamePlace(back, soldier)

(* No bullet passes a live zombie that stands in its way: a shot hits      *)
(* somebody if anybody is ahead, what it hits is live, ahead and in its    *)
(* row, and whoever stands nearer in that row is hit as well, by a Scout,  *)
(* and with more force.  The exception is an IDF or a P90 none of whose    *)
(* targets is nearer than the bullet's reach: the victim's id is not set.  *)
Ahead(z) == /\ IF dirX = RIGHT THEN zombies[z].x >= soldier.x
               ELSE zombies[z].x <= soldier.x
            /\ AbsDiff(zombies[z].y, soldier.y) <= HalfScope

IdIsSet == \/ weapon = "Scout"
           \/ \E o \in Live : Ahead(o) /\ Distance(o) < Reach
           \/ \A o \in Live : Ahead(o) => Distance(o) > Reach

NearestIsHit ==
    [][IdIsSet =>
          /\ ammo' < ammo /\ (\E o \in Live : Ahead(o) /\ Distance(o) <= Reach)
                => DOMAIN shot' # {}
          /\ \A z \in DOMAIN shot' :
                /\ z \in Live /\ Ahead(z) /\ Distance(z) <= Reach
                /\ \A o \in Live : Ahead(o) /\ Distance(o) < Distance(z) =>
                      /\ weapon = "Scout"
                      /\ o \in DOMAIN shot' /\ shot'[o] < shot'[z]]_vars
==============================================================================
