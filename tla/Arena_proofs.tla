----------------------------- MODULE Arena_proofs -----------------------------
(***************************************************************************)
(* Proofs about Arena: a soldier stays on the map, its walks can be taken  *)
(* back, it enters no zombie, and placing a zombie ends.                   *)
(***************************************************************************)
EXTENDS Arena, WellFoundedInduction, TLAPS

(* x is a coordinate of the map, the joint between the edges included.     *)
OnCircle(x) == x \in Int /\ -Unit < x /\ x < Circumference

(* a and b are the same place of the circle.                               *)
Same(a, b) == a - b \in {-Circumference, 0, Circumference}

Size == /\ DimX \in Nat \ {0} /\ DimY \in Nat \ {0} /\ Unit \in Nat \ {0}
        /\ HalfWidth \in Nat /\ HalfHeight \in Nat
        /\ 0 < HalfHeight /\ 2 * HalfHeight <= DimY

LEMMA Sizes == Size
BY DimAssumption, SizeAssumption DEF Size

(* A box that stands on the map.                                           *)
Inside(p) == /\ p \in Position
             /\ OnCircle(p.x)
             /\ 0 < p.y /\ p.y < DimY

LEMMA PlacedInside ==
  ASSUME NEW x, OnCircle(x), NEW y \in Int
  PROVE  /\ Inside(Placed(x, y))
         /\ Same(Placed(x, y).x, x)
         /\ 0 < y /\ y < DimY => Placed(x, y).y = y
<1>1. Placed(x, y).x = IF x < 0 THEN DimX + x + Unit
                       ELSE IF x > DimX THEN x - DimX - Unit ELSE x
  BY Sizes DEF Size, OnCircle, Placed, MakePosition, WrapLeft, WrapRight
<1>2. Placed(x, y).y = IF y >= DimY THEN DimY - HalfHeight
                       ELSE IF y <= 0 THEN HalfHeight ELSE y
  BY DEF Placed, MakePosition
<1>3. /\ Placed(x, y).x \in Int /\ -Unit < Placed(x, y).x /\ Placed(x, y).x < Circumference
      /\ Same(Placed(x, y).x, x)
  BY <1>1, Sizes DEF Size, OnCircle, Same, Circumference
<1>4. /\ Placed(x, y).y \in Int /\ 0 < Placed(x, y).y /\ Placed(x, y).y < DimY
  BY <1>2, Sizes DEF Size
<1>5. Placed(x, y) \in Position
  BY <1>3, <1>4 DEF Placed, MakePosition, Position
<1> QED  BY <1>2, <1>3, <1>4, <1>5, Sizes DEF Inside, OnCircle, Size

(* A walk of at most the width of the map ends on the map, at the place    *)
(* where the circle has it.                                                *)
LEMMA Step ==
  ASSUME NEW x, OnCircle(x), NEW d \in Int, -DimX <= d, d <= DimX, NEW y \in Int
  PROVE  /\ Inside(Placed(WrapX(x + d), y))
         /\ Placed(WrapX(x + d), y).x - (x + d)
              \in {-2 * Circumference, -Circumference, 0, Circumference, 2 * Circumference}
         /\ 0 < y /\ y < DimY => Placed(WrapX(x + d), y).y = y
<1> DEFINE e == WrapX(x + d)
<1>1. OnCircle(e) /\ Same(e, x + d)
  BY Sizes, SMTT(30) DEF Size, OnCircle, Same, WrapX, WrapLeft, WrapRight, Circumference
<1>2. /\ Inside(Placed(e, y)) /\ Same(Placed(e, y).x, e)
      /\ 0 < y /\ y < DimY => Placed(e, y).y = y
  <2> HIDE DEF e
  <2> QED  BY <1>1, PlacedInside
<1>3. Placed(e, y).x - (x + d)
        \in {-2 * Circumference, -Circumference, 0, Circumference, 2 * Circumference}
  <2>1. Placed(e, y).x \in Int
    BY <1>2 DEF Inside, OnCircle
  <2> HIDE DEF e
  <2> QED  BY <1>1, <1>2, <2>1, Sizes DEF Size, Same, OnCircle, Circumference
<1> QED  BY <1>2, <1>3

(* A vertical walk, too, takes its walker to a place of the map.           *)
LEMMA StepY ==
  ASSUME NEW p, Inside(p), NEW d \in Int
  PROVE  Inside(Placed(p.x, ClampY(p.y + d, p.h)))
<1>1. ClampY(p.y + d, p.h) \in Int
  BY Sizes DEF Inside, Position, ClampY, Size
<1> QED  BY <1>1, PlacedInside DEF Inside

LEMMA Distances ==
  ASSUME NEW dir \in {LEFT, RIGHT}, NEW distance \in Strides
  PROVE  /\ dir * distance \in Int /\ -DimX <= dir * distance /\ dir * distance <= DimX
         /\ (-dir) * distance = -(dir * distance)
         /\ -dir \in {LEFT, RIGHT}
<1>1. distance \in Int /\ 0 <= distance /\ distance <= DimX
  BY Sizes, SizeAssumption DEF Size
<1>2. dir \in Int /\ (-dir) * distance = -(dir * distance)
  BY <1>1 DEF LEFT, RIGHT
<1>3. dir * distance = distance \/ dir * distance = -distance
  BY <1>1 DEF LEFT, RIGHT
<1> QED  BY <1>1, <1>2, <1>3, Sizes DEF LEFT, RIGHT, Size

------------------------------------------------------------------------------
(* The strengthening: the soldier stands inside the map, no zombie stands  *)
(* in the joint of its edges, where bullets do not reach, and the Game     *)
(* thread spins only where NeverPlaced says so.                         *)
OffJoint == \A z \in DOMAIN zombies : 0 <= zombies[z].x /\ zombies[z].x <= DimX

IInv == /\ TypeOK
        /\ Inside(soldier)
        /\ OffJoint
        /\ thread = "spins" => NeverPlaced

LEMMA InsideOnMap ==
  ASSUME NEW p, Inside(p)
  PROVE  OnMap(p)
BY Sizes DEF Inside, OnCircle, OnMap, Size, Position, Circumference

LEMMA PlacesInside ==
  \A p \in Places : Inside(p) /\ 0 <= p.x /\ p.x <= DimX
<1> SUFFICES ASSUME NEW x \in Columns, NEW y \in Rows
             PROVE  /\ Inside(Placed(x, y))
                    /\ 0 <= Placed(x, y).x /\ Placed(x, y).x <= DimX
  BY DEF Places
<1>1. OnCircle(x) /\ y \in Int /\ 0 <= x /\ x <= DimX
  BY Sizes, SizeAssumption DEF Size, OnCircle, Circumference
<1>2. ~(x > DimX) /\ ~(x < 0)
  BY <1>1, Sizes DEF OnCircle, Size
<1>3. Placed(x, y).x = x
  BY <1>2 DEF Placed, MakePosition, WrapLeft
<1> QED  BY <1>1, <1>3, PlacedInside

LEMMA InitIInv ==
  ASSUME Init
  PROVE  IInv
<1>1. Inside(soldier)
  <2>1. PICK x \in 0..DimX, y \in Rows : soldier = Placed(x, y)
    BY DEF Init
  <2>2. OnCircle(x) /\ y \in Int
    BY Sizes, SizeAssumption DEF Size, OnCircle, Circumference
  <2> QED  BY <2>1, <2>2, PlacedInside
<1>2. TypeOK
  <2>1. soldier \in Position /\ OnMap(soldier)
    BY <1>1, InsideOnMap DEF Inside
  <2>2. DOMAIN zombies = Zombie \ Late
    BY DEF Init
  <2>3. \A z \in DOMAIN zombies : zombies[z] \in Position /\ OnMap(zombies[z])
    BY PlacesInside, InsideOnMap DEF Init, Inside
  <2>4. DOMAIN shot = {}
    BY DEF Init, NoHit
  <2>5. ammo \in 0..Ammo
    BY SizeAssumption DEF Init
  <2>6. dirX \in {LEFT, RIGHT} /\ dying \in SUBSET Zombie
    BY DEF Init
  <2>7. DOMAIN shot \subseteq Zombie /\ \A z \in DOMAIN shot : shot[z] \in Int
    BY <2>4
  <2> QED  BY <2>1, <2>2, <2>3, <2>5, <2>6, <2>7 DEF TypeOK, Init
<1>3. OffJoint
  BY PlacesInside DEF OffJoint, Init
<1> QED  BY <1>1, <1>2, <1>3 DEF IInv, Init

(* A step of the soldier ends inside the map.                              *)
LEMMA WalkInside ==
  ASSUME Inside(soldier), NEW dir \in {LEFT, RIGHT}, NEW distance \in Strides
  PROVE  /\ Inside(Placed(NextX(soldier, dir, distance), soldier.y))
         /\ Inside(Placed(soldier.x, NextY(soldier, dir, distance)))
<1> DEFINE d == dir * distance
<1>1. d \in Int /\ -DimX <= d /\ d <= DimX
  BY Distances
<1>2. soldier.y \in Int /\ OnCircle(soldier.x)
  BY DEF Inside, Position
<1>3. Inside(Placed(WrapX(soldier.x + d), soldier.y))
  <2> HIDE DEF d
  <2> QED  BY <1>1, <1>2, Step
<1>4. Inside(Placed(soldier.x, ClampY(soldier.y + d, soldier.h)))
  <2> HIDE DEF d
  <2> QED  BY <1>1, StepY
<1> QED  BY <1>3, <1>4 DEF NextX, NextY

LEMMA MoveKeeps ==
  ASSUME IInv, NEW x, NEW y, NEW center, Inside(Placed(x, y)), MoveTo(x, y, center),
         dirX' \in {LEFT, RIGHT}
  PROVE  IInv'
<1>1. Inside(soldier') /\ thread = "steps" /\ thread' = "steps"
  BY DEF MoveTo, IInv, TypeOK
<1>2. soldier' \in Position /\ OnMap(soldier')
  BY <1>1, InsideOnMap DEF Inside
<1>3. DOMAIN shot' = {}
  BY DEF MoveTo, NoHit
<1>4. TypeOK'
  BY <1>1, <1>2, <1>3 DEF MoveTo, IInv, TypeOK
<1> QED  BY <1>1, <1>4 DEF IInv, Inside, OffJoint, MoveTo

(* Distances between places of the map are integers.                       *)
LEMMA DistanceInt ==
  ASSUME IInv, NEW z \in DOMAIN zombies
  PROVE  Distance(z) \in Int /\ 0 <= Distance(z)
BY DEF IInv, TypeOK, Position, Distance, AbsDiff

LEMMA HitsTyped ==
  ASSUME IInv, NEW h \in Hits
  PROVE  DOMAIN h \subseteq DOMAIN zombies /\ \A z \in DOMAIN h : h[z] \in Int
<1>1. weapon \in {"IDF", "P90", "Scout"}
  BY SizeAssumption DEF IInv, TypeOK
<1>2. Targets \subseteq DOMAIN zombies
  BY DEF Targets, Live
<1>3. \A v \in OneVictim : v \subseteq DOMAIN zombies
  BY <1>2 DEF OneVictim
<1>4. Reach \in Int
  BY SizeAssumption
<1>5. CASE weapon = "IDF"
  <2>1. PICK v \in OneVictim : h = [z \in v |-> IdfDamage(z)]
    BY <1>5 DEF Hits
  <2> QED  BY <1>3, <1>4, <2>1, DistanceInt DEF IdfDamage
<1>6. CASE weapon = "P90"
  <2>1. PICK v \in OneVictim : h = [z \in v |-> P90Damage(z)]
    BY <1>6 DEF Hits
  <2> QED  BY <1>3, <2>1, DistanceInt DEF P90Damage
<1>7. CASE weapon = "Scout"
  <2>1. h \in Orders
    BY <1>7 DEF Hits
  <2>2. h \in [Targets -> 0..(Cardinality(Targets) - 1)]
    BY <2>1 DEF Orders
  <2> QED  BY <1>2, <2>2
<1> QED  BY <1>1, <1>5, <1>6, <1>7

LEMMA ShootKeeps ==
  ASSUME IInv, Shoot
  PROVE  IInv'
<1>1. /\ DOMAIN shot' \subseteq DOMAIN zombies
      /\ \A z \in DOMAIN shot' : shot'[z] \in Int
  BY HitsTyped DEF Shoot
<1>2. DOMAIN zombies \subseteq Zombie
  BY DEF IInv, TypeOK
<1>3. dying' \in SUBSET Zombie
  BY <1>1, <1>2 DEF Shoot, IInv, TypeOK
<1>4. ammo' \in 0..Ammo
  BY SizeAssumption DEF Shoot, IInv, TypeOK
<1>5. TypeOK'
  BY <1>1, <1>2, <1>3, <1>4 DEF Shoot, IInv, TypeOK
<1> QED  BY <1>5 DEF IInv, Inside, OffJoint, Shoot

LEMMA ReloadKeeps ==
  ASSUME IInv, Reload
  PROVE  IInv'
<1>1. DOMAIN shot' = {}
  BY DEF Reload, NoHit
<1>2. ammo' \in 0..Ammo
  BY SizeAssumption DEF Reload
<1>3. TypeOK'
  BY <1>1, <1>2 DEF Reload, IInv, TypeOK
<1> QED  BY <1>3 DEF IInv, Inside, OffJoint, Reload

LEMMA AddZombiesKeeps ==
  ASSUME IInv, AddZombies
  PROVE  IInv'
<1>1. DOMAIN shot' = {}
  BY DEF AddZombies, NoHit
<1>2. /\ DOMAIN zombies' \in {Zombie, Zombie \ Late}
      /\ \A z \in DOMAIN zombies' : zombies'[z] \in Position /\ OnMap(zombies'[z])
      /\ OffJoint'
  <2>1. CASE thread' = "spins"
    <3>1. zombies' = zombies
      BY <2>1 DEF AddZombies
    <3> QED  BY <3>1 DEF IInv, TypeOK, OffJoint
  <2>2. CASE thread' # "spins"
    <3>1. PICK added \in [Late -> Places] :
             zombies' = [z \in Zombie |-> IF z \in Late THEN added[z] ELSE zombies[z]]
      BY <2>2 DEF AddZombies
    <3>2. \A z \in Late : /\ added[z] \in Position /\ OnMap(added[z])
                          /\ 0 <= added[z].x /\ added[z].x <= DimX
      BY PlacesInside, InsideOnMap DEF Inside
    <3>3. Zombie \ Late \subseteq DOMAIN zombies
      BY DEF IInv, TypeOK
    <3> QED  BY <3>1, <3>2, <3>3 DEF IInv, TypeOK, OffJoint
  <2> QED  BY <2>1, <2>2
<1>3. thread' \in {"steps", "spins", "ended"}
  BY DEF AddZombies
<1>4. TypeOK'
  BY <1>1, <1>2, <1>3 DEF AddZombies, IInv, TypeOK
<1>5. thread' = "spins" => NeverPlaced'
  BY DEF AddZombies, NeverPlaced
<1> QED  BY <1>2, <1>4, <1>5 DEF IInv, Inside, AddZombies

LEMMA AtThrowsKeeps ==
  ASSUME IInv, AtThrows
  PROVE  IInv'
<1>1. DOMAIN shot' = {}
  BY DEF AtThrows, NoHit
<1>2. TypeOK'
  BY <1>1 DEF AtThrows, IInv, TypeOK
<1> QED  BY <1>2 DEF IInv, Inside, OffJoint, AtThrows

LEMMA StepIInv ==
  ASSUME IInv, [Next]_vars
  PROVE  IInv'
<1>1. ASSUME NEW dir \in {LEFT, RIGHT}, NEW distance \in Strides, NEW center \in Centers,
             WalkX(dir, distance, center)
      PROVE  IInv'
  BY <1>1, WalkInside, MoveKeeps DEF WalkX, IInv
<1>2. ASSUME NEW dir \in {LEFT, RIGHT}, NEW distance \in Strides, NEW center \in Centers,
             WalkY(dir, distance, center)
      PROVE  IInv'
  BY <1>2, WalkInside, MoveKeeps DEF WalkY, IInv, TypeOK
<1>3. CASE UNCHANGED vars
  BY <1>3 DEF IInv, TypeOK, Inside, OffJoint, NeverPlaced, vars
<1> QED  BY <1>1, <1>2, <1>3, ShootKeeps, AtThrowsKeeps, ReloadKeeps, AddZombiesKeeps
   DEF Next, Spin, Ended

THEOREM Invariant == Spec => []IInv
BY InitIInv, StepIInv, PTL DEF Spec

------------------------------------------------------------------------------
(* Whoever crosses an edge of the map is on it: no wrap of the constructor *)
(* or of calculateNextPos leads off the map, wherever a walk starts.       *)
THEOREM TypeCorrect == Spec => []TypeOK
BY Invariant, PTL DEF IInv

LEMMA ThereAndBack ==
  ASSUME Inside(soldier), NEW dir \in {LEFT, RIGHT}, NEW distance \in Strides
  PROVE  LET there == Placed(NextX(soldier, dir, distance), soldier.y)
             back == Placed(NextX(there, -dir, distance), soldier.y)
         IN SamePlace(back, soldier)
<1> DEFINE d == dir * distance
           x == soldier.x
           y == soldier.y
           there == Placed(WrapX(x + d), y)
           back == Placed(WrapX(there.x + -d), y)
           Turns == {-2 * Circumference, -Circumference, 0, Circumference, 2 * Circumference}
<1>1. /\ d \in Int /\ -DimX <= d /\ d <= DimX
      /\ -d \in Int /\ -DimX <= -d /\ -d <= DimX
  <2>1. d \in Int /\ -DimX <= d /\ d <= DimX
    BY Distances
  <2> HIDE DEF d
  <2> QED  BY <2>1, Sizes DEF Size
<1>2. OnCircle(x) /\ y \in Int /\ 0 < y /\ y < DimY
  BY DEF Inside, Position
<1>3. Inside(there) /\ there.x - (x + d) \in Turns
  <2> HIDE DEF d, x, y
  <2> QED  BY <1>1, <1>2, Step
<1>4. OnCircle(there.x)
  BY <1>3 DEF Inside
<1>5. Inside(back) /\ back.x - (there.x + -d) \in Turns /\ back.y = y
  <2> HIDE DEF d, x, y, there
  <2> QED  BY <1>1, <1>2, <1>4, Step
<1>6. SamePlace(back, soldier)
  <2>1. Around(back.x, x) = 0
    <3>1. back.x \in Int /\ -Unit < back.x /\ back.x < Circumference
      BY <1>5 DEF Inside, OnCircle
    <3>2. there.x \in Int /\ x \in Int /\ -Unit < x /\ x < Circumference
      BY <1>2, <1>4 DEF OnCircle
    <3>3. back.x - x \in {-Circumference, 0, Circumference}
      <4> HIDE DEF d, x, there, back
      <4>1. back.x - x \in {-4 * Circumference, -3 * Circumference, -2 * Circumference,
                            -Circumference, 0, Circumference, 2 * Circumference,
                            3 * Circumference, 4 * Circumference}
        BY <1>1, <1>3, <1>5, <3>1, <3>2, Sizes DEF Size, Circumference
      <4> QED  BY <4>1, <3>1, <3>2, Sizes DEF Size, Circumference
    <3> HIDE DEF d, x, there, back
    <3> QED  BY <3>1, <3>2, <3>3, Sizes DEF Around, AbsDiff, Size, Circumference
  <2> QED  BY <2>1, <1>5 DEF SamePlace
<1>7. NextX(there, -dir, distance) = WrapX(there.x + -d)
  BY Distances DEF NextX
<1>8. NextX(soldier, dir, distance) = WrapX(x + d)
  BY DEF NextX
<1> QED  BY <1>6, <1>7, <1>8

(* A walk along x and the walk back cancel out, from every place of every  *)
(* map and for every stride of at most the map's width, though the         *)
(* constructor and calculateNextPos both wrap (position.cpp:16-17).        *)
THEOREM WalksCancelOut == Spec => []WalkIsReversible
<1>1. IInv => WalkIsReversible
  BY ThereAndBack DEF IInv, WalkIsReversible
<1> QED  BY <1>1, Invariant, PTL

------------------------------------------------------------------------------
LEMMA NeverPlacedInACorner ==
  ASSUME Inside(soldier), HalfWidth = Unit, NeverPlaced
  PROVE  /\ soldier.y <= HalfHeight
         /\ soldier.x <= HalfWidth \/ soldier.x > DimX - HalfWidth
<1> DEFINE x == soldier.x
           y == soldier.y
<1>1. /\ x \in Int /\ -Unit < x /\ x < Circumference
      /\ y \in Int /\ 0 < y /\ soldier.h = HalfHeight
  BY DEF Inside, OnCircle, Position
<1>2. /\ Unset.x = 0 /\ Unset.y = -HalfHeight
      /\ Unset.w = HalfWidth /\ Unset.h = HalfHeight
  BY Sizes DEF Unset, NoMap!MakePosition, NoMap!WrapLeft, NoMap!WrapRight, Size
<1>3. NoMap!XArea(Unset) = [min |-> 0, max |-> 0, real |-> TRUE]
  <2>1. NoMap!WrapRight(Unset.x + Unset.w) = 0 /\ NoMap!WrapLeft(Unset.x - Unset.w) = 0
    BY <1>2, Sizes DEF NoMap!WrapLeft, NoMap!WrapRight, Size
  <2>2. ~(0 < 0)
    OBVIOUS
  <2> QED  BY <2>1, <2>2, Zenon DEF NoMap!XArea
<1>4. /\ NoMap!YArea(Unset) = [min |-> -2 * HalfHeight, max |-> 0]
      /\ YArea(soldier) = [min |-> y - HalfHeight, max |-> y + HalfHeight]
  BY <1>1, <1>2, Sizes DEF NoMap!YArea, YArea, Size
<1>5. y <= HalfHeight
  <2>1. Reaches(NoMap!YArea(Unset), YArea(soldier))
    BY DEF NeverPlaced, AreasCollide
  <2> QED  BY <1>1, <1>4, <2>1, Sizes DEF Reaches, Size
<1>6. x <= HalfWidth \/ x > DimX - HalfWidth
  <2>1. SUFFICES ASSUME x > HalfWidth, x <= DimX - HalfWidth
                 PROVE  FALSE
    BY <1>1, Sizes DEF Size
  <2>2. /\ XArea(soldier).real
        /\ XArea(soldier).min = x - HalfWidth /\ XArea(soldier).max = x + HalfWidth
    <3>1. soldier.w = HalfWidth
      BY DEF Inside, Position
    <3>2. WrapRight(soldier.x + soldier.w) = x + HalfWidth
          /\ WrapLeft(soldier.x - soldier.w) = x - HalfWidth
      BY <1>1, <2>1, <3>1, Sizes DEF WrapRight, WrapLeft, Size
    <3>3. ~(x + HalfWidth < x - HalfWidth)
      BY <1>1, Sizes DEF Size
    <3> QED  BY <3>2, <3>3 DEF XArea
  <2>3. NoMap!XArea(Unset).real /\ NoMap!XArea(Unset).min = 0 /\ NoMap!XArea(Unset).max = 0
    BY <1>3
  <2>4. Reaches(NoMap!XArea(Unset), XArea(soldier))
    BY <2>2, <2>3, Zenon DEF NeverPlaced, AreasCollide
  <2> QED  BY <1>1, <2>1, <2>2, <2>3, <2>4, Sizes DEF Reaches, Size
<1> QED  BY <1>5, <1>6

(* With boxes as wide as the configuration has them (a width of 2, so that *)
(* its half is the code's 1.0), setRandomPosition ends on every map,       *)
(* unless the soldier stands in a corner at the top (zombie.cpp:454).      *)
THEOREM PlacingEnds ==
  ASSUME HalfWidth = Unit
  PROVE  Spec => []SpawnEnds
<1>1. IInv => SpawnEnds
  BY NeverPlacedInACorner DEF IInv, SpawnEnds
<1> QED  BY <1>1, Invariant, PTL

------------------------------------------------------------------------------
LEMMA OverlapCollides ==
  ASSUME 4 * HalfWidth <= Circumference,
         NEW p, Inside(p), NEW q, q \in Position, OnMap(q),
         Straddles(p) => Straddles(q), Overlap(p, q)
  PROVE  Collides(p, q)
<1> DEFINE a == XArea(p)
           b == XArea(q)
<1>1. /\ p.x \in Int /\ -Unit < p.x /\ p.x < Circumference /\ p.w = HalfWidth
      /\ q.x \in Int /\ -Unit < q.x /\ q.x < Circumference /\ q.w = HalfWidth
      /\ p.y \in Int /\ q.y \in Int /\ p.h = HalfHeight /\ q.h = HalfHeight
  BY Sizes DEF Inside, OnCircle, Position, OnMap, Size, Circumference
<1>2. Reaches(YArea(p), YArea(q))
  <2>1. AbsDiff(p.y, q.y) <= HalfHeight + HalfHeight
    BY <1>1 DEF Overlap
  <2> QED  BY <1>1, <2>1, Sizes DEF AbsDiff, YArea, Reaches, Size
<1>3. \/ ~b.real /\ ~a.real
      \/ b.real /\ ~a.real /\ ~Reaches(a, b)
      \/ ~b.real /\ a.real /\ Reaches(b, a)
      \/ b.real /\ a.real /\ Reaches(a, b)
  <2>1. Around(p.x, q.x) <= HalfWidth + HalfWidth
    BY <1>1 DEF Overlap
  <2>2. a.real \/ ~b.real
    BY DEF Straddles
  <2>3. CASE a.real /\ b.real
    <3>1. Reaches(a, b)
      BY <1>1, <2>1, <2>3, Sizes, SMTT(60) DEF XArea, WrapLeft, WrapRight, Around, AbsDiff,
         Reaches, Size, Circumference
    <3> QED  BY <2>3, <3>1
  <2>4. CASE a.real /\ ~b.real
    <3>1. Reaches(b, a)
      BY <1>1, <2>1, <2>4, Sizes, SMTT(60) DEF XArea, WrapLeft, WrapRight, Around, AbsDiff,
         Reaches, Size, Circumference
    <3> QED  BY <2>4, <3>1
  <2> QED  BY <2>2, <2>3, <2>4, Zenon
<1> QED  BY <1>2, <1>3, Zenon DEF Collides, AreasCollide

(* On a map that is as wide as four soldiers at least, a soldier that      *)
(* walks never ends up inside a live zombie, but for the one case that     *)
(* KeepsApart names (position.cpp:39-44).                                  *)
THEOREM NobodyIsEntered ==
  ASSUME 4 * HalfWidth <= Circumference
  PROVE  Spec => KeepsApart
<1> DEFINE Entered(z) == (soldier' # soldier /\ (Straddles(soldier') => Straddles(zombies[z])))
                         => ~Overlap(soldier', zombies[z])
           Apart == \A z \in Live : Entered(z)
<1>1. ASSUME IInv, [Next]_vars, ~UNCHANGED vars
      PROVE  Apart
  <2> SUFFICES ASSUME NEW z \in Live, soldier' # soldier,
                      Straddles(soldier') => Straddles(zombies[z])
               PROVE  ~Overlap(soldier', zombies[z])
    OBVIOUS
  <2>1. zombies[z] \in Position /\ OnMap(zombies[z])
    BY <1>1 DEF Live, IInv, TypeOK
  <2>2. PICK x, y, center : MoveTo(x, y, center)
    BY <1>1 DEF Next, WalkX, WalkY, Shoot, AtThrows, Reload, AddZombies, Spin, Ended
  <2>3. ~Blocked(Placed(x, y)) /\ soldier' = Placed(x, y)
    BY <2>2 DEF MoveTo
  <2>4. ~Collides(soldier', zombies[z])
    BY <2>3 DEF Blocked
  <2>5. Inside(soldier')
    BY <1>1, StepIInv DEF IInv, Inside
  <2> QED  BY <2>1, <2>4, <2>5, OverlapCollides
<1>2. IInv /\ [Next]_vars => [Apart]_vars
  BY <1>1
<1> QED  BY <1>2, Invariant, PTL DEF Spec, KeepsApart

(* Away from the edge collides() is right: two boxes that do not lie       *)
(* across it collide when they meet (position.cpp:54-68).                  *)
THEOREM CollidesIsOverlap ==
  ASSUME 4 * HalfWidth <= Circumference,
         NEW p, Inside(p), NEW q, q \in Position, OnMap(q),
         ~Straddles(p), ~Straddles(q)
  PROVE  Collides(p, q) <=> Overlap(p, q)
<1> DEFINE a == XArea(p)
           b == XArea(q)
<1>1. /\ p.x \in Int /\ -Unit < p.x /\ p.x < Circumference /\ p.w = HalfWidth
      /\ q.x \in Int /\ -Unit < q.x /\ q.x < Circumference /\ q.w = HalfWidth
      /\ p.y \in Int /\ q.y \in Int /\ p.h = HalfHeight /\ q.h = HalfHeight
  BY Sizes DEF Inside, OnCircle, Position, OnMap, Size, Circumference
<1>2. a.real /\ b.real
  BY DEF Straddles
<1>3. Reaches(a, b) => Around(p.x, q.x) <= HalfWidth + HalfWidth
  BY <1>1, <1>2, Sizes, SMTT(60) DEF XArea, WrapLeft, WrapRight, Around, AbsDiff, Reaches,
     Size, Circumference
<1>4. Reaches(YArea(p), YArea(q)) => AbsDiff(p.y, q.y) <= HalfHeight + HalfHeight
  BY <1>1, Sizes DEF AbsDiff, YArea, Reaches, Size
<1>5. ASSUME Collides(p, q)
      PROVE  Overlap(p, q)
  <2>1. Reaches(a, b) /\ Reaches(YArea(p), YArea(q))
    BY <1>2, <1>5, Zenon DEF Collides, AreasCollide
  <2> QED  BY <1>1, <1>3, <1>4, <2>1 DEF Overlap
<1>6. Overlap(p, q) => Collides(p, q)
  BY OverlapCollides
<1> QED  BY <1>5, <1>6

(* Whoever lies across the edge collides with everybody in the rows that   *)
(* it reaches, wherever they are: to be in the part of the map that it     *)
(* leaves free counts as a hit (position.cpp:46-52).                       *)
LEMMA EdgeCollides ==
  ASSUME 4 * HalfWidth <= Circumference,
         NEW p, Inside(p), NEW q, q \in Position, OnMap(q), Straddles(q),
         AbsDiff(p.y, q.y) <= 2 * HalfHeight
  PROVE  Collides(p, q)
<1> DEFINE a == XArea(p)
           b == XArea(q)
<1>1. /\ p.x \in Int /\ -Unit < p.x /\ p.x < Circumference /\ p.w = HalfWidth
      /\ q.x \in Int /\ -Unit < q.x /\ q.x < Circumference /\ q.w = HalfWidth
      /\ p.y \in Int /\ q.y \in Int /\ p.h = HalfHeight /\ q.h = HalfHeight
  BY Sizes DEF Inside, OnCircle, Position, OnMap, Size, Circumference
<1>2. Reaches(YArea(p), YArea(q))
  BY <1>1, Sizes DEF AbsDiff, YArea, Reaches, Size
<1>3. ~b.real
  BY DEF Straddles
<1>4. a.real => Reaches(b, a)
  BY <1>1, <1>3, Sizes, SMTT(60) DEF XArea, WrapLeft, WrapRight, Reaches, Size, Circumference
<1> QED  BY <1>2, <1>3, <1>4, Zenon DEF Collides, AreasCollide

(* Hence a live zombie that lies across the edge of the map keeps every    *)
(* soldier from making a step in the rows that it reaches, however far     *)
(* away the soldier is (soldier.cpp:287-295).                              *)
THEOREM EdgeStopsTheRow ==
  ASSUME 4 * HalfWidth <= Circumference
  PROVE  Spec => [][soldier' # soldier =>
                      \A z \in Live : Straddles(zombies[z]) =>
                          AbsDiff(soldier'.y, zombies[z].y) > 2 * HalfHeight]_vars
<1> DEFINE Free(z) == Straddles(zombies[z]) => AbsDiff(soldier'.y, zombies[z].y) > 2 * HalfHeight
           Kept == soldier' # soldier => \A z \in Live : Free(z)
<1>1. ASSUME IInv, [Next]_vars, ~UNCHANGED vars
      PROVE  Kept
  <2> SUFFICES ASSUME soldier' # soldier, NEW z \in Live, Straddles(zombies[z])
               PROVE  AbsDiff(soldier'.y, zombies[z].y) > 2 * HalfHeight
    OBVIOUS
  <2>1. zombies[z] \in Position /\ OnMap(zombies[z])
    BY <1>1 DEF Live, IInv, TypeOK
  <2>2. PICK x, y, center : MoveTo(x, y, center)
    BY <1>1 DEF Next, WalkX, WalkY, Shoot, AtThrows, Reload, AddZombies, Spin, Ended
  <2>3. ~Blocked(Placed(x, y)) /\ soldier' = Placed(x, y)
    BY <2>2 DEF MoveTo
  <2>4. ~Collides(soldier', zombies[z])
    BY <2>3 DEF Blocked
  <2>5. Inside(soldier')
    BY <1>1, StepIInv DEF IInv, Inside
  <2>6. ~(AbsDiff(soldier'.y, zombies[z].y) <= 2 * HalfHeight)
    BY <2>1, <2>4, <2>5, EdgeCollides
  <2>7. AbsDiff(soldier'.y, zombies[z].y) \in Int
    BY <2>1, <2>5 DEF Inside, Position, AbsDiff
  <2> QED  BY <2>6, <2>7, Sizes DEF Size
<1>2. IInv /\ [Next]_vars => [Kept]_vars
  BY <1>1
<1> QED  BY <1>2, Invariant, PTL DEF Spec

------------------------------------------------------------------------------
(* Every nonempty set of naturals has a least element.                     *)
LEMMA Least ==
  ASSUME NEW T \in SUBSET Nat, T # {}
  PROVE  \E n \in T : \A m \in T : n <= m
<1> DEFINE R == {p \in Nat \X Nat : p[1] < p[2]}
<1>1. IsWellFoundedOn(R, Nat)
  BY NatLessThanWellFounded DEF OpToRel
<1>2. PICK n \in T : \A m \in T : <<m, n>> \notin R
  <2> HIDE DEF R
  <2> QED  BY <1>1, WFMin
<1>3. \A m \in T : ~(m < n)
  BY <1>2
<1> QED  BY <1>3

(* Among the targets there is one that is preferred to all.                *)
LEMMA ThereIsANearest ==
  ASSUME IInv, Targets # {}
  PROVE  \E z \in Targets : \A o \in Targets : Nearer(z, o)
<1>1. \A z \in Targets : Distance(z) \in Nat /\ z \in Nat
  <2>1. Targets \subseteq DOMAIN zombies /\ DOMAIN zombies \subseteq Nat
    BY ZombieAssumption DEF Targets, Live, IInv, TypeOK
  <2> QED  BY <2>1, DistanceInt
<1>2. PICK d \in {Distance(z) : z \in Targets} :
         \A m \in {Distance(z) : z \in Targets} : d <= m
  BY <1>1, Least
<1> DEFINE M == {z \in Targets : Distance(z) = d}
<1>3. PICK z \in M : \A o \in M : z <= o
  BY <1>1, <1>2, Least
<1>4. \A o \in Targets : Nearer(z, o)
  <2> SUFFICES ASSUME NEW o \in Targets
               PROVE  Nearer(z, o)
    OBVIOUS
  <2>1. CASE o \in M
    BY <1>3, <2>1 DEF Nearer
  <2>2. CASE o \notin M
    BY <1>1, <1>2, <1>3, <2>2 DEF Nearer
  <2> QED  BY <2>1, <2>2
<1> QED  BY <1>3, <1>4

(* The line of fire, for live zombies: those ahead, as far as a bullet     *)
(* flies.  That it stops at the edge spares nobody.                        *)
LEMMA WhoIsATarget ==
  ASSUME IInv, NEW o \in Live
  PROVE  o \in Targets <=> Ahead(o) /\ Distance(o) <= Reach
<1> DEFINE x == soldier.x
           q == zombies[o]
<1>1. /\ x \in Int /\ soldier.y \in Int /\ q.x \in Int /\ q.y \in Int
      /\ 0 <= q.x /\ q.x <= DimX
      /\ Reach \in Int /\ HalfScope \in Int /\ Reach >= 0 /\ HalfScope >= 0 /\ DimX \in Int
  BY Sizes, SizeAssumption DEF IInv, TypeOK, OffJoint, Position, Live, Size
<1>2. o \in DOMAIN zombies
  BY DEF Live
<1>3. /\ Distance(o) = IF x < q.x THEN q.x - x ELSE x - q.x
      /\ Ahead(o) <=> /\ IF dirX = RIGHT THEN q.x >= x ELSE q.x <= x
                      /\ soldier.y - HalfScope <= q.y /\ q.y <= soldier.y + HalfScope
  BY <1>1 DEF Distance, AbsDiff, Ahead
<1>4. CASE dirX = RIGHT
  <2>1. x + dirX * Reach = x + Reach /\ dirX # LEFT
    BY <1>1, <1>4 DEF RIGHT, LEFT
  <2>2. o \in LineOfFire <=> /\ x <= q.x /\ q.x <= (IF x + Reach > DimX THEN DimX ELSE x + Reach)
                             /\ soldier.y - HalfScope <= q.y /\ q.y <= soldier.y + HalfScope
    BY <1>2, <1>4, <2>1 DEF LineOfFire, InHitbox
  <2> QED  BY <1>1, <1>3, <1>4, <2>2 DEF Targets
<1>5. CASE dirX = LEFT
  <2>1. x + dirX * Reach = x - Reach /\ dirX # RIGHT
    BY <1>1, <1>5 DEF RIGHT, LEFT
  <2>2. o \in LineOfFire <=> /\ (IF x - Reach < 0 THEN 0 ELSE x - Reach) <= q.x /\ q.x <= x
                             /\ soldier.y - HalfScope <= q.y /\ q.y <= soldier.y + HalfScope
    BY <1>2, <1>5, <2>1 DEF LineOfFire, InHitbox
  <2> QED  BY <1>1, <1>3, <2>1, <2>2 DEF Targets
<1> QED  BY <1>4, <1>5 DEF IInv, TypeOK

(* What a shot hits, when the id of its victim is set.                     *)
LEMMA ShotSparesNobody ==
  ASSUME IInv, NEW h \in Hits, IdIsSet
  PROVE  /\ (\E o \in Live : Ahead(o) /\ Distance(o) <= Reach) => DOMAIN h # {}
         /\ \A z \in DOMAIN h :
               /\ z \in Live /\ Ahead(z) /\ Distance(z) <= Reach
               /\ \A o \in Live : Ahead(o) /\ Distance(o) < Distance(z) =>
                     weapon = "Scout" /\ o \in DOMAIN h /\ h[o] < h[z]
<1>1. weapon \in {"IDF", "P90", "Scout"}
  BY SizeAssumption DEF IInv, TypeOK
<1>2. \A o \in Live : Distance(o) \in Int /\ Reach \in Int
  BY SizeAssumption, DistanceInt DEF Live
<1>3. \A o \in Targets : o \in Live /\ Ahead(o) /\ Distance(o) <= Reach
  <2> SUFFICES ASSUME NEW o \in Targets
               PROVE  o \in Live /\ Ahead(o) /\ Distance(o) <= Reach
    OBVIOUS
  <2>1. o \in Live
    BY DEF Targets
  <2> QED  BY <2>1, WhoIsATarget
<1>4. \A o \in Live : Ahead(o) /\ Distance(o) <= Reach => o \in Targets
  BY WhoIsATarget
<1>5. \A z \in Targets : \A o \in Live :
         Ahead(o) /\ Distance(o) < Distance(z) => o \in Targets
  BY <1>2, <1>3, <1>4
<1>6. CASE weapon # "Scout"
  <2> DEFINE nearest == {t \in Targets : \A o \in Targets : Nearer(t, o)}
  <2>1. DOMAIN h \in OneVictim
    BY <1>1, <1>6 DEF Hits
  <2>2. ~VictimUnset
    BY <1>2, <1>3, <1>4, <1>6 DEF VictimUnset, IdIsSet
  <2>3. DOMAIN h = IF Targets = {} THEN {} ELSE nearest
    <3> HIDE DEF nearest
    <3>1. OneVictim = IF Targets = {} THEN {{}} ELSE {nearest}
      BY <2>2 DEF OneVictim, nearest
    <3> QED  BY <2>1, <3>1
  <2>4. Targets # {} => nearest # {}
    BY ThereIsANearest
  <2>5. ASSUME NEW z \in DOMAIN h
        PROVE  z \in Targets /\ \A o \in Targets : ~(Distance(o) < Distance(z))
    <3>1. z \in Targets /\ \A o \in Targets : Nearer(z, o)
      BY <2>3
    <3> QED  BY <1>2, <1>3, <3>1 DEF Nearer
  <2> HIDE DEF nearest
  <2> QED  BY <1>3, <1>4, <1>5, <2>3, <2>4, <2>5
<1>7. CASE weapon = "Scout"
  <2>1. h \in Orders
    BY <1>7 DEF Hits
  <2>2. /\ DOMAIN h = Targets
        /\ \A t, o \in Targets : t # o /\ Distance(t) < Distance(o) => h[t] < h[o]
    BY <2>1 DEF Orders
  <2>3. \A z, o \in Targets : Distance(o) < Distance(z) => o # z
    BY <1>2, <1>3
  <2> QED  BY <1>3, <1>4, <1>5, <1>7, <2>2, <2>3
<1> QED  BY <1>6, <1>7

(* Among any number of zombies, on every map and with every weapon: no     *)
(* bullet passes a live zombie that stands in its way.                     *)
THEOREM BulletsSpareNobody == Spec => NearestIsHit
<1> DEFINE SparesNobody ==
             IdIsSet =>
             /\ ammo' < ammo /\ (\E o \in Live : Ahead(o) /\ Distance(o) <= Reach)
                   => DOMAIN shot' # {}
             /\ \A z \in DOMAIN shot' :
                   /\ z \in Live /\ Ahead(z) /\ Distance(z) <= Reach
                   /\ \A o \in Live : Ahead(o) /\ Distance(o) < Distance(z) =>
                         /\ weapon = "Scout"
                         /\ o \in DOMAIN shot' /\ shot'[o] < shot'[z]
<1>1. ASSUME IInv, [Next]_vars, ~UNCHANGED vars
      PROVE  SparesNobody
  <2>1. CASE Shoot
    BY <1>1, <2>1, ShotSparesNobody DEF Shoot
  <2>2. CASE ~Shoot
    <3>1. shot' = NoHit
      BY <1>1, <2>2 DEF Next, WalkX, WalkY, MoveTo, AtThrows, Reload, AddZombies, Spin, Ended
    <3>2. ~(ammo' < ammo)
      BY <1>1, <2>2, SizeAssumption DEF Next, WalkX, WalkY, MoveTo, AtThrows, Reload,
         AddZombies, Spin, Ended, IInv, TypeOK
    <3> QED  BY <3>1, <3>2 DEF NoHit
  <2> QED  BY <2>1, <2>2
<1>2. IInv /\ [Next]_vars => [SparesNobody]_vars
  BY <1>1
<1> QED  BY <1>2, Invariant, PTL DEF Spec, NearestIsHit
==============================================================================
