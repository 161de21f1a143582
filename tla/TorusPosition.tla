---------------------------- MODULE TorusPosition ----------------------------
(***************************************************************************)
(* position.cpp and hitbox.cpp: boxes on a map that is circular in x *)
(* and bounded in y.  The code counts in doubles; here coordinates are     *)
(* integers, Unit of them to the code's 1.0, so that the places between    *)
(* dim_x and dim_x + 1.0, where the code joins the two edges, exist too.   *)
(* A Position is a record: its centre and the halves of width and height.  *)
(***************************************************************************)
EXTENDS Integers

CONSTANTS DimX, DimY,  \* dim_x and dim_y
          Unit         \* the coordinates in the code's 1.0

ASSUME DimAssumption == {DimX, DimY, Unit} \subseteq Nat \ {0}

LEFT == -1
RIGHT == 1

AbsDiff(a, b) == IF a < b THEN b - a ELSE a - b

(* Mutant of WrapLeft: the joint is taken for a part of the map.           *)
WrapLeftLate(x) == IF x < -Unit THEN DimX + x + Unit ELSE x

(* The two tests of the constructor and of calculateNextPos, in their      *)
(* order: off the left edge, then off the right one.                       *)
WrapLeft(x) == IF x < 0 THEN DimX + x + Unit ELSE x

(* Mutant of WrapRight: the width of the joint is left out.                *)
WrapRightShort(x) == IF x > DimX THEN x - DimX ELSE x

WrapRight(x) == IF x > DimX THEN x - DimX - Unit ELSE x

WrapX(x) == WrapRight(WrapLeft(x))

ClampY(y, h) == LET up == IF y <= 0 THEN h ELSE y
                IN IF up >= DimY THEN DimY - h ELSE up

(* The constructor: both tests look at the argument, so a coordinate is    *)
(* moved once at most.  Whoever stands beyond DimX and is given its own x  *)
(* again, by a vertical walk, gets a negative one, and the other way round *)
(* the next time: the same place under its other name.                     *)
MakePosition(x, y, w, h) ==
    [x |-> IF x > DimX THEN WrapRight(x) ELSE WrapLeft(x),
     y |-> IF y >= DimY THEN DimY - h ELSE IF y <= 0 THEN h ELSE y,
     w |-> w, h |-> h]

(* getXArea: the interval the box covers or, when it lies across the edge, *)
(* the interval it does not.                                               *)
XArea(p) ==
    LET right == WrapRight(p.x + p.w)
        left == WrapLeft(p.x - p.w)
    IN IF right < left THEN [min |-> right, max |-> left, real |-> FALSE]
       ELSE [min |-> left, max |-> right, real |-> TRUE]

(* getYArea.                                                               *)
YArea(p) == [min |-> p.y - p.h, max |-> p.y + p.h]

(* One of b's ends lies in a.                                              *)
Reaches(a, b) == \/ a.min <= b.max /\ b.max <= a.max
                 \/ a.min <= b.min /\ b.min <= a.max

(* collides: each of the four cases as it is coded; a, b are the areas in  *)
(* x of this box and of the other, ya, yb those in y.                      *)
AreasCollide(a, ya, b, yb) ==
    /\ \/ ~b.real /\ ~a.real
       \/ b.real /\ ~a.real /\ ~Reaches(a, b)
       \/ ~b.real /\ a.real /\ Reaches(b, a)
       \/ b.real /\ a.real /\ Reaches(a, b)
    /\ Reaches(ya, yb)

(* p.collides(other) *)
Collides(p, other) == AreasCollide(XArea(p), YArea(p), XArea(other), YArea(other))

(* calculateNextPos along x or y; distance is speed * time.                *)
NextX(p, dir, distance) == WrapX(p.x + dir * distance)
NextY(p, dir, distance) == ClampY(p.y + dir * distance, p.h)

(* Hitbox::shoot_hits looks at the victim's centre.                        *)
InHitbox(p, left, right, bottom, top) ==
    /\ left <= p.x /\ p.x <= right
    /\ bottom <= p.y /\ p.y <= top

------------------------------------------------------------------------------
(* The reference: distances on the circle that the map's x axis is.        *)

Circumference == DimX + Unit

Around(a, b) == IF 2 * AbsDiff(a, b) <= Circumference THEN AbsDiff(a, b)
                ELSE Circumference - AbsDiff(a, b)

Overlap(p, other) == /\ Around(p.x, other.x) <= p.w + other.w
                     /\ AbsDiff(p.y, other.y) <= p.h + other.h

(* The box lies across the edge of the map.                                *)
Straddles(p) == ~XArea(p).real

SamePlace(p, other) == Around(p.x, other.x) = 0 /\ p.y = other.y

(* A place on the map.  The joint between the two edges has two names:     *)
(* dim_x + t and t - 1.0, for t between 0 and 1.0.                         *)
OnMap(p) == /\ -Unit < p.x /\ p.x < Circumference
            /\ 0 <= p.y /\ p.y <= DimY
==============================================================================
