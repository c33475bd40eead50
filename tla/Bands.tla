------------------------------- MODULE Bands --------------------------------
(***************************************************************************)
(* VecBounds of src/src/sim/bounds.rs: a list of bands, each with a lower   *)
(* and an upper edge that may be absent (Open: no bound on that side).      *)
(***************************************************************************)
EXTENDS Integers, Sequences, FiniteSets, SequencesExt

CONSTANTS
    Open,       \* an absent edge (model value)
    Lowest      \* f32::MIN, which an absent lower edge sorts as

Band(lo, hi) == [lower |-> lo, upper |-> hi]

AtLeast(v, edge) == edge = Open \/ edge <= v
AtMost(v, edge)  == edge = Open \/ v <= edge

BandContains(b, v) == AtLeast(v, b.lower) /\ AtMost(v, b.upper)

Admits(B, v) == \E i \in DOMAIN B : BandContains(B[i], v)

LowerKey(b) == IF b.lower = Open THEN Lowest ELSE b.lower

SortByLower(B) == SortSeq(B, LAMBDA a, b : LowerKey(a) < LowerKey(b))

Inverted(b) == b.lower # Open /\ b.upper # Open /\ b.lower > b.upper

\* What AugmentBounds accepts: at least one band, none upside down.
AugmentationShape(B) == B # <<>> /\ \A i \in DOMAIN B : ~Inverted(B[i])

\* The edge both sides leave: an absent edge yields to a present one.
Tighter(a, b, pick(_, _)) ==
    IF a = Open THEN b ELSE IF b = Open THEN a ELSE pick(a, b)

Higher(x, y) == IF x < y THEN y ELSE x
Lower(x, y)  == IF x < y THEN x ELSE y

Meet(a, b) ==
    Band(Tighter(a.lower, b.lower, Higher), Tighter(a.upper, b.upper, Lower))

\* Bands that only touch taken for disjoint.
OverlapInside(a, b) ==
    LET m == Meet(a, b)
    IN  m.lower = Open \/ m.upper = Open \/ m.lower < m.upper

Overlap(a, b) == ~Inverted(Meet(a, b))

\* An edge of the hull is absent as soon as either band lacks it.
Looser(a, b, pick(_, _)) == IF a = Open \/ b = Open THEN Open ELSE pick(a, b)

Hull(a, b) ==
    Band(Looser(a.lower, b.lower, Lower), Looser(a.upper, b.upper, Higher))

\* Neighbours that overlap merge into their hull.
MergeNeighbours(B) ==
    FoldLeft(LAMBDA acc, next :
                 IF acc # <<>> /\ Overlap(Last(acc), next)
                 THEN Append(Front(acc), Hull(Last(acc), next))
                 ELSE Append(acc, next),
             <<>>, B)

Squash(B) == MergeNeighbours(SortByLower(B))

\* Intersection that forgets to normalise what it collected.
IntersectRaw(A, B) ==
    SetToSeq({Meet(A[p[1]], B[p[2]]) :
        p \in {q \in (DOMAIN A) \X (DOMAIN B) : Overlap(A[q[1]], B[q[2]])}})

\* The pairs are collected as a set: the sort loses their order, and equal
\* bands overlap and merge.
Intersect(A, B) == Squash(IntersectRaw(A, B))

Magnitude(x) == IF x < 0 THEN -x ELSE x

(***************************************************************************)
(* Scan the bands for the first one above v; the clamp is its lower edge    *)
(* or the last upper edge before it, whichever is closer, a tie going to    *)
(* the edge below.                                                          *)
(***************************************************************************)
Clamp(B, v) ==
    LET above  == {i \in DOMAIN B : B[i].lower # Open /\ v < B[i].lower}
        next   == IF above = {} THEN Len(B) + 1 ELSE Min(above)
        before == {i \in 1..(next - 1) : B[i].upper # Open}
    IN  IF B = <<>> \/ Admits(B, v) THEN v
        ELSE IF before = {}
             THEN IF above = {} THEN v ELSE B[next].lower
             ELSE LET below == B[Max(before)].upper
                  IN  IF \/ above = {}
                         \/ Magnitude(v - below) <= Magnitude(B[next].lower - v)
                      THEN below ELSE B[next].lower

\* A clamp without the exception for 0.
ParkOnlyEmpty(B, v) == IF B = <<>> THEN 0 ELSE Clamp(B, v)

ClampOrPark(B, v) == IF v = 0 \/ B = <<>> THEN 0 ELSE Clamp(B, v)

OrZeroBand(B) == IF B = <<>> THEN <<Band(0, 0)>> ELSE B

\* Both outer edges, or {} when there is no band or a side is open.
OuterEdges(B) ==
    IF B = <<>> \/ Head(B).lower = Open \/ Last(B).upper = Open THEN {}
    ELSE {<<Head(B).lower, Last(B).upper>>}

(***************************************************************************)
(* The sum of several lists: each non-empty one collapsed to its hull, an   *)
(* edge joining only when every band of the list has it; no list with a     *)
(* band leaves no information, not a band pinned at 0.                       *)
(***************************************************************************)
SumEdge(Bs, edge(_), pick(_)) ==
    LET closed == {i \in DOMAIN Bs : /\ Bs[i] # <<>>
                                     /\ \A j \in DOMAIN Bs[i] : edge(Bs[i][j]) # Open}
    IN  FoldSet(LAMBDA i, acc : acc + pick({edge(Bs[i][j]) : j \in DOMAIN Bs[i]}),
                0, closed)

\* The sum that takes the first band of a list for the whole list.
SumFirstBand(Bs) ==
    LET firsts == [i \in DOMAIN Bs |-> IF Bs[i] = <<>> THEN <<>> ELSE <<Head(Bs[i])>>]
    IN  <<Band(SumEdge(firsts, LAMBDA b : b.lower, Min),
               SumEdge(firsts, LAMBDA b : b.upper, Max))>>

SumSingle(Bs) ==
    IF \A i \in DOMAIN Bs : Bs[i] = <<>> THEN <<>>
    ELSE <<Band(SumEdge(Bs, LAMBDA b : b.lower, Min),
                SumEdge(Bs, LAMBDA b : b.upper, Max))>>
=============================================================================
