------------------------------ MODULE Envelope ------------------------------
(***************************************************************************)
(* ComponentBounds and GatewayAxis::validation_envelope: a rated band       *)
(* narrowed by one augmentation after another.  `admitted` is the meaning   *)
(* of the lists: the powers every augmentation so far lets through.         *)
(***************************************************************************)
EXTENDS Bands

CONSTANTS MinPower, MaxPower, Rated, Augmentations, Siblings

VARIABLES
    base,       \* the component's static band
    effective,  \* the live augmentations, intersected with each other
    live,       \* whether any augmentation is live
    sibling,    \* the list another child of the same parent reports
    admitted

vars == <<base, effective, live, sibling, admitted>>

S == INSTANCE BandSets

Points(B) == {v \in S!Power : Admits(B, v)}

\* With no live augmentation it is the base itself, not its intersection
\* with an empty list.
ValidationEnvelope == IF live THEN Intersect(base, effective) ELSE base

Init ==
    /\ base \in Rated
    /\ effective = <<>>
    /\ live = FALSE
    /\ sibling \in Siblings
    /\ admitted = S!Power

Augment(aug) ==
    /\ AugmentationShape(aug)
    /\ effective' = IF live THEN Intersect(effective, aug) ELSE aug
    /\ live' = TRUE
    /\ admitted' = admitted \cap Points(aug)
    /\ UNCHANGED <<base, sibling>>

Next == \E aug \in Augmentations : Augment(aug)

Spec == Init /\ [][Next]_vars

-----------------------------------------------------------------------------
(***************************************************************************)
(* The list the gate, the clamp and the telemetry read is exactly what the  *)
(* base and every live augmentation admit, however many bands they had, in  *)
(* whatever order they came and wherever they are open.                     *)
(***************************************************************************)
EnvelopeIsIntersection ==
    Points(ValidationEnvelope) = Points(base) \cap admitted

(***************************************************************************)
(* What intersect returns is in normal form: ascending, with a gap between  *)
(* neighbours, so that the first and the last edge are the outer edges that *)
(* telemetry and the battery shares read.                                   *)
(***************************************************************************)
OuterEdgesAreExtremes ==
    \A e \in OuterEdges(ValidationEnvelope) :
        \A v \in Points(ValidationEnvelope) : e[1] <= v /\ v <= e[2]

(***************************************************************************)
(* A command clamped into the list lands on the nearest power the list      *)
(* admits, on the lower one of two equally near, except that 0 stays 0 and  *)
(* that nothing but 0 is left of an empty list.                             *)
(***************************************************************************)
ClampFindsNearest ==
    \A v \in S!Power :
        ClampOrPark(ValidationEnvelope, v)
            = S!ClampOrPark(Points(ValidationEnvelope), v)

(***************************************************************************)
(* The summed bounds of two children admit every sum of powers the two      *)
(* admit, when both lists are closed: the parent's gate never refuses what  *)
(* its children could deliver.                                              *)
(***************************************************************************)
SumAdmitsReachable ==
    \A x \in Points(ValidationEnvelope), y \in Points(sibling) :
        Admits(SumSingle(<<ValidationEnvelope, sibling>>), x + y)
=============================================================================
