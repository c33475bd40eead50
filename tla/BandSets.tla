------------------------------ MODULE BandSets ------------------------------
(***************************************************************************)
(* A bounds list of src/src/sim/bounds.rs read as the set of powers it      *)
(* admits.  The gateway only ever asks a list for membership, for its       *)
(* intersection with another and for the nearest admitted power, so this    *)
(* reading loses nothing; module Bands keeps the lists themselves and its   *)
(* run checks that they agree with the sets.                                *)
(***************************************************************************)
EXTENDS Integers

CONSTANTS MinPower, MaxPower    \* the range of powers the model draws from

Power == MinPower..MaxPower

Distance(x, y) == IF x < y THEN y - x ELSE x - y

(***************************************************************************)
(* x is what a clamp of v into the set S returns: no admitted power is      *)
(* nearer, and of two equally near ones it is the lower (the upper edge of  *)
(* the band below).                                                         *)
(***************************************************************************)
Nearest(S, v, x) ==
    /\ x \in S
    /\ \A y \in S : \/ Distance(v, x) < Distance(v, y)
                    \/ Distance(v, x) = Distance(v, y) /\ x <= y

ASSUME PowerRange ==
    /\ MinPower \in Int
    /\ MaxPower \in Int
    /\ MinPower <= 0
    /\ 0 <= MaxPower

\* Each clamp once for all: module PowerProofs shows that it exists.
NearestTo ==
    [S \in (SUBSET Power) \ {{}} |->
        [v \in Power |-> CHOOSE x \in S : Nearest(S, v, x)]]

\* Clamp a command: 0 always stays 0, and an empty band leaves only 0.
ClampOrPark(S, v) == IF v = 0 \/ S = {} THEN 0 ELSE NearestTo[S][v]

NoHeadroom == {0}

\* Zero headroom is reported as the band that holds 0 alone.
OrZeroBand(S) == IF S = {} THEN NoHeadroom ELSE S

\* The side of 0 an aim is on: a share narrows it on that side alone.
SideOf(v) == IF v > 0 THEN {x \in Power : x >= 0} ELSE {x \in Power : x <= 0}
=============================================================================
