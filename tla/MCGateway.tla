----------------------------- MODULE MCGateway ------------------------------
(* The instances of Gateway: one active axis under augmentations, one with  *)
(* a command delay and a ramp, and the two axes of one component beside     *)
(* those of another.                                                        *)
EXTENDS Gateway

CONSTANTS inv, pv   \* component ids

MCMinPower == -2
MCMaxPower == 2
MCPower == MCMinPower..MCMaxPower

Inv == <<inv, "active">>
InvQ == <<inv, "reactive">>
Pv  == <<pv, "active">>

OneAxis == {Inv}
ThreeAxes == {Inv, InvQ, Pv}

AllZero == [k \in Key |-> 0]
Holding == [k \in Key |-> None]
Charging == [k \in Key |-> 2]

OnlyReactive == {InvQ}
OnlyPv == {Pv}

Full == {MCPower}
Bands == {MCPower, -1..1}
Sides == {MCPower, 0..2, -2..1}
TwoBands == {{-2, -1, 2}, {0, 1}, 1..2}
SomeChildren == {None, -1..2}
ShortAndLong == {1, 2}

\* Five powers at a rate of two: a step can overshoot, and a ramp across the
\* range takes two ticks.
MinusOne == -1
Three == 3
FivePowers == -1..3
Five == {FivePowers}
RoomOrNone == {FivePowers, 0..2}
RoomOrOne == {FivePowers, -1..1}
NoChildren == {None}

\* Two powers: on and off.
Zero == 0
One == 1
ZeroOne == 0..1
JustOne == {ZeroOne}
JustZero == {{0}}
OneTick == {1}
AtOnceOrOneTick == {0, 1}
=============================================================================
