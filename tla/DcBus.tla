-------------------------------- MODULE DcBus -------------------------------
(***************************************************************************)
(* Battery inverters on the batteries they share: the gateway's step hands  *)
(* every inverter an output inside its share of the batteries' room         *)
(* (src/sim/gateway/window.rs, gateway/step.rs), the inverter splits it     *)
(* over its healthy batteries, and each battery settles the sum at its next *)
(* tick and reports how much of it it took (battery.rs,                     *)
(* inverter/battery_inverter.rs).  The gateway's delay and the device's are *)
(* zero here; CommandDelay and DeviceAxis are about those.  A battery's     *)
(* state of charge is one of a few levels, and any request may move it.     *)
(***************************************************************************)
EXTENDS BandSets, FiniteSets, FiniteSetsExt

CONSTANTS
    Inverters,
    Batteries,
    Children,       \* the batteries connected under each inverter
    Base,           \* each inverter's validation envelope, a set of powers
    Commands,       \* what a setpoint may ask for
    Rate,           \* watts an output may move in a tick
    Levels,         \* states of charge: the room and the hardware's limits
    Full,           \* the level the batteries start at
    Fallible,       \* the components whose health changes
    Parts,          \* pushes are counted in this fraction of a watt
    MaxChanges      \* bound on what requests change

VARIABLES
    healthy,        \* the components whose health is Ok
    level,          \* each battery's level
    target,         \* each inverter's armed command, 0 when there is none
    actual,         \* the ramp's output, handed to the inverter at the step
    at,             \* where tick_once is: the step, the batteries, inverters
    todo,           \* the inverters this tick has not reached
    pending,        \* what was pushed into each battery since its tick
    settled,        \* each battery's power and the push it was settled from
    report,         \* what each inverter pushed, and by which settlement
    changes

vars == <<healthy, level, target, actual, at, todo, pending, settled, report, changes>>

AtRest == [b \in Batteries |-> [push |-> 0, by |-> [power |-> 0, total |-> 0]]]

Init ==
    /\ healthy = Inverters \union Batteries
    /\ level = [b \in Batteries |-> Full]
    /\ target = [i \in Inverters |-> 0]
    /\ actual = [i \in Inverters |-> 0]
    /\ at = "step" /\ todo = {}
    /\ pending = [b \in Batteries |-> 0]
    /\ settled = [b \in Batteries |-> [power |-> 0, total |-> 0]]
    /\ report = [i \in Inverters |-> AtRest]
    /\ changes = 0

-----------------------------------------------------------------------------
(* Requests, at any point of a tick.                                       *)

Changes == changes < MaxChanges /\ changes' = changes + 1

Setpoint(i, v) ==
    /\ Changes
    /\ i \in healthy /\ v \in Base[i]
    /\ target' = [target EXCEPT ![i] = v]
    /\ UNCHANGED <<healthy, level, actual, at, todo, pending, settled, report>>

SetHealth(c) ==
    /\ Changes
    /\ healthy' = IF c \in healthy THEN healthy \ {c} ELSE healthy \union {c}
    /\ UNCHANGED <<level, target, actual, at, todo, pending, settled, report>>

\* set_soc_pct, and what integrating the settled power comes to in time.
SetSoc(b, l) ==
    /\ Changes
    /\ level' = [level EXCEPT ![b] = l]
    /\ UNCHANGED <<healthy, target, actual, at, todo, pending, settled, report>>

-----------------------------------------------------------------------------
(* The gateway's step.  A side is 1 for charge, -1 for discharge, and what  *)
(* is on a side is a magnitude.                                            *)

Sides == {1, -1}
On(side, v) == IF side * v > 0 THEN side * v ELSE 0
Larger(x, y) == IF x > y THEN x ELSE y

HealthyChildren(i) == Children[i] \intersect healthy
Split(i) == Cardinality(HealthyChildren(i))

\* A trip drops the command and the output before the step plans the rest.
Planned == Inverters \intersect healthy

\* The farther of where it is going and where it is; a setpoint that was
\* accepted lies in the envelope already.
Reach(i, side) == Larger(On(side, target[i]), On(side, actual[i]))

\* One push of window_pushes, in parts.
Push(i, b, side) ==
    IF i \in Planned /\ b \in HealthyChildren(i)
    THEN (Reach(i, side) * Parts) \div Split(i) ELSE 0

Total(b, side) == MapThenSumSet(LAMBDA i : Push(i, b, side), Inverters)
Room(b, side) == Parts * On(side, IF side = 1 THEN level[b].room[2] ELSE level[b].room[1])
Overfull(b, side) == Total(b, side) > Room(b, side)

\* The room is divided in proportion, rounded toward 0.
Scaled(i, b, side) ==
    LET total == Total(b, side)
        room  == Room(b, side)
        push  == Push(i, b, side)
    IN  IF total > room THEN (push * room) \div total ELSE push

Pushed(i, side) == {b \in Batteries : Push(i, b, side) # 0}

Binds(i, side) == \E b \in Pushed(i, side) : Overfull(b, side)

\* A plausible slip: the inverter is let have the sum of what its batteries
\* take, although it cannot split its output any way but equally.
LimitOfSum(i, side) ==
    MapThenSumSet(LAMBDA b : Scaled(i, b, side), Pushed(i, side)) \div Parts

\* As many pushes as there are, each as small as the least of them.
Limit(i, side) ==
    (Cardinality(Pushed(i, side)) * Min({Scaled(i, b, side) : b \in Pushed(i, side)}))
        \div Parts

Share(i) ==
    LET discharge == IF Binds(i, -1) THEN Limit(i, -1) ELSE 0 - MinPower
        charge    == IF Binds(i, 1) THEN Limit(i, 1) ELSE MaxPower
    IN  (0 - discharge)..charge

\* Narrowed toward 0 by the share, on the target's own side of it.
Aim(i, share) ==
    IF target[i] \in share THEN target[i]
    ELSE ClampOrPark(Base[i] \intersect share \intersect SideOf(target[i]), target[i])

Slew(from, to) ==
    IF Distance(from, to) <= Rate THEN to
    ELSE IF from < to THEN from + Rate ELSE from - Rate

HeldIn(share, v) == IF v \in share THEN v ELSE ClampOrPark(share, v)

Advanced ==
    [i \in Inverters, share \in SUBSET Power |->
        HeldIn(share, Slew(actual[i], Aim(i, share)))]

Step ==
    /\ at = "step" /\ at' = "batteries"
    /\ target' = [i \in Inverters |-> IF i \in Planned THEN target[i] ELSE 0]
    /\ actual' = [i \in Inverters |-> IF i \in Planned THEN Advanced[i, Share(i)] ELSE 0]
    /\ UNCHANGED <<healthy, level, todo, pending, settled, report, changes>>

-----------------------------------------------------------------------------
(* The components' ticks: the batteries come before the inverters.         *)

Clip(b, p) ==
    LET lo == Parts * level[b].hard[1]
        hi == Parts * level[b].hard[2]
    IN  IF p > hi THEN hi ELSE IF p < lo THEN lo ELSE p

\* Each battery drains its accumulator and clips the sum; what it took of
\* it, power by total, is the accept ratio until its next tick.
Settle ==
    /\ at = "batteries"
    /\ settled' = [b \in Batteries |-> [power |-> Clip(b, pending[b]),
                                        total |-> pending[b]]]
    /\ pending' = [b \in Batteries |-> 0]
    /\ at' = "inverters" /\ todo' = Inverters
    /\ UNCHANGED <<healthy, level, target, actual, report, changes>>

\* The output of an inverter that runs, in equal parts.
Pushes(i) ==
    [b \in Batteries |-> IF i \in healthy /\ b \in HealthyChildren(i)
                         THEN (actual[i] * Parts) \div Split(i)
                         ELSE 0]

Reported(i) ==
    [b \in Batteries |-> IF Pushes(i)[b] = 0 THEN AtRest[b]
                         ELSE [push |-> Pushes(i)[b], by |-> settled[b]]]

\* A plausible slip: an inverter that pushes nothing keeps what it published.
TickHoldingReport(i) ==
    /\ at = "inverters" /\ i \in todo
    /\ todo' = todo \ {i}
    /\ at' = IF todo' = {} THEN "step" ELSE at
    /\ pending' = [b \in Batteries |-> pending[b] + Pushes(i)[b]]
    /\ report' = IF Reported(i) = AtRest THEN report
                 ELSE [report EXCEPT ![i] = Reported(i)]
    /\ UNCHANGED <<healthy, level, target, actual, settled, changes>>

\* It pushes and publishes what each child took of its push, by the ratio of
\* the child's last tick; tripped or without children it publishes 0.
TickInverter(i) ==
    /\ at = "inverters" /\ i \in todo
    /\ todo' = todo \ {i}
    /\ at' = IF todo' = {} THEN "step" ELSE at
    /\ pending' = [b \in Batteries |-> pending[b] + Pushes(i)[b]]
    /\ report' = [report EXCEPT ![i] = Reported(i)]
    /\ UNCHANGED <<healthy, level, target, actual, settled, changes>>

-----------------------------------------------------------------------------
Tick == Step \/ Settle \/ \E i \in Inverters : TickInverter(i)

Next ==
    \/ Tick
    \/ \E i \in Inverters, v \in Commands : Setpoint(i, v)
    \/ \E c \in Fallible : SetHealth(c)
    \/ \E b \in Batteries, l \in Levels : SetSoc(b, l)

Spec == Init /\ [][Next]_vars

\* spawn_physics ticks for as long as the site lives.
LiveSpec == Spec /\ WF_vars(Tick)

-----------------------------------------------------------------------------
\* What a battery would be pushed on one side by the outputs of a step.
Load(b, side) ==
    MapThenSumSet(LAMBDA i : IF i \in Planned /\ b \in HealthyChildren(i)
                             THEN (On(side, actual'[i]) * Parts) \div Split(i) ELSE 0,
                  Inverters)

(***************************************************************************)
(* The outputs of a step never push a battery past its room on either side, *)
(* however the inverters share their batteries, whatever was still ramping  *)
(* down, and although a share limits only the inverters it binds: the       *)
(* clipping at the hardware's limits, which would take the battery past its *)
(* window, is not what keeps it in (window.rs:68-130, step.rs:121-164).     *)
(***************************************************************************)
RoomIsKept ==
    [][Step => \A b \in Batteries, side \in Sides : Load(b, side) <= Room(b, side)]_vars

\* The reports add up to what the battery moved: each inverter multiplied
\* its push by the ratio of the settlement, which was of these pushes.
Accounted(b) ==
    /\ \A i \in Inverters : report[i][b].push # 0 => report[i][b].by = settled[b]
    /\ settled[b].power # 0 =>
        MapThenSumSet(LAMBDA i : report[i][b].push, Inverters) = settled[b].total

(***************************************************************************)
(* The ratio an inverter reports by is one tick old (dc_storage.rs:17-23),  *)
(* and outputs ramp while shares follow them; once requests, health and     *)
(* charge stay put, the AC side comes to report for good what the           *)
(* batteries move, clipped or not.                                          *)
(***************************************************************************)
ReportsSettle == <>[](\A b \in Batteries : Accounted(b))
=============================================================================
