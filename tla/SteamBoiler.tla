----------------------------- MODULE SteamBoiler -----------------------------
(***************************************************************************)
(* The steam boiler of src/src/sim/steam_boiler.rs: a heater that takes what *)
(* the gateway hands it within the need of the moment, beside a gas burner   *)
(* that holds the pressure at its target.  Physics reads demand and          *)
(* pressure, heats, and integrates under locks of their own, so that a door  *)
(* may set either in between.                                               *)
(*                                                                         *)
(* Pressures, powers and demands are integers; Odd is any number that is not *)
(* finite.  Time is in ticks of one unit, and the heater's own delay, which  *)
(* DeviceAxis is about, is zero.                                            *)
(***************************************************************************)
EXTENDS Integers

CONSTANTS
    Odd,            \* a number that is not finite
    Absent,         \* no initial pressure, no command, no tick under way
    Configs,        \* what boilers are made from
    Usual,          \* SteamBoilerConfig::default, as far as guard falls back on it
    Spans,          \* how long a tick may take
    Demands, Pressures, Commands    \* what the doors set

VARIABLES
    cfg,            \* the configuration, once guarded
    pressure,
    demand,         \* the demand source's value
    handed,         \* the command handed to the heater since its last tick
    command,        \* the command the heater follows
    heat,           \* what it draws
    boilerOk,       \* its health
    tick,           \* what the tick under way has read
    held,           \* a tick integrated the pressure last (history)
    touched         \* a door set the pressure since the tick read it (history)

boilerVars == <<cfg, pressure, demand, handed, command, heat, boilerOk, tick, held, touched>>

Number == Int \cup {Odd}
Raw == [target : Number, max : Number, initial : Number \cup {Absent}, capacity : Number,
        perKg : Number, lower : Int, upper : Int]

\* A positive normal number; f32::MIN_POSITIVE is 1 here.
IsNormal(x) == x # Odd /\ x >= 1

ASSUME BoilerAssumption ==
    /\ Odd \notin Int /\ Absent \notin Number
    /\ Configs \subseteq Raw
    /\ Usual \in Raw /\ \A f \in {"target", "capacity", "perKg"} : IsNormal(Usual[f])
    /\ Spans \subseteq Nat \ {0}
    /\ Demands \subseteq Number /\ Pressures \subseteq Number /\ Commands \subseteq Int

Greater(x, y) == IF x > y THEN x ELSE y
Less(x, y) == IF x < y THEN x ELSE y
Within(x, low, high) == Less(Greater(x, low), high)

Normal(raw, f) == IF IsNormal(raw[f]) THEN raw[f] ELSE Usual[f]

Highest(raw) ==
    IF raw.max # Odd /\ raw.max >= Normal(raw, "target") THEN raw.max ELSE Normal(raw, "target")

\* guard, and the start pressure that new makes of it.
Guarded(raw) ==
    [target |-> Normal(raw, "target"), max |-> Highest(raw), capacity |-> Normal(raw, "capacity"),
     perKg |-> Normal(raw, "perKg"), lower |-> raw.lower, upper |-> raw.upper]

StartPressure(raw) ==
    IF raw.initial \in {Odd, Absent} THEN Normal(raw, "target")
    ELSE Within(raw.initial, 1, Highest(raw))

BoilerInit ==
    /\ \E raw \in Configs : cfg = Guarded(raw) /\ pressure = StartPressure(raw)
    /\ demand = 0 /\ handed = Absent /\ command = 0 /\ heat = 0
    /\ boilerOk = TRUE /\ tick = Absent
    /\ held = FALSE /\ touched = FALSE

-----------------------------------------------------------------------------
(* The doors: the Lisp setters, the drive route and the gateway.            *)

SetDemand(d) ==
    /\ demand' = d
    /\ UNCHANGED <<cfg, pressure, handed, command, heat, boilerOk, tick, held, touched>>

\* set_pressure_bar ignores what is not finite.
SetPressure(p) ==
    /\ p # Odd
    /\ pressure' = Within(p, 1, cfg.max)
    /\ held' = FALSE /\ touched' = TRUE
    /\ UNCHANGED <<cfg, demand, handed, command, heat, boilerOk, tick>>

SetCommand(v) ==
    /\ handed' = v
    /\ UNCHANGED <<cfg, pressure, demand, command, heat, boilerOk, tick, held, touched>>

SetBoilerHealth ==
    /\ boilerOk' = ~boilerOk
    /\ UNCHANGED <<cfg, pressure, demand, handed, command, heat, tick, held, touched>>

-----------------------------------------------------------------------------
(* A tick.                                                                  *)

\* demand_w: a negative demand, and one that is not finite, is none.
DemandPower == IF demand = Odd THEN 0 ELSE Greater(demand * cfg.perKg, 0)

\* What would close the pressure's gap to the target within the tick.
Recovery(p, dt) == ((cfg.target - p) * cfg.capacity) \div dt

\* A plausible slip: the need above the target is only the demand.
NeedWhileAbove(p, power, dt) ==
    Less(power + Greater(Recovery(p, dt), 0), cfg.upper)

\* need_w: none above the target; else the demand and the recovery, up to the
\* rating.
Need(p, power, dt) ==
    IF p > cfg.target THEN 0 ELSE Less(power + Recovery(p, dt), cfg.upper)

TickReads(dt) ==
    /\ tick = Absent
    /\ tick' = [span |-> dt, power |-> DemandPower, need |-> Need(pressure, DemandPower, dt),
                from |-> pressure, heated |-> FALSE]
    /\ touched' = FALSE
    /\ UNCHANGED <<cfg, pressure, demand, handed, command, heat, boilerOk, held>>

\* clamp_or_park into the intersection of the need and the rating, which may
\* be empty.
Parked(v, low, high) == IF v = 0 \/ low > high THEN 0 ELSE Within(v, low, high)

\* A heater that is not healthy trips; another follows its newest command.
TickHeats ==
    /\ tick # Absent /\ ~tick.heated
    /\ tick' = [tick EXCEPT !.heated = TRUE]
    /\ handed' = Absent
    /\ command' = IF ~boilerOk THEN 0 ELSE IF handed = Absent THEN command ELSE handed
    /\ heat' = IF ~boilerOk THEN 0
               ELSE Parked(command', Greater(0, cfg.lower), Less(tick.need, cfg.upper))
    /\ UNCHANGED <<cfg, pressure, demand, boilerOk, held, touched>>

\* Gas holds the pressure at the target, and the ceiling guards it.
TickIntegrates ==
    /\ tick # Absent /\ tick.heated
    /\ tick' = Absent
    /\ pressure' = Within(pressure + ((heat - tick.power) * tick.span) \div cfg.capacity,
                          cfg.target, cfg.max)
    /\ held' = TRUE
    /\ UNCHANGED <<cfg, demand, handed, command, heat, boilerOk, touched>>

BoilerNext ==
    \/ \E d \in Demands : SetDemand(d)
    \/ \E p \in Pressures : SetPressure(p)
    \/ \E v \in Commands : SetCommand(v)
    \/ SetBoilerHealth
    \/ \E dt \in Spans : TickReads(dt)
    \/ TickHeats \/ TickIntegrates

BoilerSpec == BoilerInit /\ [][BoilerNext]_boilerVars

-----------------------------------------------------------------------------
BoilerTypeOK ==
    /\ cfg \in [target : Nat, max : Nat, capacity : Nat \ {0}, perKg : Nat, lower : Int, upper : Int]
    /\ pressure \in Nat
    /\ demand \in Number
    /\ handed \in Int \cup {Absent}
    /\ command \in Int /\ heat \in Int
    /\ {boilerOk, held, touched} \subseteq BOOLEAN
    /\ tick \in [span : Nat \ {0}, power : Nat, need : Int, from : Nat, heated : BOOLEAN]
                \cup {Absent}

\* Whatever the boiler was made from and whatever the doors set, its pressure
\* is a positive number up to the ceiling, and from the target on once a tick
\* has held it (steam_boiler.rs:91-139, 279-283, 373-379).
PressureIsHeld ==
    /\ 1 <= cfg.target /\ cfg.target <= cfg.max
    /\ 1 <= pressure /\ pressure <= cfg.max
    /\ held => pressure >= cfg.target

\* The heater draws no more than the need its tick read, hence nothing above
\* the target, and never feeds back (steam_boiler.rs:178-187, 264-277).
DrawsItsNeed ==
    /\ 0 <= heat
    /\ tick # Absent /\ tick.heated => heat <= Greater(tick.need, 0)

\* Heating never lifts the pressure past the target: a tick brings one at or
\* below it to the target exactly, and one above it only down, at the rate of
\* the demand, unless a door set the pressure after the tick read it
\* (steam_boiler.rs:176-187, 279-283).
HeatDoesNotOverfill ==
    [][TickIntegrates /\ ~touched =>
         IF pressure <= cfg.target THEN pressure' = cfg.target
         ELSE /\ heat = 0
              /\ pressure' =
                    Greater(cfg.target, pressure + (-(tick.power * tick.span)) \div cfg.capacity)]_boilerVars

BoilerIsSound == [](PressureIsHeld /\ DrawsItsNeed) /\ HeatDoesNotOverfill

\* The inductive invariant behind it.
ReadsItsNeed ==
    tick # Absent =>
        /\ ~touched => tick.from = pressure
        /\ tick.need <= IF tick.from > cfg.target THEN 0
                        ELSE tick.power + Recovery(tick.from, tick.span)

BoilerIInv == BoilerTypeOK /\ PressureIsHeld /\ DrawsItsNeed /\ ReadsItsNeed
=============================================================================
