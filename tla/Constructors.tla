----------------------------- MODULE Constructors -----------------------------
(***************************************************************************)
(* What a component is built from and what a save writes of it: the %make-* *)
(* primitives of lisp/make.rs, the make-* wrappers of sim/defaults.lisp     *)
(* that append a category's defaults to a form's own keywords, and the      *)
(* constructor_kwargs each component renders into the managed file as a     *)
(* call of the primitive itself (make_fn), which a reload evaluates: the    *)
(* defaults take part in an eval and never in a reload.                     *)
(*                                                                         *)
(* A keyword's number is one of a few that its checks and its rendering     *)
(* tell apart: -1 is negative, 0 zero, 1 and 2 ordinary, Inf past every     *)
(* f32, which a rate and a meter's power take and no duration does; flags   *)
(* are 0 and 1.  A rated bound past every f32 is written as such, and what  *)
(* the Lisp library reads there is not modelled: bounds are finite here.    *)
(* What a running component is driven with is in Drives, ids and edges are  *)
(* in ComponentIds.                                                         *)
(***************************************************************************)
EXTENDS Integers, FiniteSets

CONSTANTS
    MaxArgs,        \* how many keywords one form gives itself
    MaxEdits        \* how often the category's defaults are edited

VARIABLES
    category,       \* the category that is built
    config,         \* what the live component was built with, or Absent
    file,           \* the keywords its saved form carries
    defaults,       \* the category's *-defaults plist
    edits
vars == <<category, config, file, defaults, edits>>

-----------------------------------------------------------------------------
Inf   == 9
Unset == -9
Absent == [built |-> FALSE]

\* A plist appended to another: the first occurrence of a key wins.
Over(f, g) == [k \in DOMAIN f \cup DOMAIN g |-> IF k \in DOMAIN f THEN f[k] ELSE g[k]]
Or(a, k, v) == IF k \in DOMAIN a THEN a[k] ELSE v
Outside(a, K, allowed) == \E k \in K \cap DOMAIN a : a[k] \notin allowed

\* A duration and a rate must not be negative, a duration be finite; a cap of
\* 0 or less is off.
Seconds == {"interval", "delay", "device", "qDelay"}
Rates   == {"ramp", "qRamp"}
NonNegative == 0..Inf

-----------------------------------------------------------------------------
(* The primitives: the keywords each takes, the built-in values, refusals.  *)

MakeGrid(a) ==
    LET band == {"lower", "upper"} \subseteq DOMAIN a IN
    [fuse   |-> Or(a, "fuse", 0),
     lower  |-> IF band THEN a.lower ELSE Unset,
     upper  |-> IF band THEN a.upper ELSE Unset,
     jitter |-> Or(a, "jitter", 0)]
GridRefuses(a) == Outside(a, {"fuse"}, NonNegative)

MakeMeter(a) ==
    [interval |-> Or(a, "interval", 1), power   |-> Or(a, "power", Unset),
     var      |-> Or(a, "var", Unset),  factor  |-> Or(a, "factor", Unset),
     leading  |-> Or(a, "leading", 0),  hidden  |-> Or(a, "hidden", 0),
     jitter   |-> Or(a, "jitter", 0)]
MeterRefuses(a) ==
    \/ {"var", "factor"} \subseteq DOMAIN a
    \/ "leading" \in DOMAIN a /\ "factor" \notin DOMAIN a
    \/ "factor" \in DOMAIN a /\ a.factor # 1         \* 1: within (0, 1]

BatteryKeys == {"capacity", "soc", "lower", "upper", "margin"}
MakeBattery(a) ==
    [k \in BatteryKeys \cup {"interval", "jitter"} |-> Or(a, k, IF k = "jitter" THEN 0 ELSE 1)]

\* What both inverters take; without a keyword the pf limit is 2 (0.35).
Inverter(a) ==
    [lower    |-> Or(a, "lower", 1),    upper    |-> Or(a, "upper", 1),
     delay    |-> Or(a, "delay", 0),    ramp     |-> Or(a, "ramp", Inf),
     interval |-> Or(a, "interval", 1), jitter   |-> Or(a, "jitter", 0),
     device   |-> Or(a, "device", 1)]
Reactive(a) ==
    [pfLimit |-> Or(a, "pfLimit", 2), apparent |-> Or(a, "apparent", 0),
     qDelay  |-> Or(a, "qDelay", 1),  qRamp    |-> Or(a, "qRamp", 2)]
MakeBatteryInverter(a) == Over(Inverter(a), Reactive(a))

\* An array without a peak of its own matches the lower end of its band.
MakeSolarInverter(a) ==
    Over([array   |-> Or(a, "array", Or(a, "lower", 1)),
          lag     |-> Or(a, "lag", Unset),
          rough   |-> Or(a, "rough", 0)], MakeBatteryInverter(a))
SolarRefuses(a) ==
    \/ Outside(a, {"array"}, 1..Inf)
    \/ Outside(a, {"lag", "rough"}, 0..1)   \* 2: past the hour, past 100 %

MakeEvCharger(a) ==
    [lower    |-> Or(a, "lower", 1),    upper    |-> Or(a, "upper", 1),
     delay    |-> Or(a, "delay", 1),    ramp     |-> Or(a, "ramp", Inf),
     interval |-> Or(a, "interval", 1), jitter   |-> Or(a, "jitter", 0),
     device   |-> Or(a, "device", 1),   phases   |-> Or(a, "phases", 3),
     idle     |-> Or(a, "idle", 0),     resume   |-> Or(a, "resume", 0)]
EvRefuses(a) == Outside(a, {"phases"}, {1, 3})

\* A boiler without a pressure to start from starts at its target.
MakeSteamBoiler(a) ==
    [lower    |-> Or(a, "lower", 0),    upper    |-> Or(a, "upper", 1),
     target   |-> Or(a, "target", 1),   max      |-> Or(a, "max", 2),
     start    |-> Or(a, "start", Or(a, "target", 1)),
     perBar   |-> Or(a, "perBar", 1),   perKg    |-> Or(a, "perKg", 1),
     delay    |-> Or(a, "delay", 1),    ramp     |-> Or(a, "ramp", Inf),
     interval |-> Or(a, "interval", 1), jitter   |-> Or(a, "jitter", 0),
     device   |-> Or(a, "device", 1)]
BoilerRefuses(a) == LET b == MakeSteamBoiler(a) IN ~(b.max >= b.target /\ b.target > 0)

MakeMarker(a) == [jitter |-> Or(a, "jitter", 0)]

Make(c, a) ==
    CASE c = "grid"     -> MakeGrid(a)
      [] c = "meter"    -> MakeMeter(a)
      [] c = "battery"  -> MakeBattery(a)
      [] c = "inverter" -> MakeBatteryInverter(a)
      [] c = "solar"    -> MakeSolarInverter(a)
      [] c = "charger"  -> MakeEvCharger(a)
      [] c = "boiler"   -> MakeSteamBoiler(a)
      [] c = "marker"   -> MakeMarker(a)
Categories == {"grid", "meter", "battery", "inverter", "solar", "charger", "boiler", "marker"}

Refuses(c, a) ==
    \/ Outside(a, Seconds, NonNegative \ {Inf})
    \/ Outside(a, Rates, NonNegative)
    \/ c = "grid" /\ GridRefuses(a)
    \/ c = "meter" /\ MeterRefuses(a)
    \/ c = "solar" /\ SolarRefuses(a)
    \/ c = "charger" /\ EvRefuses(a)
    \/ c = "boiler" /\ BoilerRefuses(a)

\* The plists as shipped (sim/defaults.lisp).
Shipped ==
    [grid     |-> [fuse |-> 1, jitter |-> 1],
     meter    |-> [interval |-> 2, jitter |-> 1],
     battery  |-> [margin |-> 1, jitter |-> 1],
     inverter |-> [delay |-> 1, ramp |-> 1, jitter |-> 1, pfLimit |-> 0, apparent |-> 1],
     solar    |-> [ramp |-> 1, jitter |-> 1],
     charger  |-> [delay |-> 1, ramp |-> 1, jitter |-> 1],
     boiler   |-> [delay |-> 1, ramp |-> 1, jitter |-> 1],
     marker   |-> [jitter |-> 0]]

-----------------------------------------------------------------------------
(* The keywords a save renders: some always, others unless at one value.    *)

Unless(g, k, v) == IF g[k] # v THEN {k} ELSE {}
IfFinite(g, k) == IF g[k] \notin {Unset, Inf} THEN {k} ELSE {}

GridKwargs(g) ==
    Unless(g, "fuse", 0) \cup Unless(g, "lower", Unset) \cup Unless(g, "upper", Unset)
        \cup Unless(g, "jitter", 0)
MeterKwargs(g) ==
    UNION {Unless(g, "interval", 1), IfFinite(g, "power"), IfFinite(g, "var"),
           Unless(g, "factor", Unset), Unless(g, "leading", 0), Unless(g, "hidden", 0),
           Unless(g, "jitter", 0)}
BatteryKwargs(g) == BatteryKeys \cup Unless(g, "interval", 1) \cup Unless(g, "jitter", 0)
Timing(g) ==
    UNION {IfFinite(g, "ramp"), Unless(g, "interval", 1), Unless(g, "jitter", 0),
           Unless(g, "device", 1)}
\* A cap that is off left out like the rates (a mutant).
InverterKwargsSparse(g) ==
    {"lower", "upper", "delay", "apparent", "qDelay"}
        \cup Timing(g) \cup IfFinite(g, "qRamp") \cup Unless(g, "pfLimit", 0)

InverterKwargs(g) ==
    {"lower", "upper", "delay", "pfLimit", "apparent", "qDelay"}
        \cup Timing(g) \cup IfFinite(g, "qRamp")
SolarKwargs(g) ==
    InverterKwargs(g) \cup Unless(g, "array", g.lower) \cup Unless(g, "lag", Unset)
        \cup Unless(g, "rough", 0)
EvKwargs(g) ==
    {"lower", "upper", "delay"} \cup Timing(g) \cup Unless(g, "phases", 3)
        \cup Unless(g, "idle", 0) \cup Unless(g, "resume", 0)
BoilerKwargs(g) ==
    {"upper", "target", "max", "delay"} \cup Timing(g) \cup Unless(g, "lower", 0)
        \cup Unless(g, "start", g.target) \cup Unless(g, "perBar", 1) \cup Unless(g, "perKg", 1)
MarkerKwargs(g) == Unless(g, "jitter", 0)

Kwargs(c, g) ==
    CASE c = "grid"     -> GridKwargs(g)
      [] c = "meter"    -> MeterKwargs(g)
      [] c = "battery"  -> BatteryKwargs(g)
      [] c = "inverter" -> InverterKwargs(g)
      [] c = "solar"    -> SolarKwargs(g)
      [] c = "charger"  -> EvKwargs(g)
      [] c = "boiler"   -> BoilerKwargs(g)
      [] c = "marker"   -> MarkerKwargs(g)
Saved(c, g) == [k \in Kwargs(c, g) |-> g[k]]

-----------------------------------------------------------------------------
Offers(k) ==
    CASE k \in Seconds \cup Rates -> {-1, 0, 1, 2, Inf}
      [] k \in {"power", "var"} -> {0, 1, Inf}
      [] k = "phases" -> {1, 2, 3}
      [] k \in {"factor", "lag", "rough", "array", "fuse", "target", "max"} -> {-1, 0, 1, 2}
      [] OTHER -> {0, 1}
Keys(c) == DOMAIN Make(c, Shipped[c])
Forms ==
    [c \in Categories |->
        UNION {{a \in [K -> -1..Inf] : \A k \in K : a[k] \in Offers(k)} :
                  K \in {S \in SUBSET Keys(c) : Cardinality(S) <= MaxArgs}}]

Init ==
    /\ category \in Categories
    /\ config = Absent
    /\ file = <<>>
    /\ defaults = Shipped[category]
    /\ edits = 0

\* An eval builds the component, through the wrapper or bare, and saves it.
Eval(a, bare) ==
    LET args == IF bare THEN a ELSE Over(a, defaults) IN
    /\ config = Absent
    /\ ~Refuses(category, args)
    /\ config' = Make(category, args)
    /\ file' = Saved(category, config')
    /\ UNCHANGED <<category, defaults, edits>>

\* Another eval on the site saves it again.
SaveAgain ==
    /\ config # Absent
    /\ file' = Saved(category, config)
    /\ UNCHANGED <<category, config, defaults, edits>>

\* The category's plist is edited; enterprise.lisp keeps it.
EditDefaults(k, v) ==
    /\ edits < MaxEdits
    /\ edits' = edits + 1
    /\ defaults' = Over([j \in {k} |-> v], defaults)
    /\ UNCHANGED <<category, config, file>>

\* A reload evaluates the saved form, which names the primitive.
Reload ==
    /\ config # Absent
    /\ config' = IF Refuses(category, file) THEN Absent ELSE Make(category, file)
    /\ UNCHANGED <<category, file, defaults, edits>>

Next ==
    \/ \E a \in Forms[category], bare \in BOOLEAN : Eval(a, bare)
    \/ SaveAgain
    \/ \E k \in Keys(category) : \E v \in Offers(k) : EditDefaults(k, v)
    \/ Reload

Spec == Init /\ [][Next]_vars

-----------------------------------------------------------------------------
\* A save is "such that re-evaluating the result reproduces the same site"
\* (microgrid_file.rs:492), an inverter's limits included, which are not
\* to be omitted where that would "resurrect" a default (inverter/mod.rs:95):
\* a reload of what was saved rebuilds the inverter as it is.
InvertersRebuild ==
    category \in {"inverter", "solar"} /\ config # Absent =>
        ~Refuses(category, file) /\ Make(category, file) = config

\* What was saved is never refused on the way back, and whatever the defaults
\* were at the eval or are now, a reload changes nothing but a value that has
\* no number a file could hold: a reactive ramp without limit or a meter's
\* power.  A cap that is off comes back off, and a ramp without limit comes
\* back without one (inverter/mod.rs:72-119, meter.rs:348-377,
\* microgrid_file.rs:505).
OnlyUnlimitedDrifts ==
    [][config # Absent /\ config' # config =>
         /\ config' # Absent
         /\ \A k \in DOMAIN config : config'[k] # config[k] =>
               config[k] = Inf /\ k \in {"qRamp", "power", "var"}]_vars
=============================================================================
