------------------------------ MODULE Frequency ------------------------------
(***************************************************************************)
(* The grid frequency that every microgrid shares: the process of            *)
(* src/src/sim/frequency.rs and its setters of                               *)
(* src/src/lisp/defuns/frequency.rs.                                         *)
(*                                                                         *)
(* Frequencies are integers, and Astray is any number that is not finite: a  *)
(* setter lets one through that an f64 holds and an f32 does not.  A rate is  *)
(* what it does within a step: 0 is no pull, Gentle one that falls short of  *)
(* the nominal value, and Harsh one that may go past it, as far as an f32    *)
(* holds or farther.  -1 is a rate or a sigma below 0 or not a number.       *)
(***************************************************************************)
EXTENDS Integers

CONSTANTS
    Astray,         \* a number that is not finite
    Hz,             \* the frequencies a run may see
    Nominal,        \* NOMINAL_HZ
    Gentle, Harsh,  \* rates
    Stepping,       \* whether a driver steps the model, or the run is headless
    Calls           \* the keys a call may carry, with their values

VARIABLES
    baseModel,      \* the model the driver follows by default
    override,       \* the one it follows instead, if any
    hz,             \* the frequency
    layers          \* the base when the override was made, and what was given
                    \* to it since (history)

frequencyVars == <<baseModel, override, hz, layers>>

Keys == {"nominal", "rate", "sigma"}
ValuesOf(k) == CASE k = "nominal" -> Hz \cup {Astray}
               [] k = "rate" -> {0, Gentle, Harsh, Astray}
               [] k = "sigma" -> {0, 1, Astray}
Model == {m \in [Keys -> UNION {ValuesOf(k) : k \in Keys}] : \A k \in Keys : m[k] \in ValuesOf(k)}
NoModel == <<>>

ASSUME FrequencyAssumption ==
    /\ Hz \subseteq Nat /\ Nominal \in Hz /\ Astray \notin Int
    /\ {Gentle, Harsh} \cap {-1, 0, Astray} = {} /\ Gentle # Harsh
    /\ \A change \in Calls :
        /\ DOMAIN change \subseteq Keys
        /\ \A k \in DOMAIN change :
            change[k] \in ValuesOf(k) \cup (IF k = "nominal" THEN {} ELSE {-1})

\* `max(0.0)`, which makes 0 of what is not a number as well.
Kept(k, v) == IF k # "nominal" /\ v = -1 THEN 0 ELSE v

\* apply_overrides: only the keys a call carries.
Applied(model, change) ==
    [k \in Keys |-> IF k \in DOMAIN change THEN Kept(k, change[k]) ELSE model[k]]

Usually == [k \in Keys |-> CASE k = "nominal" -> Nominal [] k = "rate" -> Gentle [] OTHER -> 1]

Active == IF override = NoModel THEN baseModel ELSE override

FrequencyInit ==
    /\ baseModel = Usually /\ override = NoModel /\ hz = Nominal
    /\ layers = [over |-> Usually, given |-> <<>>]

-----------------------------------------------------------------------------
SetFrequency(v) ==
    /\ hz' = v
    /\ UNCHANGED <<baseModel, override, layers>>

SetFrequencyModel(change) ==
    /\ baseModel' = Applied(baseModel, change)
    /\ UNCHANGED <<override, hz, layers>>

\* A plausible slip: every call starts from the base.
OverrideFromBase(change) ==
    /\ override' = Applied(baseModel, change)
    /\ layers' = [over |-> IF override = NoModel THEN baseModel ELSE layers.over,
                  given |-> [k \in DOMAIN change \cup
                                 (IF override = NoModel THEN {} ELSE DOMAIN layers.given) |->
                                IF k \in DOMAIN change THEN change[k] ELSE layers.given[k]]]
    /\ UNCHANGED <<baseModel, hz>>

\* A key that is left out is taken from the model in use.
OverrideFrequencyModel(change) ==
    /\ override' = Applied(Active, change)
    /\ layers' = [over |-> IF override = NoModel THEN baseModel ELSE layers.over,
                  given |-> [k \in DOMAIN change \cup
                                 (IF override = NoModel THEN {} ELSE DOMAIN layers.given) |->
                                IF k \in DOMAIN change THEN change[k] ELSE layers.given[k]]]
    /\ UNCHANGED <<baseModel, hz>>

ClearFrequencyOverride ==
    /\ override' = NoModel
    /\ UNCHANGED <<baseModel, hz, layers>>

\* What a step makes of a frequency: a number that is not finite anywhere in it
\* stays; otherwise the pull, and any noise on top of it.
Stepped(f, model) ==
    IF Astray \in {f} \cup {model[k] : k \in Keys} THEN {Astray}
    ELSE IF model["rate"] = Harsh THEN Hz \cup {Astray}
    ELSE IF model["sigma"] # 0 THEN Hz
    ELSE IF model["rate"] = 0 THEN {f}
    ELSE {g \in Hz : \/ f <= g /\ g <= model["nominal"]
                     \/ model["nominal"] <= g /\ g <= f}

\* The driver's step, which first puts a frequency that is not finite right.
FrequencyStep ==
    /\ Stepping
    /\ hz' \in Stepped(IF hz = Astray THEN Active["nominal"] ELSE hz, Active)
    /\ UNCHANGED <<baseModel, override, layers>>

FrequencyNext ==
    \/ \E v \in Hz \cup {Astray} : SetFrequency(v)
    \/ \E change \in Calls :
        SetFrequencyModel(change) \/ OverrideFrequencyModel(change)
    \/ ClearFrequencyOverride
    \/ FrequencyStep

FrequencySpec == FrequencyInit /\ [][FrequencyNext]_frequencyVars

-----------------------------------------------------------------------------
FrequencyTypeOK ==
    /\ baseModel \in Model /\ override \in Model \cup {NoModel}
    /\ hz \in Hz \cup {Astray}
    /\ layers.over \in Model /\ DOMAIN layers.given \subseteq Keys

\* An override is the base as it was when the override was made under what was
\* given to it since, key by key: neither a later call nor a change of the
\* base takes anything back (frequency.rs: FrequencyModel,
\* defuns/frequency.rs:137-148).
LayersHold ==
    override # NoModel =>
        override = [k \in Keys |-> IF k \in DOMAIN layers.given THEN Kept(k, layers.given[k])
                                  ELSE layers.over[k]]

\* A model whose pull and noise are of an ordinary size.
IsTame(model) == Astray \notin {model[k] : k \in Keys} /\ model["rate"] # Harsh

\* Whatever was set or came about before, a step of a tame model leaves a
\* frequency that is a number, for every microgrid (frequency.rs:99-111).
StepsHeal == [][FrequencyStep /\ IsTame(Active) => hz' \in Hz]_frequencyVars

\* Both, of numbers that a run may see.
FrequencyIsSound == [](FrequencyTypeOK /\ LayersHold) /\ StepsHeal

FrequencyIInv == FrequencyTypeOK /\ LayersHold
=============================================================================
