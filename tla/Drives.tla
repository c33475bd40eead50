------------------------------- MODULE Drives -------------------------------
(***************************************************************************)
(* One driven input of a component - a meter's active or reactive power, a  *)
(* solar inverter's sunlight, a boiler's steam demand, a charger's car -    *)
(* from the moment it is built: what Lisp and the HTTP drive route do to    *)
(* it, what a scenario's stop puts back, what the component's constructor   *)
(* call in a saved file says of it, and what a client that follows the      *)
(* KnobChanged events shows (src/lisp/defuns/load_drivers.rs,               *)
(* src/ui/handlers/control.rs, src/sim/microgrid_site/scenarios.rs and the  *)
(* components).  A meter's two inputs share nothing but the OR in its       *)
(* has_unrenderable_source, so each is modelled by itself; a request over   *)
(* both is two calls, since after its checks only a car can refuse.         *)
(*                                                                          *)
(* A call takes its snapshot, writes and announces in three steps, between  *)
(* which the other door may act: "lisp" is the interpreter, one call at a   *)
(* time, "http" the route, which does not take the interpreter's lock.      *)
(***************************************************************************)
EXTENDS Integers

CONSTANTS
    Nothing,        \* no number, no snapshot
    Values,         \* the numbers each input may be driven with
    Top             \* power factors, charge and what expressions read: 0..Top

ASSUME DrivesAssumption ==
    /\ \A k \in DOMAIN Values : Values[k] \subseteq Int
    /\ DOMAIN Values = {"MeterPower", "MeterReactive", "Sunlight", "BoilerDemand", "Ev"}
    /\ Top \in Nat

VARIABLES
    kind,           \* which input it is, chosen at the start
    slot,           \* the live source
    told,           \* what the constructor was told (constructed_*, cfg)
    reads,          \* what the Lisp expressions read now; Nothing is no number
    scenario,       \* the scenario journal: started and not ended
    kept,           \* scenario_knob_baseline: source and constructor's, or Nothing
    call,           \* the call each door is in
    view,           \* the client's inputs
    asked,          \* ghost: some call on a car of this run got past its checks
    crossed         \* ghost: two calls overlapped since the client last read

driveVars == <<kind, slot, told, reads, scenario, kept, call, view, asked, crossed>>

Kinds == {"MeterPower", "MeterReactive", "Sunlight", "BoilerDemand", "Ev"}
Meters == {"MeterPower", "MeterReactive"}
Doors == {"lisp", "http"}
Other(d) == CHOOSE e \in Doors : e # d

-----------------------------------------------------------------------------
(* Sources.  Free is a meter that measures its children, an inverter that   *)
(* follows the weather, a charger without a car.                            *)

Free == [shape |-> "free", value |-> 0]
Number(v) == [shape |-> "number", value |-> v]
Expr(v) == [shape |-> "lisp", value |-> v]
Factor(v) == [shape |-> "factor", value |-> v]
Car(soc) == [shape |-> "car", value |-> soc]

Numbers == {Number(v) : v \in Values[kind]}
Factors == {Factor(v) : v \in 1..Top}
Cars == {Car(v) : v \in 0..Top}

\* An expression reads a fallback until the first refresh.
Expression == Expr(0)

\* What an expression yields; one that gives no number keeps what it had.
Refreshed(s) == IF s.shape = "lisp" /\ reads # Nothing THEN Expr(reads) ELSE s

-----------------------------------------------------------------------------
(* What the constructors are told.                                         *)

MadeMeter ==
    Numbers \cup {Expression, Free} \cup (IF kind = "MeterReactive" THEN Factors ELSE {})
MadeSolar == Numbers \cup {Expression, Free}
MadeBoiler == Numbers \cup {Expression}
MadeCharger == {Free}

Made ==
    CASE kind \in Meters -> MadeMeter
      [] kind = "Sunlight" -> MadeSolar
      [] kind = "BoilerDemand" -> MadeBoiler
      [] OTHER -> MadeCharger

\* A meter keeps no expression as its constructor's; an inverter and a
\* boiler remember for good that they were built with one.
MeterBuilt(s) == IF s.shape = "lisp" THEN Free ELSE s

Built(s) == IF kind \in Meters THEN MeterBuilt(s) ELSE s

-----------------------------------------------------------------------------
(* What a save writes of it, and when the save says that something is lost. *)

MeterUnrenderable == told = Free /\ slot # Free
SolarUnrenderable ==
    slot # Free /\ (told.shape = "lisp" \/ slot.shape = "lisp" \/ told = Free)
BoilerUnrenderable == told.shape = "lisp" \/ slot.shape = "lisp"

HasUnrenderableSource ==
    CASE kind \in Meters -> MeterUnrenderable
      [] kind = "Sunlight" -> SolarUnrenderable
      [] kind = "BoilerDemand" -> BoilerUnrenderable
      [] OTHER -> FALSE

\* The numbers are finite ones: of any other the file would say nothing, which
\* is Constructors' to tell.
MeterKwarg == told
SolarKwarg == IF told.shape = "number" /\ slot # Free THEN told ELSE Free
BoilerKwarg == IF told.shape = "number" THEN told ELSE Number(0)

\* The input of the component that a reload of the file builds.
Reloaded ==
    CASE kind \in Meters -> MeterKwarg
      [] kind = "Sunlight" -> SolarKwarg
      [] kind = "BoilerDemand" -> BoilerKwarg
      [] OTHER -> Free

-----------------------------------------------------------------------------
(* The client's inputs: one per token; both of a meter's reactive tokens    *)
(* stand for one slot.                                                      *)

Tokens == {"own", "factor"}
Blank == [t \in Tokens |-> Free]
TokenOf(s) == IF s.shape = "factor" THEN "factor" ELSE "own"

\* What an input shows of a source; an expression's number is left out, since
\* it changes without an event.
Shown(s) == IF s.shape = "lisp" THEN Expression ELSE s

\* A reading, as a fetch of the component and a stop's broadcast give it.
Reading(s) == [Blank EXCEPT ![TokenOf(s)] = Shown(s)]

\* What the client shows once a call announced s: a clear blanks both inputs.
Announced(s) == IF s = Free THEN Blank ELSE [view EXCEPT ![TokenOf(s)] = s]

-----------------------------------------------------------------------------
Quiet == [at |-> "idle"]

DrivesInit ==
    /\ kind \in Kinds
    /\ slot \in Made
    /\ told = Built(slot)
    /\ reads = 0
    /\ scenario = FALSE
    /\ kept = Nothing
    /\ call = [d \in Doors |-> Quiet]
    /\ view = Reading(slot)
    /\ asked = FALSE /\ crossed = FALSE

\* A car is plugged into an empty charger only; its charge and its unplugging
\* need one.
Admits(s) ==
    /\ s.shape = "car" => slot = Free
    /\ s.shape = "soc" \/ (kind = "Ev" /\ s = Free) => slot.shape = "car"

\* A call that drives the input with s and is not refused at once.
AskDrive(door, s) ==
    /\ call[door] = Quiet
    /\ Admits(s)
    /\ call' = [call EXCEPT ![door] = [at |-> "snapshot", to |-> s]]
    /\ asked' = (kind = "Ev")
    /\ UNCHANGED <<kind, slot, told, reads, scenario, kept, view, crossed>>

\* An argument that is neither number, function nor symbol is refused after
\* the snapshot.
Wrong == [shape |-> "wrong", value |-> 0]

Soc(v) == [shape |-> "soc", value |-> v]
Socs == {Soc(v) : v \in 0..Top}

SetMeterPower ==
    kind = "MeterPower" /\ \E s \in Numbers \cup {Expression, Wrong} : AskDrive("lisp", s)
ClearMeterPower == kind = "MeterPower" /\ AskDrive("lisp", Free)
SetMeterReactivePower ==
    kind = "MeterReactive" /\ \E s \in Numbers \cup {Expression, Wrong} : AskDrive("lisp", s)
SetMeterPowerFactor == kind = "MeterReactive" /\ \E s \in Factors : AskDrive("lisp", s)
ClearMeterReactive == kind = "MeterReactive" /\ AskDrive("lisp", Free)
SetSolarSunlight ==
    kind = "Sunlight" /\ \E s \in Numbers \cup {Expression, Wrong} : AskDrive("lisp", s)
ClearSolarSunlight == kind = "Sunlight" /\ AskDrive("lisp", Free)
SetBoilerDemand ==
    kind = "BoilerDemand" /\ \E s \in Numbers \cup {Expression, Wrong} : AskDrive("lisp", s)
PlugEv == kind = "Ev" /\ \E s \in Cars : AskDrive("lisp", s)
UnplugEv == kind = "Ev" /\ AskDrive("lisp", Free)
SetBatterySoc == kind = "Ev" /\ \E s \in Socs : AskDrive("lisp", s)

\* The drive route takes numbers, power factors and clears.
DriveFields ==
    CASE kind = "MeterPower" -> Numbers \cup {Free}
      [] kind = "MeterReactive" -> Numbers \cup Factors \cup {Free}
      [] kind = "Sunlight" -> Numbers \cup {Free}
      [] kind = "BoilerDemand" -> Numbers
      [] OTHER -> Socs
ApplyDrive == \E s \in DriveFields : AskDrive("http", s)

-----------------------------------------------------------------------------
(* The steps of a call.                                                    *)

To(door, at) == [call EXCEPT ![door].at = at]
Done(door) == [call EXCEPT ![door] = Quiet]

\* The first snapshot of a run wins.
Snapshot(door) ==
    /\ call[door].at = "snapshot"
    /\ kept' = IF scenario /\ kept = Nothing THEN [source |-> slot, told |-> told] ELSE kept
    /\ call' = IF call[door].to = Wrong THEN Done(door) ELSE To(door, "write")
    /\ UNCHANGED <<kind, slot, told, reads, scenario, view, asked, crossed>>

\* A plausible slip: a cleared meter keeps its constructor's value.
MeterDrivenKeeping(s) == slot' = s /\ UNCHANGED told

\* A cleared meter forgets its constructor's value too.
MeterDriven(s) == slot' = s /\ told' = (IF s = Free THEN Free ELSE told)

SolarDriven(s) == slot' = s /\ UNCHANGED told
BoilerDriven(s) == slot' = s /\ UNCHANGED told

\* A charge is written into the car that is there when the write comes.
ChargerDriven(s) ==
    /\ slot' = IF s.shape # "soc" THEN s ELSE IF slot = Free THEN slot ELSE Car(s.value)
    /\ UNCHANGED told

Driven(s) ==
    CASE kind \in Meters -> MeterDriven(s)
      [] kind = "Sunlight" -> SolarDriven(s)
      [] kind = "BoilerDemand" -> BoilerDriven(s)
      [] OTHER -> ChargerDriven(s)

\* A charge is not announced.
WriteDrive(door) ==
    /\ call[door].at = "write"
    /\ Driven(call[door].to)
    /\ crossed' = (crossed \/ call[Other(door)] # Quiet)
    /\ call' = IF call[door].to.shape = "soc" THEN Done(door) ELSE To(door, "announce")
    /\ UNCHANGED <<kind, reads, scenario, kept, view, asked>>

Announce(door) ==
    /\ call[door].at = "announce"
    /\ view' = Announced(call[door].to)
    /\ call' = Done(door)
    /\ UNCHANGED <<kind, slot, told, reads, scenario, kept, asked, crossed>>

-----------------------------------------------------------------------------
(* The scenario: a start stops a running one first and clears what an       *)
(* earlier run left; a stop takes the snapshot, writes it back, refreshes   *)
(* the component and announces what it then reads.                          *)

Start ==
    /\ call["lisp"] = Quiet /\ ~scenario
    /\ scenario' = TRUE
    /\ asked' = (kind = "Ev" /\ call["http"] # Quiet)
    /\ call' = [call EXCEPT !["lisp"] = [at |-> "start"]]
    /\ UNCHANGED <<kind, slot, told, reads, kept, view, crossed>>

StartAfresh ==
    /\ call["lisp"].at = "start"
    /\ kept' = Nothing
    /\ call' = Done("lisp")
    /\ UNCHANGED <<kind, slot, told, reads, scenario, view, asked, crossed>>

Stop ==
    /\ call["lisp"] = Quiet
    /\ scenario' = FALSE
    /\ call' = [call EXCEPT !["lisp"] = [at |-> "take"]]
    /\ UNCHANGED <<kind, slot, told, reads, kept, view, asked, crossed>>

Take ==
    /\ call["lisp"].at = "take"
    /\ kept' = Nothing
    /\ call' = IF kept = Nothing THEN Done("lisp")
             ELSE [call EXCEPT !["lisp"] = [at |-> "restore", from |-> kept]]
    /\ UNCHANGED <<kind, slot, told, reads, scenario, view, asked, crossed>>

\* A meter gets its constructor's value back with the source; the others
\* never lost theirs.
Restore ==
    /\ call["lisp"].at = "restore"
    /\ slot' = call["lisp"].from.source
    /\ told' = IF kind \in Meters THEN call["lisp"].from.told ELSE told
    /\ crossed' = (crossed \/ call["http"] # Quiet)
    /\ call' = To("lisp", "refresh")
    /\ UNCHANGED <<kind, reads, scenario, kept, view, asked>>

\* A plausible slip: the expression is left to the next refresh.
StopWithoutRefresh ==
    /\ call["lisp"].at = "refresh"
    /\ call' = To("lisp", "broadcast")
    /\ UNCHANGED <<kind, slot, told, reads, scenario, kept, view, asked, crossed>>

StopRefresh ==
    /\ call["lisp"].at = "refresh"
    /\ slot' = Refreshed(slot)
    /\ call' = To("lisp", "broadcast")
    /\ UNCHANGED <<kind, told, reads, scenario, kept, view, asked, crossed>>

BroadcastRestored ==
    /\ call["lisp"].at = "broadcast"
    /\ view' = Reading(slot)
    /\ call' = Done("lisp")
    /\ UNCHANGED <<kind, slot, told, reads, scenario, kept, asked, crossed>>

-----------------------------------------------------------------------------
(* The rest of the program: the refresh before a tick and whatever the      *)
(* expressions read, both under the interpreter's lock; a car that charges; *)
(* a client that fetches the component anew.                                *)

RefreshInputs ==
    /\ call["lisp"] = Quiet
    /\ slot' = Refreshed(slot)
    /\ UNCHANGED <<kind, told, reads, scenario, kept, call, view, asked, crossed>>

Rebind ==
    /\ call["lisp"] = Quiet
    /\ reads' \in 0..Top \cup {Nothing}
    /\ UNCHANGED <<kind, slot, told, scenario, kept, call, view, asked, crossed>>

Charge ==
    /\ slot.shape = "car" /\ slot.value < Top
    /\ slot' = Car(slot.value + 1)
    /\ UNCHANGED <<kind, told, reads, scenario, kept, call, view, asked, crossed>>

Fetch ==
    /\ \A d \in Doors : call[d] = Quiet
    /\ view' = Reading(slot)
    /\ crossed' = FALSE
    /\ UNCHANGED <<kind, slot, told, reads, scenario, kept, call, asked>>

DrivesNext ==
    \/ SetMeterPower \/ ClearMeterPower \/ SetMeterReactivePower
    \/ SetMeterPowerFactor \/ ClearMeterReactive
    \/ SetSolarSunlight \/ ClearSolarSunlight \/ SetBoilerDemand
    \/ PlugEv \/ UnplugEv \/ SetBatterySoc \/ ApplyDrive
    \/ \E d \in Doors : Snapshot(d) \/ WriteDrive(d) \/ Announce(d)
    \/ Start \/ StartAfresh
    \/ Stop \/ Take \/ Restore \/ StopRefresh \/ BroadcastRestored
    \/ RefreshInputs \/ Rebind \/ Charge \/ Fetch

DrivesSpec == DrivesInit /\ [][DrivesNext]_driveVars

-----------------------------------------------------------------------------
(* Properties.                                                             *)

\* A component that a save does not report as losing something is, built from
\* the saved file, driven exactly if it was (has_unrenderable_source and
\* constructor_kwargs of meter.rs, solar_inverter.rs, steam_boiler.rs).
SavesRoundTrip ==
    kind # "Ev" /\ ~HasUnrenderableSource => (Reloaded = Free <=> slot = Free)

\* Whatever door wrote last, and after a stop, the client's input for the
\* source in force shows it, unless two calls overlapped; with none in force
\* both inputs are blank (events.rs:134-161, load_drivers.rs:279-286).
ClientsHear ==
    (\A d \in Doors : call[d] = Quiet) /\ ~crossed =>
        IF slot = Free THEN view = Blank
        ELSE /\ view[TokenOf(slot)].shape = slot.shape
             /\ slot.shape \in {"number", "factor"} => view[TokenOf(slot)] = slot

\* What a stop announces of an expression is its value of now, not the one
\* the snapshot caught (scenarios.rs:316-330).
StopTellsNow ==
    [][call["lisp"].at = "broadcast" /\ call'["lisp"] = Quiet /\ slot.shape = "lisp"
          /\ reads # Nothing => slot.value = reads]_driveVars

\* A stop winds a car back only when a call of its run got past its checks
\* (load_drivers.rs:621-627).
RewindsOnlyAsked ==
    [][call["lisp"].at = "restore" /\ kind = "Ev" /\ slot' # slot => asked]_driveVars

ClientsAreTold == []ClientsHear /\ StopTellsNow /\ RewindsOnlyAsked

-----------------------------------------------------------------------------
(* The inductive invariant behind them.                                    *)

Shapes ==
    CASE kind \in Meters -> {"free", "number", "lisp", "factor"}
      [] kind = "Sunlight" -> {"free", "number", "lisp"}
      [] kind = "BoilerDemand" -> {"number", "lisp"}
      [] OTHER -> {"free", "car"}

Source == {s \in [shape : Shapes, value : Int] : s.shape = "free" => s = Free}

\* What a call may be asked to write, and a snapshot.
Argument == Source \cup [shape : {"soc"}, value : Int] \cup {Wrong}
Kept == {b \in [source : Source, told : Source] :
            kind \in Meters /\ b.source = Free => b.told = Free}

Calls == [at : {"snapshot", "write", "announce"}, to : Argument]
Restores == [at : {"restore", "refresh", "broadcast"}, from : Kept]

DrivesTypeOK ==
    /\ kind \in Kinds
    /\ slot \in Source /\ told \in Source
    /\ reads \in Int \cup {Nothing}
    /\ scenario \in BOOLEAN /\ asked \in BOOLEAN /\ crossed \in BOOLEAN
    /\ kept \in Kept \cup {Nothing}
    /\ call \in [Doors -> {Quiet} \cup [at : {"start", "take"}] \cup Calls \cup Restores]
    /\ view \in [Tokens -> Source \cup {Free, Expression}]

\* Only the interpreter stops and starts, and drives with expressions; what
\* gets as far as its write is not refused, a charge is no longer.
CallsAreAllowed ==
    /\ call["http"] \in {Quiet} \cup Calls
    /\ \A d \in Doors : call[d] \in Calls =>
        /\ d = "http" => call[d].to.shape # "lisp"
        /\ call[d].to.shape = "lisp" => call[d].to = Expression
        /\ call[d].at # "snapshot" => call[d].to # Wrong
        /\ call[d].at = "announce" => call[d].to.shape # "soc"
        /\ call[d].to.shape = "soc" => kind = "Ev"

\* A meter that measures its children was told nothing, or has forgotten it.
FreeWasToldNothing == kind \in Meters /\ slot = Free => told = Free

\* What the client shows of a source.
Shows(s) ==
    IF s = Free THEN view = Blank
    ELSE /\ view[TokenOf(s)].shape = s.shape
         /\ s.shape \in {"number", "factor"} => view[TokenOf(s)] = s

\* A door that wrote and has not told yet.
Owes(d) == call[d].at \in {"announce", "refresh", "broadcast"}

\* Unless two calls overlapped, one door at most owes the client the source
\* in force, and none when it shows it.
OneDoorOwes ==
    ~crossed =>
        /\ ~(Owes("lisp") /\ Owes("http"))
        /\ (\A d \in Doors : ~Owes(d)) => Shows(slot)
        /\ \A d \in Doors : call[d].at = "announce" =>
            /\ slot.shape = call[d].to.shape
            /\ slot.shape # "car" => slot.shape = "lisp" \/ slot = call[d].to

RefreshedIsNow ==
    call["lisp"].at = "broadcast" /\ slot.shape = "lisp" /\ reads # Nothing => slot.value = reads

\* A car is rewound from a snapshot some call of the run asked for.
RunWasAsked ==
    kind = "Ev" =>
        /\ kept # Nothing /\ call["lisp"].at # "start" => asked
        /\ call["lisp"].at = "restore" => asked
        /\ \A d \in Doors : call[d].at \in {"snapshot", "write"} => asked

DrivesIInv ==
    /\ DrivesTypeOK /\ CallsAreAllowed /\ FreeWasToldNothing
    /\ OneDoorOwes /\ RefreshedIsNow /\ RunWasAsked
=============================================================================
