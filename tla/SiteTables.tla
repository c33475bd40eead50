----------------------------- MODULE SiteTables -----------------------------
(***************************************************************************)
(* What a microgrid site keeps about its components, each part behind a    *)
(* lock of its own (src/sim/microgrid_site/mod.rs, history.rs,             *)
(* scenarios.rs).  The interpreter adds, removes and resets components and *)
(* runs scenarios, one operation at a time under its lock; physics, the    *)
(* history sampler, the setpoint log of the gRPC server and the UI's drive *)
(* route (src/ui/handlers/control.rs) take only the locks of the parts.    *)
(* A component is a number, its building; knob is what drives it.          *)
(***************************************************************************)
EXTENDS Integers, FiniteSets

CONSTANTS
    Empty,           \* no entry in a table
    Ids,            \* component ids
    DriveRequests,         \* requests to the UI's drive route
    KnobValues,         \* what a knob may be set to; it is built with AsBuilt
    AsBuilt,
    Rings,          \* whether the sampler and the setpoint log run
    MaxTicks,        \* bound on the physics ticks
    MaxBuilds,      \* bound on the components built
    MaxLisp         \* bound on the drives set by the interpreter

VARIABLES
    clock,          \* physics ticks so far
    builds,         \* components built so far
    comp,           \* the component registered under each id (components, by_id)
    knobs,           \* the drive of each component built
    energy,         \* component_energy: total and cursor, or None
    rings,          \* histories and setpoint_logs: when each entry was written
    running,        \* the scenario journal: started and not ended
    ebase,          \* the journal's energy_baseline_wh
    baseline,       \* scenario_knob_baseline
    interp,         \* the operation the interpreter is in
    pass,           \* the physics pass under way: the components it took
    sampler,        \* the ids the sampler or the setpoint log will write
    drive,          \* each drive request
    lisp,           \* drives set by the interpreter so far
    born,           \* when the component under each id was registered
    pre,            \* ghost: each knob before the scenario could touch it
    overlapped      \* ghost: ids driven across a start or a registration

tables == <<energy, rings, ebase, baseline>>
tableVars == <<clock, builds, comp, knobs, tables, running, interp, pass, sampler,
          drive, lisp, born, pre, overlapped>>

AtRest == [op |-> "idle"]
NoDrive == [pc |-> "idle"]
\* An empty entry is none of what the tables hold.
ASSUME TablesAssumption ==
    /\ MaxBuilds \in Nat
    /\ Empty \notin Int
    /\ Empty \notin [of : Int, value : KnobValues \cup {AsBuilt}]
    /\ Empty \notin [total : Int, ts : Int \cup {Empty}]

Registered == {i \in Ids : comp[i] # Empty}
InFlight == {d \in DriveRequests : drive[d].pc # "idle"}
DrivenIds == {drive[d].id : d \in InFlight}

TablesInit ==
    /\ clock = 0 /\ builds = 0 /\ lisp = 0
    /\ comp = [i \in Ids |-> Empty]
    /\ knobs = [b \in 1..MaxBuilds |-> AsBuilt]
    /\ energy = [i \in Ids |-> Empty]
    /\ rings = [i \in Ids |-> {}]
    /\ running = FALSE
    /\ ebase = [i \in Ids |-> Empty]
    /\ baseline = [i \in Ids |-> Empty]
    /\ interp = AtRest
    /\ pass = Empty
    /\ sampler = {}
    /\ drive = [d \in DriveRequests |-> NoDrive]
    /\ born = [i \in Ids |-> 0]
    /\ pre = [i \in Ids |-> Empty]
    /\ overlapped = {}

-----------------------------------------------------------------------------
(* The interpreter: register_arc, remove_component, reset.                 *)

\* The scenario forgets an id: its energy baseline and its knob snapshots, under
\* two locks, but no task and no drive uses the first.
WithoutId(i) ==
    /\ ebase' = [ebase EXCEPT ![i] = Empty]
    /\ baseline' = [baseline EXCEPT ![i] = Empty]

\* register_arc lists the component before it clears what a removal that
\* raced a writer may have left under the id.
Register(i) ==
    /\ interp = AtRest /\ i \notin Registered /\ builds < MaxBuilds
    /\ builds' = builds + 1
    /\ comp' = [comp EXCEPT ![i] = builds + 1]
    /\ born' = [born EXCEPT ![i] = clock]
    /\ interp' = [op |-> "register", id |-> i]
    /\ pre' = [pre EXCEPT ![i] = [of |-> builds + 1, value |-> AsBuilt]]
    /\ overlapped' = IF i \in DrivenIds THEN overlapped \union {i} ELSE overlapped
    /\ UNCHANGED <<clock, knobs, tables, running, pass, sampler, drive, lisp>>

RegisterEnergy ==
    /\ interp.op = "register"
    /\ energy' = [energy EXCEPT ![interp.id] = Empty]
    /\ interp' = [interp EXCEPT !.op = "register_rest"]
    /\ UNCHANGED <<clock, builds, comp, knobs, rings, ebase, baseline, running, pass,
                   sampler, drive, lisp, born, pre, overlapped>>

RegisterRest ==
    /\ interp.op = "register_rest"
    /\ WithoutId(interp.id)
    /\ rings' = [rings EXCEPT ![interp.id] = {}]
    /\ interp' = AtRest
    /\ UNCHANGED <<clock, builds, comp, knobs, energy, running, pass, sampler, drive,
                   lisp, born, pre, overlapped>>

Remove(i) ==
    /\ interp = AtRest /\ i \in Registered
    /\ comp' = [comp EXCEPT ![i] = Empty]
    /\ pre' = [pre EXCEPT ![i] = Empty]
    /\ overlapped' = IF i \in DrivenIds THEN overlapped \union {i} ELSE overlapped
    /\ interp' = [op |-> "remove", id |-> i]
    /\ UNCHANGED <<clock, builds, knobs, tables, running, pass, sampler, drive, lisp,
                   born>>

RemoveRows ==
    /\ interp.op = "remove"
    /\ energy' = [energy EXCEPT ![interp.id] = Empty]
    /\ rings' = [rings EXCEPT ![interp.id] = {}]
    /\ interp' = [interp EXCEPT !.op = "remove_rest"]
    /\ UNCHANGED <<clock, builds, comp, knobs, ebase, baseline, running, pass, sampler,
                   drive, lisp, born, pre, overlapped>>

RemoveRest ==
    /\ interp.op = "remove_rest"
    /\ WithoutId(interp.id)
    /\ interp' = AtRest
    /\ UNCHANGED <<clock, builds, comp, knobs, energy, rings, running, pass, sampler,
                   drive, lisp, born, pre, overlapped>>

ResetSite ==
    /\ interp = AtRest /\ Registered # {}
    /\ comp' = [i \in Ids |-> Empty]
    /\ pre' = [i \in Ids |-> Empty]
    /\ overlapped' = overlapped \union DrivenIds
    /\ interp' = [op |-> "reset"]
    /\ UNCHANGED <<clock, builds, knobs, tables, running, pass, sampler, drive, lisp,
                   born>>

ResetRows ==
    /\ interp.op = "reset"
    /\ energy' = [i \in Ids |-> Empty]
    /\ rings' = [i \in Ids |-> {}]
    /\ interp' = [op |-> "reset_journal"]
    /\ UNCHANGED <<clock, builds, comp, knobs, ebase, baseline, running, pass, sampler,
                   drive, lisp, born, pre, overlapped>>

ResetJournal ==
    /\ interp.op = "reset_journal"
    /\ running' = FALSE
    /\ ebase' = [i \in Ids |-> Empty]
    /\ interp' = [op |-> "reset_baseline"]
    /\ UNCHANGED <<clock, builds, comp, knobs, energy, rings, baseline, pass, sampler,
                   drive, lisp, born, pre, overlapped>>

ResetBaseline ==
    /\ interp.op = "reset_baseline"
    /\ baseline' = [i \in Ids |-> Empty]
    /\ interp' = AtRest
    /\ UNCHANGED <<clock, builds, comp, knobs, energy, rings, ebase, running, pass,
                   sampler, drive, lisp, born, pre, overlapped>>

-----------------------------------------------------------------------------
(* The interpreter: scenarios.  A start over a running scenario stops it   *)
(* first; then it reads the energy totals, starts the journal and, under   *)
(* another lock, clears the knob baseline.                                 *)

StopBegin(next) ==
    /\ running' = FALSE
    /\ interp' = [op |-> "stop", next |-> next]
    /\ UNCHANGED <<clock, builds, comp, knobs, tables, pass, sampler, drive, lisp, born,
                   pre, overlapped>>

StopRun == interp = AtRest /\ running /\ StopBegin("idle")

StartOver == interp = AtRest /\ running /\ StopBegin("start")

\* The baseline is taken whole before any component is touched.
TakeBaseline ==
    /\ interp.op = "stop"
    /\ interp' = [op |-> "restore", next |-> interp.next, taken |-> baseline]
    /\ baseline' = [i \in Ids |-> Empty]
    /\ UNCHANGED <<clock, builds, comp, knobs, energy, rings, ebase, running, pass,
                   sampler, drive, lisp, born, pre, overlapped>>

PutBack(i) ==
    /\ interp.op = "restore" /\ interp.taken[i] # Empty
    /\ interp' = [interp EXCEPT !.taken[i] = Empty]
    /\ knobs' = IF comp[i] = Empty THEN knobs
               ELSE [knobs EXCEPT ![comp[i]] = interp.taken[i].value]
    /\ UNCHANGED <<clock, builds, comp, tables, running, pass, sampler, drive, lisp,
                   born, pre, overlapped>>

StopDone ==
    /\ interp.op = "restore" /\ \A i \in Ids : interp.taken[i] = Empty
    /\ interp' = [op |-> interp.next]
    /\ UNCHANGED <<clock, builds, comp, knobs, tables, running, pass, sampler, drive,
                   lisp, born, pre, overlapped>>

StartReadsEnergy ==
    /\ (interp = AtRest /\ ~running) \/ interp.op = "start"
    /\ interp' = [op |-> "journal",
                  totals |-> [i \in Ids |-> IF energy[i] = Empty THEN Empty
                                            ELSE energy[i].total]]
    /\ UNCHANGED <<clock, builds, comp, knobs, tables, running, pass, sampler, drive,
                   lisp, born, pre, overlapped>>

StartJournal ==
    /\ interp.op = "journal"
    /\ running' = TRUE
    /\ ebase' = interp.totals
    /\ interp' = [op |-> "clear"]
    /\ pre' = [i \in Ids |-> IF comp[i] = Empty THEN Empty
                             ELSE [of |-> comp[i], value |-> knobs[comp[i]]]]
    /\ overlapped' = DrivenIds
    /\ UNCHANGED <<clock, builds, comp, knobs, energy, rings, baseline, pass, sampler,
                   drive, lisp, born>>

StartClears ==
    /\ interp.op = "clear"
    /\ baseline' = [i \in Ids |-> Empty]
    /\ interp' = AtRest
    /\ UNCHANGED <<clock, builds, comp, knobs, energy, rings, ebase, running, pass,
                   sampler, drive, lisp, born, pre, overlapped>>

\* A plausible slip: the latest value found is kept, not the first.
SnapshotAnew(i, c) == baseline' = [baseline EXCEPT ![i] = [of |-> c, value |-> knobs[c]]]

\* scenario_snapshot_knob past its two checks: under the baseline's lock,
\* and only where the map has no entry yet.
SnapshotKnob(i, c) ==
    baseline' = IF baseline[i] # Empty THEN baseline
                ELSE [baseline EXCEPT ![i] = [of |-> c, value |-> knobs[c]]]

\* A set-... defun: snapshot, then write, in one evaluation.
LispSnapshot(i, v) ==
    /\ interp = AtRest /\ i \in Registered /\ lisp < MaxLisp
    /\ IF running THEN SnapshotKnob(i, comp[i]) ELSE UNCHANGED baseline
    /\ interp' = [op |-> "write", id |-> i, value |-> v]
    /\ lisp' = lisp + 1
    /\ UNCHANGED <<clock, builds, comp, knobs, energy, rings, ebase, running, pass,
                   sampler, drive, born, pre, overlapped>>

LispWrite ==
    /\ interp.op = "write"
    /\ knobs' = [knobs EXCEPT ![comp[interp.id]] = interp.value]
    /\ interp' = AtRest
    /\ UNCHANGED <<clock, builds, comp, tables, running, pass, sampler, drive, lisp,
                   born, pre, overlapped>>

-----------------------------------------------------------------------------
(* The drive route: validate on the component found, check that a scenario *)
(* runs, snapshot, write.  None of it under the interpreter's lock.        *)

\* The windows in which a start or a registration clears tables: a drive
\* that acts in one is exempt from RunIsUndone.
Clearing == interp.op \in {"clear", "register", "register_rest"}

Overlaps(d) ==
    overlapped' = IF Clearing THEN overlapped \union {drive[d].id} ELSE overlapped

DriveFinds(d, i, v) ==
    /\ drive[d].pc = "idle" /\ i \in Registered
    /\ drive' = [drive EXCEPT ![d] = [pc |-> "check", id |-> i, c |-> comp[i],
                                      value |-> v]]
    /\ UNCHANGED <<clock, builds, comp, knobs, tables, running, interp, pass, sampler,
                   lisp, born, pre, overlapped>>

DriveChecks(d) ==
    /\ drive[d].pc = "check"
    /\ drive' = [drive EXCEPT ![d].pc = IF running THEN "get" ELSE "write"]
    /\ Overlaps(d)
    /\ UNCHANGED <<clock, builds, comp, knobs, tables, running, interp, pass, sampler,
                   lisp, born, pre>>

\* The snapshot is of whatever component has the id by now.
DriveGets(d) ==
    /\ drive[d].pc = "get"
    /\ drive' = [drive EXCEPT ![d] =
                   [pc |-> IF comp[@.id] # Empty THEN "snapshot" ELSE "write",
                    id |-> @.id, c |-> @.c, value |-> @.value, found |-> comp[@.id]]]
    /\ Overlaps(d)
    /\ UNCHANGED <<clock, builds, comp, knobs, tables, running, interp, pass, sampler,
                   lisp, born, pre>>

DriveSnapshots(d) ==
    /\ drive[d].pc = "snapshot"
    /\ SnapshotKnob(drive[d].id, drive[d].found)
    /\ drive' = [drive EXCEPT ![d].pc = "write"]
    /\ Overlaps(d)
    /\ UNCHANGED <<clock, builds, comp, knobs, energy, rings, ebase, running, interp,
                   pass, sampler, lisp, born, pre>>

DriveWrites(d) ==
    /\ drive[d].pc = "write"
    /\ knobs' = [knobs EXCEPT ![drive[d].c] = drive[d].value]
    /\ drive' = [drive EXCEPT ![d] = NoDrive]
    /\ Overlaps(d)
    /\ UNCHANGED <<clock, builds, comp, tables, running, interp, pass, sampler, lisp,
                   born, pre>>

-----------------------------------------------------------------------------
(* The tasks that write rows: physics, the sampler, the setpoint log.      *)

\* tick_once takes the list of components it will integrate.
TakePass ==
    /\ pass = Empty /\ clock < MaxTicks
    /\ clock' = clock + 1
    /\ pass' = Registered
    /\ UNCHANGED <<builds, comp, knobs, tables, running, interp, sampler, drive, lisp,
                   born, pre, overlapped>>

\* EnergyAccum::advance at one watt: the first sample only sets the cursor.
Advanced(e) ==
    IF e = Empty THEN [total |-> 0, ts |-> clock]
    ELSE [total |-> e.total + (IF e.ts = Empty THEN 0 ELSE clock - e.ts), ts |-> clock]

\* reset_cursor of a faulted component, which makes an entry as well.
Dropped(e) == [total |-> IF e = Empty THEN 0 ELSE e.total, ts |-> Empty]

Integrate(faulted) ==
    /\ pass # Empty /\ faulted \subseteq pass
    /\ energy' = [i \in Ids |-> IF i \notin pass THEN energy[i]
                                ELSE IF i \in faulted THEN Dropped(energy[i])
                                ELSE Advanced(energy[i])]
    /\ pass' = Empty
    /\ UNCHANGED <<clock, builds, comp, knobs, rings, ebase, baseline, running, interp,
                   sampler, drive, lisp, born, pre, overlapped>>

\* A sampler pass, or a setpoint request, holds components it found before.
Holds ==
    /\ Rings /\ sampler = {} /\ Registered # {}
    /\ sampler' = Registered
    /\ UNCHANGED <<clock, builds, comp, knobs, tables, running, interp, pass, drive,
                   lisp, born, pre, overlapped>>

Records ==
    /\ sampler # {}
    /\ rings' = [i \in Ids |-> IF i \in sampler THEN rings[i] \union {clock}
                               ELSE rings[i]]
    /\ sampler' = {}
    /\ UNCHANGED <<clock, builds, comp, knobs, energy, ebase, baseline, running, interp,
                   pass, drive, lisp, born, pre, overlapped>>

-----------------------------------------------------------------------------
Structure == RegisterEnergy \/ RegisterRest \/ RemoveRows \/ RemoveRest
             \/ ResetSite \/ ResetRows \/ ResetJournal \/ ResetBaseline

Scenario == StopRun \/ StartOver \/ TakeBaseline \/ StopDone \/ StartReadsEnergy
            \/ StartJournal \/ StartClears \/ LispWrite

Tasks == TakePass \/ (\E faulted \in SUBSET Ids : Integrate(faulted)) \/ Holds \/ Records

TablesNext ==
    \/ Structure
    \/ Scenario
    \/ Tasks
    \/ \E i \in Ids : Register(i) \/ Remove(i) \/ PutBack(i)
    \/ \E i \in Ids, v \in KnobValues : LispSnapshot(i, v)
    \/ \E d \in DriveRequests : DriveChecks(d) \/ DriveGets(d) \/ DriveSnapshots(d) \/ DriveWrites(d)
    \/ \E d \in DriveRequests, i \in Ids, v \in KnobValues : DriveFinds(d, i, v)

TablesSpec == TablesInit /\ [][TablesNext]_tableVars

-----------------------------------------------------------------------------
Settled == {i \in Registered : interp.op \in {"register", "register_rest"} => interp.id # i}

\* A component's rows were written in its own lifetime: whatever a removal
\* that raced physics, the sampler or a setpoint left under the id is gone
\* once the next component is registered, so no energy is integrated across
\* the gap (mod.rs:659-671).
RowsAreItsOwn ==
    \A i \in Settled :
        /\ energy[i] # Empty /\ energy[i].ts # Empty => energy[i].ts >= born[i]
        /\ \A at \in rings[i] : at >= born[i]

\* Between operations of the interpreter no component reads less energy
\* since the scenario's start than none at all, though totals and baseline
\* are kept under different locks and dropped at different times
\* (mod.rs:1321-1332, 946-949).
EnergySinceStartIsNotNegative ==
    interp = AtRest =>
        \A i \in Ids : energy[i] # Empty /\ ebase[i] # Empty => energy[i].total >= ebase[i]

\* While a scenario runs, every knob it will put back is recorded as it was
\* before the run, and every other knob still is as it was, whichever of
\* the interpreter and the drive route moved it: scenario_stop returns the
\* site to its state before the run (scenarios.rs:270-306).  Ids driven
\* while a start or a registration was under way are exempt: the drive
\* route's check, snapshot and write share no lock with either, and a value
\* of the run may be recorded as the one to put back.
RunIsUndone ==
    running /\ interp = AtRest =>
        \A i \in Registered \ overlapped :
            IF baseline[i] # Empty THEN baseline[i] = pre[i]
            ELSE pre[i] = [of |-> comp[i], value |-> knobs[comp[i]]]

\* All three, of the tables of one site.
TablesAreSound == RowsAreItsOwn /\ EnergySinceStartIsNotNegative /\ RunIsUndone
=============================================================================
