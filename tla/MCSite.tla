------------------------------- MODULE MCSite -------------------------------
(***************************************************************************)
(* What the doors of one site do to it - the interpreter, the HTTP routes,  *)
(* physics and the samplers: the runtime modes, the tables, a component's   *)
(* driven inputs, what it is built from, the ids, the weather, a scenario.  *)
(* The parts share no state and stand side by side: a behaviour picks one   *)
(* of them at its start and is a behaviour of that part alone.              *)
(***************************************************************************)
EXTENDS MCRuntimeModes, Drives, Weather, SiteTables, Integers

CONSTANT drive1

VARIABLE part

Parts == {"modes", "rows", "knobs", "drives", "built", "ids", "weather",
          "script", "sampler", "grid", "report"}

-----------------------------------------------------------------------------
(* The site's tables: as the configuration has them, one id built three      *)
(* times over with physics, the sampler and the setpoint log running (rows); *)
(* or built twice, with a scenario, a drive request and two drives set by    *)
(* the interpreter (knobs).                                                  *)
K == INSTANCE SiteTables WITH
    Ids <- {1}, DriveRequests <- {drive1}, KnobValues <- {0, 1}, AsBuilt <- 0, Rings <- FALSE,
    MaxTicks <- 0, MaxBuilds <- 2, MaxLisp <- 2

-----------------------------------------------------------------------------
(* The driven inputs, one of them at a time: a boiler's demand may be 0 or   *)
(* 1, the other numbers are 1; power factors, a car's charge and what an     *)
(* expression reads are 0 or 1.                                             *)
MCNumbers == [MeterPower |-> {1}, MeterReactive |-> {1}, Sunlight |-> {1},
              BoilerDemand |-> {0, 1}, Ev |-> {1}]

-----------------------------------------------------------------------------
(* One component of any category, with at most one keyword of its own and   *)
(* one edit of its category's defaults.                                     *)
VARIABLES category, config, file, defaults, edits
bvars == <<category, config, file, defaults, edits>>

B == INSTANCE Constructors WITH MaxArgs <- 1, MaxEdits <- 1

-----------------------------------------------------------------------------
(* Two sites and the one an import makes; u64::MAX is 6, i64::MAX is 3.     *)
(* Every export of three ids and up to three connection rows on its own,    *)
(* and a few beside three forms: within Lisp's range, past it, an id twice. *)
VARIABLES alloc, on, saved, handles, import, export, left, wrapped
nvars == <<alloc, on, saved, handles, import, export, left, wrapped>>

MCRows == {<<1, 2>>, <<2, 1>>, <<2, 3>>, <<3, 1>>, <<1, 1>>}
MCAlone ==
    [export : [ids : {<<1, 2, 3>>, <<3, 1, 2>>}, edges : UNION {[1..n -> MCRows] : n \in 0..3}],
     forms : {0}]
MCBeside ==
    [export : [ids : {<<2>>, <<0>>, <<4, 1>>, <<6>>, <<1, 1>>}, edges : {<<>>}]
              \cup [ids : {<<1, 2>>}, edges : {<< <<1, 2>> >>}],
     forms : {3}]

I == INSTANCE ComponentIds WITH
    Top <- 6, Half <- 3, First <- 1, Chosen <- {1, 2}, Cases <- MCAlone \cup MCBeside

-----------------------------------------------------------------------------
(* The weather: an hour is one unit of time, a cloud takes two; updates that *)
(* each move one end of the day, which together would leave it none.        *)
MCPatches == {[sunrise |-> 3], [sunset |-> 2], [clouds |-> TRUE], [clouds |-> FALSE], <<>>}

-----------------------------------------------------------------------------
(* A scenario: the script's events against a client that polls, the         *)
(* sampler's passes against the clock, the grid's samples in windows of one  *)
(* tick.                                                                    *)
VARIABLES moment, journal, starter, feeding, poll, report, reports, runs, serial, passes, resets,
          recorded, heard, excused, rewound, fed, straddled
jvars == <<moment, journal, starter, feeding, poll, report, reports, runs, serial, passes, resets,
           recorded, heard, excused, rewound, fed, straddled>>

Script == INSTANCE ScenarioJournal WITH
    Capacity <- 2, CheckCapacity <- 1, WindowCapacity <- 1, WindowLength <- 1, Limit <- 1,
    Powers <- {}, Socs <- {}, MaxReports <- 0, MaxTime <- 0, MaxRuns <- 2, MaxEvents <- 4,
    MaxSamples <- 0, MaxPasses <- 0, MaxResets <- 1,
    now <- moment, interp <- starter, pass <- feeding
Sampler == INSTANCE ScenarioJournal WITH
    Capacity <- 2, CheckCapacity <- 1, WindowCapacity <- 1, WindowLength <- 1, Limit <- 1,
    Powers <- {}, Socs <- {}, MaxReports <- 0, MaxTime <- 4, MaxRuns <- 2, MaxEvents <- 0,
    MaxSamples <- 0, MaxPasses <- 3, MaxResets <- 1,
    now <- moment, interp <- starter, pass <- feeding
Grid == INSTANCE ScenarioJournal WITH
    Capacity <- 2, CheckCapacity <- 1, WindowCapacity <- 1, WindowLength <- 1, Limit <- 1,
    Powers <- {-2, 1, 2}, Socs <- {}, MaxReports <- 0, MaxTime <- 1, MaxRuns <- 2, MaxEvents <- 0,
    MaxSamples <- 3, MaxPasses <- 0, MaxResets <- 0,
    now <- moment, interp <- starter, pass <- feeding
Report == INSTANCE ScenarioJournal WITH
    Capacity <- 2, CheckCapacity <- 1, WindowCapacity <- 1, WindowLength <- 1, Limit <- 1,
    Powers <- {}, Socs <- {<<>>, <<1, 4, 1>>, <<6, 3, 4, 2>>}, MaxReports <- 1,
    MaxTime <- 1, MaxRuns <- 2, MaxEvents <- 0, MaxSamples <- 1, MaxPasses <- 1, MaxResets <- 1,
    now <- moment, interp <- starter, pass <- feeding

-----------------------------------------------------------------------------
partVars == <<part, vars, tableVars, driveVars, bvars, nvars, weatherVars, jvars>>

PartsInit ==
    /\ part \in Parts
    /\ Init
    /\ IF part = "knobs" THEN K!TablesInit ELSE TablesInit
    /\ DrivesInit
    /\ part = "drives" \/ (kind = "Ev" /\ slot = Free)
    /\ B!Init /\ (part = "built" \/ category = "marker")
    /\ I!Init /\ (part = "ids" \/ export = [ids |-> <<1, 2>>, edges |-> << <<1, 2>> >>])
    /\ WeatherInit /\ Script!Init

PartsNext ==
    /\ UNCHANGED part
    /\ \/ /\ part = "modes" /\ Next
          /\ UNCHANGED <<tableVars, driveVars, bvars, nvars, weatherVars, jvars>>
       \/ /\ part = "rows" /\ TablesNext
          /\ UNCHANGED <<vars, driveVars, bvars, nvars, weatherVars, jvars>>
       \/ /\ part = "knobs" /\ K!TablesNext
          /\ UNCHANGED <<vars, driveVars, bvars, nvars, weatherVars, jvars>>
       \/ /\ part = "drives" /\ DrivesNext
          /\ UNCHANGED <<vars, tableVars, bvars, nvars, weatherVars, jvars>>
       \/ /\ part = "built" /\ B!Next
          /\ UNCHANGED <<vars, tableVars, driveVars, nvars, weatherVars, jvars>>
       \/ /\ part = "ids" /\ I!Next
          /\ UNCHANGED <<vars, tableVars, driveVars, bvars, weatherVars, jvars>>
       \/ /\ part = "weather" /\ WeatherNext
          /\ UNCHANGED <<vars, tableVars, driveVars, bvars, nvars, jvars>>
       \/ /\ part = "script" /\ Script!Next
          /\ UNCHANGED <<vars, tableVars, driveVars, bvars, nvars, weatherVars>>
       \/ /\ part = "sampler" /\ Sampler!Next
          /\ UNCHANGED <<vars, tableVars, driveVars, bvars, nvars, weatherVars>>
       \/ /\ \/ part = "grid" /\ Grid!Next
             \/ part = "report" /\ Report!Next
          /\ UNCHANGED <<vars, tableVars, driveVars, bvars, nvars, weatherVars>>

PartsSpec == PartsInit /\ [][PartsNext]_partVars

-----------------------------------------------------------------------------
(* The properties of the parts; those of the modes, of the driven inputs, of  *)
(* the weather and of the tables are RuntimeModes', Drives', Weather's and   *)
(* SiteTables' own.                                                         *)

\* Every site lists ids of its own and no graph has a cycle
\* (make.rs:1041-1076); a parse refuses exactly the cyclic exports, and what
\* passes is built whole (site_import.rs:343-515).  A reload rebuilds what was
\* saved: a component up to a value no file can hold, the sites up to edges
\* and ids that cannot be made again (inverter/mod.rs:72-119, meter.rs:348,
\* microgrid_file.rs:489-533, boot.rs:1106-1180).
SitesComeBack ==
    /\ [](part = "ids" => I!IdsAreUnique /\ I!FilesReplay) /\ I!ImportsAreWhole
    /\ B!OnlyUnlimitedDrifts

\* A client that polls learns of every event or that some are gone
\* (scenarios.rs:329-394, ui/handlers/scenarios.rs:78); the journal's figures
\* are the run's (scenario.rs:183-320), and a report's are of the run it names
\* (microgrid_site/scenarios.rs:483-583).
JournalIsTold ==
    /\ part = "script" => Script!EventsAreHeard
    /\ part = "sampler" => Sampler!FiguresAreOfTheRun
    /\ part = "grid" => Grid!FiguresAreOfTheRun
    /\ part = "report" => Report!FiguresAreOfTheRun /\ Report!ReportsAreOfOneRun
=============================================================================
