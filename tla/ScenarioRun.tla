---------------------------- MODULE ScenarioRun ----------------------------
(***************************************************************************)
(* Named scenarios and their runs (sim/scenarios.rs, defuns/scenarios.rs,    *)
(* lisp/boot.rs): what define-scenario keeps, what a start compiles it to,  *)
(* what scenario-stop takes back in every microgrid, and the two runners of *)
(* bin/macroctl.rs, which step a headless clock or wait for a live server.  *)
(*                                                                         *)
(* Evaluations and refresh passes hold the interpreter lock, one at a time. *)
(* A microgrid has one driven input, and cues, agents and checks are about  *)
(* that one.  The runner of the Lisp library, which arms the timers, and    *)
(* the timers, which fire once due in any order, are external.              *)
(***************************************************************************)
EXTENDS Integers, FiniteSets, Sequences

Sorts == INSTANCE SequencesExt

CONSTANTS
    Mgs,            \* of microgrids: numbers
    AtFirst,        \* the sets of them there may be at first
    Definitions,    \* what define-scenario may be called with
    Clocks,         \* steps of the headless clock
    Untils,         \* --until-s, or Never for a scenario's own length
    MgArgs,         \* --microgrid-id, or Never
    Grace,          \* what a waiting client adds to the length
    MaxTime,        \* bounds of the model: the clock,
    MaxMoves        \* and what other people do

VARIABLES server, client, moves, own, strayed, disturbed, cut
runGhosts == <<own, strayed, disturbed, cut>>
    \* what a microgrid's input is when no scenario runs, those that were
    \* driven while their journal did not run, whether others started or
    \* ended something during the client's run, and what it stopped too early
runsVars == <<server, client, moves, runGhosts>>

-----------------------------------------------------------------------------
Never == -1

\* Offsets and values are counted in small units; an agent acts every so often.
Definition ==
    [known : {TRUE}, length : Nat \cup {Never}, drive : Nat \cup {Never},
     cues : SUBSET [at : Nat, to : Nat], checks : SUBSET [at : Nat, wants : Nat],
     agents : SUBSET [every : Nat, to : Nat], breaks : STRING]

ASSUME RunsAssumption ==
    /\ Mgs \subseteq Nat
    /\ \A ids \in AtFirst : ids \subseteq Mgs /\ ids # {}
    /\ \A text \in Definitions : text.bad \/ text.def \in Definition
    /\ Clocks \subseteq Nat \ {0} /\ Untils \subseteq Nat \cup {Never}

FreshJournal == [name |-> Never, started |-> Never, ended |-> Never, results |-> {}]
OpenedAt(name, time) == [name |-> name, started |-> time, ended |-> Never, results |-> {}]
Running(j) == j.started # Never /\ j.ended = Never

Lowest(ids) == CHOOSE id \in ids : \A other \in ids : id <= other

\* A plausible slip: only the current microgrid is asked.
RunningAtLowest(s) == Running(s.journal[Lowest(s.registered)])
RunningAnywhere(s) == \E id \in s.registered : Running(s.journal[id])

\* define-scenario: a bad value leaves what was registered; a form of no
\* known kind is only found in a run.
Defined(defs, text) == IF text.bad THEN defs ELSE [defs EXCEPT ![text.name] = text.def]

\* build_timeline: cues and checks by their time.
Timeline(def) ==
    Sorts!SetToSortSeq({[kind |-> "cue", at |-> c.at] : c \in def.cues}
                    \cup {[kind |-> "check", at |-> c.at] : c \in def.checks},
                 LAMBDA a, b : a.at < b.at)
View(def) == [length |-> def.length, timeline |-> Timeline(def)]

-----------------------------------------------------------------------------
(* The lifecycle, and what a run does to the inputs.                        *)

\* A drive snapshots the input of a microgrid whose scenario runs, once.
DriveInput(s, id, value) ==
    [s EXCEPT !.input[id] = value,
              !.baseline[id] = IF Running(s.journal[id]) /\ @ = Never THEN s.input[id] ELSE @]

\* scenario-stop: the run's timers go, every journal ends, the first end
\* staying, and what was snapshot is put back.
Stopped(s) ==
    [s EXCEPT !.timers = {},
        !.journal = [id \in Mgs |-> IF id \in s.registered /\ @[id].ended = Never
                                    THEN [@[id] EXCEPT !.ended = s.time] ELSE @[id]],
        !.input = [id \in Mgs |-> IF s.baseline[id] # Never THEN s.baseline[id] ELSE @[id]],
        !.baseline = [id \in Mgs |-> Never]]

\* scenario-start, which ends what still runs before it opens the journals.
Started(s, name) ==
    LET t == IF RunningAnywhere(s) THEN Stopped(s) ELSE s
    IN  [t EXCEPT !.journal = [id \in Mgs |-> IF id \in t.registered
                    THEN OpenedAt(name, t.time) ELSE @[id]],
                  !.baseline = [id \in Mgs |-> Never]]

\* The sections of a definition, up to the one that signals an error; the
\* recording comes last, when the timers are armed.
Armed(s, def) ==
    {[does |-> "drive", at |-> c.at, due |-> s.time + c.at, value |-> c.to, every |-> 0] : c \in def.cues}
    \cup {[does |-> "check", at |-> c.at, due |-> s.time + c.at, value |-> c.wants, every |-> 0] : c \in def.checks}
    \cup {[does |-> "drive", at |-> a.every, due |-> s.time + a.every, value |-> a.to, every |-> a.every] : a \in def.agents}

Sections(s, def) ==
    LET t == IF def.drive = Never \/ def.breaks = "setup" THEN s
             ELSE DriveInput(s, Lowest(s.registered), def.drive)
    IN  IF def.breaks \in {"setup", "drive"} THEN t
        ELSE [t EXCEPT !.timers = @ \cup Armed(t, def)]

\* start: a name nobody defined changes nothing.
Known(name) == server.defs[name].known
RunOf(s, name) ==
    IF Known(name) THEN Sections(Started(s, name), s.defs[name]) ELSE s
Works(name) == Known(name) /\ server.defs[name].breaks = "nowhere"

\* scenario-expect of the current microgrid: whether its input is as wanted.
AsWanted(s, t) == s.input[Lowest(s.registered)] = t.value

Fired(s, t) ==
    LET id == Lowest(s.registered)
        rest == s.timers \ {t}
        left == IF t.every = 0 THEN rest ELSE rest \cup {[t EXCEPT !.due = s.time + t.every]}
    IN  IF t.does = "drive" THEN DriveInput([s EXCEPT !.timers = left], id, t.value)
        ELSE [s EXCEPT !.timers = left,
                !.journal[id].results = @ \cup {[at |-> t.at, passed |-> AsWanted(s, t)]}]

\* A reload of the world: everything is built anew, the definitions stay.
Reloaded(s) ==
    [s EXCEPT !.timers = {}, !.journal = [id \in Mgs |-> FreshJournal], !.input = [id \in Mgs |-> 0],
              !.baseline = [id \in Mgs |-> Never]]

-----------------------------------------------------------------------------
Names == {text.name : text \in Definitions}
Undefined == [known |-> FALSE]
RunsInit ==
    /\ \E ids \in AtFirst, text \in Definitions :
        server = [registered |-> ids, journal |-> [id \in Mgs |-> FreshJournal],
                  input |-> [id \in Mgs |-> 0], baseline |-> [id \in Mgs |-> Never],
                  timers |-> {}, time |-> 0,
                  defs |-> Defined([name \in Names |-> Undefined], text)]
    /\ \E stepped \in BOOLEAN :
        client = [at |-> IF stepped THEN "boot" ELSE "idle", verdict |-> "none"]
    /\ moves = 0
    /\ own = [id \in Mgs |-> 0] /\ strayed = {} /\ disturbed = FALSE /\ cut = FALSE

Headless == client.at \in {"boot", "step", "refresh", "stepped"}
Due == {t \in server.timers : t.due <= server.time}

\* What a step of the server leaves of the inputs people set.
Leaves(s) == own' = own /\ strayed' = {id \in strayed : s.input[id] = server.input[id]}
Resumes == own' = [id \in Mgs |-> IF id \in strayed THEN server.input[id] ELSE own[id]] /\ strayed' = {}
Strays(s) ==
    /\ own' = own
    /\ strayed' = strayed \cup {id \in Mgs : /\ s.input[id] # server.input[id]
                                             /\ ~Running(server.journal[id])}

\* refresh_pass fires a timer that is due.
Fire(t) ==
    /\ t \in Due /\ client.at # "step"
    /\ server' = Fired(server, t)
    /\ Strays(server')
    /\ UNCHANGED <<client, moves, disturbed, cut>>

-----------------------------------------------------------------------------
(* run --stepped: the definitions are those of the config it boots.         *)

RunStepped(name, dt, until) ==
    /\ client.at = "boot"
    /\ LET for == IF until # Never \/ ~Known(name) THEN until ELSE server.defs[name].length
       IN  IF for = Never \/ ~Works(name)
           THEN /\ client' = [client EXCEPT !.at = "stepped", !.verdict = "error"]
                /\ server' = IF for = Never THEN server ELSE RunOf(server, name)
           ELSE /\ client' = [at |-> "step", verdict |-> "none", name |-> name, dt |-> dt,
                              for |-> for, elapsed |-> 0]
                /\ server' = RunOf(server, name)
    /\ UNCHANGED <<moves, runGhosts>>

\* sim_step: the clock, and then what is due by it.
SimStep ==
    /\ client.at = "step" /\ client.elapsed < client.for
    /\ client' = [client EXCEPT !.at = "refresh", !.elapsed = @ + client.dt]
    /\ server' = [server EXCEPT !.time = @ + client.dt]
    /\ UNCHANGED <<moves, runGhosts>>

Refreshed ==
    /\ client.at = "refresh" /\ Due = {}
    /\ client' = [client EXCEPT !.at = "step"]
    /\ UNCHANGED <<server, moves, runGhosts>>

Failed(j) == \E r \in j.results : ~r.passed
Verdict(j) == IF Failed(j) THEN "failed" ELSE "passed"

SteppedReport ==
    /\ client.at = "step" /\ client.elapsed >= client.for
    /\ server' = Stopped(server)
    /\ client' = [client EXCEPT !.at = "stepped",
                    !.verdict = Verdict(server.journal[Lowest(server.registered)])]
    /\ UNCHANGED <<moves, runGhosts>>

-----------------------------------------------------------------------------
(* run --wait --assert: each a request, other people's come in between.      *)

Over(verdict) == client' = [client EXCEPT !.at = "over", !.verdict = verdict]

\* resolve_scenario_mg: checks land on the lowest microgrid of the listing.
Chosen(asked) == IF asked = Never THEN Lowest(server.registered) ELSE asked
Resolve(name, asked, until) ==
    /\ client.at = "idle"
    /\ IF Chosen(asked) \in server.registered /\ Chosen(asked) = Lowest(server.registered)
       THEN client' = [at |-> "length", verdict |-> "none", name |-> name, mg |-> Chosen(asked), for |-> until]
       ELSE Over("error")
    /\ disturbed' = FALSE
    /\ UNCHANGED <<server, moves, own, strayed, cut>>

\* The length is settled before the start.
WaitLength ==
    /\ client.at = "length"
    /\ IF client.for # Never THEN client' = [client EXCEPT !.at = "start"]
       ELSE IF Known(client.name) /\ View(server.defs[client.name]).length # Never
            THEN client' = [client EXCEPT !.at = "start", !.for = View(server.defs[client.name]).length]
            ELSE Over("error")
    /\ UNCHANGED <<server, moves, runGhosts>>

\* A start that fails midway leaves what it started.
PostStart ==
    /\ client.at = "start"
    /\ server' = RunOf(server, client.name)
    /\ IF Works(client.name)
       THEN client' = [at |-> "wait", verdict |-> "none", name |-> client.name, mg |-> client.mg,
                       for |-> client.for, waited |-> 0, polled |-> server.time,
                       of |-> server.defs[client.name]]
       ELSE Over("error")
    /\ Resumes
    /\ UNCHANGED <<moves, disturbed, cut>>

Elapsed(j) ==
    IF j.started = Never THEN 0
    ELSE (IF j.ended = Never THEN server.time ELSE j.ended) - j.started

\* One poll a second; one that fails is not done yet.
PollRun(answered) ==
    /\ client.at = "wait" /\ server.time > client.polled
    /\ LET j == server.journal[client.mg]
           done == answered /\ (j.ended # Never \/ Elapsed(j) >= client.for)
       IN  client' = [client EXCEPT !.polled = server.time, !.waited = @ + 1,
            !.at = IF done \/ client.waited + 1 >= client.for + Grace THEN "stop" ELSE "wait"]
    /\ UNCHANGED <<server, moves, runGhosts>>

PostStop ==
    /\ client.at = "stop"
    /\ server' = Stopped(server)
    /\ cut' = \E t \in Due : t.does = "check"
    /\ client' = [client EXCEPT !.at = "report"]
    /\ own' = own /\ strayed' = {id \in strayed : server.baseline[id] = Never}
    /\ UNCHANGED <<moves, disturbed>>

Report ==
    /\ client.at = "report"
    /\ Over(Verdict(server.journal[client.mg]))
    /\ UNCHANGED <<server, moves, runGhosts>>

-----------------------------------------------------------------------------
(* Other people, on the live server.                                        *)

Moves == ~Headless /\ moves < MaxMoves /\ moves' = moves + 1 /\ UNCHANGED <<client, cut>>
Disturbs == disturbed' = TRUE

Poke(id, value) ==
    /\ Moves
    /\ id \in server.registered /\ server.input[id] # value
    /\ server' = DriveInput(server, id, value)
    /\ own' = IF Running(server.journal[id]) THEN own ELSE [own EXCEPT ![id] = value]
    /\ strayed' = IF Running(server.journal[id]) THEN strayed ELSE strayed \ {id}
    /\ UNCHANGED disturbed

StartOther(name) == Moves /\ server' = RunOf(server, name) /\ Resumes /\ Disturbs
StartBare(name) == Moves /\ server' = Started(server, name) /\ Resumes /\ Disturbs
StopOther == Moves /\ server' = Stopped(server) /\ Leaves(server') /\ Disturbs

Define(text) ==
    /\ Moves
    /\ server' = [server EXCEPT !.defs = Defined(@, text)]
    /\ UNCHANGED <<own, strayed, disturbed>>

RegisterMicrogrid(id) ==
    /\ Moves
    /\ id \notin server.registered
    /\ server' = [server EXCEPT !.registered = @ \cup {id}]
    /\ Disturbs
    /\ UNCHANGED <<own, strayed>>

Reload ==
    /\ Moves
    /\ server' = Reloaded(server)
    /\ own' = [id \in Mgs |-> 0] /\ strayed' = {}
    /\ Disturbs

TimePasses ==
    /\ ~Headless /\ server.time < MaxTime
    /\ server' = [server EXCEPT !.time = @ + 1]
    /\ UNCHANGED <<client, moves, runGhosts>>

NamesOf == DOMAIN server.defs

RunsNext ==
    \/ \E t \in server.timers : Fire(t)
    \/ \E name \in NamesOf, until \in Untils :
        \/ \E dt \in Clocks : RunStepped(name, dt, until)
        \/ \E asked \in MgArgs : Resolve(name, asked, until)
    \/ SimStep \/ Refreshed \/ SteppedReport
    \/ WaitLength \/ PostStart \/ PostStop \/ Report
    \/ \E answered \in BOOLEAN : PollRun(answered)
    \/ \E id \in Mgs : RegisterMicrogrid(id) \/ \E value \in 0..1 : Poke(id, value)
    \/ \E name \in NamesOf : StartOther(name) \/ StartBare(name)
    \/ \E text \in Definitions : Define(text)
    \/ StopOther \/ Reload \/ TimePasses

RunsSpec == RunsInit /\ [][RunsNext]_runsVars

-----------------------------------------------------------------------------
(* Properties.                                                              *)

\* Once no scenario runs, none of its timers is left to fire, and every input
\* is what people made it outside of runs, whichever microgrid was current,
\* however often scenarios were started over one another or failed to start,
\* and whatever was registered meanwhile (defuns/scenarios.rs:289-325).  A
\* microgrid that was driven while its own journal did not run is exempt.
TeardownIsWhole ==
    (\A id \in server.registered : ~Running(server.journal[id])) =>
        /\ server.timers = {}
        /\ \A id \in server.registered \ strayed : server.input[id] = own[id]

\* When a stepped run is over, every check up to the step that passed its end
\* is in the report and no later one, and what a check saw does not depend on
\* the step: it is what the last cue of an earlier step left
\* (boot.rs:798-890).  Timers of one step fire in any order: a cue in the step
\* of a check or of another cue is exempt, and so are checks of one moment.
Rounds(at, dt) == IF at = 0 THEN 1 ELSE (at + dt - 1) \div dt
LeftBy(def, cues) ==
    IF cues # {} THEN (CHOOSE c \in cues : \A o \in cues : o.at <= c.at).to
    ELSE IF def.drive = Never THEN 0 ELSE def.drive
Left(def, at, dt) == LeftBy(def, {c \in def.cues : Rounds(c.at, dt) < Rounds(at, dt)})
Orderly(def, dt) ==
    /\ def.agents = {}
    /\ \A c, o \in def.cues : c # o => Rounds(c.at, dt) # Rounds(o.at, dt)
Alone(def, c, dt) ==
    /\ \A o \in def.cues : Rounds(o.at, dt) # Rounds(c.at, dt)
    /\ \A o \in def.checks : o.at = c.at => o = c
SawWhatWasLeft(def, results, dt) ==
    \A c \in def.checks, r \in results :
        r.at = c.at /\ Alone(def, c, dt) => r.passed = (c.wants = Left(def, c.at, dt))
StepsAreExact ==
    client.at = "stepped" /\ client.verdict # "error" =>
        LET def == server.defs[client.name]
            results == server.journal[Lowest(server.registered)].results
        IN  /\ client.elapsed - client.dt < client.for /\ client.for <= client.elapsed
            /\ {r.at : r \in results} =
                   {c.at : c \in {x \in def.checks : x.at <= client.elapsed /\ client.elapsed > 0}}
            /\ Orderly(def, client.dt) => SawWhatWasLeft(def, results, client.dt)

\* A waiting client whose run nobody ended, whose microgrid stayed the lowest,
\* and that did not stop before the timers caught up, gates on every check up
\* to the length: a pass means all of them passed, and the report it read is
\* of a run that is over (macroctl.rs:1100-1265).
VerdictIsOfTheRun ==
    client.at = "over" /\ client.verdict \in {"passed", "failed"} /\ ~disturbed =>
        LET j == server.journal[client.mg]
        IN  /\ j.name = client.name /\ ~Running(j)
            /\ ~cut /\ Elapsed(j) >= client.for =>
                {c.at : c \in {x \in client.of.checks : x.at <= client.for}} \subseteq {r.at : r \in j.results}
            /\ (client.verdict = "failed") = Failed(j)

\* A teardown takes back a run in every microgrid, a stepped run does what its
\* definition says up to its end, and a waiting client gates on the run it
\* started (defuns/scenarios.rs:289-444, boot.rs:798-891,
\* macroctl.rs:1125-1257).
RunsAreWhole == TeardownIsWhole /\ StepsAreExact /\ VerdictIsOfTheRun

-----------------------------------------------------------------------------
(* What holds in every state.                                               *)
Offset == Nat \cup {Never}
Result == [at : Nat, passed : BOOLEAN]
Journal == [name : Names \cup {Never}, started : Offset, ended : Offset, results : SUBSET Result]
Timer == [does : {"drive", "check"}, at : Nat, due : Nat, value : Nat, every : Nat]
Server ==
    [registered : SUBSET Mgs, journal : [Mgs -> Journal], input : [Mgs -> Nat],
     baseline : [Mgs -> Offset], timers : SUBSET Timer, time : Nat,
     defs : [Names -> {Undefined} \cup Definition]]

\* What a teardown would leave of an input.
AfterTeardown(s, id) == IF s.baseline[id] # Never THEN s.baseline[id] ELSE s.input[id]

\* Timers and snapshots are of microgrids whose journal runs, which are
\* registered, and but for the strayed a teardown leaves what was set.
Restorable(s, set, stray) ==
    /\ s \in Server /\ s.registered # {}
    /\ set \in [Mgs -> Nat] /\ stray \subseteq Mgs
    /\ s.timers # {} => RunningAnywhere(s)
    /\ \A id \in Mgs :
        /\ s.baseline[id] # Never \/ Running(s.journal[id]) =>
               Running(s.journal[id]) /\ id \in s.registered /\ id \notin stray
        /\ id \notin stray => AfterTeardown(s, id) = set[id]

\* What the two runners have in hand.
Headed == [at : {"boot", "idle"}, verdict : {"none"}]
InSteps(phases, verdicts) ==
    [at : phases, verdict : verdicts, name : Names, dt : Clocks, for : Nat, elapsed : Nat]
Asking == [at : {"length", "start"}, verdict : {"none"}, name : Names, mg : Mgs, for : Offset]
Waiting(phases, verdicts) ==
    [at : phases, verdict : verdicts, name : Names, mg : Mgs, for : Offset, waited : Nat,
     polled : Nat, of : Definition]
ClientOK ==
    \/ client \in Headed
    \/ client \in InSteps({"step", "refresh"}, {"none"})
    \/ client \in InSteps({"stepped"}, {"passed", "failed"})
    \/ client \in Asking
    \/ client \in Waiting({"wait", "stop", "report"}, {"none"})
    \/ client \in Waiting({"over"}, {"passed", "failed"})
    \/ client.at \in {"stepped", "over"} /\ client.verdict = "error"

CheckTimer(c, from) ==
    [does |-> "check", at |-> c.at, due |-> from + c.at, value |-> c.wants, every |-> 0]
CueTimer(c) == [does |-> "drive", at |-> c.at, due |-> c.at, value |-> c.to, every |-> 0]
Told(s, id, at) == \E r \in s.journal[id].results : r.at = at

\* Until a stepped run boots nothing has happened; while it runs each check is
\* pending or told, none that is told is still to come, the input is what the
\* fired cues left, and after a step none is due.
BootIsFresh ==
    client.at = "boot" =>
        /\ server.time = 0 /\ server.timers = {} /\ strayed = {}
        /\ \A id \in Mgs : server.journal[id] = FreshJournal /\ server.input[id] = 0

FiredCues(def, s) == {c \in def.cues : CueTimer(c) \notin s.timers}
RunIsSteady(def, s, dt, elapsed, phase) ==
    LET id == Lowest(s.registered)
        before == IF phase = "refresh" THEN elapsed - dt ELSE elapsed
    IN  /\ def \in Definition
        /\ s.time = elapsed /\ (\E n \in 0..before : before = n * dt)
        /\ \A t \in s.timers : t.due <= before => before = 0
        /\ \A c \in def.checks : CheckTimer(c, 0) \in s.timers \/ Told(s, id, c.at)
        /\ \A t \in s.timers : t.does = "check" => \E c \in def.checks : t = CheckTimer(c, 0)
        /\ \A r \in s.journal[id].results :
                elapsed > 0 /\ r.at <= elapsed /\ \E c \in def.checks : c.at = r.at
        /\ Orderly(def, dt) =>
            /\ \A t \in s.timers : t.does = "drive" => \E c \in def.cues : t = CueTimer(c)
            /\ \A c \in FiredCues(def, s) : c.at <= elapsed /\ elapsed > 0
            /\ s.input[id] = LeftBy(def, FiredCues(def, s))
            /\ SawWhatWasLeft(def, s.journal[id].results, dt)
SteppedIsSteady ==
    client \in InSteps({"step", "refresh"}, {"none"}) =>
        /\ RunIsSteady(server.defs[client.name], server, client.dt, client.elapsed, client.at)
        /\ client.elapsed - client.dt < client.for
SteppedIsTold == client.at = "stepped" => client.verdict = "error" \/ server.timers = {}

\* While nobody disturbs a waiting client each check of its run is pending or
\* told; once it stopped, those that were due are told.
WaitIsSteady ==
    /\ client.at \in {"length", "start"} /\ ~disturbed =>
           client.mg = Lowest(server.registered)
    /\ client.at \in {"wait", "stop"} /\ ~disturbed =>
           LET j == server.journal[client.mg]
           IN  /\ client.mg = Lowest(server.registered)
               /\ j.name = client.name /\ Running(j)
               /\ \A c \in client.of.checks :
                      CheckTimer(c, j.started) \in server.timers \/ Told(server, client.mg, c.at)
    /\ client.at \in {"report", "over"} /\ client.verdict # "error" /\ ~disturbed =>
           LET j == server.journal[client.mg]
           IN  /\ j.name = client.name /\ j.started # Never /\ j.ended # Never
               /\ server.timers = {}
               /\ ~cut /\ j.ended - j.started >= client.for =>
                      \A c \in client.of.checks : c.at <= client.for => Told(server, client.mg, c.at)
               /\ client.at = "over" => (client.verdict = "failed") = Failed(j)

RunsIInv ==
    /\ Restorable(server, own, strayed) /\ ClientOK
    /\ BootIsFresh /\ SteppedIsSteady /\ SteppedIsTold /\ StepsAreExact /\ WaitIsSteady
=============================================================================
