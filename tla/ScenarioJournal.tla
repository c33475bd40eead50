---------------------------- MODULE ScenarioJournal ----------------------------
(***************************************************************************)
(* The scenario journal of one site (sim/scenario.rs,                       *)
(* microgrid_site/scenarios.rs): what the interpreter starts, stops, marks  *)
(* and checks, what the sampler and the grid's streams feed it, and what a  *)
(* client of the HTTP route gets of it while it polls for new events         *)
(* (ui/handlers/scenarios.rs).                                              *)
(*                                                                         *)
(* An event is its id, with a serial number that tells it from an event of  *)
(* another journal with that id; a scenario's name is its number.  The one  *)
(* battery takes a unit of power, so its energy is the time that was        *)
(* integrated.                                                             *)
(***************************************************************************)
EXTENDS Integers, Sequences, FiniteSets, SequencesExt

CONSTANTS
    Capacity,       \* events kept (SCENARIO_EVENT_CAPACITY)
    CheckCapacity,  \* checks kept (SCENARIO_CHECK_CAPACITY)
    WindowCapacity, \* windows kept (WINDOW_AVG_CAPACITY)
    WindowLength,   \* how long a window is (WINDOW_AVG_LENGTH_S)
    Limit,          \* most events in one answer
    Powers,         \* what the grid's streams carry
    Socs,           \* what the batteries' charges may be, in half percent, one by one
    MaxReports,     \* reports a client reads
    MaxTime,        \* bounds of the model: time,
    MaxRuns,        \* scenarios,
    MaxEvents,      \* events of the script,
    MaxSamples,     \* checks and grid samples of a run,
    MaxPasses,      \* passes of the sampler,
    MaxResets       \* and reloads

VARIABLES
    now,            \* the clock
    journal,
    interp,         \* where scenario-start is between its steps
    pass,           \* the sampler's pass: its time once it read the components
    poll,           \* the client that polls for events
    report, reports,    \* the one that reads the report
    runs, serial, passes, resets,       \* how often the bounds were used
    recorded, heard, excused,   \* events of this journal (history)
    rewound,        \* the client's cursor is of an earlier journal (history)
    fed,            \* grid samples and checks of the run (history)
    straddled
ghosts == <<recorded, heard, excused, rewound>>
vars == <<now, journal, interp, pass, poll, report, reports, runs, serial, passes, resets, ghosts, fed, straddled>>

-----------------------------------------------------------------------------
Never == -1
Idle == [at |-> "idle"]

Figures == [peak |-> 0, pair |-> <<>>, lastP |-> <<>>, windows |-> <<>>,
            energy |-> 0, passed |-> 0, failed |-> 0, checks |-> <<>>]

\* ScenarioJournal::default().
Fresh == [name |-> 0, started |-> Never, ended |-> Never, events |-> <<>>, next |-> 0,
          cursor |-> Never, figures |-> Figures]

Running(j) == j.started # Never /\ j.ended = Never
Elapsed(j) ==
    IF j.started = Never THEN 0
    ELSE LET end == IF j.ended = Never THEN now ELSE j.ended
         IN  IF end < j.started THEN 0 ELSE end - j.started

\* Everything goes but the ids, which a client's cursor may be in.
Started(j, name, t) ==
    [Fresh EXCEPT !.name = name, !.started = t, !.cursor = t, !.next = j.next]

\* The first stop's time stays; a journal that never started is marked too.
Stopped(j, t) == IF j.ended = Never THEN [j EXCEPT !.ended = t] ELSE j

Init ==
    /\ now = 0
    /\ journal = Fresh
    /\ interp = Idle /\ pass = Idle
    /\ poll = [at |-> "idle", since |-> 0]
    /\ report = Idle /\ reports = 0
    /\ runs = 0 /\ serial = 0 /\ passes = 0 /\ resets = 0
    /\ recorded = {} /\ heard = {} /\ excused = {}
    /\ rewound = FALSE
    /\ fed = [grid |-> <<>>, checks |-> <<>>]
    /\ straddled = FALSE

rvars == <<report, reports>>

-----------------------------------------------------------------------------
(* The interpreter.                                                         *)

\* scenario-start takes the time, and finds out whether a scenario runs, here
\* or in another microgrid.
ScenarioStart ==
    /\ interp = Idle /\ runs < MaxRuns
    /\ runs' = runs + 1
    /\ \E elsewhere \in BOOLEAN :
        interp' = [at |-> IF Running(journal) \/ elsewhere THEN "stop" ELSE "start",
                   time |-> now]
    /\ UNCHANGED <<now, journal, pass, poll, serial, passes, resets, ghosts, fed, straddled>>

\* One that does is stopped first.
TearDown ==
    /\ interp.at = "stop"
    /\ interp' = [interp EXCEPT !.at = "start"]
    /\ journal' = Stopped(journal, now)
    /\ UNCHANGED <<now, pass, poll, runs, serial, passes, resets, ghosts, fed, straddled>>

Begin ==
    /\ interp.at = "start"
    /\ interp' = Idle
    /\ journal' = Started(journal, runs, interp.time)
    /\ fed' = [grid |-> <<>>, checks |-> <<>>]
    /\ straddled' = FALSE
    /\ UNCHANGED <<now, pass, poll, runs, serial, passes, resets, ghosts>>

ScenarioStop ==
    /\ interp = Idle
    /\ journal' = Stopped(journal, now)
    /\ UNCHANGED <<now, interp, pass, poll, runs, serial, passes, resets, ghosts, fed, straddled>>

\* scenario-event, which asks for no running scenario.
ScenarioEvent ==
    /\ interp = Idle /\ serial < MaxEvents
    /\ serial' = serial + 1
    /\ LET e == [id |-> journal.next, serial |-> serial]
           kept == IF Len(journal.events) >= Capacity THEN Tail(journal.events)
                   ELSE journal.events
       IN  /\ journal' = [journal EXCEPT !.next = @ + 1, !.events = Append(kept, e)]
           /\ recorded' = recorded \cup {e}
           /\ excused' = IF rewound /\ e.id < poll.since THEN excused \cup {e} ELSE excused
           /\ poll' = IF poll.at = "summary" THEN [poll EXCEPT !.unread = @ \cup {e}] ELSE poll
    /\ UNCHANGED <<now, interp, pass, runs, passes, resets, heard, rewound, fed, straddled>>

\* scenario-expect: the totals count on when the details age out.
ScenarioExpect(holds) ==
    /\ interp = Idle /\ Len(fed.checks) + Len(fed.grid) < MaxSamples
    /\ fed' = [fed EXCEPT !.checks = Append(@, holds)]
    /\ journal' =
        LET old == journal.figures.checks
            kept == IF Len(old) >= CheckCapacity THEN Tail(old) ELSE old
        IN  [journal EXCEPT !.figures =
                [@ EXCEPT !.passed = IF holds THEN @ + 1 ELSE @,
                          !.failed = IF holds THEN @ ELSE @ + 1,
                          !.checks = Append(kept, holds)]]
    /\ UNCHANGED <<now, interp, pass, poll, runs, serial, passes, resets, ghosts, straddled>>

\* reset() puts a default journal in its place, ids and all.
Reset ==
    /\ interp = Idle /\ resets < MaxResets
    /\ resets' = resets + 1
    /\ journal' = Fresh
    /\ recorded' = {} /\ heard' = {} /\ excused' = {}
    /\ rewound' = (poll.since > 0)
    /\ fed' = [grid |-> <<>>, checks |-> <<>>]
    /\ straddled' = FALSE
    /\ UNCHANGED <<now, interp, pass, poll, runs, serial, passes>>

-----------------------------------------------------------------------------
(* What feeds the report's figures.                                         *)

\* record_history_snapshot reads the components first ...
Sample ==
    /\ pass = Idle /\ passes < MaxPasses
    /\ passes' = passes + 1
    /\ pass' = [at |-> "read", time |-> now]
    /\ UNCHANGED <<now, journal, interp, poll, runs, serial, resets, ghosts, fed, straddled>>

\* ... and feeds the journal what it read for the time since its cursor, which
\* then stands at this pass's time even where that is the earlier.
Feed ==
    /\ pass # Idle
    /\ pass' = Idle
    /\ IF Running(journal)
       THEN /\ journal' = [journal EXCEPT
                    !.cursor = pass.time,
                    !.figures.energy = IF pass.time > journal.cursor
                                       THEN @ + (pass.time - journal.cursor) ELSE @]
            /\ straddled' = (straddled \/ pass.time < journal.started)
       ELSE UNCHANGED <<journal, straddled>>
    /\ UNCHANGED <<now, interp, poll, runs, serial, passes, resets, ghosts, fed>>

\* record_grid_power: the peak, the window's sum and count with the oldest
\* window dropped, and the P the next Q is paired with.
GridPower(f, p) ==
    LET w == now \div WindowLength
        grown == [x \in DOMAIN f.windows \cup {w} |->
                    LET old == IF x \in DOMAIN f.windows THEN f.windows[x] ELSE <<0, 0>>
                    IN  IF x = w THEN <<old[1] + p, old[2] + 1>> ELSE old]
        oldest == CHOOSE x \in DOMAIN grown : \A y \in DOMAIN grown : x <= y
    IN  [f EXCEPT !.peak = IF p > @ THEN p ELSE @,
                  !.lastP = <<p>>,
                  !.windows = IF Cardinality(DOMAIN grown) > WindowCapacity
                              THEN [x \in DOMAIN grown \ {oldest} |-> grown[x]]
                              ELSE grown]

Abs(n) == IF n < 0 THEN -n ELSE n

\* record_grid_reactive: the largest |Q| so far with the last P before it.
GridReactive(f, q) ==
    IF f.lastP # <<>> /\ (f.pair = <<>> \/ Abs(q) > Abs(f.pair[2]))
    THEN [f EXCEPT !.pair = <<f.lastP[1], q>>] ELSE f

\* A sample of one of the two streams; outside a run it is dropped.
GridSample(axis, v) ==
    /\ Running(journal) /\ Len(fed.checks) + Len(fed.grid) < MaxSamples
    /\ journal' = [journal EXCEPT !.figures =
                        IF axis = "P" THEN GridPower(@, v) ELSE GridReactive(@, v)]
    /\ fed' = [fed EXCEPT !.grid = Append(@, [axis |-> axis, value |-> v, time |-> now])]
    /\ UNCHANGED <<now, interp, pass, poll, runs, serial, passes, resets, ghosts, straddled>>

-----------------------------------------------------------------------------
(* The clients.                                                             *)

Earliest == IF journal.events = <<>> THEN journal.next ELSE Head(journal.events).id

\* The events route reads the events under one guard ...
PollEvents ==
    /\ poll.at = "idle" /\ MaxEvents > 0
    /\ LET new == SelectSeq(journal.events, LAMBDA e : e.id >= poll.since)
           batch == SubSeq(new, 1, IF Len(new) > Limit THEN Limit ELSE Len(new))
       IN  poll' = [at |-> "summary", since |-> poll.since, batch |-> ToSet(batch),
                    unread |-> ToSet(new) \ ToSet(batch)]
    /\ UNCHANGED <<now, journal, interp, pass, runs, serial, passes, resets, ghosts, fed, straddled>>

\* ... and the ids under another; the client's next cursor is the next id.  It
\* knows of a loss when the earliest event kept is past its cursor.
PollSummary ==
    /\ poll.at = "summary"
    /\ poll' = [at |-> "idle", since |-> journal.next]
    /\ heard' = heard \cup (poll.batch \intersect recorded)
    /\ LET passed == {e \in recorded : e.id >= poll.since}
       IN  excused' = excused \cup
                IF Earliest > poll.since THEN passed ELSE passed \intersect poll.unread
    /\ rewound' = FALSE
    /\ UNCHANGED <<now, journal, interp, pass, runs, serial, passes, resets, recorded, fed, straddled>>

\* Mean, median and mode of what the batteries hold now; None without any.
Bucket(soc) == (soc + 1) \div 2
StatsOf(socs) ==
    LET n == Len(socs)
        sorted == SortSeq(socs, <)
        count(b) == Cardinality({i \in 1..n : Bucket(socs[i]) = b})
        buckets == {Bucket(socs[i]) : i \in 1..n}
        fullest == {b \in buckets : \A c \in buckets : count(c) <= count(b)}
    IN  IF n = 0 THEN {}
        ELSE {[sum |-> FoldLeft(+, 0, socs), of |-> n,
               median |-> sorted[(n \div 2) + (n % 2)],
               mode |-> CHOOSE b \in fullest : \A c \in fullest : b <= c]}

\* A plausible slip: the name is read once the guard is let go.
TellUnderNewName(socs) ==
    report' = [report EXCEPT !.at = "told", !.name = journal.name, !.socs = socs,
                             !.stats = StatsOf(socs)]

\* The answer, its charges read last.
Tell(socs) ==
    report' = [report EXCEPT !.at = "told", !.socs = socs, !.stats = StatsOf(socs)]

\* scenario_report reads the journal under one guard ...
ReadReport ==
    /\ report.at # "read" /\ reports < MaxReports
    /\ reports' = reports + 1
    /\ report' = [at |-> "read", name |-> journal.name, elapsed |-> Elapsed(journal),
                  figures |-> journal.figures, reset |-> resets, straddled |-> straddled,
                  socs |-> <<>>, stats |-> {}]
    /\ UNCHANGED <<now, journal, interp, pass, poll, runs, serial, passes, resets, ghosts, fed,
                   straddled>>

\* ... and then the batteries, without it.
ReadSocs(socs) ==
    /\ report.at = "read"
    /\ Tell(socs)
    /\ UNCHANGED <<now, journal, interp, pass, poll, reports, runs, serial, passes, resets, ghosts,
                   fed, straddled>>

Tick ==
    /\ now < MaxTime
    /\ now' = now + 1
    /\ UNCHANGED <<journal, interp, pass, poll, runs, serial, passes, resets, ghosts, fed, straddled>>

Next ==
    \/ /\ \/ ScenarioStart \/ TearDown \/ Begin \/ ScenarioStop \/ ScenarioEvent \/ Reset
          \/ \E holds \in BOOLEAN : ScenarioExpect(holds)
          \/ Sample \/ Feed
          \/ \E axis \in {"P", "Q"}, v \in Powers : GridSample(axis, v)
          \/ PollEvents \/ PollSummary
          \/ Tick
       /\ UNCHANGED rvars
    \/ ReadReport
    \/ \E socs \in Socs : ReadSocs(socs)

-----------------------------------------------------------------------------
\* A client that passes back the cursor it was given receives every event, is
\* told that some are gone, or missed one that was recorded between the two
\* readings of one answer, was more than an answer carries, or has an id that
\* a reload gave out again (scenarios.rs:329-394, ui/handlers/scenarios.rs:78).
EventsAreHeard ==
    \A e \in recorded : e.id < poll.since => e \in heard \cup excused

\* The figures by definition, from all grid samples of the run.
OfAxis(axis) == {i \in DOMAIN fed.grid : fed.grid[i].axis = axis}
PeakOf ==
    LET values == {0} \cup {fed.grid[i].value : i \in OfAxis("P")}
    IN  CHOOSE v \in values : \A w \in values : v >= w
LastP(i) ==
    LET before == {j \in OfAxis("P") : j < i}
    IN  fed.grid[CHOOSE j \in before : \A k \in before : k <= j].value
PairOf ==
    LET paired == {i \in OfAxis("Q") : \E j \in OfAxis("P") : j < i}
        size(i) == Abs(fed.grid[i].value)
    IN  IF paired = {} THEN <<>>
        ELSE LET i == CHOOSE i \in paired :
                        \A j \in paired : size(j) < size(i) \/ (size(j) = size(i) /\ i <= j)
             IN  <<LastP(i), fed.grid[i].value>>
WindowsOf ==
    LET window(i) == fed.grid[i].time \div WindowLength
        all == {window(i) : i \in OfAxis("P")}
        kept == {w \in all : Cardinality({x \in all : x > w}) < WindowCapacity}
        samples(w) == {i \in OfAxis("P") : window(i) = w}
        sum(w) == FoldLeft(LAMBDA s, i : IF i \in samples(w) THEN s + fed.grid[i].value ELSE s,
                           0, [i \in DOMAIN fed.grid |-> i])
    IN  [w \in kept |-> <<sum(w), Cardinality(samples(w))>>]

\* The journal's figures are the run's: of all its grid samples and nothing of
\* an earlier run's, every check counted once, and no time integrated that the
\* run did not last - unless the sampler read the components before the start
\* and fed the journal after it, which sets the cursor back
\* (scenario.rs:183-320).
FiguresAreOfTheRun ==
    LET f == journal.figures
        good == {i \in DOMAIN fed.checks : fed.checks[i]}
    IN  /\ f.peak = PeakOf /\ f.pair = PairOf /\ f.windows = WindowsOf
        /\ f.passed = Cardinality(good)
        /\ f.failed = Len(fed.checks) - Cardinality(good)
        /\ straddled \/ f.energy <= Elapsed(journal)

\* A report's figures are those of the run it names, which can only have grown
\* since, and no more time is integrated in it than it says that run lasts; its
\* charges are the batteries' (microgrid_site/scenarios.rs:123-157, 483-583).
ReportsAreOfOneRun ==
    report.at = "told" =>
        /\ report.name = journal.name /\ report.reset = resets =>
            /\ report.figures.peak <= journal.figures.peak
            /\ report.figures.passed <= journal.figures.passed
            /\ report.figures.failed <= journal.figures.failed
            /\ report.figures.energy <= journal.figures.energy
        /\ report.straddled \/ report.figures.energy <= report.elapsed
        /\ \A st \in report.stats :
            LET n == Len(report.socs)
                like(i) == {j \in 1..n : Bucket(report.socs[j]) = Bucket(report.socs[i])}
            IN  /\ 2 * Cardinality({i \in 1..n : report.socs[i] <= st.median}) >= n
                /\ 2 * Cardinality({i \in 1..n : report.socs[i] < st.median}) < n
                /\ \E i \in 1..n : report.socs[i] = st.median
                /\ \E i \in 1..n :
                    /\ Bucket(report.socs[i]) = st.mode
                    /\ \A j \in 1..n : \/ Cardinality(like(j)) < Cardinality(like(i))
                                       \/ /\ Cardinality(like(j)) = Cardinality(like(i))
                                          /\ Bucket(report.socs[j]) >= st.mode
        /\ report.stats = {} <=> report.socs = <<>>
=============================================================================
