# Macrocosim in TLA+

Macrocosim simulates microgrids behind the production APIs: a gRPC service per
microgrid, dispatch and assets services beside them, a web UI, and a Lisp
interpreter that builds and drives it all. Its physics is plain arithmetic; what
is hard about it is that a 10 Hz physics task, gRPC handlers, telemetry tasks,
UI handlers and the interpreter share one site through a dozen small locks,
while sites are reset, reloaded and edited under them. This directory models
that: TLA+ modules translated from the Rust sources, TLC instances of them, and
theorems checked by TLAPS. Paths below are relative to `src/src/`.

 1. The system
 2. The modules and the order they were written in
 3. The modules and the code
 4. The runs, their bounds and their fairness
 5. What is proved
 6. Divergences from the documentation
 7. What is not modelled


## 1. The system

### Who runs

| actor | code | locks it shares |
|---|---|---|
| physics task, one per site | `sim/microgrid_site/mod.rs` `spawn_physics`, `tick_once` | gateway state, `runtime`, `component_energy`, each component |
| history sampler, 1 Hz | `sim/microgrid_site/history.rs` | `histories`, `runtime` |
| gRPC handlers | `server.rs` | `by_id`, `runtime`, gateway state, `setpoint_logs` |
| telemetry task, one per stream | `server.rs` | none: it holds its component and an epoch |
| dispatch and assets services | `dispatch_server.rs`, `assets_server.rs` | the store, the registry |
| UI handlers | `ui/handlers/*` | any of the above; the interpreter for `eval` |
| the interpreter | `lisp/*` | one lock for all of Lisp: topology changes, reset, reload and undo never overlap each other |
| refresh, watcher and scenario loops | `lisp/boot.rs`, `lisp/defuns/scenarios.rs` | the interpreter |

Structural changes take the interpreter lock, so there is one registration,
removal or reset at a time. Requests and ticks do not take it: each of those
changes happens in steps that they see.

### Components

**Power envelopes** (`sim/bounds.rs`). Lists of bands with optional edges.
Operations: contain, intersect, merge, clamp, sum. Correct when every list means
the set of powers it should, whatever order bands came in.

**Command delay, ramp and device axis** (`sim/ramp.rs`, `sim/device_axis.rs`).
Two delay lines in series, each a short queue of stamped commands. The clock they
compare stamps with is wall time and may step back. Correct when commands come
out in order, none is passed over but for a later one, the newest is never lost,
and a controller that keeps sending does not starve itself.

**Gateway** (`sim/gateway.rs`, `sim/gateway/step.rs`, `sim/gateway_axis.rs`,
`timeout_tracker.rs`). Per axis: command delay, ramp, augmentations, lifetime.
Called by requests (`set_power`, `augment`), by the tick (`step`) and by
registration, removal and reset. Correct when a command has a lifetime and ends
for a cause of its own, augmentations never exclude each other, outputs stay
inside the device's physical band and its share, and nothing is left behind.

**SoC window** (`sim/gateway/window.rs`, `sim/decay.rs`). Per tick, how inverters
share what their batteries may still take. Correct when no battery is asked for
more than its room.

**Site run** (`sim/microgrid_site/mod.rs`, `server.rs`). Run generation, stream
epoch and registry. Correct when a request or a stream of one run never reaches
another run's component.

**Runtime modes** (`sim/runtime.rs`, `ui/handlers/control.rs`,
`lisp/defuns/runtime_modes.rs`). Health, telemetry and command mode, coupled to
each other and to the operational mode. Correct when an errored device accepts no
commands, a mode's denials hold, and a removal takes everything with it.

**Component models** (`sim/battery.rs`, `sim/inverter/*`, `sim/meter.rs`,
`sim/ev_charger.rs`, `sim/steam_boiler.rs`, ...). The DC bus is their one
protocol: inverters push, batteries settle on their own tick, and the accept
ratio comes back one tick late. Correct when power is conserved over a tick.

**History, energy, setpoint log, events** (`sim/history.rs`, `sim/energy.rs`,
`sim/setpoints.rs`, `sim/events.rs`). Tables by id written by tasks that hold a
component longer than the registry does. Correct when a new component of an id
inherits nothing.

**Scenarios** (`sim/scenario.rs`, `sim/microgrid_site/scenarios.rs`). A journal,
an energy baseline and a baseline of the knobs a scenario displaced. Correct when
a stop restores what was there before the start, once.

**Dispatches** (`sim/dispatch.rs`, `dispatch_server.rs`). A store, a bounded
broadcast of its changes, streams that subscribe and then snapshot. Correct when
a client converges, sees a change at most twice, or is told it lost some.

**Microgrid runtimes and registry** (`runtime.rs`, `sim/microgrids.rs`). A status
and generation per microgrid, its server task and port. Correct when an old
server's end does not fail a new start, no registration is missed, and no two
microgrids get an id or a port.

**Interpreter, persistence, reload, undo** (`lisp/*`). The managed file, the
hashes of self-written files, two bounded stacks of blocks. Correct when file,
world and stacks agree after every step that fails half way, and no human edit
goes unnoticed.

**Topology** (`sim/microgrid_site/mod.rs`, `sim/meter.rs`, `ui/handlers/topology.rs`,
`sim/graph_adapter.rs`). Components, an index and edges, each behind its own lock,
written by structure and walked by meters and listings. Correct when a watt is
counted once and a listing names what exists.

**Ids and constructors** (`lisp/make.rs`, `sim/defaults.lisp`, `sim/site_import.rs`).
One allocator for all microgrids; keywords, defaults, refusals; an import in four
steps. Correct when ids are unique and a save, which names the bare primitives,
builds again what was saved.

**Scopes** (`sim/microgrids.rs` `SiteRouter`, `lisp/boot.rs`). Stacks that say which
microgrid and which file a form acts on. Correct when a file acts on its own.

**Weather** (`sim/weather.rs`, `ui/handlers/weather.rs`), **loopback**
(`ui/loopback.rs`), **event push** (`ui/events_ws.rs`). A sky, a mirror of a site and
a browser's view. Correct when they end up showing what is.

**Grid frequency** (`sim/frequency.rs`, `lisp/defuns/frequency.rs`). One process for all
microgrids, with a base model and an override. Correct when an override keeps what
was given to it and a value that is not finite does not stay.

**Clocks, assets, tools**. See section 7.

### What is hard

The list of hazards in PROJECT.json names each at its line. They fall into five
groups: a lookup, capture or read that is stale by the time it is used; a
structural change seen half done; time limits against faults and clock steps;
queues, lines and rings at their limit; several writes of which one fails.


## 2. The modules and the order they were written in

By what a mistake would cost, the core first:

 1. `BandSets`, `Bands`, `Envelope`: what a power envelope means.
 2. `DelayOps`, `DelayPromise`, `CommandDelay`, `DeviceAxis`: two delay lines against
    one abstract promise.
 3. `Gateway`: composed of 1 and 2.
 4. `SiteRun`: a reset against requests and streams. `RuntimeModes`.
 5. `DcBus`, `DispatchStream`, `Enterprise`.
 6. `SiteTables`, `ManagedFile`, `Loopback`, `Weather`.
 7. `Drives`, `Constructors`, `ComponentIds`, `Scopes`, `Topology`.
 8. `ScenarioJournal`, `ScenarioRun`, `Recording`, `EventPush`.
 9. `SteamBoiler`, `Frequency`.

Proofs follow the same order: `PowerProofs` (lemmas on 1 and 2), `GatewayProofs`
(`Gateway`, `CommandDelay`), `DeviceAxisProofs`, `StreamProofs` (`SiteRun`,
`DispatchStream`), `RuntimeProofs` (`RuntimeModes`, `Drives`, `Weather`),
`EnterpriseProofs` (`Enterprise`, `Loopback`, `EventPush`), `SiteProofs` (`SiteTables`,
`SteamBoiler`, `Frequency`, `ManagedFile`), `ScenarioProofs` (`ScenarioRun`).


## 3. The modules and the code

`PROJECT.json` maps every definition to its lines. The larger choices, by part.

### Power and commands

**Bands** keeps `VecBounds` as the code does, a list of bands with optional edges;
**BandSets** reads a list as the set of integer powers it admits. **Envelope** shows
the two agree, and the modules above use the sets. Watts are integers: the
rounding of f32 and its NaN handling are outside the model (requests that are not
finite are refused before any of this). Inverted overlaps, edges that touch and
open edges are all in.

**DelayOps** is `CommandDelay` (executing, waiting, armed) as operators. A stamp is
kept as its age in ticks, so the state is finite without bounding the clock, and
a stamp that lies in the future has a negative age. `TICK_JITTER` is below one
tick: a command is due when its age in ticks reaches the delay. **CommandDelay**
adds clients, the poll, resets and the clock. **DeviceAxis** is the device's line;
its assumption that the delay is a whole number of `MAX_LINE` slots removes a
remainder smaller than the jitter. The clock's steps back are bounded in sum by
`Back`. **DelayPromise** is what both promise.

**Gateway** is one site's gateway. One action per operation: `SetPower` (both
modes), `Augment`, `Tick` (`Step` is all of `Gateway::step`: expiry, trip, poll,
clamp, share, ramp, hold), and the two steps each of registration (`OnRegister`,
`InsertById`), removal (`RemoveById`, `Forget`) and reset (`ClearById`,
`ClearGateway`). Time is relative: a lifetime is the ticks it has left, 0 when its
deadline has passed but nobody has reaped it yet. `set_power` holds the gateway
lock from its checks to its writes, so it is one action; a removal that takes the
component from `by_id` inside it has the outcome of one just after, since `Forget`
waits for the lock and wipes what it wrote. Health is not a guard of `SetPower`:
the server checks it before the gateway lock (`server.rs` `gate_runtime_faults`), so
an error can come in between. Physical bands and shares span 0 (`AdvanceCtx`), and
which share an axis gets is an input; **DcBus** models how shares come about.

**DcBus** is battery inverters over the batteries they share: shares per battery
and sign, the split over the healthy ones, the settlement at the battery's next
tick and the accept ratio that returns one tick late. Integer parts round toward
0. A battery that fails between the gateway's step and the inverter's tick is
exempt from its accounting: the code settles that power at the next tick. The
integration of charge is covered by letting any request move a battery's level.

**SiteRun** is the site during a reset, one action per table it touches, with
requests in the four steps in which the code can be interrupted (capture the
generation, look up, take the lock and compare, look up again and apply) and
streams in theirs. A component is named by the run that built it. Generation and
epoch are `Relaxed` atomics; the model is sequentially consistent.

**RuntimeModes** is one component's rows in three tables. A setter is two steps,
what it reads before the runtime lock and what it does under it. A status request
checks everything and then runs up to three setters; the interpreter runs one at
a time, which covers `apply_initial_modes` as a sequence of calls. An operational
mode is the set of capabilities it grants, "fault" stands for the modes no coupling
sets, and a reset clears the three tables in the order a removal does.

### Services around a site

**DispatchStream**: store, bounded broadcast, streams that subscribe before they
snapshot, lag, `DATA_LOSS`, aborts. The UI's handlers make the same calls and are
mapped to `Requests`. `JoinHandle::abort` takes effect at the task's next await. That
a descending id order is newest-created, as a comment in `dispatches.rs` has it, is
not relied on.

**Enterprise**: `make-microgrid`, creates and copies under the create lock, starts
under theirs, runtimes whose servers end, the registration listener with its lag. A
topology that fails takes back the entry its own call made, and the file of the
create or copy whose load it was.
Requests arrive once the listener is live.

**ManagedFile**: what one holding of the interpreter lock does is one step; the
adoption (`adopt_body`, which holds no interpreter lock), the watcher's look and
people are not under it. A file is a block and a script; a read and write inside
one save is one step.

**Loopback**: the supervisor with debounce, lag and failed builds, the hand-over of
streams, caches and energy totals. A removal and a reset count themselves before
they change the data, which is the divergence of `stale_graph`; a build torn by one
is exempt from the properties. `republish_energy_totals` only repeats what is there.

**EventPush**: a session's subscription to announcements, its scan of the registry,
the forwarders it spawns, their shared bounded channel, and the pump. A site is the
number it was made under, so that an id whose creation failed is another site when
it comes back. A forwarder has its place in the site's bounded bus and one event in
hand, which waits for room in the channel. The pump reads three queues in any
order: announcements, the channel, and the logs and dispatches (`tap`). Two histories
name what the code makes no promise for: `doomed`, the ids whose creation failed
under the session, and `outrun`, the sites whose latest structure event a burst
drove out of a ring (section 6).

### A site's tables

**SiteTables**: components, energy, rings, journal and knob baseline, each behind its
own lock, against the tasks and the UI's drive route, which share none with the
interpreter. A component is the number of its building. `pre` and `overlapped` are
ghosts: the knobs before a run and the ids driven while a start or a registration
was under way, for which the code makes no promise that holds (section 6).

**Drives**: a driven input from the interpreter and the HTTP route, each call a
snapshot, a write and an announcement; what a stop puts back, what a save says and
what a client that hears the announcements shows. A meter's two inputs share
nothing but an OR. A boiler's pressure is **SteamBoiler**'s.

**SteamBoiler**: what a boiler is made of once its configuration is guarded, the doors
that set demand, pressure and command, and a tick in three steps, since it reads,
heats and integrates under different locks. Numbers are integers or not finite; the
heater's delay line is **DeviceAxis**'s and is 0 here. **Frequency**: the base model, its
override, the frequency set by hand and the driver's step. A rate is what it does
within one step, and a step goes to any frequency that its pull and its noise may
reach.

**Constructors**: what each `%make-*` accepts and refuses, the defaults a `make-*`
wrapper appends, and the keywords a save renders. A saved form names the primitive
(`make_fn`), so a reload is `Make(category, file)` and no default takes part in it.
Only rates and a meter's powers may be past every f32 here; a rated bound that is
would be written as `inf`, whose reading is the Lisp library's and is left out.
**ComponentIds**: the allocator, `connect`, the import's four steps
and reloads. **Scopes**: evaluation as an operator from world to world; timers run
with no microgrid in scope. **Topology**: readers that take every table under its
own lock, against structural changes in as many steps as tables. **Weather**: the sky
in its slot, with partial updates that read and write under two takings of a lock;
a reader's cache is left out.

**ScenarioJournal**: events, checks, grid figures and integrals with their readers.
**ScenarioRun**: definitions, the run a start compiles, its teardown in every
microgrid, and `macroctl`'s two runners. **Recording**: the buffered CSV writers with
their swaps and closes, and the rings read in windows; opening the files is one
step and a row is written whole, though a `BufWriter` may split one.

The `*Proofs` modules hold the theorems, the `MC*` modules the instances. Parts that
share no state are checked side by side in one instance: a behaviour picks one at
its start (`part`) and is a behaviour of that part alone, so the state space is the
sum of theirs and nothing is interleaved that the code does not interleave.


## 4. The runs, their bounds and their fairness

| run | parts | what it asks |
|---|---|---|
| progress | SiteRun, DeviceAxis, CommandDelay, DcBus, DispatchStream | Everything with liveness: do commands come out of both lines in order and without starving, do pushes fit and settle, do streams end, converge or get told, and does the run's generation hold what it does hold? |
| standing | Envelope, Loopback, Enterprise, ManagedFile, EventPush twice | Do lists mean sets; does the mirror follow; are ports, announcements and statuses true; is no edit of a file lost; does a browser hear of every microgrid and the newest structure? |
| fleet | Gateway (one axis), Scopes, Topology, ScenarioRun, Recording twice, SteamBoiler, Frequency | Does every command have a lifetime, does no augmentation exclude another, does a share only narrow; do files act at home, watts count once, runs come back whole, and rows get kept once; does a boiler keep its pressure and the frequency its layers? |
| gateway_ramp | Gateway | With delay, ramp and hold: is the output inside what holds it, and does it come to rest? |
| gateway_registry | Gateway | Two components, three axes: do registry changes leave axes and commands where they belong? |
| site_doors | RuntimeModes, SiteTables twice, Drives, Constructors, ComponentIds, Weather, ScenarioJournal four times | What survives every interleaving of the doors of one site: interpreter, routes, physics, samplers? |

and six refutations, each of one statement of the code's own documentation
(section 6): `site_run_stream`, `rebuild_drift`, `runtime_modes_race`, `stale_graph`,
`timer_scope`, `self_write`.

### Bounds

Every bound is a constant of its module and a guard of the actions it bounds.

*progress.* Run: two clients, one holding the lock the other waits for; one stream;
two resets, the second finding what the first left; one cancellation. Device
line: four ticks of delay in two slots, so that a command can merge, follow at
once or follow after a gap and a line can be full; one tick of clock step, with
which the backstop can be reached. Gateway line: three values tell a command from
the two it can be confused with, a delay of two leaves room before, at and after
due, four ticks of clock steps put stamps past every threshold. DC bus: one
inverter over both batteries, one over the second whose envelope has a gap;
three levels; one battery that fails. Dispatches: two microgrids, a ring of two and
a channel of one, so that lag and back-pressure occur.

*standing.* Envelopes: powers -4..4 with even edges, so that a gap holds a power;
lists of up to two bands that overlap, nest, touch or leave a gap, open on any
side. Loopback: one stream, two edits, one poke without effect, one failed build.
Registry: two ids, three ports, two creates (interchangeable: symmetry), one
script, a ring of one, so that announcements get lost. Files: stacks of two, one
edit in flight, three saves, and texts that are whole, mangled, unmarked or
broken. Push: two ids and three sites with a bus, announcements and a channel of one, so
that each of them overflows or blocks; one id and two sites with a ring of two and
two events of each kind, so that a burst drives an event out.

*fleet.* Axis: two stored augmentations, one with a gap, that end in either order;
no delay, which gateway_ramp has. Files: one managed and one hand-written, four
steps. Topology: five components, one meter hidden, a chain and a device connected
twice, two pairs to connect, two changes. Runs: two microgrids, five definitions,
stepped and live clocks. Past: one id that is built as one kind and again as another,
a ring of one; a battery with two requests on their way, rings of two. Boiler: four
configurations, with every field out of range in one of them, started below, at and
above the target; ticks of one and two. Frequency: three values and one that is not
finite; calls with every key, with one, and with rates and noise below 0.

*gateway_ramp, gateway_registry.* A delay of one and a rate of two in a range of
five: a ramp can overshoot and be held half way; a lifetime of 0, which Lisp may
pass, expires at the next tick. Two components with three axes: one of them keeps
its command through a fault.

*site_doors.* One UI request beside the interpreter with every knob by itself and
the combinations whose setters disturb each other. Rows: one id built three times
over three physics ticks. Knobs: a component built twice, one drive request, two
drives of the interpreter. Drives: each input by itself. Built: a component of each
category from one keyword of its own, after one edit of its defaults. Ids: an allocator that
wraps at 6 and a largest readable id of 3 stand for u64 and i64. Weather: an hour is
one unit, a cloud lasts two, the clock may stand, leap an hour or step back;
updates that each move one end of the day, three of them. Scenario, four
instances: a script of four events in a ring of two with a client that polls; the
sampler's passes; three samples of the grid in windows of one; one report.

Deadlock is checked in `site_run_stream` and `runtime_modes_race`. In the other
instances the system may stop: bounded counters are used up, or time and ticks
change nothing once everything is quiet.

### Fairness

The clock and the poll or tick are weakly fair: `spawn_physics` loops on an interval
for as long as the site lives. The second step of a registration, removal or reset
is weakly fair: the interpreter runs it right after the first. A reset goes on to
cancel the streams, and a stream's task and its client go on: tokio runs the task,
and only a client that reads is promised anything. A dispatch task is fair, its
client reads. No client is assumed to send anything. `OutputSettles` assumes one
thing more, in its statement: that from some time on nothing but the clock and
ticks with the same shares happens.


## 5. What is proved

For every value of the constants that satisfies the assumptions named. Every
invariant was checked by TLC first, as written.

**GatewayProofs.** `TypeCorrect`; its hard part is that a clamp lands on a power
(`PowerProofs!ClampLands`: a non-empty set of integers in a range has a member
nearest to any). `CommandsHaveLifetimes`, `FoundHaveAxes` and `NothingIsLeftBehind`
follow from one inductive invariant, `IInv`: types, the two properties, and
`Lifecycle`. None is inductive alone: a registration must know that nothing was left
under the id, and that is true only because a removal is between its steps
(`Leaving`) whenever something is left under an id that cannot be found.
`CommandHasLifetime` in turn needs that a component that can be found has its axes:
the tick reaps every lifetime, but clears a command only on an axis that exists.
`NobodyIsBoxedIn` has an invariant of its own (`Room`): a power of the base inside
every live augmentation exists, each accepted one keeps one, expiry only widens.
`OutputsAreHeldInside`, `CommandsEndForOwnCause` and `SharesOnlyNarrow` are action
properties from it; the last rests on what clamping into a share that spans 0 does
to a power already clamped (`NarrowedTowardZero`).

Of **CommandDelay**, in the same module: `DelayKeepsPromise`: `CommandDelay` implements `DelayPromise`,
initial states and every step, by a case for each of accepted, overtaken, armed
and reset. `NewestIsKept`: the newest command accepted is the last in line, or
armed. `BurstsDoNotCollapse`: a poll arms at most one.

**DeviceAxisProofs.** `AxisKeepsPromise`: `DeviceAxis` implements the same promise: a
merge replaces the last in line, the backstop drops the oldest, a tick releases
the due prefix. `MergingBoundsTheLine`: while the clock has not stepped back the
line holds at most `MAX_LINE + 1` commands, whatever the delay, so the backstop is
never used, as the comment at `device_axis.rs:18-23` says. Its invariant is that
two commands which are not due lie a slot apart for every place between them, and
that no stamp is further ahead than the steps back account for. `SlotAssumption`
(a delay of a whole number of slots) is its hypothesis.

**StreamProofs.** `HeldCommandsAreOfThisRun` and `StraysComeFromMidReset`, from
types, `Place`, `Found` and `Locked`: which run each table is of while a reset walks
through them, that a request cannot have found a component that is not built yet,
and that whoever holds the gateway lock passed the check with a generation at
most one reset old, a reset that cannot finish before the lock is released.
`UpdatesStand` and `ClientsConverge`, for any microgrids, ids, streams, ring and
channel, from `DispatchIInv`. `IdsAreUsedOnce` is what a create needs, which takes its
id and its place in the store in two steps. Convergence is about what a client
will know once it has read the rest of its snapshot, the channel, the event in the
task's hand and the ring, in that order (`Learns`); it is inductive with `CatchesUp`,
that until the snapshot is taken the events that will be read after it end with what
the store holds, and `InOrder`, that a stream holds only its own microgrid's events
and none before its stage. A stream that lost events is excused and told so.

**RuntimeProofs.** `ErrorShutsTheChannel`, `RemovalLeavesNoGhosts`,
`GrantsComeFromStaleReads` and `RequestsAreApplied`, for any number of UI requests.
The invariant adds `Tables` (what each table holds between the steps of a
registration or removal), `Checked` (a setter about to open a channel read a mode
that allows it) and `Planned` (what of a request has been applied, and what of it
is still to be, while nobody disturbed it).

`SavesComeBackDriven` and `DriversAreTold`, for every input, any values and any number
of calls, from `DrivesIInv`. That a client shows the source in force rests on
`OneDoorOwes`: while no two calls overlapped, one door at most has written and not
told yet; calls that overlap are exempt because the announcements of two writers may
come in the order opposite to the writes. That a stop announces an expression's
value of now is `RefreshedIsNow`, between its refresh and its broadcast; that it winds
a car back only if a call of its run asked for it is `RunWasAsked`.

`SkiesAreSound`, for any patches, clouds and lengths of an hour, from `WeatherIInv`:
`CloudsAreKnown` (a cloud that passed is remembered until an hour after its end, as of
the tick before), `ArrivalIsAhead`, `DaysHaveLength`, and `ReadingsStand`: an update that
nobody crossed still holds what is in the slot. Its two action properties are that
no tick brings a cloud from before the tick before it, and that an update moves only
what it carries.

**EnterpriseProofs.** `PortsStayTrue`, `AnnouncedStayReal` and `StatusTellsOfItsServer`,
for any ids, ports, creates and scripts, from `RegistryIsSound`: sites are counted,
a make under way is its own, a microgrid's newest attempt is the one its status
tells of, live servers are those of attempts, and what was announced is known.

`LoopbackFollows`, for any streams, bus and number of changes and failed builds, from
`LoopbackIInv`. A build targets the shape it read; `NothingIsLost` says that while the
site has another one a change is still to be heard of, and `GraphsMirror` that a
graph of the site's own shape has the site's streams, unless it was read between a
removal's count and its end. The totals need to know whose samples are in flight:
`HandsMatch`, `SamplesAreOfThisRun` and `TotalsAreOfThisRun` follow a sample from the
build that subscribed to it through the abort and the pruning.

`BrowsersHear`, for any ids, rings, channel, makes, changes and samples, from
`PushIInv`. Two halves. Every microgrid once: a site has one owner (`SitesAreOwned`), an
owner one forwarder (`ForwardersDiffer`), who is subscribed is served (`KnownAreServed`)
and who is not was announced or the session knows that it lagged
(`MissingAreAnnounced`). The latest structure: `BrowserRises`, `ChannelRises` and
`ForwardersRise` say that a structure event is newer than all that is ahead of it, in
the browser, the channel, the hand and the bus; `LatestIsComing`, that once anything of
a site's structure is on its way the latest is, unless it was driven out. They rest
on lemmas about a bounded bus (`SentShape`, `SentItems`, `SentKeeps`): one event more drops
nothing but the oldest, and whoever reads is told.

**SiteProofs.** `TablesStaySound` is the conjunction of three, for any ids, drives and
builds:
  - `RowsAreOfTheirComponent`, from `Own`: rows are no older than the component
    registered under their id, but for the id whose registration is under way. A
    writer that raced a removal may leave anything; `register_arc` clears it after
    it listed the component, and every later row has a clock the listing has seen.
  - `EnergyOnlyGrowsInAScenario`, from `Counted`: an id's baseline is of an entry that
    is still there and only grew, but between the step of a removal, registration
    or reset that drops the entry and the one that drops the baseline; and the
    totals a start has read are of such entries until it writes them.
  - `RunsAreUndone`, from `Built` (a component has one id ever, and a drive in flight
    is of the id it found it under), `Phased` (no run while one is being stopped,
    started or reset) and `Undoable`: outside the ids that a start or registration
    overlapped, a knob is as before the run or that value is recorded, what is
    recorded counts only once the tables are cleared, and a drive gets no further
    than its lookup before they are. The exemption is needed: `Overlaps` marks
    exactly the steps that break it.
`TablesAssumption`, their hypothesis, says that the empty entry is none of what
tables hold.

`BoilerHolds`, for any configuration and whatever the doors set, from `BoilerIInv`. The
pressure stays between target and ceiling by the guard and the clamp; that heating
never lifts it past the target needs `ReadsItsNeed`, that the need of a tick under way
is of the pressure it read, and that this still is the pressure unless a door set
it since. `FrequencyHolds`: an override is the base it was made over under what was
given since, and a step of a model of ordinary size leaves a number.

`FilesAreKept` is `NothingOfAFileIsLost` for any files, components, texts and cap, from
`FileIInv`: the types of files, stacks and snapshots, and `StacksFit`, that what can be
undone and what was undone fit the undo stack together. Without it a redo might
drop the oldest step as it puts the block it displaces on the undo stack, and the
history of a file would not be what it was: a save caps that stack and empties the
other, and a step takes from one what it puts on the other. Lemmas on the stacks
(`FrontShape`, `CappedShape`, `MovedAlong`) say that to exchange the file's block
with the top of a stack is to move along one line.

**ScenarioProofs.** `ScenarioRunsAreWhole` is `RunsAreWhole` for any microgrids, any
definitions that start without an error or break off, any client, and however often
runs are started over one another, stopped, disturbed by pokes, registrations and
reloads. None of its three parts is inductive; `RunsIInv` is, and says in addition:
  - `Restorable`: a snapshot is held only by a registered microgrid whose journal
    runs, timers only live while one does, and what a teardown *would* leave of an
    input is what was set outside of runs. This is the teardown's promise moved to
    every state of a run, which is what makes a start over a start come out right.
  - `RunIsSteady`: between a stepped run's steps the clock is a whole number of steps,
    each check is pending or told, nothing due before this step's end is left, and the
    input is what the fired cues left: the set of cues that fired is known
    from the timers that are gone, so no history of them is kept. That a check saw
    the cues of earlier rounds and no others follows from it (`FiredAreEarlier`).
  - `WaitIsSteady`: until somebody else interferes, each check of a waiting client's
    run is pending or told, and once it is stopped what was due is told.
Two exemptions are the code's: timers of one step fire in any order, so a check says
nothing about a cue of its own round, and of two checks of one moment the report does not
tell which failed. The lowest microgrid is a CHOOSE that needs its set to have a least
member (`LeastOf`, by well-founded induction), which is where `RunsAssumption` says
that ids are numbers and a start registers one.

**PowerProofs**: existence and landing of the clamp; what the delay's operators
return and preserve.

Assumptions used: `PowerRange`, `DelayAssumption`, `LifeAssumption`, `SlotAssumption`, the
model values being distinct from data (`NoneIsNothing` and its like), and in Gateway
`SpanAssumption`, that physical bands and shares span 0; in the modules added later
one named assumption each (`RunAssumption`, `DispatchAssumption`, `RequestAssumption`,
`DrivesAssumption`, `WeatherAssumption`, `LoopbackAssumption`, `PushAssumption`,
`TablesAssumption`, `BoilerAssumption`, `FrequencyAssumption`, `FilesAssumption`,
`RunsAssumption`): rings and buses hold one event at least, inputs have their types, and values that stand for nothing are none of
the data. Bounds such as `MaxAugs`, `MaxRuns`, `MaxCancels`, `MaxBuilds`, `MaxEvents` are
arbitrary numbers there.

Only model-checked:
  - what needs fairness, since liveness and ENABLED are out of the prover's reach:
    `OutrunStreamsEnd`, `OutputSettles`, the parts of `ClientsAreServed` about tasks and
    clients, of `LinesDeliver` about starvation, and of `PushesFitAndSettle` about settling;
  - what needs induction over data: `ListsMeanSets` (the folds of `Bands`),
    `TopologyAddsUp` (walks of a graph, a RECURSIVE operator), `JournalIsTold` (a run's
    figures), the room in `PushesFitAndSettle` (sums over batteries), the pages of
    `ClientsAreServed`, `FilesActAtHome` (evaluation folds over forms) and `SitesComeBack`
    (a file replayed line by line);
  - `PastIsKept`: nothing forbids a proof, but the invariant that would carry one, over
    buffered rows, is not worked out.

The theorems about `CommandDelay` and `DeviceAxis` are about the definitions whose
instances `LinesDeliver` checks.


## 6. Divergences from the documentation

### With a counterexample

 1. `runtime_modes_race`. The setters of the runtime knobs read the operational
    mode before they take the runtime lock, and a `set_operational_mode` in
    between is overwritten. `mod.rs:1110` says an inactive component can never be
    poked back to normal, `mod.rs:1092` that health cannot grant what the
    configuration denies. What does hold, and is proved, is that only such a
    stale reading grants anything (`OnlyStaleReadsGrant`).
 2. `site_run_stream`. A telemetry stream captures the cancel epoch when its task
    starts, after its component was looked up. A reset in between is missed, and
    the stream emits the old component's last snapshot for as long as its client
    reads. `mod.rs:893` says a reset ends such streams. A stream that was running
    before the reset does end (`OutrunStreamsEnd`).
 3. `stale_graph`. A removal counts itself, and a reset raises its generation,
    before the data changes. A build in between records the new shape for the old
    graph, and the event that follows finds nothing to do (`loopback.rs:210-213`).
 4. `rebuild_drift`. An inverter built with a reactive ramp rate past every f32 has no
    limit; the save leaves the rate out (`inverter/mod.rs:111`) and the primitive that
    a reload evaluates takes 2000 VAR/s (`battery_inverter.rs:47`), while
    `microgrid_file.rs:492` says that re-evaluating a save reproduces the site. The
    active ramp, whose default is no limit, does come back, and so does a cap that is
    off. `SitesComeBack` shows that nothing else drifts but a meter's `:power-w` or
    `:reactive-power-var` past every f32: `meter.rs:356` and 366 leave it out, the
    meter that comes back measures its children, and `has_unrenderable_source` does
    not report it. In `Drives` such values are not among the data.
 5. `timer_scope`. A timer armed by a managed file's script fires with no microgrid
    in scope and acts on the lowest one (`microgrid_file.rs:44-46`).
 6. `self_write`. The hash of an own save that a person overwrote before the watcher
    looked stays, and hides a later edit back to that text (`lisp/mod.rs:508-518`).

### Seen while modelling, without a run

Runs and commands. `reset()` bumps the run generation (`mod.rs:892`) before it empties
`by_id` (901): a request that captures the new one and finds the old component in
between is accepted on the component built in its place, which `gateway.rs:66` says
is refused; that this window is the only way is proved (`StrayOnlyFromMidReset`).
The comment at `mod.rs:877` that a reset also resets the id allocator is stale.

Knobs. `scenario_snapshot_knob` checks that a scenario runs (`scenarios.rs:293`) and locks
the baseline later (299), a start clears it after the journal started (250-257),
and `register_arc` clears an id's after listing it: a driven value may be recorded
as the one to put back (`scenarios.rs:271-274`, `control.rs:305-307` say otherwise).
`set-battery-soc` with a value that is not finite snapshots the car though it is
ignored. `set-boiler-pressure` announces the value before it is clamped.

Scenarios. A microgrid registered during a run with a lower id receives its drives
and checks though its journal does not run: the input is not put back and a gate
misses the checks. `scenario run --wait` may stop before a check due at the very end
has fired, and passes on an empty or foreign report after a reload or a restart.
A start that breaks off midway leaves the run going. A negative `:length` is accepted
and panics the stepped runner. The library's outage chains keep a timer and a
victim marker past a stop in four ways (`scenarios.lisp`, `random-outage--track` among
them). Polling events loses what was recorded between two reads, past a limit, or
before a reset numbers them anew (`scenarios/README.md:207` says ids are stable).

Files and scopes. A raw file whose `make-microgrid` has no `:id` makes another
microgrid on every reload. A file loaded with `(load ...)` in an eval runs in that
scope, but its reload runs in none. A copy's script names the original's
components. `create_core` forgets the file of a failed load, not its source. After an
evaluation that fails halfway the world and its file may differ without a mark.

Ids. A stale handle as `:successors` leaves an edge that a save writes and the reload
refuses. The import of an id near u64::MAX pins the allocator, which then wraps.
An id of 0 or above i64::MAX passes the parse and fails the build.

Topology. While a hidden component is removed, or the site reset, its edges show as
visible (`mod.rs:694` says visible edges only). A walk straddled by a connect or a
removal may count a shared device one and a half times or half, and a listing
straddled by growth names components it does not list.

Recording. `scenario_open_csv` truncates the new files before the old writers are
dropped, so recording again into one directory lets an old buffer land in the new
file ("existing sinks are dropped first"). Two augment requests stamp before they
log, so the ring of setpoints need not be in order of time.

Weather. Two partial updates that overlap lose one; a reload between an update's
read and write is overwritten; after a step back of the clock a reader behind the
last hour may miss pruned clouds.

Push. A microgrid whose script fails leaves its id subscribed, so a later microgrid
of that id is never heard. A lagged forwarder only logs, so a structure event
overwritten by samples is lost without the notice `WireEvent` speaks of.


## 7. What is not modelled

The f32 physics of the component models and the decay curve (arithmetic to test,
with no protocol in it); protobuf conversion and the fields of an import (pure
functions of their input); the distribution of the grid frequency's noise and time
zones; the
Lisp interpreter itself, its timers and the gRPC client, which are crates the
repository uses; the read-only UI handlers; the other commands of the command line
tools and the Python bindings, which wrap the services above; ephemeral ports and
the process's boot. Reorderings of relaxed atomics are outside TLC's sequentially
consistent view and are not approximated. Not covered though it could be: an
adoption that races another over one file (`ui/handlers/microgrids.rs:593`), nested
`(load ...)` forms, and listing and renaming microgrids.
