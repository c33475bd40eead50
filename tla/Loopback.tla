------------------------------ MODULE Loopback ------------------------------
(***************************************************************************)
(* The supervisor that mirrors a site through its own gRPC service         *)
(* (src/ui/loopback.rs): it rebuilds the graph handle when an announced    *)
(* change moved the site's shape, hands the streams over from the old      *)
(* forwarders to the new ones, and keeps the energy totals and the caches  *)
(* in line with the graph and the run.  The logical meter and its client   *)
(* are external: a build reads the site's streams and may fail, and each   *)
(* forwarder has at most one sample in hand.                               *)
(***************************************************************************)
EXTENDS Integers, Sequences, FiniteSets

CONSTANTS
    Never,
    Streams,        \* metered power streams; each has an energy companion
    Capacity,       \* EVENT_BUS_CAPACITY
    MaxEdits,       \* bound on structural changes and resets
    MaxPokes,       \* bound on the events that change nothing structural
    MaxFails        \* bound on the builds that fail

VARIABLES
    shape,          \* the site's structural version and run generation
    metered,        \* the power streams the site's topology has
    editor,         \* where the eval underway is
    pokes,
    queued,         \* what the supervisor's receiver holds, oldest first
    missed,         \* events were overwritten since its last receive
    super,          \* where the supervisor is
    target,         \* the shape the build under way was begun for
    built,          \* the shape the last successful build mirrors, or Never
    fails,
    failed,         \* the last build failed
    old, new,       \* the forwarders, as the streams they publish
    inHand,         \* samples received and not yet published, each with its run
    cursor,         \* EnergyAccum's cursor: the run of its sample, or Never
    totals,         \* the totals: the runs they were gathered in
    energyRun,      \* energy_generation
    latest,         \* the power streams in the latest and history caches
    resetMidBuild,  \* ghost: a reset landed after a build took its shape
    late,           \* ghost: streams published by an aborted forwarder
    torn            \* ghost: the last build read a half-done removal

ASSUME LoopbackAssumption ==
    Never \notin Int /\ Never \notin [structural : Int, generation : Int] /\ Capacity \in Nat \ {0}

site == <<shape, metered, editor, pokes>>
events == <<queued, missed>>
sup == <<super, target, built, fails, failed>>
fwd == <<old, new, inHand>>
caches == <<cursor, totals, energyRun, latest>>
ghosts == <<resetMidBuild, late, torn>>
loopbackVars == <<site, events, sup, fwd, caches, ghosts>>

Building == super \notin {"wait", "debounce", "check"}
Edits == shape.structural + shape.generation

LoopbackInit ==
    /\ shape = [structural |-> 0, generation |-> 0]
    /\ metered = Streams
    /\ editor = "idle" /\ pokes = 0
    /\ queued = <<>> /\ missed = FALSE
    /\ super = "check"              \* the initial build, already subscribed
    /\ target = shape /\ built = Never /\ fails = 0 /\ failed = FALSE
    /\ old = {} /\ new = {}
    /\ inHand = {}
    /\ cursor = [s \in Streams |-> Never]
    /\ totals = [s \in Streams |-> {}]
    /\ energyRun = 0
    /\ latest = {}
    /\ resetMidBuild = FALSE /\ late = {} /\ torn = FALSE

-----------------------------------------------------------------------------
(* The site: an eval changes the structure or resets the run, in any number *)
(* of calls, and bumps the version, which broadcasts TopologyChanged, when  *)
(* it is done.                                                              *)

Calls == editor \in {"idle", "open"} /\ Edits < MaxEdits

\* register, connect and disconnect change the site and then count it ...
Change(streams) ==
    /\ Calls
    /\ metered' = streams
    /\ editor' = "count"
    /\ UNCHANGED <<shape, pokes, events, sup, fwd, caches, ghosts>>

Count ==
    /\ editor = "count"
    /\ shape' = [shape EXCEPT !.structural = @ + 1]
    /\ editor' = "open"
    /\ UNCHANGED <<metered, pokes, events, sup, fwd, caches, ghosts>>

\* ... a removal is counted when the component is no longer found, before its
\* place in the list and its connections are gone.
Remove ==
    /\ Calls /\ metered # {}
    /\ shape' = [shape EXCEPT !.structural = @ + 1]
    /\ editor' = "remove"
    /\ UNCHANGED <<metered, pokes, events, sup, fwd, caches, ghosts>>

\* A reset starts its run and cancels the telemetry streams before it empties
\* the site; what is in flight stays.
Reset ==
    /\ Calls
    /\ shape' = [shape EXCEPT !.generation = @ + 1]
    /\ editor' = "clear"
    /\ resetMidBuild' = (resetMidBuild \/ Building)
    /\ UNCHANGED <<metered, pokes, events, sup, fwd, caches, late, torn>>

HalfDone == editor \in {"remove", "clear"}

Finish(streams) ==
    /\ HalfDone /\ streams \subseteq metered
    /\ editor = "clear" => streams = {}
    /\ metered' = streams
    /\ editor' = "open"
    /\ UNCHANGED <<shape, pokes, events, sup, fwd, caches, ghosts>>

\* A send to the bounded bus overwrites the oldest event.
Send(e) ==
    IF Len(queued) < Capacity THEN queued' = Append(queued, e) /\ UNCHANGED missed
    ELSE queued' = Append(Tail(queued), e) /\ missed' = TRUE

Bump ==
    /\ editor = "open"
    /\ Send("topology")
    /\ editor' = "idle"
    /\ UNCHANGED <<shape, metered, pokes, sup, fwd, caches, ghosts>>

\* An eval that moved nothing structural, or any other event on the bus.
Poke(e) ==
    /\ editor = "idle" /\ pokes < MaxPokes
    /\ pokes' = pokes + 1
    /\ Send(e)
    /\ UNCHANGED <<shape, metered, editor, sup, fwd, caches, ghosts>>

-----------------------------------------------------------------------------
(* The supervisor waits: run_supervisor and debounce_topology_burst.       *)

Receive ==
    /\ super = "wait" /\ ~missed /\ queued # <<>>
    /\ super' = IF Head(queued) = "topology" THEN "debounce" ELSE "wait"
    /\ queued' = Tail(queued)
    /\ UNCHANGED <<site, missed, target, built, fails, failed, fwd, caches, ghosts>>

HearGap ==
    /\ super = "wait" /\ missed
    /\ missed' = FALSE
    /\ super' = "debounce"
    /\ UNCHANGED <<site, queued, target, built, fails, failed, fwd, caches, ghosts>>

\* Swallow the burst: any event keeps collecting, a lag or the deadline ends it.
Swallow ==
    /\ super = "debounce" /\ ~missed /\ queued # <<>>
    /\ queued' = Tail(queued)
    /\ UNCHANGED <<site, missed, sup, fwd, caches, ghosts>>

Debounced ==
    /\ super = "debounce"
    /\ super' = "check"
    /\ missed' \in {missed, FALSE}
    /\ UNCHANGED <<site, queued, target, built, fails, failed, fwd, caches, ghosts>>

\* build_if_needed: the shape is read before the build it will stand for.
Check ==
    /\ super = "check"
    /\ target' = shape
    /\ super' = IF built = shape THEN "wait" ELSE "graph"
    /\ UNCHANGED <<site, events, built, fails, failed, fwd, caches, ghosts>>

-----------------------------------------------------------------------------
(* The supervisor builds: build_microgrid.                                 *)

DropCursors == cursor' = [s \in Streams |-> Never]

\* LogicalMeterHandle::try_new reads the graph; the cursors are dropped
\* before the new forwarders are spawned.
ReadGraph ==
    /\ super = "graph"
    /\ super' = "subscribe"
    /\ new' = metered
    /\ torn' = HalfDone
    /\ DropCursors
    /\ UNCHANGED <<site, events, target, built, fails, failed, old, inHand,
                   totals, energyRun, latest, resetMidBuild, late>>

BuildFails ==
    /\ super = "graph" /\ fails < MaxFails
    /\ super' = "wait"
    /\ fails' = fails + 1 /\ failed' = TRUE
    /\ UNCHANGED <<site, events, target, built, fwd, caches, ghosts>>

\* From here on samples arrive on the new forwarders as well (Receives).
SubscribeAnew ==
    /\ super = "subscribe"
    /\ super' = "abort"
    /\ UNCHANGED <<site, events, target, built, fails, failed, fwd, caches, ghosts>>

\* An abort takes a forwarder that waits for a sample; one that has its
\* sample in hand still publishes it.
Abort ==
    /\ super = "abort"
    /\ super' = "prune"
    /\ old' = {}
    /\ inHand' = {IF f.by = "old" THEN [f EXCEPT !.by = "aborted"] ELSE f : f \in inHand}
    /\ UNCHANGED <<site, events, target, built, fails, failed, new, caches, ghosts>>

\* clear_energy_on_new_run drops the accumulators, their cursors included.
ClearOnNewRun ==
    /\ energyRun' = shape.generation
    /\ IF energyRun = shape.generation THEN UNCHANGED <<totals, cursor>>
       ELSE totals' = [s \in Streams |-> {}] /\ DropCursors

\* prune_for_rebuild: its flag decides which streams the caches keep.
Prune ==
    /\ super = "prune"
    /\ ClearOnNewRun
    /\ super' = IF energyRun = shape.generation THEN "retain" ELSE "retain_none"
    /\ UNCHANGED <<site, events, target, built, fails, failed, fwd, latest, ghosts>>

Retained(kept) == latest \intersect kept

Retain ==
    /\ super \in {"retain", "retain_none"}
    /\ latest' = Retained(IF super = "retain" THEN new ELSE {})
    /\ DropCursors
    /\ super' = "swap"
    /\ UNCHANGED <<site, events, target, built, fails, failed, fwd, totals, energyRun,
                   ghosts>>

\* A plausible slip: the shape is recorded as it is when the build ends.
SwapToShapeNow ==
    /\ super = "swap"
    /\ built' = shape
    /\ failed' = FALSE
    /\ super' = "wait"
    /\ old' = new /\ new' = {}
    /\ inHand' = {IF f.by = "new" THEN [f EXCEPT !.by = "old"] ELSE f : f \in inHand}
    /\ UNCHANGED <<site, events, target, fails, caches, ghosts>>

\* The slot takes the handles: the new forwarders are next time's old ones.
Swap ==
    /\ super = "swap"
    /\ built' = target
    /\ failed' = FALSE
    /\ super' = "wait"
    /\ old' = new /\ new' = {}
    /\ inHand' = {IF f.by = "new" THEN [f EXCEPT !.by = "old"] ELSE f : f \in inHand}
    /\ UNCHANGED <<site, events, target, fails, caches, ghosts>>

-----------------------------------------------------------------------------
(* The forwarders: publish_power after accumulate_energy.                  *)

Subscribed(by) == IF by = "old" THEN old
                  ELSE IF super \in {"abort", "prune", "retain", "retain_none", "swap"}
                       THEN new ELSE {}

\* A forwarder receives a sample of a stream the topology has, in this run.
Receives(by, s) ==
    /\ s \in Subscribed(by) \intersect metered
    /\ \A f \in inHand : f.by # by \/ f.stream # s
    /\ inHand' = inHand \union {[by |-> by, stream |-> s, run |-> shape.generation]}
    /\ UNCHANGED <<site, events, sup, old, new, caches, ghosts>>

\* A cursor and a sample make a trapezoid; the total gathers both their runs.
Publish(f) ==
    /\ f \in inHand
    /\ inHand' = inHand \ {f}
    /\ cursor' = [cursor EXCEPT ![f.stream] = f.run]
    /\ totals' = [totals EXCEPT ![f.stream] =
                    IF cursor[f.stream] = Never THEN @
                    ELSE @ \union {cursor[f.stream], f.run}]
    /\ latest' = latest \union {f.stream}
    /\ late' = IF f.by = "aborted" THEN late \union {f.stream} ELSE late
    /\ UNCHANGED <<site, events, sup, old, new, energyRun, resetMidBuild, torn>>

-----------------------------------------------------------------------------
Supervise == Receive \/ HearGap \/ Swallow \/ Debounced \/ Check
             \/ ReadGraph \/ SubscribeAnew \/ Abort \/ Prune \/ Retain \/ Swap

LoopbackNext ==
    \/ \E streams \in SUBSET Streams : Change(streams)
    \/ Count \/ Remove \/ Reset \/ Bump \/ BuildFails
    \/ \E streams \in SUBSET Streams : Finish(streams)
    \/ \E e \in {"topology", "sample"} : Poke(e)
    \/ Supervise
    \/ \E by \in {"old", "new"}, s \in Streams : Receives(by, s)
    \/ \E f \in inHand : Publish(f)

LoopbackSpec == LoopbackInit /\ [][LoopbackNext]_loopbackVars

-----------------------------------------------------------------------------
\* While the graph mirrors the site's run, an energy total holds nothing of
\* an earlier one, although old forwarders deliver up to the swap and the
\* new ones before it (loopback.rs:126-144).  A reset inside a build, and
\* the sample an aborted forwarder had in hand, are exempt.
EnergyIsOfThisRun ==
    super = "wait" /\ built # Never /\ built.generation = shape.generation
        /\ ~resetMidBuild =>
        \A s \in Streams \ late : totals[s] \subseteq {shape.generation}

\* The caches hold no stream the graph lost: "a topology that lost its last
\* PV must not keep serving pv_power" (loopback.rs:617-624), whoever
\* published it during the rebuild, and whether the last build failed; a
\* stream published by an aborted forwarder is exempt.
CachesFollowGraph == super = "wait" => latest \subseteq old \union late

\* When the supervisor has nothing left to hear, the graph mirrors the site
\* as it is: no change was lost to the debounce, to a full bus or to a build
\* that was under way, only to a build that failed, or that read the site
\* between a removal's count and its end (loopback.rs:149-183, 230-257).
GraphCatchesUp ==
    super = "wait" /\ queued = <<>> /\ ~missed /\ editor = "idle" =>
        (built = shape /\ (old = metered \/ torn)) \/ failed

\* The same without the exemption: "a mutation landing mid-build ... leaves the
\* next event free to rebuild" (loopback.rs:210-213).
GraphMirrorsSite ==
    super = "wait" /\ queued = <<>> /\ ~missed /\ editor = "idle" =>
        (built = shape /\ old = metered) \/ failed

\* Energy totals hold nothing of an earlier run, the caches no stream that
\* the graph has not (loopback.rs:126-160), and once the supervisor waits with
\* nothing to hear, the graph mirrors the site (loopback.rs:160-246).
LoopbackMirrors == EnergyIsOfThisRun /\ CachesFollowGraph /\ GraphCatchesUp

-----------------------------------------------------------------------------
(* The inductive invariant behind them.                                     *)

Stages == {"wait", "debounce", "check", "graph", "subscribe", "abort", "prune", "retain",
           "retain_none", "swap"}
Shape == [structural : Nat, generation : Nat]
Sample == [by : {"old", "new", "aborted"}, stream : Streams, run : Nat]

LoopbackTypeOK ==
    /\ shape \in Shape /\ target \in Shape /\ built \in Shape \cup {Never}
    /\ metered \subseteq Streams /\ old \subseteq Streams /\ new \subseteq Streams
    /\ latest \subseteq Streams /\ late \subseteq Streams
    /\ editor \in {"idle", "open", "count", "remove", "clear"}
    /\ queued \in Seq({"topology", "sample"})
    /\ super \in Stages
    /\ {missed, failed, resetMidBuild, torn} \subseteq BOOLEAN
    /\ inHand \subseteq Sample
    /\ cursor \in [Streams -> Nat \cup {Never}] /\ totals \in [Streams -> SUBSET Nat]
    /\ energyRun \in Nat

\* Shapes only grow.
UpTo(s) == s.structural <= shape.structural /\ s.generation <= shape.generation
ShapesGrow == UpTo(target) /\ (built # Never => UpTo(built)) /\ energyRun <= shape.generation

\* Which forwarders have a sample in hand at which stage, and of which streams.
AfterAbort == {"prune", "retain", "retain_none", "swap"}
HandsMatch ==
    /\ super \in AfterAbort => old = {}
    /\ \A f \in inHand :
        /\ f.by = "old" => f.stream \in old /\ super \notin AfterAbort
        /\ f.by = "new" => f.stream \in new /\ super \in AfterAbort \cup {"abort"}

\* Without a reset inside a build: a build is for the run there is, its samples
\* are of that run, and from the pruning on the totals are as well.
SamplesAreOfThisRun ==
    ~resetMidBuild =>
        /\ Building => target.generation = shape.generation
        /\ \A f \in inHand : f.by = "new" => f.run = shape.generation
        /\ super \in AfterAbort \ {"prune"} => energyRun = shape.generation
        /\ built # Never /\ built.generation = shape.generation => energyRun = shape.generation

\* Totals that were cleared for this run gather it alone.
TotalsAreOfThisRun ==
    ~resetMidBuild /\ energyRun = shape.generation =>
        /\ \A s \in Streams \ late :
             totals[s] \subseteq {shape.generation} /\ cursor[s] \in {Never, shape.generation}
        /\ \A f \in inHand : f.by # "aborted" => f.run = shape.generation

\* The caches follow the old forwarders up to the hand-over, and the new ones
\* from the retaining on.
CachesFollow ==
    /\ super \in {"wait", "debounce", "check", "graph", "subscribe"} => latest \subseteq old \union late
    /\ super = "swap" => latest \subseteq new \union late

\* A graph that stands for the site's shape mirrors it, unless it was read
\* between a removal's count and its end, or a change waits to be counted.
Mirrors(s, streams) ==
    s = shape /\ ~torn => ~HalfDone /\ (editor # "count" => streams = metered)
GraphsMirror ==
    /\ super \in {"wait", "debounce", "check", "graph"} => Mirrors(built, old)
    /\ super \in {"subscribe", "abort"} \cup AfterAbort => Mirrors(target, new)

\* A shape that is not the site's, or not yet, is heard of again.
Announced(q) == \E i \in 1..Len(q) : q[i] = "topology"
Pending == missed \/ editor # "idle" \/ Announced(queued)
NothingIsLost ==
    /\ super = "wait" => Pending \/ built = shape \/ failed
    /\ Building => Pending \/ target = shape

LoopbackIInv ==
    /\ LoopbackTypeOK /\ ShapesGrow /\ HandsMatch /\ SamplesAreOfThisRun /\ TotalsAreOfThisRun
    /\ CachesFollow /\ GraphsMirror /\ NothingIsLost
=============================================================================
