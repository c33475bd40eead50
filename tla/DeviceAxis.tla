----------------------------- MODULE DeviceAxis -----------------------------
(***************************************************************************)
(* DeviceAxis of src/src/sim/device_axis.rs: the hardware half of a power   *)
(* axis.  Commands handed in between two ticks replace each other, the      *)
(* newest is stamped at the tick, merged into the newest queued one when    *)
(* that is less than a slot old, and comes out one delay later.             *)
(***************************************************************************)
EXTENDS DelayOps, BandSets, Sequences, SequencesExt

CONSTANTS
    MaxLine,        \* MAX_LINE: the slots one delay is cut into
    Bands,          \* the physical bands a tick may pass
    Initial         \* the component's initial value

\* What the division leaves of a delay is less than the jitter a due command
\* may come out early by, so the model takes delays that divide evenly.
SlotAssumption == MaxLine \in Nat \ {0} /\ Delay % MaxLine = 0

Slot == Delay \div MaxLine

VARIABLES
    pending,        \* the newest command since the last tick
    line,           \* the stamped commands, oldest first
    delayed,        \* the newest command out of the line
    output,         \* the clamped output of the last tick
    stepped,        \* how many ticks the clock has stepped back
    newest          \* the newest command since a trip (history)

vars == <<pending, line, delayed, output, stepped, newest>>

Entry == [value : Value, age : Age]

TypeOK ==
    /\ pending \in Value \cup {None}
    /\ line \in Seq(Entry)
    /\ delayed \in Value \cup {0, Initial}
    /\ output \in Power
    /\ stepped \in 0..Back
    /\ newest \in Value \cup {0}

Init ==
    /\ pending = None
    /\ line = <<>>
    /\ delayed = Initial
    /\ output = Initial
    /\ stepped = 0
    /\ newest = 0

SetCommand(v) ==
    /\ pending' = v
    /\ newest' = v
    /\ UNCHANGED <<line, delayed, output, stepped>>

Stamped(v) == [value |-> v, age |-> 0]

\* The newest queued command may take the place of the one before it.
Mergeable == line # <<>> /\ Last(line).age \in 0..(Slot - 1)

AbsorbUnmerged == IF pending = None THEN line ELSE Append(line, Stamped(pending))

\* Merge, and stamp the merged command anew.
AbsorbRestamped ==
    IF pending # None /\ Mergeable
    THEN [line EXCEPT ![Len(line)] = Stamped(pending)]
    ELSE AbsorbUnmerged

Absorb ==
    IF pending # None /\ Mergeable
    THEN [line EXCEPT ![Len(line)].value = pending]
    ELSE AbsorbUnmerged

MostEntries == MaxLine + 1

\* Drop the oldest past the limit.
Backstop(l) ==
    IF Len(l) > MostEntries
    THEN SubSeq(l, Len(l) - MostEntries + 1, Len(l)) ELSE l

\* How many at the front come out: they are due, the one behind is not.
DueCount(l) ==
    CHOOSE n \in 0..Len(l) :
        /\ \A i \in 1..n : IsDue(l[i].age)
        /\ n < Len(l) => ~IsDue(l[n + 1].age)

Tick(band) ==
    LET queued == Backstop(Absorb)
        due    == DueCount(queued)
        out    == IF due = 0 THEN delayed ELSE queued[due].value
    IN  /\ pending' = None
        /\ line' = SubSeq(queued, due + 1, Len(queued))
        /\ delayed' = out
        /\ output' = ClampOrPark(band, out)
        /\ UNCHANGED <<stepped, newest>>

\* A trip that leaves the command handed in since the last tick.
TripKeepingPending ==
    /\ line' = <<>>
    /\ delayed' = 0
    /\ output' = 0
    /\ newest' = 0
    /\ UNCHANGED <<pending, stepped>>

Trip ==
    /\ pending' = None
    /\ line' = <<>>
    /\ delayed' = 0
    /\ output' = 0
    /\ newest' = 0
    /\ UNCHANGED stepped

Clock ==
    /\ line' = [i \in DOMAIN line |-> Older(line[i])]
    /\ UNCHANGED <<pending, delayed, output, stepped, newest>>

StepBack(ticks) ==
    /\ stepped + ticks <= Back
    /\ stepped' = stepped + ticks
    /\ line' = [i \in DOMAIN line |-> Younger(line[i], ticks)]
    /\ UNCHANGED <<pending, delayed, output, newest>>

Next ==
    \/ \E v \in Value : SetCommand(v)
    \/ \E band \in Bands : Tick(band)
    \/ Trip
    \/ Clock
    \/ \E ticks \in 1..Back : StepBack(ticks)

Spec == Init /\ [][Next]_vars

LiveSpec ==
    Spec /\ WF_vars(\E band \in Bands : Tick(band)) /\ WF_vars(Clock)

-----------------------------------------------------------------------------
\* The commands not out yet: those in the line and the one not yet stamped.
Queued(l, p) ==
    [i \in DOMAIN l |-> l[i].value] \o (IF p = None THEN <<>> ELSE <<p>>)

InLine == Queued(line, pending)

Promise == INSTANCE DelayPromise WITH
    Cleared <- 0,
    out <- delayed,
    queue <- InLine

(***************************************************************************)
(* The hardware keeps the same promise as the gateway's delay: in order,    *)
(* superseded only by a later command, the newest never lost; a trip drops  *)
(* everything.                                                              *)
(***************************************************************************)
KeepsPromise == Promise!Spec

(***************************************************************************)
(* Merging alone keeps the line within MAX_LINE + 1 however fast the ticks  *)
(* and the commands come: as long as the clock never steps back, the        *)
(* backstop that drops the oldest command has nothing to do.                *)
(***************************************************************************)
BackstopOutOfReach == stepped = 0 => Len(Absorb) <= MostEntries

\* A tick that brings a command out.
ComesOut ==
    /\ DueCount(Backstop(Absorb)) > 0
    /\ \E band \in Bands : Tick(band)

(***************************************************************************)
(* A controller that re-sends every tick does not push its own commands out *)
(* of reach: the line keeps emptying, or commands keep coming out of it.    *)
(***************************************************************************)
NoStarvation == []<>(line = <<>>) \/ []<><<ComesOut>>_vars
=============================================================================
