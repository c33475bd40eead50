---------------------------- MODULE CommandDelay ----------------------------
(***************************************************************************)
(* The gateway's command delay on its own, polled by the physics tick while *)
(* clients hand in commands as fast as they like and the clock now and then *)
(* steps back.                                                              *)
(***************************************************************************)
EXTENDS DelayOps, Sequences

VARIABLES
    line,           \* the CommandDelay
    stepped,        \* how many ticks the clock has stepped back
    newest          \* the newest command accepted since a reset (history)

delayVars == <<line, stepped, newest>>

DelayTypeOK ==
    /\ line \in DelayLine
    /\ stepped \in 0..Back
    /\ newest \in Value \cup {None}

DelayInit == line = NoCommand /\ stepped = 0 /\ newest = None

Submit(v) ==
    /\ line' = SetTarget(line, v)
    /\ newest' = v
    /\ UNCHANGED stepped

PollTick == line' = Poll(line) /\ UNCHANGED <<stepped, newest>>

Reset ==
    /\ line' = NoCommand
    /\ newest' = None
    /\ UNCHANGED stepped

ClockMoves == line' = Aged(line) /\ UNCHANGED <<stepped, newest>>

StepBack(ticks) ==
    /\ stepped + ticks <= Back
    /\ stepped' = stepped + ticks
    /\ line' = [line EXCEPT !.executing = Younger(@, ticks),
                           !.waiting = Younger(@, ticks)]
    /\ UNCHANGED newest

DelayNext ==
    \/ PollTick
    \/ ClockMoves
    \/ \E ticks \in 1..Back : StepBack(ticks)
    \/ Reset
    \/ \E v \in Value : Submit(v)

DelaySpec == DelayInit /\ [][DelayNext]_delayVars

\* The physics task polls every tick and time passes; nobody has to command.
DelayFairness == WF_delayVars(PollTick) /\ WF_delayVars(ClockMoves)

DelayLiveSpec == DelaySpec /\ DelayFairness

-----------------------------------------------------------------------------
Held(c) == IF c = None THEN <<>> ELSE <<c.value>>

\* The commands of a line not out yet, oldest first.
Queued(d) == Held(d.executing) \o Held(d.waiting)

InLine == Queued(line)

Promise == INSTANCE DelayPromise
    WITH Initial <- None, Cleared <- None, queue <- InLine, out <- line.armed

(***************************************************************************)
(* The inductive invariant behind these: a command waits only behind one    *)
(* that executes, and no stamp is further ahead of the clock than the clock *)
(* has stepped back.                                                        *)
(***************************************************************************)
Stamped(c) == c # None /\ c.age # Unstamped

Lined ==
    /\ line.executing = None => line.waiting = None
    /\ \A c \in {line.executing, line.waiting} : Stamped(c) => c.age >= -stepped

\* The newest command accepted is last in line, or armed.
NewestKept ==
    newest = IF line.waiting # None THEN line.waiting.value
             ELSE IF line.executing # None THEN line.executing.value
             ELSE line.armed

DelayIInv == DelayTypeOK /\ Lined /\ NewestKept

(***************************************************************************)
(* Commands arm in the order they were accepted, one is passed over only    *)
(* for a later one, and the newest is never lost.                           *)
(***************************************************************************)
KeepsPromise == Promise!Spec

(***************************************************************************)
(* A burst never collapses: one poll brings out at most one command.        *)
(***************************************************************************)
OneCommandPerPoll ==
    [][PollTick => Len(InLine') >= Len(InLine) - 1]_delayVars

Executing(v) == line.executing # None /\ line.executing.value = v

(***************************************************************************)
(* A controller that re-sends faster than the delay makes progress: what is *)
(* executing arms, or a reset clears it, however often a new command comes, *)
(* and a clock that stepped back does not hold it up.                       *)
(***************************************************************************)
NoStarvation ==
    \A v \in Value : Executing(v) ~> (line.armed = v \/ line = NoCommand)
=============================================================================
