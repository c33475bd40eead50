---------------------------- MODULE DelayPromise ----------------------------
(***************************************************************************)
(* What both delay lines of a power axis promise, the gateway's             *)
(* CommandDelay and the hardware's DeviceAxis: commands come out in the     *)
(* order they were handed in, one may be passed over only for one handed in *)
(* later, and the newest is never lost except to a reset.                   *)
(***************************************************************************)
EXTENDS Integers, Sequences, SequencesExt

CONSTANTS
    Value,
    Initial,    \* the output a line starts with
    Cleared     \* the output a reset leaves

VARIABLES
    queue,      \* the commands not out yet, oldest first
    out,        \* the newest one out
    newest      \* the newest one handed in since a reset

vars == <<queue, out, newest>>

Init == queue = <<>> /\ out = Initial /\ newest = Cleared

\* A command supersedes any number of the newest ones still waiting.
Submit(v) ==
    /\ \E n \in 0..Len(queue) : queue' = Append(SubSeq(queue, 1, n), v)
    /\ newest' = v
    /\ UNCHANGED out

Pass(v) == queue' = <<>> /\ out' = v /\ newest' = v

\* The queue itself, or with one command dropped that a later one follows.
Thinned == {queue} \cup {RemoveAt(queue, i) : i \in 1..(Len(queue) - 1)}

Release ==
    \E q \in Thinned : \E n \in 0..Len(q) :
        /\ queue' = SubSeq(q, n + 1, Len(q))
        /\ out' = IF n = 0 THEN out ELSE q[n]
        /\ UNCHANGED newest

Reset == queue' = <<>> /\ out' = Cleared /\ newest' = Cleared

Next == Release \/ Reset \/ \E v \in Value : Submit(v) \/ Pass(v)

Spec == Init /\ [][Next]_vars
=============================================================================
