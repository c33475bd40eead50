------------------------------ MODULE DelayOps ------------------------------
(***************************************************************************)
(* CommandDelay of src/src/sim/ramp.rs as operators on its state: the      *)
(* command being executed, the newest one that arrived meanwhile, and the  *)
(* armed value.  A stamp is kept as its age in ticks; an age below zero is *)
(* a stamp the clock has stepped back past.                                *)
(***************************************************************************)
EXTENDS Integers

CONSTANTS
    None,       \* an absent command or value (model value)
    Unstamped,  \* the age of a command no poll has seen (model value)
    Delay,      \* the command delay, in ticks
    Value,      \* the powers a command can ask for
    Back        \* how many ticks the clock may step back in all

ASSUME DelayAssumption == Delay \in Nat /\ Back \in Nat

\* Ages count up to Oldest: a command that old stays due whatever is left of
\* the clock's steps back.
Oldest == Delay + Back

Age == -Back..Oldest

Command == [value : Value, age : Age \cup {Unstamped}]

ASSUME NoneIsNothing == None \notin Value /\ None \notin Command

ASSUME UnstampedIsNoAge == Unstamped \notin Age

DelayLine == [executing : Command \cup {None},
              waiting   : Command \cup {None},
              armed     : Value \cup {None}]

NoCommand == [executing |-> None, waiting |-> None, armed |-> None]

Fresh(v) == [value |-> v, age |-> Unstamped]

\* A later command that leaves the waiting one where it is.
SetTargetKeepingOldest(d, v) ==
    IF Delay = 0 THEN [NoCommand EXCEPT !.armed = v]
    ELSE IF d.executing = None THEN [d EXCEPT !.executing = Fresh(v)]
    ELSE IF d.waiting = None THEN [d EXCEPT !.waiting = Fresh(v)]
    ELSE d

\* A delay of zero arms at once; while one command executes, only the newest
\* later one is kept, and the executing one keeps its stamp.
SetTarget(d, v) ==
    IF Delay = 0 THEN [NoCommand EXCEPT !.armed = v]
    ELSE IF d.executing = None THEN [d EXCEPT !.executing = Fresh(v)]
    ELSE [d EXCEPT !.waiting = Fresh(v)]

\* Ages are rounded to the tick: the jitter a tick may land early by is well
\* below one.  A stamp after now is due, whatever the delay.
IsDue(age) == age < 0 \/ age >= Delay

StampAt(c) ==
    IF c # None /\ c.age = Unstamped THEN [c EXCEPT !.age = 0] ELSE c

\* A poll that arms the waiting command in place of the one before it.
PollCollapsing(d) ==
    LET executing == StampAt(d.executing)
        waiting   == StampAt(d.waiting)
        due       == executing # None /\ IsDue(executing.age)
        newest    == IF waiting = None THEN executing ELSE waiting
    IN  IF due THEN [NoCommand EXCEPT !.armed = newest.value]
        ELSE [executing |-> executing, waiting |-> waiting, armed |-> d.armed]

\* At most one command is armed per poll.
Poll(d) ==
    LET executing == StampAt(d.executing)
        waiting   == StampAt(d.waiting)
    IN  IF executing # None /\ IsDue(executing.age)
        THEN [executing |-> waiting, waiting |-> None, armed |-> executing.value]
        ELSE [executing |-> executing, waiting |-> waiting, armed |-> d.armed]

\* One tick later.
Older(c) ==
    IF c # None /\ c.age # Unstamped /\ c.age < Oldest
    THEN [c EXCEPT !.age = @ + 1] ELSE c

Aged(d) == [executing |-> Older(d.executing),
            waiting   |-> Older(d.waiting),
            armed     |-> d.armed]

\* The clock steps back by `ticks`.
Younger(c, ticks) ==
    IF c # None /\ c.age # Unstamped THEN [c EXCEPT !.age = @ - ticks] ELSE c

HasCommand(d) == d # NoCommand
=============================================================================
