---------------------------- MODULE RuntimeModes ----------------------------
(***************************************************************************)
(* The runtime knobs of one component (health, telemetry mode, command      *)
(* mode) and its declared operational mode, set by the interpreter thread   *)
(* and by status requests of the UI that hold no common lock                *)
(* (microgrid_site/mod.rs, ui/handlers/control.rs).                         *)
(***************************************************************************)
EXTENDS Integers, Sequences

CONSTANTS
    None,       \* nothing (model value)
    Lisp,       \* the thread with the interpreter lock
    Client,     \* UI requests in flight
    Requests    \* the statuses they ask for

Caller == Client \cup {Lisp}

Capability == {"telemetry", "control"}

Healths == {"ok", "error", "standby"}

\* "fault" stands for every mode but normal that no coupling sets: closed,
\* error-empty and not-found; timeout and over-bound.
Telemetries == {"normal", "silent", "fault"}
Commands == {"normal", "error", "fault"}

Status == [health    : Healths \cup {None},
           command   : Commands \cup {None},
           telemetry : Telemetries \cup {None}]

ASSUME RequestAssumption == Requests \subseteq Status

ASSUME NoneIsNothing ==
    /\ None \notin Healths \cup Commands \cup Telemetries
    /\ \A allowed \in SUBSET Capability : None # allowed
    /\ None \notin [health : Healths, command : Commands, telemetry : Telemetries]

VARIABLES
    phase,      \* what the interpreter thread is at
    listed,     \* whether the registry hands the component out
    row,        \* its runtime row
    declared,   \* its operational mode, as what it allows
    job         \* the setters each caller has yet to run

vars == <<phase, listed, row, declared, job>>

Row == [health : Healths, command : Commands, telemetry : Telemetries]

DefaultRow == [health |-> "ok", command |-> "normal", telemetry |-> "normal"]

Setter == [knob : {"health"}, value : Healths]
              \cup [knob : {"command"}, value : Commands]
              \cup [knob : {"telemetry"}, value : Telemetries]

Job == [todo : Seq(Setter),
        seen : (SUBSET Capability) \cup {None},
        applied : BOOLEAN,      \* whether an earlier setter of it went through
        disturbed : BOOLEAN]    \* whether anyone else wrote since it began

NoJob == [todo |-> <<>>, seen |-> None, applied |-> FALSE, disturbed |-> FALSE]

TypeOK ==
    /\ phase \in {"idle", "registering", "removing", "rowless"}
    /\ listed \in BOOLEAN
    /\ row \in Row \cup {None}
    /\ declared \in (SUBSET Capability) \cup {None}
    /\ job \in [Caller -> Job]

Init ==
    /\ phase = "idle" /\ listed = FALSE /\ row = None /\ declared = None
    /\ job = [c \in Caller |-> NoJob]

\* A component whose operational mode was never set is unspecified: anything
\* goes.
Allowed == IF declared = None THEN Capability ELSE declared

\* The jobs once c has moved on to j and its write has disturbed the others.
After(c, j) ==
    [d \in Caller |->
        IF d = c THEN j
        ELSE IF job[d].todo = <<>> THEN job[d]
        ELSE [job[d] EXCEPT !.disturbed = TRUE]]

-----------------------------------------------------------------------------
(* Status requests *)

Asks(knob, value) ==
    IF value = None THEN <<>> ELSE <<[knob |-> knob, value |-> value]>>

\* The setters of a request, in the order they are called.
InOrder(r) ==
    Asks("health", r.health) \o Asks("command", r.command)
        \o Asks("telemetry", r.telemetry)

\* A check of the command alone.
ValidCommand(r) ==
    /\ r.command = "normal" => "control" \in Allowed
    /\ ~(r.health = "error" /\ r.command = "normal")

\* Everything is checked before any setter runs.
Valid(r) ==
    /\ r.telemetry = "normal" => "telemetry" \in Allowed
    /\ r.command = "normal" => "control" \in Allowed
    /\ ~(r.health = "error" /\ r.command = "normal")

ApplyStatus(c) ==
    /\ job[c].todo = <<>> /\ listed
    /\ \E r \in Requests :
           /\ Valid(r)
           /\ job' = [job EXCEPT ![c] = [NoJob EXCEPT !.todo = InOrder(r)]]
    /\ UNCHANGED <<phase, listed, row, declared>>

\* The interpreter calls one setter at a time.
CallSetter ==
    /\ phase = "idle" /\ job[Lisp].todo = <<>>
    /\ \E r \in Requests :
           /\ Len(InOrder(r)) = 1
           /\ job' = [job EXCEPT ![Lisp] = [NoJob EXCEPT !.todo = InOrder(r)]]
    /\ UNCHANGED <<phase, listed, row, declared>>

-----------------------------------------------------------------------------
(* One setter: first what it reads, then what it does under the runtime lock *)

\* What a setter refuses before it takes the lock.
RefusedEarly(s) ==
    \/ ~listed
    \/ s.knob = "telemetry" /\ s.value = "normal" /\ "telemetry" \notin Allowed
    \/ s.knob = "command" /\ s.value = "normal" /\ "control" \notin Allowed

\* A check under the lock that takes health for settled.
RefusedRowless(s) == row = None

RefusedLate(s) ==
    \/ row = None
    \/ s.knob = "command" /\ s.value = "normal" /\ row.health = "error"

\* A recovery opens the command channel whatever is declared.
WrittenUndenied(r, s, seen) ==
    CASE s.knob = "health" ->
             [r EXCEPT !.health = s.value,
                       !.command = CASE s.value = "error" -> "error"
                                     [] s.value = "ok" -> "normal"
                                     [] OTHER -> @]
      [] s.knob = "command" -> [r EXCEPT !.command = s.value]
      [] s.knob = "telemetry" -> [r EXCEPT !.telemetry = s.value]

\* Health moves the command mode along.
Written(r, s, seen) ==
    CASE s.knob = "health" ->
             [r EXCEPT !.health = s.value,
                       !.command = CASE s.value = "error" -> "error"
                                     [] s.value = "ok" ->
                                            IF "control" \in seen
                                            THEN "normal" ELSE "error"
                                     [] OTHER -> @]
      [] s.knob = "command" -> [r EXCEPT !.command = s.value]
      [] s.knob = "telemetry" -> [r EXCEPT !.telemetry = s.value]

Read(c) ==
    /\ job[c].todo # <<>> /\ job[c].seen = None
    /\ job' = [job EXCEPT ![c] =
                  IF RefusedEarly(Head(@.todo)) THEN NoJob
                  ELSE [@ EXCEPT !.seen = Allowed]]
    /\ UNCHANGED <<phase, listed, row, declared>>

\* A write that makes the row it does not find.
WriteAnyway(c) ==
    LET s == Head(job[c].todo)
        r == IF row = None THEN DefaultRow ELSE row
    IN  /\ job[c].todo # <<>> /\ job[c].seen # None
        /\ row' = Written(r, s, job[c].seen)
        /\ job' = After(c, [NoJob EXCEPT !.todo = Tail(job[c].todo)])
        /\ UNCHANGED <<phase, listed, declared>>

\* A refusal drops the rest of the request.
Write(c) ==
    LET s    == Head(job[c].todo)
        rest == Tail(job[c].todo)
    IN  /\ job[c].todo # <<>> /\ job[c].seen # None
        /\ IF RefusedLate(s)
           THEN job' = [job EXCEPT ![c] = NoJob] /\ UNCHANGED row
           ELSE /\ row' = Written(row, s, job[c].seen)
                /\ job' = After(c, IF rest = <<>> THEN NoJob
                                   ELSE [job[c] EXCEPT !.todo = rest,
                                                       !.seen = None,
                                                       !.applied = TRUE])
        /\ UNCHANGED <<phase, listed, declared>>

-----------------------------------------------------------------------------
(* The interpreter thread *)

Idle == phase = "idle" /\ job[Lisp].todo = <<>>

\* Both knobs are derived anew from the mode.
SetOperationalMode(allowed) ==
    /\ Idle /\ listed /\ row # None
    /\ declared' = allowed
    /\ row' = [row EXCEPT
                  !.telemetry = IF "telemetry" \in allowed THEN "normal" ELSE "silent",
                  !.command = IF "control" \in allowed /\ row.health # "error"
                              THEN "normal" ELSE "error"]
    /\ job' = After(Lisp, NoJob)
    /\ UNCHANGED <<phase, listed>>

InsertById ==
    /\ Idle /\ ~listed
    /\ phase' = "registering" /\ listed' = TRUE
    /\ job' = After(Lisp, NoJob)
    /\ UNCHANGED <<row, declared>>

AddRow ==
    /\ phase = "registering"
    /\ phase' = "idle"
    /\ row' = IF row = None THEN DefaultRow ELSE row
    /\ job' = After(Lisp, NoJob)
    /\ UNCHANGED <<listed, declared>>

\* A removal and a reset clear the three tables in the same order.
RemoveById ==
    /\ Idle /\ listed
    /\ phase' = "removing" /\ listed' = FALSE
    /\ job' = After(Lisp, NoJob)
    /\ UNCHANGED <<row, declared>>

RemoveRow ==
    /\ phase = "removing"
    /\ phase' = "rowless" /\ row' = None
    /\ job' = After(Lisp, NoJob)
    /\ UNCHANGED <<listed, declared>>

RemoveMode ==
    /\ phase = "rowless"
    /\ phase' = "idle" /\ declared' = None
    /\ job' = After(Lisp, NoJob)
    /\ UNCHANGED <<listed, row>>

Next ==
    \/ \E c \in Client : ApplyStatus(c)
    \/ CallSetter
    \/ \E c \in Caller : Read(c) \/ Write(c)
    \/ \E allowed \in SUBSET Capability : SetOperationalMode(allowed)
    \/ InsertById \/ AddRow
    \/ RemoveById \/ RemoveRow \/ RemoveMode

Spec == Init /\ [][Next]_vars

-----------------------------------------------------------------------------
(***************************************************************************)
(* An errored device never accepts commands, whichever setters and modes    *)
(* raced the error: a command mode is only ever checked against the health  *)
(* under the lock it is stored under.                                       *)
(***************************************************************************)
ErroredIsShut ==
    row # None /\ row.health = "error" => row.command # "normal"

(***************************************************************************)
(* No setter that raced a removal leaves a row or a mode behind for a later *)
(* component of the same id to inherit.                                     *)
(***************************************************************************)
NoGhosts == phase = "idle" /\ ~listed => row = None /\ declared = None

(***************************************************************************)
(* No knob grants what the declared mode denies.                            *)
(***************************************************************************)
DeniedStaysDenied ==
    row # None =>
        /\ "telemetry" \notin Allowed => row.telemetry # "normal"
        /\ "control" \notin Allowed => row.command # "normal"

(***************************************************************************)
(* The one way for a knob to grant what the mode denies: a setter whose     *)
(* reading of the mode has gone stale by the time it takes the lock.        *)
(***************************************************************************)
OnlyStaleReadsGrant ==
    [][DeniedStaysDenied /\ ~DeniedStaysDenied' =>
           \E c \in Caller : Write(c) /\ job[c].seen # Allowed]_vars

\* What c has begun is refused at its next step.
GivesUp(c) ==
    /\ job[c].todo # <<>>
    /\ IF job[c].seen = None THEN RefusedEarly(Head(job[c].todo))
       ELSE RefusedLate(Head(job[c].todo))

(***************************************************************************)
(* A status request is applied whole or not at all, unless someone else     *)
(* wrote between its checks and its last setter.                            *)
(***************************************************************************)
WholeOrDisturbed ==
    \A c \in Caller : job[c].applied /\ GivesUp(c) => job[c].disturbed

(***************************************************************************)
(* The inductive invariant behind these: where each registration and        *)
(* removal leaves the three tables between its steps, and what a setter     *)
(* under way has already been checked against.                              *)
(***************************************************************************)
Tables ==
    /\ phase = "registering" => listed /\ declared = None
    /\ phase \in {"removing", "rowless"} => ~listed
    /\ phase = "rowless" => row = None

\* A setter that opens a channel saw a mode that allows it.
Checked ==
    \A c \in Caller :
        LET s == Head(job[c].todo)
        IN  job[c].todo # <<>> /\ job[c].seen # None /\ s.value = "normal" =>
                /\ s.knob = "telemetry" => "telemetry" \in job[c].seen
                /\ s.knob = "command" => "control" \in job[c].seen

\* Setters that open only channels the mode allows.
Granted(setters, allowed) ==
    \A i \in 1..Len(setters) : setters[i].value = "normal" =>
        /\ setters[i].knob = "telemetry" => "telemetry" \in allowed
        /\ setters[i].knob = "command" => "control" \in allowed

\* The command knob comes first or right after a health that leaves it open.
InTurn(setters) ==
    \A i \in 2..Len(setters) : setters[i].knob = "command" =>
        /\ i = 2 /\ setters[1].knob = "health"
        /\ ~(setters[1].value = "error" /\ setters[2].value = "normal")

\* A row that refuses no such setter.
Ready(setter, r) ==
    /\ r # None
    /\ setter.knob = "command" /\ setter.value = "normal" => r.health # "error"

\* What is left of a request that nobody disturbed will be applied.
Planned ==
    \A c \in Caller :
        LET left == job[c].todo
        IN  /\ left # <<>> /\ ~job[c].disturbed
            /\ job[c].applied \/ Len(left) > 1
            => /\ listed /\ Granted(left, Allowed) /\ InTurn(left)
               /\ job[c].applied => Ready(Head(left), row)

IInv == TypeOK /\ Tables /\ Checked /\ Planned /\ ErroredIsShut /\ NoGhosts
=============================================================================
