--------------------------- MODULE RuntimeProofs ----------------------------
(***************************************************************************)
(* Theorems of what a site's doors write: of module RuntimeModes, for any    *)
(* number of UI requests in flight that ask for any statuses; of Drives, for *)
(* any driven values and any number of calls that drive them; and of         *)
(* Weather, for any patches, clouds and number of updates.                   *)
(***************************************************************************)
EXTENDS RuntimeModes, Drives, Weather, SequenceTheorems, TLAPS

-----------------------------------------------------------------------------
(* Types *)

\* What stands second has one setter before it.
LEMMA OneBefore ==
    \A n \in 0..1, m \in Nat : \A i \in 2..m : i = n + 1 => i = 2 /\ n = 1
  OBVIOUS

\* A request is taken apart into well-typed setters.
LEMMA InOrderType ==
    ASSUME NEW r \in Requests
    PROVE  InOrder(r) \in Seq(Setter)
  <1>1. r \in Status
    BY RequestAssumption
  <1>2. \A s \in Setter : <<s>> \in Seq(Setter)
    OBVIOUS
  <1>3. \A knob, value : value = None \/ [knob |-> knob, value |-> value] \in Setter
            => Asks(knob, value) \in Seq(Setter)
    BY <1>2 DEF Asks
  <1>4. /\ r.health = None \/ [knob |-> "health", value |-> r.health] \in Setter
        /\ r.command = None \/ [knob |-> "command", value |-> r.command] \in Setter
        /\ r.telemetry = None
               \/ [knob |-> "telemetry", value |-> r.telemetry] \in Setter
    BY <1>1 DEF Status, Setter
  <1>5. /\ Asks("health", r.health) \in Seq(Setter)
        /\ Asks("command", r.command) \in Seq(Setter)
        /\ Asks("telemetry", r.telemetry) \in Seq(Setter)
    BY <1>3, <1>4
  <1> QED BY <1>5 DEF InOrder

\* A caller with nothing to do is well-typed.
LEMMA NoJobType == NoJob \in Job /\ NoJob.seen = None /\ NoJob.todo = <<>>
  BY DEF NoJob, Job

\* A declared or unspecified mode allows a set of capabilities.
LEMMA AllowedType ==
    ASSUME TypeOK
    PROVE  Allowed \in SUBSET Capability
  BY DEF TypeOK, Allowed

\* What is left to do of a job is well-typed.
LEMMA HeadType ==
    ASSUME NEW q \in Seq(Setter), q # <<>>
    PROVE  Head(q) \in Setter /\ Tail(q) \in Seq(Setter)
  OBVIOUS

\* A setter turns a row into a row.
LEMMA WrittenType ==
    ASSUME NEW r \in Row, NEW s \in Setter, NEW seen
    PROVE  Written(r, s, seen) \in Row
  BY DEF Written, Row, Setter, Healths, Commands, Telemetries

(***************************************************************************)
(* A write by c leaves every job of another caller as it was but for the    *)
(* mark that it was disturbed.                                              *)
(***************************************************************************)
LEMMA AfterKeeps ==
    ASSUME job \in [Caller -> Job], Checked,
           NEW c \in Caller, NEW j \in Job, j.seen = None,
           job' = After(c, j)
    PROVE  job' \in [Caller -> Job] /\ Checked'
  <1>1. \A d \in Caller : job'[d] =
            IF d = c THEN j
            ELSE IF job[d].todo = <<>> THEN job[d]
            ELSE [job[d] EXCEPT !.disturbed = TRUE]
    BY DEF After
  <1>2. \A d \in Caller : [job[d] EXCEPT !.disturbed = TRUE] \in Job
    BY DEF Job
  <1>3. job' \in [Caller -> Job]
    BY <1>1, <1>2 DEF After
  <1>4. \A d \in Caller : d # c =>
            job'[d].todo = job[d].todo /\ job'[d].seen = job[d].seen
    BY <1>1 DEF Job
  <1>5. job'[c].seen = None
    BY <1>1
  <1> QED BY <1>3, <1>4, <1>5 DEF Checked

\* So does a caller that turns to another job without having read anything.
LEMMA TurnKeeps ==
    ASSUME job \in [Caller -> Job], Checked,
           NEW c \in Caller, NEW j \in Job, j.seen = None,
           job' = [job EXCEPT ![c] = j]
    PROVE  job' \in [Caller -> Job] /\ Checked'
  BY DEF Checked

-----------------------------------------------------------------------------
(* What is left of a request *)

\* The one setter a part of a request asks for, or none.
LEMMA AsksShape ==
    ASSUME NEW S, NEW s \in S, NEW knob, NEW value, s = [knob |-> knob, value |-> value]
    PROVE  /\ Asks(knob, value) \in Seq(S)
           /\ Asks(knob, value) = <<>> \/ (Len(Asks(knob, value)) = 1 /\ Asks(knob, value)[1] = s)
  BY DEF Asks

\* Three such parts after one another, place by place.
InPlace(q, a, b, c) ==
    /\ \A i \in 1..Len(q) :
          \/ i = 1 /\ Len(a) = 1 /\ q[i] = a[1]
          \/ i = Len(a) + 1 /\ Len(b) = 1 /\ q[i] = b[1]
          \/ i = Len(a) + Len(b) + 1 /\ Len(c) = 1 /\ q[i] = c[1]
    /\ Len(a) = 1 => Len(q) > 0 /\ q[1] = a[1]

\* That is how they lie when they are put together.
LEMMA ThreeParts ==
    ASSUME NEW S, NEW a \in Seq(S), NEW b \in Seq(S), NEW c \in Seq(S), NEW q,
           Len(a) \in 0..1, Len(b) \in 0..1, Len(c) \in 0..1,
           q = a \o b \o c
    PROVE  q \in Seq(S) /\ InPlace(q, a, b, c)
  <1>1. /\ a \o b \in Seq(S) /\ Len(a \o b) = Len(a) + Len(b)
        /\ \A i \in 1..Len(a) + Len(b) :
               (a \o b)[i] = IF i <= Len(a) THEN a[i] ELSE b[i - Len(a)]
    BY ConcatProperties
  <1> DEFINE ab == a \o b
  <1> HIDE DEF ab
  <1>2. /\ q \in Seq(S) /\ Len(q) = Len(ab) + Len(c)
        /\ \A i \in 1..Len(ab) + Len(c) :
               q[i] = IF i <= Len(ab) THEN ab[i] ELSE c[i - Len(ab)]
    BY <1>1, ConcatProperties DEF ab
  <1>3. ASSUME NEW i \in 1..Len(q)
        PROVE  \/ i = 1 /\ Len(a) = 1 /\ q[i] = a[1]
               \/ i = Len(a) + 1 /\ Len(b) = 1 /\ q[i] = b[1]
               \/ i = Len(a) + Len(b) + 1 /\ Len(c) = 1 /\ q[i] = c[1]
    <2>1. CASE i <= Len(ab)
      BY <1>1, <1>2, <2>1 DEF ab
    <2>2. CASE i > Len(ab)
      BY <1>1, <1>2, <2>2 DEF ab
    <2> QED BY <1>2, <2>1, <2>2
  <1>4. Len(a) = 1 => Len(q) > 0 /\ q[1] = a[1]
    BY <1>1, <1>2 DEF ab
  <1> QED BY <1>2, <1>3, <1>4 DEF InPlace

\* A request that passed its checks opens only what the mode allows, and asks
\* for its knobs in turn.
LEMMA ValidShape ==
    ASSUME NEW r \in Requests, Valid(r)
    PROVE  Granted(InOrder(r), Allowed) /\ InTurn(InOrder(r))
  <1> DEFINE h == [knob |-> "health", value |-> r.health]
             k == [knob |-> "command", value |-> r.command]
             t == [knob |-> "telemetry", value |-> r.telemetry]
             a == Asks("health", r.health)
             b == Asks("command", r.command)
             c == Asks("telemetry", r.telemetry)
             q == InOrder(r)
             Parts == {h, k, t}
  <1>1. /\ t.value = "normal" => "telemetry" \in Allowed
        /\ k.value = "normal" => "control" \in Allowed
        /\ ~(h.value = "error" /\ k.value = "normal")
    BY DEF Valid
  <1>2. /\ h.knob = "health" /\ k.knob = "command" /\ t.knob = "telemetry"
    OBVIOUS
  <1>3. /\ a \in Seq(Parts) /\ (a = <<>> \/ (Len(a) = 1 /\ a[1] = h))
        /\ b \in Seq(Parts) /\ (b = <<>> \/ (Len(b) = 1 /\ b[1] = k))
        /\ c \in Seq(Parts) /\ (c = <<>> \/ (Len(c) = 1 /\ c[1] = t))
    BY AsksShape
  <1>4. q = a \o b \o c
    BY DEF InOrder
  <1> HIDE DEF h, k, t, a, b, c, q, Parts
  <1>5. /\ Len(a) \in 0..1 /\ (Len(a) = 1 => a[1] = h)
        /\ Len(b) \in 0..1 /\ (Len(b) = 1 => b[1] = k)
        /\ Len(c) \in 0..1 /\ (Len(c) = 1 => c[1] = t)
    <2>1. Len(<<>>) = 0
      OBVIOUS
    <2> QED BY <1>3, <2>1
  <1>6. /\ Len(q) \in Nat
        /\ \A i \in 1..Len(q) :
             \/ i = 1 /\ Len(a) = 1 /\ q[i] = h
             \/ i = Len(a) + 1 /\ q[i] = k
             \/ q[i] = t
        /\ Len(a) = 1 => q[1] = h
    <2>1. q \in Seq(Parts) /\ InPlace(q, a, b, c)
      BY <1>3, <1>4, <1>5, ThreeParts
    <2>2. Len(q) \in Nat
      BY <2>1
    <2> QED BY <1>5, <2>1, <2>2 DEF InPlace
  <1>7. \A i \in 1..Len(q) : q[i] \in {h, k, t}
    BY <1>6
  <1>8. Granted(q, Allowed)
    BY <1>1, <1>2, <1>7 DEF Granted
  <1>9. InTurn(q)
    <2>1. SUFFICES ASSUME NEW i \in 2..Len(q), q[i].knob = "command"
                   PROVE  /\ i = 2 /\ q[1].knob = "health"
                          /\ ~(q[1].value = "error" /\ q[2].value = "normal")
      BY DEF InTurn
    <2>2. i = Len(a) + 1 /\ q[i] = k
      BY <1>2, <1>6, <2>1
    <2>3. Len(a) \in 0..1 /\ Len(q) \in Nat
      BY <1>5, <1>6
    <2>4. i = 2 /\ Len(a) = 1
      BY <2>1, <2>2, <2>3, OneBefore
    <2> QED BY <1>1, <1>2, <1>6, <2>2, <2>4
  <1> QED BY <1>8, <1>9 DEF q

\* What the checks let through is planned, and so is a single setter.
LEMMA CallPlans ==
    ASSUME IInv, CallSetter \/ \E c \in Client : ApplyStatus(c)
    PROVE  Planned'
  <1>1. PICK c \in Caller, r \in Requests :
            /\ job' = [job EXCEPT ![c] = [NoJob EXCEPT !.todo = InOrder(r)]]
            /\ (listed /\ Valid(r)) \/ Len(InOrder(r)) = 1
    BY DEF CallSetter, ApplyStatus, Caller
  <1> DEFINE n == Len(InOrder(r))
  <1>5. (listed /\ Valid(r)) \/ n = 1
    BY <1>1
  <1>2. UNCHANGED <<listed, row>> /\ Allowed' = Allowed
    BY DEF CallSetter, ApplyStatus, Allowed
  <1>3. /\ \A d \in Caller : d # c => job'[d] = job[d]
        /\ job'[c].todo = InOrder(r) /\ job'[c].applied = FALSE
    BY <1>1 DEF IInv, TypeOK, NoJob
  <1>4. ASSUME NEW d \in Caller, job'[d].todo # <<>>, ~job'[d].disturbed,
               job'[d].applied \/ Len(job'[d].todo) > 1
        PROVE  /\ listed' /\ Granted(job'[d].todo, Allowed') /\ InTurn(job'[d].todo)
               /\ job'[d].applied => Ready(Head(job'[d].todo), row')
    <2>1. CASE d = c
      <3>1. n > 1
        BY <1>3, <1>4, <2>1
      <3>2. n \in Nat
        BY InOrderType
      <3> HIDE DEF n
      <3>3. n # 1
        BY <3>1, <3>2
      <3>4. listed /\ Valid(r)
        BY <1>5, <3>3
      <3> QED BY <1>2, <1>3, <2>1, <3>4, ValidShape
    <2>2. CASE d # c
      BY <1>2, <1>3, <1>4, <2>2 DEF IInv, Planned
    <2> QED BY <2>1, <2>2
  <1> QED BY <1>4 DEF Planned

\* To read, or to be refused, changes no plan.
LEMMA ReadPlans ==
    ASSUME IInv, NEW c \in Caller, Read(c)
    PROVE  Planned'
  <1>1. UNCHANGED <<listed, row>> /\ Allowed' = Allowed
    BY DEF Read, Allowed
  <1>2. \A d \in Caller : d # c => job'[d] = job[d]
    BY DEF Read, IInv, TypeOK
  <1>3. \/ job'[c].todo = <<>>
        \/ /\ job'[c].todo = job[c].todo /\ job'[c].applied = job[c].applied
           /\ job'[c].disturbed = job[c].disturbed
    BY NoJobType DEF Read, IInv, TypeOK, Job
  <1> QED BY <1>1, <1>2, <1>3 DEF IInv, Planned

\* What is left after the first of such setters is as well granted and in turn.
LEMMA RestShape ==
    ASSUME NEW left \in Seq(Setter), left # <<>>, NEW rest, rest = Tail(left),
           NEW allowed
    PROVE  /\ Granted(left, allowed) => Granted(rest, allowed)
           /\ InTurn(left) => InTurn(rest)
           /\ Len(rest) = Len(left) - 1
           /\ rest # <<>> => Head(rest) = left[2]
  <1>1. /\ rest \in Seq(Setter) /\ Len(rest) = Len(left) - 1 /\ Len(left) > 0
        /\ \A i \in 1..Len(rest) : rest[i] = left[i + 1]
    OBVIOUS
  <1> HIDE DEF Setter
  <1>2. Granted(left, allowed) => Granted(rest, allowed)
    BY <1>1 DEF Granted
  <1>3. InTurn(left) => InTurn(rest)
    <2>1. ASSUME InTurn(left), NEW i \in 2..Len(rest), rest[i].knob = "command" PROVE FALSE
      <3>1. i + 1 \in 2..Len(left) /\ left[i + 1].knob = "command"
        BY <1>1, <2>1
      <3> QED BY <2>1, <3>1 DEF InTurn
    <2> QED BY <2>1 DEF InTurn
  <1>4. rest # <<>> => Head(rest) = left[2]
    BY <1>1
  <1> QED BY <1>1, <1>2, <1>3, <1>4

\* A setter that goes through leaves a row that is ready for the next one.
LEMMA WriteReadies ==
    ASSUME NEW left \in Seq(Setter), Len(left) > 1, InTurn(left),
           NEW r \in Row, NEW seen, NEW r2, r2 = Written(r, Head(left), seen)
    PROVE  Ready(left[2], r2)
  <1>1. left[1] \in Setter /\ left[2] \in Setter /\ Head(left) = left[1] /\ 2 \in 2..Len(left)
    OBVIOUS
  <1>2. r2 \in Row
    BY <1>1, WrittenType
  <1>3. r2 # None
    BY <1>2, NoneIsNothing DEF Row
  <1>4. ASSUME left[2].knob = "command", left[2].value = "normal"
        PROVE  r2.health # "error"
    <2>1. left[1].knob = "health" /\ left[1].value # "error"
      BY <1>1, <1>4 DEF InTurn
    <2>2. r2.health = left[1].value
      BY <1>1, <2>1 DEF Written, Row
    <2> QED BY <2>1, <2>2
  <1> QED BY <1>3, <1>4 DEF Ready

\* A write disturbs whoever else is under way, and its own caller goes on as
\* planned.
LEMMA WritePlans ==
    ASSUME IInv, NEW c \in Caller, Write(c)
    PROVE  Planned'
  <1> DEFINE left == job[c].todo
             rest == Tail(left)
  <1>1. UNCHANGED listed /\ Allowed' = Allowed
    BY DEF Write, Allowed
  <1>2. job[c] \in Job /\ left \in Seq(Setter) /\ left # <<>>
    BY DEF Write, IInv, TypeOK, Job
  <1>3. CASE RefusedLate(Head(left))
    <2>1. UNCHANGED row /\ job' = [job EXCEPT ![c] = NoJob]
      BY <1>3 DEF Write
    <2>2. /\ \A d \in Caller : d # c => job'[d] = job[d]
          /\ job'[c].todo = <<>>
      BY <2>1, NoJobType DEF IInv, TypeOK
    <2> QED BY <1>1, <2>1, <2>2 DEF IInv, Planned
  <1>4. CASE ~RefusedLate(Head(left))
    <2> DEFINE j == IF rest = <<>> THEN NoJob
                    ELSE [job[c] EXCEPT !.todo = rest, !.seen = None, !.applied = TRUE]
    <2>1. row' = Written(row, Head(left), job[c].seen) /\ job' = After(c, j)
      BY <1>4 DEF Write
    <2>2. row \in Row
      BY <1>4 DEF RefusedLate, IInv, TypeOK
    <2>3. \A d \in Caller : d # c => job'[d].todo = <<>> \/ job'[d].disturbed
      BY <2>1 DEF After, IInv, TypeOK, Job
    <2>4. job'[c] = j
      BY <2>1 DEF After
    <2>5. \/ job'[c].todo = <<>>
          \/ /\ rest # <<>> /\ job'[c].todo = rest /\ job'[c].applied
             /\ job'[c].disturbed = job[c].disturbed
      BY <2>4, <1>2, NoJobType DEF Job
    <2>6. ASSUME rest # <<>>, ~job[c].disturbed
          PROVE  listed /\ Granted(rest, Allowed) /\ InTurn(rest) /\ Ready(Head(rest), row')
      <3>1. Len(left) > 1
        BY <1>2, <2>6
      <3>2. listed /\ Granted(left, Allowed) /\ InTurn(left)
        BY <1>2, <2>6, <3>1 DEF IInv, Planned
      <3>3. Head(rest) = left[2]
        BY <1>2, <2>6, RestShape
      <3>4. Ready(left[2], row')
        BY <1>2, <2>1, <2>2, <3>1, <3>2, WriteReadies
      <3> QED BY <1>2, <3>2, <3>3, <3>4, RestShape
    <2> HIDE DEF rest, j
    <2> QED BY <1>1, <2>3, <2>5, <2>6 DEF Planned
  <1> QED BY <1>3, <1>4

-----------------------------------------------------------------------------
(* Setters *)

\* A request or a call only adds to what there is to do.
LEMMA CallKeeps ==
    ASSUME IInv, CallSetter \/ \E c \in Client : ApplyStatus(c)
    PROVE  IInv'
  <1>1. UNCHANGED <<phase, listed, row, declared>>
    BY DEF CallSetter, ApplyStatus
  <1>2. PICK c \in Caller, r \in Requests :
            job' = [job EXCEPT ![c] = [NoJob EXCEPT !.todo = InOrder(r)]]
    BY DEF CallSetter, ApplyStatus, Caller
  <1>3. [NoJob EXCEPT !.todo = InOrder(r)] \in Job
    BY NoJobType, InOrderType DEF Job
  <1>4. [NoJob EXCEPT !.todo = InOrder(r)].seen = None
    BY DEF NoJob
  <1>5. job' \in [Caller -> Job] /\ Checked'
    BY <1>2, <1>3, <1>4, TurnKeeps DEF IInv, TypeOK
  <1> QED
    BY <1>1, <1>5, CallPlans DEF IInv, TypeOK, Tables, ErroredIsShut, NoGhosts

\* A setter that goes on past its reading is one that the mode allows.
LEMMA ReadKeeps ==
    ASSUME IInv, NEW c \in Caller, Read(c)
    PROVE  IInv'
  <1>1. UNCHANGED <<phase, listed, row, declared>> /\ job[c].todo # <<>>
    BY DEF Read
  <1>2. job' \in [Caller -> Job] /\ Checked'
    <2>1. CASE RefusedEarly(Head(job[c].todo))
      BY <2>1, NoJobType, TurnKeeps DEF Read, IInv, TypeOK
    <2>2. CASE ~RefusedEarly(Head(job[c].todo))
      <3>1. job' = [job EXCEPT ![c] = [job[c] EXCEPT !.seen = Allowed]]
        BY <2>2 DEF Read
      <3>2. [job[c] EXCEPT !.seen = Allowed] \in Job
        BY AllowedType DEF IInv, TypeOK, Job
      <3>3. /\ job'[c].todo = job[c].todo /\ job'[c].seen = Allowed
            /\ \A d \in Caller : d # c => job'[d] = job[d]
        BY <3>1 DEF IInv, TypeOK, Job
      <3> QED BY <2>2, <3>1, <3>2, <3>3 DEF IInv, TypeOK, Checked, RefusedEarly
    <2> QED BY <2>1, <2>2
  <1> QED
    BY <1>1, <1>2, ReadPlans DEF IInv, TypeOK, Tables, ErroredIsShut, NoGhosts

\* A setter writes to a row that is there, and opens no errored channel.
LEMMA WriteKeeps ==
    ASSUME IInv, NEW c \in Caller, Write(c)
    PROVE  IInv'
  <1> DEFINE s == Head(job[c].todo)
  <1>1. UNCHANGED <<phase, listed, declared>> /\ job[c].todo # <<>>
    BY DEF Write
  <1>2. job[c] \in Job /\ s \in Setter /\ Tail(job[c].todo) \in Seq(Setter)
    BY <1>1, HeadType DEF IInv, TypeOK, Job
  <1>3. CASE RefusedLate(s)
    <2>1. job' = [job EXCEPT ![c] = NoJob] /\ UNCHANGED row
      BY <1>3 DEF Write
    <2>2. job' \in [Caller -> Job] /\ Checked'
      BY <2>1, NoJobType, TurnKeeps DEF IInv, TypeOK
    <2> QED
      BY <1>1, <2>1, <2>2, WritePlans DEF IInv, TypeOK, Tables, ErroredIsShut, NoGhosts
  <1>4. CASE ~RefusedLate(s)
    <2> DEFINE rest == Tail(job[c].todo)
               j == IF rest = <<>> THEN NoJob
                    ELSE [job[c] EXCEPT !.todo = rest, !.seen = None,
                                        !.applied = TRUE]
    <2>1. row' = Written(row, s, job[c].seen) /\ job' = After(c, j)
      BY <1>4 DEF Write
    <2>2. j \in Job /\ j.seen = None
      BY <1>2, NoJobType DEF Job
    <2>3. job' \in [Caller -> Job] /\ Checked'
      BY <2>1, <2>2, AfterKeeps DEF IInv, TypeOK
    <2>4. row \in Row
      BY <1>4 DEF RefusedLate, IInv, TypeOK
    <2>5. row' \in Row
      BY <2>1, <2>4, <1>2, WrittenType
    <2>6. ErroredIsShut'
      BY <2>1, <2>4, <1>2, <1>4
      DEF ErroredIsShut, RefusedLate, Written, Row, Setter, IInv
    <2>7. row # None
      BY <1>4 DEF RefusedLate
    <2> QED
      BY <1>1, <2>3, <2>5, <2>6, <2>7, WritePlans DEF IInv, TypeOK, Tables, NoGhosts
  <1> QED BY <1>3, <1>4

-----------------------------------------------------------------------------
(* The interpreter thread *)

\* What it does to the tables by itself.
Alone ==
    \/ \E allowed \in SUBSET Capability : SetOperationalMode(allowed)
    \/ InsertById \/ AddRow
    \/ RemoveById \/ RemoveRow \/ RemoveMode

\* Every such step ends no job and begins none, and disturbs whoever is under
\* way.
LEMMA AloneDisturbs ==
    ASSUME IInv, Alone
    PROVE  job' \in [Caller -> Job] /\ Checked' /\ Planned'
  <1>1. job' = After(Lisp, NoJob)
    BY DEF Alone, SetOperationalMode, InsertById, AddRow, RemoveById, RemoveRow,
           RemoveMode
  <1>2. Lisp \in Caller
    BY DEF Caller
  <1>3. \A d \in Caller : job'[d].todo = <<>> \/ job'[d].disturbed
    BY <1>1, NoJobType DEF After, IInv, TypeOK, Job
  <1>4. Planned'
    BY <1>3 DEF Planned
  <1> QED BY <1>1, <1>2, <1>4, AfterKeeps, NoJobType DEF IInv, TypeOK

\* A new mode derives both knobs, and the command knob with the health.
LEMMA ModeKeeps ==
    ASSUME IInv, NEW allowed \in SUBSET Capability, SetOperationalMode(allowed)
    PROVE  IInv'
  <1>1. row \in Row
    BY DEF SetOperationalMode, IInv, TypeOK
  <1>2. row' \in Row /\ ErroredIsShut'
    BY <1>1
    DEF SetOperationalMode, ErroredIsShut, Row, Commands, Telemetries
  <1>3. job' \in [Caller -> Job] /\ Checked' /\ Planned'
    BY AloneDisturbs DEF Alone
  <1> QED
    BY <1>2, <1>3
    DEF SetOperationalMode, Idle, IInv, TypeOK, Tables, NoGhosts

\* The three tables are filled and emptied in an order that leaves nothing.
LEMMA TablesKeep ==
    ASSUME IInv,
           InsertById \/ AddRow \/ RemoveById \/ RemoveRow \/ RemoveMode
    PROVE  IInv'
  <1>1. job' \in [Caller -> Job] /\ Checked' /\ Planned'
    BY AloneDisturbs DEF Alone
  <1>2. DefaultRow \in Row /\ DefaultRow.health = "ok"
    BY DEF DefaultRow, Row, Healths, Commands, Telemetries
  <1>3. TypeOK'
    BY <1>1, <1>2
    DEF IInv, TypeOK, InsertById, AddRow, RemoveById, RemoveRow, RemoveMode
  <1>4. ErroredIsShut'
    BY <1>2
    DEF IInv, ErroredIsShut, InsertById, AddRow, RemoveById, RemoveRow, RemoveMode
  <1>5. Tables' /\ NoGhosts'
    BY DEF IInv, Tables, NoGhosts, Idle, TypeOK,
           InsertById, AddRow, RemoveById, RemoveRow, RemoveMode
  <1> QED BY <1>1, <1>3, <1>4, <1>5 DEF IInv

-----------------------------------------------------------------------------
(* The theorems *)

\* The inductive invariant holds of a fresh site.
LEMMA InitHolds == Init => IInv
  BY NoJobType
  DEF Init, IInv, TypeOK, Tables, Checked, Planned, ErroredIsShut, NoGhosts

\* Every step keeps the inductive invariant.
LEMMA NextKeeps ==
    ASSUME IInv, [Next]_vars
    PROVE  IInv'
  <1>1. CASE UNCHANGED vars
    BY <1>1
    DEF vars, IInv, TypeOK, Tables, Checked, Planned, Allowed, ErroredIsShut, NoGhosts
  <1> QED
    BY <1>1, CallKeeps, ReadKeeps, WriteKeeps, ModeKeeps, TablesKeep DEF Next

\* The inductive invariant holds throughout.
LEMMA Invariance == Spec => []IInv
  BY InitHolds, NextKeeps, PTL DEF Spec

(***************************************************************************)
(* However many setters race each other and the component's coming and      *)
(* going, an errored device accepts no commands.                            *)
(***************************************************************************)
THEOREM ErrorShutsTheChannel == Spec => []ErroredIsShut
  <1>1. IInv => ErroredIsShut
    BY DEF IInv
  <1> QED BY <1>1, Invariance, PTL

(***************************************************************************)
(* No setter that raced a removal leaves anything for the next component of *)
(* the id.                                                                  *)
(***************************************************************************)
THEOREM RemovalLeavesNoGhosts == Spec => []NoGhosts
  <1>1. IInv => NoGhosts
    BY DEF IInv
  <1> QED BY <1>1, Invariance, PTL

(***************************************************************************)
(* A status request that nobody else's write came between is applied whole: *)
(* what was checked before its first setter holds up to its last, also      *)
(* against what its own setters do to each other.                           *)
(***************************************************************************)
THEOREM RequestsAreApplied == Spec => []WholeOrDisturbed
  <1>1. ASSUME IInv, NEW c \in Caller, job[c].applied, GivesUp(c), ~job[c].disturbed
        PROVE  FALSE
    <2> DEFINE left == job[c].todo
    <2>1. left \in Seq(Setter) /\ left # <<>>
      BY <1>1 DEF GivesUp, IInv, TypeOK, Job
    <2>2. listed /\ Granted(left, Allowed) /\ Ready(Head(left), row)
      BY <1>1, <2>1 DEF IInv, Planned
    <2>3. Head(left).value = "normal" =>
              /\ Head(left).knob = "telemetry" => "telemetry" \in Allowed
              /\ Head(left).knob = "command" => "control" \in Allowed
      <3>1. 1 \in 1..Len(left) /\ Head(left) = left[1]
        BY <2>1
      <3> QED BY <2>2, <3>1 DEF Granted
    <2> QED BY <1>1, <2>2, <2>3 DEF GivesUp, RefusedEarly, RefusedLate, Ready
  <1>2. IInv => WholeOrDisturbed
    BY <1>1 DEF WholeOrDisturbed
  <1> QED BY <1>2, Invariance, PTL

-----------------------------------------------------------------------------
\* A setter whose reading of the mode still holds grants nothing.
LEMMA FreshWriteGrantsNothing ==
    ASSUME IInv, DeniedStaysDenied,
           NEW c \in Caller, Write(c), job[c].seen = Allowed
    PROVE  DeniedStaysDenied'
  <1> DEFINE s == Head(job[c].todo)
  <1>1. Allowed' = Allowed /\ job[c].todo # <<>> /\ job[c].seen # None
    BY DEF Write, Allowed
  <1>2. CASE RefusedLate(s)
    BY <1>1, <1>2 DEF Write, DeniedStaysDenied
  <1>3. CASE ~RefusedLate(s)
    <2>1. row' = Written(row, s, Allowed) /\ row \in Row
      BY <1>3 DEF Write, RefusedLate, IInv, TypeOK
    <2>2. s \in Setter
      BY <1>1, HeadType DEF IInv, TypeOK, Job
    <2>3. s.value = "normal" =>
              /\ s.knob = "telemetry" => "telemetry" \in Allowed
              /\ s.knob = "command" => "control" \in Allowed
      BY <1>1 DEF IInv, Checked
    <2>4. row # None
      BY <1>3 DEF RefusedLate
    <2> QED
      BY <1>1, <2>1, <2>2, <2>3, <2>4
      DEF DeniedStaysDenied, Written, Row, Setter
  <1> QED BY <1>2, <1>3

\* No other step does.
LEMMA OthersGrantNothing ==
    ASSUME IInv, DeniedStaysDenied,
           Alone \/ CallSetter \/ (\E c \in Client : ApplyStatus(c))
                 \/ \E c \in Caller : Read(c)
    PROVE  DeniedStaysDenied'
  <1>1. CASE \E allowed \in SUBSET Capability : SetOperationalMode(allowed)
    <2>1. PICK allowed \in SUBSET Capability : SetOperationalMode(allowed)
      BY <1>1
    <2>2. row \in Row /\ Allowed' = allowed
      BY <2>1, NoneIsNothing DEF SetOperationalMode, IInv, TypeOK, Allowed
    <2> QED
      BY <2>1, <2>2 DEF SetOperationalMode, DeniedStaysDenied, Row
  <1>2. CASE AddRow
    <2>1. Allowed' = Capability
      BY <1>2 DEF AddRow, IInv, Tables, Allowed
    <2> QED BY <2>1 DEF DeniedStaysDenied, Capability
  <1>3. CASE RemoveMode
    BY <1>3 DEF RemoveMode, IInv, Tables, DeniedStaysDenied
  <1>4. CASE RemoveRow
    BY <1>4 DEF RemoveRow, DeniedStaysDenied
  <1>5. CASE InsertById \/ RemoveById
    BY <1>5 DEF InsertById, RemoveById, DeniedStaysDenied, Allowed
  <1>6. CASE \/ CallSetter \/ \E c \in Client : ApplyStatus(c)
             \/ \E c \in Caller : Read(c)
    BY <1>6 DEF CallSetter, ApplyStatus, Read, DeniedStaysDenied, Allowed
  <1> QED BY <1>1, <1>2, <1>3, <1>4, <1>5, <1>6 DEF Alone

(***************************************************************************)
(* A knob comes to grant what the declared mode denies in one way only: a   *)
(* setter read the mode before it was changed and wrote after.  The         *)
(* coupling of the setters themselves, in any order, never does.            *)
(***************************************************************************)
THEOREM GrantsComeFromStaleReads == Spec => OnlyStaleReadsGrant
  <1>1. ASSUME IInv, [Next]_vars
        PROVE  [DeniedStaysDenied /\ ~DeniedStaysDenied' =>
                   \E c \in Caller : Write(c) /\ job[c].seen # Allowed]_vars
    <2>1. CASE UNCHANGED vars
      BY <2>1
    <2>2. CASE \E c \in Caller : Write(c)
      BY <2>2, <1>1, FreshWriteGrantsNothing
    <2>3. CASE \/ Alone \/ CallSetter \/ (\E c \in Client : ApplyStatus(c))
               \/ \E c \in Caller : Read(c)
      BY <2>3, <1>1, OthersGrantNothing
    <2> QED BY <1>1, <2>1, <2>2, <2>3 DEF Next, Alone
  <1> QED BY <1>1, Invariance, PTL DEF Spec, OnlyStaleReadsGrant

-----------------------------------------------------------------------------
(* The driven inputs                                                        *)

\* The parts of a source, of an argument and of a snapshot.
LEMMA SourceParts ==
    ASSUME NEW s \in Source
    PROVE  /\ s.shape \in Shapes /\ s.value \in Int
           /\ s.shape = "free" <=> s = Free
           /\ s = [shape |-> s.shape, value |-> s.value]
           /\ s.shape \in {"free", "number", "lisp", "factor", "car"}
           /\ s.shape = "lisp" => s = Expr(s.value)
           /\ s.shape = "car" => s = Car(s.value)
  <1>1. s \in [shape : Shapes, value : Int] /\ (s.shape = "free" => s = Free)
    BY DEF Source
  <1>2. Free.shape = "free"
    BY DEF Free
  <1>3. Shapes \subseteq {"free", "number", "lisp", "factor", "car"}
    BY DEF Shapes
  <1> QED BY <1>1, <1>2, <1>3 DEF Expr, Car

LEMMA IsSource ==
    ASSUME NEW h \in Shapes, NEW v \in Int, h # "free"
    PROVE  [shape |-> h, value |-> v] \in Source
  BY DEF Source

LEMMA ArgumentParts ==
    ASSUME NEW s \in Argument
    PROVE  /\ s.value \in Int
           /\ s.shape # "soc" /\ s # Wrong => s \in Source
           /\ s.shape = "wrong" <=> s = Wrong
  <1>1. CASE s \in Source
    BY <1>1, SourceParts DEF Wrong
  <1>2. CASE s \in [shape : {"soc"}, value : Int]
    BY <1>2 DEF Wrong
  <1>3. CASE s = Wrong
    BY <1>3 DEF Wrong
  <1> QED BY <1>1, <1>2, <1>3 DEF Argument

LEMMA KeptParts ==
    ASSUME NEW b \in Kept
    PROVE  /\ b.source \in Source /\ b.told \in Source
           /\ kind \in Meters /\ b.source = Free => b.told = Free
  BY DEF Kept

\* What a door is in, by what it is at.
LEMMA CallParts ==
    ASSUME DrivesTypeOK, NEW d \in Doors
    PROVE  /\ call[d].at \in {"idle", "start", "take", "snapshot", "write", "announce",
                              "restore", "refresh", "broadcast"}
           /\ call[d].at = "idle" <=> call[d] = Quiet
           /\ call[d].at \in {"snapshot", "write", "announce"} <=> call[d] \in Calls
           /\ call[d] \in Calls => call[d].to \in Argument
           /\ call[d].at \in {"restore", "refresh", "broadcast"} <=> call[d] \in Restores
           /\ call[d] \in Restores => call[d].from \in Kept
  <1> DEFINE c == call[d]
  <1>1. c \in {Quiet} \cup [at : {"start", "take"}] \cup Calls \cup Restores
    BY DEF DrivesTypeOK
  <1> HIDE DEF c
  <1>2. Quiet.at = "idle"
    BY DEF Quiet
  <1>3. \A x \in Calls : x.at \in {"snapshot", "write", "announce"} /\ x.to \in Argument
    BY DEF Calls
  <1>4. \A x \in Restores : x.at \in {"restore", "refresh", "broadcast"} /\ x.from \in Kept
    BY DEF Restores
  <1>5. \A x \in [at : {"start", "take"}] : x.at \in {"start", "take"}
    OBVIOUS
  <1>6. /\ c.at \in {"idle", "start", "take", "snapshot", "write", "announce",
                     "restore", "refresh", "broadcast"}
        /\ c.at = "idle" <=> c = Quiet
        /\ c.at \in {"snapshot", "write", "announce"} <=> c \in Calls
        /\ c \in Calls => c.to \in Argument
        /\ c.at \in {"restore", "refresh", "broadcast"} <=> c \in Restores
        /\ c \in Restores => c.from \in Kept
    BY <1>1, <1>2, <1>3, <1>4, <1>5
  <1> QED BY <1>6 DEF c

\* No step changes which input it is, nor with it what may drive it.
LEMMA KindStays ==
    [DrivesNext]_driveVars =>
        /\ kind' = kind /\ Shapes' = Shapes /\ Source' = Source
        /\ Argument' = Argument /\ Kept' = Kept /\ Calls' = Calls /\ Restores' = Restores
  <1> SUFFICES ASSUME [DrivesNext]_driveVars
               PROVE  /\ kind' = kind /\ Shapes' = Shapes /\ Source' = Source
                      /\ Argument' = Argument /\ Kept' = Kept /\ Calls' = Calls
                      /\ Restores' = Restores
    OBVIOUS
  <1>1. kind' = kind
    BY DEF DrivesNext, driveVars, SetMeterPower, ClearMeterPower, SetMeterReactivePower,
           SetMeterPowerFactor, ClearMeterReactive, SetSolarSunlight, ClearSolarSunlight,
           SetBoilerDemand, PlugEv, UnplugEv, SetBatterySoc, ApplyDrive, AskDrive, Snapshot,
           WriteDrive, Announce, Start, StartAfresh, Stop, Take, Restore, StopRefresh,
           BroadcastRestored, RefreshInputs, Rebind, Charge, Fetch
  <1>2. Shapes' = Shapes
    BY <1>1 DEF Shapes
  <1>3. Source' = Source
    BY <1>2 DEF Source
  <1>4. Argument' = Argument /\ Kept' = Kept
    BY <1>1, <1>3 DEF Argument, Kept
  <1> QED BY <1>1, <1>2, <1>3, <1>4 DEF Calls, Restores

\* What the doors may ask for.
Asking(d, s) ==
    /\ s \in Argument
    /\ d = "http" => s.shape # "lisp"
    /\ s.shape = "lisp" => s = Expression
    /\ s.shape = "soc" => kind = "Ev"

LEMMA NumbersAreSources ==
    ASSUME kind \in Kinds
    PROVE  /\ kind # "Ev" => Numbers \subseteq Source /\ Expression \in Source
           /\ kind = "Ev" => Cars \subseteq Source
           /\ kind = "MeterReactive" => Factors \subseteq Source
           /\ kind # "BoilerDemand" => Free \in Source
           /\ \A s \in Numbers : s.shape = "number"
           /\ \A s \in Factors : s.shape = "factor"
           /\ \A s \in Cars : s.shape = "car"
  <1>1. kind \in Kinds /\ Values[kind] \subseteq Int /\ 0..Top \subseteq Int /\ 1..Top \subseteq Int
    BY DrivesAssumption DEF Kinds
  <1>2. kind # "Ev" => "number" \in Shapes /\ "lisp" \in Shapes
    BY <1>1 DEF Shapes, Kinds, Meters
  <1>3. kind = "Ev" => "car" \in Shapes
    BY <1>1 DEF Shapes, Kinds, Meters
  <1>4. kind = "MeterReactive" => "factor" \in Shapes
    BY <1>1 DEF Shapes, Kinds, Meters
  <1>5. kind # "BoilerDemand" => "free" \in Shapes
    BY <1>1 DEF Shapes, Kinds, Meters
  <1>6. kind # "Ev" => Numbers \subseteq Source /\ Expression \in Source
    BY <1>1, <1>2, IsSource DEF Numbers, Number, Expression, Expr
  <1>7. kind = "Ev" => Cars \subseteq Source
    BY <1>1, <1>3, IsSource DEF Cars, Car
  <1>8. kind = "MeterReactive" => Factors \subseteq Source
    BY <1>1, <1>4, IsSource DEF Factors, Factor
  <1>9. kind # "BoilerDemand" => Free \in Source
    BY <1>5 DEF Source, Free
  <1>10. /\ \A s \in Numbers : s.shape = "number"
         /\ \A s \in Factors : s.shape = "factor"
         /\ \A s \in Cars : s.shape = "car"
    BY DEF Numbers, Number, Factors, Factor, Cars, Car
  <1> QED BY <1>6, <1>7, <1>8, <1>9, <1>10

\* Every defun and the drive route ask for what the input may be driven with.
LEMMA DoorsAskWell ==
    ASSUME DrivesTypeOK,
           \/ SetMeterPower \/ ClearMeterPower \/ SetMeterReactivePower
           \/ SetMeterPowerFactor \/ ClearMeterReactive
           \/ SetSolarSunlight \/ ClearSolarSunlight \/ SetBoilerDemand
           \/ PlugEv \/ UnplugEv \/ SetBatterySoc \/ ApplyDrive
    PROVE  \E d \in Doors : \E s : AskDrive(d, s) /\ Asking(d, s)
  <1>1. /\ "lisp" \in Doors /\ "http" \in Doors
        /\ Source \subseteq Argument /\ Wrong \in Argument
        /\ Wrong.shape = "wrong" /\ Expression.shape = "lisp" /\ Free.shape = "free"
    BY DEF Doors, Argument, Wrong, Expression, Expr, Free
  <1>2. Socs \subseteq Argument /\ \A s \in Socs : s.shape = "soc"
    <2>1. 0..Top \subseteq Int
      BY DrivesAssumption
    <2> QED BY <2>1 DEF Socs, Soc, Argument
  <1>a. kind \in Kinds
    BY DEF DrivesTypeOK
  <1>3. ASSUME kind # "Ev", NEW s \in Numbers \cup {Expression, Wrong} PROVE Asking("lisp", s)
    BY <1>1, <1>3, <1>a, NumbersAreSources DEF Asking
  <1>4. ASSUME kind # "BoilerDemand", NEW d \in Doors PROVE Asking(d, Free)
    BY <1>1, <1>4, <1>a, NumbersAreSources DEF Asking
  <1>5. ASSUME kind = "MeterReactive", NEW d \in Doors, NEW s \in Factors PROVE Asking(d, s)
    BY <1>1, <1>5, <1>a, NumbersAreSources DEF Asking
  <1>6. ASSUME kind = "Ev", NEW s \in Cars PROVE Asking("lisp", s)
    BY <1>1, <1>6, <1>a, NumbersAreSources DEF Asking
  <1>7. ASSUME kind = "Ev", NEW d \in Doors, NEW s \in Socs PROVE Asking(d, s)
    BY <1>1, <1>2, <1>7 DEF Asking
  <1>8. ASSUME kind # "Ev", NEW s \in Numbers PROVE Asking("http", s)
    BY <1>1, <1>8, <1>a, NumbersAreSources DEF Asking
  <1>9. CASE SetMeterPower \/ SetMeterReactivePower \/ SetSolarSunlight \/ SetBoilerDemand
    <2>1. kind # "Ev" /\ \E s \in Numbers \cup {Expression, Wrong} : AskDrive("lisp", s)
      BY <1>9 DEF SetMeterPower, SetMeterReactivePower, SetSolarSunlight, SetBoilerDemand
    <2> QED BY <2>1, <1>1, <1>3
  <1>10. CASE ClearMeterPower \/ ClearMeterReactive \/ ClearSolarSunlight \/ UnplugEv
    <2>1. kind # "BoilerDemand" /\ AskDrive("lisp", Free)
      BY <1>10 DEF ClearMeterPower, ClearMeterReactive, ClearSolarSunlight, UnplugEv
    <2> QED BY <2>1, <1>1, <1>4
  <1>11. CASE SetMeterPowerFactor
    BY <1>1, <1>5, <1>11 DEF SetMeterPowerFactor
  <1>12. CASE PlugEv
    BY <1>1, <1>6, <1>12 DEF PlugEv
  <1>13. CASE SetBatterySoc
    BY <1>1, <1>7, <1>13 DEF SetBatterySoc
  <1>14. CASE ApplyDrive
    <2>1. PICK s \in DriveFields : AskDrive("http", s)
      BY <1>14 DEF ApplyDrive
    <2>2. kind \in Kinds
      BY DEF DrivesTypeOK
    <2>3. Asking("http", s)
      BY <1>1, <1>4, <1>5, <1>7, <1>8, <2>1, <2>2 DEF DriveFields, Kinds
    <2> QED BY <1>1, <2>1, <2>3
  <1> QED BY <1>9, <1>10, <1>11, <1>12, <1>13, <1>14

-----------------------------------------------------------------------------
\* A reading shows its source.
LEMMA ReadingShows ==
    ASSUME NEW s \in Source, view = Reading(s)
    PROVE  Shows(s)
  <1>1. /\ TokenOf(s) \in Tokens /\ view[TokenOf(s)] = Shown(s)
        /\ s = Free => Shown(s) = Free
    BY DEF Reading, Blank, TokenOf, Tokens, Shown, Free
  <1>2. s = Free => view = Blank
    BY <1>1 DEF Reading, Blank
  <1>3. Shown(s).shape = s.shape /\ (s.shape # "lisp" => Shown(s) = s)
    BY DEF Shown, Expression, Expr
  <1> QED BY <1>1, <1>2, <1>3, SourceParts DEF Shows

LEMMA DrivesStart == DrivesInit => DrivesIInv
  <1> SUFFICES ASSUME DrivesInit PROVE DrivesIInv
    OBVIOUS
  <1>1. kind \in Kinds /\ slot \in Made /\ told = Built(slot)
    BY DEF DrivesInit
  <1>2. /\ Values[kind] \subseteq Int /\ 1..Top \subseteq Int
    BY <1>1, DrivesAssumption DEF Kinds
  <1>3. slot \in Source
    <2>1. slot \in Numbers \cup Factors \cup {Expression, Free}
          /\ (kind = "Ev" => slot = Free) /\ (kind = "BoilerDemand" => slot # Free)
          /\ (slot \in Factors /\ kind # "MeterReactive" => slot \in Numbers)
      BY <1>1 DEF Made, MadeMeter, MadeSolar, MadeBoiler, MadeCharger, Meters, Kinds,
                  Numbers, Number, Factors, Factor, Expression, Expr, Free
    <2> QED BY <1>1, <2>1, NumbersAreSources
  <1>4. told \in Source /\ (kind \in Meters /\ slot = Free => told = Free)
    <2>1. kind \in Meters => Free \in Source
      BY <1>1, NumbersAreSources DEF Meters
    <2> QED BY <1>1, <1>3, <2>1 DEF Built, MeterBuilt, Free
  <1>5. /\ reads = 0 /\ kept = Nothing /\ scenario = FALSE /\ asked = FALSE /\ crossed = FALSE
        /\ \A d \in Doors : call[d] = Quiet
        /\ call = [d \in Doors |-> Quiet] /\ view = Reading(slot)
    BY DEF DrivesInit
  <1>6. scenario \in BOOLEAN /\ asked \in BOOLEAN /\ crossed \in BOOLEAN
    BY Zenon, <1>5
  <1>7. view \in [Tokens -> Source \cup {Free, Expression}]
    BY <1>3, <1>5 DEF Reading, Blank, Shown
  <1>8. DrivesTypeOK
    BY <1>1, <1>3, <1>4, <1>5, <1>6, <1>7 DEF DrivesTypeOK
  <1>9. \A d \in Doors : call[d].at = "idle"
    BY <1>5 DEF Quiet
  <1>10. Quiet \notin Calls
    BY DEF Quiet, Calls
  <1>11. CallsAreAllowed /\ FreeWasToldNothing /\ RefreshedIsNow /\ RunWasAsked
    BY <1>4, <1>5, <1>9, <1>10
    DEF CallsAreAllowed, FreeWasToldNothing, RefreshedIsNow, RunWasAsked, Doors
  <1>12. OneDoorOwes
    <2>1. Shows(slot)
      BY <1>3, <1>5, <1>7, SourceParts, ReadingShows
    <2> QED BY <1>9, <2>1 DEF OneDoorOwes, Owes, Doors
  <1> QED BY <1>8, <1>11, <1>12 DEF DrivesIInv

\* A call changed at one door only.
LEMMA OneDoor ==
    ASSUME DrivesTypeOK, NEW d \in Doors, NEW c, call' = [call EXCEPT ![d] = c]
    PROVE  /\ call'[d] = c
           /\ \A e \in Doors \ {d} : call'[e] = call[e]
           /\ c \in {Quiet} \cup [at : {"start", "take"}] \cup Calls \cup Restores =>
                call' \in [Doors -> {Quiet} \cup [at : {"start", "take"}] \cup Calls \cup Restores]
  BY DEF DrivesTypeOK

\* A new call owes nothing before its write.
LEMMA AskingKeeps ==
    ASSUME DrivesIInv, [DrivesNext]_driveVars, NEW d \in Doors, NEW s, AskDrive(d, s), Asking(d, s)
    PROVE  DrivesIInv'
  <1> DEFINE c == [at |-> "snapshot", to |-> s]
  <1>0. /\ DrivesTypeOK /\ CallsAreAllowed /\ FreeWasToldNothing
        /\ OneDoorOwes /\ RefreshedIsNow /\ RunWasAsked
    BY DEF DrivesIInv
  <1>1. /\ call[d] = Quiet /\ call' = [call EXCEPT ![d] = c] /\ asked' = (kind = "Ev")
        /\ UNCHANGED <<kind, slot, told, reads, scenario, kept, view, crossed>>
    BY DEF AskDrive
  <1>2. c \in Calls /\ c.at = "snapshot" /\ c.to = s
    BY DEF Asking, Calls
  <1> HIDE DEF c
  <1>3. /\ call'[d] = c /\ \A e \in Doors \ {d} : call'[e] = call[e]
        /\ call' \in [Doors -> {Quiet} \cup [at : {"start", "take"}] \cup Calls \cup Restores]
    BY <1>0, <1>1, <1>2, OneDoor
  <1>4. asked' \in BOOLEAN
    BY <1>1
  <1>5. DrivesTypeOK'
    BY <1>0, <1>1, <1>3, <1>4, KindStays DEF DrivesTypeOK
  <1>6. CallsAreAllowed'
    BY <1>0, <1>1, <1>2, <1>3, KindStays DEF CallsAreAllowed, Asking, Doors
  <1>7. FreeWasToldNothing'
    BY <1>0, <1>1 DEF FreeWasToldNothing
  <1>8. call[d].at = "idle"
    BY <1>1 DEF Quiet
  <1>9. OneDoorOwes'
    BY <1>0, <1>1, <1>2, <1>3, <1>8 DEF OneDoorOwes, Owes, Shows, Doors
  <1>10. RefreshedIsNow'
    BY <1>0, <1>1, <1>2, <1>3, <1>8 DEF RefreshedIsNow, Doors
  <1>11. RunWasAsked'
    BY <1>1 DEF RunWasAsked
  <1> QED BY <1>5, <1>6, <1>7, <1>9, <1>10, <1>11 DEF DrivesIInv

LEMMA SnapshotKeeps ==
    ASSUME DrivesIInv, [DrivesNext]_driveVars, NEW d \in Doors, Snapshot(d)
    PROVE  DrivesIInv'
  <1> DEFINE c == IF call[d].to = Wrong THEN Quiet ELSE [call[d] EXCEPT !.at = "write"]
  <1>0. /\ DrivesTypeOK /\ CallsAreAllowed /\ FreeWasToldNothing
        /\ OneDoorOwes /\ RefreshedIsNow /\ RunWasAsked
    BY DEF DrivesIInv
  <1>1. /\ call[d].at = "snapshot" /\ call' = [call EXCEPT ![d] = c]
        /\ kept' = IF scenario /\ kept = Nothing THEN [source |-> slot, told |-> told] ELSE kept
        /\ UNCHANGED <<kind, slot, told, reads, scenario, view, asked, crossed>>
    BY DEF Snapshot, Done, To
  <1>2. call[d] \in Calls /\ call[d].to \in Argument
    BY <1>0, <1>1, CallParts
  <1>3. /\ c \in {Quiet} \cup Calls /\ c.at \in {"idle", "write"}
        /\ c \in Calls => c.to = call[d].to /\ c.to # Wrong /\ c.at = "write"
    BY <1>2 DEF Calls, Quiet
  <1> HIDE DEF c
  <1>4. /\ call'[d] = c /\ \A e \in Doors \ {d} : call'[e] = call[e]
        /\ call' \in [Doors -> {Quiet} \cup [at : {"start", "take"}] \cup Calls \cup Restores]
    BY <1>0, <1>1, <1>3, OneDoor
  <1>5. kept' \in Kept \cup {Nothing}
    BY <1>0, <1>1 DEF DrivesTypeOK, FreeWasToldNothing, Kept
  <1>6. DrivesTypeOK'
    BY <1>0, <1>1, <1>4, <1>5, KindStays DEF DrivesTypeOK
  <1>7. CallsAreAllowed'
    BY <1>0, <1>1, <1>2, <1>3, <1>4, KindStays DEF CallsAreAllowed, Doors
  <1>8. FreeWasToldNothing'
    BY <1>0, <1>1 DEF FreeWasToldNothing
  <1>9. OneDoorOwes'
    BY <1>0, <1>1, <1>3, <1>4 DEF OneDoorOwes, Owes, Shows, Doors
  <1>10. RefreshedIsNow'
    BY <1>0, <1>1, <1>3, <1>4 DEF RefreshedIsNow, Doors
  <1>11. RunWasAsked'
    BY <1>0, <1>1, <1>3, <1>4 DEF RunWasAsked, Doors
  <1> QED BY <1>6, <1>7, <1>8, <1>9, <1>10, <1>11 DEF DrivesIInv

\* What a write leaves in the slot, and of what the constructor was told.
LEMMA DrivenIs ==
    ASSUME DrivesIInv, NEW s \in Argument, s # Wrong, s.shape = "soc" => kind = "Ev", Driven(s)
    PROVE  /\ slot' \in Source /\ told' \in Source
           /\ kind \in Meters /\ slot' = Free => told' = Free
           /\ s.shape # "soc" => slot' = s
           /\ s.shape = "soc" => slot'.shape = slot.shape /\ slot.shape \in {"free", "car"}
  <1>0. slot \in Source /\ told \in Source /\ kind \in Kinds
    BY DEF DrivesIInv, DrivesTypeOK
  <1>1. s.shape # "soc" => s \in Source
    BY ArgumentParts
  <1>2. kind # "Ev" => slot' = s
    BY <1>0 DEF Driven, MeterDriven, SolarDriven, BoilerDriven, Kinds, Meters
  <1>3. kind \in Meters /\ slot' = Free => told' = Free
    BY <1>2 DEF Driven, MeterDriven, Meters
  <1>4. told' \in {told, Free} /\ (told' = told \/ s = Free)
    BY <1>0 DEF Driven, MeterDriven, SolarDriven, BoilerDriven, ChargerDriven, Kinds, Meters
  <1>5. CASE kind = "Ev"
    <2>1. slot' = IF s.shape # "soc" THEN s ELSE IF slot = Free THEN slot ELSE Car(s.value)
      BY <1>5 DEF Driven, ChargerDriven, Meters
    <2>2. slot.shape \in {"free", "car"} /\ (slot # Free => slot.shape = "car") /\ "car" \in Shapes
      BY <1>0, <1>5, SourceParts DEF Shapes, Meters
    <2>3. Car(s.value) \in Source /\ Car(s.value).shape = "car"
      BY <2>2, ArgumentParts, IsSource DEF Car
    <2> QED BY <1>0, <1>1, <1>4, <1>5, <2>1, <2>2, <2>3 DEF Meters, Free
  <1>6. CASE kind # "Ev"
    BY <1>0, <1>1, <1>2, <1>3, <1>4, <1>6 DEF Free
  <1> QED BY <1>5, <1>6

LEMMA DriveWriteKeeps ==
    ASSUME DrivesIInv, [DrivesNext]_driveVars, NEW d \in Doors, WriteDrive(d)
    PROVE  DrivesIInv'
  <1> DEFINE c == IF call[d].to.shape = "soc" THEN Quiet ELSE [call[d] EXCEPT !.at = "announce"]
             s == call[d].to
  <1>0. /\ DrivesTypeOK /\ CallsAreAllowed /\ FreeWasToldNothing
        /\ OneDoorOwes /\ RefreshedIsNow /\ RunWasAsked
    BY DEF DrivesIInv
  <1>1. /\ call[d].at = "write" /\ call' = [call EXCEPT ![d] = c] /\ Driven(s)
        /\ crossed' = (crossed \/ call[Other(d)] # Quiet)
        /\ UNCHANGED <<kind, reads, scenario, kept, view, asked>>
    BY DEF WriteDrive, Done, To
  <1>2. call[d] \in Calls /\ s \in Argument /\ s # Wrong
        /\ (s.shape = "soc" => kind = "Ev") /\ (d = "http" => s.shape # "lisp")
        /\ (s.shape = "lisp" => s = Expression)
    BY <1>0, <1>1, CallParts DEF CallsAreAllowed
  <1>3. /\ c \in {Quiet} \cup Calls /\ c.at \in {"idle", "announce"}
        /\ c \in Calls => c.to = s /\ c.at = "announce" /\ s.shape # "soc"
        /\ c.at = "announce" => c \in Calls
        /\ s.shape # "soc" => c.at = "announce"
    BY <1>2 DEF Calls, Quiet
  <1>a. /\ slot' \in Source /\ told' \in Source
        /\ kind \in Meters /\ slot' = Free => told' = Free
        /\ s.shape # "soc" => slot' = s
        /\ s.shape = "soc" => slot'.shape = slot.shape /\ slot.shape \in {"free", "car"}
    BY <1>1, <1>2, DrivenIs
  <1> HIDE DEF c, s
  <1>4. /\ call'[d] = c /\ \A e \in Doors \ {d} : call'[e] = call[e]
        /\ call' \in [Doors -> {Quiet} \cup [at : {"start", "take"}] \cup Calls \cup Restores]
    BY <1>0, <1>1, <1>3, OneDoor
  <1>5. crossed' \in BOOLEAN
    BY <1>1
  <1>6. DrivesTypeOK'
    BY <1>0, <1>1, <1>4, <1>5, <1>a, KindStays DEF DrivesTypeOK
  <1>7. CallsAreAllowed'
    BY <1>0, <1>1, <1>2, <1>3, <1>4, KindStays DEF CallsAreAllowed, Doors
  <1>8. FreeWasToldNothing'
    BY <1>1, <1>a DEF FreeWasToldNothing
  <1>9. OneDoorOwes'
    <2> SUFFICES ASSUME ~crossed' PROVE OneDoorOwes'
      BY DEF OneDoorOwes
    <2>1. ~crossed /\ \A e \in Doors \ {d} : call[e] = Quiet /\ call'[e] = Quiet
      BY <1>1, <1>4 DEF Doors, Other
    <2>2. \A e \in Doors \ {d} : call'[e].at = "idle" /\ call[e].at = "idle"
      BY <2>1 DEF Quiet
    <2>3. ~(Owes("lisp") /\ Owes("http"))'
      BY <2>2 DEF Owes, Doors
    <2>4. ASSUME \A e \in Doors : ~Owes(e)' PROVE Shows(slot)'
      <3>1. s.shape = "soc" /\ Shows(slot) /\ slot'.shape = slot.shape
        BY <1>0, <1>1, <1>3, <1>4, <1>a, <2>1, <2>2, <2>4 DEF Owes, OneDoorOwes, Doors
      <3>2. slot'.shape = slot.shape /\ slot.shape \in {"free", "car"} /\ (slot = Free <=> slot' = Free)
        BY <1>0, <1>a, <3>1, SourceParts, KindStays DEF DrivesTypeOK
      <3> QED BY <1>1, <3>1, <3>2 DEF Shows, TokenOf
    <2>5. \A e \in Doors : call'[e].at = "announce" =>
            /\ slot'.shape = call'[e].to.shape
            /\ slot'.shape # "car" => slot'.shape = "lisp" \/ slot' = call'[e].to
      BY <1>3, <1>4, <1>a, <2>2
    <2> QED BY <2>3, <2>4, <2>5 DEF OneDoorOwes
  <1>10. RefreshedIsNow'
    <2>1. slot'.shape = "lisp" /\ call'["lisp"].at = "broadcast" => FALSE
      <3>1. call'["lisp"].at = "broadcast" => d = "http"
        BY <1>3, <1>4 DEF Doors
      <3> QED BY <1>2, <1>a, <3>1
    <2> QED BY <2>1 DEF RefreshedIsNow
  <1>11. RunWasAsked'
    BY <1>0, <1>1, <1>3, <1>4 DEF RunWasAsked, Doors
  <1> QED BY <1>6, <1>7, <1>8, <1>9, <1>10, <1>11 DEF DrivesIInv

LEMMA AnnounceKeeps ==
    ASSUME DrivesIInv, [DrivesNext]_driveVars, NEW d \in Doors, Announce(d)
    PROVE  DrivesIInv'
  <1> DEFINE s == call[d].to
  <1>0. /\ DrivesTypeOK /\ CallsAreAllowed /\ FreeWasToldNothing
        /\ OneDoorOwes /\ RefreshedIsNow /\ RunWasAsked
    BY DEF DrivesIInv
  <1>1. /\ call[d].at = "announce" /\ call' = [call EXCEPT ![d] = Quiet]
        /\ view' = IF s = Free THEN Blank ELSE [view EXCEPT ![TokenOf(s)] = s]
        /\ UNCHANGED <<kind, slot, told, reads, scenario, kept, asked, crossed>>
    BY DEF Announce, Announced, Done
  <1>2. call[d] \in Calls /\ s \in Argument /\ s # Wrong /\ s.shape # "soc" /\ s \in Source
    BY <1>0, <1>1, CallParts, ArgumentParts DEF CallsAreAllowed
  <1>3. Quiet.at = "idle" /\ Quiet \notin Calls
    BY DEF Quiet, Calls
  <1>4. /\ call'[d] = Quiet /\ \A e \in Doors \ {d} : call'[e] = call[e]
        /\ call' \in [Doors -> {Quiet} \cup [at : {"start", "take"}] \cup Calls \cup Restores]
    BY <1>0, <1>1, OneDoor
  <1> HIDE DEF s
  <1>5. view' \in [Tokens -> Source \cup {Free, Expression}]
    BY <1>0, <1>1, <1>2 DEF DrivesTypeOK, Blank
  <1>6. DrivesTypeOK'
    BY <1>0, <1>1, <1>4, <1>5, KindStays DEF DrivesTypeOK
  <1>7. CallsAreAllowed'
    BY <1>0, <1>1, <1>3, <1>4, KindStays DEF CallsAreAllowed, Doors
  <1>8. FreeWasToldNothing'
    BY <1>0, <1>1 DEF FreeWasToldNothing
  <1>9. OneDoorOwes'
    <2> SUFFICES ASSUME ~crossed' PROVE OneDoorOwes'
      BY DEF OneDoorOwes
    <2>1. ~crossed /\ ~(Owes("lisp") /\ Owes("http")) /\ Owes(d)
          /\ slot.shape = s.shape /\ (slot.shape # "car" => slot.shape = "lisp" \/ slot = s)
      BY <1>0, <1>1 DEF OneDoorOwes, Owes, s
    <2>2. \A e \in Doors : ~Owes(e)'
      BY <1>3, <1>4, <2>1 DEF Owes, Doors
    <2>3. Shows(slot)'
      <3>1. TokenOf(slot) = TokenOf(s) /\ TokenOf(s) \in Tokens /\ (slot = Free <=> s = Free)
        BY <1>0, <1>2, <2>1, SourceParts DEF TokenOf, Tokens, DrivesTypeOK
      <3>2. view \in [Tokens -> Source \cup {Free, Expression}]
        BY <1>0 DEF DrivesTypeOK
      <3>3. s = Free => view' = Blank
        BY <1>1
      <3>4. s # Free => view'[TokenOf(s)] = s
        BY <1>1, <3>1, <3>2
      <3> QED BY <1>1, <2>1, <3>1, <3>3, <3>4 DEF Shows
    <2>4. \A e \in Doors : call'[e].at # "announce"
      BY <2>2 DEF Owes
    <2>5. ~(Owes("lisp") /\ Owes("http"))'
      BY <2>2 DEF Doors
    <2> QED BY <2>2, <2>3, <2>4, <2>5 DEF OneDoorOwes
  <1>10. RefreshedIsNow'
    BY <1>0, <1>1, <1>3, <1>4 DEF RefreshedIsNow, Doors
  <1>11. RunWasAsked'
    BY <1>0, <1>1, <1>3, <1>4 DEF RunWasAsked, Doors
  <1> QED BY <1>6, <1>7, <1>8, <1>9, <1>10, <1>11 DEF DrivesIInv

\* A scenario's steps are the interpreter's, between two of its calls.
LEMMA StartKeeps ==
    ASSUME DrivesIInv, [DrivesNext]_driveVars, Start \/ StartAfresh \/ Stop \/ Take
    PROVE  DrivesIInv'
  <1> DEFINE c == call'["lisp"]
  <1>0. /\ DrivesTypeOK /\ CallsAreAllowed /\ FreeWasToldNothing
        /\ OneDoorOwes /\ RefreshedIsNow /\ RunWasAsked
    BY DEF DrivesIInv
  <1>1. /\ UNCHANGED <<kind, slot, told, reads, view, crossed>>
        /\ call' = [call EXCEPT !["lisp"] = c]
        /\ call["lisp"].at \in {"idle", "start", "take"}
        /\ c \in {Quiet, [at |-> "start"], [at |-> "take"], [at |-> "restore", from |-> kept]}
        /\ c = [at |-> "restore", from |-> kept] =>
             call["lisp"].at = "take" /\ kept # Nothing /\ asked' = asked
        /\ kept' \in {kept, Nothing} /\ scenario' \in {scenario, TRUE, FALSE}
        /\ asked' = asked \/ asked' = (kind = "Ev" /\ call["http"] # Quiet)
        /\ kept' # Nothing => c.at = "start" \/ asked' = asked
        /\ kept' # Nothing => call["lisp"].at # "start"
    <2>1. Quiet.at = "idle" /\ call \in [Doors -> {Quiet} \cup [at : {"start", "take"}] \cup Calls \cup Restores]
      BY <1>0 DEF Quiet, DrivesTypeOK
    <2>2. CASE Start
      BY <2>1, <2>2 DEF Start, Doors
    <2>3. CASE StartAfresh
      BY <2>1, <2>3 DEF StartAfresh, Done, Doors
    <2>4. CASE Stop
      BY <2>1, <2>4 DEF Stop, Doors
    <2>5. CASE Take
      <3>1. /\ call["lisp"].at = "take" /\ kept' = Nothing
            /\ UNCHANGED <<kind, slot, told, reads, scenario, view, asked, crossed>>
            /\ call' = IF kept = Nothing THEN [call EXCEPT !["lisp"] = Quiet]
                       ELSE [call EXCEPT !["lisp"] = [at |-> "restore", from |-> kept]]
        BY <2>5 DEF Take, Done
      <3>2. /\ c = IF kept = Nothing THEN Quiet ELSE [at |-> "restore", from |-> kept]
            /\ call' = [call EXCEPT !["lisp"] = c]
        BY <2>1, <3>1 DEF Doors
      <3>3. Quiet # [at |-> "restore", from |-> kept]
        BY <2>1
      <3> HIDE DEF c
      <3> QED BY <3>1, <3>2, <3>3
    <2> QED BY <2>2, <2>3, <2>4, <2>5
  <1>3. Quiet.at = "idle" /\ Quiet \notin Calls
    BY DEF Quiet, Calls
  <1>4. /\ c \in {Quiet} \cup [at : {"start", "take"}] \cup Calls \cup Restores
        /\ c.at \in {"idle", "start", "take", "restore"} /\ c \notin Calls
        /\ c.at = "restore" => c = [at |-> "restore", from |-> kept]
    BY <1>0, <1>1, <1>3 DEF DrivesTypeOK, Restores, Calls
  <1> HIDE DEF c
  <1>5. /\ "lisp" \in Doors /\ "http" \in Doors /\ "lisp" # "http"
        /\ call'["lisp"] = c /\ call'["http"] = call["http"]
        /\ call' \in [Doors -> {Quiet} \cup [at : {"start", "take"}] \cup Calls \cup Restores]
    BY <1>0, <1>1, <1>4, OneDoor DEF Doors
  <1>6. kept' \in Kept \cup {Nothing}
    BY <1>0, <1>1 DEF DrivesTypeOK
  <1>7. scenario' \in BOOLEAN /\ asked' \in BOOLEAN
    BY <1>0, <1>1 DEF DrivesTypeOK
  <1>8. DrivesTypeOK'
    BY <1>0, <1>1, <1>5, <1>6, <1>7, KindStays DEF DrivesTypeOK
  <1>9. CallsAreAllowed'
    BY <1>0, <1>1, <1>4, <1>5, KindStays DEF CallsAreAllowed, Doors
  <1>10. FreeWasToldNothing'
    BY <1>0, <1>1 DEF FreeWasToldNothing
  <1>11. OneDoorOwes'
    BY <1>0, <1>1, <1>4, <1>5 DEF OneDoorOwes, Owes, Shows, Doors
  <1>12. RefreshedIsNow'
    BY <1>4, <1>5 DEF RefreshedIsNow
  <1>13. RunWasAsked'
    <2> SUFFICES ASSUME kind = "Ev" PROVE RunWasAsked'
      BY <1>1 DEF RunWasAsked
    <2>1. kept' # Nothing /\ c.at # "start" => asked'
      <3>1. kept' # Nothing /\ c.at # "start" => asked' = asked /\ kept # Nothing /\ call["lisp"].at # "start"
        BY <1>1
      <3> QED BY <1>0, <3>1 DEF RunWasAsked
    <2>2. c.at = "restore" => asked'
      BY <1>0, <1>1, <1>4 DEF RunWasAsked
    <2>3. call["http"].at \in {"snapshot", "write"} => asked'
      <3> SUFFICES ASSUME call["http"].at \in {"snapshot", "write"} PROVE asked'
        OBVIOUS
      <3>1. call["http"] # Quiet
        BY <1>3
      <3>2. asked
        BY <1>0, <1>5 DEF RunWasAsked
      <3> QED BY <1>1, <3>1, <3>2, Zenon
    <2> QED BY <1>1, <1>4, <1>5, <2>1, <2>2, <2>3 DEF RunWasAsked, Doors
  <1> QED BY <1>8, <1>9, <1>10, <1>11, <1>12, <1>13 DEF DrivesIInv

LEMMA RestoreKeeps ==
    ASSUME DrivesIInv, [DrivesNext]_driveVars, Restore
    PROVE  DrivesIInv'
  <1> DEFINE b == call["lisp"].from
             c == [call["lisp"] EXCEPT !.at = "refresh"]
  <1>0. /\ DrivesTypeOK /\ CallsAreAllowed /\ FreeWasToldNothing
        /\ OneDoorOwes /\ RefreshedIsNow /\ RunWasAsked
    BY DEF DrivesIInv
  <1>1. /\ call["lisp"].at = "restore" /\ slot' = b.source
        /\ told' = (IF kind \in Meters THEN b.told ELSE told)
        /\ crossed' = (crossed \/ call["http"] # Quiet)
        /\ call' = [call EXCEPT !["lisp"] = c]
        /\ UNCHANGED <<kind, reads, scenario, kept, view, asked>>
    BY DEF Restore, To
  <1>2. /\ call["lisp"] \in Restores /\ b \in Kept
        /\ "lisp" \in Doors /\ "http" \in Doors /\ "lisp" # "http"
    BY <1>0, <1>1, CallParts DEF Doors
  <1>3. c \in Restores /\ c.at = "refresh" /\ c \notin Calls
    BY <1>2 DEF Restores, Calls
  <1> HIDE DEF b, c
  <1>4. /\ call'["lisp"] = c /\ call'["http"] = call["http"]
        /\ call' \in [Doors -> {Quiet} \cup [at : {"start", "take"}] \cup Calls \cup Restores]
    BY <1>0, <1>1, <1>2, <1>3, OneDoor DEF Doors
  <1>5. slot' \in Source /\ told' \in Source /\ (kind \in Meters /\ slot' = Free => told' = Free)
    BY <1>0, <1>1, <1>2, KeptParts DEF DrivesTypeOK
  <1>6. crossed' \in BOOLEAN
    BY <1>1
  <1>7. DrivesTypeOK'
    BY <1>0, <1>1, <1>4, <1>5, <1>6, KindStays DEF DrivesTypeOK
  <1>8. CallsAreAllowed'
    BY <1>0, <1>1, <1>3, <1>4, KindStays DEF CallsAreAllowed, Doors
  <1>9. FreeWasToldNothing'
    BY <1>1, <1>5 DEF FreeWasToldNothing
  <1>10. OneDoorOwes'
    <2> SUFFICES ASSUME ~crossed' PROVE OneDoorOwes'
      BY DEF OneDoorOwes
    <2>0. call["http"] = Quiet
      BY <1>1
    <2>1. call'["http"] = Quiet /\ call'["http"].at = "idle"
      BY <1>4, <2>0 DEF Quiet
    <2> QED BY <1>2, <1>3, <1>4, <2>1 DEF OneDoorOwes, Owes, Doors
  <1>11. RefreshedIsNow'
    BY <1>3, <1>4 DEF RefreshedIsNow
  <1>12. RunWasAsked'
    BY <1>0, <1>1, <1>3, <1>4 DEF RunWasAsked, Doors
  <1> QED BY <1>7, <1>8, <1>9, <1>10, <1>11, <1>12 DEF DrivesIInv

\* A refresh leaves a source of the same shape, an expression at its value.
LEMMA RefreshedIs ==
    ASSUME DrivesTypeOK
    PROVE  /\ Refreshed(slot) \in Source /\ Refreshed(slot).shape = slot.shape
           /\ slot.shape # "lisp" => Refreshed(slot) = slot
           /\ slot.shape = "lisp" /\ reads # Nothing => Refreshed(slot).value = reads
  <1>1. slot \in Source /\ reads \in Int \cup {Nothing}
    BY DEF DrivesTypeOK
  <1>2. slot.shape = "lisp" /\ reads # Nothing => Expr(reads) \in Source
    BY <1>1, SourceParts, IsSource DEF Expr
  <1> QED BY <1>1, <1>2 DEF Refreshed, Expr

\* A source of another value and the same shape owes and shows the same.
LEMMA SameShapeShows ==
    ASSUME DrivesIInv, [DrivesNext]_driveVars, UNCHANGED <<view, crossed>>, slot' \in Source,
           slot'.shape = slot.shape, slot' = slot \/ slot.shape \in {"lisp", "car"},
           \A d \in Doors : Owes(d)' = Owes(d),
           \A d \in Doors : call'[d].at = "announce" => call'[d] = call[d]
    PROVE  OneDoorOwes'
  <1>1. OneDoorOwes /\ slot \in Source
    BY DEF DrivesIInv, DrivesTypeOK
  <1>2. "lisp" \in Doors /\ "http" \in Doors
    BY DEF Doors
  <1>3. slot = Free <=> slot' = Free
    BY <1>1, SourceParts
  <1>4. Shows(slot) => Shows(slot)'
    BY <1>3 DEF Shows, TokenOf
  <1>5. ~crossed => ~(Owes("lisp") /\ Owes("http"))'
    BY <1>1, <1>2 DEF OneDoorOwes
  <1>6. ~crossed /\ (\A d \in Doors : ~Owes(d)') => Shows(slot)'
    BY <1>1, <1>4 DEF OneDoorOwes
  <1>7. ASSUME ~crossed, NEW d \in Doors, call'[d].at = "announce"
        PROVE  /\ slot'.shape = call'[d].to.shape
               /\ slot'.shape # "car" => slot'.shape = "lisp" \/ slot' = call'[d].to
    BY <1>1, <1>7 DEF OneDoorOwes
  <1> QED BY <1>5, <1>6, <1>7 DEF OneDoorOwes

LEMMA RefreshKeeps ==
    ASSUME DrivesIInv, [DrivesNext]_driveVars, StopRefresh \/ RefreshInputs \/ Charge
    PROVE  DrivesIInv'
  <1>0. /\ DrivesTypeOK /\ CallsAreAllowed /\ FreeWasToldNothing
        /\ OneDoorOwes /\ RefreshedIsNow /\ RunWasAsked
    BY DEF DrivesIInv
  <1>1. /\ UNCHANGED <<kind, told, reads, scenario, kept, view, asked, crossed>>
        /\ slot' \in Source /\ slot'.shape = slot.shape
        /\ slot' = slot \/ slot.shape \in {"lisp", "car"}
    <2>1. CASE StopRefresh \/ RefreshInputs
      BY <1>0, <2>1, RefreshedIs DEF StopRefresh, RefreshInputs
    <2>2. CASE Charge
      <3>1. slot.value + 1 \in Int /\ "car" \in Shapes /\ slot.shape = "car"
        BY <1>0, <2>2, SourceParts DEF Charge, DrivesTypeOK
      <3> QED BY <2>2, <3>1, IsSource DEF Charge, Car
    <2> QED BY <2>1, <2>2
  <1>2. "lisp" \in Doors /\ "http" \in Doors /\ "lisp" # "http"
    BY DEF Doors
  <1>3. /\ call' \in [Doors -> {Quiet} \cup [at : {"start", "take"}] \cup Calls \cup Restores]
        /\ call'["http"] = call["http"] /\ (call'["lisp"] \notin Calls => call["lisp"] \notin Calls)
        /\ \/ call' = call
           \/ call["lisp"].at = "refresh" /\ call'["lisp"].at = "broadcast" /\ call'["lisp"] \notin Calls
              /\ StopRefresh
    <2>1. CASE StopRefresh
      <3> DEFINE c == [call["lisp"] EXCEPT !.at = "broadcast"]
      <3>1. call["lisp"].at = "refresh" /\ call' = [call EXCEPT !["lisp"] = c]
        BY <2>1 DEF StopRefresh, To
      <3>2. call["lisp"] \in Restores
        BY <1>0, <1>2, <3>1, CallParts
      <3>3. c \in Restores /\ c.at = "broadcast" /\ c \notin Calls /\ call["lisp"] \notin Calls
        BY <3>1, <3>2 DEF Restores, Calls
      <3> HIDE DEF c
      <3> QED BY <1>0, <1>2, <2>1, <3>1, <3>3, OneDoor
    <2>2. CASE RefreshInputs \/ Charge
      BY <1>0, <2>2 DEF RefreshInputs, Charge, DrivesTypeOK
    <2> QED BY <2>1, <2>2
  <1>4. DrivesTypeOK'
    BY <1>0, <1>1, <1>3, KindStays DEF DrivesTypeOK
  <1>5. CallsAreAllowed'
    BY <1>0, <1>1, <1>2, <1>3, KindStays DEF CallsAreAllowed, Doors
  <1>6. FreeWasToldNothing'
    <2>1. slot' = Free => slot = Free
      BY <1>0, <1>1, SourceParts DEF DrivesTypeOK
    <2> QED BY <1>0, <1>1, <2>1 DEF FreeWasToldNothing
  <1>7. OneDoorOwes'
    <2>1. \A d \in Doors : Owes(d)' = Owes(d)
      BY <1>2, <1>3 DEF Owes, Doors
    <2>2. \A d \in Doors : call'[d].at = "announce" => call'[d] = call[d]
      BY <1>2, <1>3 DEF Doors
    <2> QED BY <1>1, <2>1, <2>2, SameShapeShows
  <1>8. RefreshedIsNow'
    <2>1. CASE StopRefresh
      BY <1>0, <1>1, <2>1, RefreshedIs DEF StopRefresh, RefreshedIsNow
    <2>2. CASE RefreshInputs
      BY <2>2 DEF RefreshInputs, RefreshedIsNow, Quiet
    <2>3. CASE Charge
      BY <1>1, <2>3 DEF Charge, RefreshedIsNow
    <2> QED BY <2>1, <2>2, <2>3
  <1>9. RunWasAsked'
    BY <1>0, <1>1, <1>2, <1>3 DEF RunWasAsked, Doors
  <1> QED BY <1>4, <1>5, <1>6, <1>7, <1>8, <1>9 DEF DrivesIInv

LEMMA BroadcastKeeps ==
    ASSUME DrivesIInv, [DrivesNext]_driveVars, BroadcastRestored \/ Fetch
    PROVE  DrivesIInv'
  <1>0. /\ DrivesTypeOK /\ CallsAreAllowed /\ FreeWasToldNothing
        /\ OneDoorOwes /\ RefreshedIsNow /\ RunWasAsked
    BY DEF DrivesIInv
  <1>1. /\ UNCHANGED <<kind, slot, told, reads, scenario, kept, asked>>
        /\ view' = Reading(slot) /\ crossed' \in {crossed, FALSE}
        /\ call' = [call EXCEPT !["lisp"] = Quiet]
        /\ \/ Owes("lisp") /\ crossed' = crossed
           \/ call["lisp"] = Quiet /\ call["http"] = Quiet
    <2>1. CASE BroadcastRestored
      BY <2>1 DEF BroadcastRestored, Done, Owes
    <2>2. CASE Fetch
      <3>1. call["lisp"] = Quiet /\ call["http"] = Quiet /\ call' = call
        BY <2>2 DEF Fetch, Doors
      <3>2. call' = [call EXCEPT !["lisp"] = Quiet]
        BY <1>0, <3>1 DEF DrivesTypeOK
      <3> QED BY <2>2, <3>1, <3>2 DEF Fetch
    <2> QED BY <2>1, <2>2
  <1>2. "lisp" \in Doors /\ "http" \in Doors /\ "lisp" # "http"
    BY DEF Doors
  <1>3. Quiet.at = "idle" /\ Quiet \notin Calls
    BY DEF Quiet, Calls
  <1>4. /\ call'["lisp"] = Quiet /\ call'["http"] = call["http"]
        /\ call' \in [Doors -> {Quiet} \cup [at : {"start", "take"}] \cup Calls \cup Restores]
    BY <1>0, <1>1, <1>2, OneDoor
  <1>5. view' \in [Tokens -> Source \cup {Free, Expression}] /\ slot \in Source
    BY <1>0, <1>1 DEF Reading, Blank, Shown, DrivesTypeOK
  <1>6. crossed' \in BOOLEAN
    BY <1>0, <1>1 DEF DrivesTypeOK
  <1>7. DrivesTypeOK'
    BY <1>0, <1>1, <1>4, <1>5, <1>6, KindStays DEF DrivesTypeOK
  <1>8. CallsAreAllowed'
    BY <1>0, <1>1, <1>3, <1>4, KindStays DEF CallsAreAllowed, Doors
  <1>9. FreeWasToldNothing'
    BY <1>0, <1>1 DEF FreeWasToldNothing
  <1>10. OneDoorOwes'
    <2>1. Shows(slot)'
      <3>0. /\ TokenOf(slot) \in Tokens /\ view'[TokenOf(slot)] = Shown(slot)
            /\ slot = Free => Shown(slot) = Free
        BY <1>1 DEF Reading, Blank, TokenOf, Tokens, Shown, Free
      <3>1. slot = Free => view' = Blank
        BY <1>1, <3>0 DEF Reading, Blank
      <3>2. Shown(slot).shape = slot.shape /\ (slot.shape # "lisp" => Shown(slot) = slot)
        BY DEF Shown, Expression, Expr
      <3> QED BY <1>1, <3>0, <3>1, <3>2 DEF Shows
    <2> SUFFICES ASSUME ~crossed' PROVE OneDoorOwes'
      BY DEF OneDoorOwes
    <2>2. ~Owes("http")'
      BY <1>0, <1>1, <1>3, <1>4 DEF OneDoorOwes, Owes
    <2>3. ~Owes("lisp")'
      BY <1>3, <1>4 DEF Owes
    <2>4. \A d \in Doors : call'[d].at # "announce"
      BY <2>2, <2>3 DEF Owes, Doors
    <2> QED BY <2>1, <2>3, <2>4 DEF OneDoorOwes
  <1>11. RefreshedIsNow'
    BY <1>3, <1>4 DEF RefreshedIsNow
  <1>12. RunWasAsked'
    <2>1. call["lisp"].at # "start"
      BY <1>1, <1>3 DEF Owes
    <2> QED BY <1>0, <1>1, <1>3, <1>4, <2>1 DEF RunWasAsked, Doors
  <1> QED BY <1>7, <1>8, <1>9, <1>10, <1>11, <1>12 DEF DrivesIInv

LEMMA RebindKeeps ==
    ASSUME DrivesIInv, [DrivesNext]_driveVars, Rebind
    PROVE  DrivesIInv'
  <1>0. /\ DrivesTypeOK /\ CallsAreAllowed /\ FreeWasToldNothing
        /\ OneDoorOwes /\ RefreshedIsNow /\ RunWasAsked
    BY DEF DrivesIInv
  <1>1. /\ call["lisp"] = Quiet /\ reads' \in Int \cup {Nothing}
        /\ UNCHANGED <<kind, slot, told, scenario, kept, call, view, asked, crossed>>
    <2>1. 0..Top \subseteq Int
      BY DrivesAssumption
    <2> QED BY <2>1 DEF Rebind
  <1>2. DrivesTypeOK'
    BY <1>0, <1>1, KindStays DEF DrivesTypeOK
  <1>3. CallsAreAllowed' /\ FreeWasToldNothing' /\ RunWasAsked'
    BY <1>0, <1>1, KindStays DEF CallsAreAllowed, FreeWasToldNothing, RunWasAsked
  <1>4. OneDoorOwes'
    BY <1>0, <1>1 DEF OneDoorOwes, Owes, Shows
  <1>5. RefreshedIsNow'
    BY <1>1 DEF RefreshedIsNow, Quiet
  <1> QED BY <1>2, <1>3, <1>4, <1>5 DEF DrivesIInv

LEMMA DrivesKeep == DrivesIInv /\ [DrivesNext]_driveVars => DrivesIInv'
  <1> SUFFICES ASSUME DrivesIInv, [DrivesNext]_driveVars PROVE DrivesIInv'
    OBVIOUS
  <1>1. CASE UNCHANGED driveVars
    <2>1. UNCHANGED <<kind, slot, told, reads, scenario, kept, call, view, asked, crossed>>
      BY <1>1 DEF driveVars
    <2>2. /\ DrivesTypeOK /\ CallsAreAllowed /\ FreeWasToldNothing
          /\ OneDoorOwes /\ RefreshedIsNow /\ RunWasAsked
      BY DEF DrivesIInv
    <2>3. DrivesTypeOK'
      BY <2>1, <2>2, KindStays DEF DrivesTypeOK
    <2>4. CallsAreAllowed' /\ FreeWasToldNothing' /\ RunWasAsked' /\ RefreshedIsNow'
      BY <2>1, <2>2, KindStays DEF CallsAreAllowed, FreeWasToldNothing, RunWasAsked, RefreshedIsNow
    <2>5. OneDoorOwes'
      BY <2>1, <2>2 DEF OneDoorOwes, Owes, Shows
    <2> QED BY <2>3, <2>4, <2>5 DEF DrivesIInv
  <1>2. CASE \/ SetMeterPower \/ ClearMeterPower \/ SetMeterReactivePower
             \/ SetMeterPowerFactor \/ ClearMeterReactive
             \/ SetSolarSunlight \/ ClearSolarSunlight \/ SetBoilerDemand
             \/ PlugEv \/ UnplugEv \/ SetBatterySoc \/ ApplyDrive
    <2>1. DrivesTypeOK
      BY DEF DrivesIInv
    <2>2. \E d \in Doors : \E s : AskDrive(d, s) /\ Asking(d, s)
      BY <1>2, <2>1, DoorsAskWell
    <2> QED BY <2>2, AskingKeeps
  <1>3. CASE \E d \in Doors : Snapshot(d) \/ WriteDrive(d) \/ Announce(d)
    BY <1>3, SnapshotKeeps, DriveWriteKeeps, AnnounceKeeps
  <1>4. CASE Start \/ StartAfresh \/ Stop \/ Take
    BY <1>4, StartKeeps
  <1>5. CASE Restore
    BY <1>5, RestoreKeeps
  <1>6. CASE StopRefresh \/ RefreshInputs \/ Charge
    BY <1>6, RefreshKeeps
  <1>7. CASE BroadcastRestored \/ Fetch
    BY <1>7, BroadcastKeeps
  <1>8. CASE Rebind
    BY <1>8, RebindKeeps
  <1> QED BY <1>1, <1>2, <1>3, <1>4, <1>5, <1>6, <1>7, <1>8 DEF DrivesNext

\* The invariant of the driven inputs holds however the doors' calls, the
\* scenario's steps and the physics interleave.
THEOREM DrivesAreSound == DrivesSpec => []DrivesIInv
  BY DrivesStart, DrivesKeep, PTL DEF DrivesSpec

\* A save that reports nothing lost, loaded, drives a component exactly if it
\* was driven, for any numbers and whatever was called before
\* (has_unrenderable_source and constructor_kwargs of meter.rs,
\* solar_inverter.rs, steam_boiler.rs).
THEOREM SavesComeBackDriven == DrivesSpec => []SavesRoundTrip
  <1>1. DrivesIInv => SavesRoundTrip
    <2> SUFFICES ASSUME DrivesIInv, kind # "Ev", ~HasUnrenderableSource
                 PROVE  Reloaded = Free <=> slot = Free
      BY DEF SavesRoundTrip
    <2>1. slot \in Source /\ told \in Source /\ kind \in Kinds
          /\ (kind \in Meters /\ slot = Free => told = Free)
      BY DEF DrivesIInv, DrivesTypeOK, FreeWasToldNothing
    <2>2. CASE kind \in Meters
      <3>1. Reloaded = told /\ ~(told = Free /\ slot # Free)
        BY <2>2 DEF Reloaded, MeterKwarg, HasUnrenderableSource, MeterUnrenderable, Meters
      <3> QED BY <2>1, <2>2, <3>1
    <2>3. CASE kind = "Sunlight"
      <3>1. /\ Reloaded = IF told.shape = "number" /\ slot # Free THEN told ELSE Free
            /\ slot # Free => told.shape # "lisp" /\ slot.shape # "lisp" /\ told # Free
        BY <2>3 DEF Reloaded, SolarKwarg, HasUnrenderableSource, SolarUnrenderable, Meters
      <3>2. told.shape \in {"free", "number", "lisp"} /\ (told.shape = "free" <=> told = Free)
        BY <2>1, <2>3, SourceParts DEF Shapes, Meters
      <3> QED BY <3>1, <3>2
    <2>4. CASE kind = "BoilerDemand"
      <3>1. Reloaded = IF told.shape = "number" THEN told ELSE Number(0)
        BY <2>4 DEF Reloaded, BoilerKwarg, Meters
      <3>2. slot.shape \in {"number", "lisp"} /\ Free.shape = "free" /\ Number(0).shape = "number"
        BY <2>1, <2>4, SourceParts DEF Shapes, Meters, Free, Number
      <3> QED BY <3>1, <3>2
    <2> QED BY <2>1, <2>2, <2>3, <2>4 DEF Kinds, Meters
  <1> QED BY <1>1, DrivesAreSound, PTL

\* The client shows the source in force once the doors are quiet unless two
\* calls overlapped, a stop announces an expression's value of now, and only
\* cars its run acted on are wound back (events.rs:134-161,
\* scenarios.rs:316-330, load_drivers.rs:621-627).
THEOREM DriversAreTold == DrivesSpec => ClientsAreTold
  <1>1. DrivesIInv => ClientsHear
    <2> SUFFICES ASSUME DrivesIInv, \A d \in Doors : call[d] = Quiet, ~crossed PROVE Shows(slot)
      BY DEF ClientsHear, Shows
    <2>1. \A d \in Doors : ~Owes(d)
      BY DEF Owes, Quiet
    <2> QED BY <2>1 DEF DrivesIInv, OneDoorOwes
  <1>2. DrivesIInv =>
            (call["lisp"].at = "broadcast" /\ call'["lisp"] = Quiet /\ slot.shape = "lisp"
                /\ reads # Nothing => slot.value = reads)
    BY DEF DrivesIInv, RefreshedIsNow
  <1>3. DrivesIInv => (call["lisp"].at = "restore" /\ kind = "Ev" /\ slot' # slot => asked)
    BY DEF DrivesIInv, RunWasAsked
  <1> QED BY <1>1, <1>2, <1>3, DrivesAreSound, PTL DEF ClientsAreTold, StopTellsNow, RewindsOnlyAsked

-----------------------------------------------------------------------------
(* The weather                                                              *)

Doing == {Resting, [at |-> "answering"]} \cup Updating
             \cup [at : {"installed"}, cloud : {0} \cup Lengths]

\* A patch leaves what it does not carry.
LEMMA PatchedParts ==
    ASSUME NEW settings \in Settings, NEW patch \in Patches
    PROVE  /\ Patched(settings, patch) \in Settings
           /\ DOMAIN settings = {"sunrise", "sunset", "clouds"}
           /\ \A f \in DOMAIN settings \ DOMAIN patch : Patched(settings, patch)[f] = settings[f]
  <1>1. DOMAIN settings = {"sunrise", "sunset", "clouds"}
    BY DEF Settings
  <1>2. settings.sunrise \in Int /\ settings.sunset \in Int /\ settings.clouds \in BOOLEAN
    BY DEF Settings
  <1>3. \A f \in DOMAIN patch : patch[f] \in IF f = "clouds" THEN BOOLEAN ELSE Int
    BY WeatherAssumption
  <1> DEFINE p == [f \in DOMAIN settings |-> IF f \in DOMAIN patch THEN patch[f] ELSE settings[f]]
  <1>4. /\ p["sunrise"] \in Int /\ p["sunset"] \in Int /\ p["clouds"] \in BOOLEAN
        /\ DOMAIN p = {"sunrise", "sunset", "clouds"}
        /\ p = [f \in {"sunrise", "sunset", "clouds"} |-> p[f]]
    BY <1>1, <1>2, <1>3
  <1>5. p = [sunrise |-> p["sunrise"], sunset |-> p["sunset"], clouds |-> p["clouds"]]
    BY <1>4
  <1>6. p \in Settings
    BY <1>4, <1>5 DEF Settings
  <1> QED BY <1>1, <1>6 DEF Patched

LEMMA DefaultsType == Defaults \in Settings /\ DayHasLength(Defaults)
  BY DEF Defaults, Settings, DayHasLength

\* What a door does is told apart by where it is.
LEMMA DoingParts ==
    ASSUME NEW r \in Doing
    PROVE  /\ r.at = "read" <=> r \in Updating
           /\ r.at = "installed" <=> r \in [at : {"installed"}, cloud : {0} \cup Lengths]
           /\ r.at = "answering" <=> r = [at |-> "answering"]
           /\ r.at = "idle" <=> r = Resting
  BY DEF Doing, Updating, Resting

LEMMA SkyParts ==
    ASSUME NEW s \in Sky \cup {NoSky}
    PROVE  /\ s.there \in BOOLEAN
           /\ s.there <=> s \in Sky
           /\ ~s.there <=> s = NoSky
  <1>1. CASE s \in Sky
    <2>1. s.there = TRUE
      BY <1>1 DEF Sky
    <2>2. NoSky.there = FALSE
      BY DEF NoSky
    <2> QED BY <1>1, <2>1, <2>2
  <1>2. CASE s = NoSky
    <2>1. s.there = FALSE
      BY <1>2 DEF NoSky
    <2>2. s \notin Sky
      BY <2>1 DEF Sky
    <2> QED BY <1>2, <2>1, <2>2
  <1> QED BY <1>1, <1>2

Has(s, settings, events, anchor, arrival) ==
    /\ s \in Sky /\ s.settings = settings /\ s.events = events
    /\ s.anchor = anchor /\ s.arrival = arrival

\* A sky of the parts it is made of.
LEMMA SkyOf ==
    ASSUME NEW s \in Sky, NEW settings \in Settings, NEW events \in SUBSET Clouds,
           NEW anchor \in Nat \cup {Never}, NEW arrival \in Nat \cup {Never}
    PROVE  /\ Has([s EXCEPT !.settings = settings], settings, s.events, s.anchor, s.arrival)
           /\ Has([s EXCEPT !.events = events], s.settings, events, s.anchor, s.arrival)
           /\ Has([s EXCEPT !.events = events, !.anchor = anchor, !.arrival = arrival],
                  s.settings, events, anchor, arrival)
           /\ Has(New(settings), settings, {}, Never, Never)
  <1> DEFINE u1 == [s EXCEPT !.settings = settings]
             u2 == [s EXCEPT !.events = events]
             u3 == [s EXCEPT !.events = events, !.anchor = anchor, !.arrival = arrival]
  <1>1. u1 \in Sky
    BY DEF Sky
  <1>2. u2 \in Sky
    BY DEF Sky
  <1>3. u3 \in Sky
    BY DEF Sky
  <1>4. New(settings) \in Sky
    BY DEF Sky, New
  <1>5. DOMAIN s = {"there", "settings", "events", "anchor", "arrival"}
    BY DEF Sky
  <1>6. /\ u1.settings = settings /\ u1.events = s.events /\ u1.anchor = s.anchor
        /\ u1.arrival = s.arrival
    BY <1>5
  <1>7. /\ u2.settings = s.settings /\ u2.events = events /\ u2.anchor = s.anchor
        /\ u2.arrival = s.arrival
    BY <1>5
  <1>8. /\ u3.settings = s.settings /\ u3.events = events /\ u3.anchor = anchor
        /\ u3.arrival = arrival
    BY <1>5
  <1>9. /\ New(settings).settings = settings /\ New(settings).events = {}
        /\ New(settings).anchor = Never /\ New(settings).arrival = Never
    BY DEF New
  <1> QED BY <1>1, <1>2, <1>3, <1>4, <1>6, <1>7, <1>8, <1>9 DEF Has

-----------------------------------------------------------------------------
(* What a tick brings *)

\* Random clouds come after base and up to t, and the next one after t.
LEMMA CameParts ==
    ASSUME NEW base \in Nat, NEW t \in Nat, base <= t, NEW arrival \in Nat \cup {Never},
           arrival # Never => base < arrival,
           NEW a \in Came(arrival, base, t)
    PROVE  /\ a.came \subseteq Nat
           /\ \A start \in a.came : base < start /\ start <= t
           /\ a.next \in Nat /\ t < a.next
  <1> DEFINE firsts == IF arrival = Never THEN {base + 1, t + 1, t + 2} ELSE {arrival}
  <1>1. \A first \in firsts : first \in Nat /\ base < first
    BY DEF Never
  <1>2. PICK first \in firsts :
            a \in IF first > t THEN {[came |-> {}, next |-> first]} ELSE Times(first, t)
    BY DEF Came
  <1>3. first \in Nat /\ base < first
    BY <1>1
  <1> HIDE DEF firsts
  <1>4. CASE first > t
    BY <1>2, <1>3, <1>4
  <1>5. CASE ~(first > t)
    <2>1. PICK A \in SUBSET (first..t), n \in {t + 1, t + 2} : a = [came |-> A, next |-> n]
      BY <1>2, <1>5 DEF Times
    <2>2. a.came \subseteq first..t /\ a.next \in {t + 1, t + 2}
      BY <2>1
    <2>3. \A start \in first..t : start \in Nat /\ base < start /\ start <= t
      BY <1>3
    <2> QED BY <2>2, <2>3
  <1> QED BY <1>4, <1>5

\* Clouds come after the tick before, and none at the first tick.
LEMMA ArrivalsParts ==
    ASSUME NEW s \in Sky, NEW t \in Nat, ~(t < s.anchor),
           s.arrival # Never => s.anchor # Never /\ s.anchor < s.arrival,
           NEW a \in Arrivals(s, t)
    PROVE  /\ a.came \subseteq Nat
           /\ \A start \in a.came : s.anchor # Never /\ s.anchor < start /\ start <= t
           /\ a.next \in Nat \cup {Never}
           /\ a.next # Never => t < a.next
  <1>1. s.anchor \in Nat \cup {Never} /\ s.arrival \in Nat \cup {Never}
    BY DEF Sky
  <1> DEFINE leaps == s.anchor # Never /\ t - s.anchor > Hour
             base == IF s.anchor = Never \/ leaps THEN t ELSE s.anchor
             due == IF leaps THEN Never ELSE s.arrival
  <1>2. CASE ~s.settings.clouds
    <2>1. a = [came |-> {}, next |-> Never]
      BY <1>2 DEF Arrivals, WithoutClouds
    <2> QED BY <2>1
  <1>3. CASE s.settings.clouds
    <2>1. a \in Came(due, base, t)
      BY <1>3 DEF Arrivals
    <2>2. /\ base \in Nat /\ base <= t /\ due \in Nat \cup {Never}
          /\ due # Never => base < due
          /\ s.anchor = Never \/ leaps => base = t
          /\ base # t => s.anchor # Never /\ s.anchor = base
      BY <1>1, WeatherAssumption DEF Never
    <2> HIDE DEF leaps, base, due
    <2>3. /\ a.came \subseteq Nat
          /\ \A start \in a.came : base < start /\ start <= t
          /\ a.next \in Nat /\ t < a.next
      BY <2>1, <2>2, CameParts
    <2>4. \A start \in a.came : base # t
      BY <2>2, <2>3
    <2> QED BY <2>2, <2>3, <2>4
  <1> QED BY <1>2, <1>3

-----------------------------------------------------------------------------
(* The steps *)

\* Where a door is, and what it has read, survives another's crossing.
LEMMA CrossedParts ==
    ASSUME WeatherTypeOK, NEW d \in SkyDoors
    PROVE  /\ Crossed(d) \in [SkyDoors -> Doing]
           /\ Crossed(d)[d] = door[d]
           /\ \A e \in SkyDoors :
                /\ Crossed(d)[e].at = door[e].at
                /\ door[e].at # "read" => Crossed(d)[e] = door[e]
                /\ e # d /\ door[e].at = "read" =>
                     /\ Crossed(d)[e].crossed
                     /\ Crossed(d)[e].settings = door[e].settings
                     /\ Crossed(d)[e].patch = door[e].patch
  <1>1. \A e \in SkyDoors : door[e] \in Doing /\ (door[e].at = "read" => door[e] \in Updating)
    BY DoingParts DEF WeatherTypeOK, Doing
  <1>2. \A r \in Updating :
            LET c == [r EXCEPT !.crossed = TRUE]
            IN  /\ c \in Updating /\ c.at = r.at /\ c.crossed
                /\ c.settings = r.settings /\ c.patch = r.patch
    BY DEF Updating
  <1>3. Updating \subseteq Doing
    BY DEF Doing
  <1>4. \A e \in SkyDoors : Crossed(d)[e] =
            IF e # d /\ door[e].at = "read" THEN [door[e] EXCEPT !.crossed = TRUE] ELSE door[e]
    BY DEF Crossed
  <1>5. Crossed(d) = [e \in SkyDoors |-> Crossed(d)[e]]
    BY DEF Crossed
  <1>6. \A e \in SkyDoors : Crossed(d)[e] \in Doing
    BY <1>1, <1>2, <1>3, <1>4
  <1> QED BY <1>1, <1>2, <1>4, <1>5, <1>6

\* A reading that stands does so as long as there is a sky or none, with the
\* same settings; a crossed one stands whatever becomes of the sky.
LEMMA StillStands ==
    ASSUME NEW r, NEW s, NEW u, Stands(r, s), s.there <=> u.there,
           s.there => u.settings = s.settings
    PROVE  Stands(r, u)
  BY Zenon DEF Stands

LEMMA CrossedStands ==
    ASSUME NEW r, NEW q, NEW s, NEW u, Stands(r, s), q.crossed,
           q.settings = r.settings, q.patch = r.patch
    PROVE  Stands(q, u)
  BY Zenon DEF Stands, Installed

\* A sky that changes under a crossing leaves the readings standing.
LEMMA ReadingsSurvive ==
    ASSUME WeatherTypeOK, ReadingsStand, NEW d \in SkyDoors,
           \A e \in SkyDoors : e # d => door'[e] = Crossed(d)[e],
           door'[d].at # "read"
    PROVE  ReadingsStand'
  <1> SUFFICES ASSUME NEW e \in SkyDoors, (door[e].at = "read")'
               PROVE  Stands(door[e], sky)'
    BY DEF ReadingsStand
  <1>1. e # d /\ door'[e] = Crossed(d)[e]
    OBVIOUS
  <1>2. door[e].at = "read" /\ Stands(door[e], sky)
    BY <1>1, CrossedParts DEF ReadingsStand
  <1>3. /\ Crossed(d)[e].crossed /\ Crossed(d)[e].settings = door[e].settings
        /\ Crossed(d)[e].patch = door[e].patch
    BY <1>1, <1>2, CrossedParts
  <1>4. Stands(Crossed(d)[e], sky')
    BY <1>2, <1>3, CrossedStands
  <1> QED BY <1>1, <1>4

\* A cloud is known an hour longer than it lasts.
LEMMA AdvanceKeeps ==
    ASSUME WeatherIInv, NEW t \in Nat, Advance(t)
    PROVE  /\ sky' \in Sky \cup {NoSky} /\ passed' \subseteq Clouds
           /\ CloudsAreKnown' /\ ArrivalIsAhead'
           /\ sky.there <=> sky'.there
           /\ sky.there => sky'.settings = sky.settings
           /\ \A e \in passed' \ passed :
                sky.anchor # Never /\ sky.anchor < e.start /\ e.start <= t
  <1>1. /\ sky \in Sky \cup {NoSky} /\ passed \subseteq Clouds
        /\ CloudsAreKnown /\ ArrivalIsAhead /\ Hour \in Nat
    BY WeatherAssumption DEF WeatherIInv, WeatherTypeOK
  <1>2. CASE ~sky.there \/ t < sky.anchor
    <2>1. sky' = sky /\ passed' = passed
      BY <1>2 DEF Advance
    <2> QED BY <1>1, <2>1 DEF CloudsAreKnown, ArrivalIsAhead
  <1>3. CASE sky.there /\ ~(t < sky.anchor)
    <2>1. sky \in Sky
      BY <1>1, <1>3, SkyParts
    <2>a. PICK a \in Arrivals(sky, t) : \E length \in [a.came -> Lengths] :
            LET come == {Cloud(start, length[start]) : start \in a.came} IN
            /\ sky' = [sky EXCEPT !.events = Remembered(@ \cup come, t),
                                  !.anchor = t, !.arrival = a.next]
            /\ passed' = passed \cup come
      BY <1>3 DEF Advance
    <2>2. PICK length \in [a.came -> Lengths] :
            LET come == {Cloud(start, length[start]) : start \in a.came} IN
            /\ sky' = [sky EXCEPT !.events = Remembered(@ \cup come, t),
                                  !.anchor = t, !.arrival = a.next]
            /\ passed' = passed \cup come
      BY <2>a
    <2> DEFINE come == {Cloud(start, length[start]) : start \in a.came}
               events == Remembered(sky.events \cup come, t)
    <2>3. /\ a.came \subseteq Nat
          /\ \A start \in a.came : sky.anchor # Never /\ sky.anchor < start /\ start <= t
          /\ a.next \in Nat \cup {Never}
          /\ a.next # Never => t < a.next
      BY <1>1, <1>3, <2>1, ArrivalsParts DEF ArrivalIsAhead
    <2>4. \A e \in come : e \in Clouds /\ e.start \in a.came
      <3> SUFFICES ASSUME NEW start \in a.came
                   PROVE  /\ Cloud(start, length[start]) \in Clouds
                          /\ Cloud(start, length[start]).start = start
        OBVIOUS
      <3>1. length[start] \in Nat /\ start \in Nat
        BY <2>3, WeatherAssumption
      <3> QED BY <3>1 DEF Cloud, Clouds
    <2>5. sky.events \in SUBSET Clouds /\ sky.anchor \in Nat \cup {Never}
      BY <2>1 DEF Sky
    <2>6. events \in SUBSET Clouds
      BY <2>4, <2>5 DEF Remembered
    <2>7. sky' = [sky EXCEPT !.events = events, !.anchor = t, !.arrival = a.next]
          /\ passed' = passed \cup come
      BY <2>2
    <2> HIDE DEF come, events
    <2>8. /\ sky' \in Sky /\ sky'.events = events /\ sky'.anchor = t /\ sky'.arrival = a.next
          /\ sky'.settings = sky.settings
      <3>1. t \in Nat \cup {Never} /\ sky.settings \in Settings
        BY <2>1 DEF Sky
      <3>2. Has([sky EXCEPT !.events = events, !.anchor = t, !.arrival = a.next],
                sky.settings, events, t, a.next)
        BY <2>1, <2>3, <2>6, <3>1, SkyOf
      <3>3. Has(sky', sky.settings, events, t, a.next)
        BY <2>7, <3>2, Zenon
      <3> QED BY <3>3 DEF Has
    <2>9. ASSUME NEW e \in passed' PROVE Remains(e, sky')
      <3>1. e \in Clouds /\ (e \in come \/ Remains(e, sky))
        BY <1>1, <1>3, <2>4, <2>7 DEF CloudsAreKnown
      <3>2. e.end \in Nat /\ t # Never
        BY <3>1 DEF Clouds, Never
      <3>3. CASE e \in come \/ e \in sky.events
        <4>1. e \in events \/ e.end + Hour < t
          BY <1>1, <3>2, <3>3 DEF events, Remembered
        <4> QED BY <2>8, <3>2, <4>1 DEF Remains
      <3>4. CASE sky.anchor # Never /\ e.end + Hour < sky.anchor
        <4>1. e.end + Hour < t
          BY <1>1, <1>3, <2>5, <3>2, <3>4
        <4> QED BY <2>8, <3>2, <4>1 DEF Remains
      <3> QED BY <3>1, <3>3, <3>4 DEF Remains
    <2>10. sky'.there
      BY <2>8, SkyParts
    <2>11. CloudsAreKnown'
      BY <2>9 DEF CloudsAreKnown
    <2>12. ArrivalIsAhead'
      <3>1. t # Never
        BY DEF Never
      <3> QED BY <2>3, <2>8, <3>1 DEF ArrivalIsAhead
    <2>13. passed' \subseteq Clouds
      BY <1>1, <2>4, <2>7
    <2>14. ASSUME NEW e \in passed' \ passed
           PROVE  sky.anchor # Never /\ sky.anchor < e.start /\ e.start <= t
      <3>1. e.start \in a.came
        BY <2>4, <2>7
      <3> QED BY <2>3, <3>1
    <2> QED BY <1>3, <2>8, <2>10, <2>11, <2>12, <2>13, <2>14
  <1> QED BY <1>2, <1>3

\* A scripted cloud is known at once.
LEMMA PassKeeps ==
    ASSUME WeatherIInv, NEW length \in Lengths, Pass(length)
    PROVE  /\ sky' \in Sky \cup {NoSky} /\ passed' \subseteq Clouds
           /\ CloudsAreKnown' /\ ArrivalIsAhead'
           /\ sky.there <=> sky'.there
           /\ sky.there => sky'.settings = sky.settings
  <1>1. /\ sky \in Sky \cup {NoSky} /\ passed \subseteq Clouds /\ now \in Nat
        /\ CloudsAreKnown /\ ArrivalIsAhead /\ length \in Nat
    BY WeatherAssumption DEF WeatherIInv, WeatherTypeOK
  <1>2. CASE ~sky.there
    <2>1. sky' = sky /\ passed' = passed
      BY <1>2 DEF Pass
    <2> QED BY <1>1, <2>1 DEF CloudsAreKnown, ArrivalIsAhead
  <1>3. CASE sky.there
    <2>1. sky \in Sky
      BY <1>1, <1>3, SkyParts
    <2> DEFINE c == Overhead(length)
               events == sky.events \cup {c}
    <2>2. sky.events \in SUBSET Clouds /\ sky.anchor \in Nat \cup {Never}
      BY <2>1 DEF Sky
    <2>3. c \in Clouds
      BY <1>1, <2>2 DEF Overhead, Cloud, Clouds
    <2>4. sky' = [sky EXCEPT !.events = events] /\ passed' = passed \cup {c}
      BY <1>3 DEF Pass
    <2>5. events \in SUBSET Clouds
      BY <2>2, <2>3
    <2> HIDE DEF c
    <2>6. /\ sky' \in Sky /\ sky'.events = events /\ sky'.anchor = sky.anchor
          /\ sky'.arrival = sky.arrival /\ sky'.settings = sky.settings
      <3>1. Has([sky EXCEPT !.events = events], sky.settings, events, sky.anchor, sky.arrival)
        <4>1. sky.settings \in Settings /\ sky.arrival \in Nat \cup {Never}
          BY <2>1 DEF Sky
        <4> QED BY <2>1, <2>2, <2>5, <4>1, SkyOf
      <3>2. Has(sky', sky.settings, events, sky.anchor, sky.arrival)
        BY <2>4, <3>1, Zenon
      <3> QED BY <3>2 DEF Has
    <2>7. sky'.there
      BY <2>6, SkyParts
    <2>8. CloudsAreKnown'
      BY <1>1, <1>3, <2>4, <2>6 DEF CloudsAreKnown, Remains
    <2>9. ArrivalIsAhead'
      BY <1>1, <1>3, <2>6 DEF ArrivalIsAhead
    <2> QED BY <1>1, <1>3, <2>3, <2>4, <2>6, <2>7, <2>8, <2>9
  <1> QED BY <1>2, <1>3

\* A door that moves leaves the other where it is.
LEMMA DoorMoves ==
    ASSUME NEW f \in [SkyDoors -> Doing], NEW d \in SkyDoors, NEW v \in Doing
    PROVE  /\ [f EXCEPT ![d] = v] \in [SkyDoors -> Doing]
           /\ [f EXCEPT ![d] = v][d] = v
           /\ \A e \in SkyDoors : e # d => [f EXCEPT ![d] = v][e] = f[e]
  OBVIOUS

LEMMA DoorType == WeatherTypeOK <=>
    /\ now \in Nat /\ turns \in Nat /\ sky \in Sky \cup {NoSky} /\ passed \subseteq Clouds
    /\ door \in [SkyDoors -> Doing]
  BY DEF WeatherTypeOK, Doing

\* Readings stand while the sky keeps its settings and no door moves into one.
LEMMA ReadingsStay ==
    ASSUME ReadingsStand, sky.there <=> sky'.there, sky.there => sky'.settings = sky.settings,
           \A e \in SkyDoors : door'[e] = door[e] \/ door'[e].at # "read"
    PROVE  ReadingsStand'
  <1> SUFFICES ASSUME NEW e \in SkyDoors, (door[e].at = "read")'
               PROVE  Stands(door[e], sky)'
    BY DEF ReadingsStand
  <1>1. door'[e] = door[e] /\ door[e].at = "read"
    OBVIOUS
  <1>2. Stands(door[e], sky)
    BY <1>1 DEF ReadingsStand
  <1>3. Stands(door[e], sky')
    BY <1>2, StillStands
  <1> QED BY <1>1, <1>3

LEMMA TickHolds ==
    ASSUME WeatherIInv, NEW t, Tick(t)
    PROVE  WeatherIInv'
  <1>1. t \in Nat /\ now' = t /\ Advance(t) /\ door' = door /\ turns' = turns
    BY WeatherAssumption DEF Tick
  <1>2. /\ sky' \in Sky \cup {NoSky} /\ passed' \subseteq Clouds
        /\ CloudsAreKnown' /\ ArrivalIsAhead'
        /\ sky.there <=> sky'.there
        /\ sky.there => sky'.settings = sky.settings
    BY <1>1, AdvanceKeeps
  <1>3. WeatherTypeOK'
    BY <1>1, <1>2 DEF WeatherIInv, WeatherTypeOK
  <1>4. ReadingsStand'
    BY <1>1, <1>2, ReadingsStay DEF WeatherIInv
  <1>5. DaysHaveLength'
    BY <1>2 DEF WeatherIInv, DaysHaveLength
  <1> QED BY <1>2, <1>3, <1>4, <1>5 DEF WeatherIInv

\* A sky that is made anew holds nothing yet.
LEMMA NewSky ==
    ASSUME NEW settings \in Settings, DayHasLength(settings), sky' = New(settings), passed' = {}
    PROVE  /\ sky' \in Sky \cup {NoSky} /\ passed' \subseteq Clouds
           /\ CloudsAreKnown' /\ ArrivalIsAhead' /\ DaysHaveLength'
  <1>1. /\ sky'.settings = settings /\ sky'.arrival = Never
    BY DEF New
  <1>2. New(settings) \in Sky
    BY DEF New, Sky
  <1> QED BY <1>1, <1>2 DEF CloudsAreKnown, ArrivalIsAhead, DaysHaveLength

LEMMA MakeHolds ==
    ASSUME WeatherIInv, NEW patch \in Patches, MakeWeather(patch)
    PROVE  WeatherIInv'
  <1> DEFINE settings == Patched(Defaults, patch)
  <1>1. settings \in Settings /\ DayHasLength(settings)
    BY PatchedParts, DefaultsType DEF MakeWeather
  <1>2. /\ sky' = New(settings) /\ passed' = {} /\ door' = Crossed("lisp") /\ now' = now
        /\ turns' = turns + 1 /\ door["lisp"] = Resting
    BY DEF MakeWeather, Turn
  <1> HIDE DEF settings
  <1>3. /\ sky' \in Sky \cup {NoSky} /\ passed' \subseteq Clouds
        /\ CloudsAreKnown' /\ ArrivalIsAhead' /\ DaysHaveLength'
    BY <1>1, <1>2, NewSky
  <1>4. WeatherTypeOK /\ ReadingsStand /\ "lisp" \in SkyDoors
    BY DEF WeatherIInv, SkyDoors
  <1>5. WeatherTypeOK'
    <2>1. door' \in [SkyDoors -> Doing] /\ now \in Nat /\ turns \in Nat
      BY <1>2, <1>4, CrossedParts, DoorType
    <2> QED BY <1>2, <1>3, <2>1 DEF WeatherTypeOK, Doing
  <1>6. ReadingsStand'
    <2>1. door'["lisp"].at # "read"
      BY <1>2, <1>4, CrossedParts DEF Resting
    <2> QED BY <1>2, <1>4, <2>1, ReadingsSurvive
  <1> QED BY <1>3, <1>5, <1>6 DEF WeatherIInv

LEMMA ResetHolds ==
    ASSUME WeatherIInv, Reset
    PROVE  WeatherIInv'
  <1>1. /\ sky' = NoSky /\ passed' = {} /\ door' = Crossed("lisp") /\ now' = now
        /\ turns' = turns + 1 /\ door["lisp"] = Resting /\ ~NoSky.there
    BY DEF Reset, Turn, NoSky
  <1>2. WeatherTypeOK /\ ReadingsStand /\ "lisp" \in SkyDoors
    BY DEF WeatherIInv, SkyDoors
  <1>3. WeatherTypeOK'
    <2>1. door' \in [SkyDoors -> Doing] /\ now \in Nat /\ turns \in Nat
      BY <1>1, <1>2, CrossedParts, DoorType
    <2> QED BY <1>1, <2>1 DEF WeatherTypeOK, Doing
  <1>4. ReadingsStand'
    <2>1. door'["lisp"].at # "read"
      BY <1>1, <1>2, CrossedParts DEF Resting
    <2> QED BY <1>1, <1>2, <2>1, ReadingsSurvive
  <1> QED BY <1>1, <1>3, <1>4 DEF WeatherIInv, CloudsAreKnown, ArrivalIsAhead, DaysHaveLength

LEMMA PassCloudHolds ==
    ASSUME WeatherIInv, NEW length \in Lengths, PassCloud(length)
    PROVE  WeatherIInv'
  <1>1. Pass(length) /\ now' = now /\ door' = door /\ turns' = turns + 1
    BY DEF PassCloud, Turn
  <1>2. /\ sky' \in Sky \cup {NoSky} /\ passed' \subseteq Clouds
        /\ CloudsAreKnown' /\ ArrivalIsAhead'
        /\ sky.there <=> sky'.there
        /\ sky.there => sky'.settings = sky.settings
    BY <1>1, PassKeeps
  <1>3. WeatherTypeOK'
    BY <1>1, <1>2 DEF WeatherIInv, WeatherTypeOK
  <1>4. ReadingsStand'
    BY <1>1, <1>2, ReadingsStay DEF WeatherIInv
  <1>5. DaysHaveLength'
    BY <1>2 DEF WeatherIInv, DaysHaveLength
  <1> QED BY <1>2, <1>3, <1>4, <1>5 DEF WeatherIInv

LEMMA ReadHolds ==
    ASSUME WeatherIInv, NEW d \in SkyDoors, NEW patch \in Patches, NEW seed \in BOOLEAN,
           NEW cloud \in {0} \cup Lengths, ReadSky(d, patch, seed, cloud)
    PROVE  WeatherIInv'
  <1> DEFINE settings == IF sky.there THEN sky.settings ELSE Defaults
             r == [at |-> "read", existed |-> sky.there, settings |-> settings, patch |-> patch,
                   seed |-> seed, cloud |-> cloud, crossed |-> FALSE]
  <1>1. /\ DayHasLength(Patched(settings, patch)) /\ door' = [door EXCEPT ![d] = r]
        /\ now' = now /\ sky' = sky /\ passed' = passed /\ turns' = turns + 1
    BY DEF ReadSky, Turn
  <1>2. /\ WeatherTypeOK /\ ReadingsStand /\ sky \in Sky \cup {NoSky} /\ now \in Nat
        /\ turns \in Nat /\ door \in [SkyDoors -> Doing] /\ passed \subseteq Clouds
    BY DoorType DEF WeatherIInv
  <1>3. sky.there \in BOOLEAN /\ settings \in Settings
    BY <1>2, SkyParts, DefaultsType DEF Sky
  <1>4. r \in Updating /\ r.settings = settings /\ r.patch = patch
    BY <1>3 DEF Updating
  <1>5. ~r.crossed /\ (r.existed <=> sky.there) /\ (sky.there => r.settings = sky.settings)
    BY <1>3
  <1> HIDE DEF r
  <1>6. Stands(r, sky)
    BY <1>1, <1>4, <1>5 DEF Stands, Installed
  <1>7. /\ door' \in [SkyDoors -> Doing] /\ door'[d] = r
        /\ \A e \in SkyDoors : e # d => door'[e] = door[e]
    BY <1>1, <1>2, <1>4, DoorMoves DEF Doing
  <1>8. WeatherTypeOK'
    BY <1>1, <1>2, <1>7 DEF WeatherTypeOK, Doing
  <1>9. ReadingsStand'
    <2> SUFFICES ASSUME NEW e \in SkyDoors, (door[e].at = "read")'
                 PROVE  Stands(door[e], sky)'
      BY DEF ReadingsStand
    <2>1. CASE e = d
      BY <1>1, <1>6, <1>7, <2>1
    <2>2. CASE e # d
      BY <1>1, <1>2, <1>7, <2>2 DEF ReadingsStand
    <2> QED BY <2>1, <2>2
  <1> QED BY <1>1, <1>8, <1>9
          DEF WeatherIInv, CloudsAreKnown, ArrivalIsAhead, DaysHaveLength

LEMMA InstallHolds ==
    ASSUME WeatherIInv, NEW d \in SkyDoors, Install(d)
    PROVE  WeatherIInv'
  <1> DEFINE r == door[d]
             v == IF d = "lisp" THEN Resting ELSE [at |-> "installed", cloud |-> r.cloud]
  <1>1. /\ r.at = "read" /\ now' = now /\ turns' = turns
        /\ door' = [Crossed(d) EXCEPT ![d] = v]
        /\ \/ sky' = New(Installed(r)) /\ passed' = {}
           \/ sky.there /\ sky' = [sky EXCEPT !.settings = Installed(r)] /\ passed' = passed
           \/ sky' = sky /\ passed' = passed
    BY DEF Install
  <1>2. /\ WeatherTypeOK /\ ReadingsStand /\ sky \in Sky \cup {NoSky} /\ now \in Nat
        /\ turns \in Nat /\ door \in [SkyDoors -> Doing] /\ passed \subseteq Clouds
        /\ CloudsAreKnown /\ ArrivalIsAhead /\ DaysHaveLength
    BY DoorType DEF WeatherIInv
  <1>3. r \in Updating
    BY <1>1, <1>2, DoingParts
  <1>4. Installed(r) \in Settings /\ DayHasLength(Installed(r))
    <2>1. r.settings \in Settings /\ r.patch \in Patches
      BY <1>3 DEF Updating
    <2> QED BY <1>1, <1>2, <2>1, PatchedParts DEF ReadingsStand, Stands, Installed
  <1>5. v \in Doing /\ v.at # "read"
    <2>1. r.cloud \in {0} \cup Lengths
      BY <1>3 DEF Updating
    <2> QED BY <2>1 DEF Doing, Resting
  <1>6. /\ Crossed(d) \in [SkyDoors -> Doing]
    BY <1>2, CrossedParts
  <1> HIDE DEF v, r
  <1>7. /\ door' \in [SkyDoors -> Doing] /\ door'[d].at # "read"
        /\ \A e \in SkyDoors : e # d => door'[e] = Crossed(d)[e]
    BY <1>1, <1>5, <1>6, DoorMoves
  <1>8. ReadingsStand'
    BY <1>2, <1>7, ReadingsSurvive
  <1>9. CASE sky' = New(Installed(r)) /\ passed' = {}
    <2>1. /\ sky' \in Sky \cup {NoSky} /\ passed' \subseteq Clouds
          /\ CloudsAreKnown' /\ ArrivalIsAhead' /\ DaysHaveLength'
      BY <1>4, <1>9, NewSky
    <2>2. WeatherTypeOK'
      BY <1>1, <1>2, <1>7, <2>1 DEF WeatherTypeOK, Doing
    <2> QED BY <1>8, <2>1, <2>2 DEF WeatherIInv
  <1>10. CASE sky.there /\ sky' = [sky EXCEPT !.settings = Installed(r)] /\ passed' = passed
    <2>1. sky \in Sky
      BY <1>2, <1>10, SkyParts
    <2>2. sky.events \in SUBSET Clouds /\ sky.anchor \in Nat \cup {Never}
          /\ sky.arrival \in Nat \cup {Never}
      BY <2>1 DEF Sky
    <2>3. Has([sky EXCEPT !.settings = Installed(r)], Installed(r), sky.events, sky.anchor,
              sky.arrival)
      BY <1>4, <2>1, <2>2, SkyOf
    <2>4. Has(sky', Installed(r), sky.events, sky.anchor, sky.arrival)
      BY <1>10, <2>3, Zenon
    <2>5. WeatherTypeOK'
      BY <1>1, <1>2, <1>7, <1>10, <2>4 DEF WeatherTypeOK, Doing, Has
    <2>6. CloudsAreKnown' /\ ArrivalIsAhead' /\ DaysHaveLength'
      BY <1>2, <1>4, <1>10, <2>4
         DEF CloudsAreKnown, ArrivalIsAhead, DaysHaveLength, Remains, Has
    <2> QED BY <1>8, <2>5, <2>6 DEF WeatherIInv
  <1>11. CASE sky' = sky /\ passed' = passed
    <2>1. WeatherTypeOK'
      BY <1>1, <1>2, <1>7, <1>11 DEF WeatherTypeOK, Doing
    <2> QED BY <1>2, <1>8, <1>11, <2>1
            DEF WeatherIInv, CloudsAreKnown, ArrivalIsAhead, DaysHaveLength
  <1> QED BY <1>1, <1>9, <1>10, <1>11

LEMMA PostHolds ==
    ASSUME WeatherIInv, PostCloud \/ Answer
    PROVE  WeatherIInv'
  <1>1. /\ WeatherTypeOK /\ ReadingsStand /\ sky \in Sky \cup {NoSky} /\ now \in Nat
        /\ turns \in Nat /\ door \in [SkyDoors -> Doing] /\ passed \subseteq Clouds
        /\ CloudsAreKnown /\ ArrivalIsAhead /\ DaysHaveLength /\ "post" \in SkyDoors
    BY DoorType DEF WeatherIInv, SkyDoors
  <1>2. /\ now' = now /\ turns' = turns
        /\ \E v \in {Resting, [at |-> "answering"]} : door' = [door EXCEPT !["post"] = v]
    BY DEF PostCloud, Answer
  <1>3. PICK v \in {Resting, [at |-> "answering"]} : door' = [door EXCEPT !["post"] = v]
    BY <1>2
  <1>4. v \in Doing /\ v.at # "read"
    BY DEF Doing, Resting
  <1>5. /\ door' \in [SkyDoors -> Doing]
        /\ \A e \in SkyDoors : door'[e] = door[e] \/ door'[e].at # "read"
    BY <1>1, <1>3, <1>4, DoorMoves
  <1>6. /\ sky' \in Sky \cup {NoSky} /\ passed' \subseteq Clouds
        /\ CloudsAreKnown' /\ ArrivalIsAhead'
        /\ sky.there <=> sky'.there
        /\ sky.there => sky'.settings = sky.settings
    <2>1. CASE sky' = sky /\ passed' = passed
      BY <1>1, <2>1 DEF CloudsAreKnown, ArrivalIsAhead
    <2>2. CASE PostCloud /\ door["post"].cloud # 0
      <3>1. door["post"] \in [at : {"installed"}, cloud : {0} \cup Lengths]
        BY <1>1, <2>2, DoingParts DEF PostCloud
      <3>2. door["post"].cloud \in Lengths /\ Pass(door["post"].cloud)
        BY <2>2, <3>1 DEF PostCloud
      <3> QED BY <3>2, PassKeeps
    <2> QED BY <2>1, <2>2 DEF PostCloud, Answer
  <1>7. WeatherTypeOK'
    BY <1>1, <1>2, <1>5, <1>6 DEF WeatherTypeOK, Doing
  <1>8. ReadingsStand'
    BY <1>1, <1>5, <1>6, ReadingsStay
  <1>9. DaysHaveLength'
    BY <1>1, <1>6 DEF DaysHaveLength
  <1> QED BY <1>6, <1>7, <1>8, <1>9 DEF WeatherIInv

-----------------------------------------------------------------------------
(* The theorems *)

LEMMA WeatherInitHolds == WeatherInit => WeatherIInv
  <1> SUFFICES ASSUME WeatherInit PROVE WeatherIInv
    OBVIOUS
  <1>1. /\ now = 1 /\ sky = NoSky /\ passed = {} /\ turns = 0 /\ ~NoSky.there
        /\ door = [d \in SkyDoors |-> Resting]
    BY DEF WeatherInit, NoSky
  <1>2. WeatherTypeOK
    BY <1>1 DEF WeatherTypeOK
  <1>3. ReadingsStand
    BY <1>1 DEF ReadingsStand, Resting
  <1> QED BY <1>1, <1>2, <1>3 DEF WeatherIInv, CloudsAreKnown, ArrivalIsAhead, DaysHaveLength

LEMMA WeatherNextHolds == WeatherIInv /\ [WeatherNext]_weatherVars => WeatherIInv'
  <1> SUFFICES ASSUME WeatherIInv, [WeatherNext]_weatherVars PROVE WeatherIInv'
    OBVIOUS
  <1>1. CASE UNCHANGED weatherVars
    BY <1>1 DEF weatherVars, WeatherIInv, WeatherTypeOK, CloudsAreKnown, ArrivalIsAhead,
                ReadingsStand, DaysHaveLength
  <1>2. CASE WeatherNext
    BY <1>2, TickHolds, MakeHolds, ResetHolds, PassCloudHolds, ReadHolds, InstallHolds, PostHolds
       DEF WeatherNext
  <1> QED BY <1>1, <1>2

\* Whatever the interpreter and the posts do to a sky, its clouds, what is
\* pending and the readings under way stay as the invariant says.
THEOREM WeatherKeepsBooks == WeatherSpec => []WeatherIInv
  BY WeatherInitHolds, WeatherNextHolds, PTL DEF WeatherSpec

\* A cloud that was overhead an hour ago at most is not forgotten.
LEMMA SkyHolds == WeatherIInv => SkyIsSound
  <1> SUFFICES ASSUME WeatherIInv, sky.there
               PROVE  /\ DayHasLength(sky.settings)
                      /\ sky.anchor # Never =>
                           /\ \A e \in passed, lag \in 0..Hour :
                                  e.start <= sky.anchor - lag /\ sky.anchor - lag < e.end
                                      => e \in sky.events
                           /\ sky.arrival # Never => sky.arrival > sky.anchor
    BY DEF SkyIsSound
  <1>1. /\ sky \in Sky /\ passed \subseteq Clouds /\ \A e \in passed : Remains(e, sky)
        /\ ArrivalIsAhead /\ DayHasLength(sky.settings) /\ Hour \in Nat
    BY SkyParts, WeatherAssumption
       DEF WeatherIInv, WeatherTypeOK, CloudsAreKnown, DaysHaveLength
  <1>2. sky.anchor \in Nat \cup {Never} /\ sky.arrival \in Nat \cup {Never}
    BY <1>1 DEF Sky
  <1>3. ASSUME sky.anchor # Never, NEW e \in passed, NEW lag \in 0..Hour,
               sky.anchor - lag < e.end
        PROVE  e \in sky.events
    <2>1. e.end \in Nat /\ sky.anchor \in Nat
      BY <1>1, <1>2, <1>3 DEF Clouds
    <2>2. ~(e.end + Hour < sky.anchor)
      BY <1>1, <1>3, <2>1
    <2> QED BY <1>1, <2>2 DEF Remains
  <1>4. sky.anchor # Never /\ sky.arrival # Never => sky.arrival > sky.anchor
    BY <1>1, <1>2 DEF ArrivalIsAhead, Never
  <1> QED BY <1>1, <1>3, <1>4

LEMMA CloudsStep ==
    ASSUME WeatherIInv, [WeatherNext]_weatherVars, now' # now, NEW e \in passed' \ passed
    PROVE  sky.anchor # Never /\ sky.anchor < e.start /\ e.start <= now'
  <1>1. PICK t : Tick(t)
    BY DEF WeatherNext, weatherVars, MakeWeather, Reset, PassCloud, ReadSky, Install, PostCloud,
           Answer
  <1>2. t \in Nat /\ now' = t /\ Advance(t)
    BY <1>1, WeatherAssumption DEF Tick
  <1> QED BY <1>2, AdvanceKeeps

\* Only its own end moves a door out of a reading.
LEMMA LeavesReading ==
    ASSUME WeatherIInv, [WeatherNext]_weatherVars, NEW d \in SkyDoors,
           door[d].at = "read", door'[d].at # "read"
    PROVE  Install(d)
  <1>1. /\ WeatherTypeOK /\ door \in [SkyDoors -> Doing] /\ {"lisp", "post"} \subseteq SkyDoors
    BY DoorType DEF WeatherIInv, SkyDoors
  <1>2. CASE door' = door \/ \E e \in SkyDoors : door' = Crossed(e)
    BY <1>1, <1>2, CrossedParts
  <1>3. ASSUME NEW e \in SkyDoors, NEW v, door' = [door EXCEPT ![e] = v], e # d PROVE FALSE
    BY <1>1, <1>3
  <1>4. CASE \E e \in SkyDoors : Install(e)
    <2>1. PICK e \in SkyDoors : Install(e)
      BY <1>4
    <2>2. e # d => door'[d] = Crossed(e)[d]
      BY <1>1, <2>1, CrossedParts DEF Install
    <2>3. e = d
      BY <1>1, <2>2, CrossedParts
    <2> QED BY <2>1, <2>3
  <1>5. CASE \E e \in SkyDoors, patch \in Patches, seed \in BOOLEAN, cloud \in {0} \cup Lengths :
                 ReadSky(e, patch, seed, cloud)
    <2>1. PICK e \in SkyDoors, patch \in Patches, seed \in BOOLEAN, cloud \in {0} \cup Lengths :
                 ReadSky(e, patch, seed, cloud)
      BY <1>5
    <2>2. door[e] = Resting /\ \E v : door' = [door EXCEPT ![e] = v]
      BY <2>1 DEF ReadSky
    <2>3. e # d
      BY <2>2 DEF Resting
    <2> QED BY <1>3, <2>2, <2>3
  <1>6. CASE PostCloud \/ Answer
    <2>1. door["post"].at # "read" /\ \E v : door' = [door EXCEPT !["post"] = v]
      BY <1>6 DEF PostCloud, Answer
    <2> QED BY <1>1, <1>3, <2>1
  <1>7. CASE UNCHANGED weatherVars
    BY <1>7, <1>2 DEF weatherVars
  <1>8. CASE \/ \E t \in {now - 1, now + 1, now + Hour + 1} : Tick(t)
             \/ \E length \in Lengths : PassCloud(length)
    <2>1. door' = door
      BY <1>8 DEF Tick, PassCloud
    <2> QED BY <1>2, <2>1
  <1>9. CASE (\E patch \in Patches : MakeWeather(patch)) \/ Reset
    <2>1. door' = Crossed("lisp")
      BY <1>9 DEF MakeWeather, Reset
    <2> QED BY <1>1, <1>2, <2>1
  <1> QED BY <1>4, <1>5, <1>6, <1>7, <1>8, <1>9 DEF WeatherNext

\* What an update that nobody crossed writes differs in what it carries only.
LEMMA UpdatesStep ==
    ASSUME WeatherIInv, [WeatherNext]_weatherVars, NEW d \in SkyDoors,
           door[d].at = "read", door'[d].at # "read"
    PROVE  /\ door[d].existed /\ ~sky.there => ~sky'.there
           /\ sky.there /\ sky'.there /\ ~door[d].crossed =>
                  \A f \in DOMAIN sky.settings \ DOMAIN door[d].patch :
                      sky'.settings[f] = sky.settings[f]
  <1>1. Install(d)
    BY LeavesReading
  <1>2. /\ sky \in Sky \cup {NoSky} /\ Stands(door[d], sky) /\ door[d] \in Updating
    <2>1. door[d] \in Doing
      BY DoorType DEF WeatherIInv
    <2> QED BY <2>1, DoingParts DEF WeatherIInv, WeatherTypeOK, ReadingsStand
  <1>3. door[d].settings \in Settings /\ door[d].patch \in Patches /\ door[d].existed \in BOOLEAN
    BY <1>2 DEF Updating
  <1>4. ASSUME door[d].existed, ~sky.there PROVE ~sky'.there
    <2>1. sky' = sky
      BY <1>1, <1>4 DEF Install, Creates
    <2> QED BY <1>4, <2>1
  <1>5. ASSUME sky.there, ~door[d].crossed,
               NEW f \in DOMAIN sky.settings \ DOMAIN door[d].patch
        PROVE  sky'.settings[f] = sky.settings[f]
    <2>1. door[d].settings = sky.settings /\ sky \in Sky
      BY <1>2, <1>5, SkyParts DEF Stands
    <2>2. sky'.settings = Installed(door[d])
      <3>1. CASE sky' = New(Installed(door[d]))
        BY <3>1 DEF New
      <3>2. CASE sky' = [sky EXCEPT !.settings = Installed(door[d])]
        <4>1. DOMAIN sky = {"there", "settings", "events", "anchor", "arrival"}
          BY <2>1 DEF Sky
        <4> QED BY <3>2, <4>1
      <3> QED BY <1>1, <1>5, <3>1, <3>2 DEF Install
    <2>3. Patched(sky.settings, door[d].patch)[f] = sky.settings[f]
      BY <1>3, <1>5, <2>1, PatchedParts
    <2> QED BY <2>1, <2>2, <2>3 DEF Installed
  <1> QED BY <1>4, <1>5

\* The day has a length and no cloud is forgotten before its time; random
\* clouds come after the tick before, whatever the clock does; and an update
\* moves only what it carries, unless another door crossed it - for any hour,
\* any patches and any number of updates.
THEOREM SkiesAreSound == WeatherSpec => WeatherIsSound
  <1>1. WeatherIInv /\ [WeatherNext]_weatherVars =>
            (now' # now => \A e \in passed' \ passed :
                sky.anchor # Never /\ sky.anchor < e.start /\ e.start <= now')
    BY CloudsStep
  <1>2. WeatherIInv /\ [WeatherNext]_weatherVars =>
            (\A d \in SkyDoors : door[d].at = "read" /\ door'[d].at # "read" =>
                /\ door[d].existed /\ ~sky.there => ~sky'.there
                /\ sky.there /\ sky'.there /\ ~door[d].crossed =>
                       \A f \in DOMAIN sky.settings \ DOMAIN door[d].patch :
                           sky'.settings[f] = sky.settings[f])
    BY UpdatesStep
  <1>3. WeatherIInv => WeatherTypeOK /\ SkyIsSound
    BY SkyHolds DEF WeatherIInv
  <1> QED BY <1>1, <1>2, <1>3, WeatherKeepsBooks, PTL
          DEF WeatherSpec, WeatherIsSound, CloudsComeInTime, UpdatesArePartial
=============================================================================
