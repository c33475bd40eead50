--------------------------- MODULE ScenarioProofs ---------------------------
(***************************************************************************)
(* Theorems of module ScenarioRun, for any microgrids, any definitions that *)
(* a start may take, any client and however often a run is started,         *)
(* stepped, restored and disturbed.                                         *)
(***************************************************************************)
EXTENDS ScenarioRun, WellFoundedInduction, TLAPS

-----------------------------------------------------------------------------
(* The scenarios: what each operation leaves of a server                    *)

\* A non-empty set of naturals has a least member.
LEMMA LeastOf ==
    ASSUME NEW T \in SUBSET Nat, T # {}
    PROVE  \E m \in T : \A n \in T : m <= n
  <1> DEFINE R == OpToRel(<, Nat)
  <1>1. PICK m \in T : \A n \in T : ~(<<n, m>> \in R)
    BY NatLessThanWellFounded, WFMin
  <1>2. \A n \in T : ~(n < m)
    BY <1>1 DEF OpToRel
  <1> QED BY <1>2

\* The lowest of some microgrids is one of them.
LEMMA LowestShape ==
    ASSUME NEW ids \in SUBSET Mgs, ids # {}
    PROVE  Lowest(ids) \in ids /\ Lowest(ids) \in Mgs
  <1>1. ids \in SUBSET Nat
    BY RunsAssumption
  <1>2. \E id \in ids : \A other \in ids : id <= other
    BY <1>1, LeastOf
  <1> QED BY <1>2 DEF Lowest

Same(d, s) == d.registered = s.registered /\ d.time = s.time /\ d.defs = s.defs

LEMMA DriveShape ==
    ASSUME NEW s \in Server, NEW id \in Mgs, NEW value \in Nat, NEW d, d = DriveInput(s, id, value)
    PROVE  /\ d \in Server /\ Same(d, s)
           /\ d.journal = s.journal /\ d.timers = s.timers
           /\ \A i \in Mgs : i # id => d.input[i] = s.input[i] /\ d.baseline[i] = s.baseline[i]
           /\ d.input[id] = value
           /\ d.baseline[id] = IF Running(s.journal[id]) /\ s.baseline[id] = Never THEN s.input[id]
                               ELSE s.baseline[id]
  <1> DEFINE b == IF Running(s.journal[id]) /\ s.baseline[id] = Never THEN s.input[id]
                  ELSE s.baseline[id]
  <1>1. /\ s.input \in [Mgs -> Nat] /\ s.baseline \in [Mgs -> Offset]
        /\ b \in Offset
    BY DEF Server, Offset
  <1>2. d = [s EXCEPT !.input = [s.input EXCEPT ![id] = value],
                      !.baseline = [s.baseline EXCEPT ![id] = b]]
    BY DEF DriveInput
  <1> HIDE DEF b
  <1>3. [s.input EXCEPT ![id] = value] \in [Mgs -> Nat] /\ [s.baseline EXCEPT ![id] = b] \in [Mgs -> Offset]
    BY <1>1
  <1>4. /\ d \in Server /\ d.registered = s.registered /\ d.time = s.time /\ d.defs = s.defs
        /\ d.journal = s.journal /\ d.timers = s.timers
        /\ d.input = [s.input EXCEPT ![id] = value]
        /\ d.baseline = [s.baseline EXCEPT ![id] = b]
    BY <1>2, <1>3 DEF Server
  <1> QED BY <1>1, <1>4 DEF b, Same

\* What a journal says of a run, with its end.
EndedAt(j, end) == [j EXCEPT !.ended = end]

LEMMA StoppedShape ==
    ASSUME NEW s \in Server, NEW d, d = Stopped(s)
    PROVE  /\ d \in Server /\ Same(d, s) /\ d.timers = {}
           /\ \A id \in Mgs : /\ d.baseline[id] = Never
                              /\ d.input[id] = AfterTeardown(s, id)
                              /\ d.journal[id] = IF id \in s.registered /\ s.journal[id].ended = Never
                                                 THEN EndedAt(s.journal[id], s.time)
                                                 ELSE s.journal[id]
  <1> DEFINE journal == [id \in Mgs |-> IF id \in s.registered /\ s.journal[id].ended = Never
                                        THEN EndedAt(s.journal[id], s.time) ELSE s.journal[id]]
             input == [id \in Mgs |-> AfterTeardown(s, id)]
             baseline == [id \in Mgs |-> Never]
  <1>1. d = [s EXCEPT !.timers = {}, !.journal = journal, !.input = input, !.baseline = baseline]
    BY DEF Stopped, EndedAt, AfterTeardown
  <1>2. journal \in [Mgs -> Journal]
    <2> SUFFICES ASSUME NEW id \in Mgs
                 PROVE  EndedAt(s.journal[id], s.time) \in Journal /\ s.journal[id] \in Journal
      OBVIOUS
    <2>1. s.journal[id] \in Journal /\ s.time \in Offset
      BY DEF Server, Offset
    <2> QED BY <2>1 DEF Journal, EndedAt
  <1>3. input \in [Mgs -> Nat]
    BY DEF AfterTeardown, Server, Offset
  <1>4. baseline \in [Mgs -> Offset]
    BY DEF Offset
  <1> HIDE DEF journal, input, baseline
  <1>5. /\ d \in Server /\ d.registered = s.registered /\ d.time = s.time /\ d.defs = s.defs
        /\ d.timers = {} /\ d.journal = journal /\ d.input = input /\ d.baseline = baseline
    BY <1>1, <1>2, <1>3, <1>4 DEF Server
  <1> QED BY <1>5 DEF journal, input, baseline, Same

LEMMA OpenedShape ==
    ASSUME NEW name \in Names, NEW time \in Nat
    PROVE  /\ OpenedAt(name, time) \in Journal /\ Running(OpenedAt(name, time))
           /\ OpenedAt(name, time).name = name /\ OpenedAt(name, time).started = time
           /\ OpenedAt(name, time).results = {}
  <1>1. OpenedAt(name, time) = [name |-> name, started |-> time, ended |-> Never, results |-> {}]
    BY DEF OpenedAt
  <1>2. time # Never
    BY DEF Never
  <1> QED BY <1>1, <1>2 DEF Journal, Running, Offset

LEMMA StartedShape ==
    ASSUME NEW s \in Server, NEW name \in Names, NEW d, d = Started(s, name)
    PROVE  /\ d \in Server /\ Same(d, s)
           /\ d.timers = IF RunningAnywhere(s) THEN {} ELSE s.timers
           /\ \A id \in Mgs : /\ d.baseline[id] = Never
                              /\ d.input[id] = IF RunningAnywhere(s) THEN AfterTeardown(s, id)
                                               ELSE s.input[id]
                              /\ d.journal[id] = IF id \in s.registered THEN OpenedAt(name, s.time)
                                                 ELSE s.journal[id]
  <1> DEFINE t == IF RunningAnywhere(s) THEN Stopped(s) ELSE s
             journal == [id \in Mgs |-> IF id \in t.registered THEN OpenedAt(name, t.time)
                                        ELSE t.journal[id]]
             baseline == [id \in Mgs |-> Never]
  <1>1. d = [t EXCEPT !.journal = journal, !.baseline = baseline]
    BY DEF Started
  <1> HIDE DEF t
  <1>2. /\ t \in Server /\ t.registered = s.registered /\ t.time = s.time /\ t.defs = s.defs
        /\ t.timers = IF RunningAnywhere(s) THEN {} ELSE s.timers
        /\ \A id \in Mgs : /\ t.input[id] = IF RunningAnywhere(s) THEN AfterTeardown(s, id)
                                            ELSE s.input[id]
                           /\ id \notin s.registered => t.journal[id] = s.journal[id]
    <2>1. CASE RunningAnywhere(s)
      <3>1. t = Stopped(s)
        BY <2>1 DEF t
      <3> QED BY <2>1, <3>1, StoppedShape DEF Same
    <2>2. CASE ~RunningAnywhere(s)
      <3>1. t = s
        BY <2>2 DEF t
      <3> QED BY <2>2, <3>1
    <2> QED BY <2>1, <2>2
  <1>3. journal \in [Mgs -> Journal]
    <2>1. OpenedAt(name, t.time) \in Journal
      BY <1>2, OpenedShape DEF Server
    <2> QED BY <1>2, <2>1 DEF Server
  <1>4. baseline \in [Mgs -> Offset]
    BY DEF Offset
  <1> HIDE DEF journal, baseline
  <1>5. /\ d \in Server /\ d.registered = t.registered /\ d.time = t.time /\ d.defs = t.defs
        /\ d.timers = t.timers /\ d.input = t.input
        /\ d.journal = journal /\ d.baseline = baseline
    BY <1>1, <1>2, <1>3, <1>4 DEF Server
  <1> QED BY <1>2, <1>5 DEF journal, baseline, Same

\* A name that is known is of a definition.
LEMMA KnownShape ==
    ASSUME NEW s \in Server, NEW name \in Names, s.defs[name].known
    PROVE  s.defs[name] \in Definition
  <1>1. s.defs[name] \in {Undefined} \cup Definition
    BY DEF Server
  <1>2. ~Undefined.known
    BY DEF Undefined
  <1>3. s.defs[name] # Undefined
    BY <1>2
  <1> QED BY <1>1, <1>3

\* What a definition arms are timers.
LEMMA ArmedShape ==
    ASSUME NEW s \in Server, NEW def \in Definition
    PROVE  Armed(s, def) \in SUBSET Timer
  <1> DEFINE Cue(c) == [does |-> "drive", at |-> c.at, due |-> s.time + c.at, value |-> c.to, every |-> 0]
             Check(c) == [does |-> "check", at |-> c.at, due |-> s.time + c.at, value |-> c.wants, every |-> 0]
             Agent(a) == [does |-> "drive", at |-> a.every, due |-> s.time + a.every, value |-> a.to,
                          every |-> a.every]
  <1>1. /\ s.time \in Nat
        /\ \A c \in def.cues : c.at \in Nat /\ c.to \in Nat
        /\ \A c \in def.checks : c.at \in Nat /\ c.wants \in Nat
        /\ \A a \in def.agents : a.every \in Nat /\ a.to \in Nat
    BY DEF Server, Definition
  <1>2. /\ \A c \in def.cues : Cue(c) \in Timer
        /\ \A c \in def.checks : Check(c) \in Timer
        /\ \A a \in def.agents : Agent(a) \in Timer
    BY <1>1 DEF Timer
  <1>3. Armed(s, def) = {Cue(c) : c \in def.cues} \cup {Check(c) : c \in def.checks}
                            \cup {Agent(a) : a \in def.agents}
    BY DEF Armed
  <1> HIDE DEF Cue, Check, Agent
  <1> QED BY <1>2, <1>3

\* Of a run, its definition's sections touch the lowest input and the timers.
LEMMA SectionsShape ==
    ASSUME NEW s \in Server, s.registered # {}, NEW def \in Definition,
           NEW d, d = Sections(s, def)
    PROVE  /\ d \in Server /\ Same(d, s) /\ d.journal = s.journal
           /\ \E t \in Server :
                /\ t = s \/ (t = DriveInput(s, Lowest(s.registered), def.drive) /\ def.drive \in Nat)
                /\ d.input = t.input /\ d.baseline = t.baseline
                /\ d.timers = s.timers \/ d.timers = s.timers \cup Armed(s, def)
  <1> DEFINE id == Lowest(s.registered)
             t == IF def.drive = Never \/ def.breaks = "setup" THEN s ELSE DriveInput(s, id, def.drive)
  <1>1. id \in Mgs
    BY LowestShape DEF Server
  <1>2. def.drive = Never \/ def.drive \in Nat
    BY DEF Definition
  <1>3. t = s \/ (t = DriveInput(s, id, def.drive) /\ def.drive \in Nat)
    BY <1>2
  <1>4. /\ t \in Server /\ Same(t, s) /\ t.journal = s.journal /\ t.timers = s.timers
    BY <1>1, <1>3, DriveShape DEF Same
  <1>5. d = IF def.breaks \in {"setup", "drive"} THEN t ELSE [t EXCEPT !.timers = t.timers \cup Armed(t, def)]
    BY DEF Sections
  <1> HIDE DEF id, t
  <1>7. Armed(t, def) = Armed(s, def)
    BY <1>4 DEF Armed, Same
  <1>8. t.timers \cup Armed(t, def) \in SUBSET Timer
    BY <1>4, ArmedShape DEF Server
  <1>9. /\ d \in Server /\ Same(d, t) /\ d.journal = t.journal /\ d.input = t.input
        /\ d.baseline = t.baseline
        /\ d.timers = t.timers \/ d.timers = t.timers \cup Armed(t, def)
    <2>1. CASE def.breaks \in {"setup", "drive"}
      BY <1>4, <1>5, <2>1 DEF Same
    <2>2. CASE def.breaks \notin {"setup", "drive"}
      <3>1. d = [t EXCEPT !.timers = t.timers \cup Armed(t, def)]
        BY <1>5, <2>2
      <3> DEFINE timers == t.timers \cup Armed(t, def)
      <3> HIDE DEF timers
      <3>2. d = [t EXCEPT !.timers = timers] /\ timers \in SUBSET Timer
        BY <1>8, <3>1 DEF timers
      <3>3. /\ d \in Server /\ d.registered = t.registered /\ d.time = t.time /\ d.defs = t.defs
            /\ d.journal = t.journal /\ d.input = t.input /\ d.baseline = t.baseline
            /\ d.timers = timers
        BY <1>4, <3>2 DEF Server
      <3> QED BY <3>3 DEF timers, Same
    <2> QED BY <2>1, <2>2
  <1>10. d \in Server /\ Same(d, s) /\ d.journal = s.journal
    BY <1>4, <1>9 DEF Same
  <1>11. d.timers = s.timers \/ d.timers = s.timers \cup Armed(s, def)
    BY <1>4, <1>7, <1>9
  <1> QED BY <1>3, <1>4, <1>9, <1>10, <1>11 DEF id

\* Sections that end without an error arm every timer and drive the input.
LEMMA SectionsWork ==
    ASSUME NEW s \in Server, s.registered # {}, NEW def \in Definition, def.breaks = "nowhere",
           NEW d, d = Sections(s, def)
    PROVE  /\ d.timers = s.timers \cup Armed(s, def)
           /\ def.drive = Never => d.input[Lowest(s.registered)] = s.input[Lowest(s.registered)]
           /\ def.drive # Never => d.input[Lowest(s.registered)] = def.drive
  <1> DEFINE id == Lowest(s.registered)
             value == def.drive
             t == IF value = Never THEN s ELSE DriveInput(s, id, value)
             timers == t.timers \cup Armed(t, def)
  <1>1. id \in Mgs /\ (value = Never \/ value \in Nat)
    BY LowestShape DEF Server, Definition
  <1>2. d = [t EXCEPT !.timers = timers]
    BY DEF Sections
  <1> HIDE DEF id, value
  <1>3. /\ t \in Server /\ Same(t, s) /\ t.timers = s.timers
        /\ t.input[id] = IF value = Never THEN s.input[id] ELSE value
    <2>1. CASE value = Never
      BY <2>1 DEF Same
    <2>2. CASE value # Never
      <3>1. t = DriveInput(s, id, value) /\ value \in Nat
        BY <1>1, <2>2
      <3> HIDE DEF t
      <3> QED BY <1>1, <2>2, <3>1, DriveShape
    <2> QED BY <2>1, <2>2
  <1> HIDE DEF t
  <1>4. timers = s.timers \cup Armed(s, def)
    BY <1>3 DEF Armed, Same
  <1> HIDE DEF timers
  <1>5. d.timers = timers /\ d.input = t.input
    BY <1>2, <1>3 DEF Server
  <1> QED BY <1>3, <1>4, <1>5 DEF id, value

\* A drive of a microgrid whose journal runs is taken back with the run.
LEMMA DriveInRun ==
    ASSUME NEW s, NEW set, NEW stray, Restorable(s, set, stray),
           NEW id \in Mgs, Running(s.journal[id]), NEW value \in Nat
    PROVE  Restorable(DriveInput(s, id, value), set, stray)
  <1> DEFINE d == DriveInput(s, id, value)
  <1>1. s \in Server
    BY DEF Restorable
  <1>2. /\ d \in Server /\ Same(d, s) /\ d.journal = s.journal /\ d.timers = s.timers
        /\ \A i \in Mgs : i # id => d.input[i] = s.input[i] /\ d.baseline[i] = s.baseline[i]
        /\ d.input[id] = value
        /\ d.baseline[id] = IF s.baseline[id] = Never THEN s.input[id] ELSE s.baseline[id]
    BY <1>1, DriveShape
  <1> HIDE DEF d
  <1>3. s.input[id] \in Nat
    BY <1>1 DEF Server
  <1>4. s.input[id] # Never
    BY <1>3 DEF Never
  <1>5. \A i \in Mgs : AfterTeardown(d, i) = AfterTeardown(s, i)
    BY <1>2, <1>4 DEF AfterTeardown
  <1>6. RunningAnywhere(d) = RunningAnywhere(s)
    BY <1>2 DEF RunningAnywhere, Same
  <1> QED BY <1>2, <1>4, <1>5, <1>6 DEF Restorable, d, Same

\* One of a microgrid whose journal does not is what people set, or a stray.
LEMMA DriveOutOfRun ==
    ASSUME NEW s, NEW set, NEW stray, Restorable(s, set, stray),
           NEW id \in Mgs, ~Running(s.journal[id]), NEW value \in Nat
    PROVE  /\ Restorable(DriveInput(s, id, value), [set EXCEPT ![id] = value], stray \ {id})
           /\ Restorable(DriveInput(s, id, value), set, stray \cup {id})
           /\ value = s.input[id] => Restorable(DriveInput(s, id, value), set, stray)
  <1> DEFINE d == DriveInput(s, id, value)
  <1>1. s \in Server /\ set \in [Mgs -> Nat]
    BY DEF Restorable
  <1>2. /\ d \in Server /\ Same(d, s) /\ d.journal = s.journal /\ d.timers = s.timers
        /\ \A i \in Mgs : i # id => d.input[i] = s.input[i]
        /\ \A i \in Mgs : d.baseline[i] = s.baseline[i]
        /\ d.input[id] = value
    BY <1>1, DriveShape
  <1> HIDE DEF d
  <1>3. d.baseline[id] = Never
    BY <1>2 DEF Restorable
  <1>4. /\ \A i \in Mgs : i # id => AfterTeardown(d, i) = AfterTeardown(s, i)
        /\ AfterTeardown(d, id) = value
        /\ value = s.input[id] => AfterTeardown(d, id) = AfterTeardown(s, id)
    BY <1>2, <1>3 DEF AfterTeardown
  <1>5. RunningAnywhere(d) = RunningAnywhere(s)
    BY <1>2 DEF RunningAnywhere, Same
  <1>6. Restorable(d, [set EXCEPT ![id] = value], stray \ {id})
    BY <1>1, <1>2, <1>4, <1>5 DEF Restorable, Same
  <1>7. Restorable(d, set, stray \cup {id})
    BY <1>1, <1>2, <1>3, <1>4, <1>5 DEF Restorable, Same
  <1>8. value = s.input[id] => Restorable(d, set, stray)
    BY <1>1, <1>2, <1>4, <1>5 DEF Restorable, Same
  <1> QED BY <1>6, <1>7, <1>8 DEF d

\* A start takes back what ran, whatever was set stays, and every registered
\* journal runs.
LEMMA StartRestores ==
    ASSUME NEW s, NEW set, NEW stray, Restorable(s, set, stray), NEW name \in Names
    PROVE  /\ Restorable(Started(s, name),
                         [id \in Mgs |-> IF id \in stray THEN s.input[id] ELSE set[id]], {})
           /\ Started(s, name) \in Server /\ Same(Started(s, name), s)
           /\ Started(s, name).timers = {}
           /\ \A id \in s.registered : Started(s, name).journal[id] = OpenedAt(name, s.time)
           /\ \A id \in s.registered : Running(Started(s, name).journal[id])
  <1> DEFINE d == Started(s, name)
             now == [id \in Mgs |-> IF id \in stray THEN s.input[id] ELSE set[id]]
  <1>1. s \in Server /\ set \in [Mgs -> Nat] /\ s.registered \in SUBSET Mgs /\ s.time \in Nat
        /\ s.registered # {}
    BY DEF Restorable, Server
  <1>2. /\ d \in Server /\ Same(d, s)
        /\ d.timers = IF RunningAnywhere(s) THEN {} ELSE s.timers
        /\ \A id \in Mgs : /\ d.baseline[id] = Never
                           /\ d.input[id] = IF RunningAnywhere(s) THEN AfterTeardown(s, id)
                                            ELSE s.input[id]
                           /\ d.journal[id] = IF id \in s.registered THEN OpenedAt(name, s.time)
                                              ELSE s.journal[id]
    BY <1>1, StartedShape
  <1> HIDE DEF d
  <1>3. d.timers = {}
    BY <1>2 DEF Restorable
  <1>4. Running(OpenedAt(name, s.time))
    BY <1>1, OpenedShape
  <1>5. now \in [Mgs -> Nat]
    BY <1>1 DEF Server
  <1>6. ASSUME NEW id \in Mgs
        PROVE  AfterTeardown(d, id) = now[id]
    <2>1. AfterTeardown(d, id) = d.input[id]
      BY <1>2 DEF AfterTeardown
    <2>2. ~RunningAnywhere(s) => AfterTeardown(s, id) = s.input[id]
      BY DEF Restorable, RunningAnywhere, AfterTeardown
    <2>3. id \in stray => AfterTeardown(s, id) = s.input[id]
      BY DEF Restorable, AfterTeardown
    <2>4. id \notin stray => AfterTeardown(s, id) = set[id]
      BY DEF Restorable
    <2> QED BY <1>2, <2>1, <2>2, <2>3, <2>4
  <1> HIDE DEF now
  <1>7. \A id \in Mgs : /\ Running(d.journal[id]) => id \in s.registered
                        /\ id \in s.registered => Running(d.journal[id])
    BY <1>2, <1>4 DEF Restorable
  <1>8. Restorable(d, now, {})
    BY <1>1, <1>2, <1>3, <1>5, <1>6, <1>7 DEF Restorable, Same
  <1> QED BY <1>1, <1>2, <1>3, <1>7, <1>8 DEF d, now

\* A teardown takes everything back, and nothing runs.
LEMMA StopRestores ==
    ASSUME NEW s, NEW set, NEW stray, Restorable(s, set, stray)
    PROVE  /\ Restorable(Stopped(s), set, stray)
           /\ \A id \in stray : Stopped(s).input[id] = s.input[id] /\ s.baseline[id] = Never
  <1> DEFINE d == Stopped(s)
  <1>1. s \in Server /\ s.time \in Nat /\ stray \subseteq Mgs
    BY DEF Restorable, Server
  <1>2. /\ d \in Server /\ Same(d, s) /\ d.timers = {}
        /\ \A id \in Mgs : /\ d.baseline[id] = Never
                           /\ d.input[id] = AfterTeardown(s, id)
                           /\ d.journal[id] = IF id \in s.registered /\ s.journal[id].ended = Never
                                              THEN EndedAt(s.journal[id], s.time)
                                              ELSE s.journal[id]
    BY <1>1, StoppedShape
  <1> HIDE DEF d
  <1>3. \A id \in stray : s.baseline[id] = Never
    BY <1>1 DEF Restorable
  <1>4. \A id \in stray : d.input[id] = s.input[id]
    BY <1>1, <1>2, <1>3 DEF AfterTeardown
  <1>5. \A id \in Mgs : ~Running(d.journal[id])
    <2> SUFFICES ASSUME NEW id \in Mgs PROVE ~Running(d.journal[id])
      OBVIOUS
    <2>1. s.journal[id] \in Journal /\ s.time # Never
      BY <1>1 DEF Server, Never
    <2>2. EndedAt(s.journal[id], s.time).ended = s.time
      BY <2>1 DEF EndedAt, Journal
    <2>3. id \notin s.registered => ~Running(s.journal[id])
      BY DEF Restorable
    <2> QED BY <1>2, <2>1, <2>2, <2>3 DEF Running
  <1>6. \A id \in Mgs : AfterTeardown(d, id) = AfterTeardown(s, id)
    BY <1>2 DEF AfterTeardown
  <1>7. Restorable(d, set, stray)
    BY <1>1, <1>2, <1>5, <1>6 DEF Restorable, Same
  <1> QED BY <1>3, <1>4, <1>7 DEF d

\* Where a scenario runs, its timers may be any.
LEMMA TimersInRun ==
    ASSUME NEW s, NEW set, NEW stray, Restorable(s, set, stray), RunningAnywhere(s),
           NEW timers \in SUBSET Timer, NEW d, d = [s EXCEPT !.timers = timers]
    PROVE  /\ Restorable(d, set, stray) /\ d \in Server /\ Same(d, s) /\ d.timers = timers
           /\ d.journal = s.journal /\ d.input = s.input /\ d.baseline = s.baseline
  <1>1. s \in Server
    BY DEF Restorable
  <1>2. /\ d \in Server /\ d.registered = s.registered /\ d.time = s.time /\ d.defs = s.defs
        /\ d.timers = timers /\ d.journal = s.journal /\ d.input = s.input
        /\ d.baseline = s.baseline
    BY <1>1 DEF Server
  <1>3. RunningAnywhere(d)
    BY <1>2 DEF RunningAnywhere
  <1> QED BY <1>2, <1>3 DEF Restorable, AfterTeardown, Same

LEMMA SectionsRestore ==
    ASSUME NEW s, NEW set, NEW stray, Restorable(s, set, stray),
           Running(s.journal[Lowest(s.registered)]), NEW def \in Definition
    PROVE  Restorable(Sections(s, def), set, stray)
  <1> DEFINE d == Sections(s, def)
             id == Lowest(s.registered)
  <1>1. s \in Server /\ s.registered # {} /\ id \in s.registered /\ id \in Mgs
    BY LowestShape DEF Restorable, Server
  <1> HIDE DEF d
  <1>2. PICK t \in Server :
            /\ t = s \/ (t = DriveInput(s, id, def.drive) /\ def.drive \in Nat)
            /\ d.input = t.input /\ d.baseline = t.baseline
    BY <1>1, SectionsShape DEF d
  <1>3. d \in Server /\ Same(d, s) /\ d.journal = s.journal
    BY <1>1, SectionsShape DEF d
  <1> HIDE DEF id
  <1>4. Restorable(t, set, stray)
    BY <1>1, <1>2, DriveInRun DEF id
  <1>5. t.registered = s.registered /\ t.journal = s.journal
    BY <1>1, <1>2, DriveShape DEF Same
  <1>6. RunningAnywhere(d)
    BY <1>1, <1>3 DEF RunningAnywhere, Same, id
  <1> QED BY <1>2, <1>3, <1>4, <1>5, <1>6 DEF Restorable, AfterTeardown, Same, d

\* What a stray holds may be taken for what people set.
LEMMA ResumeRestores ==
    ASSUME NEW s, NEW set, NEW stray, Restorable(s, set, stray)
    PROVE  Restorable(s, [id \in Mgs |-> IF id \in stray THEN s.input[id] ELSE set[id]], {})
  <1> DEFINE now == [id \in Mgs |-> IF id \in stray THEN s.input[id] ELSE set[id]]
  <1>1. now \in [Mgs -> Nat]
    BY DEF Restorable, Server
  <1>2. \A id \in Mgs : AfterTeardown(s, id) = now[id]
    BY DEF Restorable, AfterTeardown
  <1> HIDE DEF now
  <1>3. Restorable(s, now, {})
    BY <1>1, <1>2 DEF Restorable
  <1> QED BY <1>3 DEF now

\* A start of a name nobody defined changes nothing, any other opens a journal
\* in each microgrid and runs the sections; either way inputs are restorable.
LEMMA RunRestores ==
    ASSUME Restorable(server, own, strayed), NEW name \in Names
    PROVE  LET d == RunOf(server, name) IN
           /\ Restorable(d, [id \in Mgs |-> IF id \in strayed THEN server.input[id] ELSE own[id]], {})
           /\ Same(d, server)
           /\ Known(name) =>
                /\ server.defs[name] \in Definition
                /\ d = Sections(Started(server, name), server.defs[name])
                /\ \A id \in server.registered : d.journal[id] = OpenedAt(name, server.time)
           /\ ~Known(name) => d = server
  <1> DEFINE d == RunOf(server, name)
             t == Started(server, name)
             def == server.defs[name]
             now == [id \in Mgs |-> IF id \in strayed THEN server.input[id] ELSE own[id]]
  <1>1. server \in Server /\ server.registered # {} /\ server.registered \in SUBSET Mgs
    BY DEF Restorable, Server
  <1>2. CASE ~Known(name)
    <2>1. d = server
      BY <1>2 DEF RunOf
    <2>2. Restorable(server, now, {})
      BY ResumeRestores
    <2> HIDE DEF d, now
    <2>3. Restorable(d, now, {}) /\ Same(d, server) /\ d = server
      BY <2>1, <2>2 DEF Same
    <2> QED BY <1>2, <2>3 DEF d, now
  <1>3. CASE Known(name)
    <2>1. def \in Definition
      BY <1>1, <1>3, KnownShape DEF Known
    <2>2. /\ Restorable(t, now, {}) /\ t \in Server /\ Same(t, server)
          /\ \A id \in server.registered : t.journal[id] = OpenedAt(name, server.time)
          /\ \A id \in server.registered : Running(t.journal[id])
      BY StartRestores
    <2>3. d = Sections(t, def)
      BY <1>3 DEF RunOf
    <2> HIDE DEF d, t, def, now
    <2>4. Running(t.journal[Lowest(t.registered)])
      BY <1>1, <2>2, LowestShape DEF Same
    <2>5. Restorable(d, now, {})
      BY <2>1, <2>2, <2>3, <2>4, SectionsRestore
    <2>6. Same(d, t) /\ d.journal = t.journal
      BY <1>1, <2>1, <2>2, <2>3, SectionsShape DEF Same
    <2>7. /\ Same(d, server)
          /\ \A id \in server.registered : d.journal[id] = OpenedAt(name, server.time)
      BY <2>2, <2>6 DEF Same
    <2> QED BY <1>3, <2>1, <2>3, <2>5, <2>7 DEF d, t, def, now
  <1> QED BY <1>2, <1>3

\* A timer as it is armed again, and a server with other timers.
Again(s, t) == [t EXCEPT !.due = s.time + t.every]
WithTimers(s, timers) == [s EXCEPT !.timers = timers]
TimersAfter(s, t) == IF t.every = 0 THEN s.timers \ {t} ELSE (s.timers \ {t}) \cup {Again(s, t)}

LEMMA FiredDrives ==
    ASSUME NEW s, NEW t, t.does = "drive"
    PROVE  Fired(s, t) = DriveInput(WithTimers(s, TimersAfter(s, t)), Lowest(s.registered), t.value)
  BY DEF Fired, WithTimers, TimersAfter, Again

\* A timer that fires drives the lowest microgrid or tells of it.
LEMMA FiredShape ==
    ASSUME NEW s \in Server, s.registered # {}, NEW t \in s.timers, NEW d, d = Fired(s, t)
    PROVE  /\ d \in Server /\ Same(d, s)
           /\ d.timers = TimersAfter(s, t)
           /\ Again(s, t) \in Timer
           /\ t.does = "drive" => d.journal = s.journal
           /\ t.does = "check" =>
                /\ d.input = s.input /\ d.baseline = s.baseline
                /\ \A i \in Mgs : i # Lowest(s.registered) => d.journal[i] = s.journal[i]
                /\ d.journal[Lowest(s.registered)].name = s.journal[Lowest(s.registered)].name
                /\ d.journal[Lowest(s.registered)].started = s.journal[Lowest(s.registered)].started
                /\ d.journal[Lowest(s.registered)].ended = s.journal[Lowest(s.registered)].ended
                /\ d.journal[Lowest(s.registered)].results =
                        s.journal[Lowest(s.registered)].results
                            \cup {[at |-> t.at, passed |-> AsWanted(s, t)]}
  <1> DEFINE id == Lowest(s.registered)
             rest == s.timers \ {t}
             again == Again(s, t)
             left == IF t.every = 0 THEN rest ELSE rest \cup {again}
             m == [s EXCEPT !.timers = left]
  <1>1. t \in Timer /\ s.time \in Nat /\ s.timers \in SUBSET Timer /\ id \in Mgs
    BY LowestShape DEF Server
  <1>2. again \in Timer
    BY <1>1 DEF Timer, Again
  <1> HIDE DEF again
  <1>3. left \in SUBSET Timer
    BY <1>1, <1>2
  <1>4. /\ t.does = "drive" => d = DriveInput(m, id, t.value)
        /\ t.does # "drive" => d = [m EXCEPT !.journal[id].results =
                                      @ \cup {[at |-> t.at, passed |-> AsWanted(s, t)]}]
    BY DEF Fired, again, Again
  <1> HIDE DEF left, id
  <1>5. /\ m \in Server /\ Same(m, s) /\ m.timers = left /\ m.journal = s.journal
        /\ m.input = s.input /\ m.baseline = s.baseline
    BY <1>3 DEF Server, Same
  <1>6. CASE t.does = "drive"
    <2>1. t.value \in Nat
      BY <1>1 DEF Timer
    <2>2. d = DriveInput(m, id, t.value)
      BY <1>4, <1>6
    <2> HIDE DEF m
    <2>3. d \in Server /\ Same(d, m) /\ d.timers = m.timers /\ d.journal = m.journal
      BY <1>1, <1>5, <2>1, <2>2, DriveShape
    <2>4. d \in Server /\ Same(d, s) /\ d.timers = left /\ d.journal = s.journal
      BY <1>5, <2>3 DEF Same
    <2> QED BY <1>2, <1>6, <2>4 DEF left, id, again, TimersAfter
  <1>7. CASE t.does # "drive"
    <2> DEFINE r == [at |-> t.at, passed |-> AsWanted(s, t)]
               j == s.journal[id]
               results == j.results \cup {r}
               told == [j EXCEPT !.results = results]
               journal == [s.journal EXCEPT ![id] = told]
    <2>1. r \in Result
      BY <1>1 DEF Timer, Result, AsWanted
    <2>2. j \in Journal
      BY <1>1 DEF Server
    <2> HIDE DEF r
    <2>3. results \in SUBSET Result
      BY <2>1, <2>2 DEF Journal
    <2> HIDE DEF results, j
    <2>4. /\ told \in Journal /\ told.results = results
          /\ told.name = j.name /\ told.started = j.started /\ told.ended = j.ended
      BY <2>2, <2>3 DEF Journal
    <2> HIDE DEF told
    <2>5. journal \in [Mgs -> Journal] /\ journal[id] = told
          /\ \A i \in Mgs : i # id => journal[i] = s.journal[i]
      BY <1>1, <2>4 DEF Server
    <2>6. d = [m EXCEPT !.journal = journal]
      BY <1>4, <1>5, <1>7 DEF told, results, r, j
    <2> HIDE DEF journal, m
    <2>7. /\ d \in Server /\ d.registered = m.registered /\ d.time = m.time /\ d.defs = m.defs
          /\ d.timers = m.timers /\ d.input = m.input /\ d.baseline = m.baseline
          /\ d.journal = journal
      BY <1>5, <2>5, <2>6 DEF Server
    <2> QED BY <1>2, <1>5, <1>7, <2>4, <2>5, <2>7 DEF Same, left, id, again, results, j, r, TimersAfter
  <1> QED BY <1>6, <1>7

\* A timer only fires in a run, and what it drives is taken back with it, or
\* is a stray where the lowest microgrid's own journal does not run.
LEMMA FireRestores ==
    ASSUME NEW s, NEW set, NEW stray, Restorable(s, set, stray), NEW t \in s.timers
    PROVE  Restorable(Fired(s, t), set,
                      stray \cup {id \in Mgs : /\ Fired(s, t).input[id] # s.input[id]
                                               /\ ~Running(s.journal[id])})
  <1> DEFINE id == Lowest(s.registered)
             d == Fired(s, t)
             m == WithTimers(s, d.timers)
             value == t.value
             more == {i \in Mgs : d.input[i] # s.input[i] /\ ~Running(s.journal[i])}
  <1>1. s \in Server /\ s.registered # {} /\ id \in s.registered /\ id \in Mgs
        /\ stray \subseteq Mgs /\ RunningAnywhere(s) /\ t \in Timer /\ d = Fired(s, t)
    BY LowestShape DEF Restorable, Server
  <1> HIDE DEF d
  <1>2. /\ d \in Server /\ Same(d, s) /\ d.timers = TimersAfter(s, t)
        /\ t.does = "check" =>
            /\ d.input = s.input /\ d.baseline = s.baseline
            /\ \A i \in Mgs : i # id => d.journal[i] = s.journal[i]
            /\ d.journal[id].started = s.journal[id].started
            /\ d.journal[id].ended = s.journal[id].ended
    BY <1>1, FiredShape
  <1> HIDE DEF id
  <1>3. CASE t.does = "drive"
    <2>1. d.timers \in SUBSET Timer
      BY <1>2 DEF Server
    <2>2. /\ Restorable(m, set, stray) /\ m.input = s.input /\ m.journal = s.journal
          /\ m \in Server
      BY <1>1, <2>1, TimersInRun DEF WithTimers
    <2> HIDE DEF m
    <2>3. d = DriveInput(m, id, value) /\ value \in Nat
      BY <1>1, <1>2, <1>3, FiredDrives DEF m, id, Timer
    <2> HIDE DEF value
    <2>4. d.input[id] = value /\ \A i \in Mgs : i # id => d.input[i] = s.input[i]
      BY <1>1, <2>2, <2>3, DriveShape
    <2>5. CASE Running(s.journal[id])
      <3>1. Restorable(d, set, stray)
        BY <1>1, <2>2, <2>3, <2>5, DriveInRun
      <3>2. more = {}
        BY <2>4, <2>5
      <3> HIDE DEF more
      <3>3. Restorable(d, set, stray \cup more)
        BY <3>1, <3>2
      <3> QED BY <3>3 DEF more, d
    <2>6. CASE ~Running(s.journal[id])
      <3>1. ~Running(m.journal[id]) /\ m.input[id] = s.input[id]
        BY <2>2, <2>6
      <3> DEFINE n == DriveInput(m, id, value)
      <3>5. /\ Restorable(n, set, stray \cup {id})
            /\ value = m.input[id] => Restorable(n, set, stray)
        BY <1>1, <2>2, <2>3, <3>1, DriveOutOfRun
      <3> HIDE DEF n
      <3>2. /\ Restorable(d, set, stray \cup {id})
            /\ value = s.input[id] => Restorable(d, set, stray)
        BY <2>3, <3>1, <3>5 DEF n
      <3>3. more = IF value = s.input[id] THEN {} ELSE {id}
        BY <1>1, <2>4, <2>6
      <3> HIDE DEF more
      <3>4. Restorable(d, set, stray \cup more)
        BY <3>2, <3>3
      <3> QED BY <3>4 DEF more, d
    <2> QED BY <2>5, <2>6
  <1>4. CASE t.does = "check"
    <2>1. more = {}
      BY <1>2, <1>4
    <2> HIDE DEF more
    <2>2. \A i \in Mgs : Running(d.journal[i]) = Running(s.journal[i])
      BY <1>1, <1>2, <1>4 DEF Running
    <2>3. RunningAnywhere(d)
      BY <1>1, <1>2, <2>2 DEF RunningAnywhere, Same, Server
    <2>4. \A i \in Mgs : AfterTeardown(d, i) = AfterTeardown(s, i) /\ d.baseline[i] = s.baseline[i]
      BY <1>2, <1>4 DEF AfterTeardown
    <2>5. Restorable(d, set, stray)
      BY <1>2, <2>2, <2>3, <2>4 DEF Restorable, Same
    <2>6. Restorable(d, set, stray \cup more)
      BY <2>1, <2>5
    <2> QED BY <2>6 DEF more, d
  <1> QED BY <1>1, <1>3, <1>4 DEF Timer

-----------------------------------------------------------------------------
(* The scenarios: each step keeps the invariant                             *)

\* What the invariant says where the client is not a stepped one is about the
\* server's inputs and the waiting client alone.
LEMMA NotStepped ==
    ASSUME client'.at \notin {"boot", "step", "refresh", "stepped"},
           Restorable(server', own', strayed'), ClientOK', WaitIsSteady'
    PROVE  RunsIInv'
  <1>1. client' \notin InSteps({"step", "refresh"}, {"none"})
    BY DEF InSteps
  <1>2. BootIsFresh' /\ SteppedIsTold' /\ StepsAreExact'
    BY DEF BootIsFresh, SteppedIsTold, StepsAreExact
  <1>3. SteppedIsSteady'
    BY <1>1 DEF SteppedIsSteady, InSteps
  <1> QED BY <1>2, <1>3 DEF RunsIInv

LEMMA NotHeadlessStep ==
    ASSUME RunsIInv, ~Headless, UNCHANGED client,
           Restorable(server', own', strayed'), WaitIsSteady'
    PROVE  RunsIInv'
  <1>1. client'.at \notin {"boot", "step", "refresh", "stepped"}
    BY DEF Headless
  <1>2. ClientOK'
    BY DEF RunsIInv, ClientOK, Headed, InSteps, Asking, Waiting
  <1> QED BY <1>1, <1>2, NotStepped

\* Where no journal and no timer changes, neither does what a client waits for.
LEMMA WaitKept ==
    ASSUME WaitIsSteady, UNCHANGED <<client, cut>>, ~disturbed' => ~disturbed,
           ~disturbed' => server'.registered = server.registered
                          /\ server'.journal = server.journal /\ server'.timers = server.timers
    PROVE  WaitIsSteady'
  BY DEF WaitIsSteady, Told, Failed

LEMMA PokeStep ==
    ASSUME RunsIInv, NEW id \in Mgs, NEW value \in 0..1, Poke(id, value)
    PROVE  RunsIInv'
  <1>1. /\ ~Headless /\ client' = client /\ cut' = cut /\ disturbed' = disturbed
        /\ server' = DriveInput(server, id, value)
        /\ own' = IF Running(server.journal[id]) THEN own ELSE [own EXCEPT ![id] = value]
        /\ strayed' = IF Running(server.journal[id]) THEN strayed ELSE strayed \ {id}
    BY DEF Poke, Moves
  <1>2. server \in Server /\ Restorable(server, own, strayed) /\ WaitIsSteady /\ value \in Nat
    BY DEF RunsIInv, Restorable
  <1>3. server'.registered = server.registered /\ server'.journal = server.journal
        /\ server'.timers = server.timers
    BY <1>1, <1>2, DriveShape DEF Same
  <1>4. Restorable(server', own', strayed')
    BY <1>1, <1>2, DriveInRun, DriveOutOfRun
  <1>5. WaitIsSteady'
    BY <1>1, <1>2, <1>3, WaitKept
  <1> QED BY <1>1, <1>4, <1>5, NotHeadlessStep

LEMMA StartOtherStep ==
    ASSUME RunsIInv, NEW name \in Names, StartOther(name) \/ StartBare(name)
    PROVE  RunsIInv'
  <1>1. /\ ~Headless /\ client' = client /\ disturbed'
        /\ own' = [id \in Mgs |-> IF id \in strayed THEN server.input[id] ELSE own[id]]
        /\ strayed' = {}
        /\ server' = RunOf(server, name) \/ server' = Started(server, name)
    BY DEF StartOther, StartBare, Moves, Resumes, Disturbs
  <1>2. Restorable(server, own, strayed)
    BY DEF RunsIInv
  <1>3. /\ Restorable(RunOf(server, name),
                      [id \in Mgs |-> IF id \in strayed THEN server.input[id] ELSE own[id]], {})
        /\ Restorable(Started(server, name),
                      [id \in Mgs |-> IF id \in strayed THEN server.input[id] ELSE own[id]], {})
    BY <1>2, RunRestores, StartRestores
  <1>4. Restorable(server', own', strayed')
    BY <1>1, <1>3
  <1>5. WaitIsSteady'
    BY <1>1 DEF WaitIsSteady
  <1> QED BY <1>1, <1>4, <1>5, NotHeadlessStep

LEMMA StopOtherStep ==
    ASSUME RunsIInv, StopOther
    PROVE  RunsIInv'
  <1>1. /\ ~Headless /\ client' = client /\ disturbed' /\ server' = Stopped(server)
        /\ own' = own /\ strayed' = {id \in strayed : server'.input[id] = server.input[id]}
    BY DEF StopOther, Moves, Leaves, Disturbs
  <1>2. Restorable(server, own, strayed)
    BY DEF RunsIInv
  <1>3. /\ Restorable(Stopped(server), own, strayed)
        /\ \A id \in strayed : Stopped(server).input[id] = server.input[id]
    BY <1>2, StopRestores
  <1>4. strayed' = {id \in strayed : Stopped(server).input[id] = server.input[id]}
    BY <1>1
  <1>5. Restorable(server', own', strayed')
    <2>1. strayed' = strayed
      <3>1. \A id : id \in strayed' <=> id \in strayed
        BY <1>3, <1>4
      <3> QED BY <3>1
    <2> QED BY <1>1, <1>3, <2>1
  <1>6. WaitIsSteady'
    BY <1>1 DEF WaitIsSteady
  <1> QED BY <1>1, <1>5, <1>6, NotHeadlessStep

LEMMA DefineStep ==
    ASSUME RunsIInv, NEW text \in Definitions, Define(text)
    PROVE  RunsIInv'
  <1> DEFINE defs == Defined(server.defs, text)
  <1>1. /\ ~Headless /\ client' = client /\ cut' = cut /\ disturbed' = disturbed
        /\ own' = own /\ strayed' = strayed
        /\ server' = [server EXCEPT !.defs = defs]
    BY DEF Define, Moves
  <1>2. server \in Server /\ Restorable(server, own, strayed) /\ WaitIsSteady
    BY DEF RunsIInv, Restorable
  <1>3. defs \in [Names -> {Undefined} \cup Definition]
    <2>1. server.defs \in [Names -> {Undefined} \cup Definition]
      BY <1>2 DEF Server
    <2>2. text.name \in Names
      BY DEF Names
    <2>3. text.bad \/ text.def \in Definition
      BY RunsAssumption
    <2> QED BY <2>1, <2>2, <2>3 DEF Defined
  <1> HIDE DEF defs
  <1>4. /\ server' \in Server /\ server'.registered = server.registered
        /\ server'.journal = server.journal /\ server'.timers = server.timers
        /\ server'.input = server.input /\ server'.baseline = server.baseline
    BY <1>1, <1>2, <1>3 DEF Server
  <1>5. Restorable(server', own', strayed')
    BY <1>1, <1>2, <1>4 DEF Restorable, AfterTeardown, RunningAnywhere
  <1>6. WaitIsSteady'
    BY <1>1, <1>2, <1>4, WaitKept
  <1> QED BY <1>1, <1>5, <1>6, NotHeadlessStep

LEMMA RegisterStep ==
    ASSUME RunsIInv, NEW id \in Mgs, RegisterMicrogrid(id)
    PROVE  RunsIInv'
  <1>1. /\ ~Headless /\ client' = client /\ disturbed' /\ own' = own /\ strayed' = strayed
        /\ server' = [server EXCEPT !.registered = @ \cup {id}]
    BY DEF RegisterMicrogrid, Moves, Disturbs
  <1>2. server \in Server /\ Restorable(server, own, strayed)
    BY DEF RunsIInv, Restorable
  <1>3. /\ server' \in Server /\ server'.registered = server.registered \cup {id}
        /\ server'.journal = server.journal /\ server'.timers = server.timers
        /\ server'.input = server.input /\ server'.baseline = server.baseline
    BY <1>1, <1>2 DEF Server
  <1>4. Restorable(server', own', strayed')
    BY <1>1, <1>2, <1>3 DEF Restorable, AfterTeardown, RunningAnywhere
  <1>5. WaitIsSteady'
    BY <1>1 DEF WaitIsSteady
  <1> QED BY <1>1, <1>4, <1>5, NotHeadlessStep

LEMMA ReloadStep ==
    ASSUME RunsIInv, Reload
    PROVE  RunsIInv'
  <1> DEFINE journal == [id \in Mgs |-> FreshJournal]
             input == [id \in Mgs |-> 0]
             baseline == [id \in Mgs |-> Never]
  <1>1. /\ ~Headless /\ client' = client /\ disturbed' /\ own' = input /\ strayed' = {}
        /\ server' = [server EXCEPT !.timers = {}, !.journal = journal, !.input = input,
                                    !.baseline = baseline]
    BY DEF Reload, Reloaded, Moves, Disturbs
  <1>2. server \in Server /\ server.registered # {}
    BY DEF RunsIInv, Restorable
  <1>3. FreshJournal \in Journal /\ ~Running(FreshJournal)
    BY DEF FreshJournal, Journal, Running, Offset
  <1>4. journal \in [Mgs -> Journal] /\ input \in [Mgs -> Nat] /\ baseline \in [Mgs -> Offset]
    BY <1>3 DEF Offset
  <1>5. \A id \in Mgs : journal[id] = FreshJournal /\ input[id] = 0 /\ baseline[id] = Never
    OBVIOUS
  <1> HIDE DEF journal, input, baseline
  <1>6. /\ server' \in Server /\ server'.registered = server.registered /\ server'.timers = {}
        /\ server'.journal = journal /\ server'.input = input /\ server'.baseline = baseline
    BY <1>1, <1>2, <1>4 DEF Server
  <1>7. Restorable(server', own', strayed')
    BY <1>1, <1>2, <1>3, <1>4, <1>5, <1>6 DEF Restorable, AfterTeardown
  <1>8. WaitIsSteady'
    BY <1>1 DEF WaitIsSteady
  <1> QED BY <1>1, <1>7, <1>8, NotHeadlessStep

\* The clock alone disturbs nothing.
LEMMA LaterRestores ==
    ASSUME Restorable(server, own, strayed), NEW by \in Nat,
           server' = [server EXCEPT !.time = @ + by]
    PROVE  /\ Restorable(server', own, strayed)
           /\ server'.registered = server.registered /\ server'.time = server.time + by
           /\ server'.journal = server.journal /\ server'.timers = server.timers
           /\ server'.input = server.input /\ server'.defs = server.defs
           /\ server'.baseline = server.baseline
  <1>1. server \in Server /\ server.time \in Nat
    BY DEF Restorable, Server
  <1> DEFINE time == server.time + by
  <1>2. time \in Nat /\ server' = [server EXCEPT !.time = time]
    BY <1>1
  <1> HIDE DEF time
  <1>3. /\ server' \in Server /\ server'.registered = server.registered /\ server'.time = time
        /\ server'.journal = server.journal /\ server'.timers = server.timers
        /\ server'.input = server.input /\ server'.defs = server.defs
        /\ server'.baseline = server.baseline
    BY <1>1, <1>2 DEF Server
  <1> QED BY <1>3 DEF Restorable, AfterTeardown, RunningAnywhere, time

LEMMA TimePassesStep ==
    ASSUME RunsIInv, TimePasses
    PROVE  RunsIInv'
  <1>1. /\ ~Headless /\ UNCHANGED <<client, cut, disturbed, own, strayed>>
        /\ server' = [server EXCEPT !.time = @ + 1]
    BY DEF TimePasses, runGhosts
  <1>2. Restorable(server, own, strayed) /\ WaitIsSteady
    BY DEF RunsIInv
  <1>3. /\ Restorable(server', own, strayed) /\ server'.registered = server.registered
        /\ server'.journal = server.journal /\ server'.timers = server.timers
    BY <1>1, <1>2, LaterRestores
  <1>4. WaitIsSteady'
    BY <1>1, <1>2, <1>3, WaitKept
  <1>5. Restorable(server', own', strayed')
    BY <1>1, <1>3
  <1> QED BY <1>1, <1>4, <1>5, NotHeadlessStep

-----------------------------------------------------------------------------
(* The waiting client                                                       *)

\* What the client is, by where it is.
LEMMA ClientCases ==
    ASSUME ClientOK
    PROVE  /\ client.at \in {"boot", "idle"} => client \in Headed
           /\ client.at \in {"step", "refresh"} => client \in InSteps({"step", "refresh"}, {"none"})
           /\ client.at = "stepped" /\ client.verdict # "error" =>
                  client \in InSteps({"stepped"}, {"passed", "failed"})
           /\ client.at \in {"length", "start"} => client \in Asking
           /\ client.at \in {"wait", "stop", "report"} =>
                  client \in Waiting({"wait", "stop", "report"}, {"none"})
           /\ client.at = "over" /\ client.verdict # "error" =>
                  client \in Waiting({"over"}, {"passed", "failed"})
  BY DEF ClientOK, Headed, InSteps, Asking, Waiting

LEMMA OverShape ==
    ASSUME ClientOK, client.at \in {"idle", "length", "start"}, Over("error")
    PROVE  client'.at = "over" /\ client'.verdict = "error"
  BY ClientCases DEF Over, Headed, Asking

\* A client that gave up gates on nothing.
LEMMA GaveUp ==
    ASSUME RunsIInv, client'.at = "over", client'.verdict = "error",
           Restorable(server', own', strayed')
    PROVE  RunsIInv'
  <1>1. ClientOK'
    BY DEF ClientOK
  <1>2. WaitIsSteady'
    BY DEF WaitIsSteady
  <1> QED BY <1>1, <1>2, NotStepped

LEMMA ResolveStep ==
    ASSUME RunsIInv, NEW name \in Names, NEW asked, NEW until \in Untils,
           Resolve(name, asked, until)
    PROVE  RunsIInv'
  <1>1. /\ client.at = "idle" /\ server' = server /\ own' = own /\ strayed' = strayed
        /\ ClientOK /\ Restorable(server, own, strayed)
    BY DEF Resolve, RunsIInv
  <1>2. Restorable(server', own', strayed')
    BY <1>1
  <1>3. CASE Over("error")
    BY <1>1, <1>2, <1>3, OverShape, GaveUp
  <1>4. CASE /\ Chosen(asked) \in server.registered /\ Chosen(asked) = Lowest(server.registered)
             /\ client' = [at |-> "length", verdict |-> "none", name |-> name,
                           mg |-> Chosen(asked), for |-> until]
    <2>1. client' \in Asking
      <3>1. until \in Offset /\ Chosen(asked) \in Mgs
        BY <1>1, <1>4, RunsAssumption DEF Restorable, Server, Offset
      <3> QED BY <1>4, <3>1 DEF Asking
    <2>2. client'.at = "length" /\ client'.mg = Lowest(server.registered)
      BY <1>4
    <2>3. WaitIsSteady'
      BY <1>1, <2>2 DEF WaitIsSteady
    <2>4. ClientOK'
      BY <2>1 DEF ClientOK
    <2> QED BY <1>2, <2>2, <2>3, <2>4, NotStepped
  <1> QED BY <1>3, <1>4 DEF Resolve

LEMMA WaitLengthStep ==
    ASSUME RunsIInv, WaitLength
    PROVE  RunsIInv'
  <1>1. /\ client.at = "length" /\ server' = server /\ own' = own /\ strayed' = strayed
        /\ disturbed' = disturbed
        /\ ClientOK /\ Restorable(server, own, strayed) /\ WaitIsSteady
    BY DEF WaitLength, RunsIInv, runGhosts
  <1>2. client \in Asking
    BY <1>1, ClientCases
  <1>3. Restorable(server', own', strayed')
    BY <1>1
  <1>4. CASE Over("error")
    BY <1>1, <1>3, <1>4, OverShape, GaveUp
  <1>5. ASSUME ~Over("error")
        PROVE  RunsIInv'
    <2>1. PICK for \in Offset : client' = [client EXCEPT !.at = "start", !.for = for]
      <3>1. CASE client.for # Never
        <4>1. client' = [client EXCEPT !.at = "start", !.for = client.for]
          BY <1>2, <3>1 DEF WaitLength, Asking
        <4>2. client.for \in Offset
          BY <1>2 DEF Asking
        <4> QED BY <4>1, <4>2
      <3>2. CASE client.for = Never
        <4>1. /\ Known(client.name)
              /\ client' = [client EXCEPT !.at = "start", !.for = server.defs[client.name].length]
          BY <1>5, <3>2 DEF WaitLength, View
        <4>2. server.defs[client.name] \in Definition
          BY <1>1, <1>2, <4>1, KnownShape DEF Known, Restorable, Asking
        <4>3. server.defs[client.name].length \in Offset
          BY <4>2 DEF Definition, Offset
        <4> QED BY <4>1, <4>3
      <3> QED BY <3>1, <3>2
    <2>2. client' \in Asking /\ client'.at = "start" /\ client'.mg = client.mg
      BY <1>2, <2>1 DEF Asking
    <2>3. WaitIsSteady'
      BY <1>1, <2>2 DEF WaitIsSteady
    <2>4. ClientOK'
      BY <2>2 DEF ClientOK
    <2> QED BY <1>3, <2>2, <2>3, <2>4, NotStepped
  <1> QED BY <1>4, <1>5

\* What a run that works starts with: its own timers, and the drive.
LEMMA RunWorks ==
    ASSUME Restorable(server, own, strayed), NEW name \in Names, Works(name),
           NEW d, d = RunOf(server, name), NEW def, def = server.defs[name]
    PROVE  /\ d \in Server /\ def \in Definition /\ Same(d, server)
           /\ d.timers = Armed(server, def)
           /\ \A id \in server.registered : d.journal[id] = OpenedAt(name, server.time)
           /\ d.input[Lowest(server.registered)] =
                  IF def.drive = Never THEN Started(server, name).input[Lowest(server.registered)]
                  ELSE def.drive
  <1> DEFINE s == Started(server, name)
             id == Lowest(server.registered)
  <1>1. /\ server.registered # {} /\ id \in Mgs /\ Known(name) /\ def.breaks = "nowhere"
    BY LowestShape DEF Restorable, Server, Works
  <1>2. /\ Same(d, server) /\ def \in Definition
        /\ d = Sections(s, def)
        /\ \A i \in server.registered : d.journal[i] = OpenedAt(name, server.time)
    BY <1>1, RunRestores
  <1>3. s \in Server /\ Same(s, server) /\ s.timers = {}
    BY StartRestores
  <1> HIDE DEF s
  <1>4. s.registered = server.registered /\ s.registered # {}
    BY <1>1, <1>3 DEF Same
  <1>5. d \in Server
    BY <1>2, <1>3, <1>4, SectionsShape
  <1>6. /\ d.timers = s.timers \cup Armed(s, def)
        /\ d.input[id] = IF def.drive = Never THEN s.input[id] ELSE def.drive
    <2>1. id = Lowest(s.registered)
      BY <1>4
    <2> HIDE DEF id
    <2>2. s \in Server /\ s.registered # {} /\ def \in Definition /\ def.breaks = "nowhere"
          /\ d = Sections(s, def)
      BY <1>1, <1>2, <1>3, <1>4
    <2>3. d.timers = s.timers \cup Armed(s, def)
      BY ONLY <2>2, SectionsWork
    <2>4. /\ def.drive = Never => d.input[Lowest(s.registered)] = s.input[Lowest(s.registered)]
          /\ def.drive # Never => d.input[Lowest(s.registered)] = def.drive
      BY ONLY <2>2, SectionsWork
    <2> QED BY <2>1, <2>3, <2>4
  <1>7. Armed(s, def) = Armed(server, def)
    BY <1>3 DEF Armed, Same
  <1> QED BY <1>2, <1>3, <1>5, <1>6, <1>7 DEF s, id

\* Every check of a definition is armed.
LEMMA ChecksAreArmed ==
    ASSUME NEW s, NEW def, NEW c \in def.checks
    PROVE  CheckTimer(c, s.time) \in Armed(s, def)
  BY DEF Armed, CheckTimer

LEMMA PostStartStep ==
    ASSUME RunsIInv, PostStart
    PROVE  RunsIInv'
  <1> DEFINE name == client.name
             def == server.defs[name]
             d == RunOf(server, name)
  <1>1. /\ client.at = "start" /\ server' = d /\ disturbed' = disturbed
        /\ own' = [id \in Mgs |-> IF id \in strayed THEN server.input[id] ELSE own[id]]
        /\ strayed' = {}
        /\ ClientOK /\ Restorable(server, own, strayed) /\ WaitIsSteady
    BY DEF PostStart, Resumes, RunsIInv
  <1>2. client \in Asking /\ name \in Names
    BY <1>1, ClientCases DEF Asking
  <1>3. Restorable(server', own', strayed')
    BY <1>1, <1>2, RunRestores
  <1>4. CASE ~Works(client.name)
    BY <1>1, <1>3, <1>4, OverShape, GaveUp DEF PostStart
  <1>5. CASE Works(client.name)
    <2>1. client' = [at |-> "wait", verdict |-> "none", name |-> name, mg |-> client.mg,
                     for |-> client.for, waited |-> 0, polled |-> server.time, of |-> def]
      BY <1>5 DEF PostStart
    <2>2. /\ d \in Server /\ def \in Definition /\ Same(d, server)
          /\ d.timers = Armed(server, def)
          /\ \A id \in server.registered : d.journal[id] = OpenedAt(name, server.time)
      BY <1>1, <1>2, <1>5, RunWorks
    <2>3. server.time \in Nat /\ server.registered \in SUBSET Mgs /\ server.registered # {}
      BY <1>1 DEF Restorable, Server
    <2>4. client' \in Waiting({"wait", "stop", "report"}, {"none"})
      BY <1>2, <2>1, <2>2, <2>3 DEF Waiting, Asking
    <2> HIDE DEF d, def
    <2>5. ASSUME ~disturbed
          PROVE  LET j == server'.journal[client.mg]
                 IN  /\ client.mg = Lowest(server'.registered)
                     /\ j.name = name /\ Running(j)
                     /\ \A c \in def.checks : CheckTimer(c, j.started) \in server'.timers
      <3>1. client.mg = Lowest(server.registered) /\ client.mg \in server.registered
        BY <1>1, <2>3, <2>5, LowestShape DEF WaitIsSteady
      <3>2. server'.journal[client.mg] = OpenedAt(name, server.time)
        BY <1>1, <2>2, <3>1
      <3>3. \A c \in def.checks : CheckTimer(c, server.time) \in server'.timers
        BY <1>1, <2>2, ChecksAreArmed
      <3> QED BY <1>1, <1>2, <2>2, <2>3, <3>1, <3>2, <3>3, OpenedShape DEF Same
    <2>6. client'.at = "wait" /\ client'.mg = client.mg /\ client'.name = name /\ client'.of = def
      BY <2>1
    <2>7. WaitIsSteady'
      BY <1>1, <2>5, <2>6 DEF WaitIsSteady
    <2>8. ClientOK'
      BY <2>4 DEF ClientOK
    <2> QED BY <1>3, <2>6, <2>7, <2>8, NotStepped
  <1> QED BY <1>4, <1>5

LEMMA PollRunStep ==
    ASSUME RunsIInv, NEW answered \in BOOLEAN, PollRun(answered)
    PROVE  RunsIInv'
  <1>1. /\ client.at = "wait" /\ UNCHANGED <<server, own, strayed, disturbed, cut>>
        /\ ClientOK /\ Restorable(server, own, strayed) /\ WaitIsSteady
    BY DEF PollRun, RunsIInv, runGhosts
  <1>2. client \in Waiting({"wait", "stop", "report"}, {"none"})
    BY <1>1, ClientCases
  <1>3. PICK at \in {"wait", "stop"} :
            client' = [client EXCEPT !.polled = server.time, !.waited = client.waited + 1, !.at = at]
    BY <1>2 DEF PollRun, Waiting
  <1> DEFINE waited == client.waited + 1
             polled == server.time
  <1>4. /\ polled \in Nat /\ waited \in Nat
        /\ client' = [client EXCEPT !.polled = polled, !.waited = waited, !.at = at]
    BY <1>1, <1>2, <1>3 DEF Restorable, Server, Waiting
  <1> HIDE DEF waited, polled
  <1>5. /\ client' \in Waiting({"wait", "stop", "report"}, {"none"})
        /\ client'.at \in {"wait", "stop"} /\ client'.mg = client.mg /\ client'.name = client.name
        /\ client'.of = client.of
    BY <1>2, <1>4 DEF Waiting
  <1>6. ClientOK'
    BY <1>5 DEF ClientOK
  <1>7. WaitIsSteady'
    BY <1>1, <1>5 DEF WaitIsSteady, Told
  <1>8. Restorable(server', own', strayed')
    BY <1>1
  <1> QED BY <1>5, <1>6, <1>7, <1>8, NotStepped

LEMMA PostStopStep ==
    ASSUME RunsIInv, PostStop
    PROVE  RunsIInv'
  <1>1. /\ client.at = "stop" /\ server' = Stopped(server) /\ own' = own /\ disturbed' = disturbed
        /\ client' = [client EXCEPT !.at = "report"]
        /\ cut' = \E t \in Due : t.does = "check"
        /\ strayed' = {id \in strayed : server.baseline[id] = Never}
        /\ ClientOK /\ Restorable(server, own, strayed) /\ WaitIsSteady
    BY DEF PostStop, RunsIInv
  <1>2. client \in Waiting({"wait", "stop", "report"}, {"none"})
    BY <1>1, ClientCases
  <1>3. /\ client' \in Waiting({"wait", "stop", "report"}, {"none"})
        /\ client'.at = "report" /\ client'.mg = client.mg /\ client'.name = client.name
        /\ client'.of = client.of /\ client'.for = client.for
    BY <1>1, <1>2 DEF Waiting
  <1>4. ClientOK'
    BY <1>3 DEF ClientOK
  <1>5. Restorable(server', own', strayed')
    <2>1. /\ Restorable(Stopped(server), own, strayed)
          /\ \A id \in strayed : server.baseline[id] = Never
      BY <1>1, StopRestores
    <2>2. \A id : id \in strayed' <=> id \in strayed
      BY <1>1, <2>1
    <2>3. strayed' = strayed
      BY <2>2
    <2> QED BY <1>1, <2>1, <2>3
  <1>6. ASSUME ~disturbed
        PROVE  LET j == server'.journal[client.mg]
               IN  /\ j.name = client.name /\ j.started # Never /\ j.ended # Never
                   /\ server'.timers = {}
                   /\ ~cut' /\ j.ended - j.started >= client.for =>
                        \A c \in client.of.checks :
                            c.at <= client.for => Told(server', client.mg, c.at)
    <2> DEFINE i == server.journal[client.mg]
               j == server'.journal[client.mg]
    <2>1. /\ server \in Server /\ server.registered \in SUBSET Mgs /\ server.registered # {}
          /\ server.time \in Nat
      BY <1>1 DEF Restorable, Server
    <2>2. /\ client.mg = Lowest(server.registered) /\ i.name = client.name /\ Running(i)
          /\ \A c \in client.of.checks :
                CheckTimer(c, i.started) \in server.timers \/ Told(server, client.mg, c.at)
      BY <1>1, <1>6 DEF WaitIsSteady
    <2>3. client.mg \in server.registered /\ client.mg \in Mgs
      BY <2>1, <2>2, LowestShape
    <2>4. i \in Journal
      BY <2>1, <2>3 DEF Server
    <2>5. server'.timers = {} /\ j = EndedAt(i, server.time)
      BY <1>1, <2>1, <2>2, <2>3, StoppedShape DEF Running
    <2>6. /\ j.name = i.name /\ j.started = i.started /\ j.ended = server.time
          /\ j.results = i.results
      BY <2>4, <2>5 DEF EndedAt, Journal
    <2>7. i.started # Never /\ i.started \in Nat /\ server.time # Never
      BY <2>1, <2>2, <2>4 DEF Running, Journal, Offset, Never
    <2>8. ASSUME ~cut', j.ended - j.started >= client.for, NEW c \in client.of.checks,
                 c.at <= client.for
          PROVE  Told(server', client.mg, c.at)
      <3>1. client.for \in Int /\ c.at \in Nat
        BY <1>2 DEF Waiting, Definition, Offset, Never
      <3>2. CheckTimer(c, i.started).due = i.started + c.at /\ CheckTimer(c, i.started).does = "check"
        BY DEF CheckTimer
      <3>3. CheckTimer(c, i.started).due <= server.time
        BY <2>1, <2>6, <2>7, <2>8, <3>1, <3>2
      <3>4. CheckTimer(c, i.started) \notin server.timers
        BY <1>1, <2>8, <3>2, <3>3 DEF Due
      <3>5. Told(server, client.mg, c.at)
        BY <2>2, <3>4
      <3> QED BY <2>6, <3>5 DEF Told
    <2> HIDE DEF i, j
    <2>9. /\ j.name = client.name /\ j.started # Never /\ j.ended # Never /\ server'.timers = {}
      BY <2>2, <2>5, <2>6, <2>7
    <2> QED BY <2>8, <2>9 DEF j
  <1>7. WaitIsSteady'
    BY <1>1, <1>3, <1>6 DEF WaitIsSteady
  <1> QED BY <1>3, <1>4, <1>5, <1>7, NotStepped

LEMMA ReportStep ==
    ASSUME RunsIInv, Report
    PROVE  RunsIInv'
  <1> DEFINE j == server.journal[client.mg]
  <1>1. /\ client.at = "report" /\ UNCHANGED <<server, own, strayed, disturbed, cut>>
        /\ client' = [client EXCEPT !.at = "over", !.verdict = Verdict(j)]
        /\ ClientOK /\ Restorable(server, own, strayed) /\ WaitIsSteady
    BY DEF Report, Over, RunsIInv, runGhosts
  <1>2. client \in Waiting({"wait", "stop", "report"}, {"none"})
    BY <1>1, ClientCases
  <1>3. Verdict(j) \in {"passed", "failed"} /\ (Verdict(j) = "failed") = Failed(j)
    BY DEF Verdict, Failed
  <1>4. /\ client' \in Waiting({"over"}, {"passed", "failed"})
        /\ client'.at = "over" /\ client'.verdict = Verdict(j) /\ client'.mg = client.mg
        /\ client'.name = client.name /\ client'.of = client.of /\ client'.for = client.for
    BY <1>1, <1>2, <1>3 DEF Waiting
  <1>5. ClientOK'
    BY <1>4 DEF ClientOK
  <1>6. WaitIsSteady'
    BY <1>1, <1>2, <1>3, <1>4 DEF WaitIsSteady, Told, Failed, Waiting
  <1>7. Restorable(server', own', strayed')
    BY <1>1
  <1> QED BY <1>4, <1>5, <1>6, <1>7, NotStepped

-----------------------------------------------------------------------------
(* The stepped run                                                          *)

\* What falls by the end of a round has a round no later.
LEMMA RoundOf ==
    ASSUME NEW at \in Nat, NEW dt \in Nat \ {0}
    PROVE  /\ Rounds(at, dt) \in Nat \ {0}
           /\ \A k \in Nat \ {0} : (Rounds(at, dt) <= k) <=> (at <= k * dt)
  <1>1. CASE at = 0
    <2>1. Rounds(at, dt) = 1
      BY <1>1 DEF Rounds
    <2>2. \A k \in Nat \ {0} : k * dt >= 0
      OBVIOUS
    <2> QED BY <1>1, <2>1, <2>2
  <1>2. CASE at # 0
    <2> DEFINE q == (at + dt - 1) \div dt
    <2>1. Rounds(at, dt) = q
      BY <1>2 DEF Rounds
    <2>2. q \in Int /\ q * dt <= at + dt - 1 /\ at + dt - 1 < q * dt + dt
      OBVIOUS
    <2> HIDE DEF q
    <2>3. q >= 1
      <3>1. q <= 0 => q * dt <= 0
        BY <2>2
      <3> QED BY <1>2, <2>2, <3>1
    <2>4. ASSUME NEW k \in Nat \ {0}
          PROVE  (q <= k) <=> (at <= k * dt)
      <3>1. q <= k => q * dt <= k * dt
        BY <2>2
      <3>2. q > k => (q - 1) * dt >= k * dt
        BY <2>2
      <3>3. (q - 1) * dt = q * dt - dt
        BY <2>2
      <3>4. k * dt \in Int /\ q * dt \in Int
        BY <2>2
      <3> QED BY <2>2, <3>1, <3>2, <3>3, <3>4
    <2> QED BY <2>1, <2>2, <2>3, <2>4
  <1> QED BY <1>1, <1>2

\* What a timer tells stays told, and journals keep their names and times.
LEMMA FireTells ==
    ASSUME NEW s \in Server, s.registered # {}, NEW t \in s.timers, NEW d, d = Fired(s, t)
    PROVE  /\ \A i \in Mgs : /\ d.journal[i].name = s.journal[i].name
                            /\ d.journal[i].started = s.journal[i].started
                            /\ d.journal[i].ended = s.journal[i].ended
           /\ \A c, from : \/ CheckTimer(c, from) \in s.timers
                          \/ Told(s, Lowest(s.registered), c.at)
                          => \/ CheckTimer(c, from) \in d.timers
                             \/ Told(d, Lowest(s.registered), c.at)
  <1> DEFINE id == Lowest(s.registered)
  <1>1. /\ id \in Mgs /\ t.does \in {"drive", "check"}
        /\ d.timers = TimersAfter(s, t)
        /\ t.does = "drive" => d.journal = s.journal
        /\ t.does = "check" =>
            /\ \A i \in Mgs : i # id => d.journal[i] = s.journal[i]
            /\ d.journal[id].name = s.journal[id].name
            /\ d.journal[id].started = s.journal[id].started
            /\ d.journal[id].ended = s.journal[id].ended
            /\ d.journal[id].results =
                    s.journal[id].results \cup {[at |-> t.at, passed |-> AsWanted(s, t)]}
    BY LowestShape, FiredShape DEF Server, Timer
  <1> HIDE DEF id
  <1>2. \A i \in Mgs : /\ d.journal[i].name = s.journal[i].name
                       /\ d.journal[i].started = s.journal[i].started
                       /\ d.journal[i].ended = s.journal[i].ended
    BY <1>1
  <1>3. s.timers \ {t} \subseteq d.timers
    BY <1>1 DEF TimersAfter
  <1>4. \A at : Told(s, id, at) => Told(d, id, at)
    BY <1>1 DEF Told
  <1>5. t.does = "check" => Told(d, id, t.at)
    <2> DEFINE r == [at |-> t.at, passed |-> AsWanted(s, t)]
    <2>1. r.at = t.at /\ (t.does = "check" => r \in d.journal[id].results)
      BY <1>1
    <2> QED BY <2>1 DEF Told
  <1>6. \A c, from : CheckTimer(c, from).does = "check" /\ CheckTimer(c, from).at = c.at
    BY DEF CheckTimer
  <1>7. \A c, from : CheckTimer(c, from) \in s.timers =>
                        CheckTimer(c, from) \in d.timers \/ Told(d, id, c.at)
    BY <1>3, <1>5, <1>6
  <1> QED BY <1>2, <1>4, <1>7 DEF id

\* In a round the timers that are due are of that round, the cues that fired
\* of one no later, and those still to fire of one no earlier.
LEMMA RoundNow ==
    ASSUME NEW def, NEW s \in Server, NEW dt \in Nat \ {0}, NEW elapsed \in Nat,
           RunIsSteady(def, s, dt, elapsed, "refresh")
    PROVE  \E k \in Nat \ {0} :
             /\ elapsed > 0
             /\ \A t \in s.timers, at \in Nat :
                    /\ t.due = at => Rounds(at, dt) >= k
                    /\ t.due = at /\ at <= elapsed => Rounds(at, dt) = k
             /\ \A at \in Nat : at <= elapsed => Rounds(at, dt) <= k
  <1>1. PICK n \in 0..(elapsed - dt) : elapsed - dt = n * dt
    BY DEF RunIsSteady
  <1> DEFINE k == n + 1
  <1>2. k \in Nat \ {0} /\ n \in Nat /\ k * dt = n * dt + dt
    BY <1>1
  <1>3. elapsed = k * dt /\ elapsed > 0 /\ n * dt = elapsed - dt
    BY <1>1, <1>2
  <1>4. \A at \in Nat : at <= elapsed => Rounds(at, dt) <= k
    BY <1>2, <1>3, RoundOf
  <1>5. ASSUME NEW t \in s.timers, t.due \in Nat
        PROVE  Rounds(t.due, dt) >= k
    <2>1. t.due <= elapsed - dt => elapsed - dt = 0
      BY DEF RunIsSteady
    <2>2. Rounds(t.due, dt) \in Nat \ {0}
      BY <1>5, RoundOf
    <2>3. CASE n = 0
      BY <2>2, <2>3
    <2>4. CASE n # 0
      <3>1. n \in Nat \ {0} /\ n * dt > 0
        BY <1>2, <2>4
      <3>2. ~(t.due <= n * dt)
        BY <1>3, <2>1, <3>1
      <3>3. ~(Rounds(t.due, dt) <= n)
        BY <1>5, <3>1, <3>2, RoundOf
      <3> QED BY <1>2, <2>2, <3>3
    <2> QED BY <2>3, <2>4
  <1> HIDE DEF k
  <1>6. \A at \in Nat : Rounds(at, dt) \in Nat
    BY RoundOf
  <1> QED BY <1>2, <1>3, <1>4, <1>5, <1>6

\* Of cues in rounds of their own, the one with the latest is what is left.
LEMMA LatestIsLeft ==
    ASSUME NEW def, NEW cues, NEW q \in cues, q.at \in Nat,
           \A o \in cues : o.at \in Nat /\ (o # q => o.at < q.at)
    PROVE  LeftBy(def, cues) = q.to
  <1>1. \A o \in cues : o.at <= q.at
    OBVIOUS
  <1>2. \A c \in cues : (\A o \in cues : o.at <= c.at) => c = q
    OBVIOUS
  <1>3. (CHOOSE c \in cues : \A o \in cues : o.at <= c.at) = q
    BY <1>1, <1>2
  <1>4. cues # {}
    OBVIOUS
  <1> QED BY <1>3, <1>4 DEF LeftBy

\* What a definition is made of.
LEMMA DefinitionParts ==
    ASSUME NEW def \in Definition
    PROVE  /\ \A c \in def.cues : c \in [at : Nat, to : Nat] /\ c.at \in Nat /\ c.to \in Nat
           /\ \A c \in def.checks : c.at \in Nat /\ c.wants \in Nat
  BY DEF Definition

\* Cues are told apart by their timers, and no cue's timer is a check's.
LEMMA CueTimersDiffer ==
    ASSUME NEW c \in [at : Nat, to : Nat], NEW o \in [at : Nat, to : Nat], NEW x
    PROVE  /\ CueTimer(c) = CueTimer(o) => c = o
           /\ CueTimer(c) # CheckTimer(x, 0)
           /\ CueTimer(c).does = "drive" /\ CueTimer(c).every = 0 /\ CueTimer(c).value = c.to
           /\ CueTimer(c).due = c.at
  <1>1. /\ CueTimer(c).does = "drive" /\ CueTimer(c).every = 0 /\ CueTimer(c).value = c.to
        /\ CueTimer(c).due = c.at /\ CueTimer(c).at = c.at
        /\ CueTimer(o).value = o.to /\ CueTimer(o).at = o.at
        /\ CheckTimer(x, 0).does = "check"
    BY DEF CueTimer, CheckTimer
  <1>2. CueTimer(c) = CueTimer(o) => c.at = o.at /\ c.to = o.to
    BY <1>1
  <1>3. c.at = o.at /\ c.to = o.to => c = o
    OBVIOUS
  <1> QED BY <1>1, <1>2, <1>3

\* A check that tells in its round tells of what the cues of earlier rounds
\* left: those that fired.
LEMMA FiredAreEarlier ==
    ASSUME NEW def, NEW s \in Server, NEW dt \in Nat \ {0}, NEW elapsed \in Nat,
           RunIsSteady(def, s, dt, elapsed, "refresh"), Orderly(def, dt),
           NEW at \in Nat, NEW t \in s.timers, t.due = at, at <= elapsed,
           \A o \in def.cues : Rounds(o.at, dt) # Rounds(at, dt)
    PROVE  FiredCues(def, s) = {c \in def.cues : Rounds(c.at, dt) < Rounds(at, dt)}
  <1>1. PICK k \in Nat \ {0} :
             /\ \A u \in s.timers, n \in Nat :
                    /\ u.due = n => Rounds(n, dt) >= k
                    /\ u.due = n /\ n <= elapsed => Rounds(n, dt) = k
             /\ \A n \in Nat : n <= elapsed => Rounds(n, dt) <= k
    BY RoundNow
  <1>2. Rounds(at, dt) = k
    BY <1>1
  <1>3. def \in Definition /\ \A c \in FiredCues(def, s) : c.at <= elapsed
    BY DEF RunIsSteady
  <1>4. ASSUME NEW c \in def.cues
        PROVE  c \in FiredCues(def, s) <=> Rounds(c.at, dt) < k
    <2>1. c.at \in Nat /\ Rounds(c.at, dt) \in Nat
      BY <1>3, DefinitionParts, RoundOf
    <2>2. CASE c \in FiredCues(def, s)
      <3>1. Rounds(c.at, dt) <= k /\ Rounds(c.at, dt) # k
        BY <1>1, <1>2, <1>3, <2>1, <2>2
      <3> QED BY <2>1, <2>2, <3>1
    <2>3. CASE c \notin FiredCues(def, s)
      <3>1. CueTimer(c) \in s.timers /\ CueTimer(c).due = c.at
        BY <2>3 DEF FiredCues, CueTimer
      <3>2. Rounds(c.at, dt) >= k
        BY <1>1, <2>1, <3>1
      <3> QED BY <2>1, <2>3, <3>2
    <2> QED BY <2>2, <2>3
  <1>5. FiredCues(def, s) \subseteq def.cues
    BY DEF FiredCues
  <1> QED BY <1>2, <1>4, <1>5

\* What a timer that fires in an orderly round leaves of the cues and of what
\* the checks saw.
LEMMA FireCue ==
    ASSUME NEW def, NEW s \in Server, s.registered # {}, NEW dt \in Nat \ {0}, NEW elapsed \in Nat,
           RunIsSteady(def, s, dt, elapsed, "refresh"), Orderly(def, dt),
           NEW t \in s.timers, t.due <= elapsed, t.does = "drive", NEW d, d = Fired(s, t)
    PROVE  /\ \A c \in FiredCues(def, d) : c.at <= elapsed
           /\ d.input[Lowest(s.registered)] = LeftBy(def, FiredCues(def, d))
           /\ d.journal = s.journal
  <1> DEFINE id == Lowest(s.registered)
  <1>1. def \in Definition /\ \A c \in FiredCues(def, s) : c.at <= elapsed
    BY DEF RunIsSteady
  <1>2. PICK q \in def.cues : t = CueTimer(q)
    BY DEF RunIsSteady
  <1>3. /\ \A c \in def.cues : c \in [at : Nat, to : Nat] /\ c.at \in Nat /\ c.to \in Nat
        /\ t.every = 0 /\ t.value = q.to /\ t.due = q.at /\ q.at \in Nat /\ q.to \in Nat
    BY <1>1, <1>2, DefinitionParts, CueTimersDiffer
  <1>4. d \in Server /\ d.timers = s.timers \ {t} /\ d.journal = s.journal
    <2>1. d \in Server /\ d.timers = TimersAfter(s, t) /\ d.journal = s.journal
      BY FiredShape
    <2> QED BY <1>3, <2>1 DEF TimersAfter
  <1>5. d.input[id] = q.to
    <2> DEFINE m == WithTimers(s, TimersAfter(s, t))
               value == t.value
    <2>1. d = DriveInput(m, id, value) /\ value = q.to
      BY <1>3, FiredDrives
    <2>2. m \in Server
      <3>1. TimersAfter(s, t) \in SUBSET Timer
        BY <1>3 DEF TimersAfter, Server
      <3> QED BY <3>1 DEF WithTimers, Server
    <2>3. id \in Mgs /\ value \in Nat
      BY <1>3, <2>1, LowestShape DEF Server
    <2> HIDE DEF m, id, value
    <2>4. d.input[id] = value
      BY <2>1, <2>2, <2>3, DriveShape
    <2> QED BY <2>1, <2>4
  <1>6. q \notin FiredCues(def, s) /\ FiredCues(def, d) = FiredCues(def, s) \cup {q}
    <2>1. ASSUME NEW c \in def.cues
          PROVE  CueTimer(c) \notin d.timers <=> CueTimer(c) \notin s.timers \/ c = q
      <3>1. CueTimer(c) = t => c = q
        BY <1>2, <1>3, CueTimersDiffer
      <3> QED BY <1>2, <1>4, <3>1
    <2> QED BY <1>2, <2>1 DEF FiredCues
  <1>7. \A o \in FiredCues(def, d) : o.at \in Nat /\ (o # q => o.at < q.at)
    <2> SUFFICES ASSUME NEW o \in FiredCues(def, d), o # q
                 PROVE  o.at < q.at
      BY <1>3 DEF FiredCues
    <2>1. o \in FiredCues(def, s) /\ o \in def.cues /\ o.at \in Nat /\ o.at <= elapsed
      BY <1>1, <1>3, <1>6 DEF FiredCues
    <2>2. PICK k \in Nat \ {0} :
               /\ \A u \in s.timers, n \in Nat :
                      /\ u.due = n => Rounds(n, dt) >= k
                      /\ u.due = n /\ n <= elapsed => Rounds(n, dt) = k
               /\ \A n \in Nat : n <= elapsed => Rounds(n, dt) <= k
      BY RoundNow
    <2>3. Rounds(q.at, dt) = k
      BY <1>3, <2>2
    <2>4. Rounds(o.at, dt) <= k /\ Rounds(o.at, dt) # k
      BY <2>1, <2>2, <2>3 DEF Orderly
    <2>5. Rounds(o.at, dt) \in Nat \ {0}
      BY <2>1, RoundOf
    <2> DEFINE r == Rounds(o.at, dt)
    <2>6. r \in Nat \ {0} /\ r < k /\ o.at <= r * dt
      <3>1. r \in Nat \ {0} /\ r < k /\ r <= r
        BY <2>4, <2>5
      <3>2. (r <= r) <=> (o.at <= r * dt)
        BY <2>1, <2>5, RoundOf
      <3> HIDE DEF r
      <3> QED BY <3>1, <3>2
    <2>7. ~(q.at <= r * dt)
      <3>1. ~(Rounds(q.at, dt) <= r)
        BY <2>3, <2>6
      <3> HIDE DEF r
      <3> QED BY <1>3, <2>6, <3>1, RoundOf
    <2> HIDE DEF r
    <2>8. r * dt \in Int
      BY <2>6
    <2> QED BY <1>3, <2>1, <2>6, <2>7, <2>8
  <1>8. LeftBy(def, FiredCues(def, d)) = q.to
    BY <1>3, <1>6, <1>7, LatestIsLeft
  <1>9. \A c \in FiredCues(def, d) : c.at <= elapsed
    BY <1>1, <1>3, <1>6
  <1> QED BY <1>4, <1>5, <1>8, <1>9

LEMMA FireCheck ==
    ASSUME NEW def, NEW s \in Server, s.registered # {}, NEW dt \in Nat \ {0}, NEW elapsed \in Nat,
           RunIsSteady(def, s, dt, elapsed, "refresh"), Orderly(def, dt),
           NEW t \in s.timers, t.due <= elapsed, t.does = "check", NEW d, d = Fired(s, t)
    PROVE  /\ FiredCues(def, d) = FiredCues(def, s)
           /\ d.input = s.input
           /\ SawWhatWasLeft(def, d.journal[Lowest(s.registered)].results, dt)
  <1> DEFINE id == Lowest(s.registered)
             j == s.journal[id]
             said == [at |-> t.at, passed |-> AsWanted(s, t)]
  <1>1. /\ def \in Definition /\ s.input[id] = LeftBy(def, FiredCues(def, s))
        /\ SawWhatWasLeft(def, j.results, dt)
    BY DEF RunIsSteady
  <1>2. PICK q \in def.checks : t = CheckTimer(q, 0)
    BY DEF RunIsSteady
  <1>3. /\ \A c \in def.checks : c.at \in Nat /\ c.wants \in Nat
        /\ t.every = 0 /\ t.value = q.wants /\ t.due = q.at /\ t.at = q.at /\ q.at \in Nat
    BY <1>1, <1>2, DefinitionParts DEF CheckTimer
  <1>4. d.timers = s.timers \ {t} /\ d.input = s.input /\ d.journal[id].results = j.results \cup {said}
    BY <1>3, FiredShape DEF TimersAfter
  <1>5. FiredCues(def, d) = FiredCues(def, s)
    <2>1. \A c \in def.cues : CueTimer(c) # t
      BY <1>1, <1>2, DefinitionParts, CueTimersDiffer
    <2> QED BY <1>4, <2>1 DEF FiredCues
  <1>6. ASSUME NEW c \in def.checks, NEW r \in d.journal[id].results, r.at = c.at, Alone(def, c, dt)
        PROVE  r.passed = (c.wants = Left(def, c.at, dt))
    <2>1. CASE r \in j.results
      BY <1>1, <1>6, <2>1 DEF SawWhatWasLeft
    <2>2. CASE r = said
      <3>1. r.at = q.at /\ r.passed = AsWanted(s, t)
        BY <1>3, <2>2
      <3>2. q = c
        BY <1>6, <3>1 DEF Alone
      <3>3. FiredCues(def, s) = {o \in def.cues : Rounds(o.at, dt) < Rounds(c.at, dt)}
        <4>1. \A o \in def.cues : Rounds(o.at, dt) # Rounds(c.at, dt)
          BY <1>6 DEF Alone
        <4> QED BY <1>3, <3>2, <4>1, FiredAreEarlier
      <3>4. s.input[id] = Left(def, c.at, dt)
        BY <1>1, <3>3 DEF Left
      <3>5. AsWanted(s, t) = (s.input[id] = q.wants)
        BY <1>3 DEF AsWanted
      <3> QED BY <3>1, <3>2, <3>4, <3>5
    <2> QED BY <1>4, <1>6, <2>1, <2>2
  <1>7. SawWhatWasLeft(def, d.journal[id].results, dt)
    BY <1>6 DEF SawWhatWasLeft
  <1> QED BY <1>4, <1>5, <1>7

\* A timer that fires between two steps keeps the run steady.
LEMMA FireSteady ==
    ASSUME NEW def, NEW s \in Server, s.registered # {}, NEW dt \in Nat \ {0}, NEW elapsed \in Nat,
           RunIsSteady(def, s, dt, elapsed, "refresh"),
           NEW t \in s.timers, t.due <= s.time, NEW d, d = Fired(s, t)
    PROVE  RunIsSteady(def, d, dt, elapsed, "refresh")
  <1> DEFINE id == Lowest(s.registered)
             before == elapsed - dt
  <1>1. /\ def \in Definition /\ s.time = elapsed /\ (\E n \in 0..before : before = n * dt)
        /\ \A u \in s.timers : u.due <= before => before = 0
        /\ \A c \in def.checks : CheckTimer(c, 0) \in s.timers \/ Told(s, id, c.at)
        /\ \A u \in s.timers : u.does = "check" => \E c \in def.checks : u = CheckTimer(c, 0)
        /\ \A r \in s.journal[id].results :
                elapsed > 0 /\ r.at <= elapsed /\ \E c \in def.checks : c.at = r.at
        /\ Orderly(def, dt) =>
            /\ \A u \in s.timers : u.does = "drive" => \E c \in def.cues : u = CueTimer(c)
            /\ \A c \in FiredCues(def, s) : c.at <= elapsed /\ elapsed > 0
            /\ s.input[id] = LeftBy(def, FiredCues(def, s))
            /\ SawWhatWasLeft(def, s.journal[id].results, dt)
    BY DEF RunIsSteady
  <1>2. t \in Timer /\ t.due \in Nat /\ t.every \in Nat /\ t.does \in {"drive", "check"} /\ t.due <= elapsed
    BY <1>1 DEF Server, Timer
  <1>3. elapsed > 0
    BY RoundNow
  <1>4. /\ d \in Server /\ Same(d, s) /\ d.timers = TimersAfter(s, t)
        /\ t.does = "drive" => d.journal = s.journal
        /\ t.does = "check" => d.journal[id].results =
               s.journal[id].results \cup {[at |-> t.at, passed |-> AsWanted(s, t)]}
    BY FiredShape
  <1>5. d.registered = s.registered /\ d.time = elapsed
    BY <1>1, <1>4 DEF Same
  <1>6. \A c \in def.checks : CheckTimer(c, 0) \in d.timers \/ Told(d, id, c.at)
    BY <1>1, FireTells
  <1>7. t.does = "check" => t.every = 0 /\ \E c \in def.checks : t.at = c.at /\ t.due = c.at
    <2>1. \A c \in def.checks : /\ CheckTimer(c, 0).every = 0 /\ CheckTimer(c, 0).at = c.at
                                /\ CheckTimer(c, 0).due = c.at
      BY <1>1, DefinitionParts DEF CheckTimer
    <2> QED BY <1>1, <2>1
  <1>8. \A u \in d.timers : u \in s.timers \/ (u.does = "drive" /\ u.due > elapsed /\ t.every # 0)
    <2>1. t.every # 0 => t.does = "drive" /\ Again(s, t).does = "drive" /\ Again(s, t).due > elapsed
      <3>1. Again(s, t).does = t.does /\ Again(s, t).due = s.time + t.every
        BY <1>2 DEF Again, Timer
      <3> QED BY <1>1, <1>2, <1>7, <3>1
    <2> QED BY <1>4, <2>1 DEF TimersAfter
  <1>9. \A u \in d.timers : u.due <= before => before = 0
    <2> SUFFICES ASSUME NEW u \in d.timers, u.due <= before PROVE before = 0
      OBVIOUS
    <2>1. u.due \in Nat
      BY <1>4 DEF Server, Timer
    <2> QED BY <1>1, <1>8, <2>1
  <1>10. \A u \in d.timers : u.does = "check" => \E c \in def.checks : u = CheckTimer(c, 0)
    BY <1>1, <1>8
  <1>11. \A r \in d.journal[id].results :
            elapsed > 0 /\ r.at <= elapsed /\ \E c \in def.checks : c.at = r.at
    <2> SUFFICES ASSUME NEW r \in d.journal[id].results
                 PROVE  r.at <= elapsed /\ \E c \in def.checks : c.at = r.at
      BY <1>3
    <2>1. CASE r \in s.journal[id].results
      BY <1>1, <2>1
    <2>2. CASE r \notin s.journal[id].results
      <3>1. t.does = "check" /\ r = [at |-> t.at, passed |-> AsWanted(s, t)]
        BY <1>2, <1>4, <2>2
      <3>2. r.at = t.at
        BY <3>1
      <3> QED BY <1>2, <1>7, <3>1, <3>2
    <2> QED BY <2>1, <2>2
  <1>12. /\ s \in Server /\ s.registered # {} /\ dt \in Nat \ {0} /\ elapsed \in Nat
         /\ RunIsSteady(def, s, dt, elapsed, "refresh")
         /\ t \in s.timers /\ t.due <= elapsed /\ d = Fired(s, t)
    BY <1>2
  <1>13. ASSUME Orderly(def, dt)
         PROVE  /\ \A u \in d.timers : u.does = "drive" => \E c \in def.cues : u = CueTimer(c)
                /\ \A c \in FiredCues(def, d) : c.at <= elapsed
                /\ d.input[id] = LeftBy(def, FiredCues(def, d))
                /\ SawWhatWasLeft(def, d.journal[id].results, dt)
    <2>1. CASE t.does = "drive"
      <3>1. /\ \A c \in FiredCues(def, d) : c.at <= elapsed
            /\ d.input[Lowest(s.registered)] = LeftBy(def, FiredCues(def, d))
            /\ d.journal = s.journal
        BY ONLY <1>12, <1>13, <2>1, FireCue
      <3>2. d.timers \subseteq s.timers
        <4>1. PICK c \in def.cues : t = CueTimer(c)
          BY <1>1, <1>13, <2>1
        <4>2. t.every = 0
          BY <4>1 DEF CueTimer
        <4> QED BY <1>4, <4>2 DEF TimersAfter
      <3> QED BY <1>1, <1>13, <3>1, <3>2
    <2>2. CASE t.does = "check"
      <3>1. /\ FiredCues(def, d) = FiredCues(def, s)
            /\ d.input = s.input
            /\ SawWhatWasLeft(def, d.journal[Lowest(s.registered)].results, dt)
        BY ONLY <1>12, <1>13, <2>2, FireCheck
      <3>2. d.timers \subseteq s.timers
        BY <1>4, <1>7, <2>2 DEF TimersAfter
      <3> QED BY <1>1, <1>13, <3>1, <3>2
    <2> QED BY <1>2, <2>1, <2>2
  <1> QED BY <1>1, <1>3, <1>5, <1>6, <1>9, <1>10, <1>11, <1>13 DEF RunIsSteady

\* A run in its steps is steady, and one that gave up says nothing.
LEMMA SteppedNow ==
    ASSUME client' \in InSteps({"step", "refresh"}, {"none"}),
           Restorable(server', own', strayed'),
           RunIsSteady(server'.defs[client'.name], server', client'.dt, client'.elapsed, client'.at),
           client'.elapsed - client'.dt < client'.for
    PROVE  RunsIInv'
  <1>1. client'.at \in {"step", "refresh"}
    BY DEF InSteps
  <1>2. ClientOK'
    BY DEF ClientOK, InSteps
  <1>3. SteppedIsSteady'
    BY DEF SteppedIsSteady
  <1>4. BootIsFresh' /\ SteppedIsTold' /\ StepsAreExact' /\ WaitIsSteady'
    BY <1>1 DEF BootIsFresh, SteppedIsTold, StepsAreExact, WaitIsSteady
  <1> QED BY <1>2, <1>3, <1>4 DEF RunsIInv

LEMMA SteppedGaveUp ==
    ASSUME client'.at = "stepped", client'.verdict = "error", Restorable(server', own', strayed')
    PROVE  RunsIInv'
  <1>1. client' \notin InSteps({"step", "refresh"}, {"none"})
    BY DEF InSteps
  <1>2. ClientOK'
    BY DEF ClientOK
  <1>3. SteppedIsSteady'
    BY <1>1 DEF SteppedIsSteady, InSteps
  <1>4. BootIsFresh' /\ SteppedIsTold' /\ StepsAreExact' /\ WaitIsSteady'
    BY DEF BootIsFresh, SteppedIsTold, StepsAreExact, WaitIsSteady
  <1> QED BY <1>2, <1>3, <1>4 DEF RunsIInv

LEMMA FireStep ==
    ASSUME RunsIInv, NEW t \in server.timers, Fire(t)
    PROVE  RunsIInv'
  <1>1. /\ t.due <= server.time /\ client.at # "step" /\ server' = Fired(server, t)
        /\ client' = client /\ disturbed' = disturbed /\ cut' = cut /\ own' = own
        /\ strayed' = strayed \cup {id \in Mgs : /\ server'.input[id] # server.input[id]
                                                 /\ ~Running(server.journal[id])}
    BY DEF Fire, Due, Strays
  <1>2. /\ Restorable(server, own, strayed) /\ ClientOK /\ BootIsFresh /\ SteppedIsSteady
        /\ SteppedIsTold /\ WaitIsSteady
    BY DEF RunsIInv
  <1>3. server \in Server /\ server.registered # {} /\ server.registered \in SUBSET Mgs
    BY <1>2 DEF Restorable, Server
  <1>4. Restorable(server', own', strayed')
    BY <1>1, <1>2, FireRestores
  <1>5. Same(server', server)
    BY <1>1, <1>3, FiredShape
  <1>6. CASE ~Headless
    <2> DEFINE id == Lowest(server.registered)
    <2>1. /\ \A i \in Mgs : /\ server'.journal[i].name = server.journal[i].name
                           /\ server'.journal[i].started = server.journal[i].started
                           /\ server'.journal[i].ended = server.journal[i].ended
          /\ \A c, from : \/ CheckTimer(c, from) \in server.timers
                         \/ Told(server, id, c.at)
                         => \/ CheckTimer(c, from) \in server'.timers
                            \/ Told(server', id, c.at)
      BY <1>1, <1>3, FireTells
    <2>2. id \in Mgs /\ Lowest(server'.registered) = id
      BY <1>3, <1>5, LowestShape DEF Same
    <2> HIDE DEF id
    <2>3. client.at \in {"report", "over"} /\ client.verdict # "error" => disturbed
      BY <1>2 DEF WaitIsSteady
    <2>4. client.at \in {"wait", "stop"} /\ ~disturbed =>
           LET j == server'.journal[client.mg]
           IN  /\ client.mg = Lowest(server'.registered)
               /\ j.name = client.name /\ Running(j)
               /\ \A c \in client.of.checks :
                      CheckTimer(c, j.started) \in server'.timers \/ Told(server', client.mg, c.at)
      <3> SUFFICES ASSUME client.at \in {"wait", "stop"}, ~disturbed
                   PROVE  LET j == server'.journal[client.mg]
                          IN  /\ client.mg = id
                              /\ j.name = client.name /\ Running(j)
                              /\ \A c \in client.of.checks :
                                     \/ CheckTimer(c, j.started) \in server'.timers
                                     \/ Told(server', client.mg, c.at)
        BY <2>2
      <3>1. /\ client.mg = id /\ server.journal[id].name = client.name /\ Running(server.journal[id])
            /\ \A c \in client.of.checks :
                 \/ CheckTimer(c, server.journal[id].started) \in server.timers
                 \/ Told(server, id, c.at)
        BY <1>2 DEF WaitIsSteady, id
      <3>2. /\ server'.journal[id].name = client.name /\ Running(server'.journal[id])
            /\ server'.journal[id].started = server.journal[id].started
        BY <2>1, <2>2, <3>1 DEF Running
      <3>3. \A c \in client.of.checks :
               \/ CheckTimer(c, server'.journal[id].started) \in server'.timers
               \/ Told(server', id, c.at)
        BY <2>1, <3>1, <3>2
      <3> QED BY <3>1, <3>2, <3>3
    <2>5. client.at \in {"length", "start"} /\ ~disturbed => client.mg = Lowest(server'.registered)
      BY <1>2, <2>2 DEF WaitIsSteady, id
    <2>6. WaitIsSteady'
      BY <1>1, <2>3, <2>4, <2>5 DEF WaitIsSteady
    <2> QED BY <1>1, <1>4, <1>6, <2>6, NotHeadlessStep
  <1>7. CASE client.at = "refresh"
    <2>1. client \in InSteps({"step", "refresh"}, {"none"})
      BY <1>2, <1>7, ClientCases
    <2>2. /\ RunIsSteady(server.defs[client.name], server, client.dt, client.elapsed, "refresh")
          /\ client.elapsed - client.dt < client.for
      BY <1>2, <1>7, <2>1 DEF SteppedIsSteady
    <2>3. client.dt \in Nat \ {0} /\ client.elapsed \in Nat
      BY <2>1, RunsAssumption DEF InSteps
    <2> DEFINE def == server.defs[client.name]
               dt == client.dt
               elapsed == client.elapsed
    <2>4. RunIsSteady(def, server', dt, elapsed, "refresh")
      <3> HIDE DEF def, dt, elapsed
      <3> QED BY <1>1, <1>3, <2>2, <2>3, FireSteady DEF def, dt, elapsed
    <2>5. server'.defs = server.defs
      BY <1>5 DEF Same
    <2> QED BY <1>1, <1>4, <1>7, <2>1, <2>2, <2>4, <2>5, SteppedNow
  <1>8. CASE client.at = "stepped"
    <2>1. client.verdict = "error"
      BY <1>2, <1>8 DEF SteppedIsTold
    <2> QED BY <1>1, <1>4, <1>8, <2>1, SteppedGaveUp
  <1>9. client.at # "boot"
    BY <1>2 DEF BootIsFresh
  <1> QED BY <1>1, <1>6, <1>7, <1>8, <1>9 DEF Headless

\* A run starts with every check and cue pending and the input it set.
LEMMA StartSteady ==
    ASSUME Restorable(server, own, strayed), server.time = 0,
           \A id \in Mgs : server.journal[id] = FreshJournal /\ server.input[id] = 0,
           NEW name \in Names, Works(name), NEW dt \in Nat \ {0},
           NEW d, d = RunOf(server, name), NEW def, def = server.defs[name]
    PROVE  RunIsSteady(def, d, dt, 0, "step")
  <1> DEFINE id == Lowest(server.registered)
  <1>1. /\ server \in Server /\ server.registered # {} /\ id \in server.registered /\ id \in Mgs
        /\ server.registered \in SUBSET Mgs
    BY LowestShape DEF Restorable, Server
  <1>2. /\ d \in Server /\ def \in Definition /\ Same(d, server)
        /\ d.timers = Armed(server, def)
        /\ \A i \in server.registered : d.journal[i] = OpenedAt(name, server.time)
        /\ d.input[id] = IF def.drive = Never THEN Started(server, name).input[id] ELSE def.drive
    BY RunWorks
  <1>3. Started(server, name).input[id] = 0
    <2>1. ~RunningAnywhere(server)
      BY <1>1 DEF RunningAnywhere, FreshJournal, Running
    <2>2. Started(server, name).input[id] = server.input[id]
      BY <1>1, <2>1, StartedShape
    <2> QED BY <1>1, <2>2
  <1>4. d.registered = server.registered /\ d.time = 0 /\ d.journal[id].results = {}
    BY <1>1, <1>2 DEF Same, OpenedAt
  <1> HIDE DEF id
  <1>5. /\ \A c \in def.cues : c.at \in Nat
        /\ \A c \in def.checks : c.at \in Nat
    BY <1>2, DefinitionParts
  <1>6. \A c \in def.checks : CheckTimer(c, 0) \in d.timers
    BY <1>2, ChecksAreArmed
  <1>7. ASSUME NEW t \in d.timers
        PROVE  \/ \E c \in def.cues : t = CueTimer(c)
               \/ \E c \in def.checks : t = CheckTimer(c, 0)
               \/ t.does = "drive" /\ def.agents # {}
    <2>1. \/ \E c \in def.cues : t = [does |-> "drive", at |-> c.at, due |-> 0 + c.at, value |-> c.to,
                                      every |-> 0]
          \/ \E c \in def.checks : t = [does |-> "check", at |-> c.at, due |-> 0 + c.at,
                                        value |-> c.wants, every |-> 0]
          \/ \E a \in def.agents : t = [does |-> "drive", at |-> a.every, due |-> 0 + a.every,
                                        value |-> a.to, every |-> a.every]
      BY <1>2 DEF Armed
    <2>2. \A c \in def.cues : 0 + c.at = c.at
      BY <1>5
    <2> QED BY <2>1, <2>2 DEF CueTimer, CheckTimer
  <1>8. \A c \in def.cues : CueTimer(c) \in d.timers
    <2> SUFFICES ASSUME NEW c \in def.cues PROVE CueTimer(c) \in d.timers
      OBVIOUS
    <2>1. CueTimer(c) = [does |-> "drive", at |-> c.at, due |-> 0 + c.at, value |-> c.to, every |-> 0]
      BY <1>5 DEF CueTimer
    <2>2. [does |-> "drive", at |-> c.at, due |-> 0 + c.at, value |-> c.to, every |-> 0]
             \in Armed(server, def)
      BY DEF Armed
    <2> QED BY <1>2, <2>1, <2>2
  <1>9. FiredCues(def, d) = {}
    BY <1>8 DEF FiredCues
  <1>10. d.input[id] = LeftBy(def, {})
    BY <1>2, <1>3 DEF LeftBy, id
  <1>11. \A t \in d.timers : t.does = "check" => \E c \in def.checks : t = CheckTimer(c, 0)
    BY <1>7 DEF CueTimer
  <1>12. Orderly(def, dt) => \A t \in d.timers : t.does = "drive" => \E c \in def.cues : t = CueTimer(c)
    BY <1>7 DEF CheckTimer, Orderly
  <1>13. SawWhatWasLeft(def, {}, dt)
    BY DEF SawWhatWasLeft
  <1>14. \E n \in 0..0 : 0 = n * dt
    <2>1. 0 \in 0..0 /\ 0 = 0 * dt
      OBVIOUS
    <2> QED BY <2>1
  <1>15. d.input[Lowest(d.registered)] = LeftBy(def, FiredCues(def, d))
         /\ d.journal[Lowest(d.registered)].results = {}
    BY <1>4, <1>9, <1>10 DEF id
  <1> QED BY <1>2, <1>4, <1>6, <1>9, <1>11, <1>12, <1>13, <1>14, <1>15 DEF RunIsSteady

LEMMA RunSteppedStep ==
    ASSUME RunsIInv, NEW name \in Names, NEW dt \in Clocks, NEW until \in Untils,
           RunStepped(name, dt, until)
    PROVE  RunsIInv'
  <1> DEFINE def == server.defs[name]
             for == IF until # Never \/ ~Known(name) THEN until ELSE server.defs[name].length
             d == RunOf(server, name)
  <1>1. /\ client.at = "boot" /\ own' = own /\ strayed' = strayed
        /\ Restorable(server, own, strayed) /\ ClientOK /\ BootIsFresh
    BY DEF RunStepped, RunsIInv, runGhosts
  <1>2. client \in Headed
    BY <1>1, ClientCases
  <1>3. /\ server.time = 0 /\ strayed = {}
        /\ \A id \in Mgs : server.journal[id] = FreshJournal /\ server.input[id] = 0
    BY <1>1 DEF BootIsFresh
  <1>4. Restorable(d, own, strayed)
    <2> DEFINE now == [id \in Mgs |-> IF id \in strayed THEN server.input[id] ELSE own[id]]
    <2>1. Restorable(d, now, {})
      BY <1>1, RunRestores
    <2>2. now = own
      BY <1>1, <1>3 DEF Restorable
    <2> HIDE DEF now, d
    <2> QED BY <1>3, <2>1, <2>2
  <1>5. CASE for = Never \/ ~Works(name)
    <2>1. /\ client' = [client EXCEPT !.at = "stepped", !.verdict = "error"]
          /\ server' = server \/ server' = d
      BY <1>5 DEF RunStepped
    <2> HIDE DEF d
    <2>2. client'.at = "stepped" /\ client'.verdict = "error"
      BY <1>2, <2>1 DEF Headed
    <2>3. Restorable(server', own', strayed')
      BY <1>1, <1>4, <2>1
    <2> QED BY <2>2, <2>3, SteppedGaveUp
  <1>6. CASE ~(for = Never \/ ~Works(name))
    <2>1. /\ client' = [at |-> "step", verdict |-> "none", name |-> name, dt |-> dt,
                        for |-> for, elapsed |-> 0]
          /\ server' = d /\ Works(name) /\ for # Never
      BY <1>6 DEF RunStepped
    <2>2. Known(name) /\ def \in Definition /\ Same(d, server)
      BY <1>1, <2>1, RunWorks DEF Works
    <2>3. for \in Nat
      <3>1. until \in Nat \cup {Never}
        BY RunsAssumption
      <3>2. server.defs[name].length \in Nat \cup {Never}
        BY <2>2 DEF Definition
      <3> QED BY <2>1, <2>2, <3>1, <3>2
    <2>4. dt \in Nat \ {0}
      BY RunsAssumption
    <2>5. RunIsSteady(def, d, dt, 0, "step")
      BY <1>1, <1>3, <2>1, <2>4, StartSteady
    <2> HIDE DEF for, d, def
    <2>6. /\ client' \in InSteps({"step", "refresh"}, {"none"})
          /\ client'.name = name /\ client'.dt = dt /\ client'.elapsed = 0 /\ client'.at = "step"
          /\ client'.for = for
      BY <2>1, <2>3 DEF InSteps
    <2>7. server'.defs[name] = def
      BY <2>1, <2>2 DEF Same, def
    <2>8. Restorable(server', own', strayed')
      BY <1>1, <1>4, <2>1
    <2>9. 0 - dt < for
      BY <2>3, <2>4
    <2>10. RunIsSteady(server'.defs[client'.name], server', client'.dt, client'.elapsed, client'.at)
      BY <2>1, <2>5, <2>6, <2>7
    <2>11. client'.elapsed - client'.dt < client'.for
      BY <2>6, <2>9
    <2> QED BY <2>6, <2>8, <2>10, <2>11, SteppedNow
  <1> QED BY <1>5, <1>6

LEMMA SimStepStep ==
    ASSUME RunsIInv, SimStep
    PROVE  RunsIInv'
  <1> DEFINE dt == client.dt
             elapsed == client.elapsed
             def == server.defs[client.name]
             id == Lowest(server.registered)
  <1>1. /\ client.at = "step" /\ client.elapsed < client.for /\ own' = own /\ strayed' = strayed
        /\ client' = [client EXCEPT !.at = "refresh", !.elapsed = elapsed + dt]
        /\ server' = [server EXCEPT !.time = @ + dt]
        /\ Restorable(server, own, strayed) /\ ClientOK /\ SteppedIsSteady
    BY DEF SimStep, RunsIInv, runGhosts
  <1>2. client \in InSteps({"step", "refresh"}, {"none"})
    BY <1>1, ClientCases
  <1>3. dt \in Nat \ {0} /\ elapsed \in Nat
    BY <1>2, RunsAssumption DEF InSteps
  <1>4. RunIsSteady(def, server, dt, elapsed, "step")
    BY <1>1, <1>2 DEF SteppedIsSteady
  <1> HIDE DEF dt, elapsed
  <1>5. /\ Restorable(server', own, strayed) /\ server'.registered = server.registered
        /\ server'.time = server.time + dt
        /\ server'.journal = server.journal /\ server'.timers = server.timers
        /\ server'.input = server.input /\ server'.defs = server.defs
    BY <1>1, <1>3, LaterRestores
  <1> DEFINE later == elapsed + dt
  <1>6. later \in Nat /\ later - dt = elapsed /\ later > 0
    BY <1>3
  <1> HIDE DEF later
  <1>7. /\ client' \in InSteps({"step", "refresh"}, {"none"})
        /\ client'.at = "refresh" /\ client'.elapsed = later /\ client'.dt = dt
        /\ client'.name = client.name /\ client'.for = client.for
    BY <1>1, <1>2, <1>6 DEF InSteps, later, dt
  <1>8. RunIsSteady(def, server', dt, later, "refresh")
    <2>1. server.time = elapsed /\ server'.time = later
      BY <1>4, <1>5 DEF RunIsSteady, later
    <2>2. \A r \in server.journal[id].results :
              later > 0 /\ r.at <= later /\ \E c \in def.checks : c.at = r.at
      <3>1. \A r \in server.journal[id].results : r.at <= elapsed /\ \E c \in def.checks : c.at = r.at
        BY <1>4 DEF RunIsSteady
      <3>2. def \in Definition
        BY <1>4 DEF RunIsSteady
      <3>3. \A c \in def.checks : c.at \in Nat
        BY <3>2, DefinitionParts
      <3> HIDE DEF def
      <3> QED BY <1>3, <1>6, <3>1, <3>3 DEF later
    <2>3. Orderly(def, dt) => \A c \in FiredCues(def, server) : c.at <= later /\ later > 0
      <3>1. Orderly(def, dt) => \A c \in FiredCues(def, server) : c.at <= elapsed
        BY <1>4 DEF RunIsSteady
      <3>2. def \in Definition
        BY <1>4 DEF RunIsSteady
      <3>3. \A c \in FiredCues(def, server) : c.at \in Nat
        BY <3>2, DefinitionParts DEF FiredCues
      <3> HIDE DEF def
      <3> QED BY <1>3, <1>6, <3>1, <3>3 DEF later
    <2> HIDE DEF id, def
    <2>4. FiredCues(def, server') = FiredCues(def, server)
      BY <1>5 DEF FiredCues
    <2> QED BY <1>4, <1>5, <1>6, <2>1, <2>2, <2>3, <2>4 DEF RunIsSteady, id, Told
  <1>9. client'.elapsed - client'.dt < client'.for
    BY <1>1, <1>6, <1>7 DEF elapsed
  <1>10. RunIsSteady(server'.defs[client'.name], server', client'.dt, client'.elapsed, client'.at)
    BY <1>5, <1>7, <1>8
  <1> QED BY <1>1, <1>5, <1>7, <1>9, <1>10, SteppedNow

LEMMA RefreshedStep ==
    ASSUME RunsIInv, Refreshed
    PROVE  RunsIInv'
  <1> DEFINE dt == client.dt
             elapsed == client.elapsed
             def == server.defs[client.name]
  <1>1. /\ client.at = "refresh" /\ Due = {} /\ own' = own /\ strayed' = strayed /\ server' = server
        /\ client' = [client EXCEPT !.at = "step"]
        /\ Restorable(server, own, strayed) /\ ClientOK /\ SteppedIsSteady
    BY DEF Refreshed, RunsIInv, runGhosts
  <1>2. client \in InSteps({"step", "refresh"}, {"none"})
    BY <1>1, ClientCases
  <1>3. dt \in Nat \ {0} /\ elapsed \in Nat
    BY <1>2, RunsAssumption DEF InSteps
  <1>4. RunIsSteady(def, server, dt, elapsed, "refresh") /\ client.elapsed - client.dt < client.for
    BY <1>1, <1>2 DEF SteppedIsSteady
  <1>5. /\ client' \in InSteps({"step", "refresh"}, {"none"})
        /\ client'.at = "step" /\ client'.elapsed = elapsed /\ client'.dt = dt
        /\ client'.name = client.name /\ client'.for = client.for
    BY <1>1, <1>2 DEF InSteps
  <1> HIDE DEF dt, elapsed, def
  <1>6. RunIsSteady(def, server, dt, elapsed, "step")
    <2>1. \E n \in 0..elapsed : elapsed = n * dt
      <3>1. PICK n \in 0..(elapsed - dt) : elapsed - dt = n * dt
        BY <1>4 DEF RunIsSteady
      <3>2. n + 1 \in 0..elapsed /\ (n + 1) * dt = n * dt + dt
        BY <1>3, <3>1
      <3>3. elapsed = (n + 1) * dt
        BY <1>3, <3>1, <3>2
      <3> QED BY <3>2, <3>3
    <2>2. \A t \in server.timers : ~(t.due <= elapsed)
      BY <1>1, <1>4 DEF Due, RunIsSteady
    <2> QED BY <1>4, <2>1, <2>2 DEF RunIsSteady
  <1>7. client'.elapsed - client'.dt < client'.for
    BY <1>4, <1>5 DEF elapsed, dt
  <1>8. RunIsSteady(server'.defs[client'.name], server', client'.dt, client'.elapsed, client'.at)
    BY <1>1, <1>5, <1>6 DEF def
  <1>9. Restorable(server', own', strayed')
    BY <1>1
  <1> QED BY <1>5, <1>7, <1>8, <1>9, SteppedNow

LEMMA SteppedReportStep ==
    ASSUME RunsIInv, SteppedReport
    PROVE  RunsIInv'
  <1> DEFINE dt == client.dt
             elapsed == client.elapsed
             def == server.defs[client.name]
             id == Lowest(server.registered)
             j == server.journal[id]
  <1>1. /\ client.at = "step" /\ client.elapsed >= client.for /\ own' = own /\ strayed' = strayed
        /\ server' = Stopped(server)
        /\ client' = [client EXCEPT !.at = "stepped", !.verdict = Verdict(j)]
        /\ Restorable(server, own, strayed) /\ ClientOK /\ SteppedIsSteady
    BY DEF SteppedReport, RunsIInv, runGhosts
  <1>2. client \in InSteps({"step", "refresh"}, {"none"})
    BY <1>1, ClientCases
  <1>3. dt \in Nat \ {0} /\ elapsed \in Nat /\ client.for \in Nat
    BY <1>2, RunsAssumption DEF InSteps
  <1>4. RunIsSteady(def, server, dt, elapsed, "step") /\ client.elapsed - client.dt < client.for
    BY <1>1, <1>2 DEF SteppedIsSteady
  <1>5. Verdict(j) \in {"passed", "failed"}
    BY DEF Verdict
  <1>6. /\ client' \in InSteps({"stepped"}, {"passed", "failed"})
        /\ client'.at = "stepped" /\ client'.elapsed = elapsed /\ client'.dt = dt
        /\ client'.name = client.name /\ client'.for = client.for
    BY <1>1, <1>2, <1>5 DEF InSteps
  <1>7. Restorable(server', own', strayed')
    BY <1>1, StopRestores
  <1>8. /\ server \in Server /\ server.registered # {} /\ server.registered \in SUBSET Mgs
        /\ id \in Mgs /\ j \in Journal
    BY <1>1, LowestShape DEF Restorable, Server
  <1>9. /\ Same(server', server) /\ server'.timers = {}
        /\ server'.journal[id] = EndedAt(j, server.time) \/ server'.journal[id] = j
    BY <1>1, <1>8, StoppedShape
  <1>10. server'.journal[id].results = j.results
    BY <1>8, <1>9 DEF EndedAt, Journal
  <1> HIDE DEF dt, elapsed, def, j
  <1>11. /\ def \in Definition
         /\ \A t \in server.timers : t.due <= elapsed => elapsed = 0
         /\ \A c \in def.checks : CheckTimer(c, 0) \in server.timers \/ Told(server, id, c.at)
         /\ \A r \in j.results : elapsed > 0 /\ r.at <= elapsed /\ \E c \in def.checks : c.at = r.at
         /\ Orderly(def, dt) => SawWhatWasLeft(def, j.results, dt)
    BY <1>4 DEF RunIsSteady, j
  <1>12. {r.at : r \in j.results} =
             {c.at : c \in {x \in def.checks : x.at <= elapsed /\ elapsed > 0}}
    <2>1. ASSUME NEW c \in def.checks, c.at <= elapsed, elapsed > 0
          PROVE  \E r \in j.results : r.at = c.at
      <3>1. c.at \in Nat
        BY <1>11, DefinitionParts
      <3>2. CheckTimer(c, 0).due = c.at
        BY <3>1 DEF CheckTimer
      <3>3. CheckTimer(c, 0) \notin server.timers
        BY <1>11, <2>1, <3>2
      <3> QED BY <1>11, <3>3 DEF Told, j
    <2>2. \A r \in j.results : \E c \in {x \in def.checks : x.at <= elapsed /\ elapsed > 0} : c.at = r.at
      BY <1>11
    <2> QED BY <2>1, <2>2
  <1>13. StepsAreExact'
    <2>1. server'.defs[client'.name] = def
      BY <1>6, <1>9 DEF Same, def
    <2>2. server'.journal[Lowest(server'.registered)].results = j.results
      BY <1>9, <1>10 DEF Same
    <2>3. elapsed - dt < client.for /\ client.for <= elapsed
      BY <1>1, <1>4 DEF elapsed, dt
    <2> QED BY <1>6, <1>11, <1>12, <2>1, <2>2, <2>3 DEF StepsAreExact
  <1>14. ClientOK'
    BY <1>6 DEF ClientOK
  <1>15. client' \notin InSteps({"step", "refresh"}, {"none"})
    BY <1>6 DEF InSteps
  <1>16. SteppedIsSteady'
    BY <1>15 DEF SteppedIsSteady, InSteps
  <1>17. BootIsFresh' /\ SteppedIsTold' /\ WaitIsSteady'
    BY <1>6, <1>9 DEF BootIsFresh, SteppedIsTold, WaitIsSteady
  <1> QED BY <1>7, <1>13, <1>14, <1>16, <1>17 DEF RunsIInv

-----------------------------------------------------------------------------
(* The scenarios: the theorem                                               *)

LEMMA RunsStartWhole == RunsInit => RunsIInv
  <1> SUFFICES ASSUME RunsInit PROVE RunsIInv
    OBVIOUS
  <1>1. PICK ids \in AtFirst, text \in Definitions :
          server = [registered |-> ids, journal |-> [id \in Mgs |-> FreshJournal],
                    input |-> [id \in Mgs |-> 0], baseline |-> [id \in Mgs |-> Never],
                    timers |-> {}, time |-> 0,
                    defs |-> Defined([name \in Names |-> Undefined], text)]
    BY DEF RunsInit
  <1>2. /\ client.at \in {"boot", "idle"} /\ client \in Headed
        /\ own = [id \in Mgs |-> 0] /\ strayed = {}
    BY DEF RunsInit, Headed
  <1>3. ids \subseteq Mgs /\ ids # {}
    BY RunsAssumption
  <1>4. Defined([name \in Names |-> Undefined], text) \in [Names -> {Undefined} \cup Definition]
    <2>1. text.name \in Names
      BY DEF Names
    <2>2. text.bad \/ text.def \in Definition
      BY RunsAssumption
    <2> QED BY <2>1, <2>2 DEF Defined
  <1>5. FreshJournal \in Journal /\ ~Running(FreshJournal)
    BY DEF FreshJournal, Journal, Running, Offset
  <1>6. server \in Server
    BY <1>1, <1>3, <1>4, <1>5 DEF Server, Offset
  <1>7. Restorable(server, own, strayed)
    BY <1>1, <1>2, <1>3, <1>5, <1>6 DEF Restorable, AfterTeardown
  <1>8. BootIsFresh
    BY <1>1, <1>2 DEF BootIsFresh
  <1>9. client \notin InSteps({"step", "refresh"}, {"none"})
    BY <1>2 DEF InSteps
  <1>10. ClientOK /\ SteppedIsSteady /\ SteppedIsTold /\ StepsAreExact /\ WaitIsSteady
    BY <1>2, <1>9 DEF ClientOK, SteppedIsSteady, SteppedIsTold, StepsAreExact, WaitIsSteady
  <1> QED BY <1>7, <1>8, <1>10 DEF RunsIInv

LEMMA RunsStepWhole == RunsIInv /\ [RunsNext]_runsVars => RunsIInv'
  <1> SUFFICES ASSUME RunsIInv, [RunsNext]_runsVars PROVE RunsIInv'
    OBVIOUS
  <1>1. NamesOf = Names
    BY DEF RunsIInv, Restorable, Server, NamesOf
  <1>2. CASE \E t \in server.timers : Fire(t)
    BY <1>2, FireStep
  <1>3. CASE \E name \in NamesOf, until \in Untils : \E dt \in Clocks : RunStepped(name, dt, until)
    BY <1>1, <1>3, RunSteppedStep
  <1>4. CASE \E name \in NamesOf, until \in Untils : \E asked \in MgArgs : Resolve(name, asked, until)
    BY <1>1, <1>4, ResolveStep
  <1>5. CASE SimStep
    BY <1>5, SimStepStep
  <1>6. CASE Refreshed
    BY <1>6, RefreshedStep
  <1>7. CASE SteppedReport
    BY <1>7, SteppedReportStep
  <1>8. CASE WaitLength
    BY <1>8, WaitLengthStep
  <1>9. CASE PostStart
    BY <1>9, PostStartStep
  <1>10. CASE PostStop
    BY <1>10, PostStopStep
  <1>11. CASE Report
    BY <1>11, ReportStep
  <1>12. CASE \E answered \in BOOLEAN : PollRun(answered)
    BY <1>12, PollRunStep
  <1>13. CASE \E id \in Mgs : RegisterMicrogrid(id)
    BY <1>13, RegisterStep
  <1>14. CASE \E id \in Mgs : \E value \in 0..1 : Poke(id, value)
    BY <1>14, PokeStep
  <1>15. CASE \E name \in NamesOf : StartOther(name) \/ StartBare(name)
    BY <1>1, <1>15, StartOtherStep
  <1>16. CASE \E text \in Definitions : Define(text)
    BY <1>16, DefineStep
  <1>17. CASE StopOther
    BY <1>17, StopOtherStep
  <1>18. CASE Reload
    BY <1>18, ReloadStep
  <1>19. CASE TimePasses
    BY <1>19, TimePassesStep
  <1>20. CASE UNCHANGED runsVars
    <2>1. UNCHANGED <<server, client, own, strayed, disturbed, cut>>
      BY <1>20 DEF runsVars, runGhosts
    <2>2. Restorable(server, own, strayed) => Restorable(server', own', strayed')
      BY <2>1
    <2>3. ClientOK => ClientOK'
      BY <2>1 DEF ClientOK, Headed, InSteps, Asking, Waiting
    <2>4. BootIsFresh /\ SteppedIsTold => BootIsFresh' /\ SteppedIsTold'
      BY <2>1 DEF BootIsFresh, SteppedIsTold
    <2>5. SteppedIsSteady => SteppedIsSteady'
      BY <2>1 DEF SteppedIsSteady, InSteps
    <2>6. StepsAreExact => StepsAreExact'
      BY <2>1 DEF StepsAreExact
    <2>7. WaitIsSteady => WaitIsSteady'
      BY <2>1, WaitKept
    <2> QED BY <2>2, <2>3, <2>4, <2>5, <2>6, <2>7 DEF RunsIInv
  <1> QED BY <1>2, <1>3, <1>4, <1>5, <1>6, <1>7, <1>8, <1>9, <1>10, <1>11, <1>12, <1>13, <1>14, <1>15,
             <1>16, <1>17, <1>18, <1>19, <1>20 DEF RunsNext

\* What the invariant says of inputs, and of the client that waited.
LEMMA WholeFollows == RunsIInv => RunsAreWhole
  <1> SUFFICES ASSUME RunsIInv PROVE RunsAreWhole
    OBVIOUS
  <1>1. Restorable(server, own, strayed) /\ ClientOK /\ StepsAreExact /\ WaitIsSteady
    BY DEF RunsIInv
  <1>2. TeardownIsWhole
    <2> SUFFICES ASSUME \A id \in server.registered : ~Running(server.journal[id])
                 PROVE  /\ server.timers = {}
                        /\ \A id \in server.registered \ strayed : server.input[id] = own[id]
      BY DEF TeardownIsWhole
    <2>1. server.timers = {}
      BY <1>1 DEF Restorable, RunningAnywhere
    <2>2. server.registered \subseteq Mgs
      BY <1>1 DEF Restorable, Server
    <2>3. ASSUME NEW id \in server.registered \ strayed
          PROVE  server.input[id] = own[id]
      <3>1. server.baseline[id] = Never /\ AfterTeardown(server, id) = own[id]
        BY <1>1, <2>2 DEF Restorable
      <3> QED BY <3>1 DEF AfterTeardown
    <2> QED BY <2>1, <2>3
  <1>3. VerdictIsOfTheRun
    <2> DEFINE j == server.journal[client.mg]
    <2> SUFFICES ASSUME client.at = "over", client.verdict \in {"passed", "failed"}, ~disturbed
                 PROVE  /\ j.name = client.name /\ ~Running(j)
                        /\ ~cut /\ Elapsed(j) >= client.for =>
                             {c.at : c \in {x \in client.of.checks : x.at <= client.for}}
                                 \subseteq {r.at : r \in j.results}
                        /\ (client.verdict = "failed") = Failed(j)
      BY DEF VerdictIsOfTheRun
    <2>1. /\ j.name = client.name /\ j.started # Never /\ j.ended # Never
          /\ ~cut /\ j.ended - j.started >= client.for =>
               \A c \in client.of.checks : c.at <= client.for => Told(server, client.mg, c.at)
          /\ (client.verdict = "failed") = Failed(j)
      BY <1>1 DEF WaitIsSteady
    <2>2. Elapsed(j) = j.ended - j.started
      BY <2>1 DEF Elapsed
    <2>3. ASSUME ~cut, Elapsed(j) >= client.for, NEW c \in client.of.checks, c.at <= client.for
          PROVE  c.at \in {r.at : r \in j.results}
      BY <2>1, <2>2, <2>3 DEF Told
    <2>4. ~Running(j)
      BY <2>1 DEF Running
    <2> QED BY <2>1, <2>3, <2>4
  <1> QED BY <1>1, <1>2, <1>3 DEF RunsAreWhole

\* Whatever is defined, started over one another, stopped, registered and
\* driven, and however the clocks run: a teardown takes back what a run did to
\* every registered microgrid, a stepped run tells of just the checks up to its
\* end and of what the cues left, and a client that waits gates on the run it
\* started (defuns/scenarios.rs:289-444, boot.rs:798-891,
\* macroctl.rs:1125-1257).
THEOREM ScenarioRunsAreWhole == RunsSpec => []RunsAreWhole
  <1>1. RunsInit => RunsIInv
    BY RunsStartWhole
  <1>2. RunsIInv /\ [RunsNext]_runsVars => RunsIInv'
    BY RunsStepWhole
  <1>3. RunsIInv => RunsAreWhole
    BY WholeFollows
  <1> QED BY <1>1, <1>2, <1>3, PTL DEF RunsSpec
=============================================================================
