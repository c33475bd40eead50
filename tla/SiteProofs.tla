----------------------------- MODULE SiteProofs -----------------------------
(***************************************************************************)
(* Theorems of what a site's tables and devices hold: of module SiteTables, *)
(* for any ids, any number of drive requests and however long physics, the  *)
(* sampler and the interpreter go on; of SteamBoiler, for any boiler; of    *)
(* Frequency, which every site reads; and of ManagedFile, the files that    *)
(* back the sites.                                                          *)
(***************************************************************************)
EXTENDS SiteTables, SteamBoiler, Frequency, ManagedFile, SequenceTheorems, TLAPS

-----------------------------------------------------------------------------
(* Types *)

Value == KnobValues \union {AsBuilt}

\* A knob as recorded, an energy entry, the component under an id.
Knob == [of : Int, value : Value]
Entry == [total : Int, ts : Int \union {Empty}]
Build == 1..MaxBuilds

\* An empty entry is none of what the tables hold.
LEMMA EmptyIsApart == Empty \notin Int /\ Empty \notin Knob /\ Empty \notin Entry
  BY TablesAssumption DEF Knob, Value, Entry

Baselines == [Ids -> Knob \union {Empty}]

Plain == [op : {"idle", "reset", "reset_journal", "reset_baseline", "start", "clear"}]
AtId == [op : {"register", "register_rest", "remove", "remove_rest"}, id : Ids]
Stopping == [op : {"stop"}, next : {"idle", "start"}]
Restoring == [op : {"restore"}, next : {"idle", "start"}, taken : Baselines]
Starting == [op : {"journal"}, totals : [Ids -> Int \union {Empty}]]
Writing == [op : {"write"}, id : Ids, value : KnobValues]

Interp == Plain \union AtId \union Stopping \union Restoring \union Starting
          \union Writing

Found == [pc : {"check", "get", "write"}, id : Ids, c : Build, value : KnobValues]
Got == [pc : {"snapshot", "write"}, id : Ids, c : Build, value : KnobValues,
        found : Build]
Missed == [pc : {"write"}, id : Ids, c : Build, value : KnobValues, found : {Empty}]

Drive == {NoDrive} \union Found \union Got \union Missed

TypeOK ==
    /\ clock \in Nat
    /\ builds \in 0..MaxBuilds
    /\ comp \in [Ids -> Build \union {Empty}]
    /\ knobs \in [Build -> Value]
    /\ energy \in [Ids -> Entry \union {Empty}]
    /\ rings \in [Ids -> SUBSET Int]
    /\ running \in BOOLEAN
    /\ ebase \in [Ids -> Int \union {Empty}]
    /\ baseline \in Baselines
    /\ interp \in Interp
    /\ drive \in [DriveRequests -> Drive]
    /\ born \in [Ids -> Int]

\* What the interpreter is in says which parts its operation has.
LEMMA InterpParts ==
    ASSUME NEW o \in Interp
    PROVE  /\ o.op \in {"idle", "reset", "reset_journal", "reset_baseline", "start", "clear"}
                => o \in Plain
           /\ o.op \in {"register", "register_rest", "remove", "remove_rest"}
                => o \in AtId
           /\ o.op = "stop" => o \in Stopping
           /\ o.op = "restore" => o \in Restoring
           /\ o.op = "journal" => o \in Starting
           /\ o.op = "write" => o \in Writing
  <1>1. o \in Plain
          => o.op \in {"idle", "reset", "reset_journal", "reset_baseline", "start", "clear"}
    BY DEF Plain
  <1>2. o \in AtId
          => o.op \in {"register", "register_rest", "remove", "remove_rest"}
    BY DEF AtId
  <1>3. o \in Stopping => o.op = "stop"
    BY DEF Stopping
  <1>4. o \in Restoring => o.op = "restore"
    BY DEF Restoring
  <1>5. o \in Starting => o.op = "journal"
    BY DEF Starting
  <1>6. o \in Writing => o.op = "write"
    BY DEF Writing
  <1>7. \/ o \in Plain \/ o \in AtId \/ o \in Stopping \/ o \in Restoring
        \/ o \in Starting \/ o \in Writing
    BY DEF Interp
  <1> QED BY <1>1, <1>2, <1>3, <1>4, <1>5, <1>6, <1>7

\* A drive in flight has an id, a component and a value, and from the snapshot
\* on also what its lookup found.
LEMMA DriveParts ==
    ASSUME NEW r \in Drive
    PROVE  /\ r.pc = "idle" <=> r = NoDrive
           /\ r.pc \in {"check", "get"} => r \in Found
           /\ r.pc = "snapshot" => r \in Got
           /\ r.pc # "idle" => r.id \in Ids /\ r.c \in Build /\ r.value \in KnobValues
           /\ r.pc = "snapshot" => r.found \in Build
           /\ r.pc \in {"idle", "check", "get", "snapshot", "write"}
  <1>1. CASE r = NoDrive
    BY <1>1 DEF NoDrive
  <1>2. CASE r \in Found
    BY <1>2 DEF Found, NoDrive
  <1>3. CASE r \in Got
    BY <1>3 DEF Got, NoDrive
  <1>4. CASE r \in Missed
    BY <1>4 DEF Missed, NoDrive
  <1> QED BY <1>1, <1>2, <1>3, <1>4 DEF Drive

\* Nothing has happened yet.
LEMMA InitTypes == TablesInit => TypeOK
  <1> SUFFICES ASSUME TablesInit PROVE TypeOK
    OBVIOUS
  <1>1. interp \in Interp
    BY DEF TablesInit, AtRest, Interp, Plain
  <1>2. /\ drive \in [DriveRequests -> Drive]
        /\ knobs \in [Build -> Value]
    BY DEF TablesInit, Drive, Value, Build
  <1>3. clock \in Nat /\ builds \in 0..MaxBuilds
    BY TablesAssumption DEF TablesInit
  <1>4. /\ comp \in [Ids -> Build \union {Empty}]
        /\ energy \in [Ids -> Entry \union {Empty}]
        /\ rings \in [Ids -> SUBSET Int]
    BY DEF TablesInit
  <1>5. /\ ebase \in [Ids -> Int \union {Empty}]
        /\ baseline \in Baselines
        /\ born \in [Ids -> Int]
    BY DEF TablesInit, Baselines
  <1>6. running \in BOOLEAN
    BY Zenon DEF TablesInit
  <1> QED BY <1>1, <1>2, <1>3, <1>4, <1>5, <1>6 DEF TypeOK

\* The operation the interpreter goes on to has its parts.
LEMMA InterpMoves ==
    ASSUME NEW o \in Interp
    PROVE  /\ o.op = "register" => [o EXCEPT !.op = "register_rest"] \in Interp
           /\ o.op = "remove" => [o EXCEPT !.op = "remove_rest"] \in Interp
           /\ o.op = "stop" => \A taken \in Baselines :
                [op |-> "restore", next |-> o.next, taken |-> taken] \in Interp
           /\ o.op = "restore" => \A i \in Ids :
                [o EXCEPT !.taken[i] = Empty] \in Interp
           /\ o.op = "restore" => [op |-> o.next] \in Interp
  <1>1. ASSUME o.op = "register" PROVE [o EXCEPT !.op = "register_rest"] \in Interp
    <2>1. o \in AtId
      BY <1>1, InterpParts
    <2> QED BY <2>1 DEF AtId, Interp
  <1>2. ASSUME o.op = "remove" PROVE [o EXCEPT !.op = "remove_rest"] \in Interp
    <2>1. o \in AtId
      BY <1>2, InterpParts
    <2> QED BY <2>1 DEF AtId, Interp
  <1>3. ASSUME o.op = "stop", NEW taken \in Baselines
        PROVE  [op |-> "restore", next |-> o.next, taken |-> taken] \in Interp
    <2>1. o.next \in {"idle", "start"}
      BY <1>3, InterpParts DEF Stopping
    <2> QED BY <2>1 DEF Restoring, Interp
  <1>4. ASSUME o.op = "restore", NEW i \in Ids
        PROVE  [o EXCEPT !.taken[i] = Empty] \in Interp
    <2>1. o \in Restoring
      BY <1>4, InterpParts
    <2>2. [o EXCEPT !.taken[i] = Empty] \in Restoring
      BY <2>1 DEF Restoring, Baselines
    <2> QED BY <2>2 DEF Interp
  <1>5. ASSUME o.op = "restore" PROVE [op |-> o.next] \in Interp
    <2>1. o.next \in {"idle", "start"}
      BY <1>5, InterpParts DEF Restoring
    <2> QED BY <2>1 DEF Plain, Interp
  <1> QED BY <1>1, <1>2, <1>3, <1>4, <1>5

LEMMA IdleIsPlain ==
    /\ AtRest.op = "idle" /\ AtRest \in Interp
    /\ \A op \in {"idle", "reset", "reset_journal", "reset_baseline", "start", "clear"} :
          [op |-> op] \in Interp /\ [op |-> op].op = op
  BY DEF AtRest, Plain, Interp

\* Registering, removing and resetting keep the types,
LEMMA StructureTypes ==
    ASSUME TypeOK,
           Structure \/ \E i \in Ids : Register(i) \/ Remove(i)
    PROVE  TypeOK'
  <1>1. CASE \E i \in Ids : Register(i)
    <2>1. PICK i \in Ids : Register(i)
      BY <1>1
    <2>2. builds + 1 \in Build /\ builds + 1 \in 0..MaxBuilds
      BY <2>1, TablesAssumption DEF Register, TypeOK, Build
    <2>3. interp' \in Interp
      BY <2>1 DEF Register, Interp, AtId
    <2>4. born' \in [Ids -> Int] /\ comp' \in [Ids -> Build \union {Empty}]
      BY <2>1, <2>2 DEF Register, TypeOK
    <2> QED BY <2>1, <2>2, <2>3, <2>4 DEF Register, TypeOK, tables
  <1>2. CASE \E i \in Ids : Remove(i)
    <2>1. PICK i \in Ids : Remove(i)
      BY <1>2
    <2>2. interp' \in Interp
      BY <2>1 DEF Remove, Interp, AtId
    <2> QED BY <2>1, <2>2 DEF Remove, TypeOK, tables
  <1>3. CASE RegisterEnergy
    BY <1>3, InterpMoves DEF RegisterEnergy, TypeOK
  <1>4. CASE RegisterRest
    BY <1>4, IdleIsPlain DEF RegisterRest, WithoutId, TypeOK, Baselines
  <1>5. CASE RemoveRows
    BY <1>5, InterpMoves DEF RemoveRows, TypeOK
  <1>6. CASE RemoveRest
    BY <1>6, IdleIsPlain DEF RemoveRest, WithoutId, TypeOK, Baselines
  <1>7. CASE ResetSite
    BY <1>7, IdleIsPlain DEF ResetSite, TypeOK, tables
  <1>8. CASE ResetRows
    BY <1>8, IdleIsPlain DEF ResetRows, TypeOK
  <1>9. CASE ResetJournal
    BY <1>9, IdleIsPlain DEF ResetJournal, TypeOK
  <1>10. CASE ResetBaseline
    BY <1>10, IdleIsPlain DEF ResetBaseline, TypeOK, Baselines
  <1> QED
    BY <1>1, <1>2, <1>3, <1>4, <1>5, <1>6, <1>7, <1>8, <1>9, <1>10 DEF Structure

\* so do scenarios and the interpreter's drives,
LEMMA ScenarioTypes ==
    ASSUME TypeOK,
           \/ Scenario
           \/ \E i \in Ids : PutBack(i)
           \/ \E i \in Ids, v \in KnobValues : LispSnapshot(i, v)
    PROVE  TypeOK'
  <1>1. CASE StopRun \/ StartOver
    <2>1. PICK next \in {"idle", "start"} : StopBegin(next)
      BY <1>1 DEF StopRun, StartOver
    <2>2. interp' \in Interp
      BY <2>1 DEF StopBegin, Stopping, Interp
    <2> QED BY <2>1, <2>2 DEF StopBegin, TypeOK, tables
  <1>2. CASE TakeBaseline
    BY <1>2, InterpMoves DEF TakeBaseline, TypeOK, Baselines
  <1>3. CASE \E i \in Ids : PutBack(i)
    <2>1. PICK i \in Ids : PutBack(i)
      BY <1>3
    <2>2. interp.taken[i].value \in Value
      <3>1. interp \in Restoring
        BY <2>1, InterpParts DEF PutBack, TypeOK
      <3>2. interp.taken[i] \in Knob
        BY <2>1, <3>1 DEF PutBack, Restoring, Baselines
      <3> QED BY <3>2 DEF Knob
    <2>3. knobs' \in [Build -> Value]
      BY <2>1, <2>2 DEF PutBack, TypeOK
    <2>4. interp' \in Interp
      BY <2>1, InterpMoves DEF PutBack, TypeOK
    <2> QED BY <2>1, <2>3, <2>4 DEF PutBack, TypeOK, tables
  <1>4. CASE StopDone
    BY <1>4, InterpMoves DEF StopDone, TypeOK, tables
  <1>5. CASE StartReadsEnergy
    <2>1. [i \in Ids |-> IF energy[i] = Empty THEN Empty ELSE energy[i].total]
            \in [Ids -> Int \union {Empty}]
      BY DEF TypeOK, Entry
    <2>2. interp' \in Interp
      BY <1>5, <2>1 DEF StartReadsEnergy, Starting, Interp
    <2> QED BY <1>5, <2>2 DEF StartReadsEnergy, TypeOK, tables
  <1>6. CASE StartJournal
    <2>1. ebase' \in [Ids -> Int \union {Empty}]
      BY <1>6, InterpParts DEF StartJournal, Starting, TypeOK
    <2> QED BY <1>6, <2>1, IdleIsPlain DEF StartJournal, TypeOK
  <1>7. CASE StartClears
    BY <1>7, IdleIsPlain DEF StartClears, TypeOK, Baselines
  <1>8. CASE \E i \in Ids, v \in KnobValues : LispSnapshot(i, v)
    <2>1. PICK i \in Ids, v \in KnobValues : LispSnapshot(i, v)
      BY <1>8
    <2>2. baseline' \in Baselines
      <3>1. comp[i] \in Build
        BY <2>1 DEF LispSnapshot, Registered, TypeOK
      <3>2. [of |-> comp[i], value |-> knobs[comp[i]]] \in Knob
        BY <3>1 DEF Knob, TypeOK, Build
      <3> QED BY <2>1, <3>2 DEF LispSnapshot, SnapshotKnob, TypeOK, Baselines
    <2>3. interp' \in Interp
      BY <2>1 DEF LispSnapshot, Writing, Interp
    <2> QED BY <2>1, <2>2, <2>3 DEF LispSnapshot, TypeOK
  <1>9. CASE LispWrite
    <2>1. interp.value \in Value
      BY <1>9, InterpParts DEF LispWrite, Writing, TypeOK, Value
    <2>2. knobs' \in [Build -> Value]
      BY <1>9, <2>1 DEF LispWrite, TypeOK
    <2> QED BY <1>9, <2>2, IdleIsPlain DEF LispWrite, TypeOK, tables
  <1> QED BY <1>1, <1>2, <1>3, <1>4, <1>5, <1>6, <1>7, <1>8, <1>9 DEF Scenario

\* and the tasks.
LEMMA TaskTypes ==
    ASSUME TypeOK, Tasks
    PROVE  TypeOK'
  <1>1. CASE TakePass
    BY <1>1 DEF TakePass, TypeOK, tables
  <1>2. CASE \E faulted \in SUBSET Ids : Integrate(faulted)
    <2>1. PICK faulted \in SUBSET Ids : Integrate(faulted)
      BY <1>2
    <2>2. ASSUME NEW i \in Ids
          PROVE  Advanced(energy[i]) \in Entry /\ Dropped(energy[i]) \in Entry
      <3>1. clock \in Int /\ energy[i] \in Entry \union {Empty}
        BY DEF TypeOK
      <3>2. CASE energy[i] = Empty
        BY <3>1, <3>2 DEF Advanced, Dropped, Entry
      <3>3. CASE energy[i] # Empty
        <4>1. energy[i].total \in Int /\ energy[i].ts \in Int \union {Empty}
          BY <3>1, <3>3 DEF Entry
        <4> QED BY <3>1, <3>3, <4>1 DEF Advanced, Dropped, Entry
      <3> QED BY <3>2, <3>3
    <2>3. energy' \in [Ids -> Entry \union {Empty}]
      BY <2>1, <2>2 DEF Integrate, TypeOK
    <2> QED BY <2>1, <2>3 DEF Integrate, TypeOK
  <1>3. CASE Holds
    BY <1>3 DEF Holds, TypeOK, tables
  <1>4. CASE Records
    BY <1>4 DEF Records, TypeOK
  <1> QED BY <1>1, <1>2, <1>3, <1>4 DEF Tasks

\* A drive of the UI's route keeps them too.
LEMMA DriveTypes ==
    ASSUME TypeOK, NEW d \in DriveRequests,
           \/ DriveChecks(d) \/ DriveGets(d) \/ DriveSnapshots(d) \/ DriveWrites(d)
           \/ \E i \in Ids, v \in KnobValues : DriveFinds(d, i, v)
    PROVE  TypeOK'
  <1> DEFINE r == drive[d]
  <1>1. r \in Drive
    BY DEF TypeOK
  <1>2. CASE \E i \in Ids, v \in KnobValues : DriveFinds(d, i, v)
    <2>1. PICK i \in Ids, v \in KnobValues : DriveFinds(d, i, v)
      BY <1>2
    <2>2. comp[i] \in Build
      BY <2>1 DEF DriveFinds, Registered, TypeOK
    <2>3. [pc |-> "check", id |-> i, c |-> comp[i], value |-> v] \in Drive
      BY <2>2 DEF Drive, Found
    <2>4. drive' \in [DriveRequests -> Drive]
      BY <2>1, <2>3 DEF DriveFinds, TypeOK
    <2> QED BY <2>1, <2>4 DEF DriveFinds, TypeOK, tables
  <1>3. CASE DriveChecks(d)
    <2>1. r \in Found
      BY <1>1, <1>3, DriveParts DEF DriveChecks
    <2>2. [r EXCEPT !.pc = IF running THEN "get" ELSE "write"] \in Found
      BY <2>1 DEF Found
    <2>3. drive' = [drive EXCEPT ![d] = [r EXCEPT !.pc = IF running THEN "get" ELSE "write"]]
      BY <1>3 DEF DriveChecks
    <2> HIDE DEF r
    <2>4. drive' \in [DriveRequests -> Drive]
      BY <2>2, <2>3 DEF TypeOK, Drive
    <2> QED BY <1>3, <2>4 DEF DriveChecks, TypeOK, tables
  <1>4. CASE DriveGets(d)
    <2>1. r \in Found
      BY <1>1, <1>4, DriveParts DEF DriveGets
    <2>2. comp[r.id] \in Build \union {Empty}
      BY <2>1 DEF Found, TypeOK
    <2>3. [pc |-> IF comp[r.id] # Empty THEN "snapshot" ELSE "write",
           id |-> r.id, c |-> r.c, value |-> r.value, found |-> comp[r.id]]
            \in Got \union Missed
      <3>1. CASE comp[r.id] # Empty
        BY <2>1, <2>2, <3>1 DEF Found, Got
      <3>2. CASE comp[r.id] = Empty
        BY <2>1, <2>2, <3>2 DEF Found, Missed
      <3> QED BY <3>1, <3>2
    <2>4. drive' \in [DriveRequests -> Drive]
      BY <1>4, <2>3 DEF DriveGets, TypeOK, Drive
    <2> QED BY <1>4, <2>4 DEF DriveGets, TypeOK, tables
  <1>5. CASE DriveSnapshots(d)
    <2>1. r \in Got
      BY <1>1, <1>5, DriveParts DEF DriveSnapshots
    <2>2. [r EXCEPT !.pc = "write"] \in Got
      BY <2>1 DEF Got
    <2>3. drive' \in [DriveRequests -> Drive]
      BY <1>5, <2>2 DEF DriveSnapshots, TypeOK, Drive
    <2>4. [of |-> r.found, value |-> knobs[r.found]] \in Knob
      BY <2>1 DEF Got, Knob, Build, TypeOK
    <2>5. baseline' \in Baselines
      BY <1>5, <2>4 DEF DriveSnapshots, SnapshotKnob, TypeOK, Baselines
    <2> QED BY <1>5, <2>3, <2>5 DEF DriveSnapshots, TypeOK
  <1>6. CASE DriveWrites(d)
    <2>1. r.c \in Build /\ r.value \in Value
      BY <1>1, <1>6, DriveParts DEF DriveWrites, Value
    <2>2. drive' \in [DriveRequests -> Drive]
      BY <1>6 DEF DriveWrites, TypeOK, Drive
    <2>3. knobs' \in [Build -> Value]
      BY <1>6, <2>1 DEF DriveWrites, TypeOK
    <2> QED BY <1>6, <2>2, <2>3 DEF DriveWrites, TypeOK, tables
  <1> QED BY <1>2, <1>3, <1>4, <1>5, <1>6

LEMMA NextTypes ==
    ASSUME TypeOK, [TablesNext]_tableVars
    PROVE  TypeOK'
  <1>1. CASE Structure \/ \E i \in Ids : Register(i) \/ Remove(i)
    BY <1>1, StructureTypes
  <1>2. CASE \/ Scenario
             \/ \E i \in Ids : PutBack(i)
             \/ \E i \in Ids, v \in KnobValues : LispSnapshot(i, v)
    BY <1>2, ScenarioTypes
  <1>3. CASE Tasks
    BY <1>3, TaskTypes
  <1>4. CASE \E d \in DriveRequests :
                \/ DriveChecks(d) \/ DriveGets(d) \/ DriveSnapshots(d) \/ DriveWrites(d)
                \/ \E i \in Ids, v \in KnobValues : DriveFinds(d, i, v)
    BY <1>4, DriveTypes
  <1>5. CASE UNCHANGED tableVars
    BY <1>5 DEF tableVars, tables, TypeOK
  <1> QED BY <1>1, <1>2, <1>3, <1>4, <1>5 DEF TablesNext

\* Every variable keeps its type.
THEOREM TypeCorrect == TablesSpec => []TypeOK
  <1>1. TablesInit => TypeOK
    BY InitTypes
  <1>2. TypeOK /\ [TablesNext]_tableVars => TypeOK'
    BY NextTypes
  <1> QED BY <1>1, <1>2, PTL DEF TablesSpec

-----------------------------------------------------------------------------
(* Rows are of the component they are read for.  What a removal that raced *)
(* a writer left under an id may be older than the next component there,   *)
(* until register_arc comes to clear it; every later row is stamped with a *)
(* clock that the registration has seen.                                   *)

AtWork(i, ops) == interp.op \in ops /\ interp.id = i

EnergyIsOwn(i) == energy[i] # Empty /\ energy[i].ts # Empty => energy[i].ts >= born[i]

RingsAreOwn(i) == \A at \in rings[i] : at >= born[i]

Own ==
    /\ \A i \in Ids : born[i] <= clock
    /\ \A i \in Registered : AtWork(i, {"register"}) \/ EnergyIsOwn(i)
    /\ \A i \in Registered : AtWork(i, {"register", "register_rest"}) \/ RingsAreOwn(i)

\* A step that leaves the rows and the components alone, and does not take the
\* interpreter out of a registration, leaves them as true as they were.
LEMMA OwnStays ==
    ASSUME Own, UNCHANGED <<comp, born, energy, rings, clock>>,
           \/ interp' = interp
           \/ interp.op \notin {"register", "register_rest"}
    PROVE  Own'
  <1>1. Registered' = Registered
    BY DEF Registered
  <1>2. ASSUME NEW i \in Registered
        PROVE  (AtWork(i, {"register"}) \/ EnergyIsOwn(i))'
    BY <1>2 DEF Own, AtWork, EnergyIsOwn
  <1>3. ASSUME NEW i \in Registered
        PROVE  (AtWork(i, {"register", "register_rest"}) \/ RingsAreOwn(i))'
    BY <1>3 DEF Own, AtWork, RingsAreOwn
  <1> QED BY <1>1, <1>2, <1>3 DEF Own

LEMMA StructureKeepsOwn ==
    ASSUME TypeOK, Own,
           Structure \/ \E i \in Ids : Register(i) \/ Remove(i)
    PROVE  Own'
  <1>0. /\ clock \in Int /\ \A i \in Ids : born[i] \in Int
        /\ DOMAIN energy = Ids /\ DOMAIN rings = Ids /\ DOMAIN comp = Ids
        /\ DOMAIN born = Ids
    BY DEF TypeOK
  <1>1. CASE \E i \in Ids : Register(i)
    <2>1. PICK i \in Ids : Register(i)
      BY <1>1
    <2>2. /\ energy' = energy /\ rings' = rings /\ clock' = clock
          /\ born' = [born EXCEPT ![i] = clock]
          /\ comp' = [comp EXCEPT ![i] = builds + 1]
          /\ interp = AtRest /\ interp' = [op |-> "register", id |-> i]
      BY <2>1 DEF Register, tables
    <2>3. ASSUME NEW j \in Registered', j # i
          PROVE  (EnergyIsOwn(j) /\ RingsAreOwn(j))'
      <3>1. j \in Registered /\ born'[j] = born[j]
        BY <1>0, <2>2, <2>3 DEF Registered
      <3>2. ~AtWork(j, {"register"}) /\ ~AtWork(j, {"register", "register_rest"})
        BY <2>2, IdleIsPlain DEF AtWork
      <3>3. EnergyIsOwn(j) /\ RingsAreOwn(j)
        BY <3>1, <3>2 DEF Own
      <3> QED BY <2>2, <3>1, <3>3 DEF EnergyIsOwn, RingsAreOwn
    <2>4. AtWork(i, {"register"})' /\ AtWork(i, {"register", "register_rest"})'
      BY <2>2 DEF AtWork
    <2>5. \A j \in Ids : (born[j] <= clock)'
      BY <1>0, <2>2 DEF Own
    <2> QED BY <2>3, <2>4, <2>5 DEF Own
  <1>2. CASE \E i \in Ids : Remove(i)
    <2>1. PICK i \in Ids : Remove(i)
      BY <1>2
    <2>2. /\ energy' = energy /\ rings' = rings /\ clock' = clock /\ born' = born
          /\ comp' = [comp EXCEPT ![i] = Empty]
          /\ interp = AtRest
      BY <2>1 DEF Remove, tables
    <2>3. Registered' \subseteq Registered
      BY <1>0, <2>2 DEF Registered
    <2>4. ASSUME NEW j \in Registered'
          PROVE  (EnergyIsOwn(j) /\ RingsAreOwn(j))'
      <3>1. ~AtWork(j, {"register"}) /\ ~AtWork(j, {"register", "register_rest"})
        BY <2>2, IdleIsPlain DEF AtWork
      <3>2. EnergyIsOwn(j) /\ RingsAreOwn(j)
        BY <2>3, <3>1 DEF Own
      <3> QED BY <2>2, <3>2 DEF EnergyIsOwn, RingsAreOwn
    <2> QED BY <2>2, <2>4 DEF Own
  <1>3. CASE RegisterEnergy
    <2>1. /\ rings' = rings /\ clock' = clock /\ born' = born /\ comp' = comp
          /\ energy' = [energy EXCEPT ![interp.id] = Empty]
          /\ interp.op = "register" /\ interp' = [interp EXCEPT !.op = "register_rest"]
      BY <1>3 DEF RegisterEnergy
    <2>2. interp'.op = "register_rest" /\ interp'.id = interp.id
      <3>1. interp \in AtId
        BY <2>1, InterpParts DEF TypeOK
      <3> QED BY <2>1, <3>1 DEF AtId
    <2>3. Registered' = Registered
      BY <2>1 DEF Registered
    <2>4. ASSUME NEW j \in Registered PROVE EnergyIsOwn(j)'
      <3>1. CASE j = interp.id
        BY <1>0, <2>1, <3>1 DEF EnergyIsOwn, Registered
      <3>2. CASE j # interp.id
        <4>1. EnergyIsOwn(j) /\ energy'[j] = energy[j]
          BY <1>0, <2>1, <3>2 DEF Own, AtWork, Registered
        <4> QED BY <2>1, <4>1 DEF EnergyIsOwn
      <3> QED BY <3>1, <3>2
    <2>5. ASSUME NEW j \in Registered
          PROVE  (AtWork(j, {"register", "register_rest"}) \/ RingsAreOwn(j))'
      BY <2>1, <2>2 DEF Own, AtWork, RingsAreOwn
    <2> QED BY <2>1, <2>3, <2>4, <2>5 DEF Own
  <1>4. CASE RegisterRest
    <2>1. /\ energy' = energy /\ clock' = clock /\ born' = born /\ comp' = comp
          /\ rings' = [rings EXCEPT ![interp.id] = {}]
          /\ interp.op = "register_rest"
      BY <1>4 DEF RegisterRest
    <2>2. Registered' = Registered
      BY <2>1 DEF Registered
    <2>3. ASSUME NEW j \in Registered PROVE EnergyIsOwn(j)'
      BY <2>1, <2>3 DEF Own, AtWork, EnergyIsOwn
    <2>4. ASSUME NEW j \in Registered PROVE RingsAreOwn(j)'
      <3>1. CASE j = interp.id
        BY <1>0, <2>1, <3>1 DEF RingsAreOwn, Registered
      <3>2. CASE j # interp.id
        <4>1. RingsAreOwn(j) /\ rings'[j] = rings[j]
          BY <1>0, <2>1, <3>2 DEF Own, AtWork, Registered
        <4> QED BY <2>1, <4>1 DEF RingsAreOwn
      <3> QED BY <3>1, <3>2
    <2> QED BY <2>1, <2>2, <2>3, <2>4 DEF Own
  <1>5. CASE RemoveRows
    <2>1. /\ clock' = clock /\ born' = born /\ comp' = comp
          /\ energy' = [energy EXCEPT ![interp.id] = Empty]
          /\ rings' = [rings EXCEPT ![interp.id] = {}]
          /\ interp.op = "remove"
      BY <1>5 DEF RemoveRows
    <2>2. Registered' = Registered
      BY <2>1 DEF Registered
    <2>3. ASSUME NEW j \in Registered PROVE (EnergyIsOwn(j) /\ RingsAreOwn(j))'
      <3>1. CASE j = interp.id
        BY <1>0, <2>1, <3>1 DEF EnergyIsOwn, RingsAreOwn, Registered
      <3>2. CASE j # interp.id
        <4>1. /\ EnergyIsOwn(j) /\ energy'[j] = energy[j]
              /\ RingsAreOwn(j) /\ rings'[j] = rings[j]
          BY <1>0, <2>1, <3>2 DEF Own, AtWork, Registered
        <4> QED BY <2>1, <4>1 DEF EnergyIsOwn, RingsAreOwn
      <3> QED BY <3>1, <3>2
    <2> QED BY <2>1, <2>2, <2>3 DEF Own
  <1>6. CASE RemoveRest
    BY <1>6, OwnStays DEF RemoveRest
  <1>7. CASE ResetSite
    <2>1. Registered' = {}
      BY <1>7 DEF ResetSite, Registered
    <2>2. born' = born /\ clock' = clock
      BY <1>7 DEF ResetSite
    <2> QED BY <2>1, <2>2 DEF Own
  <1>8. CASE ResetRows
    <2>1. /\ clock' = clock /\ born' = born /\ comp' = comp
          /\ \A i \in Ids : energy'[i] = Empty /\ rings'[i] = {}
      BY <1>8 DEF ResetRows
    <2>2. \A i \in Ids : (EnergyIsOwn(i) /\ RingsAreOwn(i))'
      BY <2>1 DEF EnergyIsOwn, RingsAreOwn
    <2>3. Registered' \subseteq Ids
      BY DEF Registered
    <2> QED BY <2>1, <2>2, <2>3 DEF Own
  <1>9. CASE ResetJournal
    BY <1>9, OwnStays DEF ResetJournal
  <1>10. CASE ResetBaseline
    BY <1>10, OwnStays DEF ResetBaseline
  <1> QED BY <1>1, <1>2, <1>3, <1>4, <1>5, <1>6, <1>7, <1>8, <1>9, <1>10 DEF Structure

LEMMA TasksKeepOwn ==
    ASSUME TypeOK, Own, Tasks
    PROVE  Own'
  <1>0. /\ clock \in Int /\ \A i \in Ids : born[i] \in Int /\ born[i] <= clock
        /\ Registered \subseteq Ids
    BY DEF TypeOK, Own, Registered
  <1>1. CASE TakePass
    <2>1. clock' = clock + 1 /\ UNCHANGED <<comp, born, energy, rings, interp>>
      BY <1>1 DEF TakePass, tables
    <2>2. \A i \in Ids : (born[i] <= clock)'
      BY <1>0, <2>1
    <2>3. Registered' = Registered
      BY <2>1 DEF Registered
    <2>4. ASSUME NEW i \in Registered
          PROVE  (AtWork(i, {"register"}) \/ EnergyIsOwn(i))'
      BY <2>1 DEF Own, AtWork, EnergyIsOwn
    <2>5. ASSUME NEW i \in Registered
          PROVE  (AtWork(i, {"register", "register_rest"}) \/ RingsAreOwn(i))'
      BY <2>1 DEF Own, AtWork, RingsAreOwn
    <2> QED BY <2>2, <2>3, <2>4, <2>5 DEF Own
  <1>2. CASE \E faulted \in SUBSET Ids : Integrate(faulted)
    <2>1. PICK faulted \in SUBSET Ids : Integrate(faulted)
      BY <1>2
    <2>2. /\ UNCHANGED <<comp, born, rings, clock, interp>>
          /\ \A i \in Ids : energy'[i] = IF i \notin pass THEN energy[i]
                                         ELSE IF i \in faulted THEN Dropped(energy[i])
                                         ELSE Advanced(energy[i])
      BY <2>1 DEF Integrate
    <2>3. Registered' = Registered
      BY <2>2 DEF Registered
    <2>4. ASSUME NEW i \in Registered
          PROVE  (AtWork(i, {"register"}) \/ EnergyIsOwn(i))'
      <3>0. i \in Ids
        BY <1>0
      <3>1. CASE energy'[i] = energy[i]
        BY <2>2, <3>1 DEF Own, AtWork, EnergyIsOwn
      <3>2. CASE energy'[i] = Dropped(energy[i])
        BY <3>2 DEF EnergyIsOwn, Dropped
      <3>3. CASE energy'[i] = Advanced(energy[i])
        <4>1. energy'[i].ts = clock
          BY <3>3 DEF Advanced
        <4> QED BY <1>0, <2>2, <3>0, <4>1 DEF EnergyIsOwn
      <3> QED BY <2>2, <3>0, <3>1, <3>2, <3>3
    <2>5. ASSUME NEW i \in Registered
          PROVE  (AtWork(i, {"register", "register_rest"}) \/ RingsAreOwn(i))'
      BY <2>2 DEF Own, AtWork, RingsAreOwn
    <2> QED BY <1>0, <2>2, <2>3, <2>4, <2>5 DEF Own
  <1>3. CASE Holds
    BY <1>3, OwnStays DEF Holds, tables
  <1>4. CASE Records
    <2>1. /\ UNCHANGED <<comp, born, energy, clock, interp>>
          /\ \A i \in Ids : rings'[i] = IF i \in sampler THEN rings[i] \union {clock}
                                        ELSE rings[i]
      BY <1>4 DEF Records
    <2>2. Registered' = Registered
      BY <2>1 DEF Registered
    <2>3. ASSUME NEW i \in Registered
          PROVE  (AtWork(i, {"register"}) \/ EnergyIsOwn(i))'
      BY <2>1 DEF Own, AtWork, EnergyIsOwn
    <2>4. ASSUME NEW i \in Registered
          PROVE  (AtWork(i, {"register", "register_rest"}) \/ RingsAreOwn(i))'
      <3>1. CASE AtWork(i, {"register", "register_rest"})
        BY <2>1, <3>1 DEF AtWork
      <3>2. CASE RingsAreOwn(i)
        <4>1. i \in Ids /\ rings'[i] \subseteq rings[i] \union {clock}
          BY <1>0, <2>1
        <4>2. \A at \in rings'[i] : at >= born[i]
          BY <1>0, <3>2, <4>1 DEF RingsAreOwn
        <4> QED BY <2>1, <4>2 DEF RingsAreOwn
      <3> QED BY <3>1, <3>2 DEF Own
    <2> QED BY <1>0, <2>1, <2>2, <2>3, <2>4 DEF Own
  <1> QED BY <1>1, <1>2, <1>3, <1>4 DEF Tasks

\* Scenarios and drives touch neither rows nor components, and begin only when
\* the interpreter is not in a registration, or leave it where it is.
OtherStep ==
    \/ Scenario
    \/ \E i \in Ids : PutBack(i)
    \/ \E i \in Ids, v \in KnobValues : LispSnapshot(i, v)
    \/ \E d \in DriveRequests : \/ DriveChecks(d) \/ DriveGets(d)
                         \/ DriveSnapshots(d) \/ DriveWrites(d)
    \/ \E d \in DriveRequests, i \in Ids, v \in KnobValues : DriveFinds(d, i, v)

LEMMA OthersLeaveRows ==
    ASSUME OtherStep
    PROVE  /\ UNCHANGED <<comp, born, energy, rings, clock>>
           /\ \/ interp' = interp
              \/ interp.op \notin {"register", "register_rest"}
  <1>1. CASE StopRun \/ StartOver \/ TakeBaseline \/ StopDone
    BY <1>1, IdleIsPlain DEF StopRun, StartOver, StopBegin, TakeBaseline, StopDone, tables
  <1>2. CASE StartReadsEnergy
    BY <1>2, IdleIsPlain DEF StartReadsEnergy, tables
  <1>3. CASE StartJournal \/ StartClears \/ LispWrite
    BY <1>3 DEF StartJournal, StartClears, LispWrite, tables
  <1>4. CASE \E i \in Ids : PutBack(i)
    BY <1>4 DEF PutBack, tables
  <1>5. CASE \E i \in Ids, v \in KnobValues : LispSnapshot(i, v)
    BY <1>5, IdleIsPlain DEF LispSnapshot
  <1>6. CASE \E d \in DriveRequests : DriveChecks(d) \/ DriveGets(d)
    BY <1>6 DEF DriveChecks, DriveGets, tables
  <1>7. CASE \E d \in DriveRequests : DriveSnapshots(d) \/ DriveWrites(d)
    BY <1>7 DEF DriveSnapshots, DriveWrites, tables
  <1>8. CASE \E d \in DriveRequests, i \in Ids, v \in KnobValues : DriveFinds(d, i, v)
    BY <1>8 DEF DriveFinds, tables
  <1> QED
    BY <1>1, <1>2, <1>3, <1>4, <1>5, <1>6, <1>7, <1>8 DEF OtherStep, Scenario

\* Whatever raced what, a settled component's rows were written in its own
\* lifetime.
THEOREM RowsAreOfTheirComponent == TablesSpec => []RowsAreItsOwn
  <1>1. TablesInit => Own
    BY DEF TablesInit, Own, Registered
  <1>2. ASSUME TypeOK, Own, [TablesNext]_tableVars
        PROVE  Own'
    <2>1. CASE Structure \/ \E i \in Ids : Register(i) \/ Remove(i)
      BY <1>2, <2>1, StructureKeepsOwn
    <2>2. CASE Tasks
      BY <1>2, <2>2, TasksKeepOwn
    <2>3. CASE OtherStep
      BY <1>2, <2>3, OthersLeaveRows, OwnStays
    <2>4. CASE UNCHANGED tableVars
      BY <1>2, <2>4, OwnStays DEF tableVars, tables
    <2> QED BY <1>2, <2>1, <2>2, <2>3, <2>4 DEF TablesNext, OtherStep
  <1>3. Own => RowsAreItsOwn
    <2> SUFFICES ASSUME Own, NEW i \in Settled
                 PROVE  /\ energy[i] # Empty /\ energy[i].ts # Empty => energy[i].ts >= born[i]
                        /\ \A at \in rings[i] : at >= born[i]
      BY DEF RowsAreItsOwn
    <2>1. i \in Registered /\ ~AtWork(i, {"register", "register_rest"})
      BY DEF Settled, AtWork
    <2>2. ~AtWork(i, {"register"})
      BY <2>1 DEF AtWork
    <2>3. EnergyIsOwn(i) /\ RingsAreOwn(i)
      BY <2>1, <2>2 DEF Own
    <2> QED BY <2>3 DEF EnergyIsOwn, RingsAreOwn
  <1> QED BY <1>1, <1>2, <1>3, TypeCorrect, PTL DEF TablesSpec

-----------------------------------------------------------------------------
(* Energy since a scenario's start.  The baseline a component has is of an  *)
(* entry that is still there and only grew, but for the interpreter's steps *)
(* between dropping the entry and dropping the baseline.                    *)

Losing(i) == AtWork(i, {"remove_rest", "register_rest"}) \/ interp.op = "reset_journal"

AtLeast(i, base) == base # Empty => energy[i] # Empty /\ energy[i].total >= base

Counted ==
    /\ \A i \in Ids : energy[i] # Empty /\ energy[i].ts # Empty => energy[i].ts <= clock
    /\ \A i \in Ids : Losing(i) \/ AtLeast(i, ebase[i])
    /\ interp.op = "journal" => \A i \in Ids : AtLeast(i, interp.totals[i])

\* A step that keeps entries and baselines keeps this, unless it ends a removal, a
\* registration or a reset, or is the one that reads the totals.
LEMMA CountedStays ==
    ASSUME Counted, UNCHANGED <<energy, ebase, clock>>,
           \/ interp' = interp
           \/ /\ interp.op \notin {"remove_rest", "register_rest", "reset_journal"}
              /\ interp'.op # "journal"
    PROVE  Counted'
  <1>1. \A i \in Ids : (energy[i] # Empty /\ energy[i].ts # Empty => energy[i].ts <= clock)'
    BY DEF Counted
  <1>2. ASSUME NEW i \in Ids PROVE (Losing(i) \/ AtLeast(i, ebase[i]))'
    <2>1. Losing(i) \/ AtLeast(i, ebase[i])
      BY DEF Counted
    <2>2. CASE AtLeast(i, ebase[i])
      BY <2>2 DEF AtLeast
    <2>3. CASE Losing(i)
      BY <2>3 DEF Losing, AtWork
    <2> QED BY <2>1, <2>2, <2>3
  <1>3. ASSUME (interp.op = "journal")', NEW i \in Ids
        PROVE  AtLeast(i, interp.totals[i])'
    BY <1>3 DEF Counted, AtLeast
  <1> QED BY <1>1, <1>2, <1>3 DEF Counted

LEMMA StructureKeepsCounted ==
    ASSUME TypeOK, Counted,
           Structure \/ \E i \in Ids : Register(i) \/ Remove(i)
    PROVE  Counted'
  <1>0. /\ DOMAIN energy = Ids /\ DOMAIN ebase = Ids
        /\ clock \in Int
    BY DEF TypeOK
  <1>1. CASE (\E i \in Ids : Register(i) \/ Remove(i)) \/ ResetSite
    BY <1>1, CountedStays, IdleIsPlain DEF Register, Remove, ResetSite, tables
  <1>2. CASE RegisterEnergy \/ RemoveRows
    <2>1. /\ clock' = clock /\ ebase' = ebase
          /\ energy' = [energy EXCEPT ![interp.id] = Empty]
          /\ interp.op \in {"register", "remove"}
          /\ \/ interp' = [interp EXCEPT !.op = "register_rest"]
             \/ interp' = [interp EXCEPT !.op = "remove_rest"]
      BY <1>2 DEF RegisterEnergy, RemoveRows
    <2>2. interp'.op \in {"register_rest", "remove_rest"} /\ interp'.id = interp.id
      <3>1. interp \in AtId
        BY <2>1, InterpParts DEF TypeOK
      <3> QED BY <2>1, <3>1 DEF AtId
    <2>3. ASSUME NEW i \in Ids
          PROVE  /\ (energy[i] # Empty /\ energy[i].ts # Empty => energy[i].ts <= clock)'
                 /\ (Losing(i) \/ AtLeast(i, ebase[i]))'
      <3>1. CASE i = interp.id
        BY <1>0, <2>1, <2>2, <3>1 DEF Losing, AtWork
      <3>2. CASE i # interp.id
        <4>1. energy'[i] = energy[i] /\ AtLeast(i, ebase[i])
          BY <1>0, <2>1, <3>2 DEF Counted, Losing, AtWork
        <4> QED BY <2>1, <4>1 DEF AtLeast, Counted
      <3> QED BY <3>1, <3>2
    <2> QED BY <2>2, <2>3 DEF Counted
  <1>3. CASE RegisterRest \/ RemoveRest
    <2>1. /\ clock' = clock /\ energy' = energy
          /\ ebase' = [ebase EXCEPT ![interp.id] = Empty]
          /\ interp.op \in {"register_rest", "remove_rest"}
          /\ interp' = AtRest
      BY <1>3 DEF RegisterRest, RemoveRest, WithoutId
    <2>2. ASSUME NEW i \in Ids
          PROVE  AtLeast(i, ebase[i])'
      <3>1. CASE i = interp.id
        BY <1>0, <2>1, <3>1 DEF AtLeast
      <3>2. CASE i # interp.id
        <4>1. ebase'[i] = ebase[i] /\ AtLeast(i, ebase[i])
          BY <1>0, <2>1, <3>2 DEF Counted, Losing, AtWork
        <4> QED BY <2>1, <4>1 DEF AtLeast
      <3> QED BY <3>1, <3>2
    <2> QED BY <2>1, <2>2, IdleIsPlain DEF Counted
  <1>4. CASE ResetRows
    BY <1>4, IdleIsPlain DEF ResetRows, Counted, Losing
  <1>5. CASE ResetJournal
    <2>1. /\ clock' = clock /\ energy' = energy /\ interp'.op # "journal"
          /\ \A i \in Ids : ebase'[i] = Empty
      BY <1>5 DEF ResetJournal
    <2> QED BY <2>1 DEF Counted, AtLeast
  <1>6. CASE ResetBaseline
    BY <1>6, CountedStays, IdleIsPlain DEF ResetBaseline
  <1> QED BY <1>1, <1>2, <1>3, <1>4, <1>5, <1>6 DEF Structure

\* An integration step makes an entry where there was none and lowers no total.
LEMMA EntryGrows ==
    ASSUME clock \in Int, NEW e \in Entry \union {Empty},
           e # Empty /\ e.ts # Empty => e.ts <= clock
    PROVE  /\ Advanced(e) # Empty /\ Advanced(e).ts = clock
           /\ Dropped(e) # Empty /\ Dropped(e).ts = Empty
           /\ \A base \in Int : e # Empty /\ e.total >= base
                => Advanced(e).total >= base /\ Dropped(e).total >= base
  <1>1. CASE e = Empty
    <2>1. Advanced(e) \in Entry /\ Dropped(e) \in Entry
      BY <1>1 DEF Advanced, Dropped, Entry
    <2> QED BY <1>1, <2>1, EmptyIsApart DEF Advanced, Dropped
  <1>2. CASE e # Empty
    <2>1. e.total \in Int /\ e.ts \in Int \union {Empty}
      BY <1>2 DEF Entry
    <2>2. Advanced(e) \in Entry /\ Dropped(e) \in Entry
      BY <1>2, <2>1 DEF Advanced, Dropped, Entry
    <2>3. Advanced(e).ts = clock /\ Dropped(e).ts = Empty /\ Dropped(e).total = e.total
      BY <1>2 DEF Advanced, Dropped
    <2>4. Advanced(e).total >= e.total /\ Advanced(e).total \in Int
      BY <1>2, <2>1 DEF Advanced
    <2> QED BY <1>2, <2>1, <2>2, <2>3, <2>4, EmptyIsApart
  <1> QED BY <1>1, <1>2

LEMMA TasksKeepCounted ==
    ASSUME TypeOK, Counted, Tasks
    PROVE  Counted'
  <1>0. /\ clock \in Int
        /\ \A i \in Ids : energy[i] \in Entry \union {Empty} /\ ebase[i] \in Int \union {Empty}
        /\ interp.op = "journal" => \A i \in Ids : interp.totals[i] \in Int \union {Empty}
    <2>1. interp.op = "journal" => \A i \in Ids : interp.totals[i] \in Int \union {Empty}
      BY InterpParts DEF TypeOK, Starting
    <2> QED BY <2>1 DEF TypeOK
  <1>1. CASE TakePass
    <2>1. clock' = clock + 1 /\ UNCHANGED <<energy, ebase, interp>>
      BY <1>1 DEF TakePass, tables
    <2>2. ASSUME NEW i \in Ids, energy[i] # Empty /\ energy[i].ts # Empty
          PROVE  energy[i].ts <= clock + 1
      <3>1. energy[i].ts \in Int /\ energy[i].ts <= clock
        BY <1>0, <2>2 DEF Counted, Entry
      <3> QED BY <1>0, <3>1
    <2>3. ASSUME NEW i \in Ids PROVE (Losing(i) \/ AtLeast(i, ebase[i]))'
      BY <2>1 DEF Counted, Losing, AtWork, AtLeast
    <2>4. ASSUME (interp.op = "journal")', NEW i \in Ids
          PROVE  AtLeast(i, interp.totals[i])'
      BY <2>1, <2>4 DEF Counted, AtLeast
    <2> QED BY <2>1, <2>2, <2>3, <2>4 DEF Counted
  <1>2. CASE \E faulted \in SUBSET Ids : Integrate(faulted)
    <2>1. PICK faulted \in SUBSET Ids : Integrate(faulted)
      BY <1>2
    <2>2. /\ UNCHANGED <<ebase, clock, interp>>
          /\ \A i \in Ids : energy'[i] = IF i \notin pass THEN energy[i]
                                         ELSE IF i \in faulted THEN Dropped(energy[i])
                                         ELSE Advanced(energy[i])
      BY <2>1 DEF Integrate
    <2>3. ASSUME NEW i \in Ids
          PROVE  /\ energy'[i] # Empty /\ energy'[i].ts # Empty => energy'[i].ts <= clock
                 /\ \A base \in Int : energy[i] # Empty /\ energy[i].total >= base
                        => energy'[i] # Empty /\ energy'[i].total >= base
      <3>1. CASE energy'[i] = energy[i]
        BY <1>0, <3>1 DEF Counted
      <3>2. energy[i] # Empty /\ energy[i].ts # Empty => energy[i].ts <= clock
        BY DEF Counted
      <3>3. CASE energy'[i] = Dropped(energy[i])
        BY <1>0, <3>2, <3>3, EntryGrows
      <3>4. CASE energy'[i] = Advanced(energy[i])
        <4>1. clock <= clock
          BY <1>0
        <4> QED BY <1>0, <3>2, <3>4, <4>1, EntryGrows
      <3> QED BY <2>2, <3>1, <3>3, <3>4
    <2>4. ASSUME NEW i \in Ids, NEW base \in Int \union {Empty}, AtLeast(i, base)
          PROVE  base # Empty => energy'[i] # Empty /\ energy'[i].total >= base
      BY <2>3, <2>4 DEF AtLeast
    <2>5. ASSUME NEW i \in Ids PROVE (Losing(i) \/ AtLeast(i, ebase[i]))'
      <3>1. CASE Losing(i)
        BY <2>2, <3>1 DEF Losing, AtWork
      <3>2. CASE AtLeast(i, ebase[i])
        <4>1. ebase[i] # Empty => energy'[i] # Empty /\ energy'[i].total >= ebase[i]
          BY <1>0, <2>4, <3>2
        <4> QED BY <2>2, <4>1 DEF AtLeast
      <3> QED BY <3>1, <3>2 DEF Counted
    <2>6. ASSUME (interp.op = "journal")', NEW i \in Ids
          PROVE  AtLeast(i, interp.totals[i])'
      <3>1. interp' = interp /\ interp.op = "journal" /\ AtLeast(i, interp.totals[i])
        BY <2>2, <2>6 DEF Counted
      <3>2. interp.totals[i] # Empty
              => energy'[i] # Empty /\ energy'[i].total >= interp.totals[i]
        BY <1>0, <2>4, <3>1
      <3> QED BY <3>1, <3>2 DEF AtLeast
    <2> QED BY <2>2, <2>3, <2>5, <2>6 DEF Counted
  <1>3. CASE Holds \/ Records
    BY <1>3, CountedStays DEF Holds, Records, tables
  <1> QED BY <1>1, <1>2, <1>3 DEF Tasks

LEMMA ScenarioKeepsCounted ==
    ASSUME TypeOK, Counted, OtherStep
    PROVE  Counted'
  <1>1. CASE StopRun \/ StartOver \/ TakeBaseline
    BY <1>1, CountedStays, IdleIsPlain
    DEF StopRun, StartOver, StopBegin, TakeBaseline, tables
  <1>2. CASE StopDone
    <2>1. interp.next \in {"idle", "start"}
      BY <1>2, InterpParts DEF StopDone, TypeOK, Restoring
    <2>2. interp.op = "restore" /\ interp' = [op |-> interp.next]
          /\ UNCHANGED <<energy, ebase, clock>>
      BY <1>2 DEF StopDone, tables
    <2>3. interp'.op # "journal"
      BY <2>1, <2>2, IdleIsPlain
    <2> QED BY <2>2, <2>3, CountedStays
  <1>3. CASE StartReadsEnergy
    <2>1. /\ UNCHANGED <<energy, ebase, clock>>
          /\ interp.op \in {"idle", "start"} /\ interp'.op = "journal"
          /\ \A i \in Ids : interp'.totals[i]
                              = IF energy[i] = Empty THEN Empty ELSE energy[i].total
      BY <1>3, IdleIsPlain DEF StartReadsEnergy, tables
    <2>2. ASSUME NEW i \in Ids PROVE AtLeast(i, interp.totals[i])'
      <3>1. energy[i] # Empty => energy[i].total >= energy[i].total
        BY DEF TypeOK, Entry
      <3> QED BY <2>1, <3>1 DEF AtLeast
    <2>3. ASSUME NEW i \in Ids PROVE AtLeast(i, ebase[i])'
      BY <2>1 DEF Counted, Losing, AtWork, AtLeast
    <2>4. \A i \in Ids : (energy[i] # Empty /\ energy[i].ts # Empty => energy[i].ts <= clock)'
      BY <2>1 DEF Counted
    <2> QED BY <2>2, <2>3, <2>4 DEF Counted
  <1>4. CASE StartJournal
    <2>1. /\ UNCHANGED <<energy, clock>> /\ ebase' = interp.totals
          /\ interp.op = "journal" /\ interp'.op = "clear"
      BY <1>4 DEF StartJournal
    <2>2. ASSUME NEW i \in Ids PROVE AtLeast(i, ebase[i])'
      BY <2>1 DEF Counted, AtLeast
    <2> QED BY <2>1, <2>2 DEF Counted
  <1>5. CASE StartClears \/ LispWrite
    BY <1>5, CountedStays, IdleIsPlain DEF StartClears, LispWrite, tables
  <1>6. CASE \E i \in Ids : PutBack(i)
    <2>1. PICK i \in Ids : PutBack(i)
      BY <1>6
    <2>2. interp.op = "restore" /\ interp' = [interp EXCEPT !.taken[i] = Empty]
          /\ UNCHANGED <<energy, ebase, clock>>
      BY <2>1 DEF PutBack, tables
    <2>3. interp'.op = "restore"
      <3>1. interp \in Restoring
        BY <2>2, InterpParts DEF TypeOK
      <3> QED BY <2>2, <3>1 DEF Restoring
    <2> QED BY <2>2, <2>3, CountedStays
  <1>7. CASE \E i \in Ids, v \in KnobValues : LispSnapshot(i, v)
    BY <1>7, CountedStays, IdleIsPlain DEF LispSnapshot
  <1>8. CASE \E d \in DriveRequests : DriveChecks(d) \/ DriveGets(d)
    BY <1>8, CountedStays DEF DriveChecks, DriveGets, tables
  <1>9. CASE \E d \in DriveRequests : DriveSnapshots(d) \/ DriveWrites(d)
    BY <1>9, CountedStays DEF DriveSnapshots, DriveWrites, tables
  <1>10. CASE \E d \in DriveRequests, i \in Ids, v \in KnobValues : DriveFinds(d, i, v)
    BY <1>10, CountedStays DEF DriveFinds, tables
  <1> QED
    BY <1>1, <1>2, <1>3, <1>4, <1>5, <1>6, <1>7, <1>8, <1>9, <1>10
    DEF OtherStep, Scenario

\* Between operations of the interpreter no component has used less than
\* nothing since the scenario's start.
THEOREM EnergyOnlyGrowsInAScenario == TablesSpec => []EnergySinceStartIsNotNegative
  <1>1. TablesInit => Counted
    BY IdleIsPlain DEF TablesInit, Counted, AtLeast
  <1>2. ASSUME TypeOK, Counted, [TablesNext]_tableVars
        PROVE  Counted'
    <2>1. CASE Structure \/ \E i \in Ids : Register(i) \/ Remove(i)
      BY <1>2, <2>1, StructureKeepsCounted
    <2>2. CASE Tasks
      BY <1>2, <2>2, TasksKeepCounted
    <2>3. CASE OtherStep
      BY <1>2, <2>3, ScenarioKeepsCounted
    <2>4. CASE UNCHANGED tableVars
      BY <1>2, <2>4, CountedStays DEF tableVars, tables
    <2> QED BY <1>2, <2>1, <2>2, <2>3, <2>4 DEF TablesNext, OtherStep
  <1>3. Counted => EnergySinceStartIsNotNegative
    BY IdleIsPlain
    DEF Counted, EnergySinceStartIsNotNegative, Losing, AtWork, AtLeast
  <1> QED BY <1>1, <1>2, <1>3, TypeCorrect, PTL DEF TablesSpec

-----------------------------------------------------------------------------
(* A run is undone.  Components are told apart by their number, a drive in *)
(* flight is of the id it found its component under, and while a scenario  *)
(* runs the interpreter is in no step of stopping or starting one.         *)

Built ==
    /\ \A i, j \in Registered : comp[i] = comp[j] => i = j
    /\ \A i \in Registered : comp[i] <= builds
    /\ \A b \in Build : b > builds => knobs[b] = AsBuilt
    /\ \A d \in InFlight : drive[d].c <= builds
    /\ \A d \in InFlight, i \in Registered : comp[i] = drive[d].c => i = drive[d].id

Phased ==
    /\ interp.op \in {"stop", "restore", "start", "journal", "reset_baseline"} => ~running
    /\ interp.op \in {"remove", "remove_rest"} => interp.id \notin Registered
    /\ interp.op = "write" => interp.id \in Registered

LEMMA BuiltStays ==
    ASSUME Built, UNCHANGED <<comp, builds, knobs, drive>>
    PROVE  Built'
  <1>1. Registered' = Registered /\ InFlight' = InFlight
    BY DEF Registered, InFlight
  <1> QED BY <1>1 DEF Built

\* A removal or a reset only takes components out of the table.
LEMMA BuiltAfterRemoval ==
    ASSUME Built, UNCHANGED <<builds, knobs, drive>>,
           \A i \in Ids : comp'[i] = comp[i] \/ comp'[i] = Empty
    PROVE  Built'
  <1>1. InFlight' = InFlight
    BY DEF InFlight
  <1>2. ASSUME NEW i \in Registered'
        PROVE  i \in Registered /\ comp'[i] = comp[i]
    BY <1>2 DEF Registered
  <1> QED BY <1>1, <1>2 DEF Built

\* Only knobs of components built are written.
LEMMA BuiltAfterWrite ==
    ASSUME TypeOK, Built, UNCHANGED <<comp, builds>>,
           NEW b \in Build, b <= builds, NEW v, knobs' = [knobs EXCEPT ![b] = v],
           InFlight' \subseteq InFlight,
           \A d \in InFlight' : drive'[d] = drive[d]
    PROVE  Built'
  <1>1. Registered' = Registered
    BY DEF Registered
  <1>2. ASSUME NEW x \in Build, x > builds
        PROVE  knobs'[x] = AsBuilt
    <2>1. x # b
      BY <1>2 DEF Build, TypeOK
    <2> QED BY <1>2, <2>1 DEF Built, TypeOK
  <1> QED BY <1>1, <1>2 DEF Built

\* What a drive past its lookup does to itself.
LEMMA DriveMoves ==
    ASSUME TypeOK, NEW d \in DriveRequests,
           DriveChecks(d) \/ DriveGets(d) \/ DriveSnapshots(d)
    PROVE  /\ InFlight' = InFlight /\ d \in InFlight
           /\ \A e \in DriveRequests : e # d => drive'[e] = drive[e]
           /\ drive'[d].id = drive[d].id /\ drive'[d].c = drive[d].c
           /\ drive'[d].pc # "idle"
  <1> DEFINE r == drive[d]
  <1>1. r \in Drive /\ drive \in [DriveRequests -> Drive]
    BY DEF TypeOK
  <1>2. r.pc # "idle"
    BY DEF DriveChecks, DriveGets, DriveSnapshots
  <1>3. \A e \in DriveRequests : e # d => drive'[e] = drive[e]
    BY <1>1 DEF DriveChecks, DriveGets, DriveSnapshots
  <1>4. drive'[d].id = r.id /\ drive'[d].c = r.c /\ drive'[d].pc # "idle"
    <2>1. CASE DriveChecks(d)
      <3>1. r \in Found
        BY <1>1, <2>1, DriveParts DEF DriveChecks
      <3>2. drive'[d] = [r EXCEPT !.pc = IF running THEN "get" ELSE "write"]
        BY <1>1, <2>1 DEF DriveChecks
      <3>3. drive'[d].pc = IF running THEN "get" ELSE "write"
        BY <3>1, <3>2 DEF Found
      <3> QED BY <3>1, <3>2, <3>3 DEF Found
    <2>2. CASE DriveGets(d)
      <3>1. drive'[d] = [pc |-> IF comp[r.id] # Empty THEN "snapshot" ELSE "write",
                         id |-> r.id, c |-> r.c, value |-> r.value, found |-> comp[r.id]]
        BY <1>1, <2>2 DEF DriveGets
      <3> QED BY <3>1
    <2>3. CASE DriveSnapshots(d)
      <3>1. r \in Got
        BY <1>1, <2>3, DriveParts DEF DriveSnapshots
      <3>2. drive'[d] = [r EXCEPT !.pc = "write"]
        BY <1>1, <2>3 DEF DriveSnapshots
      <3> QED BY <3>1, <3>2 DEF Got
    <2> QED BY <2>1, <2>2, <2>3
  <1>5. drive'[d].id = drive[d].id /\ drive'[d].c = drive[d].c /\ drive'[d].pc # "idle"
    BY <1>4
  <1>6. \A e \in DriveRequests : drive'[e].pc # "idle" <=> drive[e].pc # "idle"
    BY <1>2, <1>3, <1>5
  <1> HIDE DEF r
  <1> QED BY <1>2, <1>3, <1>5, <1>6 DEF InFlight, r

LEMMA TableParts ==
    ASSUME TypeOK
    PROVE  /\ comp \in [Ids -> Build \union {Empty}] /\ knobs \in [Build -> Value]
           /\ builds \in Int /\ drive \in [DriveRequests -> Drive]
           /\ \A i \in Registered : i \in Ids /\ comp[i] \in Build
           /\ \A d \in InFlight : d \in DriveRequests /\ drive[d].c \in Build /\ drive[d].id \in Ids
  <1>1. ASSUME NEW d \in InFlight
        PROVE  d \in DriveRequests /\ drive[d].c \in Build /\ drive[d].id \in Ids
    BY DriveParts DEF InFlight, TypeOK
  <1> QED BY <1>1 DEF TypeOK, Registered

LEMMA NextKeepsBuilt ==
    ASSUME TypeOK, Built, Phased, [TablesNext]_tableVars
    PROVE  Built'
  <1>0. /\ comp \in [Ids -> Build \union {Empty}] /\ knobs \in [Build -> Value]
        /\ builds \in Int /\ drive \in [DriveRequests -> Drive]
        /\ \A i \in Registered : i \in Ids /\ comp[i] \in Build
        /\ \A d \in InFlight : d \in DriveRequests /\ drive[d].c \in Build /\ drive[d].id \in Ids
    BY TableParts
  <1>1. CASE \E i \in Ids : Register(i)
    <2>1. PICK i \in Ids : Register(i)
      BY <1>1
    <2>2. /\ comp' = [comp EXCEPT ![i] = builds + 1] /\ builds' = builds + 1
          /\ knobs' = knobs /\ drive' = drive
      BY <2>1 DEF Register
    <2>3. InFlight' = InFlight
      BY <2>2 DEF InFlight
    <2>4. ASSUME NEW j \in Registered', j # i
          PROVE  j \in Registered /\ comp'[j] = comp[j]
      BY <1>0, <2>2, <2>4 DEF Registered
    <2>5. comp'[i] = builds + 1
      BY <1>0, <2>2
    <2>6. ASSUME NEW j \in Registered', j # i PROVE comp'[j] <= builds
      BY <2>4, <2>6 DEF Built
    <2>7. ASSUME NEW j \in Registered' PROVE comp'[j] <= builds'
      <3>1. CASE j = i
        BY <1>0, <2>2, <2>5, <3>1
      <3>2. CASE j # i
        <4>1. comp'[j] \in Build /\ comp'[j] <= builds
          BY <1>0, <2>4, <2>6, <3>2
        <4> QED BY <1>0, <2>2, <4>1 DEF Build
      <3> QED BY <3>1, <3>2
    <2>8. ASSUME NEW j \in Registered', NEW m \in Registered', comp'[j] = comp'[m]
          PROVE  j = m
      BY <1>0, <2>4, <2>5, <2>6, <2>8 DEF Built
    <2>9. ASSUME NEW d \in InFlight PROVE drive[d].c <= builds
      BY <2>9 DEF Built
    <2>10. ASSUME NEW d \in InFlight PROVE drive[d].c <= builds + 1
      BY <1>0, <2>9, <2>10 DEF Build
    <2>11. ASSUME NEW d \in InFlight, NEW j \in Registered', comp'[j] = drive[d].c
           PROVE  j = drive[d].id
      BY <1>0, <2>4, <2>5, <2>9, <2>11 DEF Built, Build
    <2>12. ASSUME NEW b \in Build, b > builds + 1 PROVE knobs[b] = AsBuilt
      BY <1>0, <2>12 DEF Built, Build
    <2> QED BY <2>2, <2>3, <2>7, <2>8, <2>10, <2>11, <2>12 DEF Built
  <1>2. CASE \E i \in Ids : Remove(i)
    BY <1>0, <1>2, BuiltAfterRemoval DEF Remove
  <1>3. CASE ResetSite
    BY <1>3, BuiltAfterRemoval DEF ResetSite
  <1>4. CASE RegisterEnergy \/ RegisterRest \/ RemoveRows \/ RemoveRest
             \/ ResetRows \/ ResetJournal \/ ResetBaseline
    BY <1>4, BuiltStays
    DEF RegisterEnergy, RegisterRest, RemoveRows, RemoveRest, ResetRows, ResetJournal,
        ResetBaseline
  <1>5. CASE Tasks
    BY <1>5, BuiltStays DEF Tasks, TakePass, Integrate, Holds, Records
  <1>6. CASE StopRun \/ StartOver \/ TakeBaseline \/ StopDone \/ StartReadsEnergy
             \/ StartJournal \/ StartClears
    BY <1>6, BuiltStays
    DEF StopRun, StartOver, StopBegin, TakeBaseline, StopDone, StartReadsEnergy,
        StartJournal, StartClears
  <1>7. CASE LispWrite
    <2>1. interp.id \in Registered
      BY <1>7 DEF LispWrite, Phased
    <2>2. comp[interp.id] \in Build /\ comp[interp.id] <= builds
      BY <1>0, <2>1 DEF Built
    <2>3. InFlight' = InFlight
      BY <1>7 DEF LispWrite, InFlight
    <2> QED BY <1>7, <2>2, <2>3, BuiltAfterWrite DEF LispWrite
  <1>8. CASE \E i \in Ids : PutBack(i)
    <2>1. PICK i \in Ids : PutBack(i)
      BY <1>8
    <2>2. CASE comp[i] = Empty
      BY <2>1, <2>2, BuiltStays DEF PutBack
    <2>3. CASE comp[i] # Empty
      <3>1. comp[i] \in Build /\ comp[i] <= builds
        BY <1>0, <2>3 DEF Built, Registered
      <3>2. InFlight' = InFlight
        BY <2>1 DEF PutBack, InFlight
      <3> QED BY <2>1, <2>3, <3>1, <3>2, BuiltAfterWrite DEF PutBack
    <2> QED BY <2>2, <2>3
  <1>9. CASE \E i \in Ids, v \in KnobValues : LispSnapshot(i, v)
    BY <1>9, BuiltStays DEF LispSnapshot
  <1>10. CASE \E d \in DriveRequests, i \in Ids, v \in KnobValues : DriveFinds(d, i, v)
    <2>1. PICK d \in DriveRequests, i \in Ids, v \in KnobValues : DriveFinds(d, i, v)
      BY <1>10
    <2>2. /\ UNCHANGED <<comp, builds, knobs>> /\ i \in Registered
          /\ drive' = [drive EXCEPT ![d] = [pc |-> "check", id |-> i, c |-> comp[i],
                                            value |-> v]]
      BY <2>1 DEF DriveFinds
    <2>3. Registered' = Registered
      BY <2>2 DEF Registered
    <2>4. ASSUME NEW e \in InFlight', e # d
          PROVE  e \in InFlight /\ drive'[e] = drive[e]
      BY <1>0, <2>2, <2>4 DEF InFlight
    <2>5. drive'[d].c = comp[i] /\ drive'[d].id = i
      BY <1>0, <2>2
    <2>6. ASSUME NEW e \in InFlight' PROVE drive'[e].c <= builds
      BY <2>2, <2>4, <2>5, <2>6 DEF Built
    <2>7. ASSUME NEW e \in InFlight', NEW j \in Registered, comp[j] = drive'[e].c
          PROVE  j = drive'[e].id
      BY <2>2, <2>4, <2>5, <2>7 DEF Built
    <2> QED BY <2>2, <2>3, <2>6, <2>7 DEF Built
  <1>11. CASE \E d \in DriveRequests : DriveChecks(d) \/ DriveGets(d) \/ DriveSnapshots(d)
    <2>1. PICK d \in DriveRequests : DriveChecks(d) \/ DriveGets(d) \/ DriveSnapshots(d)
      BY <1>11
    <2>2. UNCHANGED <<comp, builds, knobs>>
      BY <2>1 DEF DriveChecks, DriveGets, DriveSnapshots
    <2>3. Registered' = Registered
      BY <2>2 DEF Registered
    <2>4. InFlight' = InFlight
          /\ \A e \in InFlight : drive'[e].id = drive[e].id /\ drive'[e].c = drive[e].c
      BY <1>0, <2>1, DriveMoves
    <2> QED BY <2>2, <2>3, <2>4 DEF Built
  <1>12. CASE \E d \in DriveRequests : DriveWrites(d)
    <2>1. PICK d \in DriveRequests : DriveWrites(d)
      BY <1>12
    <2>2. /\ UNCHANGED <<comp, builds>> /\ d \in InFlight
          /\ knobs' = [knobs EXCEPT ![drive[d].c] = drive[d].value]
          /\ drive' = [drive EXCEPT ![d] = NoDrive]
      BY <2>1 DEF DriveWrites, InFlight
    <2>3. drive[d].c \in Build /\ drive[d].c <= builds
      BY <1>0, <2>2 DEF Built
    <2>4. ASSUME NEW e \in InFlight'
          PROVE  e \in InFlight /\ drive'[e] = drive[e]
      BY <1>0, <2>2, <2>4 DEF InFlight, NoDrive
    <2> QED BY <2>2, <2>3, <2>4, BuiltAfterWrite
  <1>13. CASE UNCHANGED tableVars
    BY <1>13, BuiltStays DEF tableVars
  <1> QED
    BY <1>1, <1>2, <1>3, <1>4, <1>5, <1>6, <1>7, <1>8, <1>9, <1>10, <1>11, <1>12, <1>13
    DEF TablesNext, Structure, Scenario

LEMMA PhasedStays ==
    ASSUME Phased, UNCHANGED <<interp, running, comp>>
    PROVE  Phased'
  BY DEF Phased, Registered

LEMMA NextKeepsPhased ==
    ASSUME TypeOK, Phased, [TablesNext]_tableVars
    PROVE  Phased'
  <1>1. CASE \E i \in Ids : Register(i)
    BY <1>1 DEF Register, Phased
  <1>2. CASE \E i \in Ids : Remove(i)
    BY <1>2 DEF Remove, Phased, Registered, TypeOK
  <1>3. CASE RegisterEnergy \/ RemoveRows
    <2>1. /\ UNCHANGED <<comp, running>>
          /\ \/ /\ interp.op = "register"
                /\ interp' = [interp EXCEPT !.op = "register_rest"]
             \/ /\ interp.op = "remove"
                /\ interp' = [interp EXCEPT !.op = "remove_rest"]
      BY <1>3 DEF RegisterEnergy, RemoveRows
    <2>2. interp \in AtId
      BY <2>1, InterpParts DEF TypeOK
    <2>3. /\ interp'.id = interp.id
          /\ \/ interp'.op = "register_rest"
             \/ interp.op = "remove" /\ interp'.op = "remove_rest"
      BY <2>1, <2>2 DEF AtId
    <2> QED BY <2>1, <2>3 DEF Phased, Registered
  <1>4. CASE RegisterRest \/ RemoveRest \/ ResetSite \/ ResetRows \/ ResetJournal
             \/ ResetBaseline \/ StartClears \/ LispWrite
    <2>1. /\ interp'.op \in {"idle", "reset", "reset_journal", "reset_baseline"}
          /\ interp'.op = "reset_baseline" => ~running'
      BY <1>4, IdleIsPlain
      DEF RegisterRest, RemoveRest, ResetSite, ResetRows, ResetJournal, ResetBaseline,
          StartClears, LispWrite
    <2> QED BY <2>1 DEF Phased
  <1>5. CASE Tasks
    BY <1>5, PhasedStays DEF Tasks, TakePass, Integrate, Holds, Records
  <1>6. CASE StopRun \/ StartOver
    BY <1>6 DEF StopRun, StartOver, StopBegin, Phased
  <1>7. CASE TakeBaseline
    BY <1>7 DEF TakeBaseline, Phased
  <1>8. CASE StopDone
    <2>1. interp.next \in {"idle", "start"} /\ ~running
      BY <1>8, InterpParts DEF StopDone, TypeOK, Restoring, Phased
    <2>2. interp'.op \in {"idle", "start"} /\ ~running'
      BY <1>8, <2>1, IdleIsPlain DEF StopDone
    <2> QED BY <2>2 DEF Phased
  <1>9. CASE StartReadsEnergy
    <2>1. ~running' /\ interp'.op = "journal"
      BY <1>9 DEF StartReadsEnergy, Phased
    <2> QED BY <2>1 DEF Phased
  <1>10. CASE StartJournal
    BY <1>10 DEF StartJournal, Phased
  <1>11. CASE \E i \in Ids : PutBack(i)
    <2>1. PICK i \in Ids : PutBack(i)
      BY <1>11
    <2>2. interp.op = "restore" /\ interp' = [interp EXCEPT !.taken[i] = Empty]
          /\ running' = running
      BY <2>1 DEF PutBack
    <2>3. interp'.op = "restore"
      <3>1. interp \in Restoring
        BY <2>2, InterpParts DEF TypeOK
      <3> QED BY <2>2, <3>1 DEF Restoring
    <2> QED BY <2>2, <2>3 DEF Phased
  <1>12. CASE \E i \in Ids, v \in KnobValues : LispSnapshot(i, v)
    BY <1>12 DEF LispSnapshot, Phased, Registered
  <1>13. CASE \E d \in DriveRequests : \/ DriveChecks(d) \/ DriveGets(d)
                                \/ DriveSnapshots(d) \/ DriveWrites(d)
                                \/ \E i \in Ids, v \in KnobValues : DriveFinds(d, i, v)
    BY <1>13, PhasedStays
    DEF DriveChecks, DriveGets, DriveSnapshots, DriveWrites, DriveFinds
  <1>14. CASE UNCHANGED tableVars
    BY <1>14, PhasedStays DEF tableVars
  <1> QED
    BY <1>1, <1>2, <1>3, <1>4, <1>5, <1>6, <1>7, <1>8, <1>9, <1>10, <1>11, <1>12,
       <1>13, <1>14
    DEF TablesNext, Structure, Scenario

(* The knob of a component that no start or registration overlapped is as  *)
(* it was before the run, or that value is recorded; what is recorded      *)
(* counts only once the tables have been cleared.  A drive in flight that  *)
(* none of them overlapped is of the component its id still has and gets   *)
(* no further than its lookup before they are.                             *)

Now(i) == [of |-> comp[i], value |-> knobs[comp[i]]]

Uncleared(i) == interp.op = "clear" \/ AtWork(i, {"register", "register_rest"})

KnownFromBefore(i) ==
    IF Uncleared(i) \/ baseline[i] = Empty THEN pre[i] = Now(i) ELSE baseline[i] = pre[i]

InStep(d) ==
    /\ drive[d].c = comp[drive[d].id]
    /\ drive[d].pc = "snapshot" => drive[d].found = comp[drive[d].id]
    /\ drive[d].pc = "write" => baseline[drive[d].id] # Empty
    /\ Uncleared(drive[d].id) => drive[d].pc = "check"

Undoable ==
    /\ DOMAIN pre = Ids
    /\ running =>
          /\ \A i \in Registered \ overlapped : KnownFromBefore(i)
          /\ \A d \in InFlight : drive[d].id \notin overlapped => InStep(d)
          /\ interp.op = "write" => baseline[interp.id] # Empty

\* What a component's clause rests on,
LEMMA KnownStays ==
    ASSUME NEW i, KnownFromBefore(i),
           pre'[i] = pre[i], comp'[i] = comp[i], knobs'[comp[i]] = knobs[comp[i]],
           baseline'[i] = baseline[i], Uncleared(i)' <=> Uncleared(i)
    PROVE  KnownFromBefore(i)'
  <1>1. Now(i)' = Now(i)
    BY DEF Now
  <1> QED BY <1>1 DEF KnownFromBefore

\* and what a drive's does.
LEMMA InStepStays ==
    ASSUME NEW d, InStep(d), drive'[d] = drive[d],
           comp'[drive[d].id] = comp[drive[d].id],
           baseline'[drive[d].id] = baseline[drive[d].id],
           Uncleared(drive[d].id)' => Uncleared(drive[d].id)
    PROVE  InStep(d)'
  <1> DEFINE j == drive[d].id
  <1>1. drive'[d].id = j
    OBVIOUS
  <1>2. Uncleared(drive[d].id)' => Uncleared(j)
    OBVIOUS
  <1> QED BY <1>1, <1>2 DEF InStep

LEMMA UndoableStays ==
    ASSUME TypeOK, Undoable,
           UNCHANGED <<comp, knobs, baseline, drive, pre, overlapped, running>>,
           \A i \in Ids : Uncleared(i)' <=> Uncleared(i),
           (interp.op = "write")' => interp' = interp
    PROVE  Undoable'
  <1> SUFFICES ASSUME running
               PROVE  /\ \A i \in Registered \ overlapped : KnownFromBefore(i)'
                      /\ \A d \in InFlight : drive[d].id \notin overlapped => InStep(d)'
                      /\ (interp.op = "write" => baseline[interp.id] # Empty)'
    <2>1. Registered' = Registered /\ InFlight' = InFlight
      BY DEF Registered, InFlight
    <2> QED BY <2>1 DEF Undoable
  <1>1. ASSUME NEW i \in Registered \ overlapped PROVE KnownFromBefore(i)'
    BY TableParts, KnownStays DEF Undoable
  <1>2. ASSUME NEW d \in InFlight, drive[d].id \notin overlapped PROVE InStep(d)'
    <2>1. InStep(d) /\ drive[d].id \in Ids
      BY <1>2, TableParts DEF Undoable
    <2> QED BY <2>1, InStepStays
  <1>3. (interp.op = "write" => baseline[interp.id] # Empty)'
    BY DEF Undoable
  <1> QED BY <1>1, <1>2, <1>3

LEMMA UndoableAtRest ==
    ASSUME ~running', DOMAIN pre' = Ids
    PROVE  Undoable'
  BY DEF Undoable

\* Where the interpreter is says for whom the tables are yet to be cleared.
LEMMA WhoIsUncleared ==
    /\ interp.op \notin {"clear", "register", "register_rest"} => \A i : ~Uncleared(i)
    /\ interp.op = "clear" => \A i : Uncleared(i)
    /\ interp.op \in {"register", "register_rest"}
         => \A i : Uncleared(i) <=> i = interp.id
  BY DEF Uncleared, AtWork

\* Registering, removing and resetting.
LEMMA StructureKeepsUndoable ==
    ASSUME TypeOK, Built, Phased, Undoable,
           Structure \/ \E i \in Ids : Register(i) \/ Remove(i)
    PROVE  Undoable'
  <1>0. /\ comp \in [Ids -> Build \union {Empty}] /\ knobs \in [Build -> Value]
        /\ builds \in 0..MaxBuilds
        /\ \A i \in Registered : i \in Ids /\ comp[i] \in Build
        /\ \A d \in InFlight : d \in DriveRequests /\ drive[d].c \in Build /\ drive[d].id \in Ids
        /\ DOMAIN pre = Ids /\ DOMAIN baseline = Ids
    BY TableParts DEF TypeOK, Undoable, Baselines
  <1>1. CASE \E i \in Ids : Register(i)
    <2>1. PICK i \in Ids : Register(i)
      BY <1>1
    <2>2. /\ interp = AtRest /\ i \notin Registered /\ builds < MaxBuilds
          /\ comp' = [comp EXCEPT ![i] = builds + 1]
          /\ interp' = [op |-> "register", id |-> i]
          /\ pre' = [pre EXCEPT ![i] = [of |-> builds + 1, value |-> AsBuilt]]
          /\ overlapped' = IF i \in DrivenIds THEN overlapped \union {i} ELSE overlapped
          /\ UNCHANGED <<knobs, baseline, running, drive>>
      BY <2>1 DEF Register, tables
    <2>3. InFlight' = InFlight /\ DOMAIN pre' = Ids
      BY <1>0, <2>2 DEF InFlight
    <2>4. /\ Uncleared(i)'
          /\ \A j \in Ids : ~Uncleared(j) /\ (j # i => ~Uncleared(j)')
      BY <2>2, IdleIsPlain DEF Uncleared, AtWork
    <2>5. ASSUME running, NEW j \in Registered', j \notin overlapped'
          PROVE  KnownFromBefore(j)'
      <3>1. CASE j = i
        <4>1. comp'[i] = builds + 1 /\ pre'[i] = [of |-> builds + 1, value |-> AsBuilt]
          BY <1>0, <2>2
        <4>2. knobs'[builds + 1] = AsBuilt
          <5>1. builds + 1 \in Build /\ builds + 1 > builds
            BY <1>0, <2>2, TablesAssumption DEF Build
          <5> QED BY <2>2, <5>1 DEF Built
        <4>3. Now(i)' = pre'[i]
          BY <4>1, <4>2 DEF Now
        <4> QED BY <2>4, <3>1, <4>3 DEF KnownFromBefore
      <3>2. CASE j # i
        <4>1. j \in Registered /\ j \notin overlapped /\ comp'[j] = comp[j]
              /\ pre'[j] = pre[j]
          BY <1>0, <2>2, <2>5, <3>2 DEF Registered
        <4>2. KnownFromBefore(j) /\ j \in Ids
          BY <1>0, <2>5, <4>1 DEF Undoable
        <4> QED BY <2>2, <2>4, <3>2, <4>1, <4>2, KnownStays
      <3> QED BY <3>1, <3>2
    <2>6. ASSUME running, NEW d \in InFlight, drive[d].id \notin overlapped'
          PROVE  InStep(d)'
      <3>1. drive[d].id \in DrivenIds
        BY DEF DrivenIds
      <3>2. drive[d].id # i /\ drive[d].id \notin overlapped
        BY <2>2, <2>6, <3>1
      <3>3. InStep(d) /\ drive[d].id \in Ids
        BY <1>0, <2>6, <3>2 DEF Undoable
      <3>4. comp'[drive[d].id] = comp[drive[d].id]
        BY <1>0, <2>2, <3>2, <3>3
      <3> QED BY <2>2, <2>4, <3>2, <3>3, <3>4, InStepStays
    <2>7. interp'.op # "write"
      BY <2>2
    <2> QED BY <2>2, <2>3, <2>5, <2>6, <2>7 DEF Undoable
  <1>2. CASE \E i \in Ids : Remove(i)
    <2>1. PICK i \in Ids : Remove(i)
      BY <1>2
    <2>2. /\ interp = AtRest
          /\ comp' = [comp EXCEPT ![i] = Empty]
          /\ interp' = [op |-> "remove", id |-> i]
          /\ pre' = [pre EXCEPT ![i] = Empty]
          /\ overlapped' = IF i \in DrivenIds THEN overlapped \union {i} ELSE overlapped
          /\ UNCHANGED <<knobs, baseline, running, drive>>
      BY <2>1 DEF Remove, tables
    <2>3. InFlight' = InFlight /\ DOMAIN pre' = Ids
      BY <1>0, <2>2 DEF InFlight
    <2>4. \A j \in Ids : ~Uncleared(j) /\ ~Uncleared(j)'
      BY <2>2, IdleIsPlain DEF Uncleared, AtWork
    <2>5. ASSUME running, NEW j \in Registered', j \notin overlapped'
          PROVE  KnownFromBefore(j)'
      <3>1. j \in Registered /\ j \notin overlapped /\ comp'[j] = comp[j]
            /\ pre'[j] = pre[j]
        BY <1>0, <2>2, <2>5 DEF Registered
      <3>2. KnownFromBefore(j) /\ j \in Ids
        BY <1>0, <2>5, <3>1 DEF Undoable
      <3> QED BY <2>2, <2>4, <3>1, <3>2, KnownStays
    <2>6. ASSUME running, NEW d \in InFlight, drive[d].id \notin overlapped'
          PROVE  InStep(d)'
      <3>1. drive[d].id \in DrivenIds
        BY DEF DrivenIds
      <3>2. drive[d].id # i /\ drive[d].id \notin overlapped
        BY <2>2, <2>6, <3>1
      <3>3. InStep(d) /\ drive[d].id \in Ids
        BY <1>0, <2>6, <3>2 DEF Undoable
      <3>4. comp'[drive[d].id] = comp[drive[d].id]
        BY <1>0, <2>2, <3>2, <3>3
      <3> QED BY <2>2, <2>4, <3>2, <3>3, <3>4, InStepStays
    <2>7. interp'.op # "write"
      BY <2>2
    <2> QED BY <2>2, <2>3, <2>5, <2>6, <2>7 DEF Undoable
  <1>3. CASE RegisterEnergy
    <2>1. /\ interp.op = "register" /\ interp' = [interp EXCEPT !.op = "register_rest"]
          /\ UNCHANGED <<comp, knobs, baseline, drive, pre, overlapped, running>>
      BY <1>3 DEF RegisterEnergy
    <2>2. interp'.op = "register_rest" /\ interp'.id = interp.id
      <3>1. interp \in AtId
        BY <2>1, InterpParts DEF TypeOK
      <3> QED BY <2>1, <3>1 DEF AtId
    <2>3. \A i \in Ids : Uncleared(i)' <=> Uncleared(i)
      BY <2>1, <2>2 DEF Uncleared, AtWork
    <2> QED BY <2>1, <2>2, <2>3, UndoableStays
  <1>4. CASE RegisterRest \/ RemoveRest
    <2>1. /\ interp.op \in {"register_rest", "remove_rest"} /\ interp' = AtRest
          /\ baseline' = [baseline EXCEPT ![interp.id] = Empty]
          /\ UNCHANGED <<comp, knobs, drive, pre, overlapped, running>>
      BY <1>4 DEF RegisterRest, RemoveRest, WithoutId
    <2>2. \A j \in Ids : /\ ~Uncleared(j)'
                         /\ j # interp.id => ~Uncleared(j)
                         /\ interp.op = "register_rest" /\ j = interp.id => Uncleared(j)
      BY <2>1, IdleIsPlain DEF Uncleared, AtWork
    <2>3. Registered' = Registered /\ InFlight' = InFlight
      BY <2>1 DEF Registered, InFlight
    <2>4. interp.op = "remove_rest" => interp.id \notin Registered
      BY DEF Phased
    <2>5. ASSUME running, NEW j \in Registered, j \notin overlapped
          PROVE  KnownFromBefore(j)'
      <3>0. KnownFromBefore(j) /\ j \in Ids
        BY <1>0, <2>5 DEF Undoable
      <3>1. CASE j = interp.id
        <4>1. Uncleared(j) /\ baseline'[j] = Empty
          BY <1>0, <2>1, <2>2, <2>4, <3>0, <3>1
        <4>2. pre'[j] = Now(j)'
          BY <2>1, <3>0, <4>1 DEF KnownFromBefore, Now
        <4> QED BY <4>1, <4>2 DEF KnownFromBefore
      <3>2. CASE j # interp.id
        <4>1. baseline'[j] = baseline[j]
          BY <1>0, <2>1, <3>0, <3>2
        <4> QED BY <2>1, <2>2, <3>0, <3>2, <4>1, KnownStays
      <3> QED BY <3>1, <3>2
    <2>6. ASSUME running, NEW d \in InFlight, drive[d].id \notin overlapped
          PROVE  InStep(d)'
      <3>0. InStep(d) /\ drive[d].id \in Ids
        BY <1>0, <2>6 DEF Undoable
      <3>1. CASE drive[d].id = interp.id
        <4>1. comp[drive[d].id] # Empty
          BY <1>0, <3>0, TablesAssumption DEF InStep, Build
        <4>2. drive[d].id \in Registered
          BY <3>0, <4>1 DEF Registered
        <4>3. drive[d].pc = "check"
          BY <2>1, <2>2, <2>4, <3>0, <3>1, <4>2 DEF InStep
        <4>4. drive' = drive /\ comp' = comp
          BY <2>1
        <4> QED BY <3>0, <4>3, <4>4 DEF InStep
      <3>2. CASE drive[d].id # interp.id
        <4>1. baseline'[drive[d].id] = baseline[drive[d].id]
          BY <1>0, <2>1, <3>0, <3>2
        <4> QED BY <2>1, <2>2, <3>0, <3>2, <4>1, InStepStays
      <3> QED BY <3>1, <3>2
    <2>7. interp'.op # "write"
      BY <2>1, IdleIsPlain
    <2> QED BY <1>0, <2>1, <2>3, <2>5, <2>6, <2>7 DEF Undoable
  <1>5. CASE RemoveRows
    <2>1. /\ interp.op = "remove" /\ interp' = [interp EXCEPT !.op = "remove_rest"]
          /\ UNCHANGED <<comp, knobs, baseline, drive, pre, overlapped, running>>
      BY <1>5 DEF RemoveRows
    <2>2. interp'.op = "remove_rest"
      <3>1. interp \in AtId
        BY <2>1, InterpParts DEF TypeOK
      <3> QED BY <2>1, <3>1 DEF AtId
    <2>3. \A i \in Ids : Uncleared(i)' <=> Uncleared(i)
      BY <2>1, <2>2 DEF Uncleared, AtWork
    <2> QED BY <2>1, <2>2, <2>3, UndoableStays
  <1>6. CASE ResetSite
    <2>1. /\ interp'.op = "reset" /\ overlapped' = overlapped \union DrivenIds
          /\ drive' = drive /\ DOMAIN pre' = Ids
          /\ Registered' = {}
      BY <1>6 DEF ResetSite, Registered
    <2>2. InFlight' = InFlight /\ \A d \in InFlight : drive[d].id \in DrivenIds
      BY <2>1 DEF InFlight, DrivenIds
    <2> QED BY <2>1, <2>2 DEF Undoable
  <1>7. CASE ResetRows
    <2>1. /\ interp.op = "reset" /\ interp' = [op |-> "reset_journal"]
          /\ UNCHANGED <<comp, knobs, baseline, drive, pre, overlapped, running>>
      BY <1>7 DEF ResetRows
    <2>2. interp'.op = "reset_journal"
      BY <2>1
    <2>3. \A i \in Ids : Uncleared(i)' <=> Uncleared(i)
      BY <2>1, <2>2 DEF Uncleared, AtWork
    <2> QED BY <2>1, <2>2, <2>3, UndoableStays
  <1>8. CASE ResetJournal
    BY <1>0, <1>8, UndoableAtRest DEF ResetJournal
  <1>9. CASE ResetBaseline
    <2>1. ~running' /\ pre' = pre
      BY <1>9 DEF ResetBaseline, Phased
    <2> QED BY <1>0, <2>1, UndoableAtRest
  <1> QED BY <1>1, <1>2, <1>3, <1>4, <1>5, <1>6, <1>7, <1>8, <1>9 DEF Structure

\* Stopping and starting scenarios, and the interpreter's own drives.
LEMMA ScenarioKeepsUndoable ==
    ASSUME TypeOK, Built, Phased, Undoable,
           \/ Scenario
           \/ \E i \in Ids : PutBack(i)
           \/ \E i \in Ids, v \in KnobValues : LispSnapshot(i, v)
    PROVE  Undoable'
  <1>0. /\ comp \in [Ids -> Build \union {Empty}] /\ knobs \in [Build -> Value]
        /\ \A i \in Registered : i \in Ids /\ comp[i] \in Build
        /\ \A d \in InFlight : d \in DriveRequests /\ drive[d].c \in Build /\ drive[d].id \in Ids
        /\ DOMAIN pre = Ids /\ DOMAIN baseline = Ids
    BY TableParts DEF TypeOK, Undoable, Baselines
  <1>1. CASE StopRun \/ StartOver
    BY <1>0, <1>1, UndoableAtRest DEF StopRun, StartOver, StopBegin
  <1>2. CASE TakeBaseline \/ StopDone \/ \E i \in Ids : PutBack(i)
    <2>1. ~running' /\ pre' = pre
      BY <1>2 DEF TakeBaseline, StopDone, PutBack, Phased
    <2> QED BY <1>0, <2>1, UndoableAtRest
  <1>3. CASE StartReadsEnergy
    <2>1. ~running' /\ pre' = pre
      BY <1>3 DEF StartReadsEnergy, Phased
    <2> QED BY <1>0, <2>1, UndoableAtRest
  <1>4. CASE StartJournal
    <2>1. /\ interp' = [op |-> "clear"] /\ overlapped' = DrivenIds
          /\ pre' = [i \in Ids |-> IF comp[i] = Empty THEN Empty
                                   ELSE [of |-> comp[i], value |-> knobs[comp[i]]]]
          /\ UNCHANGED <<comp, knobs, drive>>
      BY <1>4 DEF StartJournal
    <2>2. Registered' = Registered /\ InFlight' = InFlight
      BY <2>1 DEF Registered, InFlight
    <2>3. ASSUME NEW i \in Registered PROVE KnownFromBefore(i)'
      <3>1. pre'[i] = Now(i)'
        BY <2>1, <2>3 DEF Registered, Now
      <3>2. Uncleared(i)'
        BY <2>1 DEF Uncleared
      <3> QED BY <3>1, <3>2 DEF KnownFromBefore
    <2>4. \A d \in InFlight : drive[d].id \in DrivenIds
      BY DEF DrivenIds
    <2>5. interp'.op # "write" /\ DOMAIN pre' = Ids
      BY <2>1
    <2> QED BY <2>1, <2>2, <2>3, <2>4, <2>5 DEF Undoable
  <1>5. CASE StartClears
    <2>1. /\ interp.op = "clear" /\ interp' = AtRest
          /\ baseline' = [i \in Ids |-> Empty]
          /\ UNCHANGED <<comp, knobs, drive, pre, overlapped, running>>
      BY <1>5 DEF StartClears
    <2>2. Registered' = Registered /\ InFlight' = InFlight
      BY <2>1 DEF Registered, InFlight
    <2>3. ASSUME running, NEW i \in Registered, i \notin overlapped
          PROVE  KnownFromBefore(i)'
      <3>1. KnownFromBefore(i) /\ i \in Ids /\ Uncleared(i)
        BY <1>0, <2>1, <2>3 DEF Undoable, Uncleared
      <3>2. pre'[i] = Now(i)' /\ baseline'[i] = Empty
        BY <2>1, <3>1 DEF KnownFromBefore, Now
      <3> QED BY <3>2 DEF KnownFromBefore
    <2>4. ASSUME running, NEW d \in InFlight, drive[d].id \notin overlapped
          PROVE  InStep(d)'
      <3>1. InStep(d) /\ Uncleared(drive[d].id)
        BY <2>1, <2>4 DEF Undoable, Uncleared
      <3>2. drive[d].pc = "check" /\ drive[d].c = comp[drive[d].id]
        BY <3>1 DEF InStep
      <3> QED BY <2>1, <3>2 DEF InStep
    <2>5. interp'.op # "write"
      BY <2>1, IdleIsPlain
    <2> QED BY <1>0, <2>1, <2>2, <2>3, <2>4, <2>5 DEF Undoable
  <1>6. CASE \E i \in Ids, v \in KnobValues : LispSnapshot(i, v)
    <2>1. PICK i \in Ids, v \in KnobValues : LispSnapshot(i, v)
      BY <1>6
    <2>2. /\ interp = AtRest /\ i \in Registered
          /\ interp' = [op |-> "write", id |-> i, value |-> v]
          /\ IF running THEN SnapshotKnob(i, comp[i]) ELSE UNCHANGED baseline
          /\ UNCHANGED <<comp, knobs, drive, pre, overlapped, running>>
      BY <2>1 DEF LispSnapshot
    <2>3. Registered' = Registered /\ InFlight' = InFlight
      BY <2>2 DEF Registered, InFlight
    <2>4. \A j \in Ids : ~Uncleared(j) /\ ~Uncleared(j)'
      BY <2>2, IdleIsPlain DEF Uncleared, AtWork
    <2>5. running => /\ \A j \in Ids : j # i \/ baseline[i] # Empty => baseline'[j] = baseline[j]
                     /\ baseline[i] = Empty => baseline'[i] = Now(i)
      BY <1>0, <2>2 DEF SnapshotKnob, Now
    <2>6. Now(i) # Empty
      BY <1>0, <2>2, EmptyIsApart, TablesAssumption DEF Now, Knob, Build
    <2>7. ASSUME running, NEW j \in Registered, j \notin overlapped
          PROVE  KnownFromBefore(j)'
      <3>0. KnownFromBefore(j) /\ j \in Ids
        BY <1>0, <2>7 DEF Undoable
      <3>1. CASE j = i /\ baseline[i] = Empty
        <4>1. pre[j] = Now(i)
          BY <3>0, <3>1 DEF KnownFromBefore
        <4>2. baseline'[j] = pre'[j] /\ baseline'[j] # Empty
          BY <2>2, <2>5, <2>6, <2>7, <3>1, <4>1
        <4> QED BY <2>4, <3>0, <4>2 DEF KnownFromBefore
      <3>2. CASE j # i \/ baseline[i] # Empty
        <4>1. baseline'[j] = baseline[j]
          BY <2>5, <2>7, <3>0, <3>2
        <4> QED BY <2>2, <2>4, <3>0, <4>1, KnownStays
      <3> QED BY <3>1, <3>2
    <2>8. ASSUME running, NEW d \in InFlight, drive[d].id \notin overlapped
          PROVE  InStep(d)'
      <3>0. InStep(d) /\ drive[d].id \in Ids
        BY <1>0, <2>8 DEF Undoable
      <3>1. baseline[drive[d].id] # Empty => baseline'[drive[d].id] # Empty
        BY <2>5, <2>8, <3>0
      <3>2. ~Uncleared(drive[d].id)'
        BY <2>2, <2>4, <3>0
      <3> QED BY <2>2, <3>0, <3>1, <3>2 DEF InStep
    <2>9. running => baseline'[i] # Empty
      BY <2>5, <2>6
    <2>10. interp'.id = i
      BY <2>2
    <2> QED BY <1>0, <2>2, <2>3, <2>7, <2>8, <2>9, <2>10 DEF Undoable
  <1>7. CASE LispWrite
    <2>1. /\ interp.op = "write" /\ interp' = AtRest
          /\ knobs' = [knobs EXCEPT ![comp[interp.id]] = interp.value]
          /\ UNCHANGED <<comp, baseline, drive, pre, overlapped, running>>
      BY <1>7 DEF LispWrite, tables
    <2>2. Registered' = Registered /\ InFlight' = InFlight
      BY <2>1 DEF Registered, InFlight
    <2>3. \A j \in Ids : ~Uncleared(j) /\ ~Uncleared(j)'
      BY <2>1, IdleIsPlain DEF Uncleared, AtWork
    <2>4. interp.id \in Registered
      BY <2>1 DEF Phased
    <2>5. ASSUME running, NEW j \in Registered, j \notin overlapped
          PROVE  KnownFromBefore(j)'
      <3>0. KnownFromBefore(j) /\ j \in Ids
        BY <1>0, <2>5 DEF Undoable
      <3>1. CASE j = interp.id
        <4>1. baseline[j] # Empty
          BY <2>1, <2>5, <3>1 DEF Undoable
        <4> QED BY <2>1, <2>3, <3>0, <4>1 DEF KnownFromBefore
      <3>2. CASE j # interp.id
        <4>1. comp[j] # comp[interp.id]
          BY <2>4, <2>5, <3>2 DEF Built
        <4>2. knobs'[comp[j]] = knobs[comp[j]]
          BY <1>0, <2>1, <2>5, <4>1
        <4> QED BY <2>1, <2>3, <3>0, <4>2, KnownStays
      <3> QED BY <3>1, <3>2
    <2>6. ASSUME running, NEW d \in InFlight, drive[d].id \notin overlapped
          PROVE  InStep(d)'
      <3>0. InStep(d) /\ drive[d].id \in Ids
        BY <1>0, <2>6 DEF Undoable
      <3> QED BY <2>1, <2>3, <3>0, InStepStays
    <2>7. interp'.op # "write"
      BY <2>1, IdleIsPlain
    <2> QED BY <1>0, <2>1, <2>2, <2>5, <2>6, <2>7 DEF Undoable
  <1> QED BY <1>1, <1>2, <1>3, <1>4, <1>5, <1>6, <1>7 DEF Scenario

\* The tasks leave components, knobs and baselines alone.
LEMMA TasksKeepUndoable ==
    ASSUME TypeOK, Undoable, Tasks
    PROVE  Undoable'
  <1>1. UNCHANGED <<comp, knobs, baseline, drive, pre, overlapped, running, interp>>
    BY DEF Tasks, TakePass, Integrate, Holds, Records, tables
  <1>2. \A i \in Ids : Uncleared(i)' <=> Uncleared(i)
    BY <1>1 DEF Uncleared, AtWork
  <1> QED BY <1>1, <1>2, UndoableStays

\* A drive that acts while tables are to be cleared overlaps the clearing.
LEMMA OverlapsOrCleared ==
    ASSUME NEW d, Overlaps(d), drive[d].id \notin overlapped'
    PROVE  /\ overlapped' = overlapped /\ drive[d].id \notin overlapped
           /\ \A i : ~Uncleared(i)
  <1>1. ~Clearing
    BY DEF Overlaps
  <1> QED BY <1>1 DEF Overlaps, Clearing, Uncleared, AtWork

LEMMA OverlappedGrows ==
    ASSUME NEW d, Overlaps(d)
    PROVE  overlapped \subseteq overlapped'
  BY DEF Overlaps

LEMMA DrivesKeepUndoable ==
    ASSUME TypeOK, Built, Phased, Undoable, NEW d \in DriveRequests,
           \/ DriveChecks(d) \/ DriveGets(d) \/ DriveSnapshots(d) \/ DriveWrites(d)
           \/ \E i \in Ids, v \in KnobValues : DriveFinds(d, i, v)
    PROVE  Undoable'
  <1>0. /\ comp \in [Ids -> Build \union {Empty}] /\ knobs \in [Build -> Value]
        /\ drive \in [DriveRequests -> Drive]
        /\ \A i \in Registered : i \in Ids /\ comp[i] \in Build
        /\ \A e \in InFlight : e \in DriveRequests /\ drive[e].c \in Build /\ drive[e].id \in Ids
        /\ DOMAIN pre = Ids /\ DOMAIN baseline = Ids
    BY TableParts DEF TypeOK, Undoable, Baselines
  <1> DEFINE j == drive[d].id
  <1>a. /\ comp' = comp /\ pre' = pre /\ running' = running /\ interp' = interp
        /\ Registered' = Registered
        /\ \A i : Uncleared(i)' <=> Uncleared(i)
    <2>1. /\ comp' = comp /\ pre' = pre /\ running' = running /\ interp' = interp
      BY DEF DriveChecks, DriveGets, DriveSnapshots, DriveWrites, DriveFinds
    <2> QED BY <2>1 DEF Registered, Uncleared, AtWork
  <1>1. CASE \E i \in Ids, v \in KnobValues : DriveFinds(d, i, v)
    <2>1. PICK i \in Ids, v \in KnobValues : DriveFinds(d, i, v)
      BY <1>1
    <2>2. /\ UNCHANGED <<knobs, baseline, overlapped>> /\ i \in Registered
          /\ drive' = [drive EXCEPT ![d] = [pc |-> "check", id |-> i, c |-> comp[i],
                                            value |-> v]]
      BY <2>1 DEF DriveFinds, tables
    <2>3. ASSUME running, NEW m \in Registered, m \notin overlapped
          PROVE  KnownFromBefore(m)'
      <3>1. KnownFromBefore(m)
        BY <2>3 DEF Undoable
      <3> QED BY <1>a, <2>2, <3>1, KnownStays
    <2>4. ASSUME running, NEW e \in InFlight', drive'[e].id \notin overlapped
          PROVE  InStep(e)'
      <3>1. CASE e = d
        <4>1. drive'[d] = [pc |-> "check", id |-> i, c |-> comp[i], value |-> v]
          BY <1>0, <2>2
        <4>2. drive'[d].pc = "check" /\ drive'[d].id = i /\ drive'[d].c = comp[i]
          BY <4>1
        <4> QED BY <1>a, <3>1, <4>2 DEF InStep
      <3>2. CASE e # d
        <4>1. e \in InFlight /\ drive'[e] = drive[e]
          BY <1>0, <2>2, <3>2 DEF InFlight
        <4>2. InStep(e)
          BY <2>4, <4>1 DEF Undoable
        <4> QED BY <1>a, <2>2, <4>1, <4>2, InStepStays
      <3> QED BY <3>1, <3>2
    <2> QED BY <1>0, <1>a, <2>2, <2>3, <2>4 DEF Undoable
  <1>2. CASE DriveChecks(d) \/ DriveGets(d) \/ DriveSnapshots(d)
    <2>1. /\ InFlight' = InFlight /\ d \in InFlight
          /\ \A e \in DriveRequests : e # d => drive'[e] = drive[e]
          /\ drive'[d].id = j /\ drive'[d].c = drive[d].c
      BY <1>2, DriveMoves
    <2>2. knobs' = knobs /\ Overlaps(d) /\ overlapped \subseteq overlapped'
      BY <1>2, OverlappedGrows DEF DriveChecks, DriveGets, DriveSnapshots
    <2>3. /\ \A i \in Ids : i # j => baseline'[i] = baseline[i]
          /\ \A i \in Ids : baseline[i] # Empty => baseline'[i] = baseline[i]
      <3>1. CASE DriveChecks(d) \/ DriveGets(d)
        BY <3>1 DEF DriveChecks, DriveGets, tables
      <3>2. CASE DriveSnapshots(d)
        BY <1>0, <3>2 DEF DriveSnapshots, SnapshotKnob
      <3> QED BY <1>2, <3>1, <3>2
    <2>4. ASSUME running, j \notin overlapped'
          PROVE  InStep(d) /\ ~Uncleared(j) /\ drive[d].c = comp[j] /\ comp[j] # Empty
      <3>1. j \notin overlapped /\ ~Uncleared(j)
        BY <2>2, <2>4, OverlapsOrCleared
      <3>2. InStep(d)
        BY <2>1, <2>4, <3>1 DEF Undoable
      <3> QED BY <1>0, <2>1, <3>1, <3>2, TablesAssumption DEF InStep, Build
    <2>5. ASSUME running, j \notin overlapped'
          PROVE  /\ InStep(d)'
                 /\ \/ baseline'[j] = baseline[j]
                    \/ baseline[j] = Empty /\ baseline'[j] = Now(j)
      <3>0. InStep(d) /\ ~Uncleared(j) /\ drive[d].c = comp[j] /\ comp[j] # Empty /\ j \in Ids
        BY <1>0, <2>1, <2>4, <2>5
      <3>1. CASE DriveChecks(d)
        <4>1. baseline' = baseline /\ drive'[d].pc \in {"get", "write"}
          <5>1. drive[d] \in Found
            BY <1>0, <3>1, DriveParts DEF DriveChecks
          <5>2. drive'[d] = [drive[d] EXCEPT !.pc = IF running THEN "get" ELSE "write"]
            BY <1>0, <3>1 DEF DriveChecks
          <5> QED BY <3>1, <5>1, <5>2 DEF DriveChecks, Found, tables
        <4>2. drive'[d].pc = "get"
          <5>1. drive[d] \in Found
            BY <1>0, <3>1, DriveParts DEF DriveChecks
          <5>2. drive'[d] = [drive[d] EXCEPT !.pc = "get"]
            BY <1>0, <2>5, <3>1 DEF DriveChecks
          <5> QED BY <5>1, <5>2 DEF Found
        <4> QED BY <1>a, <2>1, <3>0, <4>1, <4>2 DEF InStep
      <3>2. CASE DriveGets(d)
        <4>1. /\ baseline' = baseline
              /\ drive'[d] = [pc |-> IF comp[j] # Empty THEN "snapshot" ELSE "write",
                              id |-> j, c |-> drive[d].c, value |-> drive[d].value,
                              found |-> comp[j]]
          BY <1>0, <3>2 DEF DriveGets, tables
        <4>2. drive'[d].pc = "snapshot" /\ drive'[d].found = comp[j]
          BY <3>0, <4>1
        <4> QED BY <1>a, <2>1, <3>0, <4>1, <4>2 DEF InStep
      <3>3. CASE DriveSnapshots(d)
        <4>1. /\ drive[d].pc = "snapshot" /\ SnapshotKnob(j, drive[d].found)
              /\ drive' = [drive EXCEPT ![d].pc = "write"]
          BY <3>3 DEF DriveSnapshots
        <4>2. drive[d].found = comp[j]
          BY <3>0, <4>1 DEF InStep
        <4>3. IF baseline[j] # Empty THEN baseline'[j] = baseline[j]
              ELSE baseline'[j] = Now(j)
          BY <1>0, <3>0, <4>1, <4>2 DEF SnapshotKnob, Now
        <4>4. Now(j) # Empty
          BY <1>0, <3>0, EmptyIsApart, TablesAssumption DEF Now, Knob, Build
        <4>5. drive'[d].pc = "write"
          <5>1. drive[d] \in Got /\ drive'[d] = [drive[d] EXCEPT !.pc = "write"]
            BY <1>0, <4>1, DriveParts
          <5> QED BY <5>1 DEF Got
        <4>6. baseline'[j] # Empty
          BY <4>3, <4>4
        <4> QED BY <1>a, <2>1, <3>0, <4>3, <4>5, <4>6 DEF InStep
      <3> QED BY <1>2, <3>1, <3>2, <3>3
    <2>6. ASSUME running, NEW m \in Registered, m \notin overlapped'
          PROVE  KnownFromBefore(m)'
      <3>0. KnownFromBefore(m) /\ m \in Ids
        BY <1>0, <2>2, <2>6 DEF Undoable
      <3>1. CASE baseline'[m] = baseline[m]
        BY <1>a, <2>2, <3>0, <3>1, KnownStays
      <3>2. CASE baseline'[m] # baseline[m]
        <4>1. m = j
          BY <2>3, <3>0, <3>2
        <4>2. baseline[m] = Empty /\ baseline'[m] = Now(m) /\ ~Uncleared(m)
          BY <2>4, <2>5, <2>6, <3>2, <4>1
        <4>3. pre[m] = Now(m)
          BY <3>0, <4>2 DEF KnownFromBefore
        <4> QED BY <1>a, <3>2, <4>2, <4>3 DEF KnownFromBefore
      <3> QED BY <3>1, <3>2
    <2>7. ASSUME running, NEW e \in InFlight, e # d, drive[e].id \notin overlapped'
          PROVE  InStep(e)'
      <3>0. InStep(e) /\ drive[e].id \in Ids /\ drive'[e] = drive[e]
        BY <1>0, <2>1, <2>2, <2>7 DEF Undoable
      <3>1. baseline[drive[e].id] # Empty => baseline'[drive[e].id] # Empty
        BY <2>3, <3>0
      <3> QED BY <1>a, <3>0, <3>1 DEF InStep
    <2>8. ASSUME running, NEW e \in InFlight', drive'[e].id \notin overlapped'
          PROVE  InStep(e)'
      BY <1>0, <2>1, <2>5, <2>7, <2>8
    <2>9. interp.op = "write" /\ running => baseline'[interp.id] # Empty
      <3>1. interp.op = "write" => interp.id \in Ids
        BY <1>0 DEF Phased
      <3> QED BY <2>3, <3>1 DEF Undoable
    <2> QED BY <1>0, <1>a, <2>6, <2>8, <2>9 DEF Undoable
  <1>3. CASE DriveWrites(d)
    <2>1. /\ knobs' = [knobs EXCEPT ![drive[d].c] = drive[d].value]
          /\ drive' = [drive EXCEPT ![d] = NoDrive]
          /\ Overlaps(d) /\ baseline' = baseline /\ d \in InFlight /\ drive[d].pc = "write"
          /\ overlapped \subseteq overlapped'
      BY <1>3, OverlappedGrows DEF DriveWrites, tables, InFlight
    <2>2. ASSUME running, NEW m \in Registered, m \notin overlapped'
          PROVE  KnownFromBefore(m)'
      <3>0. KnownFromBefore(m) /\ m \in Ids
        BY <1>0, <2>1, <2>2 DEF Undoable
      <3>1. CASE comp[m] # drive[d].c
        <4>1. knobs'[comp[m]] = knobs[comp[m]]
          BY <1>0, <2>1, <2>2, <3>1
        <4> QED BY <1>a, <2>1, <3>0, <4>1, KnownStays
      <3>2. CASE comp[m] = drive[d].c
        <4>1. m = j
          BY <2>1, <2>2, <3>2 DEF Built
        <4>2. InStep(d) /\ ~Uncleared(m)
          BY <2>1, <2>2, <4>1, OverlapsOrCleared DEF Undoable
        <4>3. baseline[m] # Empty
          BY <2>1, <4>1, <4>2 DEF InStep
        <4> QED BY <1>a, <2>1, <3>0, <4>2, <4>3 DEF KnownFromBefore
      <3> QED BY <3>1, <3>2
    <2>3. ASSUME running, NEW e \in InFlight', drive'[e].id \notin overlapped'
          PROVE  InStep(e)'
      <3>1. e \in InFlight /\ drive'[e] = drive[e]
        BY <1>0, <2>1, <2>3 DEF InFlight, NoDrive
      <3>2. InStep(e)
        BY <2>1, <2>3, <3>1 DEF Undoable
      <3> QED BY <1>a, <2>1, <3>1, <3>2, InStepStays
    <2> QED BY <1>0, <1>a, <2>1, <2>2, <2>3 DEF Undoable
  <1> QED BY <1>1, <1>2, <1>3

\* A scenario's run is undone: every knob that a stop will put back is recorded
\* as it was before the run, and every other is still as it was.
THEOREM RunsAreUndone == TablesSpec => []RunIsUndone
  <1>1. ASSUME TablesInit
        PROVE  Built /\ Phased /\ Undoable
    <2>1. Registered = {} /\ InFlight = {} /\ interp.op = "idle" /\ ~running
      BY <1>1, IdleIsPlain DEF TablesInit, Registered, InFlight, NoDrive
    <2>2. DOMAIN pre = Ids /\ \A b \in Build : knobs[b] = AsBuilt
      BY <1>1 DEF TablesInit, Build
    <2> QED BY <2>1, <2>2 DEF Built, Phased, Undoable
  <1>2. ASSUME TypeOK, Built, Phased, Undoable, [TablesNext]_tableVars
        PROVE  Built' /\ Phased' /\ Undoable'
    <2>1. Built' /\ Phased'
      BY <1>2, NextKeepsBuilt, NextKeepsPhased
    <2>2. CASE Structure \/ \E i \in Ids : Register(i) \/ Remove(i)
      BY <1>2, <2>1, <2>2, StructureKeepsUndoable
    <2>3. CASE \/ Scenario
               \/ \E i \in Ids : PutBack(i)
               \/ \E i \in Ids, v \in KnobValues : LispSnapshot(i, v)
      BY <1>2, <2>1, <2>3, ScenarioKeepsUndoable
    <2>4. CASE Tasks
      BY <1>2, <2>1, <2>4, TasksKeepUndoable
    <2>5. CASE \E d \in DriveRequests :
                  \/ DriveChecks(d) \/ DriveGets(d) \/ DriveSnapshots(d) \/ DriveWrites(d)
                  \/ \E i \in Ids, v \in KnobValues : DriveFinds(d, i, v)
      BY <1>2, <2>1, <2>5, DrivesKeepUndoable
    <2>6. CASE UNCHANGED tableVars
      <3>1. \A i \in Ids : Uncleared(i)' <=> Uncleared(i)
        BY <2>6 DEF tableVars, Uncleared, AtWork
      <3> QED BY <1>2, <2>1, <2>6, <3>1, UndoableStays DEF tableVars, tables
    <2> QED BY <1>2, <2>2, <2>3, <2>4, <2>5, <2>6 DEF TablesNext
  <1>3. Undoable => RunIsUndone
    <2> SUFFICES ASSUME Undoable, running, interp = AtRest,
                        NEW i \in Registered \ overlapped
                 PROVE  IF baseline[i] # Empty THEN baseline[i] = pre[i]
                        ELSE pre[i] = [of |-> comp[i], value |-> knobs[comp[i]]]
      BY DEF RunIsUndone
    <2>1. KnownFromBefore(i) /\ ~Uncleared(i)
      BY IdleIsPlain DEF Undoable, Uncleared, AtWork
    <2> QED BY <2>1 DEF KnownFromBefore, Now
  <1> QED BY <1>1, <1>2, <1>3, TypeCorrect, PTL DEF TablesSpec

\* A component's rows were written in its own lifetime, its energy since the
\* scenario's start is not below none at all, and a stop puts back what its run
\* changed (mod.rs:659-671, 1321-1332, scenarios.rs:270-306).
THEOREM TablesStaySound == TablesSpec => []TablesAreSound
  BY RowsAreOfTheirComponent, EnergyOnlyGrowsInAScenario, RunsAreUndone, PTL DEF TablesAreSound

-----------------------------------------------------------------------------
(* The steam boiler                                                         *)

\* Division by a positive number rounds down.
LEMMA RoundsDown ==
    ASSUME NEW x \in Int, NEW y \in Nat \ {0}
    PROVE  /\ x \div y \in Int
           /\ (x \div y) * y <= x
           /\ x >= 0 => x \div y >= 0
           /\ x <= 0 => x \div y <= 0
  OBVIOUS

\* What heating within the need adds to the pressure does not pass the target.
LEMMA HeatFits ==
    ASSUME NEW gap \in Nat, NEW capacity \in Nat \ {0}, NEW dt \in Nat \ {0},
           NEW surplus \in Int, surplus <= (gap * capacity) \div dt
    PROVE  /\ (surplus * dt) \div capacity \in Int
           /\ (surplus * dt) \div capacity <= gap
  <1>1. gap * capacity \in Int /\ surplus * dt \in Int
    OBVIOUS
  <1>2. ((gap * capacity) \div dt) * dt <= gap * capacity /\ (gap * capacity) \div dt \in Int
    BY <1>1, RoundsDown
  <1>3. surplus * dt <= gap * capacity
    BY <1>1, <1>2
  <1>4. /\ (surplus * dt) \div capacity \in Int
        /\ ((surplus * dt) \div capacity) * capacity <= surplus * dt
    BY <1>1, RoundsDown
  <1>5. ((surplus * dt) \div capacity) * capacity <= gap * capacity
    BY <1>1, <1>3, <1>4
  <1> QED BY <1>4, <1>5

\* What guard makes of any configuration is one a tick can run on.
LEMMA GuardedRuns ==
    ASSUME NEW raw \in Configs
    PROVE  /\ Guarded(raw) \in [target : Nat, max : Nat, capacity : Nat \ {0}, perKg : Nat,
                                lower : Int, upper : Int]
           /\ 1 <= Guarded(raw).target /\ Guarded(raw).target <= Guarded(raw).max
           /\ StartPressure(raw) \in Nat
           /\ 1 <= StartPressure(raw) /\ StartPressure(raw) <= Guarded(raw).max
  <1>1. raw \in Raw /\ Odd \notin Int /\ Absent \notin Number
    BY BoilerAssumption
  <1>2. \A f \in {"target", "capacity", "perKg"} :
            /\ raw[f] \in Int \cup {Odd} /\ Usual[f] \in Int \cup {Odd} /\ Usual[f] # Odd /\ Usual[f] >= 1
    BY <1>1, BoilerAssumption DEF Raw, Number, IsNormal
  <1>3. \A f \in {"target", "capacity", "perKg"} : Normal(raw, f) \in Int /\ Normal(raw, f) >= 1
    BY <1>2 DEF Normal, IsNormal
  <1>4. Highest(raw) \in Int /\ Highest(raw) >= Normal(raw, "target")
    BY <1>1, <1>3 DEF Highest, Raw, Number
  <1>5. StartPressure(raw) \in Int /\ 1 <= StartPressure(raw) /\ StartPressure(raw) <= Highest(raw)
    BY <1>1, <1>3, <1>4 DEF StartPressure, Raw, Number, Within, Less, Greater
  <1>6. raw.lower \in Int /\ raw.upper \in Int
    BY <1>1 DEF Raw
  <1> QED BY <1>3, <1>4, <1>5, <1>6 DEF Guarded

LEMMA BoilerStarts == BoilerInit => BoilerIInv
  <1> SUFFICES ASSUME BoilerInit PROVE BoilerIInv
    OBVIOUS
  <1>1. PICK raw \in Configs : cfg = Guarded(raw) /\ pressure = StartPressure(raw)
    BY DEF BoilerInit
  <1>2. /\ cfg \in [target : Nat, max : Nat, capacity : Nat \ {0}, perKg : Nat,
                    lower : Int, upper : Int]
        /\ pressure \in Nat /\ PressureIsHeld
    <2>1. held = FALSE
      BY DEF BoilerInit
    <2> QED BY <1>1, <2>1, GuardedRuns DEF PressureIsHeld
  <1>3. {boilerOk, held, touched} \subseteq BOOLEAN
    BY Zenon DEF BoilerInit
  <1>4. demand \in Number /\ handed \in Int \cup {Absent} /\ command \in Int /\ heat = 0
        /\ tick = Absent
    BY DEF BoilerInit, Number
  <1>5. DrawsItsNeed /\ ReadsItsNeed
    BY <1>4 DEF DrawsItsNeed, ReadsItsNeed
  <1> QED BY <1>2, <1>3, <1>4, <1>5 DEF BoilerIInv, BoilerTypeOK

\* The recovery is a number of watts, none when there is no gap.
LEMMA RecoveryIsPower ==
    ASSUME BoilerTypeOK, NEW p \in Nat, NEW dt \in Nat \ {0}
    PROVE  Recovery(p, dt) \in Int
  <1>1. (cfg.target - p) * cfg.capacity \in Int
    BY DEF BoilerTypeOK
  <1> QED BY <1>1, RoundsDown DEF Recovery

LEMMA DemandIsPower == BoilerTypeOK => DemandPower \in Nat
  <1> SUFFICES ASSUME BoilerTypeOK, demand # Odd PROVE Greater(demand * cfg.perKg, 0) \in Nat
    BY DEF DemandPower
  <1>1. demand * cfg.perKg \in Int
    BY DEF BoilerTypeOK, Number
  <1> QED BY <1>1 DEF Greater

\* A tick's integration keeps the pressure between target and ceiling, brings
\* one at or below the target to it and one above only down.
LEMMA IntegrationHolds ==
    ASSUME BoilerIInv, TickIntegrates
    PROVE  /\ pressure' \in Nat /\ cfg.target <= pressure' /\ pressure' <= cfg.max
           /\ ~touched =>
                IF pressure <= cfg.target THEN pressure' = cfg.target
                ELSE /\ heat = 0
                     /\ pressure' = Greater(cfg.target,
                                        pressure + (-(tick.power * tick.span)) \div cfg.capacity)
  <1> DEFINE change == ((heat - tick.power) * tick.span) \div cfg.capacity
  <1>1. /\ cfg.target \in Nat /\ cfg.max \in Nat /\ cfg.capacity \in Nat \ {0}
        /\ pressure \in Nat /\ heat \in Int /\ 0 <= heat
        /\ tick.span \in Nat \ {0} /\ tick.power \in Nat /\ tick.need \in Int /\ tick.from \in Nat
        /\ cfg.target <= cfg.max /\ pressure <= cfg.max
        /\ heat <= Greater(tick.need, 0)
    BY DEF BoilerIInv, BoilerTypeOK, PressureIsHeld, DrawsItsNeed, TickIntegrates
  <1>2. /\ tick.need <= IF tick.from > cfg.target THEN 0
                       ELSE tick.power + Recovery(tick.from, tick.span)
        /\ ~touched => tick.from = pressure
    BY DEF BoilerIInv, ReadsItsNeed, TickIntegrates
  <1>3. (heat - tick.power) * tick.span \in Int /\ change \in Int
    BY <1>1, RoundsDown
  <1>4. pressure' = Within(pressure + change, cfg.target, cfg.max)
    BY DEF TickIntegrates
  <1>5. pressure' \in Nat /\ cfg.target <= pressure' /\ pressure' <= cfg.max
    <2> HIDE DEF change
    <2> QED BY <1>1, <1>3, <1>4 DEF Within, Less, Greater
  <1>6. CASE ~touched /\ pressure <= cfg.target
    <2>1. cfg.target - pressure \in Nat
      BY <1>1, <1>6
    <2>2. Recovery(pressure, tick.span) = ((cfg.target - pressure) * cfg.capacity) \div tick.span
      BY DEF Recovery
    <2>3. (cfg.target - pressure) * cfg.capacity \in Nat
      BY <1>1, <2>1
    <2>4. Recovery(pressure, tick.span) \in Int /\ Recovery(pressure, tick.span) >= 0
      BY <1>1, <2>2, <2>3, RoundsDown
    <2>5. heat - tick.power <= Recovery(pressure, tick.span) /\ heat - tick.power \in Int
      BY <1>1, <1>2, <1>6, <2>4 DEF Greater
    <2>6. change <= cfg.target - pressure
      BY <1>1, <2>1, <2>2, <2>5, HeatFits
    <2> HIDE DEF change
    <2>7. pressure' = cfg.target
      BY <1>1, <1>3, <1>4, <2>6 DEF Within, Less, Greater
    <2> QED BY <1>5, <1>6, <2>7
  <1>7. CASE ~touched /\ ~(pressure <= cfg.target)
    <2>1. heat = 0
      BY <1>1, <1>2, <1>7 DEF Greater
    <2>2. (heat - tick.power) * tick.span = -(tick.power * tick.span) /\ tick.power * tick.span \in Nat
      BY <1>1, <2>1
    <2>3. -(tick.power * tick.span) \in Int /\ -(tick.power * tick.span) <= 0
      BY <2>2
    <2>4. change = (-(tick.power * tick.span)) \div cfg.capacity
      BY <2>2
    <2>5. change <= 0
      BY <1>1, <2>3, <2>4, RoundsDown
    <2>6. pressure' = Greater(cfg.target, pressure + change)
      <3> HIDE DEF change
      <3> QED BY <1>1, <1>3, <1>4, <2>5 DEF Within, Less, Greater
    <2> QED BY <1>5, <1>7, <2>1, <2>4, <2>6
  <1> QED BY <1>5, <1>6, <1>7

LEMMA BoilerKeeps == BoilerIInv /\ [BoilerNext]_boilerVars => BoilerIInv'
  <1> SUFFICES ASSUME BoilerIInv, [BoilerNext]_boilerVars PROVE BoilerIInv'
    OBVIOUS
  <1> USE DEF BoilerIInv
  <1>1. ASSUME NEW d \in Demands, SetDemand(d) PROVE BoilerIInv'
    BY <1>1, BoilerAssumption
    DEF SetDemand, BoilerTypeOK, PressureIsHeld, DrawsItsNeed, ReadsItsNeed, Recovery
  <1>2. ASSUME NEW p \in Pressures, SetPressure(p) PROVE BoilerIInv'
    <2>1. p \in Int
      BY <1>2, BoilerAssumption DEF SetPressure, Number
    <2>2. cfg.max \in Nat /\ 1 <= cfg.max
      BY DEF BoilerTypeOK, PressureIsHeld
    <2>3. pressure' \in Nat /\ 1 <= pressure' /\ pressure' <= cfg.max
      BY <1>2, <2>1, <2>2 DEF SetPressure, Within, Less, Greater
    <2> QED BY <1>2, <2>3
         DEF SetPressure, BoilerTypeOK, PressureIsHeld, DrawsItsNeed, ReadsItsNeed, Recovery
  <1>3. ASSUME NEW v \in Commands, SetCommand(v) PROVE BoilerIInv'
    BY <1>3, BoilerAssumption
    DEF SetCommand, BoilerTypeOK, PressureIsHeld, DrawsItsNeed, ReadsItsNeed, Recovery
  <1>4. ASSUME SetBoilerHealth PROVE BoilerIInv'
    BY <1>4 DEF SetBoilerHealth, BoilerTypeOK, PressureIsHeld, DrawsItsNeed, ReadsItsNeed, Recovery
  <1>5. ASSUME NEW dt \in Spans, TickReads(dt) PROVE BoilerIInv'
    <2>1. dt \in Nat \ {0}
      BY BoilerAssumption
    <2>2. DemandPower \in Nat /\ Recovery(pressure, dt) \in Int /\ pressure \in Nat
          /\ cfg.upper \in Int /\ cfg.target \in Nat
      BY <2>1, DemandIsPower, RecoveryIsPower DEF BoilerTypeOK
    <2>3. /\ Need(pressure, DemandPower, dt) \in Int
          /\ Need(pressure, DemandPower, dt) <=
                IF pressure > cfg.target THEN 0 ELSE DemandPower + Recovery(pressure, dt)
      BY <2>2 DEF Need, Less
    <2>4. /\ tick' \in [span : Nat \ {0}, power : Nat, need : Int, from : Nat, heated : BOOLEAN]
          /\ tick'.from = pressure /\ ~tick'.heated /\ tick'.span = dt
          /\ tick'.power = DemandPower /\ tick'.need = Need(pressure, DemandPower, dt)
      BY <1>5, <2>1, <2>2, <2>3 DEF TickReads
    <2>5. BoilerTypeOK' /\ PressureIsHeld'
      BY <1>5, <2>4 DEF TickReads, BoilerTypeOK, PressureIsHeld
    <2>6. DrawsItsNeed' /\ ReadsItsNeed'
      BY <1>5, <2>3, <2>4 DEF TickReads, DrawsItsNeed, ReadsItsNeed, Recovery
    <2> QED BY <2>5, <2>6
  <1>6. ASSUME TickHeats PROVE BoilerIInv'
    <2>1. /\ tick.need \in Int /\ cfg.lower \in Int /\ cfg.upper \in Int /\ command \in Int
          /\ handed \in Int \cup {Absent}
          /\ tick \in [span : Nat \ {0}, power : Nat, need : Int, from : Nat, heated : BOOLEAN]
      BY <1>6 DEF TickHeats, BoilerTypeOK
    <2>2. command' \in Int
      BY <1>6, <2>1 DEF TickHeats
    <2>3. heat' \in Int /\ 0 <= heat' /\ heat' <= Greater(tick.need, 0)
      BY <1>6, <2>1, <2>2 DEF TickHeats, Parked, Within, Less, Greater
    <2>4. /\ tick' \in [span : Nat \ {0}, power : Nat, need : Int, from : Nat, heated : BOOLEAN]
          /\ tick'.from = tick.from /\ tick'.span = tick.span /\ tick'.need = tick.need
          /\ tick'.power = tick.power
      BY <1>6, <2>1 DEF TickHeats
    <2>5. BoilerTypeOK' /\ PressureIsHeld'
      BY <1>6, <2>2, <2>3, <2>4 DEF TickHeats, BoilerTypeOK, PressureIsHeld
    <2>6. DrawsItsNeed' /\ ReadsItsNeed'
      BY <1>6, <2>3, <2>4 DEF TickHeats, DrawsItsNeed, ReadsItsNeed, Recovery, Greater
    <2> QED BY <2>5, <2>6
  <1>7. ASSUME TickIntegrates PROVE BoilerIInv'
    <2>1. pressure' \in Nat /\ cfg.target <= pressure' /\ pressure' <= cfg.max
      BY <1>7, IntegrationHolds
    <2> QED BY <1>7, <2>1
         DEF TickIntegrates, BoilerTypeOK, PressureIsHeld, DrawsItsNeed, ReadsItsNeed
  <1>8. CASE UNCHANGED boilerVars
    BY <1>8
    DEF boilerVars, BoilerTypeOK, PressureIsHeld, DrawsItsNeed, ReadsItsNeed, Recovery
  <1> QED BY <1>1, <1>2, <1>3, <1>4, <1>5, <1>6, <1>7, <1>8 DEF BoilerNext

-----------------------------------------------------------------------------
\* A boiler's pressure stays between its bounds, its heater draws no more than
\* the need, and heating never lifts the pressure past the target, whatever
\* boilers are made from and whatever the doors set (steam_boiler.rs:91-139,
\* 176-187, 264-283, 373-379).
THEOREM BoilerHolds == BoilerSpec => BoilerIsSound
  <1>1. BoilerInit => BoilerIInv
    BY BoilerStarts
  <1>2. BoilerIInv /\ [BoilerNext]_boilerVars => BoilerIInv'
    BY BoilerKeeps
  <1>3. BoilerIInv => PressureIsHeld /\ DrawsItsNeed
    BY DEF BoilerIInv
  <1>4. BoilerIInv /\ [BoilerNext]_boilerVars =>
            (TickIntegrates /\ ~touched =>
                IF pressure <= cfg.target THEN pressure' = cfg.target
                ELSE /\ heat = 0
                     /\ pressure' = Greater(cfg.target,
                            pressure + (-(tick.power * tick.span)) \div cfg.capacity))
    BY IntegrationHolds
  <1> QED BY <1>1, <1>2, <1>3, <1>4, PTL DEF BoilerSpec, BoilerIsSound, HeatDoesNotOverfill

-----------------------------------------------------------------------------
(* The frequency                                                            *)

\* What a call gives a key is a value the model may hold.
LEMMA KeptIsHeld ==
    ASSUME NEW change \in Calls, NEW k \in DOMAIN change
    PROVE  k \in Keys /\ Kept(k, change[k]) \in ValuesOf(k)
  <1>1. DOMAIN change \subseteq Keys
    BY FrequencyAssumption
  <1>2. change[k] \in ValuesOf(k) \cup (IF k = "nominal" THEN {} ELSE {-1})
    BY FrequencyAssumption
  <1>3. k # "nominal" => 0 \in ValuesOf(k)
    BY <1>1 DEF ValuesOf, Keys
  <1> QED BY <1>1, <1>2, <1>3 DEF Kept

\* What the setters make of a model is a model.
LEMMA AppliedIsModel ==
    ASSUME NEW model \in Model, NEW change \in Calls
    PROVE  Applied(model, change) \in Model
  <1>1. \A k \in Keys : Applied(model, change)[k] \in ValuesOf(k)
    <2> TAKE k \in Keys
    <2>1. model[k] \in ValuesOf(k)
      BY DEF Model
    <2> QED BY <2>1, KeptIsHeld DEF Applied
  <1>2. DOMAIN Applied(model, change) = Keys
        /\ Applied(model, change) = [k \in Keys |-> Applied(model, change)[k]]
    BY DEF Applied
  <1> QED BY <1>1, <1>2 DEF Model

LEMMA FrequencyStarts == FrequencyInit => FrequencyIInv
  <1> SUFFICES ASSUME FrequencyInit PROVE FrequencyIInv
    OBVIOUS
  <1>1. Usually \in Model
    <2>1. \A k \in Keys : Usually[k] \in ValuesOf(k)
      BY FrequencyAssumption DEF Usually, Keys, ValuesOf
    <2>2. Usually = [k \in Keys |-> Usually[k]]
      BY DEF Usually
    <2> QED BY <2>1, <2>2 DEF Model
  <1>2. Nominal \in Hz
    BY FrequencyAssumption
  <1>3. DOMAIN layers.given \subseteq Keys /\ layers.over = Usually
    BY DEF FrequencyInit
  <1> QED BY <1>1, <1>2, <1>3
          DEF FrequencyInit, FrequencyIInv, FrequencyTypeOK, LayersHold

\* A call's keys go on top of an override; what the call leaves out stays.
LEMMA OverridesStack ==
    ASSUME LayersHold, NEW change, OverrideFrequencyModel(change)
    PROVE  LayersHold'
  <1>1. /\ override' = Applied(Active, change)
        /\ layers' = [over |-> IF override = NoModel THEN baseModel ELSE layers.over,
                      given |-> [k \in DOMAIN change \cup
                                    (IF override = NoModel THEN {} ELSE DOMAIN layers.given) |->
                                   IF k \in DOMAIN change THEN change[k] ELSE layers.given[k]]]
    BY DEF OverrideFrequencyModel
  <1>2. CASE override = NoModel
    BY <1>1, <1>2 DEF Active, Applied, LayersHold
  <1>3. CASE override # NoModel
    <2>1. override = [k \in Keys |-> IF k \in DOMAIN layers.given THEN Kept(k, layers.given[k])
                                     ELSE layers.over[k]]
      BY <1>3 DEF LayersHold
    <2>2. override' = [k \in Keys |-> IF k \in DOMAIN change THEN Kept(k, change[k]) ELSE override[k]]
      BY <1>1, <1>3 DEF Active, Applied
    <2>3. /\ layers'.over = layers.over
          /\ DOMAIN layers'.given = DOMAIN change \cup DOMAIN layers.given
          /\ \A k \in DOMAIN change : layers'.given[k] = change[k]
          /\ \A k \in DOMAIN layers.given \ DOMAIN change : layers'.given[k] = layers.given[k]
      BY <1>1, <1>3
    <2> QED BY <2>1, <2>2, <2>3 DEF LayersHold
  <1> QED BY <1>2, <1>3

\* A model's nominal frequency is one the run may see.
LEMMA NominalIsSeen ==
    ASSUME NEW model \in Model
    PROVE  /\ model["nominal"] \in Hz \cup {Astray}
           /\ IsTame(model) => model["nominal"] \in Hz
  <1>1. "nominal" \in Keys /\ ValuesOf("nominal") = Hz \cup {Astray}
    BY DEF Keys, ValuesOf
  <1>2. model["nominal"] \in ValuesOf("nominal")
    BY <1>1 DEF Model
  <1>3. IsTame(model) => model["nominal"] # Astray
    BY <1>1 DEF IsTame
  <1> QED BY <1>1, <1>2, <1>3

\* A step leaves a frequency the run may see, a number when the model is tame.
LEMMA SteppedIsSeen ==
    ASSUME NEW f \in Hz \cup {Astray}, NEW model \in Model, NEW g \in Stepped(f, model)
    PROVE  /\ g \in Hz \cup {Astray}
           /\ f # Astray /\ IsTame(model) => g \in Hz
  BY DEF Stepped, IsTame

LEMMA FrequencyKeeps == FrequencyIInv /\ [FrequencyNext]_frequencyVars => FrequencyIInv'
  <1> SUFFICES ASSUME FrequencyIInv, [FrequencyNext]_frequencyVars PROVE FrequencyIInv'
    OBVIOUS
  <1>0. FrequencyTypeOK /\ LayersHold
    BY DEF FrequencyIInv
  <1>a. Nominal \in Hz /\ baseModel \in Model /\ Active \in Model
    BY <1>0, FrequencyAssumption DEF FrequencyTypeOK, Active
  <1>1. ASSUME NEW v \in Hz \cup {Astray}, SetFrequency(v) PROVE FrequencyIInv'
    BY <1>0, <1>1 DEF SetFrequency, FrequencyIInv, FrequencyTypeOK, LayersHold
  <1>2. ASSUME NEW change \in Calls, SetFrequencyModel(change) PROVE FrequencyIInv'
    <2>1. baseModel' \in Model
      BY <1>a, <1>2, AppliedIsModel DEF SetFrequencyModel
    <2> QED BY <1>0, <1>2, <2>1 DEF SetFrequencyModel, FrequencyIInv, FrequencyTypeOK, LayersHold
  <1>3. ASSUME NEW change \in Calls, OverrideFrequencyModel(change) PROVE FrequencyIInv'
    <2>1. override' \in Model
      BY <1>a, <1>3, AppliedIsModel DEF OverrideFrequencyModel
    <2>2. LayersHold'
      BY <1>0, <1>3, OverridesStack
    <2>3. layers'.over \in Model
      BY <1>0, <1>3 DEF OverrideFrequencyModel, FrequencyTypeOK
    <2>4. DOMAIN layers'.given \subseteq Keys
      <3>1. DOMAIN change \subseteq Keys
        BY FrequencyAssumption
      <3>2. DOMAIN layers'.given \subseteq DOMAIN change \cup DOMAIN layers.given
        BY <1>3 DEF OverrideFrequencyModel
      <3> QED BY <1>0, <3>1, <3>2 DEF FrequencyTypeOK
    <2> QED BY <1>0, <1>3, <2>1, <2>2, <2>3, <2>4
         DEF OverrideFrequencyModel, FrequencyIInv, FrequencyTypeOK
  <1>4. CASE ClearFrequencyOverride
    BY <1>0, <1>4 DEF ClearFrequencyOverride, FrequencyIInv, FrequencyTypeOK, LayersHold
  <1>5. CASE FrequencyStep
    <2>1. hz' \in Hz \cup {Astray}
      <3>1. Active["nominal"] \in Hz \cup {Astray} /\ hz \in Hz \cup {Astray}
        BY <1>0, <1>a, NominalIsSeen DEF FrequencyTypeOK
      <3>2. hz' \in Stepped(IF hz = Astray THEN Active["nominal"] ELSE hz, Active)
        BY <1>5 DEF FrequencyStep
      <3> QED BY <1>a, <3>1, <3>2, SteppedIsSeen
    <2> QED BY <1>0, <1>5, <2>1 DEF FrequencyStep, FrequencyIInv, FrequencyTypeOK, LayersHold
  <1>6. CASE UNCHANGED frequencyVars
    BY <1>0, <1>6 DEF frequencyVars, FrequencyIInv, FrequencyTypeOK, LayersHold
  <1> QED BY <1>1, <1>2, <1>3, <1>4, <1>5, <1>6 DEF FrequencyNext

\* An override is the base it was made over under what was given to it since,
\* and a step of a tame model leaves a number, whatever the frequencies, rates
\* and calls (frequency.rs:99-111, defuns/frequency.rs:137-148).
THEOREM FrequencyHolds == FrequencySpec => FrequencyIsSound
  <1>1. FrequencyInit => FrequencyIInv
    BY FrequencyStarts
  <1>2. FrequencyIInv /\ [FrequencyNext]_frequencyVars => FrequencyIInv'
    BY FrequencyKeeps
  <1>3. FrequencyIInv => FrequencyTypeOK /\ LayersHold
    BY DEF FrequencyIInv
  <1>4. FrequencyIInv => (FrequencyStep /\ IsTame(Active) => hz' \in Hz)
    <2> SUFFICES ASSUME FrequencyIInv, FrequencyStep, IsTame(Active) PROVE hz' \in Hz
      OBVIOUS
    <2>1. Active \in Model /\ hz \in Hz \cup {Astray}
      BY DEF FrequencyIInv, FrequencyTypeOK, Active
    <2>2. Active["nominal"] \in Hz
      BY <2>1, NominalIsSeen
    <2>3. Astray \notin Hz
      <3> SUFFICES ASSUME Astray \in Hz PROVE FALSE
        OBVIOUS
      <3>1. Astray \in Nat
        BY FrequencyAssumption
      <3> QED BY <3>1, FrequencyAssumption
    <2>4. hz' \in Stepped(IF hz = Astray THEN Active["nominal"] ELSE hz, Active)
      BY DEF FrequencyStep
    <2>5. (IF hz = Astray THEN Active["nominal"] ELSE hz) \in Hz
      BY <2>1, <2>2
    <2> QED BY <2>1, <2>3, <2>4, <2>5, SteppedIsSeen
  <1> QED BY <1>1, <1>2, <1>3, <1>4, PTL DEF FrequencySpec, FrequencyIsSound, StepsHeal


-----------------------------------------------------------------------------
(* The files: texts                                                         *)

\* What a text generates is a block, and one with a block has its script.
LEMMA TextShape ==
    ASSUME NEW t \in SavedText
    PROVE  /\ Generated(t) \in Block /\ Builds(t) \in SUBSET Comp
           /\ IsManagedText(t) => t # Mangled /\ t.script \in SUBSET Comp
  <1>1. CASE t = Mangled
    BY <1>1 DEF Generated, Builds, IsManagedText, Block
  <1>2. CASE t # Mangled
    <2>1. t.block \in Block /\ t.script \in SUBSET Comp
      BY <1>2 DEF SavedText
    <2> QED BY <1>2, <2>1 DEF Generated, Builds, IsManagedText, Block
  <1> QED BY <1>1, <1>2

\* A text put together is one, generates its block and builds its components.
LEMMA ComposedShape ==
    ASSUME NEW b \in Block, NEW s \in SUBSET Comp
    PROVE  /\ Text(b, s) \in SavedText /\ Generated(Text(b, s)) = b
           /\ b \in SUBSET Comp => Builds(Text(b, s)) = b
  <1>1. Text(b, s) \in [block : Block, script : SUBSET Comp]
    BY DEF Text
  <1>2. Text(b, s) # Mangled
    BY <1>1, FilesAssumption
  <1>3. Text(b, s).block = b
    BY DEF Text
  <1>4. b \in SUBSET Comp => b # Broken /\ b # Unmarked
    BY FilesAssumption
  <1> QED BY <1>1, <1>2, <1>3, <1>4 DEF SavedText, Generated, Builds

-----------------------------------------------------------------------------
(* The files: stacks                                                        *)

\* One less than a positive number.
LEMMA LessOne ==
    \A n \in Nat \ {0} : (n - 1) - 1 + 1 = n - 1 /\ (~(1 <= n - 1) => n - 1 = 0)
  OBVIOUS

\* The stack without its newest block.
LEMMA FrontShape ==
    ASSUME NEW S, NEW q \in Seq(S), q # <<>>
    PROVE  /\ Len(q) \in Nat \ {0}
           /\ Seqs!Front(q) \in Seq(S) /\ Len(Seqs!Front(q)) = Len(q) - 1
           /\ \A i \in 1..Len(q) - 1 : Seqs!Front(q)[i] = q[i]
           /\ Seqs!Last(q) \in S
           /\ Append(Seqs!Front(q), Seqs!Last(q)) = q
  <1>1. Len(q) \in Nat \ {0}
    BY EmptySeq
  <1>2. \A i \in 1..Len(q) : q[i] \in S
    BY ElementOfSeq
  <1>3. Seqs!Last(q) = q[Len(q)] /\ Seqs!Last(q) \in S
    BY <1>1, <1>2 DEF Seqs!Last
  <1> DEFINE front == SubSeq(q, 1, Len(q) - 1)
  <1>4. front \in Seq(S) /\ Len(front) = Len(q) - 1 /\ \A i \in 1..Len(q) - 1 : front[i] = q[i]
    <2>1. \A i \in 1..Len(q) - 1 : q[i] \in S
      BY <1>1, <1>2
    <2>2. Len(q) - 1 \in Int /\ 1 \in Int
      BY <1>1
    <2>3. /\ front \in Seq(S) /\ Len(front) = IF 1 <= Len(q) - 1 THEN (Len(q) - 1) - 1 + 1 ELSE 0
          /\ \A i \in 1..(Len(q) - 1) - 1 + 1 : front[i] = q[1 + i - 1]
      BY ONLY <2>1, <2>2, SubSeqProperties
    <2> HIDE DEF front
    <2>4. (Len(q) - 1) - 1 + 1 = Len(q) - 1 /\ (~(1 <= Len(q) - 1) => Len(q) - 1 = 0)
      BY <1>1, LessOne
    <2>5. \A i \in 1..Len(q) - 1 : front[i] = q[i]
      <3> TAKE i \in 1..Len(q) - 1
      <3>1. i \in 1..(Len(q) - 1) - 1 + 1 /\ 1 + i - 1 = i
        BY <1>1, <2>4
      <3> QED BY <2>3, <3>1
    <2>6. Len(front) = Len(q) - 1
      BY <2>3, <2>4
    <2> QED BY <2>3, <2>5, <2>6
  <1>5. Seqs!Front(q) = front
    BY DEF Seqs!Front
  <1> HIDE DEF front
  <1>6. Append(front, q[Len(q)]) = q
    <2>1. q[Len(q)] \in S
      BY <1>1, <1>2
    <2> DEFINE all == Append(front, q[Len(q)])
    <2>2. /\ all \in Seq(S) /\ Len(all) = Len(q)
          /\ \A i \in 1..Len(front) : all[i] = front[i]
          /\ all[Len(front) + 1] = q[Len(q)]
      BY <1>1, <1>4, <2>1, AppendProperties
    <2> HIDE DEF all
    <2>3. \A i \in 1..Len(all) : all[i] = q[i]
      BY <1>1, <1>4, <2>2
    <2>4. all = q
      BY <2>2, <2>3, SeqEqual
    <2> QED BY <2>4 DEF all
  <1> QED BY <1>1, <1>3, <1>4, <1>5, <1>6

\* A capped stack fits, ends with what was put on it, and loses nothing when
\* there was room.
LEMMA CappedShape ==
    ASSUME NEW S, NEW q \in Seq(S), NEW e \in S
    PROVE  LET stack == Capped(Append(q, e))
           IN  /\ stack \in Seq(S) /\ stack # <<>> /\ Len(stack) <= Cap
               /\ Seqs!Last(stack) = e
               /\ Len(q) < Cap => stack = Append(q, e)
  <1> DEFINE all == Append(q, e)
             from == Len(all) - Cap + 1
  <1>0. Cap \in Nat \ {0}
    BY FilesAssumption
  <1>1. all \in Seq(S) /\ Len(all) = Len(q) + 1 /\ Len(q) \in Nat /\ all[Len(all)] = e /\ all # <<>>
    BY AppendProperties, LenProperties
  <1>2. \A i \in 1..Len(all) : all[i] \in S
    BY <1>1, ElementOfSeq
  <1> HIDE DEF all
  <1>3. CASE Len(all) > Cap
    <2>1. from \in 1..Len(all) /\ Len(all) \in Nat /\ Len(all) - from + 1 = Cap
      BY <1>0, <1>1, <1>3
    <2> HIDE DEF from
    <2> DEFINE cut == SubSeq(all, from, Len(all))
    <2>2. \A i \in from..Len(all) : all[i] \in S
      BY <1>2, <2>1
    <2>3. from \in Int /\ Len(all) \in Int
      BY <2>1
    <2>4. /\ cut \in Seq(S) /\ Len(cut) = IF from <= Len(all) THEN Len(all) - from + 1 ELSE 0
          /\ \A i \in 1..Len(all) - from + 1 : cut[i] = all[from + i - 1]
      BY ONLY <2>2, <2>3, SubSeqProperties
    <2> HIDE DEF cut
    <2>5. Len(cut) = Cap /\ cut[Cap] = all[Len(all)]
      <3>1. Len(cut) = Cap
        BY <1>0, <2>1, <2>4
      <3>2. cut[Cap] = all[from + Cap - 1]
        BY <1>0, <2>1, <2>4
      <3>3. from + Cap - 1 = Len(all)
        BY <1>0, <2>1
      <3> QED BY <3>1, <3>2, <3>3
    <2>6. cut # <<>>
      BY <1>0, <2>5, EmptySeq
    <2>7. Capped(all) = cut
      BY <1>3 DEF Capped, cut, from
    <2>8. ~(Len(q) < Cap)
      BY <1>0, <1>1, <1>3
    <2>9. Seqs!Last(cut) = e
      BY <1>1, <2>5 DEF Seqs!Last
    <2>10. Len(cut) <= Cap
      BY <1>0, <2>5
    <2> QED BY <2>4, <2>6, <2>7, <2>8, <2>9, <2>10 DEF all
  <1>4. CASE ~(Len(all) > Cap)
    <2>1. Capped(all) = all
      BY <1>4 DEF Capped
    <2>2. Len(all) <= Cap
      BY <1>0, <1>1, <1>4
    <2>3. Seqs!Last(all) = e
      BY <1>1 DEF Seqs!Last
    <2> QED BY <1>1, <2>1, <2>2, <2>3 DEF all
  <1> QED BY <1>3, <1>4

\* What is put on a stack comes first when it is read from the top.
LEMMA ReverseOfAppend ==
    ASSUME NEW S, NEW r \in Seq(S), NEW x \in S
    PROVE  /\ Seqs!Reverse(r) \in Seq(S)
           /\ Seqs!Reverse(Append(r, x)) = <<x>> \o Seqs!Reverse(r)
  <1> DEFINE all == Append(r, x)
             back == Seqs!Reverse(r)
             there == <<x>> \o back
  <1>1. /\ all \in Seq(S) /\ Len(all) = Len(r) + 1 /\ Len(r) \in Nat
        /\ \A i \in 1..Len(r) : all[i] = r[i] /\ r[i] \in S
        /\ all[Len(r) + 1] = x
    BY AppendProperties, LenProperties, ElementOfSeq
  <1>2. back \in Seq(S) /\ Len(back) = Len(r) /\ \A i \in 1..Len(r) : back[i] = r[(Len(r) - i) + 1]
    BY <1>1 DEF Seqs!Reverse
  <1> HIDE DEF all, back
  <1>3. <<x>> \in Seq(S) /\ Len(<<x>>) = 1 /\ <<x>>[1] = x
    OBVIOUS
  <1>4. /\ there \in Seq(S) /\ Len(there) = Len(r) + 1
        /\ \A i \in 1..Len(r) + 1 : there[i] = IF i <= 1 THEN x ELSE back[i - 1]
    <2>1. /\ there \in Seq(S) /\ Len(there) = 1 + Len(back)
          /\ \A i \in 1..1 + Len(back) : there[i] = IF i <= 1 THEN <<x>>[i] ELSE back[i - 1]
      BY <1>2, <1>3, ConcatProperties
    <2> HIDE DEF there
    <2> QED BY <1>1, <1>2, <1>3, <2>1
  <1> HIDE DEF there
  <1>5. /\ Seqs!Reverse(all) \in Seq(S) /\ Len(Seqs!Reverse(all)) = Len(r) + 1
        /\ \A i \in 1..Len(r) + 1 : Seqs!Reverse(all)[i] = all[(Len(r) + 1 - i) + 1]
    <2>1. \A i \in 1..Len(r) + 1 : all[(Len(r) + 1 - i) + 1] \in S
      BY <1>1
    <2> QED BY <1>1, <2>1 DEF Seqs!Reverse
  <1>6. \A i \in 1..Len(r) + 1 : Seqs!Reverse(all)[i] = there[i]
    <2> TAKE i \in 1..Len(r) + 1
    <2>1. CASE i = 1
      BY <1>1, <1>4, <1>5, <2>1
    <2>2. CASE i # 1
      <3>1. i - 1 \in 1..Len(r) /\ (Len(r) + 1 - i) + 1 \in 1..Len(r)
            /\ (Len(r) - (i - 1)) + 1 = (Len(r) + 1 - i) + 1
        BY <1>1, <2>2
      <3>2. there[i] = r[(Len(r) - (i - 1)) + 1]
        <4>1. there[i] = back[i - 1]
          <5>1. ~(i <= 1)
            BY <1>1, <2>2
          <5> QED BY <1>4, <5>1
        <4> QED BY <1>2, <3>1, <4>1
      <3>3. Seqs!Reverse(all)[i] = r[(Len(r) + 1 - i) + 1]
        BY <1>1, <1>5, <3>1
      <3> QED BY <3>1, <3>2, <3>3
    <2> QED BY <2>1, <2>2
  <1>7. Seqs!Reverse(all) = there
    BY <1>4, <1>5, <1>6, SeqEqual
  <1> QED BY <1>2, <1>7 DEF all, back, there

\* To put the block x in place of the newest of u and x on top of r, or the
\* other way round, is to move along one line.
LEMMA MovedAlong ==
    ASSUME NEW S, NEW u \in Seq(S), NEW r \in Seq(S), NEW x \in S
    PROVE  /\ u # <<>> =>
                Seqs!Front(u) \o <<Seqs!Last(u)>> \o Seqs!Reverse(Append(r, x))
                    = u \o <<x>> \o Seqs!Reverse(r)
           /\ r # <<>> =>
                Append(u, x) \o <<Seqs!Last(r)>> \o Seqs!Reverse(Seqs!Front(r))
                    = u \o <<x>> \o Seqs!Reverse(r)
  <1>0. <<x>> \in Seq(S)
    OBVIOUS
  <1>1. <<x>> \in Seq(S) /\ Seqs!Reverse(r) \in Seq(S)
    BY <1>0, ReverseOfAppend
  <1>2. ASSUME u # <<>>
        PROVE  Seqs!Front(u) \o <<Seqs!Last(u)>> \o Seqs!Reverse(Append(r, x))
                    = u \o <<x>> \o Seqs!Reverse(r)
    <2>1. Seqs!Front(u) \in Seq(S) /\ Seqs!Last(u) \in S /\ Append(Seqs!Front(u), Seqs!Last(u)) = u
      BY <1>2, FrontShape
    <2>2. Seqs!Front(u) \o <<Seqs!Last(u)>> = u
      BY <2>1, AppendIsConcat
    <2>3. u \o (<<x>> \o Seqs!Reverse(r)) = (u \o <<x>>) \o Seqs!Reverse(r)
      BY <1>1, ConcatAssociative
    <2>4. Seqs!Reverse(Append(r, x)) = <<x>> \o Seqs!Reverse(r)
      BY ReverseOfAppend
    <2> HIDE DEF Seqs!Reverse, Seqs!Front, Seqs!Last
    <2> QED BY <2>2, <2>3, <2>4
  <1>3. ASSUME r # <<>>
        PROVE  Append(u, x) \o <<Seqs!Last(r)>> \o Seqs!Reverse(Seqs!Front(r))
                    = u \o <<x>> \o Seqs!Reverse(r)
    <2> DEFINE front == Seqs!Front(r)
               last == Seqs!Last(r)
               back == Seqs!Reverse(front)
               before == u \o <<x>>
    <2>1. front \in Seq(S) /\ last \in S /\ Append(front, last) = r
      BY <1>3, FrontShape
    <2> HIDE DEF front, last
    <2>2. back \in Seq(S) /\ Seqs!Reverse(r) = <<last>> \o back
      BY <2>1, ReverseOfAppend
    <2>3. Append(u, x) = before /\ before \in Seq(S)
      BY <1>1, AppendIsConcat, ConcatProperties
    <2>4. <<last>> \in Seq(S)
      BY <2>1
    <2> HIDE DEF back, before
    <2>5. (before \o <<last>>) \o back = before \o (<<last>> \o back)
      BY <2>2, <2>3, <2>4, ConcatAssociative
    <2>6. Append(u, x) \o <<last>> \o back = before \o Seqs!Reverse(r)
      BY <2>2, <2>3, <2>5
    <2> QED BY <2>6 DEF front, last, back, before
  <1> QED BY <1>2, <1>3

-----------------------------------------------------------------------------
(* The files: what steps do to a file and its stacks                        *)

Stacks == [undo : Seq(Block), redo : Seq(Block)]

\* A write is of one file.
LEMMA WrittenShape ==
    ASSUME FileTypeOK, NEW p \in Paths, NEW text, Write(p, text), p \in Mg => text \in SavedText
    PROVE  /\ DOMAIN onDisk' = Paths
           /\ \A f \in Mg : onDisk'[f] \in SavedText
           /\ \A f \in Mg : onDisk'[f] = IF f = p THEN text ELSE onDisk[f]
  <1>1. DOMAIN onDisk = Paths /\ Mg \subseteq Paths /\ \A f \in Mg : onDisk[f] \in SavedText
    BY DEF FileTypeOK, Paths
  <1>2. onDisk' = [onDisk EXCEPT ![p] = text]
    BY DEF Write
  <1>3. DOMAIN onDisk' = Paths /\ \A f \in Paths : onDisk'[f] = IF f = p THEN text ELSE onDisk[f]
    BY <1>1, <1>2
  <1> QED BY <1>1, <1>3

\* A block is pushed on one file's stack, and forgets what was undone.
LEMMA PushedShape ==
    ASSUME FileIInv, NEW f \in Mg, NEW b \in Block, PushUndoBlock(f, b)
    PROVE  /\ steps' \in [Mg -> Stacks]
           /\ StacksFit'
           /\ steps'[f].redo = <<>> /\ steps'[f].undo # <<>> /\ Seqs!Last(steps'[f].undo) = b
           /\ \A g \in Mg : g # f => steps'[g] = steps[g]
  <1> DEFINE stack == Capped(Append(steps[f].undo, b))
  <1>1. /\ steps \in [Mg -> Stacks]
        /\ steps' = [steps EXCEPT ![f] = [undo |-> stack, redo |-> <<>>]]
        /\ steps[f].undo \in Seq(Block)
    BY DEF FileIInv, FileTypeOK, PushUndoBlock, Stacks
  <1>2. stack \in Seq(Block) /\ stack # <<>> /\ Len(stack) <= Cap /\ Seqs!Last(stack) = b
    BY <1>1, CappedShape
  <1> HIDE DEF stack
  <1>3. <<>> \in Seq(Block) /\ Len(<<>>) = 0
    BY EmptySeq
  <1>4. [undo |-> stack, redo |-> <<>>] \in Stacks
    BY <1>2, <1>3 DEF Stacks
  <1>5. /\ steps' \in [Mg -> Stacks]
        /\ steps'[f] = [undo |-> stack, redo |-> <<>>]
        /\ \A g \in Mg : g # f => steps'[g] = steps[g]
    BY <1>1, <1>4
  <1>6. StacksFit'
    <2> SUFFICES ASSUME NEW g \in Mg
                 PROVE  Len(steps'[g].undo) + Len(steps'[g].redo) <= Cap
      BY DEF StacksFit
    <2>1. CASE g = f
      <3>1. Len(stack) \in Nat
        BY <1>2, LenProperties
      <3>2. steps'[g].undo = stack /\ steps'[g].redo = <<>>
        BY <1>5, <2>1
      <3> QED BY <1>2, <1>3, <3>1, <3>2, FilesAssumption
    <2>2. CASE g # f
      BY <1>5, <2>2 DEF FileIInv, StacksFit
    <2> QED BY <2>1, <2>2
  <1>7. steps'[f].redo = <<>> /\ steps'[f].undo = stack
    BY <1>5
  <1> QED BY <1>2, <1>5, <1>6, <1>7

\* Numbers: what leaves one stack leaves room for it on the other.
LEMMA RoomMoves ==
    \A n \in Nat, m \in Nat :
        n + m <= Cap =>
            /\ m + n <= Cap
            /\ n # 0 => m < Cap /\ (n - 1) + (m + 1) <= Cap /\ (m + 1) + (n - 1) <= Cap
  BY FilesAssumption

\* An undo or a redo takes the newest of one stack and puts the file's block
\* on the other, where there is room for it.
LEMMA MovedShape ==
    ASSUME FileIInv, NEW f \in Mg, NEW b \in Block, b = Generated(onDisk[f]),
           NEW from \in {"undo", "redo"}, NEW to \in {"undo", "redo"}, from # to,
           steps[f][from] # <<>>, Moved(f, from, to)
    PROVE  /\ steps' \in [Mg -> Stacks]
           /\ StacksFit'
           /\ steps'[f][from] = Seqs!Front(steps[f][from])
           /\ steps'[f][to] = Append(steps[f][to], b)
           /\ \A g \in Mg : g # f => steps'[g] = steps[g]
  <1> DEFINE front == Seqs!Front(steps[f][from])
             pushed == Append(steps[f][to], b)
  <1>1. /\ steps \in [Mg -> Stacks]
        /\ steps[f][from] \in Seq(Block) /\ steps[f][to] \in Seq(Block)
    BY DEF FileIInv, FileTypeOK, Stacks
  <1>2. Len(steps[f][from]) + Len(steps[f][to]) <= Cap
    <2>1. /\ Len(steps[f].undo) + Len(steps[f].redo) <= Cap
          /\ Len(steps[f].undo) \in Nat /\ Len(steps[f].redo) \in Nat
      BY <1>1, LenProperties DEF FileIInv, StacksFit, Stacks
    <2> DEFINE n == Len(steps[f].undo)
               m == Len(steps[f].redo)
    <2> HIDE DEF n, m
    <2>2. m + n <= Cap
      BY <2>1, RoomMoves DEF n, m
    <2>3. CASE from = "undo" /\ to = "redo"
      BY <2>1, <2>3
    <2>4. CASE from = "redo" /\ to = "undo"
      BY <2>2, <2>4 DEF n, m
    <2>5. (from = "undo" /\ to = "redo") \/ (from = "redo" /\ to = "undo")
      OBVIOUS
    <2> QED BY ONLY <2>3, <2>4, <2>5
  <1>3. /\ front \in Seq(Block) /\ Len(front) = Len(steps[f][from]) - 1
        /\ Len(steps[f][from]) \in Nat \ {0}
    BY <1>1, FrontShape
  <1>4. pushed \in Seq(Block) /\ Len(pushed) = Len(steps[f][to]) + 1 /\ Len(steps[f][to]) \in Nat
    BY <1>1, AppendProperties, LenProperties
  <1>5. /\ Len(steps[f][to]) < Cap
        /\ Len(front) + Len(pushed) <= Cap /\ Len(pushed) + Len(front) <= Cap
    BY <1>2, <1>3, <1>4, RoomMoves
  <1>6. steps' = [steps EXCEPT ![f][from] = front, ![f][to] = pushed]
    <2>1. Capped(pushed) = pushed
      BY <1>1, <1>5, CappedShape
    <2>2. steps' = [steps EXCEPT ![f][from] = front,
                                 ![f][to] = IF to = "undo" THEN Capped(pushed) ELSE pushed]
      BY DEF Moved
    <2> HIDE DEF front, pushed
    <2> QED BY <2>1, <2>2
  <1> HIDE DEF front, pushed
  <1>7. /\ steps' \in [Mg -> Stacks]
        /\ steps'[f][from] = front /\ steps'[f][to] = pushed
        /\ \A g \in Mg : g # f => steps'[g] = steps[g]
    <2>1. CASE from = "undo" /\ to = "redo"
      BY <1>1, <1>3, <1>4, <1>6, <2>1 DEF Stacks
    <2>2. CASE from = "redo" /\ to = "undo"
      BY <1>1, <1>3, <1>4, <1>6, <2>2 DEF Stacks
    <2> QED BY <2>1, <2>2
  <1>8. StacksFit'
    <2> SUFFICES ASSUME NEW g \in Mg
                 PROVE  Len(steps'[g].undo) + Len(steps'[g].redo) <= Cap
      BY DEF StacksFit
    <2>1. CASE g = f
      <3>1. \/ steps'[g].undo = front /\ steps'[g].redo = pushed
            \/ steps'[g].undo = pushed /\ steps'[g].redo = front
        BY <1>7, <2>1
      <3> QED BY <1>5, <3>1
    <2>2. CASE g # f
      BY <1>7, <2>2 DEF FileIInv, StacksFit
    <2> QED BY <2>1, <2>2
  <1> QED BY <1>7, <1>8 DEF front, pushed

\* A save leaves file and stacks alone, or the file carries the structure and
\* the block it carried is the newest to undo.
LEMMA PersistedShape ==
    ASSUME FileIInv, NEW f \in Mg, NEW structure \in SUBSET Comp, Persist(f, structure)
    PROVE  \/ onDisk' = onDisk /\ steps' = steps
           \/ /\ IsManagedText(onDisk[f])
              /\ onDisk[f].script \in SUBSET Comp
              /\ Write(f, Text(structure, onDisk[f].script))
              /\ PushUndoBlock(f, Generated(onDisk[f]))
  <1>1. onDisk[f] \in SavedText
    BY DEF FileIInv, FileTypeOK
  <1>2. IsManagedText(onDisk[f]) => onDisk[f].script \in SUBSET Comp
    BY <1>1, TextShape
  <1> QED BY <1>2 DEF Persist, Writable, Compose, texts

\* A step changes nothing, or writes the newest block of one stack.
LEMMA StepShape ==
    ASSUME FileIInv, NEW f \in Mg,
           NEW from \in {"undo", "redo"}, NEW to \in {"undo", "redo"}, from # to,
           Step(f, from, to)
    PROVE  \/ UNCHANGED <<texts, world, steps, seen>>
           \/ \E text \in SavedText :
                /\ IsManagedText(onDisk[f])
                /\ Write(f, text) /\ ReloadFile(f, text)
                /\ Generated(text) = Seqs!Last(steps[f][from])
                /\ steps[f][from] # <<>>
                /\ Moved(f, from, to)
  <1> SUFFICES ASSUME Writable(f), StepTaken(f, from, to)
               PROVE  \E text \in SavedText :
                        /\ IsManagedText(onDisk[f])
                        /\ Write(f, text) /\ ReloadFile(f, text)
                        /\ Generated(text) = Seqs!Last(steps[f][from])
                        /\ steps[f][from] # <<>>
                        /\ Moved(f, from, to)
    BY DEF Step
  <1> DEFINE last == Seqs!Last(steps[f][from])
             text == Text(last, onDisk[f].script)
  <1>1. onDisk[f] \in SavedText /\ steps[f][from] \in Seq(Block) /\ steps[f][from] # <<>>
    BY DEF FileIInv, FileTypeOK, Step
  <1>2. last \in Block
    BY <1>1, FrontShape
  <1>3. onDisk[f].script \in SUBSET Comp /\ IsManagedText(onDisk[f])
    BY <1>1, TextShape DEF Writable
  <1>4. text \in SavedText /\ Generated(text) = last
    BY <1>2, <1>3, ComposedShape
  <1>5. Write(f, text) /\ ReloadFile(f, text) /\ Moved(f, from, to)
    BY DEF StepTaken, Compose
  <1> QED BY <1>1, <1>3, <1>4, <1>5

LEMMA ReloadedShape ==
    ASSUME FileTypeOK, NEW f \in Mg, NEW text \in SavedText, ReloadFile(f, text)
    PROVE  /\ live' \in [Mg -> SUBSET Comp] /\ live'[f] = Builds(text)
           /\ \A g \in Mg : g # f => live'[g] = live[g]
  <1>1. Builds(text) \in SUBSET Comp
    BY TextShape
  <1> QED BY <1>1 DEF ReloadFile, FileTypeOK

-----------------------------------------------------------------------------
(* The files: what the program replaces can be put back                      *)

\* A file a step leaves alone, with its stacks, has lost nothing.
LEMMA UntouchedRecoverable ==
    ASSUME FileTypeOK, NEW f \in Mg, onDisk'[f] = onDisk[f], steps'[f] = steps[f]
    PROVE  Recoverable(f)
  <1>1. steps[f].undo \in Seq(Block) /\ steps[f].redo \in Seq(Block)
    BY DEF FileTypeOK
  <1>2. Len(steps[f].undo) \in Nat /\ Len(steps[f].redo) \in Nat
    BY <1>1, LenProperties
  <1>3. ~Grew(f)
    <2>1. /\ ~(Len(steps'[f].undo) > Len(steps[f].undo))
          /\ ~(Len(steps'[f].redo) > Len(steps[f].redo))
      BY <1>2
    <2> QED BY <2>1 DEF Grew
  <1> QED BY <1>3 DEF Recoverable

\* A write that pushes the block it displaces, and has what it wrote live,
\* keeps it.
LEMMA PushedRecoverable ==
    ASSUME FileIInv, NEW f \in Mg, NEW g \in Mg, NEW text \in SavedText, Write(f, text),
           \/ PushUndoBlock(f, Generated(onDisk[f]))
           \/ steps' = steps /\ ~IsManagedText(onDisk[f]),
           live'[f] = Builds(text)
    PROVE  Recoverable(g)
  <1>1. onDisk[f] \in SavedText /\ f \in Paths /\ FileTypeOK
    BY DEF FileIInv, FileTypeOK, Paths
  <1>2. \A h \in Mg : onDisk'[h] = IF h = f THEN text ELSE onDisk[h]
    BY <1>1, WrittenShape
  <1>3. CASE PushUndoBlock(f, Generated(onDisk[f]))
    <2>1. Generated(onDisk[f]) \in Block
      BY <1>1, TextShape
    <2>2. /\ steps'[f].undo # <<>> /\ Seqs!Last(steps'[f].undo) = Generated(onDisk[f])
          /\ \A h \in Mg : h # f => steps'[h] = steps[h]
      BY <1>3, <2>1, PushedShape
    <2>3. CASE g = f
      <3>1. Top(steps'[f].undo) = Generated(onDisk[f])
        BY <2>2 DEF Top
      <3> QED BY <1>2, <2>3, <3>1 DEF Recoverable
    <2>4. CASE g # f
      BY <1>1, <1>2, <2>2, <2>4, UntouchedRecoverable
    <2> QED BY <2>3, <2>4
  <1>4. CASE steps' = steps /\ ~IsManagedText(onDisk[f])
    <2>1. CASE g = f
      BY <1>2, <1>4, <2>1 DEF Recoverable
    <2>2. CASE g # f
      BY <1>1, <1>2, <1>4, <2>2, UntouchedRecoverable
    <2> QED BY <2>1, <2>2
  <1> QED BY <1>3, <1>4

\* An undo or a redo keeps the block it displaces on the other stack.
LEMMA MovedRecoverable ==
    ASSUME FileIInv, NEW f \in Mg, NEW g \in Mg, NEW text \in SavedText, Write(f, text),
           NEW from \in {"undo", "redo"}, NEW to \in {"undo", "redo"}, from # to,
           steps[f][from] # <<>>, Moved(f, from, to),
           live'[f] = Builds(text)
    PROVE  Recoverable(g)
  <1> DEFINE b == Generated(onDisk[f])
             pushed == Append(steps[f][to], b)
  <1>1. onDisk[f] \in SavedText /\ f \in Paths /\ FileTypeOK
    BY DEF FileIInv, FileTypeOK, Paths
  <1>2. \A h \in Mg : onDisk'[h] = IF h = f THEN text ELSE onDisk[h]
    BY <1>1, WrittenShape
  <1>3. b \in Block
    BY <1>1, TextShape
  <1>4. steps'[f][to] = pushed /\ \A h \in Mg : h # f => steps'[h] = steps[h]
    BY <1>3, MovedShape
  <1>5. steps[f][to] \in Seq(Block)
    BY DEF FileIInv, FileTypeOK
  <1>6. /\ pushed \in Seq(Block) /\ pushed # <<>>
        /\ Len(pushed) \in Nat /\ pushed[Len(pushed)] = b
    BY <1>3, <1>5, AppendProperties, LenProperties
  <1>7. CASE g = f
    <2>1. Top(pushed) = b
      BY <1>6 DEF Top, Seqs!Last
    <2>2. b \in {Top(steps'[f].undo), Top(steps'[f].redo)}
      <3>1. CASE to = "undo"
        BY <1>4, <2>1, <3>1
      <3>2. CASE to = "redo"
        BY <1>4, <2>1, <3>2
      <3> QED BY <3>1, <3>2
    <2> QED BY <1>2, <1>7, <2>2 DEF Recoverable
  <1>8. CASE g # f
    BY <1>1, <1>2, <1>4, <1>8, UntouchedRecoverable
  <1> QED BY <1>7, <1>8

-----------------------------------------------------------------------------
(* The files: the actions                                                   *)

\* A write and what it does to the stacks keep the invariant's parts.
LEMMA WritePushes ==
    ASSUME FileIInv, NEW f \in Mg, NEW text \in SavedText, Write(f, text),
           \/ PushUndoBlock(f, Generated(onDisk[f]))
           \/ steps' = steps
    PROVE  /\ DOMAIN onDisk' = Paths /\ \A g \in Mg : onDisk'[g] \in SavedText
           /\ steps' \in [Mg -> Stacks] /\ StacksFit'
  <1>1. onDisk[f] \in SavedText /\ f \in Paths /\ FileTypeOK
    BY DEF FileIInv, FileTypeOK, Paths
  <1>2. DOMAIN onDisk' = Paths /\ \A g \in Mg : onDisk'[g] \in SavedText
    BY <1>1, WrittenShape
  <1>3. Generated(onDisk[f]) \in Block
    BY <1>1, TextShape
  <1>4. steps' \in [Mg -> Stacks] /\ StacksFit'
    BY <1>3, PushedShape DEF FileIInv, FileTypeOK, StacksFit, Stacks
  <1> QED BY <1>2, <1>4

\* A save: the block displaced is an undo step, if the file was written.
LEMMA EvalKeeps ==
    ASSUME FileIInv, NEW f \in Mg, NEW c \in Edited, Eval(f, c)
    PROVE  FileIInv' /\ \A g \in Mg : Recoverable(g)
  <1> DEFINE structure == Toggled(live[f], c)
             text == Text(structure, onDisk[f].script)
  <1>1. /\ FileTypeOK /\ live \in [Mg -> SUBSET Comp]
        /\ snapshot' = snapshot /\ adopting' = adopting /\ edits' = edits
        /\ Persist(f, structure)
    BY DEF FileIInv, FileTypeOK, Eval
  <1>2. structure \in SUBSET Comp
    BY <1>1, FilesAssumption DEF Toggled
  <1>3. live' = [live EXCEPT ![f] = structure]
    BY DEF Eval
  <1> HIDE DEF structure
  <1>4. live' \in [Mg -> SUBSET Comp] /\ live'[f] = structure
    BY <1>1, <1>2, <1>3
  <1>5. CASE onDisk' = onDisk /\ steps' = steps
    <2>1. FileIInv'
      BY <1>1, <1>4, <1>5 DEF FileIInv, FileTypeOK, StacksFit
    <2> QED BY <1>1, <1>5, <2>1, UntouchedRecoverable
  <1>6. CASE /\ IsManagedText(onDisk[f])
             /\ onDisk[f].script \in SUBSET Comp
             /\ Write(f, text)
             /\ PushUndoBlock(f, Generated(onDisk[f]))
    <2>1. structure \in Block
      BY <1>2 DEF Block
    <2>2. text \in SavedText /\ Builds(text) = structure
      BY <1>2, <1>6, <2>1, ComposedShape
    <2> HIDE DEF text
    <2>3. FileIInv'
      <3>1. /\ DOMAIN onDisk' = Paths /\ \A g \in Mg : onDisk'[g] \in SavedText
            /\ steps' \in [Mg -> Stacks] /\ StacksFit'
        BY <1>6, <2>2, WritePushes
      <3> QED BY <1>1, <1>4, <3>1 DEF FileIInv, FileTypeOK, Stacks
    <2>4. live'[f] = Builds(text)
      BY <1>4, <2>2
    <2> QED BY <1>6, <2>2, <2>3, <2>4, PushedRecoverable
  <1> QED BY <1>1, <1>2, <1>5, <1>6, PersistedShape DEF text

\* An eval that fails changes what is live, and no file.
LEMMA EvalFailsKeeps ==
    ASSUME FileIInv, NEW f \in Mg, NEW c \in Edited, EvalFails(f, c)
    PROVE  FileIInv' /\ \A g \in Mg : Recoverable(g)
  <1>1. /\ FileTypeOK /\ live \in [Mg -> SUBSET Comp]
        /\ onDisk' = onDisk /\ steps' = steps /\ snapshot' = snapshot
        /\ adopting' = adopting /\ edits' = edits
        /\ live' = [live EXCEPT ![f] = Toggled(@, c)]
    BY DEF FileIInv, FileTypeOK, EvalFails, texts, history
  <1>2. Toggled(live[f], c) \in SUBSET Comp
    BY <1>1, FilesAssumption DEF Toggled
  <1>3. live' \in [Mg -> SUBSET Comp]
    BY <1>1, <1>2
  <1>4. FileIInv'
    BY <1>1, <1>3 DEF FileIInv, FileTypeOK, StacksFit
  <1> QED BY <1>1, <1>4, UntouchedRecoverable

\* Settings are saved in a file of their own.
LEMMA EvalSettingsKeeps ==
    ASSUME FileIInv, NEW value, EvalSettings(value)
    PROVE  FileIInv' /\ \A g \in Mg : Recoverable(g)
  <1>1. /\ FileTypeOK /\ steps' = steps /\ snapshot' = snapshot /\ live' = live
        /\ adopting' = adopting /\ edits' = edits
    BY DEF FileIInv, EvalSettings
  <1>2. Enterprise \in Paths /\ Enterprise \notin Mg
    BY FilesAssumption DEF Paths
  <1>3. DOMAIN onDisk' = Paths /\ \A g \in Mg : onDisk'[g] = onDisk[g]
    <2>1. CASE Write(Enterprise, value)
      BY <1>1, <1>2, <2>1, WrittenShape
    <2>2. CASE UNCHANGED <<texts, seen>>
      BY <1>1, <2>2 DEF texts, FileTypeOK
    <2> QED BY <2>1, <2>2 DEF EvalSettings
  <1>4. FileIInv'
    BY <1>1, <1>3 DEF FileIInv, FileTypeOK, StacksFit
  <1> QED BY <1>1, <1>3, <1>4, UntouchedRecoverable

\* An undo or a redo: the file, its microgrid and both stacks, or nothing.
LEMMA StepKeeps ==
    ASSUME FileIInv, NEW f \in Mg,
           NEW from \in {"undo", "redo"}, NEW to \in {"undo", "redo"}, from # to,
           Step(f, from, to)
    PROVE  /\ FileIInv' /\ \A g \in Mg : Recoverable(g)
           /\ Line(f)' = Line(f)
  <1>1. /\ FileTypeOK /\ onDisk[f] \in SavedText /\ f \in Paths
        /\ snapshot' = snapshot /\ adopting' = adopting /\ edits' = edits
        /\ steps[f].undo \in Seq(Block) /\ steps[f].redo \in Seq(Block)
    BY DEF FileIInv, FileTypeOK, Step, Paths
  <1>2. CASE UNCHANGED <<texts, world, steps, seen>>
    <2>1. onDisk' = onDisk /\ steps' = steps /\ live' = live
      BY <1>2 DEF texts, world
    <2>2. FileIInv'
      BY <1>1, <2>1 DEF FileIInv, FileTypeOK, StacksFit
    <2>3. Line(f)' = Line(f)
      BY <2>1 DEF Line
    <2> QED BY <1>1, <2>1, <2>2, <2>3, UntouchedRecoverable
  <1>3. ASSUME NEW text \in SavedText,
               IsManagedText(onDisk[f]), Write(f, text), ReloadFile(f, text),
               Generated(text) = Seqs!Last(steps[f][from]),
               steps[f][from] # <<>>, Moved(f, from, to)
        PROVE  /\ FileIInv' /\ \A g \in Mg : Recoverable(g)
               /\ Line(f)' = Line(f)
    <2> DEFINE b == Generated(onDisk[f])
    <2>1. b \in Block
      BY <1>1, TextShape
    <2> HIDE DEF b
    <2>2. /\ steps' \in [Mg -> Stacks] /\ StacksFit'
          /\ steps'[f][from] = Seqs!Front(steps[f][from])
          /\ steps'[f][to] = Append(steps[f][to], b)
      BY <1>3, <2>1, MovedShape DEF b
    <2>3. DOMAIN onDisk' = Paths /\ onDisk'[f] = text /\ \A g \in Mg : onDisk'[g] \in SavedText
      BY <1>1, <1>3, WrittenShape
    <2>4. live' \in [Mg -> SUBSET Comp] /\ live'[f] = Builds(text)
      BY <1>1, <1>3, ReloadedShape
    <2>5. FileIInv'
      BY <1>1, <2>2, <2>3, <2>4 DEF FileIInv, FileTypeOK, Stacks
    <2>6. \A g \in Mg : Recoverable(g)
      BY <1>3, <2>4, MovedRecoverable
    <2>7. Line(f)' = steps'[f].undo \o <<Seqs!Last(steps[f][from])>> \o Seqs!Reverse(steps'[f].redo)
      BY <1>3, <2>3 DEF Line
    <2>8. Line(f) = steps[f].undo \o <<b>> \o Seqs!Reverse(steps[f].redo)
      BY DEF Line, b
    <2> DEFINE u == steps[f].undo
               r == steps[f].redo
    <2>9. ASSUME from = "undo" /\ to = "redo"
          PROVE  Line(f)' = Line(f)
      <3>1. steps'[f].undo = Seqs!Front(u) /\ steps'[f].redo = Append(r, b) /\ u # <<>>
        BY <1>3, <2>2, <2>9
      <3>2. u \in Seq(Block) /\ r \in Seq(Block)
        BY <1>1
      <3>3. Line(f)' = Seqs!Front(u) \o <<Seqs!Last(u)>> \o Seqs!Reverse(Append(r, b))
        BY <2>7, <2>9, <3>1
      <3> HIDE DEF u, r
      <3>4. Line(f)' = u \o <<b>> \o Seqs!Reverse(r)
        BY <2>1, <3>1, <3>2, <3>3, MovedAlong
      <3> QED BY <2>8, <3>4 DEF u, r
    <2>10. ASSUME from = "redo" /\ to = "undo"
           PROVE  Line(f)' = Line(f)
      <3>1. steps'[f].redo = Seqs!Front(r) /\ steps'[f].undo = Append(u, b) /\ r # <<>>
        BY <1>3, <2>2, <2>10
      <3>2. u \in Seq(Block) /\ r \in Seq(Block)
        BY <1>1
      <3>3. Line(f)' = Append(u, b) \o <<Seqs!Last(r)>> \o Seqs!Reverse(Seqs!Front(r))
        BY <2>7, <2>10, <3>1
      <3> HIDE DEF u, r
      <3>4. Line(f)' = u \o <<b>> \o Seqs!Reverse(r)
        BY <2>1, <3>1, <3>2, <3>3, MovedAlong
      <3> QED BY <2>8, <3>4 DEF u, r
    <2> QED BY <2>5, <2>6, <2>9, <2>10
  <1> QED BY <1>2, <1>3, StepShape

\* A snapshot is a text a file had; to load one is a write like a save's.
LEMMA SnapshotKeeps ==
    ASSUME FileIInv, NEW f \in Mg, SaveSnapshot(f) \/ LoadSnapshot(f)
    PROVE  FileIInv' /\ \A g \in Mg : Recoverable(g)
  <1>1. /\ FileTypeOK /\ onDisk[f] \in SavedText
        /\ snapshot \in [Mg -> {Unset} \cup SavedText]
        /\ adopting' = adopting /\ edits' = edits
    BY DEF FileIInv, FileTypeOK, SaveSnapshot, LoadSnapshot
  <1>2. CASE SaveSnapshot(f)
    <2>1. /\ onDisk' = onDisk /\ steps' = steps /\ live' = live
          /\ snapshot' = [snapshot EXCEPT ![f] = onDisk[f]]
      BY <1>2 DEF SaveSnapshot, texts, world
    <2>2. snapshot' \in [Mg -> {Unset} \cup SavedText]
      BY <1>1, <2>1
    <2>3. FileIInv'
      BY <1>1, <2>1, <2>2 DEF FileIInv, FileTypeOK, StacksFit
    <2> QED BY <1>1, <2>1, <2>3, UntouchedRecoverable
  <1>3. CASE LoadSnapshot(f)
    <2> DEFINE text == snapshot[f]
    <2>1. /\ text \in SavedText /\ snapshot' = snapshot
          /\ Write(f, text) /\ ReloadFile(f, text)
          /\ \/ PushUndoBlock(f, Generated(onDisk[f]))
             \/ steps' = steps /\ ~IsManagedText(onDisk[f])
      BY <1>1, <1>3 DEF LoadSnapshot
    <2> HIDE DEF text
    <2>2. live' \in [Mg -> SUBSET Comp] /\ live'[f] = Builds(text)
      BY <1>1, <2>1, ReloadedShape
    <2>3. /\ DOMAIN onDisk' = Paths /\ \A g \in Mg : onDisk'[g] \in SavedText
          /\ steps' \in [Mg -> Stacks] /\ StacksFit'
      BY <2>1, WritePushes
    <2>4. FileIInv'
      BY <1>1, <2>1, <2>2, <2>3 DEF FileIInv, FileTypeOK, Stacks
    <2> QED BY <2>1, <2>2, <2>4, PushedRecoverable
  <1> QED BY <1>2, <1>3

\* An adoption reads, and writes later, as one more save.
LEMMA AdoptionKeeps ==
    ASSUME FileIInv, (\E f \in Mg : AdoptReads(f)) \/ AdoptWrites
    PROVE  FileIInv' /\ (adopting' = adopting => \A g \in Mg : Recoverable(g))
  <1>1. /\ FileTypeOK /\ live \in [Mg -> SUBSET Comp] /\ live' = live
        /\ adopting \in {Unset} \cup [file : Mg, text : SavedText]
        /\ steps' = steps /\ snapshot' = snapshot /\ edits' = edits
    BY DEF FileIInv, FileTypeOK, AdoptReads, AdoptWrites, world, history
  <1>2. ASSUME NEW f \in Mg, AdoptReads(f)
        PROVE  FileIInv' /\ \A g \in Mg : Recoverable(g)
    <2>1. adopting' = [file |-> f, text |-> Text(live[f], {})] /\ onDisk' = onDisk
      BY <1>2 DEF AdoptReads, texts
    <2>2. live[f] \in Block /\ {} \in SUBSET Comp
      BY <1>1 DEF Block
    <2>3. Text(live[f], {}) \in SavedText
      BY <2>2, ComposedShape
    <2>4. adopting' \in {Unset} \cup [file : Mg, text : SavedText]
      BY <2>1, <2>3
    <2>5. FileIInv'
      BY <1>1, <2>1, <2>4 DEF FileIInv, FileTypeOK, StacksFit
    <2> QED BY <1>1, <2>1, <2>5, UntouchedRecoverable
  <1>3. CASE AdoptWrites
    <2> DEFINE f == adopting.file
               text == adopting.text
    <2>1. adopting # Unset /\ adopting' = Unset /\ Write(f, text)
      BY <1>3 DEF AdoptWrites
    <2>2. f \in Mg /\ text \in SavedText
      BY <1>1, <2>1
    <2> HIDE DEF f, text
    <2>3. DOMAIN onDisk' = Paths /\ \A g \in Mg : onDisk'[g] \in SavedText
      BY <2>1, <2>2, WritePushes, <1>1
    <2>4. FileIInv'
      BY <1>1, <2>1, <2>3 DEF FileIInv, FileTypeOK, StacksFit
    <2> QED BY <2>1, <2>4
  <1> QED BY <1>2, <1>3

\* The watcher loads files, and writes none.
LEMMA WatchKeeps ==
    ASSUME FileIInv, Watch
    PROVE  FileIInv' /\ \A g \in Mg : Recoverable(g)
  <1>1. FileTypeOK /\ live \in [Mg -> SUBSET Comp]
    BY DEF FileIInv, FileTypeOK
  <1>2. /\ onDisk' = onDisk /\ steps' = steps /\ snapshot' = snapshot
        /\ adopting' = adopting /\ edits' = edits
    BY DEF Watch, TakeBatch, SkipOwn, FoundEdited, LoadEnterprise, ReloadDue, ReloadAll, Rearm,
           texts, history
  <1>3. live' \in [Mg -> SUBSET Comp]
    <2>1. CASE \/ TakeBatch \/ Rearm \/ LoadEnterprise
               \/ \E p \in Paths : SkipOwn(p) \/ FoundEdited(p)
      <3>1. live' = live
        BY <2>1 DEF TakeBatch, SkipOwn, FoundEdited, LoadEnterprise, Rearm, world
      <3> QED BY <1>1, <3>1
    <2>2. CASE ReloadDue
      <3>1. due \in Mg /\ ReloadFile(due, onDisk[due])
        BY <2>2 DEF ReloadDue
      <3>2. onDisk[due] \in SavedText
        BY <1>1, <3>1 DEF FileTypeOK
      <3> QED BY <1>1, <3>1, <3>2, ReloadedShape
    <2>3. CASE ReloadAll
      <3>1. \A f \in Mg : Builds(onDisk[f]) \in SUBSET Comp
        BY <1>1, TextShape DEF FileTypeOK
      <3>2. CASE onDisk[Enterprise] = Broken
        BY <1>1, <2>3, <3>2 DEF ReloadAll, world
      <3>3. CASE onDisk[Enterprise] # Broken
        <4> DEFINE reached == {Files[i] : i \in 1..Replayed}
        <4>1. live' = [f \in Mg |-> IF f \in reached THEN Builds(onDisk[f]) ELSE {}]
          BY <2>3, <3>3 DEF ReloadAll
        <4> HIDE DEF reached
        <4> QED BY <3>1, <4>1
      <3> QED BY <3>2, <3>3
    <2> QED BY <2>1, <2>2, <2>3 DEF Watch
  <1>4. FileIInv'
    BY <1>1, <1>2, <1>3 DEF FileIInv, FileTypeOK, StacksFit
  <1> QED BY <1>1, <1>2, <1>4, UntouchedRecoverable

\* A person saves what people save.
LEMMA HumanKeeps ==
    ASSUME FileIInv, NEW p \in Paths, NEW text, HumanSaves(p, text), p \in Mg => text \in SavedText
    PROVE  FileIInv' /\ edits' # edits
  <1>1. /\ FileTypeOK /\ live' = live /\ steps' = steps /\ snapshot' = snapshot
        /\ adopting' = adopting /\ edits' = edits + 1 /\ edits \in Nat
        /\ onDisk' = [onDisk EXCEPT ![p] = text]
    BY DEF FileIInv, FileTypeOK, HumanSaves, world, history
  <1>2. DOMAIN onDisk = Paths /\ \A g \in Mg : onDisk[g] \in SavedText
    BY <1>1 DEF FileTypeOK
  <1>3. DOMAIN onDisk' = Paths /\ \A g \in Mg : onDisk'[g] \in SavedText
    <2>1. DOMAIN onDisk' = Paths /\ \A g \in Paths : onDisk'[g] = IF g = p THEN text ELSE onDisk[g]
      BY <1>1, <1>2
    <2> QED BY <1>2, <2>1 DEF Paths
  <1>4. edits' \in Nat /\ edits' # edits
    BY <1>1
  <1> QED BY <1>1, <1>3, <1>4 DEF FileIInv, FileTypeOK, StacksFit

\* The files as they come are sound.
LEMMA FileInitSound == FileInit => FileIInv
  <1> SUFFICES ASSUME FileInit PROVE FileIInv
    OBVIOUS
  <1>1. {} \in Block /\ {} \in SUBSET Comp
    BY DEF Block
  <1>2. Text({}, {}) \in SavedText
    BY <1>1, ComposedShape
  <1>3. DOMAIN onDisk = Paths /\ \A f \in Mg : onDisk[f] \in SavedText
    BY <1>2 DEF FileInit, Paths
  <1>4. <<>> \in Seq(Block) /\ Len(<<>>) = 0
    BY EmptySeq
  <1>5. steps \in [Mg -> [undo : Seq(Block), redo : Seq(Block)]]
    BY <1>4 DEF FileInit
  <1>6. StacksFit
    <2> SUFFICES ASSUME NEW f \in Mg PROVE Len(steps[f].undo) + Len(steps[f].redo) <= Cap
      BY DEF StacksFit
    <2>1. steps[f].undo = <<>> /\ steps[f].redo = <<>>
      BY DEF FileInit
    <2> QED BY <1>4, <2>1, FilesAssumption
  <1>7. /\ live \in [Mg -> SUBSET Comp] /\ snapshot \in [Mg -> {Unset} \cup SavedText]
        /\ adopting \in {Unset} \cup [file : Mg, text : SavedText] /\ edits \in Nat
    BY DEF FileInit
  <1> QED BY <1>3, <1>5, <1>6, <1>7 DEF FileIInv, FileTypeOK

\* What each step does: the invariant, the history of a file an undo or a
\* redo moves along, and what a step of the program displaces.
LEMMA FileStep ==
    ASSUME FileIInv, [FileNext]_fileVars
    PROVE  /\ FileIInv'
           /\ \A f \in Mg : Undo(f) \/ Redo(f) => Line(f)' = Line(f)
           /\ edits' = edits /\ adopting' = adopting => \A f \in Mg : Recoverable(f)
  <1>1. \A f \in Mg : Undo(f) \/ Redo(f) => FileIInv' /\ Line(f)' = Line(f) /\ \A g \in Mg : Recoverable(g)
    <2> TAKE f \in Mg
    <2>1. "undo" \in {"undo", "redo"} /\ "redo" \in {"undo", "redo"} /\ "undo" # "redo"
      OBVIOUS
    <2>2. Undo(f) => FileIInv' /\ Line(f)' = Line(f) /\ \A g \in Mg : Recoverable(g)
      BY <2>1, StepKeeps DEF Undo
    <2>3. Redo(f) => FileIInv' /\ Line(f)' = Line(f) /\ \A g \in Mg : Recoverable(g)
      BY <2>1, StepKeeps DEF Redo
    <2> QED BY <2>2, <2>3
  <1> DEFINE Sound == FileIInv' /\ (edits' = edits /\ adopting' = adopting => \A f \in Mg : Recoverable(f))
  <1>2. ASSUME ProgramEdits
        PROVE  Sound
    <2>1. ASSUME NEW f \in Mg, NEW c \in Edited, Eval(f, c) \/ EvalFails(f, c)
          PROVE  Sound
      BY <2>1, EvalKeeps, EvalFailsKeeps
    <2>2. ASSUME NEW value \in {0, 1}, EvalSettings(value)
          PROVE  Sound
      BY <2>2, EvalSettingsKeeps
    <2>3. ASSUME NEW f \in Mg, Undo(f) \/ Redo(f)
          PROVE  Sound
      BY <1>1, <2>3
    <2>4. ASSUME NEW f \in Mg, SaveSnapshot(f) \/ LoadSnapshot(f)
          PROVE  Sound
      BY <2>4, SnapshotKeeps
    <2>5. ASSUME (\E f \in Mg : AdoptReads(f)) \/ AdoptWrites
          PROVE  Sound
      BY <2>5, AdoptionKeeps
    <2> HIDE DEF Sound
    <2> QED BY <1>2, <2>1, <2>2, <2>3, <2>4, <2>5 DEF ProgramEdits
  <1>3. ASSUME Watch
        PROVE  Sound
    BY <1>3, WatchKeeps
  <1>4. ASSUME NEW f \in Mg, NEW text \in Texts, HumanSaves(f, text)
        PROVE  Sound
    <2>1. f \in Paths /\ text \in SavedText
      BY FilesAssumption DEF Paths
    <2> QED BY <1>4, <2>1, HumanKeeps
  <1>5. ASSUME NEW p \in {Library, Enterprise}, NEW text, HumanSaves(p, text)
        PROVE  Sound
    <2>1. p \in Paths /\ p \notin Mg
      BY FilesAssumption DEF Paths
    <2> QED BY <1>5, <2>1, HumanKeeps
  <1>6. ASSUME UNCHANGED fileVars
        PROVE  Sound
    <2>1. /\ onDisk' = onDisk /\ steps' = steps /\ live' = live /\ snapshot' = snapshot
          /\ adopting' = adopting /\ edits' = edits
      BY <1>6 DEF fileVars, texts, world, history
    <2>2. FileIInv'
      BY <2>1 DEF FileIInv, FileTypeOK, StacksFit
    <2> QED BY <2>1, <2>2, UntouchedRecoverable DEF FileIInv
  <1> HIDE DEF Sound
  <1>7. Sound
    BY <1>2, <1>3, <1>4, <1>5, <1>6 DEF FileNext
  <1> QED BY <1>1, <1>7 DEF Sound

\* Whatever the program does to a file can be taken back, and an undo or a
\* redo loses nothing of its history (undo.rs:58, undo.rs:112,
\* overrides.rs:227): NothingOfAFileIsLost, for any files, components, texts
\* and any cap of the stacks.
THEOREM FilesAreKept == FileSpec => NothingOfAFileIsLost
  <1>1. FileIInv /\ [FileNext]_fileVars => FileIInv'
    BY FileStep
  <1>2. FileIInv /\ [FileNext]_fileVars =>
            [\A f \in Mg : Undo(f) \/ Redo(f) => Line(f)' = Line(f)]_fileVars
    BY FileStep
  <1>3. FileIInv /\ [FileNext]_fileVars =>
            [edits' = edits /\ adopting' = adopting => \A f \in Mg : Recoverable(f)]_fileVars
    BY FileStep
  <1> QED BY <1>1, <1>2, <1>3, FileInitSound, PTL
        DEF FileSpec, NothingOfAFileIsLost, StepsKeepHistory, DisplacedIsKept
=============================================================================
