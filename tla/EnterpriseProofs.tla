-------------------------- MODULE EnterpriseProofs --------------------------
(***************************************************************************)
(* Theorems of module Enterprise, for any number of ids, ports, requests    *)
(* and scripts, and any ring, of module Loopback, for any streams and any   *)
(* bus, and of module EventPush, for any ids, rings and channel; without    *)
(* regard to their bounds.                                                  *)
(***************************************************************************)
EXTENDS Enterprise, Loopback, EventPush,
        FiniteSetTheorems, SequenceTheorems, WellFoundedInduction, TLAPS

-----------------------------------------------------------------------------
(* Counts *)

\* A non-empty set of naturals has a least member, and Min is one of it.
LEMMA MinIsMember ==
    ASSUME NEW T \in SUBSET Nat, T # {}
    PROVE  Min(T) \in T
  <1> DEFINE R == OpToRel(<, Nat)
  <1>1. PICK m \in T : \A n \in T : ~(<<n, m>> \in R)
    BY NatLessThanWellFounded, WFMin
  <1>2. \A n \in T : ~(n < m)
    BY <1>1 DEF OpToRel
  <1>3. \A n \in T : m <= n
    BY <1>2
  <1> QED BY <1>3 DEF Min

\* What a count hands out is of its range, and free unless it is the last.
LEMMA FirstFreeShape ==
    ASSUME NEW range \in SUBSET Nat, NEW last \in range, \A i \in range : i <= last,
           NEW taken
    PROVE  /\ FirstFree(range, taken) \in range
           /\ FirstFree(range, taken) \notin taken \/ FirstFree(range, taken) = Max(range)
  <1>1. Max(range) \in range
    BY DEF Max
  <1>2. CASE range \ taken = {}
    BY <1>1, <1>2 DEF FirstFree
  <1>3. CASE range \ taken # {}
    BY <1>3, MinIsMember DEF FirstFree
  <1> QED BY <1>2, <1>3

LEMMA NextFreeShape ==
    /\ NextFreeId \in Id
    /\ NextFreePort \in Port
    /\ \/ NextFreePort = Max(Port)
       \/ /\ NextFreePort \notin Reserved
          /\ \A i \in Registered : entries[i].port # NextFreePort
  <1> DEFINE taken == {entries[i].port : i \in Registered} \cup Reserved
  <1>1. NextFreeId \in Id
    BY CountAssumption, FirstFreeShape DEF NextFreeId
  <1>2. FirstFree(Port, taken) \in Port
        /\ (FirstFree(Port, taken) \notin taken \/ FirstFree(Port, taken) = Max(Port))
    <2> HIDE DEF taken
    <2> QED BY CountAssumption, FirstFreeShape
  <1> QED BY <1>1, <1>2 DEF NextFreePort

-----------------------------------------------------------------------------
(* What one make-microgrid does to the registry *)

\* The entry declared: its port is claimable, the last one or the one it had.
LEMMA DeclaredShape ==
    ASSUME TypeOK, NEW id \in Id, NEW port \in Port \cup {None}, NEW source \in Source,
           ~Refused(id, port, source),
           NEW e, e = Declared(id, port, source)
    PROVE  /\ e \in Entry /\ e.source = source
           /\ \/ Claimable(id, e.port)
              \/ e.port = Max(Port)
              \/ id \in Registered /\ e.port = entries[id].port
           /\ id \in Registered =>
                  /\ e.site = entries[id].site /\ entries[id].source = source
                  /\ Pinned(id) => e.port = entries[id].port
           /\ id \notin Registered => e.site = sites + 1
  <1>1. CASE id \in Registered
    <2>1. entries[id] \in Entry
      BY <1>1 DEF TypeOK
    <2>2. e = [port |-> ReusePort(id, port), site |-> entries[id].site, source |-> source]
      BY <1>1 DEF Declared
    <2>3. ReusePort(id, port) \in Port
      BY <2>1 DEF ReusePort, Entry
    <2>4. ReusePort(id, port) = entries[id].port \/ Claimable(id, ReusePort(id, port))
      BY <1>1 DEF Refused, ReusePort
    <2>5. entries[id].source = source
      BY <1>1 DEF Refused, SamePlace
    <2>6. Pinned(id) => ReusePort(id, port) = entries[id].port
      BY DEF ReusePort
    <2> QED BY <1>1, <2>1, <2>2, <2>3, <2>4, <2>5, <2>6 DEF Entry
  <1>2. CASE id \notin Registered
    <2> DEFINE p == IF port = None THEN NextFreePort ELSE port
    <2>1. e = [port |-> p, site |-> sites + 1, source |-> source]
      BY <1>2 DEF Declared
    <2>2. p \in Port
      BY NextFreeShape
    <2>3. p = Max(Port) \/ Claimable(id, p)
      <3>1. CASE port = None
        BY <1>2, <3>1, NextFreeShape DEF Claimable
      <3>2. CASE port # None
        BY <1>2, <3>2 DEF Refused
      <3> QED BY <3>1, <3>2
    <2> HIDE DEF p
    <2> QED BY <1>2, <2>1, <2>2, <2>3 DEF Entry, TypeOK
  <1> QED BY <1>1, <1>2

\* An insert changes the one entry it declares.
LEMMA InsertShape ==
    ASSUME TypeOK, NEW id \in Id, NEW port \in Port \cup {None}, NEW source \in Source,
           NEW by, Insert(id, port, source, by)
    PROVE  /\ Registered' = Registered \cup {id} /\ entries' \in [Registered' -> Entry]
           /\ \A i \in Registered \ {id} : entries'[i] = entries[i]
           /\ entries'[id] = Declared(id, port, source)
  <1>1. entries' = Extended(entries, id, Declared(id, port, source))
    BY DEF Insert
  <1>2. Declared(id, port, source) \in Entry
    BY DeclaredShape DEF Insert
  <1> HIDE DEF Entry
  <1> QED BY <1>1, <1>2 DEF Extended, TypeOK, Registered

-----------------------------------------------------------------------------
(* Steps that leave a part of the state alone *)

RegistryPart ==
    PortsApart /\ MakeIsItsOwn /\ AnnouncedExist /\ NoOrphanFiles

RuntimePart ==
    AttemptIsNewest /\ ServersAreOfAttempts /\ RunningHasServer

\* What the interpreter and the handlers have not changed stays sound.
LEMMA RegistryFrame ==
    ASSUME RegistryPart, UNCHANGED <<entries, disk, interp, announced, handlers>>
    PROVE  RegistryPart'
  <1>1. UNCHANGED <<entries, disk, interp, announced, request, creating, Registered>>
    BY DEF handlers, Registered
  <1> QED BY <1>1 DEF RegistryPart, PortsApart, Claimable, MakeIsItsOwn, AnnouncedExist,
                      NoOrphanFiles

LEMMA RuntimeFrame ==
    ASSUME RuntimePart, UNCHANGED running
    PROVE  RuntimePart'
  BY DEF RuntimePart, running, AttemptIsNewest, ServersAreOfAttempts, RunningHasServer

\* The runtimes serve what they served as long as no port moves under them.
LEMMA ServesFrame ==
    ASSUME ServesItsPort, SitesAreCounted, UNCHANGED <<entries, sites, runtimes, starting>>
    PROVE  ServesItsPort' /\ SitesAreCounted'
  BY DEF ServesItsPort, SitesAreCounted, Registered

-----------------------------------------------------------------------------
(* The interpreter *)

\* The ports stay apart when one is declared.
LEMMA InsertKeepsPorts ==
    ASSUME IInv, NEW id \in Id, NEW port \in Port \cup {None}, NEW source \in Source,
           NEW by, Insert(id, port, source, by)
    PROVE  PortsApart'
  <1> DEFINE e == Declared(id, port, source)
  <1>1. /\ Registered' = Registered \cup {id}
        /\ \A i \in Registered \ {id} : entries'[i] = entries[i]
        /\ entries'[id] = e
    BY InsertShape DEF IInv
  <1>2. /\ \/ Claimable(id, e.port)
           \/ e.port = Max(Port)
           \/ id \in Registered /\ e.port = entries[id].port
    BY DeclaredShape DEF IInv, Insert
  <1>3. e.port = Max(Port) \/ Claimable(id, e.port)
    BY <1>2 DEF IInv, PortsApart
  <1> HIDE DEF e
  <1>4. ASSUME NEW i \in Registered', entries'[i].port # Max(Port)
        PROVE  /\ \A other \in Registered' \ {i} : entries'[other].port # entries'[i].port
               /\ entries'[i].port \notin Reserved
    <2>1. CASE i = id
      <3>1. Claimable(id, e.port)
        BY <1>1, <1>3, <1>4, <2>1
      <3> QED BY <1>1, <2>1, <3>1 DEF Claimable
    <2>2. CASE i # id
      <3>1. i \in Registered /\ entries'[i] = entries[i]
        BY <1>1, <2>2
      <3>2. Claimable(i, entries[i].port) /\ entries[i].port # Max(Port)
        BY <1>4, <3>1 DEF IInv, PortsApart
      <3>3. e.port # entries[i].port
        BY <1>3, <2>2, <3>1, <3>2 DEF Claimable
      <3> QED BY <1>1, <2>2, <3>1, <3>2, <3>3 DEF Claimable
    <2> QED BY <2>1, <2>2
  <1> QED BY <1>4 DEF PortsApart, Claimable

\* A port only moves under a runtime that was never bound and is not starting.
LEMMA InsertKeepsServed ==
    ASSUME IInv, NEW id \in Id, NEW port \in Port \cup {None}, NEW source \in Source,
           NEW by, Insert(id, port, source, by)
    PROVE  ServesItsPort' /\ SitesAreCounted'
  <1> DEFINE e == Declared(id, port, source)
  <1>1. /\ Registered' = Registered \cup {id}
        /\ \A i \in Registered \ {id} : entries'[i] = entries[i]
        /\ entries'[id] = e
    BY InsertShape DEF IInv
  <1>2. /\ id \in Registered =>
               /\ e.site = entries[id].site
               /\ Pinned(id) => e.port = entries[id].port
        /\ id \notin Registered => e.site = sites + 1
    BY DeclaredShape DEF IInv, Insert
  <1>3. /\ UNCHANGED <<runtimes, starting>>
        /\ sites' = IF id \in Registered THEN sites ELSE sites + 1
    BY DEF Insert, running
  <1> HIDE DEF e
  <1>4. sites \in Nat /\ \A i \in DOMAIN runtimes : runtimes[i].site \in Nat
    BY DEF IInv, TypeOK, State
  <1>5. \A i \in Registered : entries[i].site \in Nat
    BY DEF IInv, TypeOK, Entry
  <1>6. SitesAreCounted'
    BY <1>1, <1>2, <1>3, <1>4, <1>5 DEF IInv, SitesAreCounted
  <1>7. ASSUME NEW i \in Registered' \cap DOMAIN runtimes,
               runtimes[i].site = entries'[i].site
        PROVE  /\ runtimes[i].addr \in {None, entries'[i].port}
               /\ starting # None /\ starting.id = i => starting.addr = entries'[i].port
    <2>1. i \in Registered /\ runtimes[i].site = entries[i].site
      BY <1>1, <1>2, <1>4, <1>7 DEF IInv, SitesAreCounted
    <2>2. CASE i # id \/ Pinned(id)
      <3>1. entries'[i].port = entries[i].port
        BY <1>1, <1>2, <2>1, <2>2
      <3> QED BY <1>7, <2>1, <3>1 DEF IInv, ServesItsPort
    <2>3. CASE i = id /\ ~Pinned(id)
      <3>1. runtimes[i].addr = None /\ runtimes[i].status # "starting"
        BY <1>7, <2>3 DEF Pinned
      <3>2. starting # None => starting.addr # None /\ starting.at \in {"bind", "spawn"}
        BY NoneIsNothing DEF IInv, TypeOK, Attempt
      <3>3. ~(starting # None /\ starting.id = i)
        BY <3>1, <3>2 DEF IInv, AttemptIsNewest
      <3> QED BY <3>1, <3>3
    <2> QED BY <2>2, <2>3
  <1> QED BY <1>3, <1>6, <1>7 DEF ServesItsPort

\* A managed source is neither the REPL nor a script.
LEMMA SourcesDiffer ==
    ASSUME NEW i, NEW s
    PROVE  <<"repl">> # Managed(i) /\ <<"script", s>> # Managed(i)
  BY DEF Managed

\* Whoever has a microgrid declared, in one's own name or for a create, leaves
\* everything sound.
LEMMA InsertKeeps ==
    ASSUME IInv, NEW id \in Id, NEW port \in Port \cup {None}, NEW source \in Source,
           NEW by \in Requests \cup {None}, Insert(id, port, source, by),
           creating' = creating,
           \/ by = None /\ source # Managed(id) /\ request' = request
           \/ /\ by # None /\ source = Managed(id)
              /\ request[by].at = "written" /\ request[by].id = id
              /\ request' = [request EXCEPT ![by].at = "loading"]
    PROVE  IInv'
  <1>1. /\ Registered' = Registered \cup {id} /\ entries' \in [Registered' -> Entry]
        /\ \A i \in Registered \ {id} : entries'[i] = entries[i]
        /\ entries'[id].source = source
    BY InsertShape, DeclaredShape DEF IInv, Insert
  <1>2. /\ interp = None /\ interp' = [id |-> id, reused |-> id \in Registered, by |-> by]
        /\ UNCHANGED <<disk, announced, listening, running>>
        /\ sites' \in {sites, sites + 1}
        /\ id \in Registered => entries[id].source = source
    BY DEF Insert, Refused, SamePlace
  <1>3. /\ \A r \in Requests : /\ request'[r].id = request[r].id
                               /\ request'[r].port = request[r].port
                               /\ r # by => request'[r] = request[r]
        /\ by # None => by \in Requests /\ request'[by].at = "loading"
        /\ request' \in [Requests -> Creation]
    BY NoneIsNothing DEF IInv, TypeOK, Creation
  <1>4. TypeOK'
    <2>1. interp' \in Make /\ interp' # None
      <3>1. (id \in Registered) \in BOOLEAN
        OBVIOUS
      <3>2. interp' \in Make
        BY <1>2, <3>1 DEF Make
      <3> QED BY <3>2, NoneIsNothing
    <2>2. sites' \in Nat
      BY <1>2 DEF IInv, TypeOK
    <2>3. Registered' \subseteq Id
      BY <1>1 DEF IInv, TypeOK
    <2>4. UNCHANGED <<disk, announced, listener, bus, lagged, todo, runtimes, starting,
                      servers, ended, creating>>
      BY <1>2 DEF listening, running
    <2> QED BY <1>1, <1>3, <2>1, <2>2, <2>3, <2>4 DEF IInv, TypeOK
  <1>5. PortsApart' /\ ServesItsPort' /\ SitesAreCounted'
    BY InsertKeepsPorts, InsertKeepsServed
  <1>6. MakeIsItsOwn'
    <2>1. \A r \in Requests : request'[r].at \in {"written", "loading"} =>
              request[r].at \in {"written", "loading"}
      BY <1>3
    <2>2. \A r \in Requests : request'[r].at \in {"written", "loading"} =>
              /\ creating' = r /\ request'[r].id \in Id /\ request'[r].port \in Port
      <3>1. \A r \in Requests : request[r].at \in {"written", "loading"} =>
                creating = r /\ request[r].id \in Id /\ request[r].port \in Port
        BY DEF IInv, MakeIsItsOwn
      <3> QED BY <1>3, <2>1, <3>1
    <2>3. id \notin Registered => id \notin announced'
      BY <1>2 DEF IInv, AnnouncedExist
    <2>4. interp'.id = id /\ interp'.by = by
      BY <1>2
    <2>5. ~interp'.reused => id \notin Registered
      BY <1>2
    <2>6. by # None => request'[by].id = id /\ source = Managed(id)
      <3>1. by # None => source = Managed(id) /\ request[by].id = id
        OBVIOUS
      <3> QED BY <1>3, <3>1
    <2>7. interp'.id \in Registered' /\ entries'[interp'.id].source = source
      BY <1>1, <2>4
    <2>8. ~interp'.reused => interp'.id \notin announced'
      BY <2>3, <2>4, <2>5
    <2>9. IF interp'.by = None
          THEN ~interp'.reused => entries'[interp'.id].source # Managed(interp'.id)
          ELSE /\ request'[interp'.by].at = "loading"
               /\ request'[interp'.by].id = interp'.id
               /\ entries'[interp'.id].source = Managed(interp'.id)
      BY <1>3, <2>4, <2>6, <2>7
    <2> QED BY <2>2, <2>7, <2>8, <2>9 DEF MakeIsItsOwn
  <1>7. AnnouncedExist' /\ NoOrphanFiles'
    <2>1. \A i \in Registered : entries'[i].source = entries[i].source
      BY <1>1, <1>2
    <2>2. creating # None => request'[creating].id = request[creating].id
      BY <1>3 DEF IInv, TypeOK
    <2> QED BY <1>1, <1>2, <2>1, <2>2 DEF IInv, AnnouncedExist, NoOrphanFiles
  <1>8. RuntimePart'
    BY <1>2, RuntimeFrame DEF IInv, RuntimePart
  <1>9. AnnouncedAreKnown'
    BY <1>2 DEF IInv, AnnouncedAreKnown, listening, running
  <1> QED BY <1>4, <1>5, <1>6, <1>7, <1>8, <1>9 DEF IInv, RuntimePart

\* A build that ends announces the microgrid and lets go of the create.
LEMMA EndLoadShape ==
    ASSUME TypeOK, NEW by \in Requests \cup {None}, NEW id, NEW loaded \in BOOLEAN,
           EndLoad(by, id, loaded)
    PROVE  /\ request' \in [Requests -> Creation]
           /\ creating' \in {creating, None} /\ (by # None => creating' = None)
           /\ \A r \in Requests : /\ request'[r].id = request[r].id
                                  /\ request'[r].port = request[r].port
                                  /\ r # by => request'[r] = request[r]
           /\ by # None => request'[by].at \in {"loaded", "refused"}
           /\ by = None => request' = request /\ creating' = creating
           /\ disk' = IF by # None /\ ~loaded THEN disk \ {id} ELSE disk
  <1>1. CASE by = None
    BY <1>1 DEF EndLoad, handlers, TypeOK
  <1>2. CASE by # None
    <2>1. request' = [request EXCEPT ![by].at = IF loaded THEN "loaded" ELSE "refused"]
      BY <1>2 DEF EndLoad
    <2>2. by \in Requests
      BY <1>2
    <2> QED BY <1>2, <2>1, <2>2 DEF EndLoad, TypeOK, Creation
  <1> QED BY <1>1, <1>2

\* A listener that lost nothing has what it had on its ring, and id.
OnRing(id) ==
    listener # "off" /\ ~lagged' =>
        /\ \A k \in 1..Len(bus) : k \in 1..Len(bus') /\ bus'[k] = bus[k]
        /\ \E k \in 1..Len(bus') : bus'[k] = id

\* The ring of announcements keeps the newest ones.
LEMMA AnnounceShape ==
    ASSUME TypeOK, NEW id \in Id, Announce(id)
    PROVE  /\ announced' = announced \cup {id}
           /\ bus' \in Seq(Id) /\ lagged' \in BOOLEAN /\ UNCHANGED <<listener, todo>>
           /\ lagged => lagged'
           /\ OnRing(id)
  <1>1. CASE listener = "off"
    BY <1>1 DEF Announce, TypeOK, OnRing
  <1>2. CASE listener # "off" /\ Len(bus) = Ring
    <2>1. bus # <<>>
      BY <1>2, RingAssumption DEF TypeOK
    <2>2. Tail(bus) \in Seq(Id)
      BY <2>1 DEF TypeOK
    <2>3. bus' = Append(Tail(bus), id) /\ lagged' = TRUE /\ announced' = announced \cup {id}
          /\ UNCHANGED <<listener, todo>>
      BY <1>2 DEF Announce
    <2> QED BY <1>2, <2>2, <2>3 DEF OnRing
  <1>3. CASE listener # "off" /\ Len(bus) # Ring
    <2>1. bus' = Append(bus, id) /\ lagged' = lagged
      BY <1>3 DEF Announce, TypeOK
    <2>2. /\ bus' \in Seq(Id) /\ Len(bus') = Len(bus) + 1 /\ bus'[Len(bus) + 1] = id
          /\ \A k \in 1..Len(bus) : bus'[k] = bus[k]
          /\ Len(bus) \in Nat
      BY <2>1 DEF TypeOK
    <2> QED BY <1>3, <2>1, <2>2 DEF Announce, TypeOK, OnRing
  <1> QED BY <1>1, <1>2, <1>3

\* An ask is for an id and a port, or leaves them open.
LEMMA AskShape ==
    ASSUME NEW ask \in Asks
    PROVE  ask[1] \in Id \cup {None} /\ ask[2] \in Port \cup {None}
  BY AskAssumption

LEMMA MakeAtReplKeeps ==
    ASSUME IInv, NEW ask \in Asks, MakeAtRepl(ask[1], ask[2])
    PROVE  IInv'
  <1> DEFINE id == IF ask[1] = None THEN NextFreeId ELSE ask[1]
  <1>1. id \in Id /\ ask[2] \in Port \cup {None}
    BY AskShape, NextFreeShape
  <1>2. /\ Insert(id, ask[2], <<"repl">>, None)
        /\ UNCHANGED <<request, creating>>
    BY DEF MakeAtRepl, handlers
  <1>3. <<"repl">> \in Source /\ <<"repl">> # Managed(id)
    BY SourcesDiffer DEF Source
  <1> HIDE DEF id
  <1> QED BY <1>1, <1>2, <1>3, InsertKeeps

LEMMA LoadScriptKeeps ==
    ASSUME IInv, NEW ask \in Asks, NEW s \in Scripts, ask[1] # None,
           LoadScript(s, ask[1], ask[2])
    PROVE  IInv'
  <1>1. ask[1] \in Id /\ ask[2] \in Port \cup {None}
    BY AskShape
  <1>2. /\ Insert(ask[1], ask[2], <<"script", s>>, None)
        /\ UNCHANGED <<request, creating>>
    BY DEF LoadScript, handlers
  <1>3. <<"script", s>> \in Source /\ <<"script", s>> # Managed(ask[1])
    BY SourcesDiffer DEF Source
  <1> QED BY <1>1, <1>2, <1>3, InsertKeeps

LEMMA LoadCreatedKeeps ==
    ASSUME IInv, NEW r \in Requests, LoadCreated(r)
    PROVE  IInv'
  <1>1. /\ request[r].at = "written" /\ creating' = creating
        /\ Insert(request[r].id, request[r].port, Managed(request[r].id), r)
        /\ request' = [request EXCEPT ![r].at = "loading"]
    BY DEF LoadCreated
  <1>2. request[r].id \in Id /\ request[r].port \in Port
    BY <1>1 DEF IInv, MakeIsItsOwn
  <1>3. Managed(request[r].id) \in Source
    BY <1>2 DEF Source
  <1>4. r # None
    BY NoneIsNothing
  <1> QED BY <1>1, <1>2, <1>3, <1>4, InsertKeeps

LEMMA BuildKeeps ==
    ASSUME IInv, Build
    PROVE  IInv'
  <1> DEFINE id == interp.id
             by == interp.by
  <1>1. /\ interp # None /\ interp' = None
        /\ Announce(id) /\ EndLoad(by, id, TRUE)
        /\ UNCHANGED <<entries, sites, running>>
    BY DEF Build
  <1>2. interp \in Make /\ id \in Id /\ by \in Requests \cup {None} /\ id \in Registered
    BY <1>1 DEF IInv, TypeOK, Make, MakeIsItsOwn
  <1>3. UNCHANGED <<runtimes, starting, servers, ended, Registered>>
    BY <1>1 DEF running, Registered
  <1>4. /\ announced' = announced \cup {id}
        /\ bus' \in Seq(Id) /\ lagged' \in BOOLEAN /\ UNCHANGED <<listener, todo>>
        /\ lagged => lagged'
        /\ OnRing(id)
    BY <1>1, <1>2, AnnounceShape DEF IInv
  <1>5. /\ request' \in [Requests -> Creation] /\ disk' = disk
        /\ creating' \in {creating, None} /\ (by # None => creating' = None)
        /\ by = None => request' = request /\ creating' = creating
        /\ by # None => request'[by].at \in {"loaded", "refused"}
    BY <1>1, <1>2, EndLoadShape DEF IInv
  <1>6. \A r \in Requests : request'[r].id = request[r].id /\ request'[r].port = request[r].port
    BY <1>1, <1>2, EndLoadShape DEF IInv
  <1>7. \A r \in Requests : r # by => request'[r] = request[r]
    BY <1>1, <1>2, EndLoadShape DEF IInv
  <1>8. by # None => /\ request[by].at = "loading" /\ creating = by
                     /\ request[by].id = id /\ entries[id].source = Managed(id)
    BY <1>1, <1>2 DEF IInv, MakeIsItsOwn
  <1> HIDE DEF id, by
  <1>9. TypeOK'
    BY <1>1, <1>2, <1>3, <1>4, <1>5 DEF IInv, TypeOK
  <1>10. MakeIsItsOwn'
    <2>1. ASSUME NEW r \in Requests, request'[r].at \in {"written", "loading"}
          PROVE  creating' = r /\ request'[r].id \in Id /\ request'[r].port \in Port
      <3>1. r # by
        BY <1>5, <2>1, NoneIsNothing
      <3>2. creating = r /\ request[r].id \in Id /\ request[r].port \in Port
        BY <1>7, <2>1, <3>1 DEF IInv, MakeIsItsOwn
      <3>3. by = None
        BY <1>8, <3>1, <3>2
      <3> QED BY <1>5, <3>2, <3>3
    <2> QED BY <1>1, <2>1 DEF MakeIsItsOwn
  <1>11. PortsApart' /\ AnnouncedExist' /\ ServesItsPort' /\ SitesAreCounted'
    BY <1>1, <1>2, <1>3, <1>4, ServesFrame
       DEF IInv, PortsApart, Claimable, AnnouncedExist
  <1>12. NoOrphanFiles'
    <2>1. ASSUME NEW i \in disk, ~(i \in Registered /\ entries[i].source = Managed(i))
          PROVE  creating' # None /\ request'[creating'].id = i
      <3>1. creating # None /\ request[creating].id = i
        BY <2>1 DEF IInv, NoOrphanFiles
      <3>2. by = None
        BY <1>2, <1>8, <2>1, <3>1
      <3> QED BY <1>5, <3>1, <3>2
    <2> QED BY <1>1, <1>3, <1>5, <2>1 DEF NoOrphanFiles
  <1>13. RuntimePart'
    BY <1>1, RuntimeFrame DEF IInv, RuntimePart
  <1>14. AnnouncedAreKnown'
    <2>1. ASSUME listener = "live", ~lagged', NEW i \in announced'
          PROVE  i \in DOMAIN runtimes \cup todo \/ \E k \in 1..Len(bus') : bus'[k] = i
      <3>1. CASE i = id
        BY <1>4, <2>1, <3>1 DEF OnRing
      <3>2. CASE i # id
        <4>1. i \in announced /\ ~lagged
          BY <1>4, <2>1, <3>2
        <4>2. i \in DOMAIN runtimes \cup todo \/ \E k \in 1..Len(bus) : bus[k] = i
          BY <2>1, <4>1 DEF IInv, AnnouncedAreKnown
        <4> QED BY <1>4, <2>1, <4>2 DEF OnRing
      <3> QED BY <3>1, <3>2
    <2> QED BY <1>3, <1>4, <2>1 DEF AnnouncedAreKnown
  <1> QED BY <1>9, <1>10, <1>11, <1>12, <1>13, <1>14 DEF IInv, RuntimePart

\* A topology that fails takes away only a microgrid nobody was told of, and
\* the file of its own create.
LEMMA FailToBuildKeeps ==
    ASSUME IInv, FailToBuild
    PROVE  IInv'
  <1> DEFINE id == interp.id
             by == interp.by
  <1>1. /\ interp # None /\ interp' = None
        /\ entries' = IF interp.reused THEN entries ELSE Restrict(entries, Registered \ {id})
        /\ EndLoad(by, id, FALSE)
        /\ UNCHANGED <<sites, announced, listening, running>>
    BY DEF FailToBuild
  <1>2. /\ Registered' \subseteq Registered /\ entries' \in [Registered' -> Entry]
        /\ \A i \in Registered' : entries'[i] = entries[i]
        /\ \A i \in Registered \ Registered' : i = id /\ ~interp.reused
    BY <1>1 DEF Restrict, Registered, IInv, TypeOK
  <1>3. /\ ~interp.reused => id \notin announced
        /\ ~interp.reused /\ by = None => entries[id].source # Managed(id)
    BY <1>1 DEF IInv, MakeIsItsOwn
  <1>4. UNCHANGED <<listener, bus, lagged, todo, runtimes, starting, servers, ended>>
    BY <1>1 DEF listening, running
  <1>5. interp \in Make /\ by \in Requests \cup {None}
    BY <1>1 DEF IInv, TypeOK, Make
  <1>6. /\ request' \in [Requests -> Creation]
        /\ creating' \in {creating, None} /\ (by # None => creating' = None)
        /\ by = None => request' = request /\ creating' = creating
        /\ by # None => request'[by].at \in {"loaded", "refused"}
        /\ disk' = IF by # None THEN disk \ {id} ELSE disk
        /\ \A r \in Requests : r # by => request'[r] = request[r]
    BY <1>1, <1>5, EndLoadShape DEF IInv
  <1>7. by # None => creating = by /\ request[by].id = id
    BY <1>1, <1>5 DEF IInv, MakeIsItsOwn
  <1> HIDE DEF id, by
  <1>8. TypeOK'
    BY <1>1, <1>2, <1>4, <1>6 DEF IInv, TypeOK
  <1>9. PortsApart' /\ ServesItsPort' /\ SitesAreCounted'
    <2>1. PortsApart'
      BY <1>2 DEF IInv, PortsApart, Claimable
    <2>2. ServesItsPort' /\ SitesAreCounted'
      BY <1>1, <1>2, <1>4 DEF IInv, ServesItsPort, SitesAreCounted
    <2> QED BY <2>1, <2>2
  <1>10. MakeIsItsOwn'
    <2>1. ASSUME NEW r \in Requests, request'[r].at \in {"written", "loading"}
          PROVE  creating' = r /\ request'[r].id \in Id /\ request'[r].port \in Port
      <3>1. r # by
        BY <1>6, <2>1, NoneIsNothing
      <3>2. creating = r /\ request[r].id \in Id /\ request[r].port \in Port
        BY <1>6, <2>1, <3>1 DEF IInv, MakeIsItsOwn
      <3>3. by = None
        BY <1>7, <3>1, <3>2
      <3> QED BY <1>6, <3>2, <3>3
    <2> QED BY <1>1, <2>1 DEF MakeIsItsOwn
  <1>11. AnnouncedExist'
    BY <1>1, <1>2, <1>3 DEF IInv, AnnouncedExist
  <1>12. NoOrphanFiles'
    <2>1. ASSUME NEW i \in disk', ~(i \in Registered' /\ entries'[i].source = Managed(i))
          PROVE  creating' # None /\ request'[creating'].id = i
      <3>1. i \in disk /\ (by # None => i # id)
        BY <1>6, <2>1
      <3>2. ~(i \in Registered /\ entries[i].source = Managed(i))
        BY <1>2, <1>3, <2>1, <3>1
      <3>3. creating # None /\ request[creating].id = i
        BY <3>1, <3>2 DEF IInv, NoOrphanFiles
      <3>4. by = None
        BY <1>7, <3>1, <3>3
      <3> QED BY <1>6, <3>3, <3>4
    <2> QED BY <2>1 DEF NoOrphanFiles
  <1>13. RuntimePart' /\ AnnouncedAreKnown'
    BY <1>1, <1>4, RuntimeFrame DEF IInv, RuntimePart, AnnouncedAreKnown
  <1> QED BY <1>8, <1>9, <1>10, <1>11, <1>12, <1>13 DEF IInv, RuntimePart

-----------------------------------------------------------------------------
(* The handlers *)

\* What a step of a handler alone leaves alone.
LEMMA HandlerFrame ==
    ASSUME IInv, UNCHANGED <<entries, interp, sites, announced, listening, running>>
    PROVE  /\ UNCHANGED <<listener, bus, lagged, todo, runtimes, starting, servers, ended,
                           Registered>>
           /\ PortsApart' /\ AnnouncedExist' /\ ServesItsPort' /\ SitesAreCounted'
           /\ RuntimePart' /\ AnnouncedAreKnown'
  <1>1. UNCHANGED <<listener, bus, lagged, todo, runtimes, starting, servers, ended, Registered>>
    BY DEF listening, running, Registered
  <1>2. PortsApart' /\ AnnouncedExist' /\ ServesItsPort' /\ SitesAreCounted'
    BY <1>1, ServesFrame DEF IInv, PortsApart, Claimable, AnnouncedExist
  <1>3. RuntimePart' /\ AnnouncedAreKnown'
    BY <1>1, RuntimeFrame DEF IInv, RuntimePart, AnnouncedAreKnown
  <1> QED BY <1>1, <1>2, <1>3

\* A create that gives up had begun nothing.
LEMMA RefuseKeeps ==
    ASSUME IInv, NEW r \in Requests, request[r].at \notin {"written", "loading"},
           NEW at \in {"refused", "reported"},
           request' = [request EXCEPT ![r].at = at]
    PROVE  /\ request' \in [Requests -> Creation]
           /\ UNCHANGED <<entries, interp, announced, creating>> => MakeIsItsOwn'
           /\ UNCHANGED <<entries, disk, creating>> => NoOrphanFiles'
  <1>1. /\ request' \in [Requests -> Creation]
        /\ \A q \in Requests : /\ request'[q].id = request[q].id
                               /\ request'[q].port = request[q].port
                               /\ q # r => request'[q] = request[q]
        /\ request'[r].at = at
    BY DEF IInv, TypeOK, Creation
  <1>2. ASSUME UNCHANGED <<entries, interp, announced, creating>> PROVE MakeIsItsOwn'
    <2>1. UNCHANGED Registered
      BY <1>2 DEF Registered
    <2>2. \A q \in Requests : request'[q].at \in {"written", "loading"} => q # r
      BY <1>1
    <2>3. \A q \in Requests : request'[q].at \in {"written", "loading"} =>
              creating' = q /\ request'[q].id \in Id /\ request'[q].port \in Port
      BY <1>1, <1>2, <2>2 DEF IInv, MakeIsItsOwn
    <2>4. ASSUME interp # None, interp.by # None
          PROVE  interp.by \in Requests /\ request'[interp.by] = request[interp.by]
      <3>1. interp.by \in Requests /\ request[interp.by].at = "loading"
        BY <2>4 DEF IInv, TypeOK, Make, MakeIsItsOwn
      <3> QED BY <1>1, <3>1
    <2> QED BY <1>2, <2>1, <2>3, <2>4 DEF IInv, MakeIsItsOwn
  <1>3. ASSUME UNCHANGED <<entries, disk, creating>> PROVE NoOrphanFiles'
    <2>1. UNCHANGED Registered
      BY <1>3 DEF Registered
    <2>2. creating # None => request'[creating].id = request[creating].id
      BY <1>1 DEF IInv, TypeOK
    <2> QED BY <1>3, <2>1, <2>2 DEF IInv, NoOrphanFiles
  <1> QED BY <1>1, <1>2, <1>3

LEMMA ChooseKeeps ==
    ASSUME IInv, NEW r \in Requests, NEW ask \in Asks, Choose(r, ask[1], ask[2])
    PROVE  IInv'
  <1> DEFINE chosen == IF ask[1] = None THEN NextFreeId ELSE ask[1]
             onPort == IF ask[2] = None THEN NextFreePort ELSE ask[2]
  <1>1. /\ request[r].at = "asked" /\ creating = None
        /\ UNCHANGED <<entries, interp, sites, announced, listening, running>>
        /\ \/ Refuse(r) /\ UNCHANGED <<disk, creating>>
           \/ /\ request' = [request EXCEPT ![r] =
                                [at |-> "written", id |-> chosen, port |-> onPort]]
              /\ disk' = disk \cup {chosen} /\ creating' = r
    BY DEF Choose
  <1>2. chosen \in Id /\ onPort \in Port
    BY AskShape, NextFreeShape
  <1>3. /\ UNCHANGED <<listener, bus, lagged, todo, runtimes, starting, servers, ended,
                       Registered>>
        /\ PortsApart' /\ AnnouncedExist' /\ ServesItsPort' /\ SitesAreCounted'
        /\ RuntimePart' /\ AnnouncedAreKnown'
    BY <1>1, HandlerFrame
  <1> HIDE DEF chosen, onPort
  <1>4. CASE Refuse(r) /\ UNCHANGED <<disk, creating>>
    <2>1. request' = [request EXCEPT ![r].at = "refused"]
      BY <1>4 DEF Refuse
    <2>2. request' \in [Requests -> Creation] /\ MakeIsItsOwn' /\ NoOrphanFiles'
      BY <1>1, <1>4, <2>1, RefuseKeeps
    <2>3. TypeOK'
      BY <1>1, <1>3, <1>4, <2>2 DEF IInv, TypeOK
    <2> QED BY <1>3, <2>2, <2>3 DEF IInv, RuntimePart
  <1>5. CASE /\ request' = [request EXCEPT ![r] =
                               [at |-> "written", id |-> chosen, port |-> onPort]]
             /\ disk' = disk \cup {chosen} /\ creating' = r
    <2>1. /\ request' \in [Requests -> Creation]
          /\ request'[r].id = chosen /\ request'[r].port = onPort
          /\ \A q \in Requests : q # r => request'[q] = request[q]
      BY <1>2, <1>5 DEF IInv, TypeOK, Creation
    <2>2. TypeOK'
      BY <1>1, <1>2, <1>3, <1>5, <2>1 DEF IInv, TypeOK
    <2>3. \A q \in Requests : q # r => request'[q].at \notin {"written", "loading"}
      BY <1>1, <2>1, NoneIsNothing DEF IInv, MakeIsItsOwn
    <2>4. interp # None => interp.by = None
      BY <1>1, NoneIsNothing DEF IInv, TypeOK, Make, MakeIsItsOwn
    <2>5. MakeIsItsOwn'
      <3>1. \A q \in Requests : request'[q].at \in {"written", "loading"} =>
                creating' = q /\ request'[q].id \in Id /\ request'[q].port \in Port
        BY <1>2, <1>5, <2>1, <2>3
      <3> QED BY <1>1, <1>3, <2>4, <3>1 DEF IInv, MakeIsItsOwn
    <2>6. NoOrphanFiles'
      BY <1>1, <1>3, <1>5, <2>1, NoneIsNothing DEF IInv, NoOrphanFiles
    <2> QED BY <1>3, <2>2, <2>5, <2>6 DEF IInv, RuntimePart
  <1> QED BY <1>1, <1>4, <1>5

LEMMA LoadRefusedKeeps ==
    ASSUME IInv, NEW r \in Requests, LoadRefused(r)
    PROVE  IInv'
  <1> DEFINE id == request[r].id
  <1>1. /\ request[r].at = "written" /\ interp = None /\ EndLoad(r, id, FALSE)
        /\ UNCHANGED <<entries, interp, sites, announced, listening, running>>
    BY DEF LoadRefused
  <1>2. r # None /\ creating = r
    BY <1>1, NoneIsNothing DEF IInv, MakeIsItsOwn
  <1>3. /\ UNCHANGED <<listener, bus, lagged, todo, runtimes, starting, servers, ended,
                       Registered>>
        /\ PortsApart' /\ AnnouncedExist' /\ ServesItsPort' /\ SitesAreCounted'
        /\ RuntimePart' /\ AnnouncedAreKnown'
    BY <1>1, HandlerFrame
  <1>4. /\ request' \in [Requests -> Creation] /\ creating' = None
        /\ request'[r].at \in {"loaded", "refused"} /\ disk' = disk \ {id}
    <2>1. TypeOK
      BY DEF IInv
    <2> HIDE DEF id
    <2>2. /\ request' \in [Requests -> Creation] /\ (r # None => creating' = None)
          /\ r # None => request'[r].at \in {"loaded", "refused"}
          /\ disk' = IF r # None /\ ~FALSE THEN disk \ {id} ELSE disk
      BY <1>1, <2>1, EndLoadShape
    <2> QED BY <1>2, <2>2
  <1>5. \A q \in Requests : q # r => request'[q] = request[q]
    BY <1>1, <1>2, EndLoadShape DEF IInv
  <1>6. TypeOK'
    BY <1>1, <1>3, <1>4 DEF IInv, TypeOK
  <1>7. MakeIsItsOwn'
    <2>1. \A q \in Requests : request'[q].at \notin {"written", "loading"}
      BY <1>2, <1>4, <1>5 DEF IInv, MakeIsItsOwn
    <2> QED BY <1>1, <2>1 DEF MakeIsItsOwn
  <1>8. NoOrphanFiles'
    BY <1>1, <1>2, <1>3, <1>4 DEF IInv, NoOrphanFiles
  <1> QED BY <1>3, <1>6, <1>7, <1>8 DEF IInv, RuntimePart

-----------------------------------------------------------------------------
(* The runtimes *)

\* A start makes the newest attempt of its microgrid, or reports a runtime
\* whose site is gone, or does nothing.
NewAttempt(id) ==
    /\ id \in Registered
    /\ DOMAIN runtimes' = DOMAIN runtimes \cup {id}
    /\ runtimes' \in [DOMAIN runtimes' -> State]
    /\ \A i \in DOMAIN runtimes \ {id} : runtimes'[i] = runtimes[i]
    /\ IF id \in DOMAIN runtimes
       THEN /\ runtimes'[id].generation = runtimes[id].generation + 1
            /\ runtimes'[id].addr = runtimes[id].addr
            /\ runtimes'[id].site = runtimes[id].site
       ELSE runtimes'[id].addr = None /\ runtimes'[id].site = entries[id].site
    /\ \/ /\ runtimes'[id].status = "replaced" /\ runtimes'[id].site # entries[id].site
          /\ starting' = None
       \/ /\ runtimes'[id].status = "starting" /\ runtimes'[id].site = entries[id].site
          /\ starting' = [id |-> id, at |-> "bind", addr |-> entries[id].port,
                          generation |-> runtimes'[id].generation]

LEMMA StartShape ==
    ASSUME TypeOK, ServesItsPort, NEW id, Start(id)
    PROVE  /\ starting = None /\ UNCHANGED <<servers, ended>>
           /\ \/ UNCHANGED <<runtimes, starting>> /\ (id \in Registered => id \in DOMAIN runtimes)
              \/ NewAttempt(id)
  <1> DEFINE e == entries[id]
             rt == runtimes[id]
  <1>1. starting = None /\ UNCHANGED <<servers, ended>>
    BY DEF Start
  <1>2. CASE id \notin Registered
    BY <1>1, <1>2 DEF Start
  <1>3. ASSUME id \in Registered
        PROVE  id \in Id /\ e.port \in Port /\ e.site \in Nat
    BY <1>3 DEF TypeOK, Entry
  <1>4. CASE id \in Registered /\ id \notin DOMAIN runtimes
    <2> DEFINE v == [status |-> "starting", addr |-> None, site |-> e.site, generation |-> 1]
    <2>1. /\ runtimes' = Extended(runtimes, id, v)
          /\ starting' = [id |-> id, at |-> "bind", addr |-> e.port, generation |-> 1]
      BY <1>4 DEF Start, Runtime
    <2>2. v \in State /\ v.addr = None /\ v.site = e.site /\ v.generation = 1
          /\ v.status = "starting"
      BY <1>3, <1>4 DEF State, Status
    <2> HIDE DEF v, e
    <2>3. /\ DOMAIN runtimes' = DOMAIN runtimes \cup {id} /\ runtimes'[id] = v
          /\ runtimes' \in [DOMAIN runtimes' -> State]
          /\ \A i \in DOMAIN runtimes \ {id} : runtimes'[i] = runtimes[i]
      BY <2>1, <2>2 DEF Extended, TypeOK
    <2> QED BY <1>1, <1>4, <2>1, <2>2, <2>3 DEF NewAttempt, e
  <1>5. CASE id \in Registered /\ id \in DOMAIN runtimes
    <2>1. rt \in State /\ rt.generation \in Nat /\ rt.addr \in Port \cup {None} /\ rt.site \in Nat
      BY <1>5 DEF TypeOK, State
    <2>2. ASSUME NEW v \in State, runtimes' = [runtimes EXCEPT ![id] = v]
          PROVE  /\ DOMAIN runtimes' = DOMAIN runtimes \cup {id} /\ runtimes'[id] = v
                 /\ runtimes' \in [DOMAIN runtimes' -> State]
                 /\ \A i \in DOMAIN runtimes \ {id} : runtimes'[i] = runtimes[i]
      BY <1>5, <2>2 DEF TypeOK
    <2>3. CASE rt.site # e.site
      <3> DEFINE v == [status |-> "replaced", addr |-> rt.addr, site |-> rt.site,
                       generation |-> rt.generation + 1]
      <3>1. runtimes' = [runtimes EXCEPT ![id] = v] /\ starting' = starting
        BY <1>5, <2>3 DEF Start, Runtime
      <3>2. v \in State /\ v.addr = rt.addr /\ v.site = rt.site
            /\ v.generation = rt.generation + 1 /\ v.status = "replaced"
        BY <2>1 DEF State, Status
      <3> HIDE DEF v
      <3>3. /\ DOMAIN runtimes' = DOMAIN runtimes \cup {id} /\ runtimes'[id] = v
            /\ runtimes' \in [DOMAIN runtimes' -> State]
            /\ \A i \in DOMAIN runtimes \ {id} : runtimes'[i] = runtimes[i]
        BY <2>2, <3>1, <3>2
      <3> QED BY <1>1, <1>5, <2>3, <3>1, <3>2, <3>3 DEF NewAttempt
    <2>4. CASE rt.site = e.site /\ rt.status = "running"
      BY <1>1, <1>5, <2>4 DEF Start
    <2>5. CASE rt.site = e.site /\ rt.status # "running"
      <3> DEFINE v == [status |-> "starting", addr |-> rt.addr, site |-> rt.site,
                       generation |-> rt.generation + 1]
                 a == IF rt.addr = None THEN e.port ELSE rt.addr
      <3>1. /\ runtimes' = [runtimes EXCEPT ![id] = v]
            /\ starting' = [id |-> id, at |-> "bind", addr |-> a,
                            generation |-> rt.generation + 1]
        BY <1>5, <2>5 DEF Start, Runtime
      <3>2. v \in State /\ v.addr = rt.addr /\ v.site = rt.site
            /\ v.generation = rt.generation + 1 /\ v.status = "starting"
        BY <2>1 DEF State, Status
      <3>3. a = e.port
        BY <1>5, <2>5 DEF ServesItsPort
      <3> HIDE DEF v, a
      <3>4. /\ DOMAIN runtimes' = DOMAIN runtimes \cup {id} /\ runtimes'[id] = v
            /\ runtimes' \in [DOMAIN runtimes' -> State]
            /\ \A i \in DOMAIN runtimes \ {id} : runtimes'[i] = runtimes[i]
        BY <2>2, <3>1, <3>2
      <3> QED BY <1>1, <1>5, <2>5, <3>1, <3>2, <3>3, <3>4 DEF NewAttempt
    <2> QED BY <2>3, <2>4, <2>5
  <1> QED BY <1>2, <1>4, <1>5

\* A new attempt has no server, and the attempt before it is over.
LEMMA NewAttemptKeeps ==
    ASSUME IInv, NEW id, NewAttempt(id), starting = None,
           UNCHANGED <<entries, sites, servers, ended>>
    PROVE  /\ DOMAIN runtimes' \subseteq Id /\ starting' \in Attempt \cup {None}
           /\ ServesItsPort' /\ SitesAreCounted' /\ RuntimePart' /\ ReplacedStaysReported
  <1> DEFINE begun == runtimes'[id]
             all == servers \cup ended
  <1>1. /\ id \in Registered /\ id \in Id /\ entries[id].port \in Port
        /\ DOMAIN runtimes' = DOMAIN runtimes \cup {id}
        /\ runtimes' \in [DOMAIN runtimes' -> State] /\ begun \in State
        /\ UNCHANGED Registered
    BY DEF NewAttempt, IInv, TypeOK, Entry, Registered
  <1>2. \A i \in DOMAIN runtimes \ {id} : runtimes'[i] = runtimes[i]
    BY DEF NewAttempt
  <1>3. IF id \in DOMAIN runtimes
        THEN /\ begun.generation = runtimes[id].generation + 1
             /\ begun.addr = runtimes[id].addr /\ begun.site = runtimes[id].site
        ELSE begun.addr = None /\ begun.site = entries[id].site
    BY DEF NewAttempt
  <1>4. \/ begun.status = "replaced" /\ begun.site # entries[id].site /\ starting' = None
        \/ /\ begun.status = "starting" /\ begun.site = entries[id].site
           /\ starting' = [id |-> id, at |-> "bind", addr |-> entries[id].port,
                           generation |-> begun.generation]
    BY DEF NewAttempt
  <1>5. /\ DOMAIN runtimes' \subseteq Id
        /\ starting' \in Attempt \cup {None}
        /\ starting' # None => /\ starting'.id = id /\ starting'.at = "bind"
                               /\ starting'.addr = entries[id].port
                               /\ starting'.generation = begun.generation
                               /\ begun.status = "starting"
        /\ begun.status \in {"replaced", "starting"}
        /\ begun.status = "starting" => starting' # None /\ begun.site = entries[id].site
        /\ begun.status = "replaced" => begun.site # entries[id].site
    <2>1. begun.generation \in Nat /\ DOMAIN runtimes' \subseteq Id
      BY <1>1 DEF State, IInv, TypeOK
    <2>2. CASE begun.status = "replaced" /\ begun.site # entries[id].site /\ starting' = None
      BY <2>1, <2>2
    <2>3. CASE /\ begun.status = "starting" /\ begun.site = entries[id].site
               /\ starting' = [id |-> id, at |-> "bind", addr |-> entries[id].port,
                               generation |-> begun.generation]
      <3>1. starting' \in Attempt
        BY <1>1, <2>1, <2>3 DEF Attempt
      <3> QED BY <2>1, <2>3, <3>1, NoneIsNothing
    <2> QED BY <1>4, <2>2, <2>3
  <1>6. \A s \in all : /\ s.id \in DOMAIN runtimes /\ s.generation \in Nat
                       /\ s.generation <= runtimes[s.id].generation
                       /\ s.id = id => s.generation < begun.generation
    <2>1. \A s \in all : /\ s.id \in DOMAIN runtimes /\ s.generation \in Nat
                         /\ s.generation <= runtimes[s.id].generation
      BY DEF IInv, ServersAreOfAttempts, TypeOK, Server
    <2>2. \A i \in DOMAIN runtimes : runtimes[i].generation \in Nat
      BY DEF IInv, TypeOK, State
    <2> HIDE DEF begun, all
    <2> QED BY <1>3, <2>1, <2>2
  <1>7. \A i \in DOMAIN runtimes : runtimes[i].status # "starting"
    BY DEF IInv, AttemptIsNewest
  <1> HIDE DEF begun, all
  <1>8. SitesAreCounted'
    <2>1. begun.site <= sites
      BY <1>1, <1>3 DEF IInv, SitesAreCounted
    <2> QED BY <1>1, <1>2, <1>5, <2>1 DEF IInv, SitesAreCounted, begun
  <1>9. ServesItsPort'
    <2>1. ASSUME NEW i \in Registered \cap DOMAIN runtimes',
                 runtimes'[i].site = entries[i].site
          PROVE  /\ runtimes'[i].addr \in {None, entries[i].port}
                 /\ starting' # None /\ starting'.id = i => starting'.addr = entries[i].port
      <3>1. CASE i = id
        BY <1>3, <1>5, <2>1, <3>1 DEF IInv, ServesItsPort, begun
      <3>2. CASE i # id
        BY <1>1, <1>2, <1>5, <2>1, <3>2 DEF IInv, ServesItsPort
      <3> QED BY <3>1, <3>2
    <2> QED BY <1>1, <2>1 DEF ServesItsPort
  <1>10. AttemptIsNewest'
    <2>1. \A s \in all : starting' # None /\ s.id = id => s.generation # starting'.generation
      <3>1. begun.generation \in Nat
        BY <1>1 DEF State
      <3> QED BY <1>5, <1>6, <3>1
    <2> QED BY <1>1, <1>2, <1>5, <1>7, <2>1 DEF AttemptIsNewest, begun, all
  <1>11. ServersAreOfAttempts'
    <2>1. \A s \in all : s.id \in DOMAIN runtimes' /\ s.generation <= runtimes'[s.id].generation
      <3>1. begun.generation \in Nat
        BY <1>1 DEF State
      <3> QED BY <1>1, <1>2, <1>6, <3>1 DEF begun
    <2> QED BY <2>1 DEF IInv, ServersAreOfAttempts, all
  <1>12. RunningHasServer'
    <2>1. ASSUME NEW i \in DOMAIN runtimes',
                 NEW own, own = {s \in all : s.id = i /\ s.generation = runtimes'[i].generation}
          PROVE  /\ runtimes'[i].status = "running" => own # {}
                 /\ own # {} => runtimes'[i].status = "running"
      <3>1. CASE i = id
        <4>1. begun.generation \in Nat
          BY <1>1 DEF State
        <4>2. own = {}
          BY <1>6, <2>1, <3>1, <4>1 DEF begun
        <4> QED BY <1>5, <3>1, <4>2 DEF begun
      <3>2. CASE i # id
        BY <1>1, <1>2, <2>1, <3>2 DEF IInv, RunningHasServer, all
      <3> QED BY <3>1, <3>2
    <2> QED BY <2>1 DEF RunningHasServer, all
  <1>13. ReplacedStaysReported
    <2>1. ASSUME id \in DOMAIN runtimes, runtimes[id].status = "replaced"
          PROVE  begun.status = "replaced"
      BY <1>1, <1>3, <1>5, <2>1 DEF IInv, SitesAreCounted
    <2> QED BY <1>2, <2>1 DEF ReplacedStaysReported, begun
  <1> QED BY <1>5, <1>8, <1>9, <1>10, <1>11, <1>12, <1>13 DEF RuntimePart

\* Whoever starts a microgrid: an attempt, or nothing to do.
LEMMA StartKeeps ==
    ASSUME IInv, NEW id, Start(id), UNCHANGED <<entries, sites>>
    PROVE  /\ UNCHANGED <<servers, ended>>
           /\ DOMAIN runtimes' \subseteq Id /\ runtimes' \in [DOMAIN runtimes' -> State]
           /\ starting' \in Attempt \cup {None}
           /\ DOMAIN runtimes \subseteq DOMAIN runtimes'
           /\ id \in Registered => id \in DOMAIN runtimes'
           /\ ServesItsPort' /\ SitesAreCounted' /\ RuntimePart' /\ ReplacedStaysReported
  <1>1. /\ starting = None /\ UNCHANGED <<servers, ended>>
        /\ \/ UNCHANGED <<runtimes, starting>> /\ (id \in Registered => id \in DOMAIN runtimes)
           \/ NewAttempt(id)
    BY StartShape DEF IInv
  <1>2. CASE UNCHANGED <<runtimes, starting>> /\ (id \in Registered => id \in DOMAIN runtimes)
    <2>1. ServesItsPort' /\ SitesAreCounted'
      BY <1>2, ServesFrame DEF IInv
    <2>2. RuntimePart'
      BY <1>1, <1>2 DEF IInv, RuntimePart, AttemptIsNewest, ServersAreOfAttempts,
                        RunningHasServer
    <2>3. ReplacedStaysReported
      BY <1>2 DEF ReplacedStaysReported
    <2>4. /\ DOMAIN runtimes' \subseteq Id /\ runtimes' \in [DOMAIN runtimes' -> State]
          /\ starting' \in Attempt \cup {None}
      BY <1>2 DEF IInv, TypeOK
    <2> QED BY <1>1, <1>2, <2>1, <2>2, <2>3, <2>4
  <1>3. CASE NewAttempt(id)
    <2>1. /\ DOMAIN runtimes' = DOMAIN runtimes \cup {id}
          /\ runtimes' \in [DOMAIN runtimes' -> State]
      BY <1>3 DEF NewAttempt
    <2>2. /\ DOMAIN runtimes' \subseteq Id /\ starting' \in Attempt \cup {None}
          /\ ServesItsPort' /\ SitesAreCounted' /\ RuntimePart' /\ ReplacedStaysReported
      BY <1>1, <1>3, NewAttemptKeeps
    <2> QED BY <1>1, <2>1, <2>2
  <1> QED BY <1>1, <1>2, <1>3

LEMMA StartCreatedKeeps ==
    ASSUME IInv, NEW r \in Requests, StartCreated(r)
    PROVE  IInv' /\ ReplacedStaysReported
  <1>1. /\ request[r].at = "loaded" /\ Start(request[r].id)
        /\ request' = [request EXCEPT ![r].at = "reported"]
        /\ UNCHANGED <<entries, disk, interp, sites, announced, creating, Registered>>
        /\ UNCHANGED <<listener, bus, lagged, todo>>
    BY DEF StartCreated, lisp, listening, Registered
  <1>2. /\ UNCHANGED <<servers, ended>>
        /\ DOMAIN runtimes' \subseteq Id /\ runtimes' \in [DOMAIN runtimes' -> State]
        /\ starting' \in Attempt \cup {None} /\ DOMAIN runtimes \subseteq DOMAIN runtimes'
        /\ ServesItsPort' /\ SitesAreCounted' /\ RuntimePart' /\ ReplacedStaysReported
    BY <1>1, StartKeeps
  <1>3. request' \in [Requests -> Creation] /\ MakeIsItsOwn' /\ NoOrphanFiles'
    BY <1>1, RefuseKeeps
  <1>4. TypeOK'
    BY <1>1, <1>2, <1>3 DEF IInv, TypeOK
  <1>5. PortsApart' /\ AnnouncedExist'
    BY <1>1 DEF IInv, PortsApart, Claimable, AnnouncedExist
  <1>6. AnnouncedAreKnown'
    BY <1>1, <1>2 DEF IInv, AnnouncedAreKnown
  <1> QED BY <1>2, <1>3, <1>4, <1>5, <1>6 DEF IInv, RuntimePart

-----------------------------------------------------------------------------
(* The listener *)

\* What a step of the listener alone leaves alone.
LEMMA ListenerFrame ==
    ASSUME IInv, UNCHANGED <<lisp, handlers>>
    PROVE  /\ UNCHANGED <<entries, disk, interp, sites, announced, request, creating,
                           Registered>>
           /\ RegistryPart'
  <1>1. UNCHANGED <<entries, disk, interp, sites, announced, request, creating, Registered>>
    BY DEF lisp, handlers, Registered
  <1>2. RegistryPart'
    BY <1>1, RegistryFrame DEF IInv, RegistryPart, handlers
  <1> QED BY <1>1, <1>2

\* Steps that start nothing leave the runtimes as sound as they were.
LEMMA ListenerKeeps ==
    ASSUME IInv, UNCHANGED <<lisp, handlers, running>>,
           listener' \in {"off", "subscribed", "live"}, bus' \in Seq(Id),
           lagged' \in BOOLEAN, todo' \subseteq Id, AnnouncedAreKnown'
    PROVE  IInv'
  <1>1. /\ UNCHANGED <<entries, disk, interp, sites, announced, request, creating, Registered>>
        /\ RegistryPart'
    BY ListenerFrame
  <1>2. UNCHANGED <<runtimes, starting, servers, ended>>
    BY DEF running
  <1>3. TypeOK'
    BY <1>1, <1>2 DEF IInv, TypeOK
  <1>4. ServesItsPort' /\ SitesAreCounted' /\ RuntimePart'
    BY <1>1, <1>2, ServesFrame, RuntimeFrame DEF IInv, RuntimePart
  <1> QED BY <1>1, <1>3, <1>4 DEF IInv, RegistryPart, RuntimePart

LEMMA SubscribeKeeps ==
    ASSUME IInv, Subscribe
    PROVE  IInv'
  <1>1. /\ listener' = "subscribed" /\ UNCHANGED <<lisp, handlers, bus, lagged, todo, running>>
    BY DEF Subscribe
  <1>2. AnnouncedAreKnown'
    BY <1>1 DEF AnnouncedAreKnown
  <1>3. bus' \in Seq(Id) /\ lagged' \in BOOLEAN /\ todo' \subseteq Id
    BY <1>1 DEF IInv, TypeOK
  <1> QED BY <1>1, <1>2, <1>3, ListenerKeeps

\* What was announced before the listener reads the registry is in it.
LEMMA StartAllKeeps ==
    ASSUME IInv, StartAll
    PROVE  IInv'
  <1>1. /\ listener' = "live" /\ todo' = Registered
        /\ UNCHANGED <<lisp, handlers, bus, lagged, running>>
    BY DEF StartAll
  <1>2. announced' \subseteq todo'
    BY <1>1 DEF lisp, IInv, AnnouncedExist
  <1>3. AnnouncedAreKnown'
    BY <1>2 DEF AnnouncedAreKnown
  <1>4. bus' \in Seq(Id) /\ lagged' \in BOOLEAN /\ todo' \subseteq Id
    BY <1>1 DEF IInv, TypeOK
  <1> QED BY <1>1, <1>3, <1>4, ListenerKeeps

LEMMA HearLagKeeps ==
    ASSUME IInv, HearLag
    PROVE  IInv'
  <1>1. /\ todo' = Registered /\ lagged' = FALSE
        /\ UNCHANGED <<lisp, handlers, listener, bus, running>>
    BY DEF HearLag
  <1>2. announced' \subseteq todo'
    BY <1>1 DEF lisp, IInv, AnnouncedExist
  <1>3. AnnouncedAreKnown'
    BY <1>2 DEF AnnouncedAreKnown
  <1>4. listener' \in {"off", "subscribed", "live"} /\ bus' \in Seq(Id)
        /\ lagged' \in BOOLEAN /\ todo' \subseteq Id
    BY <1>1 DEF IInv, TypeOK
  <1> QED BY <1>1, <1>3, <1>4, ListenerKeeps

\* The announcement taken off the ring is the next to be started.
LEMMA HearKeeps ==
    ASSUME IInv, Hear
    PROVE  IInv'
  <1>1. /\ listener = "live" /\ todo = {} /\ ~lagged /\ bus # <<>>
        /\ todo' = {Head(bus)} /\ bus' = Tail(bus)
        /\ UNCHANGED <<lisp, handlers, listener, lagged, running>>
    BY DEF Hear
  <1>2. /\ bus \in Seq(Id) /\ bus' \in Seq(Id) /\ Head(bus) \in Id
        /\ Head(bus) = bus[1] /\ Len(bus) \in Nat /\ Len(bus') = Len(bus) - 1
        /\ \A k \in 1..Len(bus') : bus'[k] = bus[k + 1]
    BY <1>1 DEF IInv, TypeOK
  <1>3. UNCHANGED <<announced, runtimes>>
    BY <1>1 DEF lisp, running
  <1>4. ASSUME NEW i \in announced
        PROVE  i \in DOMAIN runtimes \cup todo' \/ \E k \in 1..Len(bus') : bus'[k] = i
    <2>1. CASE i \in DOMAIN runtimes
      BY <2>1
    <2>2. CASE \E k \in 1..Len(bus) : bus[k] = i
      <3>1. PICK k \in 1..Len(bus) : bus[k] = i
        BY <2>2
      <3>2. CASE k = 1
        BY <1>1, <1>2, <3>1, <3>2
      <3>3. CASE k # 1
        <4>1. k - 1 \in 1..Len(bus') /\ bus'[k - 1] = bus[k]
          BY <1>2, <3>1, <3>3
        <4> QED BY <3>1, <4>1
      <3> QED BY <3>2, <3>3
    <2> QED BY <1>1, <2>1, <2>2 DEF IInv, AnnouncedAreKnown
  <1>5. AnnouncedAreKnown'
    BY <1>3, <1>4 DEF AnnouncedAreKnown
  <1>6. listener' \in {"off", "subscribed", "live"} /\ lagged' \in BOOLEAN /\ todo' \subseteq Id
    BY <1>1, <1>2 DEF IInv, TypeOK
  <1> QED BY <1>1, <1>2, <1>5, <1>6, ListenerKeeps

\* What is on the list and was announced is registered, so it is started.
LEMMA StartNextKeeps ==
    ASSUME IInv, StartNext
    PROVE  IInv' /\ ReplacedStaysReported
  <1> DEFINE id == Min(todo)
  <1>1. /\ todo # {} /\ Start(id) /\ todo' = todo \ {id}
        /\ UNCHANGED <<lisp, handlers, listener, bus, lagged>>
    BY DEF StartNext
  <1>2. id \in todo
    <2>1. todo \in SUBSET Nat
      BY CountAssumption DEF IInv, TypeOK
    <2> QED BY <1>1, <2>1, MinIsMember
  <1> HIDE DEF id
  <1>3. /\ UNCHANGED <<entries, disk, interp, sites, announced, request, creating, Registered>>
        /\ RegistryPart'
    BY <1>1, ListenerFrame
  <1>4. /\ UNCHANGED <<servers, ended>>
        /\ DOMAIN runtimes' \subseteq Id /\ runtimes' \in [DOMAIN runtimes' -> State]
        /\ starting' \in Attempt \cup {None} /\ DOMAIN runtimes \subseteq DOMAIN runtimes'
        /\ id \in Registered => id \in DOMAIN runtimes'
        /\ ServesItsPort' /\ SitesAreCounted' /\ RuntimePart' /\ ReplacedStaysReported
    BY <1>1, <1>3, StartKeeps
  <1>5. TypeOK'
    BY <1>1, <1>3, <1>4 DEF IInv, TypeOK
  <1>6. AnnouncedAreKnown'
    <2>1. ASSUME listener = "live", ~lagged, NEW i \in announced
          PROVE  i \in DOMAIN runtimes' \cup todo' \/ \E k \in 1..Len(bus) : bus[k] = i
      <3>1. i \in DOMAIN runtimes \cup todo \/ \E k \in 1..Len(bus) : bus[k] = i
        BY <2>1 DEF IInv, AnnouncedAreKnown
      <3>2. i \in Registered
        BY DEF IInv, AnnouncedExist
      <3> QED BY <1>1, <1>4, <3>1, <3>2
    <2> QED BY <1>1, <1>3, <2>1 DEF AnnouncedAreKnown
  <1> QED BY <1>3, <1>4, <1>5, <1>6 DEF IInv, RegistryPart, RuntimePart

-----------------------------------------------------------------------------
(* Attempts, servers and their watchers *)

\* An attempt's status is set only while it is its microgrid's newest.
LEMMA SetStatusShape ==
    ASSUME TypeOK, NEW id \in DOMAIN runtimes, NEW generation, NEW status \in Status,
           SetStatus(id, generation, status)
    PROVE  /\ DOMAIN runtimes' = DOMAIN runtimes
           /\ runtimes' \in [DOMAIN runtimes' -> State]
           /\ \A i \in DOMAIN runtimes :
                  /\ runtimes'[i].addr = runtimes[i].addr
                  /\ runtimes'[i].site = runtimes[i].site
                  /\ runtimes'[i].generation = runtimes[i].generation
                  /\ runtimes'[i].status =
                         IF i = id /\ runtimes[id].generation = generation
                         THEN status ELSE runtimes[i].status
  <1>1. CASE runtimes[id].generation = generation
    <2>1. runtimes' = [runtimes EXCEPT ![id].status = status]
      BY <1>1 DEF SetStatus
    <2> QED BY <1>1, <2>1 DEF TypeOK, State
  <1>2. CASE runtimes[id].generation # generation
    <2>1. runtimes' = runtimes
      BY <1>2 DEF SetStatus
    <2> QED BY <1>2, <2>1 DEF TypeOK
  <1> QED BY <1>1, <1>2

\* What a step of the runtimes alone leaves alone.
LEMMA RuntimesFrame ==
    ASSUME IInv, UNCHANGED <<lisp, handlers, listening>>, DOMAIN runtimes' = DOMAIN runtimes
    PROVE  /\ UNCHANGED <<entries, disk, interp, sites, announced, request, creating,
                           listener, bus, lagged, todo, Registered>>
           /\ RegistryPart' /\ AnnouncedAreKnown'
  <1>1. /\ UNCHANGED <<entries, disk, interp, sites, announced, request, creating, Registered>>
        /\ RegistryPart'
    BY ListenerFrame
  <1>2. UNCHANGED <<listener, bus, lagged, todo>>
    BY DEF listening
  <1>3. AnnouncedAreKnown'
    BY <1>1, <1>2 DEF IInv, AnnouncedAreKnown
  <1> QED BY <1>1, <1>2, <1>3

\* Who still serves what it served, and is not reported replaced anew.
LEMMA ServedFrame ==
    ASSUME IInv, UNCHANGED <<entries, sites>>, DOMAIN runtimes' = DOMAIN runtimes,
           \A i \in DOMAIN runtimes :
               /\ runtimes'[i].site = runtimes[i].site
               /\ \/ runtimes'[i].addr = runtimes[i].addr
                  \/ starting # None /\ starting.id = i /\ runtimes'[i].addr = starting.addr
               /\ runtimes'[i].status = "replaced" => runtimes[i].status = "replaced",
           \/ starting' = None
           \/ starting # None /\ starting'.id = starting.id /\ starting'.addr = starting.addr
           \/ starting' = starting
    PROVE  ServesItsPort' /\ SitesAreCounted'
  <1>1. UNCHANGED Registered
    BY DEF Registered
  <1>2. SitesAreCounted'
    BY <1>1 DEF IInv, SitesAreCounted
  <1>3. ASSUME NEW i \in Registered \cap DOMAIN runtimes, runtimes'[i].site = entries[i].site
        PROVE  /\ runtimes'[i].addr \in {None, entries[i].port}
               /\ starting' # None /\ starting'.id = i => starting'.addr = entries[i].port
    <2>1. /\ runtimes[i].addr \in {None, entries[i].port}
          /\ starting # None /\ starting.id = i => starting.addr = entries[i].port
      BY <1>3 DEF IInv, ServesItsPort
    <2> QED BY <2>1
  <1>4. ServesItsPort'
    BY <1>1, <1>3 DEF ServesItsPort
  <1> QED BY <1>2, <1>4

LEMMA BindFailsKeeps ==
    ASSUME IInv, BindFails
    PROVE  IInv' /\ ReplacedStaysReported
  <1> DEFINE id == starting.id
  <1>1. /\ starting # None /\ starting.at = "bind" /\ starting' = None
        /\ SetStatus(id, starting.generation, "unbound")
        /\ UNCHANGED <<lisp, handlers, listening, servers, ended>>
    BY DEF BindFails
  <1>2. /\ id \in DOMAIN runtimes /\ runtimes[id].generation = starting.generation
        /\ runtimes[id].status = "starting"
        /\ \A s \in servers \cup ended : s.id = id => s.generation # starting.generation
        /\ \A i \in DOMAIN runtimes : runtimes[i].status = "starting" => i = id
    BY <1>1 DEF IInv, AttemptIsNewest
  <1>3. /\ DOMAIN runtimes' = DOMAIN runtimes /\ runtimes' \in [DOMAIN runtimes' -> State]
        /\ \A i \in DOMAIN runtimes :
               /\ runtimes'[i].addr = runtimes[i].addr
               /\ runtimes'[i].site = runtimes[i].site
               /\ runtimes'[i].generation = runtimes[i].generation
               /\ runtimes'[i].status =
                      IF i = id THEN "unbound" ELSE runtimes[i].status
    <2>1. "unbound" \in Status /\ TypeOK
      BY DEF Status, IInv
    <2> HIDE DEF id
    <2> QED BY <1>1, <1>2, <2>1, SetStatusShape
  <1> HIDE DEF id
  <1>4. /\ UNCHANGED <<entries, disk, interp, sites, announced, request, creating,
                       listener, bus, lagged, todo, Registered>>
        /\ RegistryPart' /\ AnnouncedAreKnown'
    BY <1>1, <1>3, RuntimesFrame
  <1>5. TypeOK'
    BY <1>1, <1>3, <1>4 DEF IInv, TypeOK
  <1>6. ServesItsPort' /\ SitesAreCounted'
    BY <1>1, <1>3, <1>4, ServedFrame
  <1>7. AttemptIsNewest' /\ ServersAreOfAttempts'
    BY <1>1, <1>2, <1>3 DEF IInv, AttemptIsNewest, ServersAreOfAttempts
  <1>8. RunningHasServer'
    <2>1. ASSUME NEW i \in DOMAIN runtimes,
                 NEW own, own = {s \in servers \cup ended :
                                     s.id = i /\ s.generation = runtimes'[i].generation}
          PROVE  /\ runtimes'[i].status = "running" => own # {}
                 /\ own # {} => runtimes'[i].status = "running"
      <3>1. CASE i = id
        <4>1. own = {}
          BY <1>2, <1>3, <2>1, <3>1
        <4> QED BY <1>3, <3>1, <4>1
      <3>2. CASE i # id
        <4>1. runtimes'[i].status = runtimes[i].status
              /\ runtimes'[i].generation = runtimes[i].generation
          BY <1>3, <3>2
        <4> QED BY <2>1, <3>2, <4>1 DEF IInv, RunningHasServer, id
      <3> QED BY <3>1, <3>2
    <2> QED BY <1>1, <1>3, <2>1 DEF RunningHasServer
  <1>9. ReplacedStaysReported
    BY <1>2, <1>3 DEF ReplacedStaysReported
  <1> QED BY <1>4, <1>5, <1>6, <1>7, <1>8, <1>9 DEF IInv, RegistryPart

LEMMA BindKeeps ==
    ASSUME IInv, Bind
    PROVE  IInv' /\ ReplacedStaysReported
  <1> DEFINE id == starting.id
  <1>1. /\ starting # None /\ starting.at = "bind"
        /\ starting' = [starting EXCEPT !.at = "spawn"]
        /\ runtimes' = [runtimes EXCEPT
               ![id].addr = starting.addr,
               ![id].status = IF runtimes[id].generation = starting.generation
                              THEN "running" ELSE @]
        /\ UNCHANGED <<lisp, handlers, listening, servers, ended>>
    BY DEF Bind
  <1>2. /\ id \in DOMAIN runtimes /\ runtimes[id].generation = starting.generation
        /\ runtimes[id].status = "starting"
        /\ \A s \in servers \cup ended : s.id = id => s.generation # starting.generation
        /\ \A i \in DOMAIN runtimes : runtimes[i].status = "starting" => i = id
    BY <1>1 DEF IInv, AttemptIsNewest
  <1>3. /\ starting' \in Attempt /\ starting' # None
        /\ starting'.id = id /\ starting'.at = "spawn" /\ starting'.addr = starting.addr
        /\ starting'.generation = starting.generation /\ starting.addr \in Port
    BY <1>1, NoneIsNothing DEF IInv, TypeOK, Attempt
  <1> HIDE DEF id
  <1>4. /\ DOMAIN runtimes' = DOMAIN runtimes /\ runtimes' \in [DOMAIN runtimes' -> State]
        /\ \A i \in DOMAIN runtimes \ {id} : runtimes'[i] = runtimes[i]
        /\ runtimes'[id].addr = starting.addr /\ runtimes'[id].status = "running"
        /\ runtimes'[id].site = runtimes[id].site
        /\ runtimes'[id].generation = runtimes[id].generation
    BY <1>1, <1>2, <1>3 DEF IInv, TypeOK, State, Status
  <1>5. /\ UNCHANGED <<entries, disk, interp, sites, announced, request, creating,
                       listener, bus, lagged, todo, Registered>>
        /\ RegistryPart' /\ AnnouncedAreKnown'
    BY <1>1, <1>4, RuntimesFrame
  <1>6. TypeOK'
    BY <1>1, <1>3, <1>4, <1>5 DEF IInv, TypeOK
  <1>7. ServesItsPort' /\ SitesAreCounted'
    <2>1. starting.id = id
      BY DEF id
    <2> QED BY <1>1, <1>2, <1>3, <1>4, <1>5, <2>1, ServedFrame
  <1>8. AttemptIsNewest' /\ ServersAreOfAttempts'
    BY <1>1, <1>2, <1>3, <1>4 DEF IInv, AttemptIsNewest, ServersAreOfAttempts
  <1>9. RunningHasServer'
    <2>1. ASSUME NEW i \in DOMAIN runtimes,
                 NEW own, own = {s \in servers \cup ended :
                                     s.id = i /\ s.generation = runtimes'[i].generation}
          PROVE  /\ runtimes'[i].status = "running" => own # {} \/ i = id
                 /\ own # {} => runtimes'[i].status = "running"
      <3>1. CASE i = id
        BY <1>4, <3>1
      <3>2. CASE i # id
        BY <1>1, <1>4, <2>1, <3>2 DEF IInv, RunningHasServer, id
      <3> QED BY <3>1, <3>2
    <2> QED BY <1>1, <1>3, <1>4, <2>1 DEF RunningHasServer
  <1>10. ReplacedStaysReported
    BY <1>2, <1>4 DEF ReplacedStaysReported
  <1> QED BY <1>5, <1>6, <1>7, <1>8, <1>9, <1>10 DEF IInv, RegistryPart

LEMMA SpawnKeeps ==
    ASSUME IInv, Spawn
    PROVE  IInv'
  <1> DEFINE begun == [id |-> starting.id, addr |-> starting.addr,
                     generation |-> starting.generation]
  <1>1. /\ starting # None /\ starting.at = "spawn" /\ starting' = None
        /\ servers' = servers \cup {begun}
        /\ UNCHANGED <<lisp, handlers, listening, runtimes, ended>>
    BY DEF Spawn
  <1>2. /\ begun \in Server /\ begun.id = starting.id /\ begun.generation = starting.generation
    BY <1>1 DEF IInv, TypeOK, Attempt, Server
  <1> HIDE DEF begun
  <1>3. /\ begun.id \in DOMAIN runtimes /\ runtimes[begun.id].generation = begun.generation
        /\ runtimes[begun.id].status = "running"
        /\ \A s \in servers \cup ended : s.id = begun.id => s.generation # begun.generation
        /\ \A i \in DOMAIN runtimes : runtimes[i].status # "starting"
        /\ begun.generation \in Nat
    BY <1>1, <1>2 DEF IInv, AttemptIsNewest, Server
  <1>4. /\ UNCHANGED <<entries, disk, interp, sites, announced, request, creating,
                       listener, bus, lagged, todo, Registered>>
        /\ RegistryPart' /\ AnnouncedAreKnown'
    BY <1>1, RuntimesFrame
  <1>5. TypeOK'
    BY <1>1, <1>2, <1>4 DEF IInv, TypeOK
  <1>6. ServesItsPort' /\ SitesAreCounted'
    BY <1>1, <1>4, ServedFrame
  <1>7. AttemptIsNewest'
    BY <1>1, <1>3 DEF AttemptIsNewest
  <1>8. ServersAreOfAttempts'
    BY <1>1, <1>3 DEF IInv, ServersAreOfAttempts
  <1>9. RunningHasServer'
    <2>1. ASSUME NEW i \in DOMAIN runtimes,
                 NEW own, own = {s \in servers \cup {begun} \cup ended :
                                     s.id = i /\ s.generation = runtimes[i].generation}
          PROVE  /\ runtimes[i].status = "running" => own # {}
                 /\ own # {} => runtimes[i].status = "running"
      <3>1. CASE i = begun.id
        BY <1>3, <2>1, <3>1
      <3>2. CASE i # begun.id
        BY <1>2, <2>1, <3>2 DEF IInv, RunningHasServer
      <3> QED BY <3>1, <3>2
    <2> QED BY <1>1, <2>1 DEF RunningHasServer
  <1> QED BY <1>4, <1>5, <1>6, <1>7, <1>8, <1>9 DEF IInv, RegistryPart

\* A server that ends stays its attempt's own until its watcher has seen it.
LEMMA ServerEndsKeeps ==
    ASSUME IInv, NEW s \in servers, ServerEnds(s)
    PROVE  IInv'
  <1>1. /\ servers' = servers \ {s} /\ ended' = ended \cup {s}
        /\ UNCHANGED <<lisp, handlers, listening, runtimes, starting>>
    BY DEF ServerEnds
  <1>2. servers' \cup ended' = servers \cup ended
    BY <1>1
  <1>3. /\ UNCHANGED <<entries, disk, interp, sites, announced, request, creating,
                       listener, bus, lagged, todo, Registered>>
        /\ RegistryPart' /\ AnnouncedAreKnown'
    BY <1>1, RuntimesFrame
  <1>4. TypeOK'
    BY <1>1, <1>3 DEF IInv, TypeOK
  <1>5. ServesItsPort' /\ SitesAreCounted'
    BY <1>1, <1>3, ServedFrame
  <1>6. AttemptIsNewest' /\ RunningHasServer'
    BY <1>1, <1>2 DEF IInv, AttemptIsNewest, RunningHasServer
  <1>7. ServersAreOfAttempts'
    BY <1>1, <1>2 DEF IInv, ServersAreOfAttempts
  <1> QED BY <1>3, <1>4, <1>5, <1>6, <1>7 DEF IInv, RegistryPart

LEMMA WatcherSeesKeeps ==
    ASSUME IInv, NEW s \in ended, WatcherSees(s)
    PROVE  IInv' /\ ReplacedStaysReported
  <1> DEFINE newest == runtimes[s.id].generation = s.generation
  <1>1. /\ ended' = ended \ {s} /\ SetStatus(s.id, s.generation, "ended")
        /\ UNCHANGED <<lisp, handlers, listening, starting, servers>>
    BY DEF WatcherSees
  <1>2. /\ s.id \in DOMAIN runtimes /\ s \notin servers
        /\ \A other \in servers \cup ended :
               s.id = other.id /\ s.generation = other.generation => s = other
    BY DEF IInv, ServersAreOfAttempts
  <1>3. /\ DOMAIN runtimes' = DOMAIN runtimes /\ runtimes' \in [DOMAIN runtimes' -> State]
        /\ \A i \in DOMAIN runtimes :
               /\ runtimes'[i].addr = runtimes[i].addr
               /\ runtimes'[i].site = runtimes[i].site
               /\ runtimes'[i].generation = runtimes[i].generation
               /\ runtimes'[i].status =
                      IF i = s.id /\ newest THEN "ended" ELSE runtimes[i].status
    <2>1. "ended" \in Status /\ TypeOK
      BY DEF Status, IInv
    <2> QED BY <1>1, <1>2, <2>1, SetStatusShape
  <1>4. servers' \cup ended' = (servers \cup ended) \ {s}
    BY <1>1, <1>2
  <1>5. newest => runtimes[s.id].status = "running"
    BY <1>2 DEF IInv, RunningHasServer
  <1> HIDE DEF newest
  <1>6. /\ UNCHANGED <<entries, disk, interp, sites, announced, request, creating,
                       listener, bus, lagged, todo, Registered>>
        /\ RegistryPart' /\ AnnouncedAreKnown'
    BY <1>1, <1>3, RuntimesFrame
  <1>7. TypeOK'
    BY <1>1, <1>3, <1>6 DEF IInv, TypeOK
  <1>8. ServesItsPort' /\ SitesAreCounted'
    BY <1>1, <1>3, <1>6, ServedFrame
  <1>9. AttemptIsNewest'
    <2>1. starting # None => ~(starting.id = s.id /\ newest)
      BY DEF IInv, AttemptIsNewest, newest
    <2> QED BY <1>1, <1>3, <1>4, <2>1 DEF IInv, AttemptIsNewest
  <1>10. ServersAreOfAttempts'
    BY <1>1, <1>3, <1>4 DEF IInv, ServersAreOfAttempts
  <1>11. RunningHasServer'
    <2>1. ASSUME NEW i \in DOMAIN runtimes,
                 NEW own, own = {o \in servers' \cup ended' :
                                     o.id = i /\ o.generation = runtimes'[i].generation}
          PROVE  /\ runtimes'[i].status = "running" =>
                        own # {} \/ (starting # None /\ starting.id = i /\ starting.at = "spawn")
                 /\ own # {} => runtimes'[i].status = "running"
      <3>0. own = {o \in (servers \cup ended) \ {s} :
                       o.id = i /\ o.generation = runtimes[i].generation}
        BY <1>3, <1>4, <2>1
      <3>1. CASE i = s.id /\ newest
        <4>1. own = {}
          BY <1>2, <3>0, <3>1 DEF newest
        <4> QED BY <1>3, <3>1, <4>1
      <3>2. CASE ~(i = s.id /\ newest)
        <4> DEFINE was == {o \in servers \cup ended :
                               o.id = i /\ o.generation = runtimes[i].generation}
        <4>1. own = was /\ runtimes'[i].status = runtimes[i].status
          BY <1>3, <3>0, <3>2 DEF newest
        <4> QED BY <4>1 DEF IInv, RunningHasServer
      <3> QED BY <3>1, <3>2
    <2> QED BY <1>1, <1>3, <2>1 DEF RunningHasServer
  <1>12. ReplacedStaysReported
    BY <1>3, <1>5 DEF ReplacedStaysReported
  <1> QED BY <1>6, <1>7, <1>8, <1>9, <1>10, <1>11, <1>12 DEF IInv, RegistryPart

-----------------------------------------------------------------------------
(* The theorems *)

LEMMA InitKeeps ==
    ASSUME Init
    PROVE  IInv
  <1>1. Registered = {} /\ DOMAIN runtimes = {} /\ servers \cup ended = {} /\ announced = {}
    BY DEF Init, Registered
  <1>2. TypeOK
    <2>1. request \in [Requests -> Creation]
      BY DEF Init, Creation
    <2>2. entries \in [Registered -> Entry] /\ runtimes \in [DOMAIN runtimes -> State]
      BY <1>1 DEF Init
    <2>3. bus \in Seq(Id)
      BY DEF Init
    <2> QED BY <1>1, <2>1, <2>2, <2>3 DEF Init, TypeOK
  <1>3. PortsApart /\ ServesItsPort /\ SitesAreCounted /\ AnnouncedExist
    BY <1>1 DEF PortsApart, ServesItsPort, SitesAreCounted, AnnouncedExist
  <1>4. MakeIsItsOwn /\ NoOrphanFiles /\ AnnouncedAreKnown
    BY DEF Init, MakeIsItsOwn, NoOrphanFiles, AnnouncedAreKnown
  <1>5. AttemptIsNewest /\ ServersAreOfAttempts /\ RunningHasServer
    BY <1>1 DEF Init, AttemptIsNewest, ServersAreOfAttempts, RunningHasServer
  <1> QED BY <1>2, <1>3, <1>4, <1>5 DEF IInv

\* Every step keeps the invariant, and what is reported replaced.
LEMMA StepKeeps ==
    ASSUME IInv, [Next]_vars
    PROVE  IInv' /\ ReplacedStaysReported
  <1>1. ASSUME UNCHANGED runtimes PROVE ReplacedStaysReported
    BY <1>1 DEF ReplacedStaysReported
  <1>2. ASSUME NEW ask \in Asks, MakeAtRepl(ask[1], ask[2]) PROVE IInv' /\ UNCHANGED runtimes
    BY <1>2, MakeAtReplKeeps DEF MakeAtRepl, Insert, running
  <1>3. ASSUME NEW ask \in Asks, NEW s \in Scripts, ask[1] # None,
               LoadScript(s, ask[1], ask[2])
        PROVE  IInv' /\ UNCHANGED runtimes
    BY <1>3, LoadScriptKeeps DEF LoadScript, Insert, running
  <1>4. ASSUME NEW ask \in Asks, NEW r \in Requests, Choose(r, ask[1], ask[2])
        PROVE  IInv' /\ UNCHANGED runtimes
    BY <1>4, ChooseKeeps DEF Choose, running
  <1>5. CASE Build
    BY <1>1, <1>5, BuildKeeps DEF Build, running
  <1>6. CASE FailToBuild
    BY <1>1, <1>6, FailToBuildKeeps DEF FailToBuild, running
  <1>7. ASSUME NEW r \in Requests, LoadCreated(r) PROVE IInv' /\ UNCHANGED runtimes
    BY <1>7, LoadCreatedKeeps DEF LoadCreated, Insert, running
  <1>8. ASSUME NEW r \in Requests, LoadRefused(r) PROVE IInv' /\ UNCHANGED runtimes
    BY <1>8, LoadRefusedKeeps DEF LoadRefused, running
  <1>9. ASSUME NEW r \in Requests, StartCreated(r) PROVE IInv' /\ ReplacedStaysReported
    BY <1>9, StartCreatedKeeps
  <1>10. CASE Subscribe
    BY <1>1, <1>10, SubscribeKeeps DEF Subscribe, running
  <1>11. CASE StartAll
    BY <1>1, <1>11, StartAllKeeps DEF StartAll, running
  <1>12. CASE StartNext
    BY <1>12, StartNextKeeps
  <1>13. CASE Hear
    BY <1>1, <1>13, HearKeeps DEF Hear, running
  <1>14. CASE HearLag
    BY <1>1, <1>14, HearLagKeeps DEF HearLag, running
  <1>15. CASE Bind
    BY <1>15, BindKeeps
  <1>16. CASE BindFails
    BY <1>16, BindFailsKeeps
  <1>17. CASE Spawn
    BY <1>1, <1>17, SpawnKeeps DEF Spawn
  <1>18. ASSUME NEW s \in servers, ServerEnds(s) PROVE IInv' /\ UNCHANGED runtimes
    BY <1>18, ServerEndsKeeps DEF ServerEnds
  <1>19. ASSUME NEW s \in ended, WatcherSees(s) PROVE IInv' /\ ReplacedStaysReported
    BY <1>19, WatcherSeesKeeps
  <1>20. CASE UNCHANGED vars
    <2>1. UNCHANGED <<entries, disk, interp, sites, announced, request, creating, listener,
                      bus, lagged, todo, runtimes, starting, servers, ended, Registered>>
          /\ UNCHANGED <<lisp, handlers, running>>
      BY <1>20 DEF vars, lisp, handlers, listening, running, Registered
    <2>2. listener' \in {"off", "subscribed", "live"} /\ bus' \in Seq(Id)
          /\ lagged' \in BOOLEAN /\ todo' \subseteq Id /\ AnnouncedAreKnown'
      BY <2>1 DEF IInv, TypeOK, AnnouncedAreKnown
    <2> QED BY <1>1, <2>1, <2>2, ListenerKeeps
  <1> QED BY <1>1, <1>2, <1>3, <1>4, <1>5, <1>6, <1>7, <1>8, <1>9, <1>10, <1>11, <1>12,
             <1>13, <1>14, <1>15, <1>16, <1>17, <1>18, <1>19, <1>20
          DEF Next, Listen, RunStart

\* The registry, its announcements and the runtimes stay as the invariant says
\* (microgrids.rs:165, runtime.rs:182).
THEOREM RegistryIsSound == Spec => []IInv
  <1>1. Init => IInv
    BY InitKeeps
  <1>2. IInv /\ [Next]_vars => IInv'
    BY StepKeeps
  <1> QED BY <1>1, <1>2, PTL DEF Spec

\* No two microgrids have one port, none has a reserved one, and a runtime is
\* bound to, or binds, the port its microgrid is registered with, whatever
\* order creates, reloads, forms and starts come in (defuns/microgrids.rs:272,
\* runtime.rs:182).
THEOREM PortsStayTrue == Spec => []PortsAreTrue
  <1>1. IInv => PortsAreTrue
    BY DEF IInv, PortsAreTrue
  <1> QED BY <1>1, RegistryIsSound, PTL

\* What was announced exists, is attempted once everything is quiet, however
\* many announcements were lost, and no create leaves a file behind
\* (defuns/microgrids.rs:390, runtime.rs:289, ui/handlers/microgrids.rs:205).
THEOREM AnnouncedStayReal == Spec => []AnnouncedAreReal
  <1>1. ASSUME IInv PROVE AnnouncedAreStarted
    <2>1. ASSUME Quiet, NEW i \in announced
          PROVE  i \in DOMAIN runtimes /\ runtimes[i].status # "starting"
      <3>1. i \in DOMAIN runtimes
        BY <1>1, <2>1 DEF IInv, AnnouncedAreKnown, Quiet
      <3>2. runtimes[i].status # "starting"
        BY <1>1, <2>1, <3>1 DEF IInv, AttemptIsNewest, Quiet
      <3> QED BY <3>1, <3>2
    <2> QED BY <2>1 DEF AnnouncedAreStarted
  <1>2. IInv => AnnouncedAreReal
    BY <1>1 DEF IInv, AnnouncedAreReal
  <1> QED BY <1>2, RegistryIsSound, PTL

\* A microgrid reported running has its newest attempt's server, and one whose
\* site was replaced stays reported as that (runtime.rs:85, 199, 247).
THEOREM StatusTellsOfItsServer == Spec => StatusIsOfItsServer
  <1>1. IInv => RunningHasServer
    BY DEF IInv
  <1>2. IInv /\ [Next]_vars => [ReplacedStaysReported]_vars
    BY StepKeeps
  <1>3. Spec => [][Next]_vars
    BY PTL DEF Spec
  <1> QED BY <1>1, <1>2, <1>3, RegistryIsSound, PTL DEF StatusIsOfItsServer

-----------------------------------------------------------------------------
(* The loopback: what its steps work on                                     *)

\* A structural change or a reset makes a shape that no earlier one is.
LEMMA ShapeGrows ==
    ASSUME NEW s \in Shape
    PROVE  /\ [s EXCEPT !.structural = @ + 1] \in Shape
           /\ [s EXCEPT !.structural = @ + 1].structural = s.structural + 1
           /\ [s EXCEPT !.structural = @ + 1].generation = s.generation
           /\ [s EXCEPT !.generation = @ + 1] \in Shape
           /\ [s EXCEPT !.generation = @ + 1].structural = s.structural
           /\ [s EXCEPT !.generation = @ + 1].generation = s.generation + 1
  BY DEF Shape

\* A forwarder's sample changes hands, and nothing else of it.
LEMMA HandChanges ==
    ASSUME NEW f \in Sample, NEW by \in {"old", "new", "aborted"}
    PROVE  /\ [f EXCEPT !.by = by] \in Sample /\ [f EXCEPT !.by = by].by = by
           /\ [f EXCEPT !.by = by].stream = f.stream /\ [f EXCEPT !.by = by].run = f.run
  BY DEF Sample

\* What a bus holds after a send and after a receive.
LEMMA BusKeeps ==
    ASSUME NEW q \in Seq({"topology", "sample"})
    PROVE  /\ \A e \in {"topology", "sample"} :
                /\ Append(q, e) \in Seq({"topology", "sample"})
                /\ Announced(q) \/ e = "topology" => Announced(Append(q, e))
           /\ q # <<>> =>
                /\ Tail(q) \in Seq({"topology", "sample"})
                /\ Announced(q) /\ Head(q) # "topology" => Announced(Tail(q))
  <1>1. ASSUME NEW e \in {"topology", "sample"}, Announced(q) \/ e = "topology"
        PROVE  Announced(Append(q, e))
    <2>1. CASE e = "topology"
      <3>1. Len(q) + 1 \in 1..Len(Append(q, e)) /\ Append(q, e)[Len(q) + 1] = "topology"
        BY <2>1
      <3> QED BY <3>1 DEF Announced
    <2>2. CASE Announced(q)
      <3>1. PICK i \in 1..Len(q) : q[i] = "topology"
        BY <2>2 DEF Announced
      <3>2. i \in 1..Len(Append(q, e)) /\ Append(q, e)[i] = "topology"
        BY <3>1
      <3> QED BY <3>2 DEF Announced
    <2> QED BY <1>1, <2>1, <2>2
  <1>2. ASSUME q # <<>>, Announced(q), Head(q) # "topology" PROVE Announced(Tail(q))
    <2>1. PICK i \in 1..Len(q) : q[i] = "topology"
      BY <1>2 DEF Announced
    <2>2. i # 1
      BY <1>2, <2>1
    <2>3. i - 1 \in 1..Len(Tail(q)) /\ Tail(q)[i - 1] = "topology"
      BY <1>2, <2>1, <2>2
    <2> QED BY <2>3 DEF Announced
  <1> QED BY <1>1, <1>2

\* A send makes room before it adds.
LEMMA SendKeeps ==
    ASSUME LoopbackTypeOK, NEW e \in {"topology", "sample"}, Send(e)
    PROVE  /\ queued' \in Seq({"topology", "sample"}) /\ missed' \in BOOLEAN
           /\ e = "topology" => Announced(queued')
           /\ missed \/ Announced(queued) => missed' \/ Announced(queued')
  <1>1. queued \in Seq({"topology", "sample"}) /\ missed \in BOOLEAN
    BY DEF LoopbackTypeOK
  <1>2. CASE Len(queued) < Capacity
    <2>1. queued' = Append(queued, e) /\ missed' = missed
      BY <1>2 DEF Send
    <2> QED BY <1>1, <2>1, BusKeeps
  <1>3. CASE ~(Len(queued) < Capacity)
    <2>1. queued' = Append(Tail(queued), e) /\ missed' = TRUE
      BY <1>3 DEF Send
    <2>2. queued # <<>>
      BY <1>1, <1>3, LoopbackAssumption
    <2>3. Tail(queued) \in Seq({"topology", "sample"})
      BY <1>1, <2>2, BusKeeps
    <2> QED BY <2>1, <2>3, BusKeeps
  <1> QED BY <1>2, <1>3

-----------------------------------------------------------------------------
(* The loopback: each part of its invariant, action by action               *)

\* Everything stays what it is.
LEMMA LoopbackTypeStays == LoopbackIInv /\ LoopbackNext => LoopbackTypeOK'
  <1> SUFFICES ASSUME LoopbackIInv, LoopbackNext PROVE LoopbackTypeOK'
    OBVIOUS
  <1>a. LoopbackTypeOK
    BY DEF LoopbackIInv
  <1>1. ASSUME NEW streams \in SUBSET Streams, Change(streams) PROVE LoopbackTypeOK'
    BY <1>a, <1>1 DEF Change, Calls, events, sup, fwd, caches, ghosts, LoopbackTypeOK, Stages
  <1>2. CASE Count
    <2>1. shape' \in Shape
      BY <1>a, <1>2, ShapeGrows DEF Count, LoopbackTypeOK
    <2> QED BY <1>a, <1>2, <2>1 DEF Count, events, sup, fwd, caches, ghosts, LoopbackTypeOK
  <1>3. CASE Remove
    <2>1. shape' \in Shape
      BY <1>a, <1>3, ShapeGrows DEF Remove, LoopbackTypeOK
    <2> QED BY <1>a, <1>3, <2>1 DEF Remove, events, sup, fwd, caches, ghosts, LoopbackTypeOK
  <1>4. CASE Reset
    <2>1. shape' \in Shape
      BY <1>a, <1>4, ShapeGrows DEF Reset, LoopbackTypeOK
    <2> QED BY <1>a, <1>4, <2>1 DEF Reset, events, sup, fwd, caches, LoopbackTypeOK
  <1>5. ASSUME NEW streams \in SUBSET Streams, Finish(streams) PROVE LoopbackTypeOK'
    BY <1>a, <1>5 DEF Finish, HalfDone, events, sup, fwd, caches, ghosts, LoopbackTypeOK, Stages
  <1>6. CASE Bump
    <2>1. queued' \in Seq({"topology", "sample"}) /\ missed' \in BOOLEAN
      BY <1>a, <1>6, SendKeeps DEF Bump
    <2> QED BY <1>a, <1>6, <2>1 DEF Bump, sup, fwd, caches, ghosts, LoopbackTypeOK
  <1>7. ASSUME NEW e \in {"topology", "sample"}, Poke(e) PROVE LoopbackTypeOK'
    <2>1. queued' \in Seq({"topology", "sample"}) /\ missed' \in BOOLEAN
      BY <1>a, <1>7, SendKeeps DEF Poke
    <2> QED BY <1>a, <1>7, <2>1 DEF Poke, sup, fwd, caches, ghosts, LoopbackTypeOK
  <1>8. CASE Receive
    <2>1. queued' \in Seq({"topology", "sample"})
      BY <1>a, <1>8, BusKeeps DEF Receive, LoopbackTypeOK
    <2> QED BY <1>a, <1>8, <2>1 DEF Receive, site, fwd, caches, ghosts, LoopbackTypeOK, Stages
  <1>9. CASE HearGap
    BY <1>a, <1>9 DEF HearGap, site, fwd, caches, ghosts, LoopbackTypeOK, Stages
  <1>10. CASE Swallow
    <2>1. queued' \in Seq({"topology", "sample"})
      BY <1>a, <1>10, BusKeeps DEF Swallow, LoopbackTypeOK
    <2> QED BY <1>a, <1>10, <2>1 DEF Swallow, site, sup, fwd, caches, ghosts, LoopbackTypeOK
  <1>11. CASE Debounced
    BY <1>a, <1>11 DEF Debounced, site, fwd, caches, ghosts, LoopbackTypeOK, Stages
  <1>12. CASE Check
    BY <1>a, <1>12 DEF Check, site, events, fwd, caches, ghosts, LoopbackTypeOK, Stages
  <1>13. CASE ReadGraph
    BY <1>a, <1>13 DEF ReadGraph, HalfDone, DropCursors, site, events, LoopbackTypeOK, Stages
  <1>14. CASE BuildFails
    BY <1>a, <1>14 DEF BuildFails, site, events, fwd, caches, ghosts, LoopbackTypeOK, Stages
  <1>15. CASE SubscribeAnew
    BY <1>a, <1>15 DEF SubscribeAnew, site, events, fwd, caches, ghosts, LoopbackTypeOK, Stages
  <1>16. CASE Abort
    <2>1. ASSUME NEW g \in inHand' PROVE g \in Sample
      <3>1. PICK f \in inHand : g = IF f.by = "old" THEN [f EXCEPT !.by = "aborted"] ELSE f
        BY <1>16, <2>1 DEF Abort
      <3>2. f \in Sample
        BY <1>a DEF LoopbackTypeOK
      <3> QED BY <3>1, <3>2, HandChanges
    <2> QED BY <1>a, <1>16, <2>1 DEF Abort, site, events, caches, ghosts, LoopbackTypeOK, Stages
  <1>17. CASE Prune
    BY <1>a, <1>17
       DEF Prune, ClearOnNewRun, DropCursors, site, events, fwd, ghosts, LoopbackTypeOK,
           Stages, Shape
  <1>18. CASE Retain
    BY <1>a, <1>18
       DEF Retain, Retained, DropCursors, site, events, fwd, ghosts, LoopbackTypeOK, Stages
  <1>19. CASE Swap
    <2>1. ASSUME NEW g \in inHand' PROVE g \in Sample
      <3>1. PICK f \in inHand : g = IF f.by = "new" THEN [f EXCEPT !.by = "old"] ELSE f
        BY <1>19, <2>1 DEF Swap
      <3>2. f \in Sample
        BY <1>a DEF LoopbackTypeOK
      <3> QED BY <3>1, <3>2, HandChanges
    <2> QED BY <1>a, <1>19, <2>1 DEF Swap, site, events, caches, ghosts, LoopbackTypeOK, Stages
  <1>20. ASSUME NEW by \in {"old", "new"}, NEW s \in Streams, Receives(by, s)
         PROVE  LoopbackTypeOK'
    <2>1. inHand' \subseteq Sample
      BY <1>a, <1>20 DEF Receives, LoopbackTypeOK, Shape, Sample
    <2> QED BY <1>a, <1>20, <2>1 DEF Receives, site, events, sup, caches, ghosts, LoopbackTypeOK
  <1>21. ASSUME NEW f \in inHand, Publish(f) PROVE LoopbackTypeOK'
    <2>1. f \in Sample
      BY <1>a DEF LoopbackTypeOK
    <2> QED BY <1>a, <1>21, <2>1 DEF Publish, site, events, sup, LoopbackTypeOK, Sample
  <1> QED BY <1>1, <1>2, <1>3, <1>4, <1>5, <1>6, <1>7, <1>8, <1>9, <1>10, <1>11, <1>12,
              <1>13, <1>14, <1>15, <1>16, <1>17, <1>18, <1>19, <1>20, <1>21
            DEF LoopbackNext, Supervise

\* No shape that the supervisor took is ahead of the site's.
LEMMA ShapesStillGrow == LoopbackIInv /\ LoopbackNext => ShapesGrow'
  <1> SUFFICES ASSUME LoopbackIInv, LoopbackNext PROVE ShapesGrow'
    OBVIOUS
  <1>a. LoopbackTypeOK /\ ShapesGrow
    BY DEF LoopbackIInv
  <1>1. CASE Count
    BY <1>a, <1>1, ShapeGrows
       DEF Count, events, sup, fwd, caches, ghosts, ShapesGrow, UpTo, LoopbackTypeOK, Shape
  <1>2. CASE Remove
    BY <1>a, <1>2, ShapeGrows
       DEF Remove, events, sup, fwd, caches, ghosts, ShapesGrow, UpTo, LoopbackTypeOK, Shape
  <1>3. CASE Reset
    BY <1>a, <1>3, ShapeGrows
       DEF Reset, events, sup, fwd, caches, ShapesGrow, UpTo, LoopbackTypeOK, Shape
  <1>4. CASE Check
    BY <1>a, <1>4
       DEF Check, site, events, fwd, caches, ghosts, ShapesGrow, UpTo, LoopbackTypeOK, Shape
  <1>5. CASE Prune
    BY <1>a, <1>5
       DEF Prune, ClearOnNewRun, DropCursors, site, events, fwd, ghosts, ShapesGrow, UpTo,
           LoopbackTypeOK, Shape
  <1>6. CASE Swap
    BY <1>a, <1>6
       DEF Swap, site, events, caches, ghosts, ShapesGrow, UpTo, LoopbackTypeOK, Shape
  <1>7. CASE \/ \E streams \in SUBSET Streams : Change(streams)
             \/ \E streams \in SUBSET Streams : Finish(streams)
             \/ \E e \in {"topology", "sample"} : Poke(e)
             \/ \E by \in {"old", "new"}, s \in Streams : Receives(by, s)
             \/ \E f \in inHand : Publish(f)
             \/ Bump \/ Receive \/ HearGap \/ Swallow \/ Debounced \/ ReadGraph
             \/ BuildFails \/ SubscribeAnew \/ Abort \/ Retain
    BY <1>a, <1>7
       DEF Change, Finish, Bump, Poke, Receive, HearGap, Swallow, Debounced, ReadGraph,
           BuildFails, SubscribeAnew, Abort, Retain, Receives, Publish, site, events, sup,
           fwd, caches, ghosts, ShapesGrow, UpTo, LoopbackTypeOK, Shape
  <1> QED BY <1>1, <1>2, <1>3, <1>4, <1>5, <1>6, <1>7 DEF LoopbackNext, Supervise

\* Old forwarders deliver until they are aborted, new ones once they are subscribed.
LEMMA HandsStillMatch == LoopbackIInv /\ LoopbackNext => HandsMatch'
  <1> SUFFICES ASSUME LoopbackIInv, LoopbackNext PROVE HandsMatch'
    OBVIOUS
  <1>a. LoopbackTypeOK /\ HandsMatch
    BY DEF LoopbackIInv
  <1>1. CASE Receive
    BY <1>a, <1>1 DEF Receive, site, fwd, caches, ghosts, HandsMatch, AfterAbort
  <1>2. CASE HearGap
    BY <1>a, <1>2 DEF HearGap, site, fwd, caches, ghosts, HandsMatch, AfterAbort
  <1>3. CASE Debounced
    BY <1>a, <1>3 DEF Debounced, site, fwd, caches, ghosts, HandsMatch, AfterAbort
  <1>4. CASE Check
    BY <1>a, <1>4 DEF Check, site, events, fwd, caches, ghosts, HandsMatch, AfterAbort
  <1>5. CASE ReadGraph
    BY <1>a, <1>5 DEF ReadGraph, HalfDone, DropCursors, site, events, HandsMatch, AfterAbort
  <1>6. CASE BuildFails
    BY <1>a, <1>6 DEF BuildFails, site, events, fwd, caches, ghosts, HandsMatch, AfterAbort
  <1>7. CASE SubscribeAnew
    BY <1>a, <1>7 DEF SubscribeAnew, site, events, fwd, caches, ghosts, HandsMatch, AfterAbort
  <1>8. CASE Abort
    <2>1. ASSUME NEW g \in inHand'
          PROVE  /\ g.by = "old" => g.stream \in old' /\ super' \notin AfterAbort
                 /\ g.by = "new" => g.stream \in new' /\ super' \in AfterAbort \cup {"abort"}
      <3>1. PICK f \in inHand : g = IF f.by = "old" THEN [f EXCEPT !.by = "aborted"] ELSE f
        BY <1>8, <2>1 DEF Abort
      <3>2. f \in Sample
        BY <1>a DEF LoopbackTypeOK
      <3>3. g.by # "old" /\ (g.by = "new" => g = f)
        BY <3>1, <3>2, HandChanges
      <3> QED BY <1>a, <1>8, <3>3 DEF Abort, HandsMatch, AfterAbort
    <2>2. super' \in AfterAbort => old' = {}
      BY <1>8 DEF Abort, AfterAbort
    <2> QED BY <2>1, <2>2 DEF HandsMatch
  <1>9. CASE Prune
    BY <1>a, <1>9
       DEF Prune, ClearOnNewRun, DropCursors, site, events, fwd, ghosts, HandsMatch,
           AfterAbort
  <1>10. CASE Retain
    BY <1>a, <1>10
       DEF Retain, Retained, DropCursors, site, events, fwd, ghosts, HandsMatch, AfterAbort
  <1>11. CASE Swap
    <2>1. ASSUME NEW g \in inHand'
          PROVE  /\ g.by = "old" => g.stream \in old' /\ super' \notin AfterAbort
                 /\ g.by = "new" => g.stream \in new' /\ super' \in AfterAbort \cup {"abort"}
      <3>1. PICK f \in inHand : g = IF f.by = "new" THEN [f EXCEPT !.by = "old"] ELSE f
        BY <1>11, <2>1 DEF Swap
      <3>2. f \in Sample
        BY <1>a DEF LoopbackTypeOK
      <3>3. f.by # "old"
        BY <1>a, <1>11 DEF Swap, HandsMatch, AfterAbort
      <3>4. g.by # "new" /\ (g.by = "old" => f.by = "new" /\ g.stream = f.stream)
        BY <3>1, <3>2, <3>3, HandChanges
      <3> QED BY <1>a, <1>11, <3>4 DEF Swap, HandsMatch, AfterAbort
    <2>2. super' \in AfterAbort => old' = {}
      BY <1>11 DEF Swap, AfterAbort
    <2> QED BY <2>1, <2>2 DEF HandsMatch
  <1>12. ASSUME NEW by \in {"old", "new"}, NEW s \in Streams, Receives(by, s) PROVE HandsMatch'
    <2> DEFINE g == [by |-> by, stream |-> s, run |-> shape.generation]
    <2>1. /\ by = "old" => s \in old /\ super \notin AfterAbort
          /\ by = "new" => s \in new /\ super \in AfterAbort \cup {"abort"}
      <3>1. CASE by = "old"
        BY <1>a, <1>12, <3>1 DEF Receives, Subscribed, HandsMatch
      <3>2. CASE by = "new"
        BY <1>12, <3>2 DEF Receives, Subscribed, AfterAbort
      <3> QED BY <3>1, <3>2
    <2>2. inHand' = inHand \cup {g} /\ super' = super /\ old' = old /\ new' = new
      BY <1>12 DEF Receives, sup
    <2> QED BY <1>a, <2>1, <2>2 DEF HandsMatch
  <1>13. ASSUME NEW f \in inHand, Publish(f) PROVE HandsMatch'
    BY <1>a, <1>13 DEF Publish, site, events, sup, HandsMatch, AfterAbort
  <1>14. CASE \/ \E streams \in SUBSET Streams : Change(streams)
              \/ \E streams \in SUBSET Streams : Finish(streams)
              \/ \E e \in {"topology", "sample"} : Poke(e)
              \/ Count \/ Remove \/ Reset \/ Bump \/ Swallow
    BY <1>a, <1>14
       DEF Change, Count, Remove, Reset, Finish, Bump, Poke, Swallow, site, events, sup,
           fwd, caches, ghosts, HandsMatch, AfterAbort
  <1> QED BY <1>1, <1>2, <1>3, <1>4, <1>5, <1>6, <1>7, <1>8, <1>9, <1>10, <1>11, <1>12,
              <1>13, <1>14
            DEF LoopbackNext, Supervise

\* A graph that stands for the site's shape is the site's.
LEMMA GraphsStillMirror == LoopbackIInv /\ LoopbackNext => GraphsMirror'
  <1> SUFFICES ASSUME LoopbackIInv, LoopbackNext PROVE GraphsMirror'
    OBVIOUS
  <1>a. LoopbackTypeOK /\ ShapesGrow /\ GraphsMirror
    BY DEF LoopbackIInv
  <1>1. ASSUME NEW streams \in SUBSET Streams, Change(streams) PROVE GraphsMirror'
    BY <1>a, <1>1
       DEF Change, Calls, events, sup, fwd, caches, ghosts, GraphsMirror, Mirrors, HalfDone,
           AfterAbort
  <1>2. CASE Count
    <2>1. shape' # target /\ (built # Never => shape' # built)
      BY <1>a, <1>2, ShapeGrows DEF Count, ShapesGrow, UpTo, LoopbackTypeOK, Shape
    <2>2. Never # shape'
      BY <1>a, <1>2, ShapeGrows, LoopbackAssumption DEF Count, LoopbackTypeOK, Shape
    <2> QED BY <1>2, <2>1, <2>2
            DEF Count, events, sup, fwd, caches, ghosts, GraphsMirror, Mirrors
  <1>3. CASE Remove
    <2>1. shape' # target /\ (built # Never => shape' # built)
      BY <1>a, <1>3, ShapeGrows DEF Remove, ShapesGrow, UpTo, LoopbackTypeOK, Shape
    <2>2. Never # shape'
      BY <1>a, <1>3, ShapeGrows, LoopbackAssumption DEF Remove, LoopbackTypeOK, Shape
    <2> QED BY <1>3, <2>1, <2>2
            DEF Remove, events, sup, fwd, caches, ghosts, GraphsMirror, Mirrors
  <1>4. CASE Reset
    <2>1. shape' # target /\ (built # Never => shape' # built)
      BY <1>a, <1>4, ShapeGrows DEF Reset, ShapesGrow, UpTo, LoopbackTypeOK, Shape
    <2>2. Never # shape'
      BY <1>a, <1>4, ShapeGrows, LoopbackAssumption DEF Reset, LoopbackTypeOK, Shape
    <2> QED BY <1>4, <2>1, <2>2 DEF Reset, events, sup, fwd, caches, GraphsMirror, Mirrors
  <1>5. ASSUME NEW streams \in SUBSET Streams, Finish(streams) PROVE GraphsMirror'
    BY <1>a, <1>5
       DEF Finish, HalfDone, events, sup, fwd, caches, ghosts, GraphsMirror, Mirrors,
           AfterAbort
  <1>6. CASE Bump
    BY <1>a, <1>6
       DEF Bump, Send, sup, fwd, caches, ghosts, GraphsMirror, Mirrors, HalfDone, AfterAbort
  <1>7. CASE Receive
    BY <1>a, <1>7
       DEF Receive, site, fwd, caches, ghosts, GraphsMirror, Mirrors, HalfDone, AfterAbort
  <1>8. CASE HearGap
    BY <1>a, <1>8
       DEF HearGap, site, fwd, caches, ghosts, GraphsMirror, Mirrors, HalfDone, AfterAbort
  <1>9. CASE Debounced
    BY <1>a, <1>9
       DEF Debounced, site, fwd, caches, ghosts, GraphsMirror, Mirrors, HalfDone, AfterAbort
  <1>10. CASE Check
    BY <1>a, <1>10
       DEF Check, site, events, fwd, caches, ghosts, GraphsMirror, Mirrors, HalfDone,
           AfterAbort
  <1>11. CASE ReadGraph
    BY <1>a, <1>11
       DEF ReadGraph, HalfDone, DropCursors, site, events, GraphsMirror, Mirrors, AfterAbort
  <1>12. CASE BuildFails
    BY <1>a, <1>12
       DEF BuildFails, site, events, fwd, caches, ghosts, GraphsMirror, Mirrors, HalfDone,
           AfterAbort
  <1>13. CASE SubscribeAnew
    BY <1>a, <1>13
       DEF SubscribeAnew, site, events, fwd, caches, ghosts, GraphsMirror, Mirrors,
           HalfDone, AfterAbort
  <1>14. CASE Abort
    BY <1>a, <1>14
       DEF Abort, site, events, caches, ghosts, GraphsMirror, Mirrors, HalfDone, AfterAbort
  <1>15. CASE Prune
    BY <1>a, <1>15
       DEF Prune, ClearOnNewRun, DropCursors, site, events, fwd, ghosts, GraphsMirror,
           Mirrors, HalfDone, AfterAbort
  <1>16. CASE Retain
    BY <1>a, <1>16
       DEF Retain, Retained, DropCursors, site, events, fwd, ghosts, GraphsMirror, Mirrors,
           HalfDone, AfterAbort
  <1>17. CASE Swap
    BY <1>a, <1>17
       DEF Swap, site, events, caches, ghosts, GraphsMirror, Mirrors, HalfDone, AfterAbort
  <1>18. CASE \/ \E e \in {"topology", "sample"} : Poke(e)
              \/ \E by \in {"old", "new"}, s \in Streams : Receives(by, s)
              \/ \E f \in inHand : Publish(f)
              \/ Swallow
    BY <1>a, <1>18
       DEF Poke, Swallow, Receives, Publish, site, events, sup, fwd, caches, ghosts,
           GraphsMirror, Mirrors, HalfDone, AfterAbort
  <1> QED BY <1>1, <1>2, <1>3, <1>4, <1>5, <1>6, <1>7, <1>8, <1>9, <1>10, <1>11, <1>12,
              <1>13, <1>14, <1>15, <1>16, <1>17, <1>18
            DEF LoopbackNext, Supervise

\* A shape that is not the supervisor's is heard of again.
LEMMA NothingIsStillLost == LoopbackIInv /\ LoopbackNext => NothingIsLost'
  <1> SUFFICES ASSUME LoopbackIInv, LoopbackNext PROVE NothingIsLost'
    OBVIOUS
  <1>a. LoopbackTypeOK /\ NothingIsLost
    BY DEF LoopbackIInv
  <1>1. ASSUME NEW streams \in SUBSET Streams, Change(streams) PROVE NothingIsLost'
    BY <1>a, <1>1
       DEF Change, Calls, events, sup, fwd, caches, ghosts, NothingIsLost, Pending, Building
  <1>2. CASE Count
    BY <1>a, <1>2 DEF Count, events, sup, fwd, caches, ghosts, NothingIsLost, Pending, Building
  <1>3. CASE Remove
    BY <1>a, <1>3
       DEF Remove, Calls, events, sup, fwd, caches, ghosts, NothingIsLost, Pending, Building
  <1>4. CASE Reset
    BY <1>a, <1>4 DEF Reset, Calls, events, sup, fwd, caches, NothingIsLost, Pending, Building
  <1>5. ASSUME NEW streams \in SUBSET Streams, Finish(streams) PROVE NothingIsLost'
    BY <1>a, <1>5
       DEF Finish, HalfDone, events, sup, fwd, caches, ghosts, NothingIsLost, Pending,
           Building
  <1>6. CASE Bump
    <2>1. Announced(queued')
      BY <1>a, <1>6, SendKeeps DEF Bump
    <2> QED BY <1>a, <1>6, <2>1
            DEF Bump, sup, fwd, caches, ghosts, NothingIsLost, Pending, Building
  <1>7. ASSUME NEW e \in {"topology", "sample"}, Poke(e) PROVE NothingIsLost'
    <2>1. missed \/ Announced(queued) => missed' \/ Announced(queued')
      BY <1>a, <1>7, SendKeeps DEF Poke
    <2> QED BY <1>a, <1>7, <2>1
            DEF Poke, sup, fwd, caches, ghosts, NothingIsLost, Pending, Building
  <1>8. CASE Receive
    <2>1. Announced(queued) /\ super' = "wait" => Announced(queued')
      BY <1>a, <1>8, BusKeeps DEF Receive, LoopbackTypeOK
    <2> QED BY <1>a, <1>8, <2>1
            DEF Receive, site, fwd, caches, ghosts, NothingIsLost, Pending, Building
  <1>9. CASE HearGap
    BY <1>a, <1>9 DEF HearGap, site, fwd, caches, ghosts, NothingIsLost, Pending, Building
  <1>10. CASE Swallow
    BY <1>a, <1>10 DEF Swallow, site, sup, fwd, caches, ghosts, NothingIsLost, Pending, Building
  <1>11. CASE Debounced
    BY <1>a, <1>11 DEF Debounced, site, fwd, caches, ghosts, NothingIsLost, Pending, Building
  <1>12. CASE Check
    BY <1>a, <1>12
       DEF Check, site, events, fwd, caches, ghosts, NothingIsLost, Pending, Building
  <1>13. CASE ReadGraph
    BY <1>a, <1>13
       DEF ReadGraph, HalfDone, DropCursors, site, events, NothingIsLost, Pending, Building
  <1>14. CASE BuildFails
    BY <1>a, <1>14
       DEF BuildFails, site, events, fwd, caches, ghosts, NothingIsLost, Pending, Building
  <1>15. CASE SubscribeAnew
    BY <1>a, <1>15
       DEF SubscribeAnew, site, events, fwd, caches, ghosts, NothingIsLost, Pending,
           Building
  <1>16. CASE Abort
    BY <1>a, <1>16 DEF Abort, site, events, caches, ghosts, NothingIsLost, Pending, Building
  <1>17. CASE Prune
    BY <1>a, <1>17
       DEF Prune, ClearOnNewRun, DropCursors, site, events, fwd, ghosts, NothingIsLost,
           Pending, Building
  <1>18. CASE Retain
    BY <1>a, <1>18
       DEF Retain, Retained, DropCursors, site, events, fwd, ghosts, NothingIsLost, Pending,
           Building
  <1>19. CASE Swap
    BY <1>a, <1>19 DEF Swap, site, events, caches, ghosts, NothingIsLost, Pending, Building
  <1>20. CASE \/ \E by \in {"old", "new"}, s \in Streams : Receives(by, s)
              \/ \E f \in inHand : Publish(f)
    BY <1>a, <1>20
       DEF Receives, Publish, site, events, sup, caches, ghosts, NothingIsLost, Pending,
           Building
  <1> QED BY <1>1, <1>2, <1>3, <1>4, <1>5, <1>6, <1>7, <1>8, <1>9, <1>10, <1>11, <1>12,
              <1>13, <1>14, <1>15, <1>16, <1>17, <1>18, <1>19, <1>20
            DEF LoopbackNext, Supervise

\* The caches hold what the forwarders publish.
LEMMA CachesStillFollow == LoopbackIInv /\ LoopbackNext => CachesFollow'
  <1> SUFFICES ASSUME LoopbackIInv, LoopbackNext PROVE CachesFollow'
    OBVIOUS
  <1>a. LoopbackTypeOK /\ HandsMatch /\ CachesFollow
    BY DEF LoopbackIInv
  <1>1. CASE Receive
    BY <1>a, <1>1
       DEF Receive, site, fwd, caches, ghosts, CachesFollow, HandsMatch, AfterAbort,
           LoopbackTypeOK
  <1>2. CASE HearGap
    BY <1>a, <1>2
       DEF HearGap, site, fwd, caches, ghosts, CachesFollow, HandsMatch, AfterAbort,
           LoopbackTypeOK
  <1>3. CASE Debounced
    BY <1>a, <1>3
       DEF Debounced, site, fwd, caches, ghosts, CachesFollow, HandsMatch, AfterAbort,
           LoopbackTypeOK
  <1>4. CASE Check
    BY <1>a, <1>4
       DEF Check, site, events, fwd, caches, ghosts, CachesFollow, HandsMatch, AfterAbort,
           LoopbackTypeOK
  <1>5. CASE ReadGraph
    BY <1>a, <1>5
       DEF ReadGraph, HalfDone, DropCursors, site, events, CachesFollow, HandsMatch,
           AfterAbort, LoopbackTypeOK
  <1>6. CASE BuildFails
    BY <1>a, <1>6
       DEF BuildFails, site, events, fwd, caches, ghosts, CachesFollow, HandsMatch,
           AfterAbort, LoopbackTypeOK
  <1>7. CASE SubscribeAnew
    BY <1>a, <1>7
       DEF SubscribeAnew, site, events, fwd, caches, ghosts, CachesFollow, HandsMatch,
           AfterAbort, LoopbackTypeOK
  <1>8. CASE Abort
    BY <1>a, <1>8
       DEF Abort, site, events, caches, ghosts, CachesFollow, HandsMatch, AfterAbort,
           LoopbackTypeOK
  <1>9. CASE Prune
    BY <1>a, <1>9
       DEF Prune, ClearOnNewRun, DropCursors, site, events, fwd, ghosts, CachesFollow,
           HandsMatch, AfterAbort, LoopbackTypeOK
  <1>10. CASE Retain
    BY <1>a, <1>10
       DEF Retain, Retained, DropCursors, site, events, fwd, ghosts, CachesFollow,
           HandsMatch, AfterAbort, LoopbackTypeOK
  <1>11. CASE Swap
    BY <1>a, <1>11
       DEF Swap, site, events, caches, ghosts, CachesFollow, HandsMatch, AfterAbort,
           LoopbackTypeOK
  <1>12. ASSUME NEW f \in inHand, Publish(f) PROVE CachesFollow'
    <2>1. f \in Sample
      BY <1>a DEF LoopbackTypeOK
    <2>2. latest' = latest \cup {f.stream} /\ super' = super /\ old' = old /\ new' = new
      BY <1>12 DEF Publish, sup
    <2>3. f.by \in {"old", "new", "aborted"} /\ late \subseteq late'
          /\ (f.by = "aborted" => f.stream \in late')
      BY <2>1, <1>12 DEF Publish, Sample
    <2> QED BY <1>a, <2>2, <2>3 DEF CachesFollow, HandsMatch, AfterAbort
  <1>13. CASE \/ \E streams \in SUBSET Streams : Change(streams)
              \/ \E streams \in SUBSET Streams : Finish(streams)
              \/ \E e \in {"topology", "sample"} : Poke(e)
              \/ \E by \in {"old", "new"}, s \in Streams : Receives(by, s)
              \/ Count \/ Remove \/ Reset \/ Bump \/ Swallow
    BY <1>a, <1>13
       DEF Change, Count, Remove, Reset, Finish, Bump, Poke, Swallow, Receives, site,
           events, sup, fwd, caches, ghosts, CachesFollow, HandsMatch, AfterAbort,
           LoopbackTypeOK
  <1> QED BY <1>1, <1>2, <1>3, <1>4, <1>5, <1>6, <1>7, <1>8, <1>9, <1>10, <1>11, <1>12,
              <1>13
            DEF LoopbackNext, Supervise

\* What a build holds is of the run it is for.
LEMMA SamplesStillOfThisRun == LoopbackIInv /\ LoopbackNext => SamplesAreOfThisRun'
  <1> SUFFICES ASSUME LoopbackIInv, LoopbackNext PROVE SamplesAreOfThisRun'
    OBVIOUS
  <1>a. LoopbackTypeOK /\ ShapesGrow /\ HandsMatch /\ SamplesAreOfThisRun
    BY DEF LoopbackIInv
  <1>1. CASE Count
    BY <1>a, <1>1
       DEF Count, events, sup, fwd, caches, ghosts, SamplesAreOfThisRun, AfterAbort,
           Building
  <1>2. CASE Remove
    BY <1>a, <1>2
       DEF Remove, Calls, events, sup, fwd, caches, ghosts, SamplesAreOfThisRun, AfterAbort,
           Building
  <1>3. CASE Reset
    <2>1. ~resetMidBuild' => ~resetMidBuild /\ ~Building
      BY <1>a, <1>3 DEF Reset, LoopbackTypeOK
    <2>2. ~Building => super \notin AfterAbort \cup {"abort"}
      BY DEF Building, AfterAbort
    <2>3. built # Never => built.generation # shape'.generation
      BY <1>a, <1>3, ShapeGrows DEF Reset, ShapesGrow, UpTo, LoopbackTypeOK, Shape
    <2>4. super' = super /\ built' = built /\ inHand' = inHand
      BY <1>3 DEF Reset, sup, fwd
    <2> QED BY <1>a, <2>1, <2>2, <2>3, <2>4 DEF SamplesAreOfThisRun, HandsMatch, Building
  <1>4. CASE Receive
    BY <1>a, <1>4
       DEF Receive, site, fwd, caches, ghosts, SamplesAreOfThisRun, AfterAbort, Building
  <1>5. CASE HearGap
    BY <1>a, <1>5
       DEF HearGap, site, fwd, caches, ghosts, SamplesAreOfThisRun, AfterAbort, Building
  <1>6. CASE Debounced
    BY <1>a, <1>6
       DEF Debounced, site, fwd, caches, ghosts, SamplesAreOfThisRun, AfterAbort, Building
  <1>7. CASE Check
    BY <1>a, <1>7
       DEF Check, site, events, fwd, caches, ghosts, SamplesAreOfThisRun, AfterAbort,
           Building
  <1>8. CASE ReadGraph
    BY <1>a, <1>8
       DEF ReadGraph, HalfDone, DropCursors, site, events, SamplesAreOfThisRun, AfterAbort,
           Building
  <1>9. CASE BuildFails
    BY <1>a, <1>9
       DEF BuildFails, site, events, fwd, caches, ghosts, SamplesAreOfThisRun, AfterAbort,
           Building
  <1>10. CASE SubscribeAnew
    BY <1>a, <1>10
       DEF SubscribeAnew, site, events, fwd, caches, ghosts, SamplesAreOfThisRun,
           AfterAbort, Building
  <1>11. CASE Abort
    <2>1. \A g \in inHand' : g.by = "new" => g \in inHand
      <3> SUFFICES ASSUME NEW g \in inHand'
                   PROVE  g.by = "new" => g \in inHand
        OBVIOUS
      <3>1. PICK f \in inHand : g = IF f.by = "old" THEN [f EXCEPT !.by = "aborted"] ELSE f
        BY <1>11 DEF Abort
      <3>2. f \in Sample
        BY <1>a DEF LoopbackTypeOK
      <3> QED BY <3>1, <3>2, HandChanges
    <2> QED BY <1>a, <1>11, <2>1
            DEF Abort, site, caches, ghosts, SamplesAreOfThisRun, Building, AfterAbort
  <1>12. CASE Prune
    BY <1>a, <1>12
       DEF Prune, ClearOnNewRun, DropCursors, site, events, fwd, ghosts,
           SamplesAreOfThisRun, AfterAbort, Building
  <1>13. CASE Retain
    BY <1>a, <1>13
       DEF Retain, Retained, DropCursors, site, events, fwd, ghosts, SamplesAreOfThisRun,
           AfterAbort, Building
  <1>14. CASE Swap
    <2>1. \A g \in inHand' : g.by # "new"
      <3> SUFFICES ASSUME NEW g \in inHand'
                   PROVE  g.by # "new"
        OBVIOUS
      <3>1. PICK f \in inHand : g = IF f.by = "new" THEN [f EXCEPT !.by = "old"] ELSE f
        BY <1>14 DEF Swap
      <3>2. f \in Sample
        BY <1>a DEF LoopbackTypeOK
      <3> QED BY <3>1, <3>2, HandChanges
    <2> QED BY <1>a, <1>14, <2>1
            DEF Swap, site, caches, ghosts, SamplesAreOfThisRun, Building, AfterAbort
  <1>15. ASSUME NEW by \in {"old", "new"}, NEW s \in Streams, Receives(by, s)
         PROVE  SamplesAreOfThisRun'
    BY <1>a, <1>15
       DEF Receives, Subscribed, site, events, sup, caches, ghosts, SamplesAreOfThisRun,
           AfterAbort, Building
  <1>16. ASSUME NEW f \in inHand, Publish(f) PROVE SamplesAreOfThisRun'
    BY <1>a, <1>16 DEF Publish, site, events, sup, SamplesAreOfThisRun, AfterAbort, Building
  <1>17. CASE \/ \E streams \in SUBSET Streams : Change(streams)
              \/ \E streams \in SUBSET Streams : Finish(streams)
              \/ \E e \in {"topology", "sample"} : Poke(e)
              \/ Bump \/ Swallow
    BY <1>a, <1>17
       DEF Change, Finish, Bump, Poke, Swallow, site, events, sup, fwd, caches, ghosts,
           SamplesAreOfThisRun, AfterAbort, Building
  <1> QED BY <1>1, <1>2, <1>3, <1>4, <1>5, <1>6, <1>7, <1>8, <1>9, <1>10, <1>11, <1>12,
              <1>13, <1>14, <1>15, <1>16, <1>17
            DEF LoopbackNext, Supervise

\* Totals cleared for this run gather it alone.
LEMMA TotalsStillOfThisRun == LoopbackIInv /\ LoopbackNext => TotalsAreOfThisRun'
  <1> SUFFICES ASSUME LoopbackIInv, LoopbackNext PROVE TotalsAreOfThisRun'
    OBVIOUS
  <1>a. LoopbackTypeOK /\ ShapesGrow /\ HandsMatch /\ SamplesAreOfThisRun /\ TotalsAreOfThisRun
    BY DEF LoopbackIInv
  <1>1. CASE Count
    BY <1>a, <1>1
       DEF Count, events, sup, fwd, caches, ghosts, TotalsAreOfThisRun, LoopbackTypeOK
  <1>2. CASE Remove
    BY <1>a, <1>2
       DEF Remove, Calls, events, sup, fwd, caches, ghosts, TotalsAreOfThisRun,
           LoopbackTypeOK
  <1>3. CASE Reset
    <2>1. energyRun' # shape'.generation
      BY <1>a, <1>3, ShapeGrows DEF Reset, caches, ShapesGrow, LoopbackTypeOK, Shape
    <2> QED BY <2>1 DEF TotalsAreOfThisRun
  <1>4. CASE ReadGraph
    <2>1. \A s \in Streams : cursor'[s] = Never
      BY <1>4 DEF ReadGraph, DropCursors
    <2> QED BY <1>a, <1>4, <2>1 DEF ReadGraph, site, TotalsAreOfThisRun
  <1>5. CASE Abort
    <2>1. \A g \in inHand' : g.by # "aborted" => g \in inHand
      <3> SUFFICES ASSUME NEW g \in inHand'
                   PROVE  g.by # "aborted" => g \in inHand
        OBVIOUS
      <3>1. PICK f \in inHand : g = IF f.by = "old" THEN [f EXCEPT !.by = "aborted"] ELSE f
        BY <1>5 DEF Abort
      <3>2. f \in Sample
        BY <1>a DEF LoopbackTypeOK
      <3> QED BY <3>1, <3>2, HandChanges
    <2> QED BY <1>a, <1>5, <2>1 DEF Abort, site, caches, ghosts, TotalsAreOfThisRun
  <1>6. CASE Prune
    <2>1. CASE energyRun = shape.generation
      BY <1>a, <1>6, <2>1 DEF Prune, ClearOnNewRun, site, fwd, ghosts, TotalsAreOfThisRun
    <2>2. CASE energyRun # shape.generation
      <3>1. \A s \in Streams : totals'[s] = {} /\ cursor'[s] = Never
        BY <1>6, <2>2 DEF Prune, ClearOnNewRun, DropCursors
      <3>2. ASSUME ~resetMidBuild, NEW f \in inHand, f.by # "aborted"
            PROVE  f.run = shape.generation
        <4>1. f.by = "new"
          <5>1. f \in Sample
            BY <1>a DEF LoopbackTypeOK
          <5> QED BY <1>a, <1>6, <3>2, <5>1 DEF Prune, HandsMatch, AfterAbort, Sample
        <4> QED BY <1>a, <3>2, <4>1 DEF SamplesAreOfThisRun
      <3> QED BY <1>6, <3>1, <3>2 DEF Prune, site, fwd, ghosts, TotalsAreOfThisRun
    <2> QED BY <2>1, <2>2
  <1>7. CASE Retain
    <2>1. \A s \in Streams : cursor'[s] = Never
      BY <1>7 DEF Retain, DropCursors
    <2> QED BY <1>a, <1>7, <2>1 DEF Retain, site, fwd, ghosts, TotalsAreOfThisRun
  <1>8. CASE Swap
    <2>1. \A g \in inHand' : g.by # "aborted" => \E f \in inHand : f.by # "aborted" /\ f.run = g.run
      <3> SUFFICES ASSUME NEW g \in inHand'
                   PROVE  g.by # "aborted" => \E f \in inHand : f.by # "aborted" /\ f.run = g.run
        OBVIOUS
      <3>1. PICK f \in inHand : g = IF f.by = "new" THEN [f EXCEPT !.by = "old"] ELSE f
        BY <1>8 DEF Swap
      <3>2. f \in Sample
        BY <1>a DEF LoopbackTypeOK
      <3> QED BY <3>1, <3>2, HandChanges
    <2> QED BY <1>a, <1>8, <2>1 DEF Swap, site, caches, ghosts, TotalsAreOfThisRun
  <1>9. ASSUME NEW by \in {"old", "new"}, NEW s \in Streams, Receives(by, s)
        PROVE  TotalsAreOfThisRun'
    BY <1>a, <1>9
       DEF Receives, Subscribed, site, events, sup, caches, ghosts, TotalsAreOfThisRun,
           LoopbackTypeOK
  <1>10. ASSUME NEW f \in inHand, Publish(f) PROVE TotalsAreOfThisRun'
    BY <1>a, <1>10 DEF Publish, site, events, sup, TotalsAreOfThisRun, LoopbackTypeOK
  <1>11. CASE \/ \E streams \in SUBSET Streams : Change(streams)
              \/ \E streams \in SUBSET Streams : Finish(streams)
              \/ \E e \in {"topology", "sample"} : Poke(e)
              \/ Bump \/ Receive \/ HearGap \/ Swallow \/ Debounced \/ Check \/ BuildFails
              \/ SubscribeAnew
    BY <1>a, <1>11
       DEF Change, Finish, Bump, Poke, Receive, HearGap, Swallow, Debounced, Check,
           BuildFails, SubscribeAnew, site, events, sup, fwd, caches, ghosts,
           TotalsAreOfThisRun, LoopbackTypeOK
  <1> QED BY <1>1, <1>2, <1>3, <1>4, <1>5, <1>6, <1>7, <1>8, <1>9, <1>10, <1>11
            DEF LoopbackNext, Supervise

-----------------------------------------------------------------------------
(* The loopback: the theorem                                                *)

LEMMA LoopbackStarts == LoopbackInit => LoopbackIInv
  <1> SUFFICES ASSUME LoopbackInit PROVE LoopbackIInv
    OBVIOUS
  <1>1. LoopbackTypeOK
    <2>1. shape \in Shape /\ target \in Shape /\ built \in Shape \cup {Never}
      BY DEF LoopbackInit, Shape
    <2>2. cursor \in [Streams -> Nat \cup {Never}] /\ totals \in [Streams -> SUBSET Nat]
      BY DEF LoopbackInit
    <2>3. queued \in Seq({"topology", "sample"})
      BY DEF LoopbackInit
    <2>4. {missed, failed, resetMidBuild, torn} \subseteq BOOLEAN
      <3>1. missed = FALSE /\ failed = FALSE /\ resetMidBuild = FALSE /\ torn = FALSE
        BY DEF LoopbackInit
      <3> QED BY <3>1
    <2> QED BY <2>1, <2>2, <2>3, <2>4 DEF LoopbackInit, LoopbackTypeOK, Stages
  <1>2. ShapesGrow /\ HandsMatch
    BY DEF LoopbackInit, ShapesGrow, UpTo, HandsMatch, AfterAbort
  <1>3. SamplesAreOfThisRun /\ TotalsAreOfThisRun
    BY DEF LoopbackInit, SamplesAreOfThisRun, TotalsAreOfThisRun, Building, AfterAbort
  <1>4. CachesFollow /\ NothingIsLost
    BY DEF LoopbackInit, CachesFollow, NothingIsLost, Building
  <1>5. GraphsMirror
    BY LoopbackAssumption DEF LoopbackInit, GraphsMirror, Mirrors, AfterAbort, HalfDone
  <1> QED BY <1>1, <1>2, <1>3, <1>4, <1>5 DEF LoopbackIInv

LEMMA LoopbackStays == LoopbackIInv /\ UNCHANGED loopbackVars => LoopbackIInv'
  <1> SUFFICES ASSUME LoopbackIInv, UNCHANGED loopbackVars PROVE LoopbackIInv'
    OBVIOUS
  <1>a. /\ UNCHANGED <<shape, metered, editor, pokes, queued, missed, super, target, built>>
        /\ UNCHANGED <<fails, failed, old, new, inHand, cursor, totals, energyRun, latest>>
        /\ UNCHANGED <<resetMidBuild, late, torn>>
    BY DEF loopbackVars, site, events, sup, fwd, caches, ghosts
  <1>1. LoopbackTypeOK' /\ ShapesGrow' /\ HandsMatch'
    BY <1>a DEF LoopbackIInv, LoopbackTypeOK, ShapesGrow, UpTo, HandsMatch
  <1>2. SamplesAreOfThisRun' /\ TotalsAreOfThisRun'
    BY <1>a DEF LoopbackIInv, SamplesAreOfThisRun, TotalsAreOfThisRun, Building
  <1>3. CachesFollow' /\ GraphsMirror' /\ NothingIsLost'
    BY <1>a DEF LoopbackIInv, CachesFollow, GraphsMirror, Mirrors, HalfDone, NothingIsLost,
                Pending, Building
  <1> QED BY <1>1, <1>2, <1>3 DEF LoopbackIInv

\* Energy totals hold nothing of an earlier run, the caches no stream the graph
\* has not, and a supervisor that waits with nothing to hear mirrors the site,
\* for any streams, any bus, and any number of changes, events and failed
\* builds (loopback.rs:126-246).
THEOREM LoopbackFollows == LoopbackSpec => []LoopbackMirrors
  <1>1. LoopbackIInv /\ [LoopbackNext]_loopbackVars => LoopbackIInv'
    BY LoopbackStays, LoopbackTypeStays, ShapesStillGrow, HandsStillMatch, GraphsStillMirror,
       NothingIsStillLost, CachesStillFollow, SamplesStillOfThisRun, TotalsStillOfThisRun
       DEF LoopbackIInv
  <1>2. LoopbackIInv => LoopbackMirrors
    <2> SUFFICES ASSUME LoopbackIInv PROVE LoopbackMirrors
      OBVIOUS
    <2>1. EnergyIsOfThisRun
      BY DEF LoopbackIInv, EnergyIsOfThisRun, SamplesAreOfThisRun, TotalsAreOfThisRun
    <2>2. CachesFollowGraph
      BY DEF LoopbackIInv, CachesFollowGraph, CachesFollow
    <2>3. GraphCatchesUp
      <3> SUFFICES ASSUME super = "wait", queued = <<>>, ~missed, editor = "idle", ~failed
                   PROVE  built = shape /\ (old = metered \/ torn)
        BY DEF GraphCatchesUp
      <3>1. ~Announced(queued)
        BY DEF Announced
      <3>2. built = shape
        BY <3>1 DEF LoopbackIInv, NothingIsLost, Pending
      <3>3. Mirrors(built, old)
        BY DEF LoopbackIInv, GraphsMirror
      <3> QED BY <3>2, <3>3 DEF Mirrors
    <2> QED BY <2>1, <2>2, <2>3 DEF LoopbackMirrors
  <1> QED BY <1>1, <1>2, LoopbackStarts, PTL DEF LoopbackSpec

-----------------------------------------------------------------------------
(* The push channel: what its steps work on                                 *)

\* A bus with an event more keeps its type and its bound, and drops nothing
\* but its oldest.
LEMMA SentShape ==
    ASSUME NEW S, NEW queue \in QueueOf(S), NEW e \in S, NEW capacity \in Nat \ {0},
           Len(queue.unread) <= capacity
    PROVE  LET sent == Sent(queue, e, capacity)
               before == queue.unread
           IN  /\ sent \in QueueOf(S) /\ Len(sent.unread) <= capacity
               /\ Len(sent.unread) \in Nat \ {0} /\ DOMAIN sent.unread = 1..Len(sent.unread)
               /\ queue.lagged => sent.lagged
               /\ \/ sent.unread = Append(before, e) /\ sent.lagged = queue.lagged
                  \/ sent.unread = Tail(Append(before, e)) /\ sent.lagged /\ Len(before) = capacity
  <1> DEFINE all == Append(queue.unread, e)
  <1>1. queue.unread \in Seq(S) /\ queue.lagged \in BOOLEAN
    BY DEF QueueOf
  <1>2. all \in Seq(S) /\ Len(all) = Len(queue.unread) + 1 /\ Len(queue.unread) \in Nat
    BY <1>1, AppendProperties, LenProperties
  <1>3. CASE Len(all) > capacity
    <2>1. Tail(all) \in Seq(S) /\ Len(Tail(all)) = Len(all) - 1
      BY <1>2, <1>3, HeadTailProperties, EmptySeq
    <2>2. Sent(queue, e, capacity) = [unread |-> Tail(all), lagged |-> TRUE]
      BY <1>3 DEF Sent
    <2>3. Len(queue.unread) = capacity
      BY <1>2, <1>3
    <2> HIDE DEF all
    <2>4. Len(Tail(all)) \in Nat \ {0} /\ Len(Tail(all)) <= capacity
          /\ DOMAIN Tail(all) = 1..Len(Tail(all))
      BY <1>2, <2>1, <2>3, LenProperties
    <2>5. /\ Sent(queue, e, capacity).unread = Tail(all)
          /\ Sent(queue, e, capacity).lagged = TRUE
          /\ Sent(queue, e, capacity) \in QueueOf(S)
      BY <2>1, <2>2 DEF QueueOf
    <2>6. /\ Len(Sent(queue, e, capacity).unread) <= capacity
          /\ Len(Sent(queue, e, capacity).unread) \in Nat \ {0}
          /\ DOMAIN Sent(queue, e, capacity).unread = 1..Len(Sent(queue, e, capacity).unread)
      BY <2>4, <2>5
    <2>7. Sent(queue, e, capacity).unread = Tail(Append(queue.unread, e))
      BY <2>5 DEF all
    <2> QED BY <2>3, <2>5, <2>6, <2>7
  <1>4. CASE Len(all) <= capacity
    <2>1. Sent(queue, e, capacity) = [queue EXCEPT !.unread = all]
      BY <1>2, <1>4 DEF Sent
    <2>2. /\ Sent(queue, e, capacity).unread = all
          /\ Sent(queue, e, capacity).lagged = queue.lagged
          /\ Sent(queue, e, capacity) \in QueueOf(S)
      BY <1>1, <1>2, <2>1 DEF QueueOf
    <2>3. DOMAIN all = 1..Len(all)
      BY <1>2, LenProperties
    <2> HIDE DEF all
    <2>4. Len(all) \in Nat \ {0}
      BY <1>2
    <2>5. /\ Len(Sent(queue, e, capacity).unread) <= capacity
          /\ Len(Sent(queue, e, capacity).unread) \in Nat \ {0}
          /\ DOMAIN Sent(queue, e, capacity).unread = 1..Len(Sent(queue, e, capacity).unread)
      BY <1>4, <2>2, <2>3, <2>4
    <2>6. Sent(queue, e, capacity).unread = Append(queue.unread, e)
      BY <2>2 DEF all
    <2> QED BY <2>2, <2>5, <2>6
  <1> QED BY <1>2, <1>3, <1>4

\* A bus after e was sent on it: what it held, d places up, and e last.
MovedUp(sent, queue, e, capacity, d) ==
    /\ Len(sent.unread) = Len(queue.unread) + 1 - d
    /\ d = 1 => sent.lagged /\ Len(queue.unread) = capacity
    /\ \A u \in 1..(Len(sent.unread) - 1) :
        u + d \in DOMAIN queue.unread /\ sent.unread[u] = queue.unread[u + d]
    /\ sent.unread[Len(sent.unread)] = e

\* What was there moves up by one or stays, and the new is last.
LEMMA SentItems ==
    ASSUME NEW S, NEW queue \in QueueOf(S), NEW e \in S, NEW capacity \in Nat \ {0},
           Len(queue.unread) <= capacity
    PROVE  \E d \in 0..1 : MovedUp(Sent(queue, e, capacity), queue, e, capacity, d)
  <1> DEFINE all == Append(queue.unread, e)
             sent == Sent(queue, e, capacity)
  <1>1. queue.unread \in Seq(S)
    BY DEF QueueOf
  <1>2. /\ all \in Seq(S) /\ Len(all) = Len(queue.unread) + 1 /\ Len(queue.unread) \in Nat
        /\ all[Len(queue.unread) + 1] = e
        /\ \A u \in 1..Len(queue.unread) : all[u] = queue.unread[u]
        /\ DOMAIN queue.unread = 1..Len(queue.unread)
    BY <1>1, AppendProperties, LenProperties
  <1>3. /\ \/ sent.unread = all /\ sent.lagged = queue.lagged
           \/ sent.unread = Tail(all) /\ sent.lagged /\ Len(queue.unread) = capacity
    BY SentShape
  <1> HIDE DEF all, sent
  <1>4. CASE sent.unread = all
    <2>1. /\ Len(sent.unread) = Len(queue.unread) + 1 - 0
          /\ \A u \in 1..(Len(sent.unread) - 1) :
               u + 0 \in DOMAIN queue.unread /\ sent.unread[u] = queue.unread[u + 0]
          /\ sent.unread[Len(sent.unread)] = e
      BY <1>2, <1>4
    <2> QED BY <1>4, <2>1 DEF sent, MovedUp
  <1>5. CASE sent.unread = Tail(all) /\ sent.lagged /\ Len(queue.unread) = capacity
    <2>1. /\ Len(Tail(all)) = Len(all) - 1
          /\ \A u \in 1..Len(Tail(all)) : Tail(all)[u] = all[u + 1]
      BY <1>2, HeadTailProperties, EmptySeq
    <2>2. /\ Len(sent.unread) = Len(queue.unread) + 1 - 1
          /\ \A u \in 1..(Len(sent.unread) - 1) :
               u + 1 \in DOMAIN queue.unread /\ sent.unread[u] = queue.unread[u + 1]
          /\ sent.unread[Len(sent.unread)] = e
      BY <1>2, <1>5, <2>1
    <2> QED BY <1>5, <2>2 DEF sent, MovedUp
  <1> QED BY <1>3, <1>4, <1>5

\* The new is in the bus, and so is the rest unless it was full: then its
\* oldest is gone and its reader told.
LEMMA SentKeeps ==
    ASSUME NEW S, NEW queue \in QueueOf(S), NEW e \in S, NEW capacity \in Nat \ {0},
           Len(queue.unread) <= capacity
    PROVE  LET sent == Sent(queue, e, capacity)
           IN  /\ e \in Unread(sent) /\ Unread(sent) \subseteq Unread(queue) \cup {e}
               /\ \A v \in Unread(queue) :
                    v \in Unread(sent) \/ (/\ sent.lagged /\ Len(queue.unread) = capacity
                                           /\ v = Head(queue.unread))
  <1> DEFINE sent == Sent(queue, e, capacity)
             before == queue.unread
  <1>0. PICK d \in 0..1 : MovedUp(sent, queue, e, capacity, d)
    BY SentItems
  <1>1. /\ Len(sent.unread) = Len(before) + 1 - d
        /\ d = 1 => sent.lagged /\ Len(before) = capacity
        /\ \A u \in 1..(Len(sent.unread) - 1) :
             u + d \in DOMAIN before /\ sent.unread[u] = before[u + d]
        /\ sent.unread[Len(sent.unread)] = e
    BY <1>0 DEF MovedUp
  <1>2. Len(sent.unread) \in Nat \ {0} /\ DOMAIN sent.unread = 1..Len(sent.unread)
    BY SentShape
  <1>3. before \in Seq(S) /\ Len(before) \in Nat /\ DOMAIN before = 1..Len(before)
    BY LenProperties DEF QueueOf
  <1> HIDE DEF sent
  <1>4. e \in Unread(sent)
    BY <1>1, <1>2 DEF Unread
  <1>5. Unread(sent) \subseteq Unread(queue) \cup {e}
    <2>1. ASSUME NEW u \in 1..Len(sent.unread) PROVE sent.unread[u] \in Unread(queue) \cup {e}
      <3>1. CASE u = Len(sent.unread)
        BY <1>1, <3>1
      <3>2. CASE u \in 1..(Len(sent.unread) - 1)
        BY <1>1, <3>2 DEF Unread
      <3> QED BY <1>2, <3>1, <3>2
    <2> QED BY <1>2, <2>1 DEF Unread
  <1>6. ASSUME NEW k \in DOMAIN before
        PROVE  before[k] \in Unread(sent) \/ (d = 1 /\ k = 1)
    <2>1. CASE k - d \in 1..(Len(sent.unread) - 1)
      <3>1. (k - d) + d = k
        BY <1>3
      <3>2. sent.unread[k - d] = before[k] /\ k - d \in DOMAIN sent.unread
        <4>1. ASSUME NEW u \in 1..(Len(sent.unread) - 1), u + d = k
              PROVE  sent.unread[u] = before[k] /\ u \in DOMAIN sent.unread
          BY <1>1, <1>2, <4>1
        <4> QED BY <2>1, <3>1, <4>1
      <3> QED BY <3>2 DEF Unread
    <2>2. CASE ~(k - d \in 1..(Len(sent.unread) - 1))
      BY <1>1, <1>3, <2>2
    <2> QED BY <2>1, <2>2
  <1>7. \A v \in Unread(queue) :
          v \in Unread(sent) \/ (sent.lagged /\ Len(before) = capacity /\ v = before[1])
    BY <1>1, <1>6 DEF Unread
  <1>8. Unread(queue) # {} => Head(before) = before[1]
    BY <1>3 DEF Unread
  <1> QED BY <1>4, <1>5, <1>7, <1>8 DEF sent

-----------------------------------------------------------------------------
\* Forwarders for ids nobody has one for: the old stay where they are, each
\* new one is of one of the ids, and each id has just one.
LEMMA SpawnShape ==
    ASSUME PushTypeOK, NEW ids \in SUBSET Listed
    PROVE  /\ WithForwarders(ids) \in Seq(ForwarderType)
           /\ DOMAIN forwarders \subseteq DOMAIN WithForwarders(ids)
           /\ \A f \in DOMAIN forwarders : WithForwarders(ids)[f] = forwarders[f]
           /\ \A f \in DOMAIN WithForwarders(ids) \ DOMAIN forwarders :
                \E i \in ids : WithForwarders(ids)[f] = Forwarder(i)
           /\ \A f, g \in DOMAIN WithForwarders(ids) \ DOMAIN forwarders :
                WithForwarders(ids)[f].id = WithForwarders(ids)[g].id => f = g
           /\ \A i \in ids : \E f \in DOMAIN WithForwarders(ids) :
                WithForwarders(ids)[f] = Forwarder(i)
  <1> DEFINE n == Cardinality(ids)
             fresh == InOrder(ids)
             more == [i \in DOMAIN fresh |-> Forwarder(fresh[i])]
             all == forwarders \o more
             L == Len(forwarders)
  <1>1. ids \in SUBSET MgIds /\ IsFiniteSet(ids)
    BY PushAssumption, FS_Subset DEF Listed
  <1>2. n \in Nat /\ fresh \in Bijection(1..n, ids)
    <2>1. n \in Nat /\ Bijection(1..n, ids) # {}
      BY <1>1, FS_CardinalityType DEF ExistsBijection
    <2> QED BY <2>1 DEF InOrder
  <1>3. /\ DOMAIN fresh = 1..n /\ \A k \in 1..n : fresh[k] \in ids
        /\ \A j, k \in 1..n : fresh[j] = fresh[k] => j = k
        /\ \A i \in ids : \E k \in 1..n : fresh[k] = i
    BY <1>2 DEF Bijection, Injection, Surjection, IsInjective
  <1> HIDE DEF fresh, n
  <1>4. \A i \in ids : Forwarder(i) \in ForwarderType /\ Forwarder(i).id = i
    <2> TAKE i \in ids
    <2>1. i \in MgIds /\ registry[i] \in Sites
      BY <1>1 DEF PushTypeOK, Listed
    <2>2. Queue \in QueueOf(Nat)
      BY EmptySeq DEF Queue, QueueOf
    <2> QED BY <2>1, <2>2 DEF Forwarder, ForwarderType
  <1>5. more \in Seq(ForwarderType) /\ Len(more) = n
    <2>1. more \in [1..n -> ForwarderType]
      BY <1>3, <1>4
    <2> QED BY <1>2, <2>1
  <1>6. \A k \in 1..n : more[k] = Forwarder(fresh[k])
    BY <1>3
  <1>7. forwarders \in Seq(ForwarderType) /\ L \in Nat /\ DOMAIN forwarders = 1..L
    BY LenProperties DEF PushTypeOK
  <1> HIDE DEF more, L
  <1>8. /\ all \in Seq(ForwarderType) /\ Len(all) = L + n
        /\ \A f \in 1..(L + n) : all[f] = IF f <= L THEN forwarders[f] ELSE more[f - L]
    BY <1>5, <1>7, ConcatProperties DEF L
  <1>9. DOMAIN all = 1..(L + n)
    BY <1>8, LenProperties
  <1>10. WithForwarders(ids) = all
    BY DEF WithForwarders, fresh, more
  <1> HIDE DEF all
  <1>11. \A f \in DOMAIN forwarders : f \in DOMAIN all /\ all[f] = forwarders[f]
    BY <1>2, <1>7, <1>8, <1>9
  <1>12. \A f \in DOMAIN all \ DOMAIN forwarders :
            f - L \in 1..n /\ all[f] = Forwarder(fresh[f - L])
    <2> TAKE f \in DOMAIN all \ DOMAIN forwarders
    <2>1. f \in 1..(L + n) /\ f \in Int /\ f > L
      BY <1>2, <1>7, <1>9
    <2>2. f - L \in 1..n
      BY <1>2, <1>7, <2>1
    <2>3. all[f] = more[f - L]
      BY <1>7, <1>8, <2>1
    <2> QED BY <1>6, <2>2, <2>3
  <1>13. \A f, g \in DOMAIN all \ DOMAIN forwarders : all[f].id = all[g].id => f = g
    <2> TAKE f, g \in DOMAIN all \ DOMAIN forwarders
    <2> HAVE all[f].id = all[g].id
    <2>1. f - L \in 1..n /\ g - L \in 1..n /\ fresh[f - L] = fresh[g - L]
      BY <1>3, <1>4, <1>12
    <2>2. f - L = g - L
      BY <1>3, <2>1
    <2>3. f \in Int /\ g \in Int
      BY <1>2, <1>7, <1>9
    <2> QED BY <1>7, <2>2, <2>3
  <1>14. ASSUME NEW i \in ids PROVE \E f \in DOMAIN all : all[f] = Forwarder(i)
    <2>1. PICK k \in 1..n : fresh[k] = i
      BY <1>3
    <2>2. L + k \in 1..(L + n) /\ ~(L + k <= L) /\ (L + k) - L = k
      BY <1>2, <1>7
    <2>3. all[L + k] = Forwarder(i)
      BY <1>6, <1>8, <2>1, <2>2
    <2> QED BY <1>9, <2>2, <2>3
  <1> QED BY <1>3, <1>8, <1>10, <1>11, <1>12, <1>13, <1>14

\* What is true of any forwarder and its bus.
LEMMA ForwarderFields ==
    ASSUME PushTypeOK
    PROVE  /\ DOMAIN forwarders = 1..Len(forwarders) /\ Len(forwarders) \in Nat
           /\ \A f \in DOMAIN forwarders :
                /\ forwarders[f] \in ForwarderType
                /\ forwarders[f].id \in MgIds /\ forwarders[f].site \in Sites
                /\ forwarders[f].queue \in QueueOf(Nat)
                /\ forwarders[f].hand \in Nat \cup {Nothing}
                /\ forwarders[f].queue.unread \in Seq(Nat)
                /\ forwarders[f].queue.lagged \in BOOLEAN
                /\ Len(forwarders[f].queue.unread) \in Nat
                /\ DOMAIN forwarders[f].queue.unread = 1..Len(forwarders[f].queue.unread)
                /\ \A u \in DOMAIN forwarders[f].queue.unread : forwarders[f].queue.unread[u] \in Nat
  <1>1. DOMAIN forwarders = 1..Len(forwarders) /\ Len(forwarders) \in Nat
    BY LenProperties DEF PushTypeOK
  <1>2. ASSUME NEW f \in DOMAIN forwarders PROVE forwarders[f] \in ForwarderType
    BY <1>1, ElementOfSeq DEF PushTypeOK
  <1>3. \A r \in ForwarderType :
          /\ r.id \in MgIds /\ r.site \in Sites /\ r.queue \in QueueOf(Nat)
          /\ r.hand \in Nat \cup {Nothing}
    BY DEF ForwarderType
  <1>4. \A q \in QueueOf(Nat) :
          /\ q.unread \in Seq(Nat) /\ q.lagged \in BOOLEAN
    BY DEF QueueOf
  <1>5. \A q \in Seq(Nat) :
          /\ Len(q) \in Nat /\ DOMAIN q = 1..Len(q)
          /\ \A u \in DOMAIN q : q[u] \in Nat
    BY LenProperties, ElementOfSeq
  <1>6. ASSUME NEW f \in DOMAIN forwarders
        PROVE  /\ forwarders[f].id \in MgIds /\ forwarders[f].site \in Sites
               /\ forwarders[f].queue \in QueueOf(Nat)
               /\ forwarders[f].hand \in Nat \cup {Nothing}
    BY <1>2, <1>3
  <1>7. ASSUME NEW f \in DOMAIN forwarders
        PROVE  /\ forwarders[f].queue.unread \in Seq(Nat)
               /\ forwarders[f].queue.lagged \in BOOLEAN
    BY <1>4, <1>6
  <1>8. ASSUME NEW f \in DOMAIN forwarders
        PROVE  /\ Len(forwarders[f].queue.unread) \in Nat
               /\ DOMAIN forwarders[f].queue.unread = 1..Len(forwarders[f].queue.unread)
               /\ \A u \in DOMAIN forwarders[f].queue.unread : forwarders[f].queue.unread[u] \in Nat
    BY <1>5, <1>7
  <1> QED BY <1>1, <1>2, <1>6, <1>7, <1>8

\* An event goes to the forwarders of its site and changes nothing else of
\* them.
LEMMA PublishedShape ==
    ASSUME PushTypeOK, ForwardersDiffer,
           NEW s \in Sites, NEW e \in Nat, Published(s, e)
    PROVE  /\ forwarders' \in Seq(ForwarderType) /\ DOMAIN forwarders' = DOMAIN forwarders
           /\ \A f \in DOMAIN forwarders :
                /\ forwarders'[f].id = forwarders[f].id /\ forwarders'[f].site = forwarders[f].site
                /\ forwarders'[f].hand = forwarders[f].hand
                /\ Len(forwarders'[f].queue.unread) <= EventRing
                /\ forwarders'[f].queue =
                     IF forwarders[f].site = s THEN Sent(forwarders[f].queue, e, EventRing)
                     ELSE forwarders[f].queue
  <1>1. ASSUME NEW f \in DOMAIN forwarders
        PROVE  /\ forwarders[f] \in ForwarderType
               /\ Sent(forwarders[f].queue, e, EventRing) \in QueueOf(Nat)
               /\ Len(Sent(forwarders[f].queue, e, EventRing).unread) <= EventRing
               /\ Len(forwarders[f].queue.unread) <= EventRing
    <2>1. forwarders[f].queue \in QueueOf(Nat) /\ forwarders[f] \in ForwarderType
      BY ForwarderFields
    <2>2. Len(forwarders[f].queue.unread) <= EventRing /\ EventRing \in Nat \ {0}
      BY PushAssumption DEF ForwardersDiffer
    <2> QED BY <2>1, <2>2, SentShape
  <1>2. \A r \in ForwarderType, q \in QueueOf(Nat) :
          /\ [r EXCEPT !.queue = q] \in ForwarderType
          /\ [r EXCEPT !.queue = q].id = r.id /\ [r EXCEPT !.queue = q].site = r.site
          /\ [r EXCEPT !.queue = q].hand = r.hand /\ [r EXCEPT !.queue = q].queue = q
    BY DEF ForwarderType
  <1>3. DOMAIN forwarders' = DOMAIN forwarders
    BY DEF Published
  <1>4. ASSUME NEW f \in DOMAIN forwarders
        PROVE  /\ forwarders'[f] \in ForwarderType
               /\ forwarders'[f].id = forwarders[f].id /\ forwarders'[f].site = forwarders[f].site
               /\ forwarders'[f].hand = forwarders[f].hand
               /\ Len(forwarders'[f].queue.unread) <= EventRing
               /\ forwarders'[f].queue =
                     IF forwarders[f].site = s THEN Sent(forwarders[f].queue, e, EventRing)
                     ELSE forwarders[f].queue
    <2>1. CASE forwarders[f].site = s
      <3>1. forwarders'[f] = [forwarders[f] EXCEPT !.queue = Sent(forwarders[f].queue, e, EventRing)]
        BY <2>1 DEF Published
      <3> QED BY <1>1, <1>2, <2>1, <3>1
    <2>2. CASE forwarders[f].site # s
      <3>1. forwarders'[f] = forwarders[f]
        BY <2>2 DEF Published
      <3> QED BY <1>1, <2>2, <3>1
    <2> QED BY <2>1, <2>2
  <1>5. forwarders' \in Seq(ForwarderType)
    <2>1. Len(forwarders) \in Nat /\ DOMAIN forwarders = 1..Len(forwarders)
      BY ForwarderFields
    <2>2. forwarders' \in [1..Len(forwarders) -> ForwarderType]
      <3>1. forwarders' = [f \in 1..Len(forwarders) |-> forwarders'[f]]
        BY <2>1 DEF Published
      <3> QED BY <1>4, <2>1, <3>1
    <2> QED BY <2>1, <2>2
  <1> QED BY <1>3, <1>4, <1>5

\* What a session spawns, for ids the registry holds.
LEMMA SpawnForShape ==
    ASSUME PushTypeOK, NEW ids \in SUBSET Listed, SpawnFor(ids)
    PROVE  /\ forwarders' \in Seq(ForwarderType) /\ known' = known \cup ids
           /\ DOMAIN forwarders \subseteq DOMAIN forwarders'
           /\ \A f \in DOMAIN forwarders : forwarders'[f] = forwarders[f]
           /\ \A f \in DOMAIN forwarders' \ DOMAIN forwarders :
                \E i \in ids \ known :
                    /\ forwarders'[f].id = i /\ forwarders'[f].site = registry[i]
                    /\ forwarders'[f].queue = Queue /\ forwarders'[f].hand = Nothing
           /\ \A f, g \in DOMAIN forwarders' \ DOMAIN forwarders :
                forwarders'[f].id = forwarders'[g].id => f = g
           /\ \A i \in ids \ known : \E f \in DOMAIN forwarders' : forwarders'[f].site = registry[i]
           /\ \A i \in ids : i \in MgIds /\ registry[i] \in Sites
  <1>1. ids \ known \in SUBSET Listed
    OBVIOUS
  <1>2. forwarders' = WithForwarders(ids \ known) /\ known' = known \cup ids
    BY DEF SpawnFor
  <1>3. \A i \in MgIds : /\ Forwarder(i).id = i /\ Forwarder(i).site = registry[i]
                         /\ Forwarder(i).queue = Queue /\ Forwarder(i).hand = Nothing
    BY DEF Forwarder
  <1>4. \A i \in ids : i \in MgIds /\ registry[i] \in Sites
    BY DEF Listed, PushTypeOK
  <1>5. /\ forwarders' \in Seq(ForwarderType)
        /\ DOMAIN forwarders \subseteq DOMAIN forwarders'
        /\ \A f \in DOMAIN forwarders : forwarders'[f] = forwarders[f]
        /\ \A f \in DOMAIN forwarders' \ DOMAIN forwarders :
             \E i \in ids \ known : forwarders'[f] = Forwarder(i)
        /\ \A f, g \in DOMAIN forwarders' \ DOMAIN forwarders :
             forwarders'[f].id = forwarders'[g].id => f = g
        /\ \A i \in ids \ known : \E f \in DOMAIN forwarders' : forwarders'[f] = Forwarder(i)
    <2> DEFINE all == WithForwarders(ids \ known)
    <2>1. /\ all \in Seq(ForwarderType)
          /\ DOMAIN forwarders \subseteq DOMAIN all
          /\ \A f \in DOMAIN forwarders : all[f] = forwarders[f]
          /\ \A f \in DOMAIN all \ DOMAIN forwarders :
               \E i \in ids \ known : all[f] = Forwarder(i)
          /\ \A f, g \in DOMAIN all \ DOMAIN forwarders :
               all[f].id = all[g].id => f = g
          /\ \A i \in ids \ known : \E f \in DOMAIN all : all[f] = Forwarder(i)
      BY <1>1, SpawnShape
    <2>2. forwarders' = all
      BY <1>2
    <2> HIDE DEF all
    <2> QED BY <2>1, <2>2
  <1>6. ASSUME NEW f \in DOMAIN forwarders' \ DOMAIN forwarders
        PROVE  \E i \in ids \ known :
                    /\ forwarders'[f].id = i /\ forwarders'[f].site = registry[i]
                    /\ forwarders'[f].queue = Queue /\ forwarders'[f].hand = Nothing
    <2>1. PICK i \in ids \ known : forwarders'[f] = Forwarder(i)
      BY <1>5
    <2> QED BY <1>3, <1>4, <2>1
  <1>7. ASSUME NEW i \in ids \ known
        PROVE  \E f \in DOMAIN forwarders' : forwarders'[f].site = registry[i]
    <2>1. PICK f \in DOMAIN forwarders' : forwarders'[f] = Forwarder(i)
      BY <1>5
    <2> QED BY <1>3, <1>4, <2>1
  <1> QED BY <1>2, <1>4, <1>5, <1>6, <1>7

\* The session spawns in three places, always for ids the registry holds.
LEMMA SpawnSteps ==
    ASSUME PushTypeOK, Snapshot \/ HearNotice \/ HearNoticeLag
    PROVE  /\ session' = "live" /\ UNCHANGED <<pushWorld, socketQueue, browser, doomed, outrun>>
           /\ \/ UNCHANGED <<forwarders, known>>
              \/ \E ids \in SUBSET Listed : SpawnFor(ids)
  <1>1. ASSUME NEW ids \in SUBSET Listed, SpawnFor(ids)
        PROVE  \E other \in SUBSET Listed : SpawnFor(other)
    BY <1>1
  <1>2. CASE Snapshot
    <2>1. SpawnFor(Listed)
      BY <1>2 DEF Snapshot
    <2>2. session' = "live" /\ UNCHANGED <<pushWorld, socketQueue, browser, doomed, outrun>>
      BY <1>2 DEF Snapshot
    <2> QED BY <1>1, <2>1, <2>2
  <1>3. CASE HearNoticeLag
    <2>1. SpawnFor(Listed)
      BY <1>3 DEF HearNoticeLag
    <2>2. session' = "live" /\ UNCHANGED <<pushWorld, socketQueue, browser, doomed, outrun>>
      BY <1>3 DEF HearNoticeLag
    <2> QED BY <1>1, <2>1, <2>2
  <1>4. CASE HearNotice
    <2>1. session' = "live" /\ UNCHANGED <<pushWorld, socketQueue, browser, doomed, outrun>>
      BY <1>4 DEF HearNotice
    <2>2. CASE Head(notices.unread) \in Listed
      <3>1. SpawnFor({Head(notices.unread)})
        BY <1>4, <2>2 DEF HearNotice, SpawnAnnounced
      <3>2. {Head(notices.unread)} \in SUBSET Listed
        BY <2>2
      <3> QED BY <1>1, <2>1, <3>1, <3>2
    <2>3. CASE Head(notices.unread) \notin Listed
      <3>1. UNCHANGED <<forwarders, known>>
        BY <1>4, <2>3 DEF HearNotice
      <3> QED BY <2>1, <3>1
    <2> QED BY <2>2, <2>3
  <1> QED BY <1>2, <1>3, <1>4

\* A forwarder takes an event ...
LEMMA TakeShape ==
    ASSUME PushTypeOK, NEW f \in DOMAIN forwarders, Take(f)
    PROVE  /\ forwarders' \in Seq(ForwarderType) /\ DOMAIN forwarders' = DOMAIN forwarders
           /\ \A g \in DOMAIN forwarders \ {f} : forwarders'[g] = forwarders[g]
           /\ forwarders'[f].id = forwarders[f].id /\ forwarders'[f].site = forwarders[f].site
           /\ forwarders[f].hand = Nothing
           /\ \/ /\ forwarders'[f].hand = Nothing
                 /\ forwarders'[f].queue.unread = forwarders[f].queue.unread
              \/ /\ forwarders[f].queue.unread # <<>>
                 /\ forwarders'[f].hand = forwarders[f].queue.unread[1]
                 /\ Len(forwarders'[f].queue.unread) = Len(forwarders[f].queue.unread) - 1
                 /\ forwarders'[f].queue.unread \in Seq(Nat)
                 /\ \A u \in 1..Len(forwarders'[f].queue.unread) :
                      forwarders'[f].queue.unread[u] = forwarders[f].queue.unread[u + 1]
  <1> DEFINE r == forwarders[f]
             unread == r.queue.unread
             told == [r EXCEPT !.queue.lagged = FALSE]
             took == [r EXCEPT !.hand = Head(unread), !.queue.unread = Tail(@)]
  <1>1. /\ r \in ForwarderType /\ r.queue \in QueueOf(Nat) /\ unread \in Seq(Nat)
        /\ DOMAIN forwarders = 1..Len(forwarders)
    BY ForwarderFields
  <1>2. r.hand = Nothing
    BY DEF Take
  <1>3. \A x \in ForwarderType :
          /\ [forwarders EXCEPT ![f] = x] \in Seq(ForwarderType)
          /\ DOMAIN [forwarders EXCEPT ![f] = x] = DOMAIN forwarders
          /\ [forwarders EXCEPT ![f] = x][f] = x
          /\ \A g \in DOMAIN forwarders \ {f} : [forwarders EXCEPT ![f] = x][g] = forwarders[g]
    BY <1>1, ExceptSeq DEF PushTypeOK
  <1>4. CASE r.queue.lagged
    <2>1. forwarders' = [forwarders EXCEPT ![f] = told]
      BY <1>4 DEF Take
    <2>2. /\ told \in ForwarderType /\ told.id = r.id /\ told.site = r.site /\ told.hand = r.hand
          /\ told.queue.unread = unread
      BY <1>1 DEF ForwarderType, QueueOf
    <2> QED BY <1>2, <1>3, <2>1, <2>2
  <1>5. CASE ~r.queue.lagged
    <2>1. forwarders' = [forwarders EXCEPT ![f] = took] /\ unread # <<>>
      BY <1>5 DEF Take
    <2>2. /\ Head(unread) = unread[1] /\ Head(unread) \in Nat /\ Tail(unread) \in Seq(Nat)
          /\ Len(Tail(unread)) = Len(unread) - 1
          /\ \A u \in 1..Len(Tail(unread)) : Tail(unread)[u] = unread[u + 1]
      BY <1>1, <2>1, HeadTailProperties
    <2>3. /\ took.id = r.id /\ took.site = r.site /\ took.hand = Head(unread)
          /\ took.queue.unread = Tail(unread) /\ took.queue.lagged = r.queue.lagged
          /\ took \in ForwarderType
      BY <1>1, <2>2 DEF ForwarderType, QueueOf
    <2> QED BY <1>2, <1>3, <2>1, <2>2, <2>3
  <1> QED BY <1>1, <1>4, <1>5 DEF QueueOf

\* ... and passes it on.
LEMMA PassShape ==
    ASSUME PushTypeOK, NEW f \in DOMAIN forwarders, Pass(f)
    PROVE  /\ forwarders' \in Seq(ForwarderType) /\ DOMAIN forwarders' = DOMAIN forwarders
           /\ \A g \in DOMAIN forwarders :
                /\ forwarders'[g].id = forwarders[g].id /\ forwarders'[g].site = forwarders[g].site
                /\ forwarders'[g].queue = forwarders[g].queue
                /\ forwarders'[g].hand = IF g = f THEN Nothing ELSE forwarders[g].hand
           /\ forwarders[f].hand \in Nat
           /\ socketQueue' \in Seq([site : Sites, event : Nat])
           /\ Len(socketQueue) \in Nat /\ DOMAIN socketQueue = 1..Len(socketQueue)
           /\ DOMAIN socketQueue' = 1..(Len(socketQueue) + 1)
           /\ \A k \in DOMAIN socketQueue : socketQueue'[k] = socketQueue[k]
           /\ socketQueue'[Len(socketQueue) + 1].site = forwarders[f].site
           /\ socketQueue'[Len(socketQueue) + 1].event = forwarders[f].hand
  <1> DEFINE r == forwarders[f]
             empty == [r EXCEPT !.hand = Nothing]
             sent == [site |-> r.site, event |-> r.hand]
  <1>1. r \in ForwarderType /\ DOMAIN forwarders = 1..Len(forwarders)
        /\ r.hand \in Nat \cup {Nothing} /\ r.site \in Sites
    BY ForwarderFields
  <1>2. forwarders' = [forwarders EXCEPT ![f] = empty] /\ r.hand # Nothing
    BY DEF Pass
  <1>3. /\ empty \in ForwarderType /\ empty.id = r.id /\ empty.site = r.site
        /\ empty.queue = r.queue /\ empty.hand = Nothing
    BY <1>1 DEF ForwarderType
  <1> HIDE DEF empty
  <1>4. /\ [forwarders EXCEPT ![f] = empty] \in Seq(ForwarderType)
        /\ DOMAIN [forwarders EXCEPT ![f] = empty] = DOMAIN forwarders
        /\ [forwarders EXCEPT ![f] = empty][f] = empty
        /\ \A g \in DOMAIN forwarders \ {f} : [forwarders EXCEPT ![f] = empty][g] = forwarders[g]
    BY <1>1, <1>3, ExceptSeq DEF PushTypeOK
  <1>5. socketQueue' = Append(socketQueue, sent)
    BY DEF Pass, PassOn
  <1>6. sent \in [site : Sites, event : Nat] /\ sent.site = r.site /\ sent.event = r.hand
    BY <1>1, <1>2
  <1> HIDE DEF sent
  <1>7. /\ socketQueue \in Seq([site : Sites, event : Nat]) /\ Len(socketQueue) \in Nat
        /\ DOMAIN socketQueue = 1..Len(socketQueue)
    BY LenProperties DEF PushTypeOK
  <1>8. /\ socketQueue' \in Seq([site : Sites, event : Nat])
        /\ DOMAIN socketQueue' = 1..(Len(socketQueue) + 1)
        /\ \A k \in DOMAIN socketQueue : socketQueue'[k] = socketQueue[k]
        /\ socketQueue'[Len(socketQueue) + 1] = sent
    BY <1>5, <1>6, <1>7, AppendProperties, LenProperties
  <1> QED BY <1>1, <1>2, <1>3, <1>4, <1>6, <1>7, <1>8

\* The pump takes the channel's first.
LEMMA PumpShape ==
    ASSUME PushTypeOK, Pump
    PROVE  /\ socketQueue' \in Seq([site : Sites, event : Nat])
           /\ Len(socketQueue) \in Nat /\ DOMAIN socketQueue = 1..Len(socketQueue)
           /\ socketQueue # <<>> /\ 1 \in DOMAIN socketQueue
           /\ socketQueue[1].site \in Sites /\ socketQueue[1].event \in Nat
           /\ DOMAIN socketQueue' = 1..(Len(socketQueue) - 1)
           /\ \A k \in DOMAIN socketQueue' : k + 1 \in DOMAIN socketQueue /\ socketQueue'[k] = socketQueue[k + 1]
           /\ \A k \in DOMAIN socketQueue \ {1} : k - 1 \in DOMAIN socketQueue'
           /\ browser' \in [Sites -> Seq(Nat)]
           /\ \A s \in Sites : browser'[s] =
                IF s = socketQueue[1].site /\ socketQueue[1].event # 0
                THEN Append(browser[s], socketQueue[1].event) ELSE browser[s]
  <1>1. /\ socketQueue \in Seq([site : Sites, event : Nat]) /\ Len(socketQueue) \in Nat
        /\ DOMAIN socketQueue = 1..Len(socketQueue)
    BY LenProperties DEF PushTypeOK
  <1>2. socketQueue # <<>> /\ socketQueue' = Tail(socketQueue) /\ Len(socketQueue) > 0
    BY <1>1, EmptySeq DEF Pump
  <1>3. socketQueue[1] \in [site : Sites, event : Nat] /\ Head(socketQueue) = socketQueue[1]
    <2>1. 1 \in 1..Len(socketQueue)
      BY <1>1, <1>2
    <2>2. Head(socketQueue) = socketQueue[1]
      BY <1>1, <1>2
    <2>3. socketQueue[1] \in [site : Sites, event : Nat]
      BY <1>1, <2>1, ElementOfSeq
    <2> QED BY <2>2, <2>3
  <1>4. socketQueue[1].site \in Sites /\ socketQueue[1].event \in Nat
    BY <1>3
  <1>5. /\ socketQueue' \in Seq([site : Sites, event : Nat])
        /\ Len(socketQueue') = Len(socketQueue) - 1
        /\ \A k \in 1..Len(socketQueue') : socketQueue'[k] = socketQueue[k + 1]
    BY <1>1, <1>2, HeadTailProperties
  <1>6. DOMAIN socketQueue' = 1..(Len(socketQueue) - 1)
    BY <1>5, LenProperties
  <1>7. browser \in [Sites -> Seq(Nat)]
    BY DEF PushTypeOK
  <1>8. browser' = IF socketQueue[1].event = 0 THEN browser
                   ELSE [browser EXCEPT ![socketQueue[1].site] = Append(@, socketQueue[1].event)]
    BY <1>3 DEF Pump
  <1>9. Append(browser[socketQueue[1].site], socketQueue[1].event) \in Seq(Nat)
    BY <1>4, <1>7, AppendProperties
  <1>10. browser' \in [Sites -> Seq(Nat)]
    BY <1>4, <1>7, <1>8, <1>9
  <1>11. \A s \in Sites : browser'[s] =
            IF s = socketQueue[1].site /\ socketQueue[1].event # 0
            THEN Append(browser[s], socketQueue[1].event) ELSE browser[s]
    BY <1>4, <1>7, <1>8
  <1> QED BY <1>1, <1>2, <1>4, <1>5, <1>6, <1>10, <1>11

-----------------------------------------------------------------------------
(* The push channel: types                                                  *)

\* Types.
\* Every step keeps the types.
LEMMA PushTypes == PushIInv /\ PushNext => PushTypeOK'
  <1> SUFFICES ASSUME PushIInv, PushNext PROVE PushTypeOK'
    OBVIOUS
  <1>a. PushTypeOK /\ ForwardersDiffer
    BY DEF PushIInv
  <1>1. ASSUME NEW id \in MgIds, MakeInserts(id) PROVE PushTypeOK'
    <2>1. made + 1 \in Sites /\ made + 1 \in 0..MaxSites
      BY <1>a, <1>1, PushAssumption DEF PushTypeOK, MakeInserts, Sites
    <2>2. registry' \in [MgIds -> {NoSite} \cup Sites] /\ made' \in 0..MaxSites
      BY <1>a, <1>1, <2>1 DEF PushTypeOK, MakeInserts
    <2>3. maker' \in [at : {"topology"}, id : MgIds, reused : BOOLEAN]
      BY <1>a, <1>1 DEF MakeInserts
    <2> QED BY <1>a, <1>1, <2>2, <2>3 DEF PushTypeOK, MakeInserts, client
  <1>2. ASSUME NEW id \in MgIds, Structure(id) PROVE PushTypeOK'
    <2>1. registry[id] \in Sites /\ version[registry[id]] + 1 \in Nat /\ version' \in [Sites -> Nat]
      BY <1>a, <1>2 DEF PushTypeOK, Structure
    <2>2. Published(registry[id], version[registry[id]] + 1)
      BY <1>2 DEF Structure
    <2>3. forwarders' \in Seq(ForwarderType)
      BY <1>a, <2>1, <2>2, PublishedShape
    <2> QED BY <1>a, <1>2, <2>1, <2>3 DEF PushTypeOK, Structure
  <1>3. ASSUME NEW id \in MgIds, SampleOut(id) PROVE PushTypeOK'
    <2>1. registry[id] \in Sites /\ 0 \in Nat /\ version' \in [Sites -> Nat]
      BY <1>a, <1>3 DEF PushTypeOK, SampleOut
    <2>2. Published(registry[id], 0)
      BY <1>3 DEF SampleOut
    <2>3. forwarders' \in Seq(ForwarderType)
      BY <1>a, <2>1, <2>2, PublishedShape
    <2> QED BY <1>a, <1>3, <2>1, <2>3 DEF PushTypeOK, SampleOut
  <1>4. CASE MakeFails
    BY <1>a, <1>4, PushAssumption DEF MakeFails, client, PushTypeOK
  <1>5. CASE MakeAnnounces
    <2>1. /\ Sent(notices, maker.id, Announcements) \in QueueOf(MgIds)
          /\ Len(Sent(notices, maker.id, Announcements).unread) <= Announcements
      <3>1. maker.id \in MgIds
        BY <1>a, <1>5 DEF PushTypeOK, MakeAnnounces, Idle
      <3>2. /\ notices \in QueueOf(MgIds) /\ Len(notices.unread) <= Announcements
            /\ Announcements \in Nat \ {0}
        BY <1>a, PushAssumption DEF PushTypeOK
      <3> QED BY <3>1, <3>2, SentShape
    <2>2. notices' \in QueueOf(MgIds) /\ Len(notices'.unread) <= Announcements
      BY <1>a, <1>5, <2>1 DEF PushTypeOK, MakeAnnounces
    <2> QED BY <1>a, <1>5, <2>2 DEF PushTypeOK, MakeAnnounces
  <1>6. CASE LogLine
    BY <1>a, <1>6, PushAssumption DEF LogLine, PushTypeOK
  <1>7. CASE Connect
    BY <1>a, <1>7, PushAssumption DEF Connect, pushWorld, PushTypeOK
  <1>8. CASE Snapshot
    <2>1. /\ forwarders' \in Seq(ForwarderType) /\ known' \in SUBSET MgIds
          /\ session' = "live" /\ UNCHANGED <<pushWorld, socketQueue, browser>>
      <3>1. CASE UNCHANGED <<forwarders, known>>
        BY <1>a, <1>8, <3>1, SpawnSteps DEF PushTypeOK
      <3>2. ASSUME NEW ids \in SUBSET Listed, SpawnFor(ids)
            PROVE  forwarders' \in Seq(ForwarderType) /\ known' \in SUBSET MgIds
        BY <1>a, <3>2, SpawnForShape DEF PushTypeOK
      <3> QED BY <1>a, <1>8, <3>1, <3>2, SpawnSteps
    <2>2. notices' \in QueueOf(MgIds) /\ Len(notices'.unread) <= Announcements
      BY <1>a, <1>8 DEF PushTypeOK, Snapshot
    <2> QED BY <1>a, <2>1, <2>2 DEF PushTypeOK, pushWorld
  <1>9. CASE HearNotice
    <2>1. /\ forwarders' \in Seq(ForwarderType) /\ known' \in SUBSET MgIds
          /\ session' = "live" /\ UNCHANGED <<pushWorld, socketQueue, browser>>
      <3>1. CASE UNCHANGED <<forwarders, known>>
        BY <1>a, <1>9, <3>1, SpawnSteps DEF PushTypeOK
      <3>2. ASSUME NEW ids \in SUBSET Listed, SpawnFor(ids)
            PROVE  forwarders' \in Seq(ForwarderType) /\ known' \in SUBSET MgIds
        BY <1>a, <3>2, SpawnForShape DEF PushTypeOK
      <3> QED BY <1>a, <1>9, <3>1, <3>2, SpawnSteps
    <2>2. notices' \in QueueOf(MgIds) /\ Len(notices'.unread) <= Announcements
      <3>1. notices \in QueueOf(MgIds) /\ notices.unread # <<>>
            /\ notices' = [notices EXCEPT !.unread = Tail(@)] /\ Len(notices.unread) <= Announcements
        BY <1>a, <1>9 DEF PushTypeOK, HearNotice
      <3>2. notices.unread \in Seq(MgIds)
        BY <3>1 DEF QueueOf
      <3>3. /\ Tail(notices.unread) \in Seq(MgIds) /\ Len(notices.unread) \in Nat
            /\ Len(Tail(notices.unread)) = Len(notices.unread) - 1
        BY <3>1, <3>2, HeadTailProperties, LenProperties
      <3>4. /\ notices' \in QueueOf(MgIds) /\ notices'.unread = Tail(notices.unread)
        BY <3>1, <3>3 DEF QueueOf
      <3> QED BY <3>1, <3>3, <3>4, PushAssumption
    <2> QED BY <1>a, <2>1, <2>2 DEF PushTypeOK, pushWorld
  <1>10. CASE HearNoticeLag
    <2>1. /\ forwarders' \in Seq(ForwarderType) /\ known' \in SUBSET MgIds
          /\ session' = "live" /\ UNCHANGED <<pushWorld, socketQueue, browser>>
      <3>1. CASE UNCHANGED <<forwarders, known>>
        BY <1>a, <1>10, <3>1, SpawnSteps DEF PushTypeOK
      <3>2. ASSUME NEW ids \in SUBSET Listed, SpawnFor(ids)
            PROVE  forwarders' \in Seq(ForwarderType) /\ known' \in SUBSET MgIds
        BY <1>a, <3>2, SpawnForShape DEF PushTypeOK
      <3> QED BY <1>a, <1>10, <3>1, <3>2, SpawnSteps
    <2>2. notices' \in QueueOf(MgIds) /\ Len(notices'.unread) <= Announcements
      BY <1>a, <1>10 DEF PushTypeOK, HearNoticeLag, QueueOf
    <2> QED BY <1>a, <2>1, <2>2 DEF PushTypeOK, pushWorld
  <1>11. ASSUME NEW f \in DOMAIN forwarders, Take(f) PROVE PushTypeOK'
    <2>1. forwarders' \in Seq(ForwarderType)
      BY <1>a, <1>11, TakeShape
    <2> QED BY <1>a, <1>11, <2>1 DEF PushTypeOK, Take, pushWorld
  <1>12. ASSUME NEW f \in DOMAIN forwarders, Pass(f) PROVE PushTypeOK'
    <2>1. forwarders' \in Seq(ForwarderType) /\ socketQueue' \in Seq([site : Sites, event : Nat])
      BY <1>a, <1>12, PassShape
    <2> QED BY <1>a, <1>12, <2>1 DEF PushTypeOK, Pass, pushWorld
  <1>13. CASE Pump
    <2>1. socketQueue' \in Seq([site : Sites, event : Nat]) /\ browser' \in [Sites -> Seq(Nat)]
      BY <1>a, <1>13, PumpShape
    <2> QED BY <1>a, <1>13, <2>1 DEF PushTypeOK, Pump, pushWorld
  <1>14. CASE PumpTap
    BY <1>a, <1>14, PushAssumption DEF PumpTap, pushWorld, PushTypeOK
  <1>15. CASE Close
    <2>1. /\ forwarders' \in Seq(ForwarderType) /\ socketQueue' \in Seq([site : Sites, event : Nat])
          /\ known' = {} /\ session' = "closed"
      BY <1>15, EmptySeq DEF Close
    <2>2. notices' \in QueueOf(MgIds) /\ Len(notices'.unread) <= Announcements
      <3>1. <<>> \in Seq(MgIds) /\ Len(<<>>) = 0 /\ notices' = Queue
        BY <1>15, EmptySeq DEF Close
      <3> QED BY <3>1, PushAssumption DEF Queue, QueueOf
    <2> QED BY <1>a, <1>15, <2>1, <2>2 DEF PushTypeOK, Close, pushWorld
    <1> QED BY <1>1, <1>2, <1>3, <1>4, <1>5, <1>6, <1>7, <1>8, <1>9, <1>10, <1>11, <1>12,
        <1>13, <1>14, <1>15 DEF PushNext

-----------------------------------------------------------------------------
(* The push channel: owners and forwarders                                  *)

\* The steps that leave what is on its way to the browser alone, ...
QuietPush ==
    \/ \E id \in MgIds : MakeInserts(id)
    \/ MakeFails \/ MakeAnnounces \/ LogLine \/ Connect \/ PumpTap

LEMMA QuietSteps ==
    QuietPush => UNCHANGED <<version, known, forwarders, socketQueue, browser, outrun>>
  BY DEF QuietPush, MakeInserts, MakeFails, MakeAnnounces, LogLine, Connect, PumpTap, client, pushWorld

\* ... those that publish on a site's bus, ...
LEMMA PublishSteps ==
    ASSUME PushTypeOK, NEW id \in MgIds, Structure(id) \/ SampleOut(id)
    PROVE  /\ UNCHANGED <<registry, maker, made, session, notices, known, socketQueue, browser, doomed>>
           /\ \E s \in Sites, e \in Nat :
                /\ Published(s, e)
                /\ \/ e = 0 /\ version' = version
                   \/ e = version[s] + 1 /\ version' = [version EXCEPT ![s] = e]
  <1>1. CASE Structure(id)
    <2>1. registry[id] \in Sites /\ version[registry[id]] + 1 \in Nat
      BY <1>1 DEF Structure, PushTypeOK
    <2>2. Published(registry[id], version[registry[id]] + 1)
      BY <1>1 DEF Structure
    <2>3. version' = [version EXCEPT ![registry[id]] = version[registry[id]] + 1]
      BY <1>1 DEF Structure
    <2>4. UNCHANGED <<registry, maker, made, session, notices, known, socketQueue, browser, doomed>>
      BY <1>1 DEF Structure
    <2> QED BY <2>1, <2>2, <2>3, <2>4
  <1>2. CASE SampleOut(id)
    <2>1. registry[id] \in Sites
      BY <1>2 DEF SampleOut, PushTypeOK
    <2>2. Published(registry[id], 0) /\ version' = version
      BY <1>2 DEF SampleOut
    <2>3. UNCHANGED <<registry, maker, made, session, notices, known, socketQueue, browser, doomed>>
      BY <1>2 DEF SampleOut
    <2> QED BY <2>1, <2>2, <2>3
  <1> QED BY <1>1, <1>2

\* ... and all kinds there are.
LEMMA KindsOfStep ==
    PushNext =>
        \/ QuietPush
        \/ \E id \in MgIds : Structure(id) \/ SampleOut(id)
        \/ Snapshot \/ HearNotice \/ HearNoticeLag
        \/ \E f \in DOMAIN forwarders : Take(f) \/ Pass(f)
        \/ Pump \/ Close
  BY DEF PushNext, QuietPush

\* A site that lost its entry is never another's: make-microgrid numbers on.
LEMMA SitesStayOwned == PushIInv /\ PushNext => SitesAreOwned'
  <1> SUFFICES ASSUME PushIInv, PushNext PROVE SitesAreOwned'
    OBVIOUS
  <1>a. PushTypeOK /\ SitesAreOwned
    BY DEF PushIInv
  <1>b. made \in Nat /\ \A i \in MgIds : registry[i] \in Nat
    BY <1>a, PushAssumption DEF PushTypeOK, Sites, NoSite
  <1>1. ASSUME NEW id \in MgIds, MakeInserts(id) PROVE SitesAreOwned'
    <2>1. CASE registry' = registry
      BY <1>a, <1>b, <1>1, <2>1 DEF SitesAreOwned, MakeInserts
    <2>2. CASE registry[id] = NoSite
      <3>1. registry' = [registry EXCEPT ![id] = made + 1] /\ made' = made + 1
        BY <1>1, <2>2 DEF MakeInserts
      <3>2. \A i \in MgIds : registry'[i] = IF i = id THEN made + 1 ELSE registry[i]
        BY <1>a, <3>1 DEF PushTypeOK
      <3> QED BY <1>a, <1>b, <3>1, <3>2 DEF SitesAreOwned
    <2> QED BY <1>1, <2>1, <2>2 DEF MakeInserts
  <1>2. CASE MakeFails
    <2>1. CASE registry' = registry
      BY <1>a, <1>2, <2>1 DEF SitesAreOwned, MakeFails
    <2>2. CASE registry' = [registry EXCEPT ![maker.id] = NoSite]
      <3>1. \A i \in MgIds : registry'[i] = NoSite \/ registry'[i] = registry[i]
        BY <1>a, <2>2 DEF PushTypeOK
      <3>2. made' = made /\ made >= NoSite
        BY <1>b, <1>2 DEF MakeFails, NoSite
      <3> QED BY <1>a, <3>1, <3>2 DEF SitesAreOwned
    <2> QED BY <1>2, <2>1, <2>2 DEF MakeFails
  <1>3. CASE UNCHANGED <<registry, made>>
    BY <1>a, <1>3 DEF SitesAreOwned
  <1>4. CASE MakeAnnounces \/ LogLine \/ Connect \/ PumpTap \/ Pump \/ Close
    BY <1>3, <1>4 DEF MakeAnnounces, LogLine, Connect, PumpTap, Pump, Close, pushWorld
  <1>5. ASSUME NEW id \in MgIds, Structure(id) \/ SampleOut(id) PROVE SitesAreOwned'
    BY <1>a, <1>3, <1>5, PublishSteps
  <1>6. CASE Snapshot \/ HearNotice \/ HearNoticeLag
    BY <1>a, <1>3, <1>6, SpawnSteps DEF pushWorld
  <1>7. ASSUME NEW f \in DOMAIN forwarders, Take(f) \/ Pass(f) PROVE SitesAreOwned'
    BY <1>3, <1>7 DEF Take, Pass, pushWorld
  <1> QED BY <1>1, <1>2, <1>4, <1>5, <1>6, <1>7, KindsOfStep DEF QuietPush

\* Two forwarders never share an id or a site: the session spawns for ids it
\* does not hold, and a site has one owner.
LEMMA ForwardersStayDifferent == PushIInv /\ PushNext => ForwardersDiffer'
  <1> SUFFICES ASSUME PushIInv, PushNext PROVE ForwardersDiffer'
    OBVIOUS
  <1>a. PushTypeOK /\ SitesAreOwned /\ ForwardersDiffer
    BY DEF PushIInv
  <1>b. made \in Nat /\ EventRing \in Nat \ {0} /\ Sites \subseteq Nat \ {NoSite}
    BY <1>a, PushAssumption DEF PushTypeOK, Sites, NoSite
  <1>c. \A f \in DOMAIN forwarders :
          /\ forwarders[f].id \in known /\ forwarders[f].site <= made
          /\ forwarders[f].site \in Sites
          /\ Len(forwarders[f].queue.unread) \in Nat
          /\ Len(forwarders[f].queue.unread) <= EventRing
          /\ \A i \in MgIds : registry[i] = forwarders[f].site => forwarders[f].id = i
    BY <1>a, ForwarderFields DEF ForwardersDiffer
  <1>d. \A f, g \in DOMAIN forwarders :
          f # g => forwarders[f].id # forwarders[g].id /\ forwarders[f].site # forwarders[g].site
    BY <1>a DEF ForwardersDiffer
  <1>1. CASE QuietPush
    <2>1. known' = known /\ forwarders' = forwarders
      BY <1>1, QuietSteps
    <2>2. made' \in Nat /\ made <= made'
      BY <1>b, <1>1 DEF QuietPush, MakeInserts, MakeFails, MakeAnnounces, LogLine, Connect, PumpTap, pushWorld
    <2>3. \A i \in MgIds, s \in Sites : s <= made /\ registry'[i] = s => registry[i] = s
      <3>1. ASSUME NEW id \in MgIds, MakeInserts(id)
            PROVE \A i \in MgIds : registry'[i] = registry[i] \/ registry'[i] = made + 1
        BY <1>a, <3>1 DEF PushTypeOK, MakeInserts
      <3>2. CASE MakeFails
        <4>1. \A i \in MgIds : registry'[i] = registry[i] \/ registry'[i] = NoSite
          BY <1>a, <3>2 DEF PushTypeOK, MakeFails
        <4> QED BY <1>b, <4>1
      <3>3. CASE MakeAnnounces \/ LogLine \/ Connect \/ PumpTap
        BY <3>3 DEF MakeAnnounces, LogLine, Connect, PumpTap, pushWorld
      <3> QED BY <1>b, <1>1, <3>1, <3>2, <3>3 DEF QuietPush
    <2>4. ASSUME NEW f \in DOMAIN forwarders'
          PROVE  /\ forwarders'[f].id \in known' /\ forwarders'[f].site <= made'
                 /\ Len(forwarders'[f].queue.unread) <= EventRing
                 /\ \A i \in MgIds : registry'[i] = forwarders'[f].site => forwarders'[f].id = i
      <3>1. /\ forwarders'[f].id \in known' /\ forwarders'[f].site <= made
            /\ forwarders'[f].site \in Sites /\ Len(forwarders'[f].queue.unread) <= EventRing
            /\ \A i \in MgIds : registry[i] = forwarders'[f].site => forwarders'[f].id = i
        BY <1>c, <2>1
      <3>2. forwarders'[f].site <= made'
        <4>1. forwarders'[f].site \in Nat
          BY <1>b, <3>1
        <4> QED BY <1>b, <2>2, <3>1, <4>1
      <3>3. ASSUME NEW i \in MgIds, registry'[i] = forwarders'[f].site
            PROVE  forwarders'[f].id = i
        <4>1. registry[i] = forwarders'[f].site
          BY <2>3, <3>1, <3>3
        <4> QED BY <3>1, <4>1
      <3> QED BY <3>1, <3>2, <3>3
    <2>5. \A f, g \in DOMAIN forwarders' :
            f # g => forwarders'[f].id # forwarders'[g].id /\ forwarders'[f].site # forwarders'[g].site
      BY <1>d, <2>1
    <2> QED BY <2>1, <2>4, <2>5 DEF ForwardersDiffer
  <1>2. ASSUME NEW id \in MgIds, Structure(id) \/ SampleOut(id) PROVE ForwardersDiffer'
    <2>1. PICK s \in Sites, e \in Nat : Published(s, e)
      BY <1>a, <1>2, PublishSteps
    <2>2. /\ DOMAIN forwarders' = DOMAIN forwarders
          /\ \A f \in DOMAIN forwarders :
               /\ forwarders'[f].id = forwarders[f].id /\ forwarders'[f].site = forwarders[f].site
               /\ Len(forwarders'[f].queue.unread) <= EventRing
      BY <1>a, <2>1, PublishedShape
    <2>3. UNCHANGED <<registry, made, known>>
      BY <1>a, <1>2, PublishSteps
    <2> QED BY <1>c, <1>d, <2>2, <2>3 DEF ForwardersDiffer
  <1>3. CASE Snapshot \/ HearNotice \/ HearNoticeLag
    <2>1. UNCHANGED <<registry, made>>
      BY <1>a, <1>3, SpawnSteps DEF pushWorld
    <2>2. CASE UNCHANGED <<forwarders, known>>
      BY <1>a, <2>1, <2>2 DEF ForwardersDiffer
    <2>3. ASSUME NEW ids \in SUBSET Listed, SpawnFor(ids) PROVE ForwardersDiffer'
      <3> DEFINE Begun(f) == f \in DOMAIN forwarders' \ DOMAIN forwarders
      <3>1. /\ known' = known \cup ids
            /\ DOMAIN forwarders \subseteq DOMAIN forwarders'
            /\ \A f \in DOMAIN forwarders : forwarders'[f] = forwarders[f]
            /\ \A f \in DOMAIN forwarders' \ DOMAIN forwarders :
                 \E i \in ids \ known :
                    /\ forwarders'[f].id = i /\ forwarders'[f].site = registry[i]
                    /\ forwarders'[f].queue = Queue /\ forwarders'[f].hand = Nothing
            /\ \A f, g \in DOMAIN forwarders' \ DOMAIN forwarders :
                 forwarders'[f].id = forwarders'[g].id => f = g
            /\ \A i \in ids : i \in MgIds /\ registry[i] \in Sites
        BY <1>a, <2>3, SpawnForShape
      <3>2. Len(Queue.unread) <= EventRing
        BY <1>b, EmptySeq DEF Queue
      <3>3. ASSUME NEW f, Begun(f)
            PROVE  /\ forwarders'[f].id \in ids \ known
                   /\ forwarders'[f].site = registry[forwarders'[f].id]
                   /\ Len(forwarders'[f].queue.unread) <= EventRing
        BY <3>1, <3>2, <3>3
      <3>4. \A i, j \in MgIds : registry[i] = registry[j] /\ registry[i] \in Sites => i = j
        BY <1>a, <1>b DEF SitesAreOwned
      <3>5. \A i \in MgIds : registry[i] <= made
        BY <1>a DEF SitesAreOwned
      <3>6. ASSUME NEW f \in DOMAIN forwarders'
            PROVE  /\ forwarders'[f].id \in known' /\ forwarders'[f].site <= made'
                   /\ Len(forwarders'[f].queue.unread) <= EventRing
                   /\ \A i \in MgIds : registry'[i] = forwarders'[f].site => forwarders'[f].id = i
        <4>1. CASE f \in DOMAIN forwarders
          BY <1>c, <2>1, <3>1, <4>1
        <4>2. CASE Begun(f)
          BY <2>1, <3>1, <3>3, <3>4, <3>5, <4>2
        <4> QED BY <4>1, <4>2
      <3>7. ASSUME NEW f \in DOMAIN forwarders', NEW g \in DOMAIN forwarders', f # g
            PROVE  /\ forwarders'[f].id # forwarders'[g].id
                   /\ forwarders'[f].site # forwarders'[g].site
        <4>1. CASE f \in DOMAIN forwarders /\ g \in DOMAIN forwarders
          BY <1>d, <3>1, <3>7, <4>1
        <4>2. CASE f \in DOMAIN forwarders /\ Begun(g)
          BY <1>c, <3>1, <3>3, <4>2
        <4>3. CASE Begun(f) /\ g \in DOMAIN forwarders
          BY <1>c, <3>1, <3>3, <4>3
        <4>4. CASE Begun(f) /\ Begun(g)
          BY <3>1, <3>3, <3>4, <3>7, <4>4
        <4> QED BY <4>1, <4>2, <4>3, <4>4
      <3> QED BY <3>6, <3>7 DEF ForwardersDiffer
    <2> QED BY <1>a, <1>3, <2>2, <2>3, SpawnSteps
  <1>4. ASSUME NEW f \in DOMAIN forwarders, Take(f) PROVE ForwardersDiffer'
    <2>1. UNCHANGED <<registry, made, known>>
      BY <1>4 DEF Take, pushWorld
    <2>2. /\ DOMAIN forwarders' = DOMAIN forwarders
          /\ \A g \in DOMAIN forwarders \ {f} : forwarders'[g] = forwarders[g]
          /\ forwarders'[f].id = forwarders[f].id /\ forwarders'[f].site = forwarders[f].site
          /\ \/ forwarders'[f].queue.unread = forwarders[f].queue.unread
             \/ Len(forwarders'[f].queue.unread) = Len(forwarders[f].queue.unread) - 1
      BY <1>a, <1>4, TakeShape
    <2>3. ASSUME NEW g \in DOMAIN forwarders
          PROVE  /\ forwarders'[g].id = forwarders[g].id /\ forwarders'[g].site = forwarders[g].site
                 /\ Len(forwarders'[g].queue.unread) <= EventRing
      BY <1>b, <1>c, <2>2
    <2> QED BY <1>c, <1>d, <2>1, <2>2, <2>3 DEF ForwardersDiffer
  <1>5. ASSUME NEW f \in DOMAIN forwarders, Pass(f) PROVE ForwardersDiffer'
    <2>1. UNCHANGED <<registry, made, known>>
      BY <1>5 DEF Pass, pushWorld
    <2>2. /\ DOMAIN forwarders' = DOMAIN forwarders
          /\ \A g \in DOMAIN forwarders :
                /\ forwarders'[g].id = forwarders[g].id /\ forwarders'[g].site = forwarders[g].site
                /\ forwarders'[g].queue = forwarders[g].queue
      BY <1>a, <1>5, PassShape
    <2> QED BY <1>c, <1>d, <2>1, <2>2 DEF ForwardersDiffer
  <1>6. CASE Pump
    BY <1>a, <1>6 DEF Pump, pushWorld, ForwardersDiffer
  <1>7. CASE Close
    <2>1. DOMAIN forwarders' = {}
      BY <1>7 DEF Close
    <2> QED BY <2>1 DEF ForwardersDiffer
  <1> QED BY <1>1, <1>2, <1>3, <1>4, <1>5, <1>6, <1>7, KindsOfStep

\* A step that keeps the forwarders there are keeps their sites served.
LEMMA SitesOfForwarders ==
    ASSUME PushTypeOK, ForwardersDiffer,
           \/ \E id \in MgIds : Structure(id) \/ SampleOut(id)
           \/ Snapshot \/ HearNotice \/ HearNoticeLag
           \/ \E f \in DOMAIN forwarders : Take(f) \/ Pass(f)
           \/ QuietPush \/ Pump
    PROVE  \A f \in DOMAIN forwarders :
             f \in DOMAIN forwarders' /\ forwarders'[f].site = forwarders[f].site
  <1>1. ASSUME NEW id \in MgIds, Structure(id) \/ SampleOut(id)
        PROVE  \A f \in DOMAIN forwarders :
                 f \in DOMAIN forwarders' /\ forwarders'[f].site = forwarders[f].site
    <2>1. PICK s \in Sites, e \in Nat : Published(s, e)
      BY <1>1, PublishSteps
    <2> QED BY <2>1, PublishedShape
  <1>2. CASE Snapshot \/ HearNotice \/ HearNoticeLag
    <2>1. CASE UNCHANGED <<forwarders, known>>
      BY <2>1
    <2>2. ASSUME NEW ids \in SUBSET Listed, SpawnFor(ids)
          PROVE  \A f \in DOMAIN forwarders :
                   f \in DOMAIN forwarders' /\ forwarders'[f].site = forwarders[f].site
      <3>1. DOMAIN forwarders \subseteq DOMAIN forwarders'
        BY <2>2, SpawnForShape
      <3>2. \A f \in DOMAIN forwarders : forwarders'[f] = forwarders[f]
        BY <2>2, SpawnForShape
      <3> QED BY <3>1, <3>2
    <2> QED BY <1>2, <2>1, <2>2, SpawnSteps
  <1>3. ASSUME NEW f \in DOMAIN forwarders, Take(f)
        PROVE  \A g \in DOMAIN forwarders :
                 g \in DOMAIN forwarders' /\ forwarders'[g].site = forwarders[g].site
    <2>1. /\ DOMAIN forwarders' = DOMAIN forwarders
          /\ \A g \in DOMAIN forwarders \ {f} : forwarders'[g] = forwarders[g]
          /\ forwarders'[f].site = forwarders[f].site
      BY <1>3, TakeShape
    <2> QED BY <2>1
  <1>4. ASSUME NEW f \in DOMAIN forwarders, Pass(f)
        PROVE  \A g \in DOMAIN forwarders :
                 g \in DOMAIN forwarders' /\ forwarders'[g].site = forwarders[g].site
    BY <1>4, PassShape
  <1>5. CASE QuietPush \/ Pump
    BY <1>5, QuietSteps DEF Pump
  <1> QED BY <1>1, <1>2, <1>3, <1>4, <1>5

\* A session holds nothing before it is live nor after it closed.
LEMMA HoldingIsOfTheLive == PushIInv /\ PushNext => OnlyLiveHold'
  <1> SUFFICES ASSUME PushIInv, PushNext PROVE OnlyLiveHold'
    OBVIOUS
  <1>a. PushTypeOK /\ OnlyLiveHold /\ ForwardersDiffer
    BY DEF PushIInv
  <1>1. CASE QuietPush
    <2>1. UNCHANGED <<known, forwarders, socketQueue>>
      BY <1>1, QuietSteps
    <2>2. session' = session \/ session = "off"
      BY <1>1 DEF QuietPush, MakeInserts, MakeFails, MakeAnnounces, LogLine, Connect, PumpTap, client
    <2>3. browser' = browser
      BY <1>1, QuietSteps
    <2> QED BY <1>a, <2>1, <2>2, <2>3 DEF OnlyLiveHold
  <1>2. ASSUME NEW id \in MgIds, Structure(id) \/ SampleOut(id) PROVE OnlyLiveHold'
    <2>1. PICK s \in Sites, e \in Nat : Published(s, e)
      BY <1>a, <1>2, PublishSteps
    <2>2. DOMAIN forwarders' = DOMAIN forwarders /\ forwarders' \in Seq(ForwarderType)
      BY <1>a, <2>1, PublishedShape
    <2>3. forwarders = <<>> => forwarders' = <<>>
      <3>1. ASSUME forwarders = <<>> PROVE Len(forwarders') = 0
        <4>1. DOMAIN forwarders = {}
          BY <3>1
        <4>2. DOMAIN forwarders' = 1..Len(forwarders') /\ Len(forwarders') \in Nat
          BY <2>2, LenProperties
        <4> QED BY <2>2, <4>1, <4>2
      <3> QED BY <2>2, <3>1, EmptySeq
    <2>4. UNCHANGED <<session, known, socketQueue, browser>>
      BY <1>a, <1>2, PublishSteps
    <2> QED BY <1>a, <2>3, <2>4 DEF OnlyLiveHold
  <1>3. CASE Snapshot \/ HearNotice \/ HearNoticeLag
    BY <1>a, <1>3, SpawnSteps DEF OnlyLiveHold
  <1>4. ASSUME NEW f \in DOMAIN forwarders, Take(f) \/ Pass(f) PROVE OnlyLiveHold'
    BY <1>4 DEF Take, Pass, OnlyLiveHold
  <1>5. CASE Pump
    BY <1>5 DEF Pump, OnlyLiveHold
  <1>6. CASE Close
    BY <1>6 DEF Close, OnlyLiveHold
  <1> QED BY <1>1, <1>2, <1>3, <1>4, <1>5, <1>6, KindsOfStep

\* An id a session holds keeps its forwarder, unless a creation failed under it.
LEMMA KnownStayServed == PushIInv /\ PushNext => KnownAreServed'
  <1> DEFINE Served(i) == \E f \in DOMAIN forwarders : forwarders[f].site = registry[i]
  <1> SUFFICES ASSUME PushIInv, PushNext PROVE KnownAreServed'
    OBVIOUS
  <1>a. PushTypeOK /\ ForwardersDiffer /\ OnlyLiveHold
    BY DEF PushIInv
  <1>b. known \in SUBSET MgIds /\ \A i \in known : i \in doomed \/ (registry[i] # NoSite /\ Served(i))
    BY <1>a DEF PushIInv, KnownAreServed, PushTypeOK
  <1>0. CASE Close
    BY <1>0 DEF Close, KnownAreServed
  <1>c. CASE ~Close
    <2>1. \A f \in DOMAIN forwarders :
             f \in DOMAIN forwarders' /\ forwarders'[f].site = forwarders[f].site
      BY <1>a, <1>c, KindsOfStep, SitesOfForwarders
    <2>2. ASSUME NEW i \in known, registry'[i] = registry[i], Served(i)
          PROVE  \E f \in DOMAIN forwarders' : forwarders'[f].site = registry'[i]
      BY <2>1, <2>2
    <2> HIDE DEF Served
    <2>3. ASSUME known' = known, \A i \in known :
                    \/ i \in doomed'
                    \/ i \notin doomed /\ registry'[i] = registry[i]
          PROVE  KnownAreServed'
      BY <1>b, <2>2, <2>3 DEF KnownAreServed
    <2>4. ASSUME UNCHANGED <<known, registry, doomed>> PROVE KnownAreServed'
      BY <2>3, <2>4
    <2>5. ASSUME NEW id \in MgIds, MakeInserts(id) PROVE KnownAreServed'
      <3>1. known' = known /\ doomed' = doomed
        BY <2>5 DEF MakeInserts, client
      <3>2. \A i \in MgIds : registry[i] # NoSite => registry'[i] = registry[i]
        BY <1>a, <2>5 DEF MakeInserts, PushTypeOK
      <3> QED BY <1>b, <2>3, <3>1, <3>2
    <2>6. CASE MakeFails
      <3>1. known' = known
        BY <2>6 DEF MakeFails, client
      <3>2. \A i \in MgIds : registry'[i] = registry[i] \/ i = maker.id
        BY <1>a, <2>6 DEF MakeFails, PushTypeOK
      <3>3. \/ doomed' = doomed /\ registry' = registry
            \/ doomed' = (IF maker.id \in known THEN doomed \cup {maker.id} ELSE doomed)
        BY <2>6 DEF MakeFails
      <3> QED BY <1>b, <2>3, <3>1, <3>2, <3>3
    <2>7. CASE QuietPush
      <3>1. CASE MakeAnnounces \/ LogLine \/ Connect \/ PumpTap
        BY <2>4, <3>1 DEF MakeAnnounces, LogLine, Connect, PumpTap, pushWorld
      <3> QED BY <2>5, <2>6, <2>7, <3>1 DEF QuietPush
    <2>8. ASSUME NEW id \in MgIds, Structure(id) \/ SampleOut(id) PROVE KnownAreServed'
      BY <1>a, <2>4, <2>8, PublishSteps
    <2>9. CASE Snapshot \/ HearNotice \/ HearNoticeLag
      <3>1. UNCHANGED <<registry, doomed>>
        BY <1>a, <2>9, SpawnSteps DEF pushWorld
      <3>2. CASE UNCHANGED <<forwarders, known>>
        BY <2>4, <3>1, <3>2
      <3>3. ASSUME NEW ids \in SUBSET Listed, SpawnFor(ids) PROVE KnownAreServed'
        <4>1. /\ known' = known \cup ids
              /\ \A i \in ids \ known : \E f \in DOMAIN forwarders' : forwarders'[f].site = registry[i]
              /\ \A i \in ids : registry[i] \in Sites
          BY <1>a, <3>3, SpawnForShape
        <4>2. \A i \in ids : registry[i] # NoSite
          BY <4>1 DEF Sites, NoSite
        <4>3. ASSUME NEW i \in known'
              PROVE  \/ i \in doomed'
                     \/ /\ registry'[i] # NoSite
                        /\ \E f \in DOMAIN forwarders' : forwarders'[f].site = registry'[i]
          <5>1. CASE i \in known
            BY <1>b, <2>2, <3>1, <5>1
          <5>2. CASE i \in ids \ known
            BY <3>1, <4>1, <4>2, <5>2
          <5> QED BY <4>1, <5>1, <5>2
        <4> QED BY <4>3 DEF KnownAreServed
      <3> QED BY <1>a, <2>9, <3>2, <3>3, SpawnSteps
    <2>10. ASSUME NEW f \in DOMAIN forwarders, Take(f) \/ Pass(f) PROVE KnownAreServed'
      BY <2>4, <2>10 DEF Take, Pass, pushWorld
    <2>11. CASE Pump
      BY <2>4, <2>11 DEF Pump, pushWorld
    <2> QED BY <1>c, <2>7, <2>8, <2>9, <2>10, <2>11, KindsOfStep
  <1> QED BY <1>0, <1>c

\* A microgrid that was announced is held, or still in the announcements, or
\* they lagged and the registry is read again.
LEMMA NobodyIsForgotten == PushIInv /\ PushNext => MissingAreAnnounced'
  <1> SUFFICES ASSUME PushIInv, PushNext PROVE MissingAreAnnounced'
    OBVIOUS
  <1>a. PushTypeOK /\ OnlyLiveHold /\ MissingAreAnnounced
    BY DEF PushIInv
  <1>b. notices \in QueueOf(MgIds) /\ Len(notices.unread) <= Announcements
    BY <1>a DEF PushTypeOK
  <1>1. ASSUME session' = session, known' = known, notices' = notices,
               \A i \in MgIds : (registry'[i] # NoSite /\ ~Unannounced(i)') => Settled(i)
        PROVE  MissingAreAnnounced'
    BY <1>a, <1>1 DEF MissingAreAnnounced, Settled
  <1>2. ASSUME UNCHANGED <<session, known, notices, registry, maker>>
        PROVE  MissingAreAnnounced'
    BY <1>1, <1>2 DEF Settled, Unannounced
  <1>3. ASSUME NEW id \in MgIds, MakeInserts(id) PROVE MissingAreAnnounced'
    <2>1. /\ maker = Idle /\ maker' = [at |-> "topology", id |-> id, reused |-> registry[id] # NoSite]
          /\ session' = session /\ known' = known /\ notices' = notices
      BY <1>3 DEF MakeInserts, client
    <2>2. \A i \in MgIds : ~Unannounced(i)
      BY <2>1 DEF Unannounced, Idle
    <2>3. \A i \in MgIds : i # id => registry'[i] = registry[i]
      BY <1>a, <1>3 DEF MakeInserts, PushTypeOK
    <2>4. registry[id] = NoSite => Unannounced(id)'
      BY <2>1 DEF Unannounced
    <2> QED BY <1>1, <2>1, <2>2, <2>3, <2>4 DEF Settled
  <1>4. CASE MakeFails
    <2>1. /\ maker.at = "topology" /\ maker' = Idle
          /\ session' = session /\ known' = known /\ notices' = notices
      BY <1>4 DEF MakeFails, client
    <2>2. CASE maker.reused
      <3>1. registry' = registry /\ \A i \in MgIds : ~Unannounced(i)
        BY <1>4, <2>2 DEF MakeFails, Unannounced
      <3> QED BY <1>1, <2>1, <3>1 DEF Settled
    <2>3. CASE ~maker.reused
      <3>1. registry' = [registry EXCEPT ![maker.id] = NoSite]
        BY <1>4, <2>3 DEF MakeFails
      <3>2. \A i \in MgIds : registry'[i] # NoSite => registry[i] # NoSite /\ i # maker.id
        BY <1>a, <3>1 DEF PushTypeOK
      <3> QED BY <1>1, <2>1, <3>2 DEF Settled, Unannounced
    <2> QED BY <2>2, <2>3
  <1>5. CASE MakeAnnounces
    <2>1. /\ maker.at = "topology" /\ UNCHANGED <<registry, session, known>>
      BY <1>5 DEF MakeAnnounces
    <2>2. CASE session # "live"
      BY <2>1, <2>2 DEF MissingAreAnnounced
    <2>3. CASE session = "live"
      <3> DEFINE sent == Sent(notices, maker.id, Announcements)
      <3>1. notices' = sent
        BY <1>5, <2>3 DEF MakeAnnounces
      <3>2. maker.id \in MgIds
        BY <1>a, <2>1 DEF PushTypeOK, Idle
      <3>3. Announcements \in Nat \ {0}
        BY PushAssumption
      <3>4. /\ maker.id \in Unread(sent)
            /\ notices.lagged => sent.lagged
            /\ \A v \in Unread(notices) : v \in Unread(sent) \/ sent.lagged
        <4>1. maker.id \in Unread(sent) /\ \A v \in Unread(notices) : v \in Unread(sent) \/ sent.lagged
          BY <1>b, <3>2, <3>3, SentKeeps
        <4>2. notices.lagged => sent.lagged
          BY <1>b, <3>2, <3>3, SentShape
        <4> QED BY <4>1, <4>2
      <3> HIDE DEF sent
      <3>5. ASSUME NEW i \in MgIds, registry[i] # NoSite
            PROVE  i \in known \/ sent.lagged \/ i \in Unread(sent)
        <4>1. CASE i = maker.id
          BY <3>4, <4>1
        <4>2. CASE i # maker.id
          <5>1. Settled(i)
            BY <3>5, <4>2 DEF Settled, Unannounced
          <5> QED BY <1>a, <2>3, <3>4, <5>1 DEF MissingAreAnnounced
        <4> QED BY <4>1, <4>2
      <3>6. ASSUME NEW i \in MgIds, registry'[i] # NoSite
            PROVE  i \in known' \/ notices'.lagged \/ i \in Unread(notices')
        BY <2>1, <3>1, <3>5, <3>6
      <3> QED BY <3>6 DEF MissingAreAnnounced, Settled, Unread
    <2> QED BY <2>2, <2>3
  <1>6. CASE LogLine \/ PumpTap \/ Pump
    BY <1>2, <1>6 DEF LogLine, PumpTap, Pump, pushWorld
  <1>7. CASE Connect \/ Close
    BY <1>7 DEF Connect, Close, MissingAreAnnounced
  <1>8. ASSUME NEW id \in MgIds, Structure(id) \/ SampleOut(id) PROVE MissingAreAnnounced'
    BY <1>a, <1>2, <1>8, PublishSteps
  <1>9. CASE Snapshot \/ HearNoticeLag
    <2>1. SpawnFor(Listed) /\ UNCHANGED <<registry, maker>>
      BY <1>9 DEF Snapshot, HearNoticeLag, pushWorld
    <2>2. \A i \in MgIds : registry'[i] # NoSite => i \in known'
      BY <2>1 DEF SpawnFor, Listed
    <2> QED BY <2>2 DEF MissingAreAnnounced, Settled
  <1>10. CASE HearNotice
    <2> DEFINE head == Head(notices.unread)
    <2>1. /\ UNCHANGED <<registry, maker, session>> /\ session = "live"
          /\ notices.unread # <<>> /\ notices' = [notices EXCEPT !.unread = Tail(@)]
      BY <1>10 DEF HearNotice, pushWorld
    <2>2. known \subseteq known' /\ (head \in Listed => head \in known')
      BY <1>10 DEF HearNotice, SpawnAnnounced, SpawnFor
    <2>3. /\ notices.unread \in Seq(MgIds) /\ Len(notices.unread) \in Nat
          /\ DOMAIN notices.unread = 1..Len(notices.unread)
      BY <1>b, LenProperties DEF QueueOf
    <2>4. /\ Len(Tail(notices.unread)) = Len(notices.unread) - 1
          /\ Tail(notices.unread) \in Seq(MgIds)
          /\ \A u \in 1..Len(Tail(notices.unread)) : Tail(notices.unread)[u] = notices.unread[u + 1]
      BY <2>1, <2>3, HeadTailProperties
    <2>5. /\ notices'.unread = Tail(notices.unread) /\ notices'.lagged = notices.lagged
      BY <1>b, <2>1 DEF QueueOf
    <2>6. DOMAIN Tail(notices.unread) = 1..(Len(notices.unread) - 1)
      BY <2>4, LenProperties
    <2>7. ASSUME NEW k \in DOMAIN notices.unread
          PROVE  notices.unread[k] = head \/ notices.unread[k] \in Unread(notices')
      <3>1. CASE k = 1
        BY <2>1, <2>3, <3>1
      <3>2. CASE k # 1
        <4>1. k - 1 \in 1..(Len(notices.unread) - 1) /\ (k - 1) + 1 = k
          BY <2>3, <3>2
        <4>2. notices'.unread[k - 1] = notices.unread[k] /\ k - 1 \in DOMAIN notices'.unread
          BY <2>4, <2>5, <2>6, <4>1
        <4> QED BY <4>2 DEF Unread
      <3> QED BY <3>1, <3>2
    <2>8. \A v \in Unread(notices) : v = head \/ v \in Unread(notices')
      BY <2>7 DEF Unread
    <2>9. ASSUME NEW i \in MgIds, Settled(i)
          PROVE  i \in known' \/ notices'.lagged \/ i \in Unread(notices')
      <3>1. i \in known \/ notices.lagged \/ i \in Unread(notices)
        BY <1>a, <2>1, <2>9 DEF MissingAreAnnounced
      <3>2. i \in Listed
        BY <2>9 DEF Settled, Listed
      <3> QED BY <2>2, <2>5, <2>8, <3>1, <3>2
    <2>10. \A i \in MgIds : Settled(i)' => Settled(i)
      BY <2>1 DEF Settled, Unannounced
    <2> HIDE DEF head
    <2>11. \A i \in MgIds : Settled(i)' => i \in known' \/ notices'.lagged \/ i \in Unread(notices')
      BY <2>9, <2>10
    <2> QED BY <2>11 DEF MissingAreAnnounced, Unread
  <1>11. ASSUME NEW f \in DOMAIN forwarders, Take(f) \/ Pass(f) PROVE MissingAreAnnounced'
    BY <1>2, <1>11 DEF Take, Pass, pushWorld
  <1> QED BY <1>3, <1>4, <1>5, <1>6, <1>7, <1>8, <1>9, <1>10, <1>11, KindsOfStep DEF QuietPush

-----------------------------------------------------------------------------
(* The push channel: the streams                                            *)

\* What left a forwarder does not change while the channel and the browser
\* do not, ...
LEMMA AheadStays ==
    ASSUME UNCHANGED <<socketQueue, browser>>
    PROVE  \A s \in Sites : Ahead(s)' = Ahead(s)
  BY DEF Ahead

\* ... and its numbers are events.
LEMMA AheadAreEvents ==
    ASSUME PushTypeOK
    PROVE  \A s \in Sites : Ahead(s) \subseteq Nat
  <1> TAKE s \in Sites
  <1>1. /\ browser[s] \in Seq(Nat) /\ DOMAIN browser[s] = 1..Len(browser[s])
        /\ socketQueue \in Seq([site : Sites, event : Nat])
        /\ DOMAIN socketQueue = 1..Len(socketQueue)
    BY LenProperties DEF PushTypeOK
  <1>2. \A j \in DOMAIN browser[s] : browser[s][j] \in Nat
    BY <1>1, ElementOfSeq
  <1>3. \A k \in DOMAIN socketQueue : socketQueue[k] \in [site : Sites, event : Nat]
    BY <1>1, ElementOfSeq
  <1>4. \A k \in DOMAIN socketQueue : socketQueue[k].event \in Nat
    BY <1>3
  <1> QED BY <1>2, <1>4 DEF Ahead

\* A forwarder that passes on puts its hand there.
LEMMA AheadOfPass ==
    ASSUME PushTypeOK, NEW f \in DOMAIN forwarders, Pass(f)
    PROVE  \A s \in Sites :
             Ahead(s)' = Ahead(s) \cup (IF s = forwarders[f].site THEN {forwarders[f].hand} ELSE {})
  <1> DEFINE L == Len(socketQueue)
  <1> TAKE s \in Sites
  <1>1. /\ L \in Nat /\ DOMAIN socketQueue = 1..L /\ DOMAIN socketQueue' = 1..(L + 1)
        /\ \A k \in DOMAIN socketQueue : socketQueue'[k] = socketQueue[k]
        /\ socketQueue'[L + 1].site = forwarders[f].site
        /\ socketQueue'[L + 1].event = forwarders[f].hand
    BY PassShape
  <1>2. browser' = browser
    BY DEF Pass
  <1> HIDE DEF L
  <1> DEFINE Old == {socketQueue[k].event : k \in {l \in DOMAIN socketQueue : socketQueue[l].site = s}}
             New == {socketQueue'[k].event : k \in {l \in DOMAIN socketQueue' : socketQueue'[l].site = s}}
  <1>3. New = Old \cup (IF s = forwarders[f].site THEN {forwarders[f].hand} ELSE {})
    <2>1. ASSUME NEW k \in DOMAIN socketQueue', socketQueue'[k].site = s
          PROVE  socketQueue'[k].event \in Old \/ (s = forwarders[f].site /\ socketQueue'[k].event = forwarders[f].hand)
      <3>1. CASE k \in DOMAIN socketQueue
        BY <1>1, <2>1, <3>1
      <3>2. CASE k = L + 1
        BY <1>1, <2>1, <3>2
      <3> QED BY <1>1, <3>1, <3>2
    <2>2. ASSUME NEW k \in DOMAIN socketQueue, socketQueue[k].site = s
          PROVE  socketQueue[k].event \in New
      <3>1. k \in DOMAIN socketQueue' /\ socketQueue'[k] = socketQueue[k]
        BY <1>1
      <3> QED BY <2>2, <3>1
    <2>3. s = forwarders[f].site => forwarders[f].hand \in New
      <3>1. L + 1 \in DOMAIN socketQueue'
        BY <1>1
      <3> QED BY <1>1, <3>1
    <2>4. New \subseteq Old \cup (IF s = forwarders[f].site THEN {forwarders[f].hand} ELSE {})
      BY <2>1
    <2>5. Old \subseteq New
      BY <2>2
    <2> QED BY <2>3, <2>4, <2>5
  <1>4. /\ Ahead(s)' = {browser'[s][j] : j \in DOMAIN browser'[s]} \cup New
        /\ Ahead(s) = {browser[s][j] : j \in DOMAIN browser[s]} \cup Old
    BY DEF Ahead
  <1> HIDE DEF Old, New
  <1> QED BY <1>2, <1>3, <1>4

\* The pump moves structure along and lets go of samples.
LEMMA AheadOfPump ==
    ASSUME PushTypeOK, Pump
    PROVE  \A s \in Sites :
             /\ Ahead(s)' \subseteq Ahead(s)
             /\ \A e \in Ahead(s) : e > 0 => e \in Ahead(s)'
  <1> TAKE s \in Sites
  <1> DEFINE head == socketQueue[1]
             L == Len(socketQueue)
             B == {browser[s][j] : j \in DOMAIN browser[s]}
             Bn == {browser'[s][j] : j \in DOMAIN browser'[s]}
             Q == {socketQueue[k].event : k \in {l \in DOMAIN socketQueue : socketQueue[l].site = s}}
             Qn == {socketQueue'[k].event : k \in {l \in DOMAIN socketQueue' : socketQueue'[l].site = s}}
  <1>1. /\ L \in Nat /\ DOMAIN socketQueue = 1..L /\ 1 \in DOMAIN socketQueue
        /\ head.site \in Sites /\ head.event \in Nat
        /\ \A k \in DOMAIN socketQueue' : k + 1 \in DOMAIN socketQueue /\ socketQueue'[k] = socketQueue[k + 1]
        /\ \A k \in DOMAIN socketQueue \ {1} : k - 1 \in DOMAIN socketQueue'
        /\ browser'[s] = IF s = head.site /\ head.event # 0
                         THEN Append(browser[s], head.event) ELSE browser[s]
    BY PumpShape
  <1>2. browser[s] \in Seq(Nat) /\ Len(browser[s]) \in Nat /\ DOMAIN browser[s] = 1..Len(browser[s])
    BY LenProperties DEF PushTypeOK
  <1>3. Bn = B \cup (IF s = head.site /\ head.event # 0 THEN {head.event} ELSE {})
    <2>1. CASE s = head.site /\ head.event # 0
      <3> DEFINE more == Append(browser[s], head.event)
      <3>1. /\ more \in Seq(Nat) /\ Len(more) = Len(browser[s]) + 1
            /\ more[Len(browser[s]) + 1] = head.event
            /\ \A j \in 1..Len(browser[s]) : more[j] = browser[s][j]
        BY <1>1, <1>2, AppendProperties
      <3>2. DOMAIN more = 1..(Len(browser[s]) + 1)
        BY <3>1, LenProperties
      <3>3. browser'[s] = more
        BY <1>1, <2>1
      <3> HIDE DEF more, head
      <3>4. ASSUME NEW j \in DOMAIN browser[s] PROVE browser[s][j] \in Bn
        <4>1. j \in DOMAIN more /\ more[j] = browser[s][j]
          BY <1>2, <3>1, <3>2
        <4> QED BY <3>3, <4>1
      <3>5. head.event \in Bn
        <4>1. Len(browser[s]) + 1 \in DOMAIN more
          BY <1>2, <3>2
        <4> QED BY <3>1, <3>3, <4>1
      <3>6. ASSUME NEW j \in DOMAIN more PROVE more[j] \in B \cup {head.event}
        <4>1. CASE j = Len(browser[s]) + 1
          BY <3>1, <4>1
        <4>2. CASE j \in DOMAIN browser[s]
          BY <1>2, <3>1, <4>2
        <4> QED BY <1>2, <3>2, <4>1, <4>2
      <3>7. B \cup {head.event} \subseteq Bn
        BY <3>4, <3>5
      <3>8. Bn \subseteq B \cup {head.event}
        BY <3>3, <3>6
      <3> QED BY <2>1, <3>7, <3>8 DEF head
    <2>2. CASE ~(s = head.site /\ head.event # 0)
      BY <1>1, <2>2
    <2> QED BY <2>1, <2>2
  <1>4. Qn \subseteq Q
    BY <1>1
  <1>5. ASSUME NEW k \in DOMAIN socketQueue, socketQueue[k].site = s
        PROVE  socketQueue[k].event \in Qn \/ (k = 1 /\ head.site = s)
    <2>1. CASE k = 1
      BY <1>5, <2>1
    <2>2. CASE k # 1
      <3>1. k - 1 \in DOMAIN socketQueue' /\ (k - 1) + 1 = k
        BY <1>1, <2>2
      <3>2. socketQueue'[k - 1] = socketQueue[k]
        BY <1>1, <3>1
      <3> QED BY <1>5, <3>1, <3>2
    <2> QED BY <2>1, <2>2
  <1>6. head.site = s => head.event \in Q
    BY <1>1
  <1>7. \A e \in Q : e \in Qn \/ (head.site = s /\ e = head.event)
    BY <1>5
  <1>8. Ahead(s) = B \cup Q /\ Ahead(s)' = Bn \cup Qn
    BY DEF Ahead
  <1> HIDE DEF B, Bn, Q, Qn, head
  <1>9. head.site = s /\ head.event > 0 => head.event \in Bn
    BY <1>1, <1>3
  <1> QED BY <1>3, <1>4, <1>6, <1>7, <1>8, <1>9

\* A site keeps its forwarder once anything of it left it.
LEMMA HeardStayForwarded == PushIInv /\ PushNext => HeardAreForwarded'
  <1> DEFINE Heard(s) == \E f \in DOMAIN forwarders : forwarders[f].site = s
  <1> SUFFICES ASSUME PushIInv, PushNext, session' = "live",
                      NEW s \in Sites, Ahead(s)' # {}
               PROVE  \E f \in DOMAIN forwarders' : forwarders'[f].site = s
    BY DEF HeardAreForwarded
  <1>a. PushTypeOK /\ ForwardersDiffer /\ OnlyLiveHold /\ HeardAreForwarded
    BY DEF PushIInv
  <1>b. ~Close
    BY DEF Close
  <1>1. \A f \in DOMAIN forwarders :
          f \in DOMAIN forwarders' /\ forwarders'[f].site = forwarders[f].site
    BY <1>a, <1>b, KindsOfStep, SitesOfForwarders
  <1>2. ASSUME session = "live", Ahead(s) # {} PROVE Heard(s)
    BY <1>a, <1>2 DEF HeardAreForwarded
  <1>3. ASSUME Heard(s) PROVE \E f \in DOMAIN forwarders' : forwarders'[f].site = s
    BY <1>1, <1>3
  <1>4. ASSUME NEW id \in MgIds, Structure(id) \/ SampleOut(id) PROVE Heard(s)
    <2>1. UNCHANGED <<session, socketQueue, browser>>
      BY <1>a, <1>4, PublishSteps
    <2> QED BY <1>2, <2>1, AheadStays
  <1>5. CASE QuietPush
    <2>1. UNCHANGED <<socketQueue, browser>>
      BY <1>5, QuietSteps
    <2>2. session' = session \/ session' = "subscribed"
      BY <1>5 DEF QuietPush, MakeInserts, MakeFails, MakeAnnounces, LogLine, Connect, PumpTap, client
    <2> QED BY <1>2, <1>3, <2>1, <2>2, AheadStays
  <1>6. CASE Snapshot \/ HearNotice \/ HearNoticeLag
    <2>1. UNCHANGED <<socketQueue, browser>>
      BY <1>a, <1>6, SpawnSteps
    <2>2. session = "live" \/ session = "subscribed"
      BY <1>6 DEF Snapshot, HearNotice, HearNoticeLag
    <2>3. ASSUME session = "subscribed" PROVE Ahead(s) = {}
      <3>1. browser[s] = <<>> /\ socketQueue = <<>>
        BY <1>a, <2>3 DEF OnlyLiveHold
      <3>2. DOMAIN browser[s] = {} /\ DOMAIN socketQueue = {}
        BY <3>1
      <3> QED BY <3>2 DEF Ahead
    <2> QED BY <1>2, <1>3, <2>1, <2>2, <2>3, AheadStays
  <1>7. ASSUME NEW f \in DOMAIN forwarders, Take(f) PROVE Heard(s)
    <2>1. UNCHANGED <<session, socketQueue, browser>>
      BY <1>7 DEF Take
    <2> QED BY <1>2, <2>1, AheadStays
  <1>8. ASSUME NEW f \in DOMAIN forwarders, Pass(f) PROVE Heard(s)
    <2>1. session = "live"
      BY <1>8 DEF Pass
    <2>2. CASE s = forwarders[f].site
      BY <2>2
    <2>3. CASE s # forwarders[f].site
      <3>1. Ahead(s)' = Ahead(s) \cup {}
        BY <1>a, <1>8, <2>3, AheadOfPass
      <3> QED BY <1>2, <2>1, <3>1
    <2> QED BY <2>2, <2>3
  <1>9. CASE Pump
    <2>1. session = "live"
      BY <1>9 DEF Pump
    <2>2. Ahead(s)' \subseteq Ahead(s)
      BY <1>a, <1>9, AheadOfPump
    <2> QED BY <1>2, <1>3, <2>1, <2>2
  <1> HIDE DEF Heard
  <1> QED BY <1>3, <1>4, <1>5, <1>6, <1>7, <1>8, <1>9, <1>b, KindsOfStep

\* Versions grow.
LEMMA VersionsGrow ==
    ASSUME PushTypeOK, PushNext
    PROVE  \A s \in Sites : version[s] \in Nat /\ version'[s] \in Nat /\ version[s] <= version'[s]
  <1>1. \A s \in Sites : version[s] \in Nat
    BY DEF PushTypeOK
  <1>2. ASSUME version' = version
        PROVE  \A s \in Sites : version'[s] \in Nat /\ version[s] <= version'[s]
    BY <1>1, <1>2
  <1>3. ASSUME NEW id \in MgIds, Structure(id) \/ SampleOut(id)
        PROVE  \A s \in Sites : version'[s] \in Nat /\ version[s] <= version'[s]
    <2>1. PICK t \in Sites, e \in Nat :
             \/ e = 0 /\ version' = version
             \/ e = version[t] + 1 /\ version' = [version EXCEPT ![t] = e]
      BY <1>3, PublishSteps
    <2>2. version \in [Sites -> Nat]
      BY DEF PushTypeOK
    <2> QED BY <1>1, <2>1, <2>2
  <1>4. CASE QuietPush
    BY <1>2, <1>4, QuietSteps
  <1>5. CASE Snapshot \/ HearNotice \/ HearNoticeLag
    BY <1>2, <1>5, SpawnSteps DEF pushWorld
  <1>6. ASSUME NEW f \in DOMAIN forwarders, Take(f) \/ Pass(f) PROVE version' = version
    BY <1>6 DEF Take, Pass, pushWorld
  <1>7. CASE Pump \/ Close
    BY <1>2, <1>7 DEF Pump, Close, pushWorld
  <1> QED BY <1>1, <1>2, <1>3, <1>4, <1>5, <1>6, <1>7, KindsOfStep

\* A step that does not pump leaves the browser alone, one that neither pumps
\* nor passes on nor closes the channel too.
LEMMA OnlyThePumpWrites ==
    ASSUME PushTypeOK, PushNext
    PROVE  /\ Pump \/ browser' = browser
           /\ Pump \/ Close \/ (\E f \in DOMAIN forwarders : Pass(f)) \/ socketQueue' = socketQueue
  <1>1. CASE QuietPush
    BY <1>1, QuietSteps
  <1>2. ASSUME NEW id \in MgIds, Structure(id) \/ SampleOut(id)
        PROVE  browser' = browser /\ socketQueue' = socketQueue
    BY <1>2, PublishSteps
  <1>3. CASE Snapshot \/ HearNotice \/ HearNoticeLag
    BY <1>3, SpawnSteps
  <1>4. ASSUME NEW f \in DOMAIN forwarders, Take(f) \/ Pass(f)
        PROVE  browser' = browser /\ (Pass(f) \/ socketQueue' = socketQueue)
    BY <1>4 DEF Take, Pass
  <1>5. CASE Close
    BY <1>5 DEF Close
  <1> QED BY <1>1, <1>2, <1>3, <1>4, <1>5, KindsOfStep

\* The browser gets structure in order.
LEMMA BrowserStillRises == PushIInv /\ PushNext => BrowserRises'
  <1> SUFFICES ASSUME PushIInv, PushNext, NEW s \in Sites
               PROVE  /\ \A j \in DOMAIN browser'[s] : browser'[s][j] \in 1..version'[s]
                      /\ \A i, j \in DOMAIN browser'[s] : i < j => browser'[s][i] < browser'[s][j]
    BY DEF BrowserRises
  <1>a. PushTypeOK /\ BrowserRises /\ ChannelRises
    BY DEF PushIInv
  <1>b. /\ \A j \in DOMAIN browser[s] : browser[s][j] \in 1..version[s]
        /\ \A i, j \in DOMAIN browser[s] : i < j => browser[s][i] < browser[s][j]
    BY <1>a DEF BrowserRises
  <1>c. version[s] \in Nat /\ version'[s] \in Nat /\ version[s] <= version'[s]
    BY <1>a, VersionsGrow
  <1>1. CASE browser' = browser
    BY <1>b, <1>c, <1>1
  <1>2. CASE Pump
    <2> DEFINE head == socketQueue[1]
               before == browser[s]
    <2>1. /\ 1 \in DOMAIN socketQueue /\ head.site \in Sites /\ head.event \in Nat
          /\ browser'[s] = IF s = head.site /\ head.event # 0
                           THEN Append(before, head.event) ELSE before
      BY <1>a, <1>2, PumpShape
    <2>2. version' = version
      BY <1>2 DEF Pump, pushWorld
    <2>3. CASE ~(s = head.site /\ head.event # 0)
      BY <1>b, <2>1, <2>2, <2>3
    <2>4. CASE s = head.site /\ head.event # 0
      <3>1. head.event <= version[s] /\ \A j \in DOMAIN before : before[j] < head.event
        <4>1. /\ head.event <= version[head.site]
              /\ head.event > 0 =>
                   \A j \in DOMAIN browser[head.site] : browser[head.site][j] < head.event
          BY <1>a, <2>1 DEF ChannelRises
        <4>2. head.event > 0
          BY <2>1, <2>4
        <4> HIDE DEF head
        <4> QED BY <2>4, <4>1, <4>2
      <3>2. before \in Seq(Nat) /\ Len(before) \in Nat /\ DOMAIN before = 1..Len(before)
        BY <1>a, LenProperties DEF PushTypeOK
      <3> DEFINE more == Append(before, head.event)
      <3>3. /\ more \in Seq(Nat) /\ Len(more) = Len(before) + 1 /\ more[Len(before) + 1] = head.event
            /\ \A j \in 1..Len(before) : more[j] = before[j]
        BY <2>1, <3>2, AppendProperties
      <3>4. DOMAIN more = 1..(Len(before) + 1)
        BY <3>3, LenProperties
      <3>5. browser'[s] = more
        BY <2>1, <2>4
      <3> HIDE DEF more
      <3>6. \A j \in DOMAIN more : more[j] \in 1..version'[s]
        <4> TAKE j \in DOMAIN more
        <4>1. CASE j \in DOMAIN before
          BY <1>b, <2>2, <3>2, <3>3, <4>1
        <4>2. CASE j = Len(before) + 1
          BY <1>c, <2>1, <2>2, <2>4, <3>1, <3>3, <4>2
        <4> QED BY <3>2, <3>4, <4>1, <4>2
      <3>7. \A i, j \in DOMAIN more : i < j => more[i] < more[j]
        <4> TAKE i, j \in DOMAIN more
        <4> HAVE i < j
        <4>1. i \in DOMAIN before /\ more[i] = before[i]
          BY <3>2, <3>3, <3>4
        <4>2. CASE j \in DOMAIN before
          BY <1>b, <3>2, <3>3, <4>1, <4>2
        <4>3. CASE j = Len(before) + 1
          BY <3>1, <3>3, <4>1, <4>3
        <4> QED BY <3>2, <3>4, <4>2, <4>3
      <3> QED BY <3>5, <3>6, <3>7
    <2> QED BY <2>3, <2>4
  <1> QED BY <1>a, <1>1, <1>2, OnlyThePumpWrites

\* The channel carries structure in order, behind what the browser has.
LEMMA ChannelStillRises == PushIInv /\ PushNext => ChannelRises'
  <1> DEFINE Rises(l) ==
        /\ socketQueue[l].event <= version[socketQueue[l].site]
        /\ socketQueue[l].event > 0 =>
             /\ \A j \in DOMAIN browser[socketQueue[l].site] :
                  browser[socketQueue[l].site][j] < socketQueue[l].event
             /\ \A k \in DOMAIN socketQueue :
                  k < l /\ socketQueue[k].site = socketQueue[l].site
                    => socketQueue[k].event < socketQueue[l].event
  <1> SUFFICES ASSUME PushIInv, PushNext, NEW l \in DOMAIN socketQueue'
               PROVE  Rises(l)'
    BY DEF ChannelRises
  <1>a. PushTypeOK /\ ChannelRises /\ ForwardersRise
    BY DEF PushIInv
  <1>b. ASSUME NEW k \in DOMAIN socketQueue PROVE Rises(k)
    BY <1>a DEF ChannelRises
  <1>c. ASSUME NEW k \in DOMAIN socketQueue
        PROVE  socketQueue[k].event \in Nat /\ socketQueue[k].site \in Sites
    <2>1. socketQueue \in Seq([site : Sites, event : Nat]) /\ k \in 1..Len(socketQueue)
      BY <1>a, LenProperties DEF PushTypeOK
    <2>2. socketQueue[k] \in [site : Sites, event : Nat]
      BY <2>1, ElementOfSeq
    <2> QED BY <2>2
  <1>d. \A s \in Sites : version[s] \in Nat /\ version'[s] \in Nat /\ version[s] <= version'[s]
    BY <1>a, VersionsGrow
  <1>1. CASE browser' = browser /\ socketQueue' = socketQueue
    <2>1. Rises(l) /\ socketQueue[l].event \in Nat /\ socketQueue[l].site \in Sites
      BY <1>b, <1>c, <1>1
    <2>2. socketQueue[l].event <= version'[socketQueue[l].site]
      BY <1>d, <2>1
    <2> QED BY <1>1, <2>1, <2>2
  <1>2. CASE Close
    <2>1. DOMAIN socketQueue' = {}
      BY <1>2 DEF Close
    <2> QED BY <2>1
  <1>3. ASSUME NEW f \in DOMAIN forwarders, Pass(f) PROVE Rises(l)'
    <2> DEFINE L == Len(socketQueue)
               s == forwarders[f].site
    <2>1. /\ L \in Nat /\ DOMAIN socketQueue = 1..L /\ DOMAIN socketQueue' = 1..(L + 1)
          /\ \A k \in DOMAIN socketQueue : socketQueue'[k] = socketQueue[k]
          /\ socketQueue'[L + 1].site = s /\ socketQueue'[L + 1].event = forwarders[f].hand
          /\ forwarders[f].hand \in Nat
      BY <1>a, <1>3, PassShape
    <2>2. browser' = browser /\ version' = version
      BY <1>3 DEF Pass, pushWorld
    <2>3. CASE l \in DOMAIN socketQueue
      <3>1. Rises(l) /\ socketQueue'[l] = socketQueue[l]
        BY <1>b, <2>1, <2>3
      <3>2. \A k \in DOMAIN socketQueue' : k < l => k \in DOMAIN socketQueue /\ socketQueue'[k] = socketQueue[k]
        BY <2>1, <2>3
      <3> QED BY <2>2, <3>1, <3>2
    <2>4. CASE l = L + 1
      <3>1. /\ forwarders[f].hand <= version[s]
            /\ forwarders[f].hand > 0 => \A e \in Ahead(s) : e < forwarders[f].hand
        <4>1. s \in Sites
          BY <1>a, ForwarderFields
        <4>2. Rising(forwarders[f].hand, forwarders[f].queue.unread, Ahead(s), version[s])
          BY <1>a, <4>1 DEF ForwardersRise
        <4> QED BY <4>2 DEF Rising
      <3>2. \A j \in DOMAIN browser[s] : browser[s][j] \in Ahead(s)
        BY DEF Ahead
      <3>3. \A k \in DOMAIN socketQueue : socketQueue[k].site = s => socketQueue[k].event \in Ahead(s)
        BY DEF Ahead
      <3>4. \A k \in DOMAIN socketQueue' : k < l => k \in DOMAIN socketQueue /\ socketQueue'[k] = socketQueue[k]
        BY <2>1, <2>4
      <3> HIDE DEF s, L
      <3> QED BY <2>1, <2>2, <2>4, <3>1, <3>2, <3>3, <3>4
    <2> QED BY <2>1, <2>3, <2>4
  <1>4. CASE Pump
    <2> DEFINE head == socketQueue[1]
               L == Len(socketQueue)
    <2>1. /\ L \in Nat /\ DOMAIN socketQueue = 1..L /\ 1 \in DOMAIN socketQueue
          /\ DOMAIN socketQueue' = 1..(L - 1)
          /\ head.site \in Sites /\ head.event \in Nat
          /\ \A k \in DOMAIN socketQueue' : k + 1 \in DOMAIN socketQueue /\ socketQueue'[k] = socketQueue[k + 1]
          /\ \A s \in Sites : browser'[s] = IF s = head.site /\ head.event # 0
                                            THEN Append(browser[s], head.event) ELSE browser[s]
      BY <1>a, <1>4, PumpShape
    <2>2. version' = version
      BY <1>4 DEF Pump, pushWorld
    <2>3. l + 1 \in DOMAIN socketQueue /\ socketQueue'[l] = socketQueue[l + 1] /\ 1 < l + 1 /\ l \in Nat
      BY <2>1
    <2> DEFINE e == socketQueue[l + 1].event
               s == socketQueue[l + 1].site
    <2>4. e \in Nat /\ s \in Sites /\ Rises(l + 1)
      BY <1>b, <1>c, <2>3
    <2>5. ASSUME e > 0, NEW k \in DOMAIN socketQueue', k < l, socketQueue'[k].site = s
          PROVE  socketQueue'[k].event < e
      <3>1. k + 1 \in DOMAIN socketQueue /\ socketQueue'[k] = socketQueue[k + 1]
        BY <2>1
      <3>2. k + 1 < l + 1
        BY <2>1, <2>3, <2>5
      <3> QED BY <2>4, <2>5, <3>1, <3>2
    <2>6. ASSUME e > 0, NEW j \in DOMAIN browser'[s] PROVE browser'[s][j] < e
      <3>1. browser[s] \in Seq(Nat) /\ Len(browser[s]) \in Nat /\ DOMAIN browser[s] = 1..Len(browser[s])
        BY <1>a, <2>4, LenProperties DEF PushTypeOK
      <3>2. \A i \in DOMAIN browser[s] : browser[s][i] < e
        BY <2>4, <2>6
      <3>3. s = head.site => head.event < e
        BY <2>1, <2>3, <2>4, <2>6
      <3>4. CASE ~(s = head.site /\ head.event # 0)
        BY <2>1, <2>4, <2>6, <3>2, <3>4
      <3>5. CASE s = head.site /\ head.event # 0
        <4> DEFINE more == Append(browser[s], head.event)
        <4>1. /\ more \in Seq(Nat) /\ Len(more) = Len(browser[s]) + 1
              /\ more[Len(browser[s]) + 1] = head.event
              /\ \A i \in 1..Len(browser[s]) : more[i] = browser[s][i]
          BY <2>1, <3>1, AppendProperties
        <4>2. DOMAIN more = 1..(Len(browser[s]) + 1)
          BY <4>1, LenProperties
        <4>3. browser'[s] = more
          BY <2>1, <2>4, <3>5
        <4> HIDE DEF more, e, s
        <4>4. CASE j = Len(browser[s]) + 1
          BY <3>3, <3>5, <4>1, <4>3, <4>4
        <4>5. CASE j \in DOMAIN browser[s]
          BY <3>1, <3>2, <4>1, <4>3, <4>5
        <4> QED BY <2>6, <3>1, <4>2, <4>3, <4>4, <4>5
      <3> QED BY <3>4, <3>5
    <2>7. e <= version'[s]
      BY <2>2, <2>4
    <2>8. socketQueue'[l].event = e /\ socketQueue'[l].site = s
      BY <2>3
    <2> HIDE DEF e, s
    <2> QED BY <2>5, <2>6, <2>7, <2>8
  <1> QED BY <1>a, <1>1, <1>2, <1>3, <1>4, OnlyThePumpWrites

\* What has left a forwarder is no greater than its site's version.
LEMMA AheadIsPast ==
    ASSUME PushTypeOK, BrowserRises, ChannelRises, NEW s \in Sites
    PROVE  \A e \in Ahead(s) : e \in Nat /\ e <= version[s]
  <1>1. \A j \in DOMAIN browser[s] : browser[s][j] <= version[s]
    BY DEF BrowserRises, PushTypeOK
  <1>2. \A k \in DOMAIN socketQueue : socketQueue[k].site = s => socketQueue[k].event <= version[s]
    BY DEF ChannelRises
  <1>3. Ahead(s) \subseteq Nat
    BY AheadAreEvents
  <1> QED BY <1>1, <1>2, <1>3 DEF Ahead

\* A stream keeps rising when its bus gets a sample or the next structure, ...
LEMMA RisingSent ==
    ASSUME NEW queue \in QueueOf(Nat), NEW capacity \in Nat \ {0}, Len(queue.unread) <= capacity,
           NEW top \in Nat, NEW e \in Nat, e = 0 \/ e = top + 1, NEW hand \in Nat \cup {Nothing},
           NEW ahead \in SUBSET (0..top), Rising(hand, queue.unread, ahead, top)
    PROVE  Rising(hand, Sent(queue, e, capacity).unread, ahead, IF e = 0 THEN top ELSE e)
  <1> DEFINE before == queue.unread
             after == Sent(queue, e, capacity).unread
             high == IF e = 0 THEN top ELSE e
  <1>0. PICK N : N = Nat
    OBVIOUS
  <1>1. queue \in QueueOf(N) /\ e \in N
    BY <1>0
  <1> DEFINE sent == Sent(queue, e, capacity)
  <1>m. PICK d \in 0..1 : MovedUp(sent, queue, e, capacity, d)
    BY <1>1, SentItems
  <1>2. /\ Len(after) = Len(before) + 1 - d
        /\ \A u \in 1..(Len(after) - 1) : u + d \in DOMAIN before /\ after[u] = before[u + d]
        /\ after[Len(after)] = e
    BY <1>m DEF MovedUp
  <1>3. Len(after) \in Nat \ {0} /\ DOMAIN after = 1..Len(after)
    BY <1>1, SentShape
  <1>4. before \in Seq(Nat) /\ DOMAIN before = 1..Len(before) /\ Len(before) \in Nat
    BY LenProperties DEF QueueOf
  <1>5. \A u \in DOMAIN before : before[u] \in Nat
    BY <1>4, ElementOfSeq
  <1>6. /\ hand <= top
        /\ hand > 0 => \A a \in ahead : a < hand
        /\ \A u \in DOMAIN before :
             /\ before[u] <= top
             /\ before[u] > 0 =>
                /\ hand < before[u] /\ \A a \in ahead : a < before[u]
                /\ \A t \in DOMAIN before : t < u => before[t] < before[u]
    BY DEF Rising
  <1> HIDE DEF after, before
  <1>7. top <= high /\ high \in Nat
    OBVIOUS
  <1>8. hand <= high
    BY <1>6, <1>7 DEF Nothing
  <1>9. ASSUME NEW u \in 1..(Len(after) - 1)
        PROVE  /\ after[u] <= high
               /\ after[u] > 0 =>
                    /\ hand < after[u] /\ \A a \in ahead : a < after[u]
                    /\ \A t \in DOMAIN after : t < u => after[t] < after[u]
    <2>1. u + d \in DOMAIN before /\ after[u] = before[u + d]
      BY <1>2
    <2>2. after[u] <= high
      BY <1>5, <1>6, <1>7, <2>1
    <2>3. after[u] > 0 => hand < after[u] /\ \A a \in ahead : a < after[u]
      BY <1>6, <2>1
    <2>4. ASSUME after[u] > 0, NEW t \in DOMAIN after, t < u PROVE after[t] < after[u]
      <3>1. t \in 1..(Len(after) - 1)
        BY <1>3, <2>4
      <3>2. t + d \in DOMAIN before /\ after[t] = before[t + d]
        BY <1>2, <3>1
      <3>3. t + d < u + d
        BY <1>3, <2>4
      <3> QED BY <1>6, <2>1, <2>4, <3>2, <3>3
    <2> QED BY <2>2, <2>3, <2>4
  <1>10. ASSUME NEW u \in DOMAIN after, u = Len(after)
         PROVE  /\ after[u] <= high
                /\ after[u] > 0 =>
                     /\ hand < after[u] /\ \A a \in ahead : a < after[u]
                     /\ \A t \in DOMAIN after : t < u => after[t] < after[u]
    <2>1. after[u] = e /\ e <= high
      BY <1>2, <1>10
    <2>2. CASE e = 0
      BY <2>1, <2>2
    <2>3. CASE e = top + 1
      <3>1. hand < e /\ \A a \in ahead : a < e
        BY <1>6, <2>3 DEF Nothing
      <3>2. ASSUME NEW t \in DOMAIN after, t < u PROVE after[t] < e
        <4>1. t \in 1..(Len(after) - 1)
          BY <1>3, <1>10, <3>2
        <4>2. t + d \in DOMAIN before /\ after[t] = before[t + d]
          BY <1>2, <4>1
        <4>3. after[t] \in Nat /\ after[t] <= top
          BY <1>5, <1>6, <4>2
        <4> QED BY <2>3, <4>3
      <3> QED BY <2>1, <3>1, <3>2
    <2> QED BY <2>2, <2>3
  <1>11. \A u \in DOMAIN after : u \in 1..(Len(after) - 1) \/ u = Len(after)
    BY <1>3
  <1> HIDE DEF high
  <1>12. Rising(hand, after, ahead, high)
    BY <1>6, <1>8, <1>9, <1>10, <1>11 DEF Rising
  <1> QED BY <1>12 DEF after, high

\* ... its forwarder takes from there, ...
LEMMA RisingTaken ==
    ASSUME NEW before \in Seq(Nat), NEW after \in Seq(Nat), before # <<>>, Len(after) = Len(before) - 1,
           \A u \in 1..Len(after) : after[u] = before[u + 1],
           NEW ahead, NEW top \in Nat, Rising(Nothing, before, ahead, top)
    PROVE  Rising(before[1], after, ahead, top)
  <1>1. /\ DOMAIN before = 1..Len(before) /\ Len(before) \in Nat \ {0}
        /\ DOMAIN after = 1..Len(after) /\ Len(after) \in Nat
    BY LenProperties, EmptySeq
  <1>2. \A u \in DOMAIN before :
             /\ before[u] <= top
             /\ before[u] > 0 =>
                /\ \A a \in ahead : a < before[u]
                /\ \A t \in DOMAIN before : t < u => before[t] < before[u]
    BY DEF Rising
  <1>3. 1 \in DOMAIN before
    BY <1>1
  <1>4. \A u \in DOMAIN after : u + 1 \in DOMAIN before /\ after[u] = before[u + 1] /\ 1 < u + 1
    BY <1>1
  <1>5. ASSUME NEW u \in DOMAIN after, NEW t \in DOMAIN after, t < u, after[u] > 0
        PROVE  after[t] < after[u]
    <2>1. t + 1 < u + 1
      BY <1>1, <1>5
    <2> QED BY <1>2, <1>4, <1>5, <2>1
  <1>6. ASSUME NEW u \in DOMAIN after
        PROVE  /\ after[u] <= top
               /\ after[u] > 0 => before[1] < after[u] /\ \A a \in ahead : a < after[u]
    BY <1>2, <1>3, <1>4
  <1> QED BY <1>2, <1>3, <1>5, <1>6 DEF Rising

\* ... or passes on, ...
LEMMA RisingPassed ==
    ASSUME NEW unread \in Seq(Nat), NEW hand \in Nat, NEW ahead, NEW top \in Nat,
           Rising(hand, unread, ahead, top)
    PROVE  Rising(Nothing, unread, ahead \cup {hand}, top)
  <1>1. \A u \in DOMAIN unread : unread[u] \in Nat
    BY LenProperties, ElementOfSeq
  <1> QED BY <1>1 DEF Rising, Nothing

\* ... and when something ahead of it is gone.
LEMMA RisingAfterLess ==
    ASSUME NEW hand, NEW unread, NEW ahead, NEW top,
           Rising(hand, unread, ahead, top), NEW less \in SUBSET ahead
    PROVE  Rising(hand, unread, less, top)
  BY DEF Rising

\* ... and it does when it begins.
LEMMA RisingFromNothing ==
    ASSUME NEW ahead, NEW top \in Nat
    PROVE  Rising(Nothing, <<>>, ahead, top)
  BY DEF Rising, Nothing

\* Each forwarder holds structure in order, behind what has left it.
LEMMA ForwardersStillRise == PushIInv /\ PushNext => ForwardersRise'
  <1> SUFFICES ASSUME PushIInv, PushNext PROVE ForwardersRise'
    OBVIOUS
  <1>a. PushTypeOK /\ ForwardersDiffer /\ BrowserRises /\ ChannelRises /\ ForwardersRise
    BY DEF PushIInv
  <1>b. ASSUME NEW s \in Sites, NEW f \in DOMAIN forwarders, forwarders[f].site = s
        PROVE  Rising(forwarders[f].hand, forwarders[f].queue.unread, Ahead(s), version[s])
    BY <1>a, <1>b DEF ForwardersRise
  <1>c. \A f \in DOMAIN forwarders :
          /\ forwarders[f].site \in Sites /\ forwarders[f].hand \in Nat \cup {Nothing}
          /\ forwarders[f].queue \in QueueOf(Nat) /\ forwarders[f].queue.unread \in Seq(Nat)
    BY <1>a, ForwarderFields
  <1>d. \A s \in Sites : version[s] \in Nat
    BY <1>a DEF PushTypeOK
  <1>1. ASSUME forwarders' = forwarders, version' = version, socketQueue' = socketQueue, browser' = browser
        PROVE  ForwardersRise'
    BY <1>a, <1>1 DEF ForwardersRise, Ahead
  <1>2. CASE QuietPush
    BY <1>1, <1>2, QuietSteps
  <1>3. ASSUME NEW id \in MgIds, Structure(id) \/ SampleOut(id) PROVE ForwardersRise'
    <2>1. PICK t \in Sites, e \in Nat :
            /\ Published(t, e)
            /\ \/ e = 0 /\ version' = version
               \/ e = version[t] + 1 /\ version' = [version EXCEPT ![t] = e]
      BY <1>a, <1>3, PublishSteps
    <2>2. /\ DOMAIN forwarders' = DOMAIN forwarders
          /\ \A f \in DOMAIN forwarders :
               /\ forwarders'[f].site = forwarders[f].site /\ forwarders'[f].hand = forwarders[f].hand
               /\ forwarders'[f].queue =
                    IF forwarders[f].site = t THEN Sent(forwarders[f].queue, e, EventRing)
                    ELSE forwarders[f].queue
      BY <1>a, <2>1, PublishedShape
    <2>3. \A s \in Sites : Ahead(s)' = Ahead(s)
      BY <1>a, <1>3, PublishSteps, AheadStays
    <2>4. /\ version'[t] = (IF e = 0 THEN version[t] ELSE e)
          /\ \A s \in Sites : s # t => version'[s] = version[s]
      BY <1>a, <2>1 DEF PushTypeOK
    <2>5. ASSUME NEW s \in Sites, NEW f \in DOMAIN forwarders, forwarders[f].site = s
          PROVE  Rising(forwarders'[f].hand, forwarders'[f].queue.unread, Ahead(s)', version'[s])
      <3>1. CASE s = t
        <4>1. Rising(forwarders[f].hand, forwarders[f].queue.unread, Ahead(t), version[t])
          BY <1>b, <2>5, <3>1
        <4>2. Ahead(t) \in SUBSET (0..version[t])
          BY <1>a, <1>d, AheadIsPast
        <4>3. (e = 0 \/ e = version[t] + 1) /\ version[t] \in Nat
          BY <1>d, <2>1
        <4>4. Len(forwarders[f].queue.unread) <= EventRing /\ EventRing \in Nat \ {0}
          BY <1>a, PushAssumption DEF ForwardersDiffer
        <4>5. Rising(forwarders[f].hand, Sent(forwarders[f].queue, e, EventRing).unread, Ahead(t),
                     IF e = 0 THEN version[t] ELSE e)
          BY <1>c, <4>1, <4>2, <4>3, <4>4, RisingSent
        <4> QED BY <2>2, <2>3, <2>4, <2>5, <3>1, <4>5
      <3>2. CASE s # t
        BY <1>b, <2>2, <2>3, <2>4, <2>5, <3>2
      <3> QED BY <3>1, <3>2
    <2> QED BY <2>2, <2>5 DEF ForwardersRise
  <1>4. CASE Snapshot \/ HearNotice \/ HearNoticeLag
    <2>1. UNCHANGED <<version, socketQueue, browser>>
      BY <1>a, <1>4, SpawnSteps DEF pushWorld
    <2>2. CASE UNCHANGED <<forwarders, known>>
      BY <1>1, <2>1, <2>2
    <2>3. ASSUME NEW ids \in SUBSET Listed, SpawnFor(ids) PROVE ForwardersRise'
      <3>1. /\ \A f \in DOMAIN forwarders : forwarders'[f] = forwarders[f]
            /\ \A f \in DOMAIN forwarders' \ DOMAIN forwarders :
                 \E i \in ids \ known :
                    /\ forwarders'[f].id = i /\ forwarders'[f].site = registry[i]
                    /\ forwarders'[f].queue = Queue /\ forwarders'[f].hand = Nothing
            /\ \A i \in ids : i \in MgIds /\ registry[i] \in Sites
        BY <1>a, <2>3, SpawnForShape
      <3>2. \A s \in Sites : Ahead(s)' = Ahead(s)
        BY <2>1, AheadStays
      <3>3. ASSUME NEW s \in Sites, NEW f \in DOMAIN forwarders', forwarders'[f].site = s
            PROVE  Rising(forwarders'[f].hand, forwarders'[f].queue.unread, Ahead(s)', version'[s])
        <4>1. CASE f \in DOMAIN forwarders
          BY <1>b, <2>1, <3>1, <3>2, <3>3, <4>1
        <4>2. CASE f \notin DOMAIN forwarders
          <5>1. forwarders'[f].hand = Nothing /\ forwarders'[f].queue.unread = <<>>
            BY <3>1, <3>3, <4>2 DEF Queue
          <5>2. version'[s] \in Nat
            BY <1>d, <2>1
          <5> QED BY <5>1, <5>2, RisingFromNothing
        <4> QED BY <4>1, <4>2
      <3> QED BY <3>3 DEF ForwardersRise
    <2> QED BY <1>a, <1>4, <2>2, <2>3, SpawnSteps
  <1>5. ASSUME NEW f \in DOMAIN forwarders, Take(f) PROVE ForwardersRise'
    <2>1. UNCHANGED <<version, socketQueue, browser>>
      BY <1>5 DEF Take, pushWorld
    <2>2. /\ DOMAIN forwarders' = DOMAIN forwarders
          /\ \A g \in DOMAIN forwarders \ {f} : forwarders'[g] = forwarders[g]
          /\ forwarders'[f].site = forwarders[f].site
          /\ forwarders[f].hand = Nothing
          /\ \/ /\ forwarders'[f].hand = Nothing
                /\ forwarders'[f].queue.unread = forwarders[f].queue.unread
             \/ /\ forwarders[f].queue.unread # <<>>
                /\ forwarders'[f].hand = forwarders[f].queue.unread[1]
                /\ Len(forwarders'[f].queue.unread) = Len(forwarders[f].queue.unread) - 1
                /\ forwarders'[f].queue.unread \in Seq(Nat)
                /\ \A u \in 1..Len(forwarders'[f].queue.unread) :
                     forwarders'[f].queue.unread[u] = forwarders[f].queue.unread[u + 1]
      BY <1>a, <1>5, TakeShape
    <2>3. \A s \in Sites : Ahead(s)' = Ahead(s)
      BY <2>1, AheadStays
    <2> DEFINE s == forwarders[f].site
               before == forwarders[f].queue.unread
               after == forwarders'[f].queue.unread
    <2>4. s \in Sites /\ version[s] \in Nat /\ before \in Seq(Nat) /\ Rising(Nothing, before, Ahead(s), version[s])
      BY <1>b, <1>c, <1>d, <2>2
    <2>5. Rising(forwarders'[f].hand, after, Ahead(s), version[s])
      <3>1. CASE forwarders'[f].hand = Nothing /\ after = before
        BY <2>4, <3>1
      <3>2. CASE ~(forwarders'[f].hand = Nothing /\ after = before)
        <4>1. /\ before # <<>> /\ forwarders'[f].hand = before[1]
              /\ Len(after) = Len(before) - 1 /\ after \in Seq(Nat)
              /\ \A u \in 1..Len(after) : after[u] = before[u + 1]
          BY <2>2, <3>2
        <4> HIDE DEF before, after, s
        <4>2. Rising(before[1], after, Ahead(s), version[s])
          BY <2>4, <4>1, RisingTaken
        <4> QED BY <4>1, <4>2
      <3> QED BY <3>1, <3>2
    <2>6. ASSUME NEW t \in Sites, NEW g \in DOMAIN forwarders, forwarders[g].site = t
          PROVE  Rising(forwarders'[g].hand, forwarders'[g].queue.unread, Ahead(t)', version'[t])
      <3>1. CASE g = f
        BY <2>1, <2>3, <2>5, <2>6, <3>1
      <3>2. CASE g # f
        BY <1>b, <2>1, <2>2, <2>3, <2>6, <3>2
      <3> QED BY <3>1, <3>2
    <2>7. \A g \in DOMAIN forwarders : forwarders'[g].site = forwarders[g].site
      BY <2>2
    <2> QED BY <2>2, <2>6, <2>7 DEF ForwardersRise
  <1>6. ASSUME NEW f \in DOMAIN forwarders, Pass(f) PROVE ForwardersRise'
    <2>1. version' = version
      BY <1>6 DEF Pass, pushWorld
    <2>2. /\ DOMAIN forwarders' = DOMAIN forwarders
          /\ \A g \in DOMAIN forwarders :
                /\ forwarders'[g].site = forwarders[g].site /\ forwarders'[g].queue = forwarders[g].queue
                /\ forwarders'[g].hand = IF g = f THEN Nothing ELSE forwarders[g].hand
          /\ forwarders[f].hand \in Nat
      BY <1>a, <1>6, PassShape
    <2> DEFINE s == forwarders[f].site
               hand == forwarders[f].hand
    <2>3. \A t \in Sites : Ahead(t)' = Ahead(t) \cup (IF t = s THEN {hand} ELSE {})
      BY <1>a, <1>6, AheadOfPass
    <2>4. \A g \in DOMAIN forwarders : g # f => forwarders[g].site # s
      BY <1>a DEF ForwardersDiffer
    <2>5. ASSUME NEW t \in Sites, NEW g \in DOMAIN forwarders, forwarders[g].site = t
          PROVE  Rising(forwarders'[g].hand, forwarders'[g].queue.unread, Ahead(t)', version'[t])
      <3>1. CASE g = f
        <4>1. t = s /\ version[t] \in Nat /\ hand \in Nat /\ forwarders[f].queue.unread \in Seq(Nat)
          BY <1>c, <1>d, <2>2, <2>5, <3>1
        <4>2. Rising(hand, forwarders[f].queue.unread, Ahead(t), version[t])
          BY <1>b, <2>5, <3>1
        <4>3. Ahead(t)' = Ahead(t) \cup {hand}
          BY <2>3, <4>1
        <4>4. forwarders'[g].hand = Nothing /\ forwarders'[g].queue.unread = forwarders[f].queue.unread
          BY <2>2, <3>1
        <4> HIDE DEF s, hand
        <4>5. Rising(Nothing, forwarders[f].queue.unread, Ahead(t) \cup {hand}, version[t])
          BY <4>1, <4>2, RisingPassed
        <4> QED BY <2>1, <4>3, <4>4, <4>5
      <3>2. CASE g # f
        <4>1. Ahead(t)' = Ahead(t) \cup {}
          BY <2>3, <2>4, <2>5, <3>2
        <4>2. Ahead(t)' = Ahead(t)
          BY <4>1
        <4> QED BY <1>b, <2>1, <2>2, <2>5, <3>2, <4>2
      <3> QED BY <3>1, <3>2
    <2> QED BY <2>2, <2>5 DEF ForwardersRise
  <1>7. CASE Pump
    <2>1. forwarders' = forwarders /\ version' = version
      BY <1>7 DEF Pump, pushWorld
    <2>2. \A s \in Sites : Ahead(s)' \subseteq Ahead(s)
      BY <1>a, <1>7, AheadOfPump
    <2>3. ASSUME NEW s \in Sites, NEW f \in DOMAIN forwarders, forwarders[f].site = s
          PROVE  Rising(forwarders[f].hand, forwarders[f].queue.unread, Ahead(s)', version[s])
      <3>1. Rising(forwarders[f].hand, forwarders[f].queue.unread, Ahead(s), version[s])
        BY <1>b, <2>3
      <3>2. Ahead(s)' \in SUBSET Ahead(s)
        BY <2>2
      <3> QED BY <3>1, <3>2, RisingAfterLess
    <2> QED BY <2>1, <2>3 DEF ForwardersRise
  <1>8. CASE Close
    <2>1. DOMAIN forwarders' = {}
      BY <1>8 DEF Close
    <2> QED BY <2>1 DEF ForwardersRise
  <1> QED BY <1>2, <1>3, <1>4, <1>5, <1>6, <1>7, <1>8, KindsOfStep

\* What an event does to the sites whose latest structure was overwritten.
LEMMA OutrunOfPublished ==
    ASSUME NEW t \in Sites, NEW e \in Nat, Published(t, e)
    PROVE  /\ \A s \in Sites : s # t /\ s \notin outrun' => s \notin outrun
           /\ e = 0 /\ t \notin outrun' =>
                /\ t \notin outrun
                /\ \A f \in DOMAIN forwarders :
                     /\ forwarders[f].site = t /\ version[t] > 0
                     /\ Len(forwarders[f].queue.unread) = EventRing
                     => Head(forwarders[f].queue.unread) # version[t]
  <1>1. \A s \in Sites : s # t /\ s \notin outrun' => s \notin outrun
    BY DEF Published
  <1>2. ASSUME e = 0, t \notin outrun' PROVE t \notin outrun
    BY <1>2 DEF Published
  <1>3. ASSUME e = 0, t \notin outrun', NEW f \in DOMAIN forwarders,
               forwarders[f].site = t, version[t] > 0,
               Len(forwarders[f].queue.unread) = EventRing,
               Head(forwarders[f].queue.unread) = version[t]
        PROVE  FALSE
    <2>1. {u \in {t} : \E g \in DOMAIN forwarders :
                /\ forwarders[g].site = t
                /\ Len(forwarders[g].queue.unread) = EventRing
                /\ e = 0 /\ Head(forwarders[g].queue.unread) = version[t]
                /\ version[t] > 0} \subseteq outrun'
      BY DEF Published
    <2> QED BY <1>3, <2>1
  <1> QED BY <1>1, <1>2, <1>3

\* A bus keeps a site's latest structure for its reader, unless a sample
\* drives it out.
LEMMA SentOnTheWay ==
    ASSUME NEW forwarder, NEW later, NEW ahead, NEW queue \in QueueOf(Nat),
           NEW capacity \in Nat \ {0}, Len(queue.unread) <= capacity, NEW e \in Nat,
           forwarder.queue = queue, later.queue = Sent(queue, e, capacity),
           later.hand = forwarder.hand
    PROVE  /\ OnTheWay(ahead, later) \subseteq OnTheWay(ahead, forwarder) \cup {e}
           /\ e > 0 => e \in OnTheWay(ahead, later)
           /\ \A v \in OnTheWay(ahead, forwarder) :
                v \in OnTheWay(ahead, later) \/ (Len(queue.unread) = capacity /\ v = Head(queue.unread))
  <1>1. PICK N : N = Nat
    OBVIOUS
  <1>2. queue \in QueueOf(N) /\ e \in N
    BY <1>1
  <1> DEFINE sent == Sent(queue, e, capacity)
  <1>3. /\ e \in Unread(sent) /\ Unread(sent) \subseteq Unread(queue) \cup {e}
        /\ \A v \in Unread(queue) :
             v \in Unread(sent) \/ (Len(queue.unread) = capacity /\ v = Head(queue.unread))
    BY <1>2, SentKeeps
  <1> HIDE DEF sent
  <1>4. later.queue = sent
    BY DEF sent
  <1> QED BY <1>3, <1>4 DEF OnTheWay

\* A site's latest structure stays in its stream, unless a sample drove it out.
LEMMA LatestStaysComing == PushIInv /\ PushNext => LatestIsComing'
  <1> SUFFICES ASSUME PushIInv, PushNext,
                      NEW s \in Sites, NEW f \in DOMAIN forwarders', forwarders'[f].site = s,
                      s \notin outrun', OnTheWay(Ahead(s)', forwarders'[f]) # {}
               PROVE  version'[s] \in OnTheWay(Ahead(s)', forwarders'[f])
    BY DEF LatestIsComing
  <1>a. /\ PushTypeOK /\ ForwardersDiffer /\ OnlyLiveHold /\ HeardAreForwarded /\ LatestIsComing
    BY DEF PushIInv
  <1>b. ASSUME f \in DOMAIN forwarders, forwarders[f].site = s, s \notin outrun,
               OnTheWay(Ahead(s), forwarders[f]) # {}
        PROVE  version[s] \in OnTheWay(Ahead(s), forwarders[f])
    BY <1>a, <1>b DEF LatestIsComing
  <1>c. ASSUME f \in DOMAIN forwarders, forwarders[f].site = s, s \notin outrun, version' = version,
               OnTheWay(Ahead(s)', forwarders'[f]) = OnTheWay(Ahead(s), forwarders[f])
        PROVE  version'[s] \in OnTheWay(Ahead(s)', forwarders'[f])
    BY <1>b, <1>c
  <1>1. CASE QuietPush
    <2>1. UNCHANGED <<version, forwarders, socketQueue, browser, outrun>>
      BY <1>1, QuietSteps
    <2>2. Ahead(s)' = Ahead(s)
      BY <2>1, AheadStays
    <2> QED BY <1>c, <2>1, <2>2
  <1>2. ASSUME NEW id \in MgIds, Structure(id) \/ SampleOut(id)
        PROVE  version'[s] \in OnTheWay(Ahead(s)', forwarders'[f])
    <2>1. PICK t \in Sites, e \in Nat :
            /\ Published(t, e)
            /\ \/ e = 0 /\ version' = version
               \/ e = version[t] + 1 /\ version' = [version EXCEPT ![t] = e]
      BY <1>a, <1>2, PublishSteps
    <2>2. /\ f \in DOMAIN forwarders
          /\ forwarders'[f].site = forwarders[f].site /\ forwarders'[f].hand = forwarders[f].hand
          /\ forwarders'[f].queue =
               IF forwarders[f].site = t THEN Sent(forwarders[f].queue, e, EventRing)
               ELSE forwarders[f].queue
      BY <1>a, <2>1, PublishedShape
    <2>3. Ahead(s)' = Ahead(s)
      BY <1>a, <1>2, PublishSteps, AheadStays
    <2>4. /\ version'[t] = (IF e = 0 THEN version[t] ELSE e)
          /\ s # t => version'[s] = version[s]
          /\ version[t] \in Nat
      BY <1>a, <2>1 DEF PushTypeOK
    <2>5. CASE s # t
      <3>1. s \notin outrun
        BY <2>1, <2>5, OutrunOfPublished
      <3>2. forwarders'[f].queue = forwarders[f].queue
        BY <2>2, <2>5
      <3>3. OnTheWay(Ahead(s)', forwarders'[f]) = OnTheWay(Ahead(s), forwarders[f])
        BY <2>2, <2>3, <3>2 DEF OnTheWay
      <3> QED BY <1>b, <2>2, <2>4, <2>5, <3>1, <3>3
    <2>6. CASE s = t
      <3> DEFINE before == OnTheWay(Ahead(s), forwarders[f])
                 after == OnTheWay(Ahead(s), forwarders'[f])
      <3>1. /\ forwarders[f].queue \in QueueOf(Nat) /\ EventRing \in Nat \ {0}
            /\ Len(forwarders[f].queue.unread) <= EventRing
        BY <1>a, <2>2, ForwarderFields, PushAssumption DEF ForwardersDiffer
      <3>2. forwarders'[f].queue = Sent(forwarders[f].queue, e, EventRing)
        BY <2>2, <2>6
      <3>3. /\ after \subseteq before \cup {e}
            /\ e > 0 => e \in after
            /\ \A v \in before : \/ v \in after
                              \/ /\ Len(forwarders[f].queue.unread) = EventRing
                                 /\ v = Head(forwarders[f].queue.unread)
        BY <2>2, <3>1, <3>2, SentOnTheWay
      <3>4. \A v \in before \cup after : v > 0
        BY DEF OnTheWay
      <3> HIDE DEF before, after
      <3>5. CASE e > 0
        BY <2>3, <2>4, <2>6, <3>3, <3>5 DEF after
      <3>6. CASE e = 0
        <4>1. /\ s \notin outrun
              /\ version[s] > 0 /\ Len(forwarders[f].queue.unread) = EventRing
                   => Head(forwarders[f].queue.unread) # version[s]
          BY <2>1, <2>2, <2>6, <3>6, OutrunOfPublished
        <4>2. after # {} /\ 0 \notin after
          BY <2>3, <3>4 DEF after
        <4>3. before # {}
          BY <3>3, <3>6, <4>2
        <4>4. version[s] \in before
          BY <1>b, <2>2, <4>1, <4>3 DEF before
        <4>5. version[s] \in after
          BY <3>3, <3>4, <4>1, <4>4
        <4> QED BY <2>3, <2>4, <2>6, <3>6, <4>5 DEF after
      <3> QED BY <3>5, <3>6
    <2> QED BY <2>5, <2>6
  <1>3. CASE Snapshot \/ HearNotice \/ HearNoticeLag
    <2>1. UNCHANGED <<version, outrun, socketQueue, browser>>
      BY <1>a, <1>3, SpawnSteps DEF pushWorld
    <2>2. Ahead(s)' = Ahead(s)
      BY <2>1, AheadStays
    <2>3. CASE UNCHANGED <<forwarders, known>>
      BY <1>c, <2>1, <2>2, <2>3
    <2>4. ASSUME NEW ids \in SUBSET Listed, SpawnFor(ids)
          PROVE  version'[s] \in OnTheWay(Ahead(s)', forwarders'[f])
      <3>1. /\ DOMAIN forwarders \subseteq DOMAIN forwarders'
            /\ \A g \in DOMAIN forwarders : forwarders'[g] = forwarders[g]
            /\ \A g \in DOMAIN forwarders' \ DOMAIN forwarders :
                 \E i \in ids \ known :
                    /\ forwarders'[g].id = i /\ forwarders'[g].site = registry[i]
                    /\ forwarders'[g].queue = Queue /\ forwarders'[g].hand = Nothing
        BY <1>a, <2>4, SpawnForShape
      <3>2. CASE f \in DOMAIN forwarders
        BY <1>c, <2>1, <2>2, <3>1, <3>2
      <3>3. CASE f \notin DOMAIN forwarders
        <4>1. forwarders'[f].queue = Queue /\ forwarders'[f].hand = Nothing
          BY <3>1, <3>3
        <4>2. ForwardersDiffer'
          BY ForwardersStayDifferent
        <4>3. \A g \in DOMAIN forwarders : forwarders[g].site # s
          <5>1. \A g \in DOMAIN forwarders : g \in DOMAIN forwarders' /\ g # f
            BY <3>1, <3>3
          <5>2. \A g \in DOMAIN forwarders' : g # f => forwarders'[g].site # s
            BY <4>2 DEF ForwardersDiffer
          <5> QED BY <3>1, <5>1, <5>2
        <4>4. Ahead(s) = {}
          <5>1. CASE session = "live"
            BY <1>a, <4>3, <5>1 DEF HeardAreForwarded
          <5>2. CASE session = "subscribed"
            <6>1. browser[s] = <<>> /\ socketQueue = <<>>
              BY <1>a, <5>2 DEF OnlyLiveHold
            <6>2. DOMAIN browser[s] = {} /\ DOMAIN socketQueue = {}
              BY <6>1
            <6> QED BY <6>2 DEF Ahead
          <5> QED BY <1>3, <5>1, <5>2 DEF Snapshot, HearNotice, HearNoticeLag
        <4>5. Unread(Queue) = {}
          BY DEF Unread, Queue
        <4>6. OnTheWay(Ahead(s)', forwarders'[f]) = {}
          <5>1. \A v \in Ahead(s)' \cup {forwarders'[f].hand} \cup Unread(forwarders'[f].queue) : v = Nothing
            BY <2>2, <4>1, <4>4, <4>5
          <5> QED BY <5>1 DEF OnTheWay, Nothing
        <4> QED BY <4>6
      <3> QED BY <3>2, <3>3
    <2> QED BY <1>a, <1>3, <2>3, <2>4, SpawnSteps
  <1>4. ASSUME NEW g \in DOMAIN forwarders, Take(g)
        PROVE  version'[s] \in OnTheWay(Ahead(s)', forwarders'[f])
    <2> DEFINE before == forwarders[f].queue.unread
               after == forwarders'[f].queue.unread
    <2>1. UNCHANGED <<version, outrun, socketQueue, browser>>
      BY <1>4 DEF Take, pushWorld
    <2>2. /\ f \in DOMAIN forwarders /\ forwarders'[f].site = forwarders[f].site
          /\ \/ forwarders'[f] = forwarders[f]
             \/ /\ forwarders[f].hand = Nothing
                /\ \/ forwarders'[f].hand = Nothing /\ after = before
                   \/ /\ before # <<>> /\ forwarders'[f].hand = before[1]
                      /\ Len(after) = Len(before) - 1 /\ after \in Seq(Nat)
                      /\ \A u \in 1..Len(after) : after[u] = before[u + 1]
      <3>1. CASE f = g
        BY <1>a, <1>4, <3>1, TakeShape
      <3>2. CASE f # g
        BY <1>a, <1>4, <3>2, TakeShape
      <3> QED BY <3>1, <3>2
    <2>3. Ahead(s)' = Ahead(s)
      BY <2>1, AheadStays
    <2>4. CASE forwarders'[f] = forwarders[f]
      BY <1>c, <2>1, <2>2, <2>3, <2>4
    <2>5. CASE forwarders[f].hand = Nothing /\ forwarders'[f].hand = Nothing /\ after = before
      <3>1. OnTheWay(Ahead(s)', forwarders'[f]) = OnTheWay(Ahead(s), forwarders[f])
        BY <2>3, <2>5 DEF OnTheWay, Unread
      <3> QED BY <1>c, <2>1, <2>2, <3>1
    <2>6. CASE /\ forwarders[f].hand = Nothing
               /\ before # <<>> /\ forwarders'[f].hand = before[1]
               /\ Len(after) = Len(before) - 1 /\ after \in Seq(Nat)
               /\ \A u \in 1..Len(after) : after[u] = before[u + 1]
      <3>1. /\ DOMAIN before = 1..Len(before) /\ Len(before) \in Nat \ {0}
            /\ DOMAIN after = 1..(Len(before) - 1)
        <4>1. before \in Seq(Nat)
          BY <1>a, <2>2, ForwarderFields
        <4> HIDE DEF before, after
        <4> QED BY <2>6, <4>1, LenProperties, EmptySeq
      <3> HIDE DEF before, after
      <3>2. \A k \in DOMAIN before : k = 1 \/ (k - 1 \in DOMAIN after /\ after[k - 1] = before[k])
        <4> TAKE k \in DOMAIN before
        <4>1. CASE k # 1
          <5>1. k - 1 \in 1..Len(after) /\ (k - 1) + 1 = k
            BY <2>6, <3>1, <4>1
          <5> QED BY <2>6, <3>1, <5>1
        <4> QED BY <4>1
      <3>3. \A k \in DOMAIN after : k + 1 \in DOMAIN before /\ after[k] = before[k + 1]
        BY <2>6, <3>1
      <3>4. 1 \in DOMAIN before
        BY <3>1
      <3>5. {before[k] : k \in DOMAIN before} = {before[1]} \cup {after[k] : k \in DOMAIN after}
        BY <3>2, <3>3, <3>4
      <3>6. /\ OnTheWay(Ahead(s)', forwarders'[f])
                 = {e \in Ahead(s) \cup {before[1]} \cup {after[k] : k \in DOMAIN after} : e > 0}
            /\ OnTheWay(Ahead(s), forwarders[f])
                 = {e \in Ahead(s) \cup {Nothing} \cup {before[k] : k \in DOMAIN before} : e > 0}
        BY <2>3, <2>6 DEF OnTheWay, Unread, before, after
      <3>7. OnTheWay(Ahead(s)', forwarders'[f]) = OnTheWay(Ahead(s), forwarders[f])
        BY <3>5, <3>6 DEF Nothing
      <3> QED BY <1>c, <2>1, <2>2, <3>7
    <2> HIDE DEF before, after
    <2> QED BY <2>2, <2>4, <2>5, <2>6
  <1>5. ASSUME NEW g \in DOMAIN forwarders, Pass(g)
        PROVE  version'[s] \in OnTheWay(Ahead(s)', forwarders'[f])
    <2>1. version' = version /\ outrun' = outrun
      BY <1>5 DEF Pass, pushWorld
    <2>2. /\ f \in DOMAIN forwarders
          /\ forwarders'[f].site = forwarders[f].site /\ forwarders'[f].queue = forwarders[f].queue
          /\ forwarders'[f].hand = IF f = g THEN Nothing ELSE forwarders[f].hand
      BY <1>a, <1>5, PassShape
    <2>3. Ahead(s)' = Ahead(s) \cup (IF s = forwarders[g].site THEN {forwarders[g].hand} ELSE {})
      BY <1>a, <1>5, AheadOfPass
    <2>4. f = g <=> s = forwarders[g].site
      BY <1>a, <2>2 DEF ForwardersDiffer
    <2>5. OnTheWay(Ahead(s)', forwarders'[f]) = OnTheWay(Ahead(s), forwarders[f])
      <3>1. CASE f = g
        <4>1. Ahead(s)' = Ahead(s) \cup {forwarders[f].hand} /\ forwarders'[f].hand = Nothing
          BY <2>2, <2>3, <2>4, <3>1
        <4> QED BY <2>2, <4>1 DEF OnTheWay, Nothing
      <3>2. CASE f # g
        <4>1. Ahead(s)' = Ahead(s) \cup {} /\ forwarders'[f].hand = forwarders[f].hand
          BY <2>2, <2>3, <2>4, <3>2
        <4> QED BY <2>2, <4>1 DEF OnTheWay
      <3> QED BY <3>1, <3>2
    <2> QED BY <1>c, <2>1, <2>2, <2>5
  <1>6. CASE Pump
    <2>1. UNCHANGED <<version, outrun, forwarders>>
      BY <1>6 DEF Pump, pushWorld
    <2>2. Ahead(s)' \subseteq Ahead(s) /\ \A e \in Ahead(s) : e > 0 => e \in Ahead(s)'
      BY <1>a, <1>6, AheadOfPump
    <2>3. OnTheWay(Ahead(s)', forwarders'[f]) = OnTheWay(Ahead(s), forwarders[f])
      BY <2>1, <2>2 DEF OnTheWay
    <2> QED BY <1>c, <2>1, <2>3
  <1>7. CASE Close
    BY <1>7 DEF Close
  <1> QED BY <1>1, <1>2, <1>3, <1>4, <1>5, <1>6, <1>7, KindsOfStep

-----------------------------------------------------------------------------
(* The push channel: what the browser hears                                 *)

\* The initial state satisfies the invariant, ...
LEMMA PushBegins == PushInit => PushIInv
  <1> SUFFICES ASSUME PushInit PROVE PushIInv
    OBVIOUS
  <1>1. /\ \A i \in MgIds : registry[i] = NoSite
        /\ maker = Idle /\ made = 0 /\ session = "off" /\ notices = Queue
        /\ known = {} /\ forwarders = <<>> /\ socketQueue = <<>>
        /\ \A s \in Sites : browser[s] = <<>>
    BY DEF PushInit
  <1>2. /\ DOMAIN forwarders = {} /\ DOMAIN socketQueue = {}
        /\ \A s \in Sites : DOMAIN browser[s] = {}
    BY <1>1
  <1>3. PushTypeOK
    <2>1. Queue \in QueueOf(MgIds) /\ Len(Queue.unread) = 0
      BY EmptySeq DEF Queue, QueueOf
    <2>2. forwarders \in Seq(ForwarderType) /\ socketQueue \in Seq([site : Sites, event : Nat])
      BY <1>1, EmptySeq
    <2>3. browser \in [Sites -> Seq(Nat)] /\ version \in [Sites -> Nat]
      BY EmptySeq DEF PushInit
    <2>4. registry \in [MgIds -> {NoSite} \cup Sites]
      BY DEF PushInit
    <2>5. made \in 0..MaxSites /\ 0 <= Announcements
      BY <1>1, PushAssumption
    <2> QED BY <1>1, <2>1, <2>2, <2>3, <2>4, <2>5 DEF PushTypeOK
  <1>4. SitesAreOwned
    BY <1>1 DEF SitesAreOwned, NoSite
  <1>5. ForwardersDiffer /\ ForwardersRise /\ LatestIsComing
    BY <1>2 DEF ForwardersDiffer, ForwardersRise, LatestIsComing
  <1>6. OnlyLiveHold /\ KnownAreServed /\ MissingAreAnnounced /\ HeardAreForwarded
    BY <1>1 DEF OnlyLiveHold, KnownAreServed, MissingAreAnnounced, HeardAreForwarded
  <1>7. BrowserRises /\ ChannelRises
    BY <1>2 DEF BrowserRises, ChannelRises
  <1> QED BY <1>3, <1>4, <1>5, <1>6, <1>7 DEF PushIInv

\* ... every step keeps it, ...
LEMMA PushStaysSound == PushIInv /\ [PushNext]_pushVars => PushIInv'
  <1> SUFFICES ASSUME PushIInv, [PushNext]_pushVars PROVE PushIInv'
    OBVIOUS
  <1>1. CASE PushNext
    BY <1>1, PushTypes, SitesStayOwned, ForwardersStayDifferent, HoldingIsOfTheLive,
       KnownStayServed, NobodyIsForgotten, HeardStayForwarded, BrowserStillRises,
       ChannelStillRises, ForwardersStillRise, LatestStaysComing DEF PushIInv
  <1>2. CASE UNCHANGED pushVars
    <2>1. UNCHANGED <<registry, maker, made, version, session, notices, known, forwarders,
                      socketQueue, browser, doomed, outrun>>
      BY <1>2 DEF pushVars, pushWorld, client
    <2>2. PushTypeOK' /\ SitesAreOwned' /\ ForwardersDiffer' /\ OnlyLiveHold' /\ KnownAreServed'
      BY <2>1 DEF PushIInv, PushTypeOK, SitesAreOwned, ForwardersDiffer, OnlyLiveHold, KnownAreServed
    <2>3. MissingAreAnnounced'
      BY <2>1 DEF PushIInv, MissingAreAnnounced, Settled, Unannounced
    <2>4. HeardAreForwarded' /\ BrowserRises' /\ ChannelRises'
      BY <2>1 DEF PushIInv, HeardAreForwarded, BrowserRises, ChannelRises, Ahead
    <2>5. ForwardersRise' /\ LatestIsComing'
      <3>1. \A s \in Sites : Ahead(s)' = Ahead(s)
        BY <2>1, AheadStays
      <3>2. ForwardersRise'
        BY <2>1, <3>1 DEF PushIInv, ForwardersRise
      <3>3. LatestIsComing'
        BY <2>1, <3>1 DEF PushIInv, LatestIsComing
      <3> QED BY <3>2, <3>3
    <2> QED BY <2>2, <2>3, <2>4, <2>5 DEF PushIInv
  <1> QED BY <1>1, <1>2

\* ... it gives each announced microgrid its one forwarder, ...
LEMMA EveryMicrogridIsHeard == PushIInv => EveryMicrogridOnce
  <1> SUFFICES ASSUME PushIInv, session = "live", NEW id \in MgIds, Settled(id)
               PROVE  /\ Cardinality(Serving(id)) <= 1
                      /\ notices = Queue => Serving(id) # {} \/ id \in doomed
    BY DEF EveryMicrogridOnce
  <1>1. Cardinality(Serving(id)) <= 1
    <2>1. CASE Serving(id) = {}
      BY <2>1, FS_EmptySet
    <2>2. ASSUME NEW f \in Serving(id) PROVE Serving(id) = {f}
      BY <2>2 DEF PushIInv, ForwardersDiffer, Serving
    <2>3. ASSUME NEW f \in Serving(id) PROVE Cardinality(Serving(id)) = 1
      BY <2>2, <2>3, FS_Singleton
    <2> QED BY <2>1, <2>3
  <1>2. ASSUME notices = Queue PROVE Serving(id) # {} \/ id \in doomed
    <2>1. ~notices.lagged /\ Unread(notices) = {}
      BY <1>2 DEF Queue, Unread
    <2>2. id \in known
      BY <2>1 DEF PushIInv, MissingAreAnnounced
    <2> QED BY <2>2 DEF PushIInv, KnownAreServed, Serving
  <1> QED BY <1>1, <1>2

\* ... and a drained stream its latest structure in the browser.
LEMMA TheLatestIsHeard == PushIInv => StructureIsHeard
  <1> SUFFICES ASSUME PushIInv PROVE StructureIsHeard
    OBVIOUS
  <1>a. PushTypeOK /\ BrowserRises /\ LatestIsComing
    BY DEF PushIInv
  <1>1. \A s \in Sites : \A i, j \in DOMAIN browser[s] : i < j => browser[s][i] < browser[s][j]
    BY <1>a DEF BrowserRises
  <1>2. ASSUME socketQueue = <<>>, NEW f \in DOMAIN forwarders, NEW s \in Sites,
               forwarders[f].site = s, forwarders[f].hand = Nothing,
               forwarders[f].queue.unread = <<>>, s \notin outrun, browser[s] # <<>>
        PROVE  browser[s][Len(browser[s])] = version[s]
    <2> DEFINE heard == browser[s]
    <2>1. heard \in Seq(Nat) /\ DOMAIN heard = 1..Len(heard) /\ Len(heard) \in Nat \ {0}
      <3>1. browser[s] \in Seq(Nat)
        BY <1>a DEF PushTypeOK
      <3> QED BY <1>2, <3>1, LenProperties, EmptySeq
    <2>2. /\ \A j \in DOMAIN heard : heard[j] \in 1..version[s]
          /\ \A i, j \in DOMAIN heard : i < j => heard[i] < heard[j]
          /\ version[s] \in Nat
      BY <1>a DEF BrowserRises, PushTypeOK
    <2>3. Ahead(s) = {heard[j] : j \in DOMAIN heard}
      <3>1. DOMAIN socketQueue = {}
        BY <1>2
      <3> QED BY <3>1 DEF Ahead
    <2>4. Unread(forwarders[f].queue) = {}
      BY <1>2 DEF Unread
    <2> HIDE DEF heard
    <2>5. OnTheWay(Ahead(s), forwarders[f]) = {heard[j] : j \in DOMAIN heard}
      <3>1. Nothing < 1 /\ \A j \in DOMAIN heard : heard[j] > 0
        BY <2>2 DEF Nothing
      <3> QED BY <1>2, <2>3, <2>4, <3>1 DEF OnTheWay, Nothing
    <2>6. 1 \in DOMAIN heard /\ Len(heard) \in DOMAIN heard
      BY <2>1
    <2>7. version[s] \in {heard[j] : j \in DOMAIN heard}
      <3>1. OnTheWay(Ahead(s), forwarders[f]) # {}
        BY <2>5, <2>6
      <3> QED BY <1>2, <1>a, <2>5, <3>1 DEF LatestIsComing
    <2>8. PICK j \in DOMAIN heard : heard[j] = version[s]
      BY <2>7
    <2>9. ~(j < Len(heard))
      <3>1. ASSUME j < Len(heard) PROVE FALSE
        <4>1. heard[j] < heard[Len(heard)] /\ heard[Len(heard)] \in 1..version[s]
          BY <2>2, <2>6, <3>1
        <4> QED BY <2>2, <2>8, <4>1
      <3> QED BY <3>1
    <2>10. j = Len(heard)
      BY <2>1, <2>9
    <2> QED BY <2>8, <2>10 DEF heard
  <1>3. \A f \in DOMAIN forwarders : forwarders[f].site \in Sites
    BY <1>a, ForwarderFields
  <1> QED BY <1>1, <1>2, <1>3 DEF StructureIsHeard

\* A browser that stays connected hears every microgrid that was announced,
\* through one forwarder, and its structure in order, the latest too: unless
\* its creation failed under the session, or a burst of samples drove the
\* event out of the ring (ui/events_ws.rs).
THEOREM BrowsersHear == PushSpec => []BrowserHears
  <1>1. PushIInv => BrowserHears
    BY EveryMicrogridIsHeard, TheLatestIsHeard DEF BrowserHears
  <1> QED BY <1>1, PushBegins, PushStaysSound, PTL DEF PushSpec
=============================================================================
