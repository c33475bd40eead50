----------------------------- MODULE Enterprise -----------------------------
(***************************************************************************)
(* The microgrids of one enterprise: the registry and its ids and ports      *)
(* (src/src/sim/microgrids.rs), (make-microgrid ...)                         *)
(* (src/src/lisp/defuns/microgrids.rs), the handlers that create and copy    *)
(* microgrid files (src/src/ui/handlers/microgrids.rs, load_as of            *)
(* src/src/lisp/boot.rs), and the runtimes that serve what is registered     *)
(* (src/src/runtime.rs).                                                     *)
(*                                                                          *)
(* Three threads of control meet: whoever holds the interpreter evaluates    *)
(* one make-microgrid at a time; a create holds the create lock from its     *)
(* choice of id and port to the end of its load; a start holds the start     *)
(* lock.  Only the registry's own lock is held across all they read of it.   *)
(***************************************************************************)
EXTENDS Naturals, Sequences, FiniteSets, FiniteSetsExt, Functions

CONSTANTS
    None,           \* no value: a request leaves a choice open, a slot is empty
    Id,             \* microgrid ids, counted from 1
    Port,           \* ports, counted from 1; the last is where both counts end
    Asks,           \* the ids and ports asked for, None for a free one
    Reserved,       \* the assets and dispatch servers' ports
    Requests,       \* creates and copies, each made once
    Scripts,        \* hand-written files; each declares one microgrid
    Ring,           \* announcements the runtime listener may be behind
    MaxMakes,       \* make-microgrid evaluations, a bound of the model
    MaxEnds         \* servers that end by themselves, a bound of the model

ASSUME CountAssumption ==
    /\ Id \subseteq Nat /\ \E last \in Id : \A i \in Id : i <= last
    /\ Port \subseteq Nat /\ \E last \in Port : \A i \in Port : i <= last

ASSUME AskAssumption == Asks \subseteq (Id \cup {None}) \X (Port \cup {None})

ASSUME RingAssumption == Ring \in Nat \ {0}

VARIABLES
    entries,        \* the registry: port, site and source of each id
    disk,           \* the ids whose managed file exists
    interp,         \* the make-microgrid the interpreter is in, or None
    sites,          \* sites made so far
    makes,          \* make-microgrid evaluations so far
    request,        \* where each create is, and the id and port it chose
    creating,       \* the request that holds the create lock
    announced,      \* ids announced (history)
    listener,       \* whether the runtime listener has subscribed, and read
    bus,            \* announcements it has not read
    lagged,         \* whether it lost some
    todo,           \* ids it still has to start
    runtimes,       \* status, address, site and generation of each id
    starting,       \* the start that holds the start lock
    servers,        \* the gRPC servers that run
    ended,          \* servers whose end their watcher has not seen
    ends            \* servers that ended so far

lisp == <<entries, disk, interp, sites, makes, announced>>
handlers == <<request, creating>>
listening == <<listener, bus, lagged, todo>>
running == <<runtimes, starting, servers, ended, ends>>
vars == <<lisp, handlers, listening, running>>

Registered == DOMAIN entries
Managed(id) == <<"managed", id>>

Source == {<<"repl">>} \cup {<<"script", s>> : s \in Scripts}
              \cup {Managed(id) : id \in Id}

Entry == [port : Port, site : Nat, source : Source]
Make == [id : Id, reused : BOOLEAN, by : Requests \cup {None}]
Creation == [at : {"asked", "refused", "written", "loading", "loaded", "reported"},
             id : Id \cup {None}, port : Port \cup {None}]
Status == {"starting", "running", "unbound", "ended", "replaced"}
State == [status : Status, addr : Port \cup {None}, site : Nat, generation : Nat]
Attempt == [id : Id, at : {"bind", "spawn"}, addr : Port, generation : Nat]
Server == [id : Id, addr : Port, generation : Nat]

ASSUME NoneIsNothing ==
    None \notin Id \cup Port \cup Requests /\ None \notin Make /\ None \notin Attempt

TypeOK ==
    /\ Registered \subseteq Id /\ entries \in [Registered -> Entry]
    /\ disk \subseteq Id
    /\ interp \in Make \cup {None}
    /\ sites \in Nat
    /\ request \in [Requests -> Creation]
    /\ creating \in Requests \cup {None}
    /\ announced \subseteq Id
    /\ listener \in {"off", "subscribed", "live"}
    /\ bus \in Seq(Id)
    /\ lagged \in BOOLEAN
    /\ todo \subseteq Id
    /\ DOMAIN runtimes \subseteq Id /\ runtimes \in [DOMAIN runtimes -> State]
    /\ starting \in Attempt \cup {None}
    /\ servers \subseteq Server
    /\ ended \subseteq Server

Init ==
    /\ entries = <<>>
    /\ disk = {}
    /\ interp = None
    /\ sites = 0
    /\ makes = 0
    /\ request = [r \in Requests |-> [at |-> "asked", id |-> None, port |-> None]]
    /\ creating = None
    /\ announced = {}
    /\ listener = "off"
    /\ bus = <<>>
    /\ lagged = FALSE
    /\ todo = {}
    /\ runtimes = <<>>
    /\ starting = None
    /\ servers = {}
    /\ ended = {}
    /\ ends = 0

(***************************************************************************)
(* The registry.                                                            *)
(***************************************************************************)
Extended(f, x, v) == [y \in DOMAIN f \cup {x} |-> IF y = x THEN v ELSE f[y]]

\* check_port: no other microgrid has it, and it is not reserved.
Claimable(id, port) ==
    /\ \A other \in Registered \ {id} : entries[other].port # port
    /\ port \notin Reserved

\* next_free_id_in, next_free_port_in: the first of the range not taken.
\* Both saturate at the end of theirs, whether it is taken or not.
FirstFree(range, taken) ==
    IF range \ taken = {} THEN Max(range) ELSE Min(range \ taken)

NextFreeId == FirstFree(Id, Registered)
NextFreePort == FirstFree(Port, {entries[i].port : i \in Registered} \cup Reserved)

\* A plausible slip: a port is only held once it is bound.
PinnedBound(id) == id \in DOMAIN runtimes /\ runtimes[id].addr # None

\* port_pinned: the runtime is starting, or was bound at least once.
Pinned(id) ==
    id \in DOMAIN runtimes
    /\ (runtimes[id].addr # None \/ runtimes[id].status = "starting")

(***************************************************************************)
(* (make-microgrid ...), evaluated under the interpreter lock.  The id,     *)
(* port and reuse checks and the insert are one holding of the registry's   *)
(* lock; the topology is built, and the id announced, after it.             *)
(***************************************************************************)
SamePlace(id, source) == entries[id].source = source /\ source # <<"repl">>

\* The port an existing microgrid keeps or moves to.
ReusePort(id, port) ==
    IF port = None \/ Pinned(id) THEN entries[id].port ELSE port

Refused(id, port, source) ==
    IF id \in Registered
    THEN \/ ~SamePlace(id, source)
         \/ ReusePort(id, port) # entries[id].port /\ ~Claimable(id, port)
    ELSE port # None /\ ~Claimable(id, port)

\* The entry a make-microgrid inserts: the live site of a microgrid its file
\* declares again, a new one otherwise.
Declared(id, port, source) ==
    IF id \in Registered
    THEN [port |-> ReusePort(id, port), site |-> entries[id].site, source |-> source]
    ELSE [port |-> IF port = None THEN NextFreePort ELSE port,
          site |-> sites + 1, source |-> source]

Insert(id, port, source, by) ==
    /\ interp = None
    /\ makes < MaxMakes
    /\ makes' = makes + 1
    /\ ~Refused(id, port, source)
    /\ entries' = Extended(entries, id, Declared(id, port, source))
    /\ sites' = IF id \in Registered THEN sites ELSE sites + 1
    /\ interp' = [id |-> id, reused |-> id \in Registered, by |-> by]
    /\ UNCHANGED <<disk, announced, listening, running>>

\* A form at the REPL, with or without an id and a port.
MakeAtRepl(id, port) ==
    /\ Insert(IF id = None THEN NextFreeId ELSE id, port, <<"repl">>, None)
    /\ UNCHANGED handlers

\* A script loaded, or loaded again after an edit of its port.
LoadScript(s, id, port) ==
    /\ Insert(id, port, <<"script", s>>, None)
    /\ UNCHANGED handlers

\* send on the registration channel, whose ring the listener reads.
Announce(id) ==
    /\ announced' = announced \cup {id}
    /\ IF listener = "off" THEN UNCHANGED <<bus, lagged>>
       ELSE /\ bus' = Append(IF Len(bus) = Ring THEN Tail(bus) ELSE bus, id)
            /\ lagged' = (lagged \/ Len(bus) = Ring)
    /\ UNCHANGED <<listener, todo>>

\* A create's load has ended: it has its microgrid, or drops its file.
EndLoad(by, id, loaded) ==
    IF by = None THEN UNCHANGED <<handlers, disk>>
    ELSE /\ request' = [request EXCEPT ![by].at = IF loaded THEN "loaded" ELSE "refused"]
         /\ creating' = None
         /\ disk' = IF loaded THEN disk ELSE disk \ {id}

\* The topology is built, and only then the microgrid is announced.
Build ==
    /\ interp # None
    /\ interp' = None
    /\ Announce(interp.id)
    /\ EndLoad(interp.by, interp.id, TRUE)
    /\ UNCHANGED <<entries, sites, makes, running>>

\* The topology fails: a microgrid this call created is removed again, and
\* the create or copy whose load it was drops its file.
FailToBuild ==
    /\ interp # None
    /\ interp' = None
    /\ entries' = IF interp.reused THEN entries ELSE Restrict(entries, Registered \ {interp.id})
    /\ EndLoad(interp.by, interp.id, FALSE)
    /\ UNCHANGED <<sites, makes, announced, listening, running>>

(***************************************************************************)
(* create_core and load_as: choose, write the file, load it, all under the   *)
(* create lock.                                                              *)
(***************************************************************************)
Refuse(r) == request' = [request EXCEPT ![r].at = "refused"]

Choose(r, id, port) ==
    /\ request[r].at = "asked" /\ creating = None /\ listener = "live"
    /\ LET chosen == IF id = None THEN NextFreeId ELSE id
           onPort == IF port = None THEN NextFreePort ELSE port
       IN  IF \/ id # None /\ id \in Registered
              \/ port # None /\ ~Claimable(chosen, port)
              \/ chosen \in disk
           THEN Refuse(r) /\ UNCHANGED <<disk, creating>>
           ELSE /\ request' = [request EXCEPT ![r] =
                        [at |-> "written", id |-> chosen, port |-> onPort]]
                /\ disk' = disk \cup {chosen}
                /\ creating' = r
    /\ UNCHANGED <<entries, interp, sites, makes, announced, listening, running>>

\* load_file of the file just written: its make-microgrid names id and port.
LoadCreated(r) ==
    /\ request[r].at = "written"
    /\ Insert(request[r].id, request[r].port, Managed(request[r].id), r)
    /\ request' = [request EXCEPT ![r].at = "loading"]
    /\ UNCHANGED creating

\* The load is refused: somebody took the id or the port in between.
LoadRefused(r) ==
    /\ request[r].at = "written" /\ interp = None
    /\ Refused(request[r].id, request[r].port, Managed(request[r].id))
    /\ EndLoad(r, request[r].id, FALSE)
    /\ UNCHANGED <<entries, interp, sites, makes, announced, listening, running>>

(***************************************************************************)
(* The runtimes.                                                            *)
(***************************************************************************)

Runtime(status, addr, site, generation) ==
    [status |-> status, addr |-> addr, site |-> site, generation |-> generation]

\* start, up to the release of the registry and the runtimes: the address
\* and the status are settled under both.
Start(id) ==
    /\ starting = None
    /\ IF id \notin Registered THEN UNCHANGED <<runtimes, starting>>
       ELSE LET e == entries[id] IN
            IF id \notin DOMAIN runtimes
            THEN /\ runtimes' = Extended(runtimes, id, Runtime("starting", None, e.site, 1))
                 /\ starting' = [id |-> id, at |-> "bind", addr |-> e.port, generation |-> 1]
            ELSE LET rt == runtimes[id] IN
                 IF rt.site # e.site
                 THEN /\ runtimes' = [runtimes EXCEPT ![id] =
                            Runtime("replaced", rt.addr, rt.site, rt.generation + 1)]
                      /\ UNCHANGED starting
                 ELSE IF rt.status = "running" THEN UNCHANGED <<runtimes, starting>>
                 ELSE /\ runtimes' = [runtimes EXCEPT ![id] =
                            Runtime("starting", rt.addr, rt.site, rt.generation + 1)]
                      /\ starting' = [id |-> id, at |-> "bind",
                                      addr |-> IF rt.addr = None THEN e.port ELSE rt.addr,
                                      generation |-> rt.generation + 1]
    /\ UNCHANGED <<servers, ended, ends>>

\* A plausible slip: whatever attempt it was.
SetStatusAnyway(id, generation, status) ==
    runtimes' = [runtimes EXCEPT ![id].status = status]

\* set_status: an attempt only touches the status of its own.
SetStatus(id, generation, status) ==
    runtimes' = IF runtimes[id].generation = generation
                THEN [runtimes EXCEPT ![id].status = status] ELSE runtimes

BindFails ==
    /\ starting # None /\ starting.at = "bind"
    /\ SetStatus(starting.id, starting.generation, "unbound")
    /\ starting' = None
    /\ UNCHANGED <<lisp, handlers, listening, servers, ended, ends>>

\* A port another server holds cannot be bound; marked running before the
\* server exists.
Bind ==
    /\ starting # None /\ starting.at = "bind"
    /\ \A s \in servers : s.addr # starting.addr
    /\ runtimes' = [runtimes EXCEPT
            ![starting.id].addr = starting.addr,
            ![starting.id].status =
                IF runtimes[starting.id].generation = starting.generation
                THEN "running" ELSE @]
    /\ starting' = [starting EXCEPT !.at = "spawn"]
    /\ UNCHANGED <<lisp, handlers, listening, servers, ended, ends>>

Spawn ==
    /\ starting # None /\ starting.at = "spawn"
    /\ servers' = servers \cup {[id |-> starting.id, addr |-> starting.addr,
                                 generation |-> starting.generation]}
    /\ starting' = None
    /\ UNCHANGED <<lisp, handlers, listening, runtimes, ended, ends>>

ServerEnds(s) ==
    /\ s \in servers /\ ends < MaxEnds
    /\ ends' = ends + 1
    /\ servers' = servers \ {s}
    /\ ended' = ended \cup {s}
    /\ UNCHANGED <<lisp, handlers, listening, runtimes, starting>>

\* watch_server.
WatcherSees(s) ==
    /\ s \in ended
    /\ ended' = ended \ {s}
    /\ SetStatus(s.id, s.generation, "ended")
    /\ UNCHANGED <<lisp, handlers, listening, starting, servers, ends>>

\* start_and_report, the create's own start.
StartCreated(r) ==
    /\ request[r].at = "loaded"
    /\ Start(request[r].id)
    /\ request' = [request EXCEPT ![r].at = "reported"]
    /\ UNCHANGED <<lisp, creating, listening>>

\* spawn_registration_listener: subscribe, then read the registry.
Subscribe ==
    /\ listener = "off"
    /\ listener' = "subscribed"
    /\ UNCHANGED <<lisp, handlers, bus, lagged, todo, running>>

StartAll ==
    /\ listener = "subscribed"
    /\ listener' = "live"
    /\ todo' = Registered
    /\ UNCHANGED <<lisp, handlers, bus, lagged, running>>

\* start_all, lowest id first.
StartNext ==
    /\ todo # {}
    /\ Start(Min(todo))
    /\ todo' = todo \ {Min(todo)}
    /\ UNCHANGED <<lisp, handlers, listener, bus, lagged>>

Hear ==
    /\ listener = "live" /\ todo = {} /\ ~lagged /\ bus # <<>>
    /\ todo' = {Head(bus)}
    /\ bus' = Tail(bus)
    /\ UNCHANGED <<lisp, handlers, listener, lagged, running>>

\* A plausible slip: the listener reads on.
HearOn ==
    /\ listener = "live" /\ todo = {} /\ lagged
    /\ lagged' = FALSE
    /\ UNCHANGED <<lisp, handlers, listener, bus, todo, running>>

\* Announcements were lost: everything registered is started.
HearLag ==
    /\ listener = "live" /\ todo = {} /\ lagged
    /\ todo' = Registered
    /\ lagged' = FALSE
    /\ UNCHANGED <<lisp, handlers, listener, bus, running>>

Listen == Subscribe \/ StartAll \/ StartNext \/ Hear \/ HearLag
RunStart == Bind \/ BindFails \/ Spawn

Next ==
    \/ \E ask \in Asks :
        \/ MakeAtRepl(ask[1], ask[2])
        \/ \E s \in Scripts : ask[1] # None /\ LoadScript(s, ask[1], ask[2])
        \/ \E r \in Requests : Choose(r, ask[1], ask[2])
    \/ Build \/ FailToBuild
    \/ \E r \in Requests : LoadCreated(r) \/ LoadRefused(r) \/ StartCreated(r)
    \/ Listen \/ RunStart
    \/ \E s \in servers : ServerEnds(s)
    \/ \E s \in ended : WatcherSees(s)

Spec == Init /\ [][Next]_vars

-----------------------------------------------------------------------------
(* Properties *)

\* Wherever an id and a port come from - a create that chose before its load,
\* a reload that moves a port, a form at the REPL - no two microgrids have one
\* port and none has a reserved one (defuns/microgrids.rs:272), as long as
\* ports are left.
PortsApart ==
    \A i \in Registered :
        \/ entries[i].port = Max(Port)
        \/ Claimable(i, entries[i].port)

\* The port the registry tells clients is the one the runtime of the same site
\* is bound to or is binding (runtime.rs:182).
ServesItsPort ==
    \A i \in Registered \cap DOMAIN runtimes :
        runtimes[i].site = entries[i].site =>
            /\ runtimes[i].addr \in {None, entries[i].port}
            /\ starting # None /\ starting.id = i => starting.addr = entries[i].port

\* No two microgrids have one port, and a server serves the one its microgrid
\* is registered with (microgrids.rs:165, runtime.rs:182).
PortsAreTrue == PortsApart /\ ServesItsPort

\* A microgrid reported running has the server of its newest attempt, or one
\* whose end is about to be seen, or is about to have one; and one whose site
\* was replaced stays reported as that, whatever becomes of the server of the
\* old site (runtime.rs:85, 199, 247).
RunningHasServer ==
    \A i \in DOMAIN runtimes :
        LET own == {s \in servers \cup ended :
                        s.id = i /\ s.generation = runtimes[i].generation}
            spawning == starting # None /\ starting.id = i /\ starting.at = "spawn"
        IN  /\ runtimes[i].status = "running" => own # {} \/ spawning
            /\ own # {} => runtimes[i].status = "running"

ReplacedStaysReported ==
    \A i \in DOMAIN runtimes :
        runtimes[i].status = "replaced" => runtimes'[i].status = "replaced"

StatusIsOfItsServer == []RunningHasServer /\ [][ReplacedStaysReported]_vars

\* What is announced exists: a topology that failed leaves no microgrid behind
\* that anyone was told of, and takes none that was there
\* (defuns/microgrids.rs:390).
AnnouncedExist == announced \subseteq Registered

\* A managed file on disk backs a live microgrid or belongs to the create that
\* is underway; a create never leaves an orphan and never loses a file another
\* create made (ui/handlers/microgrids.rs:200).
NoOrphanFiles ==
    \A i \in disk :
        \/ i \in Registered /\ entries[i].source = Managed(i)
        \/ creating # None /\ request[creating].id = i

\* When neither the listener nor a start has anything left to do, every
\* microgrid announced has been attempted, however many announcements the
\* listener lost and whatever order it subscribed in (runtime.rs:265).
Quiet ==
    /\ listener = "live" /\ bus = <<>> /\ ~lagged
    /\ todo = {} /\ starting = None

AnnouncedAreStarted ==
    Quiet => \A i \in announced :
                 i \in DOMAIN runtimes /\ runtimes[i].status # "starting"

\* What was announced exists and is started, also when the listener lagged
\* (defuns/microgrids.rs:390, runtime.rs:289), and a managed file belongs to a
\* microgrid or to a create under way (ui/handlers/microgrids.rs:205).
AnnouncedAreReal == AnnouncedExist /\ AnnouncedAreStarted /\ NoOrphanFiles

-----------------------------------------------------------------------------
(***************************************************************************)
(* The inductive invariant behind these.                                    *)
(***************************************************************************)
\* A site is new when it is made, and a replaced runtime's never comes back.
SitesAreCounted ==
    /\ \A i \in Registered : entries[i].site <= sites
    /\ \A i \in DOMAIN runtimes : runtimes[i].site <= sites
    /\ \A i \in Registered \cap DOMAIN runtimes :
           runtimes[i].status = "replaced" => runtimes[i].site # entries[i].site

\* What the interpreter is in, and the create that has it evaluate a file.
MakeIsItsOwn ==
    /\ \A r \in Requests : request[r].at \in {"written", "loading"} =>
           /\ creating = r
           /\ request[r].id \in Id /\ request[r].port \in Port
    /\ interp # None =>
           /\ interp.id \in Registered
           /\ ~interp.reused => interp.id \notin announced
           /\ IF interp.by = None
              THEN ~interp.reused => entries[interp.id].source # Managed(interp.id)
              ELSE /\ request[interp.by].at = "loading"
                   /\ request[interp.by].id = interp.id
                   /\ entries[interp.id].source = Managed(interp.id)

\* A start under way is the newest attempt of its microgrid, which has no
\* server yet.
AttemptIsNewest ==
    /\ starting # None =>
           /\ starting.id \in DOMAIN runtimes
           /\ starting.generation = runtimes[starting.id].generation
           /\ IF starting.at = "bind" THEN runtimes[starting.id].status = "starting"
              ELSE /\ runtimes[starting.id].status = "running"
                   /\ runtimes[starting.id].addr = starting.addr
           /\ \A s \in servers \cup ended :
                  s.id = starting.id => s.generation # starting.generation
    /\ \A i \in DOMAIN runtimes : runtimes[i].status = "starting" =>
           starting # None /\ starting.id = i /\ starting.at = "bind"

\* One server an attempt, and none of an attempt that was not made.
ServersAreOfAttempts ==
    /\ servers \cap ended = {}
    /\ \A s \in servers \cup ended :
           /\ s.id \in DOMAIN runtimes
           /\ s.generation <= runtimes[s.id].generation
           /\ \A other \in servers \cup ended :
                  s.id = other.id /\ s.generation = other.generation => s = other

\* What was announced has been attempted, or will be.
AnnouncedAreKnown ==
    listener = "live" /\ ~lagged =>
        \A i \in announced :
            \/ i \in DOMAIN runtimes \cup todo
            \/ \E k \in 1..Len(bus) : bus[k] = i

IInv ==
    /\ TypeOK
    /\ PortsApart /\ ServesItsPort /\ SitesAreCounted
    /\ MakeIsItsOwn /\ AnnouncedExist /\ NoOrphanFiles
    /\ AttemptIsNewest /\ ServersAreOfAttempts /\ RunningHasServer
    /\ AnnouncedAreKnown
=============================================================================
