------------------------------- MODULE EventPush -------------------------------
(***************************************************************************)
(* The push channel of one browser (ui/events_ws.rs): a session subscribes  *)
(* to the announcements of new microgrids, then to every microgrid it finds *)
(* in the registry, and pumps what their forwarders send into its socket,   *)
(* while make-microgrid registers and announces more                        *)
(* (lisp/defuns/microgrids.rs) and the sites publish structure changes and  *)
(* samples on bounded buses (sim/events.rs).                                *)
(*                                                                         *)
(* A microgrid's site is the number it was made under.  A structure event   *)
(* is its version, a sample is 0.  The log and dispatch branches of the     *)
(* pump are one bus more that it reads itself.                              *)
(***************************************************************************)
EXTENDS Integers, Sequences, FiniteSets, Functions

CONSTANTS
    MgIds,          \* microgrid ids
    EventRing,      \* events a subscriber may be behind (EVENT_BUS_CAPACITY)
    Announcements,  \* announcements it may be behind
    Channel,        \* events the forwarders may be ahead of the socket
    MaxSites,       \* bounds of the model: make-microgrids
    MaxEvents       \* and events of each kind

VARIABLES
    registry,       \* the site of each registered id
    maker,          \* the make-microgrid under way
    made,           \* sites made so far, which are numbered
    version,        \* structure events of each site so far
    samples, lines, \* samples, log lines and dispatch changes so far
    session,        \* whether it is connecting, live or closed
    notices,        \* announcements the session has not read
    known,          \* ids it holds as subscribed (subscribed_ids)
    forwarders,     \* the tasks it spawned, in that order
    socketQueue,    \* the channel from them to the pump
    tap,            \* log and dispatch events it has not read
    browser,        \* what the browser got of each site
    doomed,         \* ids seen between their insert and its removal (history)
    outrun          \* sites whose latest structure event was overwritten (history)
pushWorld == <<registry, maker, made, version, samples, lines>>
client == <<session, notices, known, forwarders, socketQueue, tap, browser>>
pushVars == <<pushWorld, client, doomed, outrun>>

-----------------------------------------------------------------------------
NoSite == 0
Nothing == -1       \* of a forwarder's hand
Idle == [at |-> "idle"]
Sites == 1..MaxSites

\* Ids are counted, and every bus holds one event at least.
ASSUME PushAssumption ==
    /\ MgIds \in SUBSET Int /\ IsFiniteSet(MgIds)
    /\ EventRing \in Nat \ {0} /\ Announcements \in Nat \ {0}
    /\ MaxSites \in Nat

Queue == [unread |-> <<>>, lagged |-> FALSE]

\* A bounded broadcast keeps the newest; its reader is told that it lagged.
Sent(queue, e, capacity) ==
    LET all == Append(queue.unread, e)
    IN  IF Len(all) > capacity THEN [unread |-> Tail(all), lagged |-> TRUE]
        ELSE [queue EXCEPT !.unread = all]

Forwarder(id) ==
    [id |-> id, site |-> registry[id], queue |-> Queue, hand |-> Nothing]

PushInit ==
    /\ registry = [i \in MgIds |-> NoSite]
    /\ maker = Idle
    /\ made = 0
    /\ version = [s \in Sites |-> 0]
    /\ samples = 0 /\ lines = 0
    /\ session = "off"
    /\ notices = Queue /\ tap = Queue
    /\ known = {} /\ forwarders = <<>> /\ socketQueue = <<>>
    /\ browser = [s \in Sites |-> <<>>]
    /\ doomed = {} /\ outrun = {}

-----------------------------------------------------------------------------
(* The interpreter: make-microgrid.                                         *)

\* The entry goes in before the topology runs; an id that is registered
\* already keeps its site.
MakeInserts(id) ==
    /\ maker = Idle /\ made < MaxSites
    /\ made' = made + 1
    /\ maker' = [at |-> "topology", id |-> id, reused |-> registry[id] # NoSite]
    /\ registry' = IF registry[id] = NoSite THEN [registry EXCEPT ![id] = made + 1]
                   ELSE registry
    /\ UNCHANGED <<version, samples, lines, client, doomed, outrun>>

\* A topology that fails takes a new entry out again; with the last of its
\* site its bus closes, and a forwarder takes what is left there.
MakeFails ==
    /\ maker.at = "topology"
    /\ maker' = Idle
    /\ IF maker.reused THEN UNCHANGED <<registry, doomed>>
       ELSE /\ registry' = [registry EXCEPT ![maker.id] = NoSite]
            /\ doomed' = IF maker.id \in known THEN doomed \cup {maker.id} ELSE doomed
    /\ UNCHANGED <<made, version, samples, lines, client, outrun>>

\* One that succeeds is announced, a reused one too.
MakeAnnounces ==
    /\ maker.at = "topology"
    /\ maker' = Idle
    /\ notices' = IF session \in {"subscribed", "live"}
                  THEN Sent(notices, maker.id, Announcements) ELSE notices
    /\ UNCHANGED <<registry, made, version, samples, lines, session, known, forwarders,
                   socketQueue, tap, browser, doomed, outrun>>

-----------------------------------------------------------------------------
(* The buses of the sites and of the enterprise.                            *)

\* An event reaches whoever subscribed to the site's bus; the ring drops the
\* oldest, be it a structure event with no later one behind it.
Published(s, e) ==
    /\ forwarders' = [f \in DOMAIN forwarders |->
            IF forwarders[f].site = s
            THEN [forwarders[f] EXCEPT !.queue = Sent(@, e, EventRing)] ELSE forwarders[f]]
    /\ outrun' = (outrun \ (IF e > 0 THEN {s} ELSE {})) \cup
            {t \in {s} : \E f \in DOMAIN forwarders :
                /\ forwarders[f].site = s
                /\ Len(forwarders[f].queue.unread) = EventRing
                /\ e = 0 /\ Head(forwarders[f].queue.unread) = version[s]
                /\ version[s] > 0}

Structure(id) ==
    LET s == registry[id] IN
    /\ s # NoSite /\ version[s] < MaxEvents
    /\ version' = [version EXCEPT ![s] = @ + 1]
    /\ Published(s, version[s] + 1)
    /\ UNCHANGED <<registry, maker, made, samples, lines, session, notices, known,
                   socketQueue, tap, browser, doomed>>

SampleOut(id) ==
    LET s == registry[id] IN
    /\ s # NoSite /\ samples < MaxEvents
    /\ samples' = samples + 1
    /\ Published(s, 0)
    /\ UNCHANGED <<registry, maker, made, version, lines, session, notices, known,
                   socketQueue, tap, browser, doomed>>

\* A log line or a change of a dispatch.
LogLine ==
    /\ session \in {"subscribed", "live"} /\ lines < MaxEvents
    /\ lines' = lines + 1
    /\ tap' = Sent(tap, lines + 1, EventRing)
    /\ UNCHANGED <<registry, maker, made, version, samples, session, notices, known,
                   forwarders, socketQueue, browser, doomed, outrun>>

-----------------------------------------------------------------------------
(* The session.                                                             *)

\* The buses and the announcements first ...
Connect ==
    /\ session = "off"
    /\ session' = "subscribed"
    /\ UNCHANGED <<pushWorld, notices, known, forwarders, socketQueue, tap, browser, doomed, outrun>>

Listed == {i \in MgIds : registry[i] # NoSite}
InOrder(ids) == CHOOSE q \in Bijection(1..Cardinality(ids), ids) : TRUE

\* One forwarder for each of ids that is not subscribed yet.
WithForwarders(ids) ==
    LET fresh == InOrder(ids)
    IN  forwarders \o [i \in DOMAIN fresh |-> Forwarder(fresh[i])]

SpawnFor(ids) ==
    /\ forwarders' = WithForwarders(ids \ known)
    /\ known' = known \cup ids

\* ... then whatever the registry holds, under its lock.
Snapshot ==
    /\ session = "subscribed"
    /\ session' = "live"
    /\ SpawnFor(Listed)
    /\ UNCHANGED <<pushWorld, notices, socketQueue, tap, browser, doomed, outrun>>

\* A plausible slip: an announcement is taken at its word.
SpawnAgain(id) ==
    /\ forwarders' = Append(forwarders, Forwarder(id))
    /\ known' = known \cup {id}

\* An announced id that is known is dropped.
SpawnAnnounced(id) == SpawnFor({id})

\* An announcement whose entry is gone is only logged.
HearNotice ==
    /\ session = "live" /\ ~notices.lagged /\ notices.unread # <<>>
    /\ notices' = [notices EXCEPT !.unread = Tail(@)]
    /\ IF Head(notices.unread) \in Listed
       THEN SpawnAnnounced(Head(notices.unread)) ELSE UNCHANGED <<forwarders, known>>
    /\ UNCHANGED <<pushWorld, session, socketQueue, tap, browser, doomed, outrun>>

\* Announcements that were lost: the registry is read again.
HearNoticeLag ==
    /\ session = "live" /\ notices.lagged
    /\ notices' = [notices EXCEPT !.lagged = FALSE]
    /\ SpawnFor(Listed)
    /\ UNCHANGED <<pushWorld, session, socketQueue, tap, browser, doomed, outrun>>

\* A forwarder takes an event, or only logs that it lagged, ...
Take(f) ==
    /\ session = "live" /\ forwarders[f].hand = Nothing
    /\ IF forwarders[f].queue.lagged
       THEN forwarders' = [forwarders EXCEPT ![f].queue.lagged = FALSE]
       ELSE /\ forwarders[f].queue.unread # <<>>
            /\ forwarders' = [forwarders EXCEPT
                    ![f].hand = Head(forwarders[f].queue.unread),
                    ![f].queue.unread = Tail(@)]
    /\ UNCHANGED <<pushWorld, session, notices, known, socketQueue, tap, browser, doomed, outrun>>

\* ... and waits with it for room in the channel.
PassOn(f) ==
    /\ Len(socketQueue) < Channel
    /\ socketQueue' = Append(socketQueue, [site |-> forwarders[f].site,
                                           event |-> forwarders[f].hand])

Pass(f) ==
    /\ session = "live" /\ forwarders[f].hand # Nothing
    /\ PassOn(f)
    /\ forwarders' = [forwarders EXCEPT ![f].hand = Nothing]
    /\ UNCHANGED <<pushWorld, session, notices, known, tap, browser, doomed, outrun>>

\* The pump writes what the forwarders sent, tagged with its microgrid; of a
\* site's samples nothing is kept here.
Pump ==
    /\ session = "live" /\ socketQueue # <<>>
    /\ socketQueue' = Tail(socketQueue)
    /\ LET head == Head(socketQueue)
       IN  browser' = IF head.event = 0 THEN browser
                    ELSE [browser EXCEPT ![head.site] = Append(@, head.event)]
    /\ UNCHANGED <<pushWorld, session, notices, known, forwarders, tap, doomed, outrun>>

\* The log and dispatch branches: an event is written, a lag is passed over.
PumpTap ==
    /\ session = "live"
    /\ IF tap.lagged THEN tap' = [tap EXCEPT !.lagged = FALSE]
       ELSE tap.unread # <<>> /\ tap' = [tap EXCEPT !.unread = Tail(@)]
    /\ UNCHANGED <<pushWorld, session, notices, known, forwarders, socketQueue, browser, doomed, outrun>>

\* A socket that closes takes its forwarders with it.
Close ==
    /\ session = "live"
    /\ session' = "closed"
    /\ forwarders' = <<>> /\ socketQueue' = <<>>
    /\ notices' = Queue /\ tap' = Queue /\ known' = {}
    /\ UNCHANGED <<pushWorld, browser, doomed, outrun>>

PushNext ==
    \/ \E id \in MgIds : MakeInserts(id) \/ Structure(id) \/ SampleOut(id)
    \/ MakeFails \/ MakeAnnounces \/ LogLine
    \/ Connect \/ Snapshot \/ HearNotice \/ HearNoticeLag
    \/ \E f \in DOMAIN forwarders : Take(f) \/ Pass(f)
    \/ Pump \/ PumpTap \/ Close

PushSpec == PushInit /\ [][PushNext]_pushVars

-----------------------------------------------------------------------------
\* The make-microgrid that put id in has not announced it yet.
Unannounced(id) == maker.at = "topology" /\ maker.id = id /\ ~maker.reused
Settled(id) == registry[id] # NoSite /\ ~Unannounced(id)
Serving(id) == {f \in DOMAIN forwarders : forwarders[f].site = registry[id]}

\* A session that has read its announcements listens to every microgrid that
\* was announced, each once - unless it saw the id in a creation that failed
\* and still holds it as subscribed (events_ws.rs:86-125, 209-251).
EveryMicrogridOnce ==
    session = "live" =>
        \A id \in MgIds : Settled(id) =>
            /\ Cardinality(Serving(id)) <= 1
            /\ notices = Queue => Serving(id) # {} \/ id \in doomed

\* What the browser gets of a site is in order and nothing twice, and when all
\* was pumped it has the latest structure event since it subscribed - unless a
\* burst of samples drove that one out of the ring (events_ws.rs:61-80).
StructureIsHeard ==
    /\ \A s \in Sites : \A i, j \in DOMAIN browser[s] : i < j => browser[s][i] < browser[s][j]
    /\ session = "live" /\ socketQueue = <<>> =>
        \A f \in DOMAIN forwarders :
            LET s == forwarders[f].site
                drained == forwarders[f].hand = Nothing /\ forwarders[f].queue.unread = <<>>
            IN  drained /\ s \notin outrun /\ browser[s] # <<>>
                    => browser[s][Len(browser[s])] = version[s]

\* A browser that stays connected listens to every microgrid once and hears a
\* site's structure in order, the latest too - unless its creation failed
\* under the session or a burst drove the event out (events_ws.rs:61-251).
BrowserHears == EveryMicrogridOnce /\ StructureIsHeard

-----------------------------------------------------------------------------
(* Types, and what keeps the properties: one owner to a site, one forwarder   *)
(* to an owner, nobody forgotten, and each stream in order.                  *)
QueueOf(S) == [unread : Seq(S), lagged : BOOLEAN]
Unread(queue) == {queue.unread[k] : k \in DOMAIN queue.unread}
ForwarderType ==
    [id : MgIds, site : Sites, queue : QueueOf(Nat), hand : Nat \cup {Nothing}]

\* Every variable has its type (module EventPush).
PushTypeOK ==
    /\ registry \in [MgIds -> {NoSite} \cup Sites] /\ made \in 0..MaxSites
    /\ maker \in {Idle} \cup [at : {"topology"}, id : MgIds, reused : BOOLEAN]
    /\ version \in [Sites -> Nat]
    /\ session \in {"off", "subscribed", "live", "closed"}
    /\ notices \in QueueOf(MgIds) /\ Len(notices.unread) <= Announcements
    /\ known \in SUBSET MgIds
    /\ forwarders \in Seq(ForwarderType) /\ socketQueue \in Seq([site : Sites, event : Nat])
    /\ browser \in [Sites -> Seq(Nat)]

\* Sites are numbered as they are made, so that one which lost its entry is
\* never another's.
SitesAreOwned ==
    /\ \A i \in MgIds : registry[i] <= made
    /\ \A i, j \in MgIds : registry[i] = registry[j] /\ registry[i] # NoSite => i = j

\* A forwarder stands for its id, whose site it had then.
ForwardersDiffer ==
    /\ \A f \in DOMAIN forwarders :
        /\ forwarders[f].id \in known /\ forwarders[f].site <= made
        /\ Len(forwarders[f].queue.unread) <= EventRing
        /\ \A i \in MgIds : registry[i] = forwarders[f].site => forwarders[f].id = i
    /\ \A f, g \in DOMAIN forwarders :
        f # g => forwarders[f].id # forwarders[g].id /\ forwarders[f].site # forwarders[g].site

\* Only a session that lives holds anything, and before it nothing was heard.
OnlyLiveHold ==
    /\ session # "live" => known = {} /\ forwarders = <<>> /\ socketQueue = <<>>
    /\ session \in {"off", "subscribed"} => \A s \in Sites : browser[s] = <<>>

KnownAreServed ==
    \A i \in known :
        i \in doomed \/ (registry[i] # NoSite /\ \E f \in DOMAIN forwarders : forwarders[f].site = registry[i])

MissingAreAnnounced ==
    session = "live" =>
        \A i \in MgIds : Settled(i) =>
            i \in known \/ notices.lagged \/ i \in Unread(notices)

\* What left the forwarder of the site s.
Ahead(s) ==
    {browser[s][j] : j \in DOMAIN browser[s]}
        \cup {socketQueue[k].event : k \in {l \in DOMAIN socketQueue : socketQueue[l].site = s}}

\* A site that was heard of has its forwarder.
HeardAreForwarded ==
    session = "live" =>
        \A s \in Sites : Ahead(s) # {} => \E f \in DOMAIN forwarders : forwarders[f].site = s

\* A structure event has a greater version than whatever is ahead of it:
\* in the browser, in the channel, in its forwarder's hand and in its bus.
BrowserRises ==
    \A s \in Sites :
        /\ \A j \in DOMAIN browser[s] : browser[s][j] \in 1..version[s]
        /\ \A i, j \in DOMAIN browser[s] : i < j => browser[s][i] < browser[s][j]

ChannelRises ==
    \A l \in DOMAIN socketQueue :
        LET e == socketQueue[l].event
            s == socketQueue[l].site
        IN  /\ e <= version[s]
            /\ e > 0 =>
                /\ \A j \in DOMAIN browser[s] : browser[s][j] < e
                /\ \A k \in DOMAIN socketQueue :
                    k < l /\ socketQueue[k].site = s => socketQueue[k].event < e

Rising(hand, unread, ahead, top) ==
    /\ hand <= top
    /\ hand > 0 => \A e \in ahead : e < hand
    /\ \A u \in DOMAIN unread :
        /\ unread[u] <= top
        /\ unread[u] > 0 =>
            /\ hand < unread[u] /\ \A e \in ahead : e < unread[u]
            /\ \A t \in DOMAIN unread : t < u => unread[t] < unread[u]

ForwardersRise ==
    \A s \in Sites : \A f \in DOMAIN forwarders :
        forwarders[f].site = s
            => Rising(forwarders[f].hand, forwarders[f].queue.unread, Ahead(s), version[s])

\* Once anything of a site's structure is on its way the latest is, unless it
\* was driven out.
OnTheWay(ahead, forwarder) ==
    {e \in ahead \cup {forwarder.hand} \cup Unread(forwarder.queue) : e > 0}

LatestIsComing ==
    \A s \in Sites : \A f \in DOMAIN forwarders :
        forwarders[f].site = s /\ s \notin outrun /\ OnTheWay(Ahead(s), forwarders[f]) # {}
            => version[s] \in OnTheWay(Ahead(s), forwarders[f])

PushIInv ==
    /\ PushTypeOK /\ SitesAreOwned /\ ForwardersDiffer /\ OnlyLiveHold
    /\ KnownAreServed /\ MissingAreAnnounced /\ HeardAreForwarded
    /\ BrowserRises /\ ChannelRises /\ ForwardersRise /\ LatestIsComing
=============================================================================
