--------------------------- MODULE DispatchStream ---------------------------
(***************************************************************************)
(* The dispatch service: the store of src/src/sim/dispatch.rs, which         *)
(* announces each change on a bounded broadcast under its write lock, the    *)
(* gRPC handlers and streams of src/src/dispatch_server.rs, and the UI's     *)
(* handlers of src/src/ui/handlers/dispatches.rs, which share the store.     *)
(*                                                                          *)
(* A dispatch is the fields a write can touch, each set (1) or not (0).      *)
(* The request's own checks (a target that parses, an object as payload)     *)
(* refuse before the store is reached and change nothing.                    *)
(***************************************************************************)
EXTENDS Naturals, Sequences, FiniteSets

CONSTANTS
    Gone, Nothing, DataLoss,    \* no dispatch, no message, the loss status
    Microgrids,     \* microgrids requests name
    Registered,     \* those the registry holds: creates need one of these
    Watched,        \* the microgrid each stream serves
    Streams,        \* streams, each opened at most once
    NewData,        \* the data creates carry
    Updates,        \* the updates asked for: mask and fields carried
    Ring,           \* CHANGE_BUS_CAPACITY: events a receiver may be behind
    Channel,        \* messages between a stream's task and its client
    MaxId,          \* dispatches created, a bound of the model
    MaxChanges      \* changes of the store, a bound of the model

VARIABLES
    store,          \* the dispatches of each microgrid, by id
    nextId,         \* the id counter, shared by all microgrids
    creating,       \* creates that have an id and not yet the lock
    asked,          \* each dispatch's fields as last written (history)
    changes,        \* how many times the store changed
    stage,          \* where each stream's task is
    unread,         \* events in the ring a stream's receiver has not read
    lagged,         \* whether the ring dropped an event it had not read
    replay,         \* what is left of a stream's snapshot
    hand,           \* the message its task is sending
    channel,        \* messages its client has not read
    open,           \* whether its client is there
    view,           \* what its client knows, by dispatch id
    told            \* whether its client was told of a loss

storeVars == <<store, nextId, creating, asked, changes>>
streamVars == <<stage, unread, lagged, replay, hand, channel>>
clientVars == <<open, view, told>>
dispatchVars == <<storeVars, streamVars, clientVars>>

Id == 1..MaxId
Fields == {"start", "duration", "active", "recurrence"}
Data == [Fields -> {0, 1}]

\* is_recurring, compute_end_time: only a one-off of finite duration ends.
Ends(d) == d["recurrence"] = 0 /\ d["duration"] = 1

\* stamp_updated: the end is derived from the data at every write.
Stamped(d) == [data |-> d, ends |-> Ends(d)]

Dispatch == {Stamped(d) : d \in Data}
Known == Dispatch \cup {Gone}

\* DispatchEvent; a stream's message is the event without its microgrid, which
\* is kept here beside it.
Event == [microgrid : Microgrids, change : {"created", "updated", "deleted"},
          id : Id, dispatch : Dispatch]

Message == Event \cup {DataLoss}

ASSUME DispatchAssumption ==
    /\ MaxId \in Nat /\ MaxChanges \in Nat
    /\ Ring \in Nat \ {0}
    /\ Nothing \notin Message /\ DataLoss \notin Event
    /\ Watched \in [Streams -> Microgrids]
    /\ Registered \subseteq Microgrids
    /\ NewData \subseteq Data
    /\ \A u \in Updates :
        u.fields \subseteq Fields /\ \E carried \in SUBSET Fields : u.update \in [carried -> {0, 1}]

DispatchTypeOK ==
    /\ store \in [Microgrids -> [Id -> Known]]
    /\ nextId \in 1..(MaxId + 1)
    /\ creating \subseteq [microgrid : Registered, id : Id, data : NewData]
    /\ asked \in [Id -> Data \cup {Gone}]
    /\ changes \in 0..MaxChanges
    /\ stage \in [Streams -> {"unopened", "subscribed", "live", "ended"}]
    /\ unread \in [Streams -> Seq(Event)]
    /\ lagged \in [Streams -> BOOLEAN]
    /\ replay \in [Streams -> Seq(Event)]
    /\ hand \in [Streams -> Message \cup {Nothing}]
    /\ channel \in [Streams -> Seq(Message)]
    /\ open \in [Streams -> BOOLEAN]
    /\ view \in [Streams -> [Id -> Known]]
    /\ told \in [Streams -> BOOLEAN]

DispatchInit ==
    /\ store = [m \in Microgrids |-> [i \in Id |-> Gone]]
    /\ nextId = 1
    /\ creating = {}
    /\ asked = [i \in Id |-> Gone]
    /\ changes = 0
    /\ stage = [s \in Streams |-> "unopened"]
    /\ unread = [s \in Streams |-> <<>>]
    /\ lagged = [s \in Streams |-> FALSE]
    /\ replay = [s \in Streams |-> <<>>]
    /\ hand = [s \in Streams |-> Nothing]
    /\ channel = [s \in Streams |-> <<>>]
    /\ open = [s \in Streams |-> FALSE]
    /\ view = [s \in Streams |-> [i \in Id |-> Gone]]
    /\ told = [s \in Streams |-> FALSE]

(***************************************************************************)
(* The store.                                                               *)
(***************************************************************************)
\* The receivers that are subscribed and not dropped.
Receives(s) == stage[s] \notin {"unopened", "ended"}

Behind(queue) == Len(queue) = Ring

\* A plausible slip: a full ring drops the event rather than the receiver.
BroadcastIfRoom(event) ==
    /\ unread' = [s \in Streams |->
            IF ~Receives(s) \/ Behind(unread[s]) THEN unread[s]
            ELSE Append(unread[s], event)]
    /\ UNCHANGED lagged

\* broadcast: every receiver's next event; the ring overwrites its oldest.
Broadcast(event) ==
    /\ unread' = [s \in Streams |->
            IF ~Receives(s) THEN unread[s]
            ELSE Append(IF Behind(unread[s]) THEN Tail(unread[s]) ELSE unread[s], event)]
    /\ lagged' = [s \in Streams |->
            lagged[s] \/ (Receives(s) /\ Behind(unread[s]))]

Put(m, i, known) == store' = [store EXCEPT ![m][i] = known]

Announced(m, change, i, dispatch) ==
    [microgrid |-> m, change |-> change, id |-> i, dispatch |-> dispatch]

Change(m, i, known, event) ==
    /\ changes < MaxChanges
    /\ changes' = changes + 1
    /\ Put(m, i, known)
    /\ Broadcast(event)
    /\ UNCHANGED <<stage, replay, hand, channel, clientVars>>

\* CreateMicrogridDispatch and the UI's create, as far as the id: the
\* registry is asked first, and a start time is required or made.
Create(m, d) ==
    /\ m \in Registered
    /\ d["start"] = 1
    /\ nextId \in Id
    /\ nextId' = nextId + 1
    /\ creating' = creating \cup {[microgrid |-> m, id |-> nextId, data |-> d]}
    /\ UNCHANGED <<store, asked, changes, streamVars, clientVars>>

\* A plausible slip: the create announced after the lock is released, or not
\* under it, so that a stream may snapshot in between.
InsertUnannounced(c) ==
    /\ c \in creating
    /\ changes < MaxChanges
    /\ changes' = changes + 1
    /\ creating' = creating \ {c}
    /\ asked' = [asked EXCEPT ![c.id] = c.data]
    /\ Put(c.microgrid, c.id, Stamped(c.data))
    /\ UNCHANGED <<nextId, streamVars, clientVars>>

\* insert, under the write lock.
Insert(c) ==
    /\ c \in creating
    /\ creating' = creating \ {c}
    /\ asked' = [asked EXCEPT ![c.id] = c.data]
    /\ Change(c.microgrid, c.id, Stamped(c.data),
              Announced(c.microgrid, "created", c.id, Stamped(c.data)))
    /\ UNCHANGED nextId

\* A plausible slip: the write is the request's own dispatch, which holds
\* nothing where the mask leaves a field out.
MergedFromNothing(d, masked, update) ==
    [f \in Fields |-> IF f \in masked \cap DOMAIN update THEN update[f] ELSE 0]

\* What an update leaves of a field: a masked duration may be cleared, every
\* other field only changes when the request carries it; recurrence merges.
Merged(d, masked, update) ==
    [f \in Fields |->
        IF f \notin masked THEN d[f]
        ELSE IF f \in DOMAIN update THEN update[f]
        ELSE IF f = "duration" THEN 0
        ELSE d[f]]

\* What the caller asked for, on record.
OnRecord(i, masked, update) ==
    asked' = [asked EXCEPT ![i] =
        [f \in Fields |->
            CASE f \in masked \cap DOMAIN update -> update[f]
              [] f \in (masked \cap {"duration"}) \ DOMAIN update -> 0
              [] OTHER -> asked[i][f]]]

\* update_with: merge, stamp and announce in one holding of the write lock.
UpdateWith(m, i, masked, update) ==
    /\ store[m][i] # Gone
    /\ LET new == Merged(store[m][i].data, masked, update)
       IN  Change(m, i, Stamped(new), Announced(m, "updated", i, Stamped(new)))
    /\ OnRecord(i, masked, update)
    /\ UNCHANGED <<nextId, creating>>

\* UpdateMicrogridDispatch: without a mask every field the request carries.
Update(m, i, fields, update, hasMask) ==
    UpdateWith(m, i, IF hasMask THEN fields ELSE DOMAIN update, update)

\* The UI's pause and resume.
SetActive(m, i, active) ==
    UpdateWith(m, i, {"active"}, [f \in {"active"} |-> active])

Delete(m, i) ==
    /\ store[m][i] # Gone
    /\ Change(m, i, Gone, Announced(m, "deleted", i, store[m][i]))
    /\ asked' = [asked EXCEPT ![i] = Gone]
    /\ UNCHANGED <<nextId, creating>>

(***************************************************************************)
(* Listing: filtered, sorted by start, cut into pages.                      *)
(***************************************************************************)
\* list_mg: a microgrid's dispatches, by id.
Listed(m) ==
    LET held == {i \in Id : store[m][i] # Gone}
        rank(i) == Cardinality({j \in held : j <= i})
    IN  [n \in 1..Cardinality(held) |-> CHOOSE i \in held : rank(i) = n]

\* matches_filter: all tests a filter states must pass, here the ids it names
\* and the fields it wants.
Matches(m, i, filter) ==
    /\ filter.ids # {} => i \in filter.ids
    /\ \A f \in DOMAIN filter.wants : store[m][i].data[f] = filter.wants[f]

\* sort_dispatches: a stable sort, so ties stay in id order both ways.
Sorted(m, ids, ascending) ==
    LET start(i) == store[m][i].data["start"]
        with(v) == SelectSeq(ids, LAMBDA i : start(i) = v)
    IN  IF ascending THEN with(0) \o with(1) ELSE with(1) \o with(0)

Listing(m, filter, ascending) ==
    Sorted(m, SelectSeq(Listed(m), LAMBDA i : Matches(m, i, filter)), ascending)

Lesser(a, b) == IF a < b THEN a ELSE b

\* A plausible slip: the token counts items from one.
PageFromOne(items, offset, size) ==
    LET start == Lesser(offset, Len(items))
        end == Lesser(offset + size, Len(items))
    IN  IF size = 0 THEN [items |-> items, next |-> Nothing]
        ELSE [items |-> SubSeq(items, start + 1, end),
              next |-> IF end < Len(items) THEN end + 1 ELSE Nothing]

\* paginate: a page and the offset its token goes on from, None at the end.
\* A size of 0 asks for all.
Page(items, offset, size) ==
    LET start == Lesser(offset, Len(items))
        end == Lesser(offset + size, Len(items))
    IN  IF size = 0 THEN [items |-> items, next |-> Nothing]
        ELSE [items |-> SubSeq(items, start + 1, end),
              next |-> IF end < Len(items) THEN end ELSE Nothing]

(***************************************************************************)
(* A stream.                                                                *)
(***************************************************************************)
Subscribe(s) ==
    /\ stage[s] = "unopened"
    /\ stage' = [stage EXCEPT ![s] = "subscribed"]
    /\ open' = [open EXCEPT ![s] = TRUE]
    /\ UNCHANGED <<storeVars, unread, lagged, replay, hand, channel, view, told>>

\* The snapshot is replayed as creates, whatever became of it since.
Snapshot(s) ==
    /\ stage[s] = "subscribed"
    /\ stage' = [stage EXCEPT ![s] = "live"]
    /\ replay' = [replay EXCEPT ![s] = [n \in DOMAIN Listed(Watched[s]) |->
            LET i == Listed(Watched[s])[n]
            IN  Announced(Watched[s], "created", i, store[Watched[s]][i])]]
    /\ UNCHANGED <<storeVars, unread, lagged, hand, channel, clientVars>>

Idle(s) == stage[s] = "live" /\ hand[s] = Nothing

Replay(s) ==
    /\ Idle(s) /\ replay[s] # <<>>
    /\ hand' = [hand EXCEPT ![s] = Head(replay[s])]
    /\ replay' = [replay EXCEPT ![s] = Tail(@)]
    /\ UNCHANGED <<storeVars, stage, unread, lagged, channel, clientVars>>

\* A plausible slip: a stream that fell behind carries on.
RecvOn(s) ==
    /\ Idle(s) /\ replay[s] = <<>>
    /\ unread[s] # <<>>
    /\ unread' = [unread EXCEPT ![s] = Tail(@)]
    /\ lagged' = [lagged EXCEPT ![s] = FALSE]
    /\ hand' = [hand EXCEPT ![s] =
            IF Head(unread[s]).microgrid = Watched[s]
            THEN Head(unread[s]) ELSE Nothing]
    /\ UNCHANGED <<storeVars, stage, replay, channel, clientVars>>

\* changes.recv(): a loss comes before what the ring still holds.
Recv(s) ==
    /\ Idle(s) /\ replay[s] = <<>>
    /\ IF lagged[s]
       THEN /\ hand' = [hand EXCEPT ![s] = DataLoss]
            /\ UNCHANGED unread
       ELSE /\ unread[s] # <<>>
            /\ unread' = [unread EXCEPT ![s] = Tail(@)]
            /\ hand' = [hand EXCEPT ![s] =
                    IF Head(unread[s]).microgrid = Watched[s]
                    THEN Head(unread[s]) ELSE Nothing]
    /\ UNCHANGED <<storeVars, stage, lagged, replay, channel, clientVars>>

\* The task ends: its receiver and its end of the channel are dropped.
Ended(s) ==
    /\ stage' = [stage EXCEPT ![s] = "ended"]
    /\ unread' = [unread EXCEPT ![s] = <<>>]
    /\ lagged' = [lagged EXCEPT ![s] = FALSE]
    /\ replay' = [replay EXCEPT ![s] = <<>>]
    /\ hand' = [hand EXCEPT ![s] = Nothing]

\* tx.send: waits for room, fails when the client is gone, and is the last
\* thing a stream that lost events does.
SendOn(s) ==
    /\ stage[s] = "live" /\ hand[s] # Nothing
    /\ open[s] => Len(channel[s]) < Channel
    /\ channel' = [channel EXCEPT ![s] = IF open[s] THEN Append(@, hand[s]) ELSE @]
    /\ IF open[s] /\ hand[s] # DataLoss
       THEN /\ hand' = [hand EXCEPT ![s] = Nothing]
            /\ UNCHANGED <<stage, unread, lagged, replay>>
       ELSE Ended(s)
    /\ UNCHANGED <<storeVars, clientVars>>

\* tx.closed(), selected against the receive.
NoticeClosed(s) ==
    /\ Idle(s) /\ replay[s] = <<>> /\ ~open[s]
    /\ Ended(s)
    /\ UNCHANGED <<storeVars, channel, clientVars>>

\* What an event says of its dispatch.
Said(event) == IF event.change = "deleted" THEN Gone ELSE event.dispatch

\* A client keyed by dispatch id.
After(known, event) == [known EXCEPT ![event.id] = Said(event)]

ClientReads(s) ==
    /\ open[s] /\ channel[s] # <<>>
    /\ channel' = [channel EXCEPT ![s] = Tail(@)]
    /\ IF Head(channel[s]) = DataLoss
       THEN told' = [told EXCEPT ![s] = TRUE] /\ UNCHANGED view
       ELSE view' = [view EXCEPT ![s] = After(@, Head(channel[s]))] /\ UNCHANGED told
    /\ UNCHANGED <<storeVars, stage, unread, lagged, replay, hand, open>>

ClientLeaves(s) ==
    /\ open[s]
    /\ open' = [open EXCEPT ![s] = FALSE]
    /\ channel' = [channel EXCEPT ![s] = <<>>]
    /\ view' = [view EXCEPT ![s] = [i \in Id |-> Gone]]
    /\ UNCHANGED <<storeVars, stage, unread, lagged, replay, hand, told>>

Task(s) == Snapshot(s) \/ Replay(s) \/ Recv(s) \/ SendOn(s) \/ NoticeClosed(s)

Requests ==
    \/ \E m \in Microgrids, d \in NewData : Create(m, d)
    \/ \E c \in creating : Insert(c)
    \/ \E m \in Microgrids, i \in Id :
        \/ \E u \in Updates : Update(m, i, u.fields, u.update, u.fields # {})
        \/ \E active \in {0, 1} : SetActive(m, i, active)
        \/ Delete(m, i)

DispatchNext ==
    \/ Requests
    \/ \E s \in Streams :
        \/ Subscribe(s) \/ Task(s) \/ ClientReads(s) \/ ClientLeaves(s)

DispatchSpec == DispatchInit /\ [][DispatchNext]_dispatchVars

\* The runtime keeps running a task that can run; nothing is assumed of a
\* client but, for LossIsTold, that it reads what is sent or leaves.
TaskFairness == \A s \in Streams : WF_dispatchVars(Task(s))
ClientFairness == \A s \in Streams : WF_dispatchVars(ClientReads(s))

(***************************************************************************)
(* Properties.                                                              *)
(***************************************************************************)
\* Where a queue holds events about a dispatch.
About(queue, m, i) ==
    {n \in DOMAIN queue : queue[n].microgrid = m /\ queue[n].id = i}

Newest(places) == CHOOSE n \in places : \A k \in places : k <= n

\* What the newest of a queue's events about a dispatch says of it, to one who
\* knew it as before.
LastSaid(queue, m, i, before) ==
    IF About(queue, m, i) = {} THEN before
    ELSE Said(queue[Newest(About(queue, m, i))])

InHand(s) == IF hand[s] = Nothing THEN <<>> ELSE <<hand[s]>>

\* What a client will know of a dispatch when all that is on its way is read.
Learns(s, i) ==
    LET m == Watched[s]
        received == LastSaid(channel[s], m, i, view[s][i])
        replayed == LastSaid(replay[s], m, i, LastSaid(InHand(s), m, i, received))
    IN  LastSaid(unread[s], m, i, replayed)

Converges(s) ==
    stage[s] = "live" /\ open[s] /\ ~lagged[s] =>
        \A i \in Id : Learns(s, i) = store[Watched[s]][i]

\* A client that has read everything on its way knows the store: however the
\* snapshot overlaps with the events, what comes last about a dispatch is what
\* the store holds (dispatch_server.rs:219, dispatch.rs:290).  A stream that
\* lost events is excused, and is LossIsTold's concern.
ViewConverges == \A s \in Streams : Converges(s)

\* Concurrent writes of different fields of one dispatch all stand, and its
\* end is the one its fields imply (dispatch.rs:229, dispatch_server.rs:148).
NoLostUpdate ==
    \A m \in Microgrids, i \in Id :
        store[m][i] # Gone => store[m][i] = Stamped(asked[i])

\* Each id is used once: by a create on its way or by a dispatch of one
\* microgrid (dispatch.rs:134).
IdsAreUsedOnce ==
    /\ \A c \in creating :
        /\ c.id < nextId
        /\ \A m \in Microgrids : store[m][c.id] = Gone
        /\ \A other \in creating : other.id = c.id => other = c
    /\ \A m \in Microgrids, i \in Id :
        store[m][i] # Gone =>
            /\ i < nextId
            /\ \A other \in Microgrids : store[other][i] # Gone => other = m

EventsOf(m) == {event \in Event : event.microgrid = m}

\* What a stream holds at each stage: nothing before its snapshot but events to
\* come, and afterwards only its own microgrid's events, until a loss.
InOrder(s) ==
    /\ ~Receives(s) => unread[s] = <<>> /\ ~lagged[s]
    /\ stage[s] # "live" => replay[s] = <<>> /\ hand[s] = Nothing
    /\ stage[s] \in {"unopened", "subscribed"} =>
        channel[s] = <<>> /\ view[s] = [i \in Id |-> Gone]
    /\ stage[s] = "live" =>
        /\ replay[s] \in Seq(EventsOf(Watched[s]))
        /\ channel[s] \in Seq(EventsOf(Watched[s]))
        /\ hand[s] \in EventsOf(Watched[s]) \cup {Nothing, DataLoss}
        /\ hand[s] = DataLoss => lagged[s]

\* Until its snapshot is taken, the events a stream will read after it end with
\* what the store holds now.
CatchesUp(s) ==
    stage[s] = "subscribed" /\ ~lagged[s] =>
        \A i \in Id :
            LET held == store[Watched[s]][i]
            IN  LastSaid(unread[s], Watched[s], i, held) = held

\* The inductive invariant behind NoLostUpdate and ViewConverges.
DispatchIInv ==
    /\ DispatchTypeOK
    /\ IdsAreUsedOnce /\ NoLostUpdate
    /\ \A s \in Streams : InOrder(s) /\ CatchesUp(s)
    /\ ViewConverges

\* A caller that follows the page tokens of a store that does not change gets
\* every dispatch the filter matches, once, in the order asked for
\* (dispatch_server.rs:499).
PagesCover ==
    \A m \in Microgrids, size \in 0..MaxId, ascending \in BOOLEAN,
       wants \in {<<>>} \cup [{"active"} -> {0, 1}] :
        LET items == Listing(m, [ids |-> {}, wants |-> wants], ascending)
            from[o \in 0..Len(items)] ==
                LET page == Page(items, o, size)
                IN  page.items \o (IF page.next = Nothing THEN <<>> ELSE from[page.next])
        IN  from[0] = items

\* A client whose stream lost events is told, unless it leaves first
\* (dispatch_server.rs:274).
LossIsTold == \A s \in Streams : lagged[s] ~> (told[s] \/ ~open[s])

\* The task of a stream whose client left ends, on a silent bus and on one
\* that only carries other microgrids' events (dispatch_server.rs:247).
TasksAreReaped ==
    \A s \in Streams :
        (stage[s] \notin {"unopened", "ended"} /\ ~open[s]) ~> stage[s] = "ended"
=============================================================================
