------------------------------ MODULE Topology ------------------------------
(***************************************************************************)
(* A site's components and connections, and what is read off them: the      *)
(* power a meter sums from below (sim/meter.rs, microgrid_site/mod.rs), and *)
(* the listings of the APIs, of the UI and of the formula graph (server.rs, *)
(* assets_server.rs, ui/handlers, sim/graph_adapter.rs).                    *)
(*                                                                          *)
(* Structural changes come one after the other, under the interpreter lock, *)
(* each in as many steps as the tables it writes.  A read takes no such     *)
(* lock: every table is read under its own, and the connections anew for    *)
(* each meter it walks through.  Powers are multiples of what they may be   *)
(* divided by.  Hidden edges count like any other.                          *)
(***************************************************************************)
EXTENDS Integers, FiniteSets, SequencesExt, FiniteSetsExt, Functions

CONSTANTS
    None,
    Ids,            \* component ids
    KindOf,         \* what each is: "grid", "meter", "marker" or "device"
    Hidden,         \* those marked hidden
    Wirings,        \* the connections there may be at first
    Powers,         \* what devices and sources may be at
    Pairs,          \* what people connect and disconnect
    MaxChanges      \* changes to the site, a bound of the model

VARIABLES
    components,     \* in the order they were registered
    byId,           \* the ids found
    connections,    \* <<parent, child>>, in the order they were made
    power,          \* what each device is at
    source,         \* a meter's own power, or None: its children's
    reactive,       \* its own reactive power, a power factor, lagging (1) or
                    \*   leading (-1), or None: its children's
    change,         \* the structural change underway, or None
    changes,
    read            \* the read underway or done last

tables == <<components, byId, connections>>
sources == <<source, reactive>>
vars == <<tables, power, sources, change, changes, read>>

Meters == {id \in Ids : KindOf[id] = "meter"}
Devices == {id \in Ids : KindOf[id] = "device"}
Visible(ids) == SelectSeq(ids, LAMBDA id : id \notin Hidden)
Total(seq) == FoldLeft(LAMBDA sum, x : sum + x, 0, seq)

-----------------------------------------------------------------------------
(* The connections.                                                         *)

\* A plausible slip: a pair that is connected twice is one parent.
ParentsOnce(child) == Cardinality({e[1] : e \in {x \in Range(connections) : x[2] = child}})

\* The children of a parent, one for every connection, each with the number
\* of connections that lead to it.
ParentCount(child) == Len(SelectSeq(connections, LAMBDA e : e[2] = child))

ChildrenWithParentCounts(parent) ==
    LET below == SelectSeq(connections, LAMBDA e : e[1] = parent)
    IN  [i \in DOMAIN below |-> [id |-> below[i][2], parents |-> ParentCount(below[i][2])]]

\* reachable: by the connections, from one component to another.
Reachable(from, to) ==
    LET after[n \in 0..Cardinality(Ids)] ==
            IF n = 0 THEN {from}
            ELSE after[n - 1] \cup {e[2] : e \in {x \in Range(connections) : x[1] \in after[n - 1]}}
    IN  to \in after[Cardinality(Ids)]

\* connections(): those of which no end is found to be hidden.
Listed(e) == {e[1], e[2]} \cap byId \cap Hidden = {}
VisibleConnections == SelectSeq(connections, Listed)
HiddenConnections == SelectSeq(connections, LAMBDA e : ~Listed(e))

-----------------------------------------------------------------------------
(* Changes to the site.                                                     *)

Counts == changes < MaxChanges /\ changes' = changes + 1
NoRead == [next |-> "done", what |-> "nothing"]
Disturb == read' = IF read.next = "done" THEN NoRead ELSE [read EXCEPT !.straddled = TRUE]

\* register_arc: the list, and then the map.
Register(id) ==
    /\ Counts /\ change = None
    /\ id \notin Range(components)
    /\ components' = Append(components, id)
    /\ change' = [does |-> "register", id |-> id]
    /\ Disturb
    /\ UNCHANGED <<byId, connections, power, sources>>

\* connect: both ends are components, and the child does not lead back.
Connect(parent, child) ==
    /\ Counts /\ change = None
    /\ {parent, child} \subseteq byId
    /\ ~Reachable(child, parent)
    /\ connections' = Append(connections, <<parent, child>>)
    /\ Disturb
    /\ UNCHANGED <<components, byId, power, sources, change>>

\* disconnect: as often as the two were connected.
Disconnect(parent, child) ==
    /\ Counts /\ change = None
    /\ <<parent, child>> \in Range(connections)
    /\ connections' = SelectSeq(connections, LAMBDA e : e # <<parent, child>>)
    /\ Disturb
    /\ UNCHANGED <<components, byId, power, sources, change>>

\* remove_component: the map, the list, and then the connections.
RemoveComponent(id) ==
    /\ Counts /\ change = None
    /\ id \in byId
    /\ byId' = byId \ {id}
    /\ change' = [does |-> "unlist", id |-> id]
    /\ Disturb
    /\ UNCHANGED <<components, connections, power, sources>>

\* reset: the list, the map, and then the connections.
Reset ==
    /\ Counts /\ change = None
    /\ components' = <<>>
    /\ change' = [does |-> "forget", id |-> None]
    /\ Disturb
    /\ UNCHANGED <<byId, connections, power, sources>>

\* The change underway writes its next table.
Goes(does) == change # None /\ change.does = does
Touches(e, id) == id \in {e[1], e[2]}

Continue ==
    /\ \/ Goes("register")
          /\ byId' = byId \cup {change.id} /\ change' = None
          /\ UNCHANGED <<components, connections>>
       \/ Goes("unlist")
          /\ components' = SelectSeq(components, LAMBDA id : id # change.id)
          /\ change' = [change EXCEPT !.does = "unwire"]
          /\ UNCHANGED <<byId, connections>>
       \/ Goes("unwire")
          /\ connections' = SelectSeq(connections, LAMBDA e : ~Touches(e, change.id))
          /\ change' = None
          /\ UNCHANGED <<components, byId>>
       \/ Goes("forget")
          /\ byId' = {} /\ change' = [change EXCEPT !.does = "unwire all"]
          /\ UNCHANGED <<components, connections>>
       \/ Goes("unwire all")
          /\ connections' = <<>> /\ change' = None
          /\ UNCHANGED <<components, byId>>
    /\ Disturb
    /\ UNCHANGED <<power, sources, changes>>

\* A device goes to another power in a physics tick, a source is set by the
\* API, by a form, a timer or a scenario.
Tick(id, p) ==
    /\ Counts
    /\ power[id] # p /\ power' = [power EXCEPT ![id] = p]
    /\ Disturb
    /\ UNCHANGED <<tables, sources, change>>

SetPower(id, p) ==
    /\ Counts
    /\ source[id] # p /\ source' = [source EXCEPT ![id] = p]
    /\ Disturb
    /\ UNCHANGED <<tables, power, reactive, change>>

SetReactive(id, q) ==
    /\ Counts
    /\ reactive[id] # q /\ reactive' = [reactive EXCEPT ![id] = q]
    /\ Disturb
    /\ UNCHANGED <<tables, power, source, change>>

-----------------------------------------------------------------------------
(* What a component contributes.  Reactive power: a device's is twice its   *)
(* active power, and a power factor's as large as the active power.         *)

DerivePf(p, pf) == pf[2] * p

\* An item of a walk: a component, which of its powers is asked for, the
\* number it is divided by and its sign.
Item(id, of) == [id |-> id, of |-> of, over |-> 1, sign |-> 1]
Below(item) ==
    LET children == ChildrenWithParentCounts(item.id)
    IN  [i \in DOMAIN children |->
            [item EXCEPT !.id = children[i].id, !.over = @ * children[i].parents]]

\* What a component says itself, or the items its value is the sum of.
Worth(item, value) == [value |-> item.sign * (value \div item.over), items |-> <<>>]
Sum(items) == [value |-> 0, items |-> items]

\* The meter's own reactive power, if it does not sum its children's.
OwnReactive(id) == IF id \in Meters THEN reactive[id] ELSE None
PowerFactors == {<<"pf", 1>>, <<"pf", -1>>}

Aggregate(item) ==
    LET id == item.id
        kind == KindOf[id]
        own == OwnReactive(id)
    IN  CASE kind = "grid" -> Worth(item, 0)
          [] kind = "device" ->
                Worth(item, IF item.of = "active" THEN power[id] ELSE 2 * power[id])
          [] kind = "meter" /\ item.of = "active" /\ source[id] # None -> Worth(item, source[id])
          [] kind = "meter" /\ item.of = "reactive" /\ own \in PowerFactors ->
                Sum(<<[item EXCEPT !.of = "active", !.sign = DerivePf(@, own)]>>)
          [] kind = "meter" /\ item.of = "reactive" /\ own \notin PowerFactors \cup {None} ->
                Worth(item, own[2])
          [] OTHER -> Sum(Below(item))

-----------------------------------------------------------------------------
(* A component's powers, as its telemetry or a form reads them: the active   *)
(* power, and then the reactive one, which a power factor derives from the  *)
(* active power already read.                                               *)

Idle == read.next = "done"
Walks == read.next = "walk"
StillSite == UNCHANGED <<tables, power, sources, change, changes>>

ReadPowers(id) ==
    /\ Idle
    /\ id \in byId
    /\ read' = [next |-> "walk", what |-> "powers", of |-> id, items |-> <<Item(id, "active")>>,
                sum |-> 0, active |-> None, reactive |-> None, pf |-> None,
                straddled |-> change # None]
    /\ StillSite

\* One component of the walk; one that is not found contributes nothing, and
\* neither does what is below it.
Visited(item) ==
    IF item.id = read.of \/ item.id \in byId THEN Aggregate(item) ELSE Worth(item, 0)

Visit ==
    /\ Walks /\ read.items # <<>>
    /\ LET got == Visited(Head(read.items))
       IN  read' = [read EXCEPT !.sum = @ + got.value, !.items = got.items \o Tail(@)]
    /\ StillSite

Turn(derived) ==
    /\ Walks /\ read.items = <<>> /\ read.active = None
    /\ read' = [read EXCEPT !.active = read.sum,
            !.pf = OwnReactive(read.of),
            !.sum = IF derived THEN DerivePf(read.sum, OwnReactive(read.of)) ELSE 0,
            !.items = IF derived THEN <<>> ELSE <<Item(read.of, "reactive")>>]
    /\ StillSite

TurnToReactive == Turn(OwnReactive(read.of) \in PowerFactors)

Answer ==
    /\ Walks /\ read.items = <<>> /\ read.active # None
    /\ read' = [read EXCEPT !.next = "done", !.reactive = read.sum]
    /\ StillSite

-----------------------------------------------------------------------------
(* Listings.  The topology of the UI reads the components, the connections, *)
(* the hidden ones, and both once more for its graph; the APIs' two lists   *)
(* and the graph of a formula are its first and its last two reads.         *)

List ==
    /\ Idle
    /\ read' = [next |-> "list", what |-> "list", got |-> <<>>, straddled |-> change # None]
    /\ StillSite

Tables == <<components, VisibleConnections, HiddenConnections,
            Visible(components), VisibleConnections>>

ListNext ==
    /\ read.next = "list"
    /\ LET got == Append(read.got, Tables[Len(read.got) + 1])
       IN  read' = [read EXCEPT !.got = got, !.next = IF Len(got) = 5 THEN "done" ELSE "list"]
    /\ StillSite

\* A list an API client asks for by ids or by kinds, nothing asked for being
\* everything.
Asked(set, x) == set = {} \/ x \in set
ListComponents(listed, ids, kinds) ==
    SelectSeq(Visible(listed), LAMBDA id : Asked(ids, id) /\ Asked(kinds, KindOf[id]))
ListConnections(listed, parents, children) ==
    SelectSeq(listed, LAMBDA e : Asked(parents, e[1]) /\ Asked(children, e[2]))

\* ComponentGraph::try_new, external: one grid connection point, everything
\* else below it, and connections between components of the graph.
ValidGraph(nodes, edges) ==
    LET below[n \in 0..Len(nodes)] ==
            IF n = 0 THEN {id \in Range(nodes) : KindOf[id] = "grid"}
            ELSE below[n - 1] \cup {e[2] : e \in {x \in Range(edges) : x[1] \in below[n - 1]}}
    IN  /\ Cardinality(below[0]) = 1
        /\ \A e \in Range(edges) : {e[1], e[2]} \subseteq Range(nodes)
        /\ below[Len(nodes)] = Range(nodes)

\* The topology's status: an empty site is not a broken one.
Status(nodes, edges) == IF nodes = <<>> \/ ValidGraph(nodes, edges) THEN "ok" ELSE "invalid"

\* GET formula: for the whole site, or of the components asked for.
Formula(nodes, edges, single, ids) ==
    IF nodes = <<>> THEN "empty"
    ELSE IF ~ValidGraph(nodes, edges) THEN "invalid"
    ELSE IF single /\ Cardinality(ids) # 1 THEN "select one"
    ELSE IF ids \subseteq Range(nodes) THEN "formula" ELSE "not found"

-----------------------------------------------------------------------------
Init ==
    /\ components = SetToSeq(Ids) /\ byId = Ids
    /\ connections \in Wirings
    /\ power = [id \in Devices |-> Min(Powers)]
    /\ source = [id \in Meters |-> None]
    /\ reactive = [id \in Meters |-> None]
    /\ change = None /\ changes = 0
    /\ read = NoRead

Next ==
    \/ \E id \in Ids : Register(id) \/ RemoveComponent(id) \/ ReadPowers(id)
    \/ \E e \in Pairs : Connect(e[1], e[2]) \/ Disconnect(e[1], e[2])
    \/ Reset \/ Continue
    \/ \E id \in Devices, p \in Powers : Tick(id, p)
    \/ \E id \in Meters, p \in Powers \cup {None} : SetPower(id, p)
    \/ \E id \in Meters, q \in PowerFactors \cup ({"var"} \X Powers) : SetReactive(id, q)
    \/ Visit \/ TurnToReactive \/ Answer
    \/ List \/ ListNext

Spec == Init /\ [][Next]_vars

-----------------------------------------------------------------------------
(* Properties.                                                              *)

RECURSIVE Flow(_)
\* What an item is worth in one look at the site.
Flow(item) ==
    LET got == Aggregate(item)
        found == SelectSeq(got.items, LAMBDA i : i.id \in byId)
    IN  got.value + Total([i \in DOMAIN found |-> Flow(found[i])])

\* Components that say themselves what they are at hide what is below them.
Opaque(id) == KindOf[id] \in {"grid", "device"} \/ (id \in Meters /\ source[id] # None)
FlowBelow(id) ==
    LET items == Below(Item(id, "active")) IN Total([i \in DOMAIN items |-> Flow(items[i])])

\* Every watt is counted once: what the topmost components are at, and what
\* is hidden below others, is what there is, however often and by whichever
\* ways components are connected (mod.rs:766-799, 811-836).
NothingCountedTwice ==
    change = None /\ read = NoRead =>
        LET opaque == {id \in byId : Opaque(id)}
            top == {id \in byId : ParentCount(id) = 0}
        IN  MapThenSumSet(LAMBDA id : Flow(Item(id, "active")), top)
              + MapThenSumSet(FlowBelow, opaque)
            = MapThenSumSet(LAMBDA id : Aggregate(Item(id, "active")).value, opaque)

\* A reading during which nothing changed is that of the site, and its two
\* powers are in the proportion of the power factor whatever changed
\* (meter.rs:144-162, 226-230).
ReadingsAreTrue ==
    read.next = "done" /\ read.what = "powers" =>
        /\ ~read.straddled =>
            /\ read.active = Flow(Item(read.of, "active"))
            /\ read.reactive = Flow(Item(read.of, "reactive"))
        /\ read.pf \in PowerFactors => read.reactive = DerivePf(read.active, read.pf)

\* A listing during which nothing changed has every connection once, as
\* visible between two components it lists as visible or else as hidden, and
\* its graph is the one the APIs list: a client who asks for a component's
\* connections and for the graph's formula gets one story
\* (topology.rs:56-95, graph_adapter.rs:140-160).
ListingsAgree ==
    read.next = "done" /\ read.what = "list" /\ ~read.straddled =>
        LET got == read.got
            shown == Range(ListComponents(got[1], {}, {}))
        IN  /\ Len(got[2]) + Len(got[3]) = Len(connections)
            /\ \A e \in Range(got[2]) : {e[1], e[2]} \subseteq shown
            /\ \A e \in Range(got[3]) : {e[1], e[2]} \subseteq Range(got[1]) /\ {e[1], e[2]} \cap Hidden # {}
            /\ Range(got[4]) = shown
            /\ \A id \in Ids :
                Range(ListConnections(got[2], {id}, {})) \cup Range(ListConnections(got[2], {}, {id}))
                    = {e \in Range(got[5]) : Touches(e, id)}
            /\ \A id \in Ids : Formula(got[4], got[5], TRUE, {id}) = "formula"
                    <=> id \in shown /\ Status(got[4], got[5]) = "ok"
=============================================================================
