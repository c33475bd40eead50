----------------------------- MODULE ComponentIds -----------------------------
(***************************************************************************)
(* Component ids and the graph over them: one allocator for the enterprise, *)
(* make-* with an id of its own or the next free one, connect, disconnect,  *)
(* remove-component, the import of a site export and the reloads that       *)
(* replay one managed file or all of them (lisp/make.rs,                   *)
(* microgrid_site/mod.rs, sim/site_import.rs, ui/handlers/microgrids.rs,    *)
(* lisp/boot.rs).                                                          *)
(*                                                                         *)
(* An eval holds the interpreter lock, so it is one step; an import holds   *)
(* it for its create and its build alone.  A site's state is a record of    *)
(* the ids it lists, oldest first, and its edges, parent and child.         *)
(***************************************************************************)
EXTENDS Integers, Sequences, FiniteSets

CONSTANTS
    Top,            \* u64::MAX
    Half,           \* i64::MAX: what Lisp can write
    First,          \* FIRST_AUTO_ID
    Chosen,         \* the ids scripts name
    Cases           \* what is imported, and how many forms are evaluated beside it

VARIABLES
    alloc,          \* the enterprise's next id
    on,             \* each site's ids and edges
    saved,          \* the same in each site's managed file
    handles,        \* the ids Lisp variables hold a handle of
    import,         \* where the import is
    export,         \* what it imports
    left,           \* how many more forms are evaluated, a bound of the model
    wrapped         \* the allocator has passed u64::MAX (history)
vars == <<alloc, on, saved, handles, import, export, left, wrapped>>

-----------------------------------------------------------------------------
Sites == {"here", "there", "new"}
Files == <<"here", "there", "new">>         \* in the order they first arrived
Bare == [ids |-> <<>>, edges |-> <<>>]
Known == IF import \in {"created", "bumped", "done", "incomplete"} THEN Sites ELSE Sites \ {"new"}

Of(s) == {s[i] : i \in DOMAIN s}
Without(s, Drops(_)) == SelectSeq(s, LAMBDA e : ~Drops(e))
Larger(a, b) == IF a > b THEN a ELSE b
Past(id) == IF id = Top THEN Top ELSE id + 1          \* saturating_add(1)

\* Is b reachable from a along the edges?
Reaches(edges, a, b) ==
    LET below[k \in 0..Len(edges)] ==
            IF k = 0 THEN {a}
            ELSE below[k - 1] \cup {e[2] : e \in {x \in Of(edges) : x[1] \in below[k - 1]}}
    IN  b \in below[Len(edges)]

\* The edges with a new one, unless it would close a cycle.
Connect(edges, parent, child) ==
    IF parent = child \/ Reaches(edges, child, parent)
    THEN edges ELSE Append(edges, <<parent, child>>)

\* A constructor wires its successors; a refused edge is only logged.
ConnectSuccessors(edges, parent, children) ==
    LET wired[i \in 0..Len(children)] ==
            IF i = 0 THEN edges ELSE Connect(wired[i - 1], parent, children[i])
    IN  wired[Len(children)]

Removed(site, id) ==
    [ids   |-> Without(site.ids, LAMBDA i : i = id),
     edges |-> Without(site.edges, LAMBDA e : id \in {e[1], e[2]})]

-----------------------------------------------------------------------------
(* Evaluating forms: from a world and a site to a world; ok is FALSE once a *)
(* form has failed, and the forms after it are not reached.                 *)

World == [alloc |-> alloc, on |-> on, wrapped |-> wrapped, ok |-> TRUE]
Failed(w) == [w EXCEPT !.ok = FALSE]

\* Any site other than this one that carries the id.
OwnerOf(w, s, id) == {t \in Sites \ {s} : id \in Of(w.on[t].ids)}
Taken(w, s, id) == id \in Of(w.on[s].ids) \/ OwnerOf(w, s, id) # {}

\* The next id this site does not list; the allocator wraps as it is moved.
AutoId(w, s) ==
    LET n == CHOOSE n \in 0..Top :
                /\ (w.alloc + n) % (Top + 1) \notin Of(w.on[s].ids)
                /\ \A m \in 0..(n - 1) : (w.alloc + m) % (Top + 1) \in Of(w.on[s].ids)
    IN  [id |-> (w.alloc + n) % (Top + 1), next |-> w.alloc + n + 1]

Register(w, s, id, children) ==
    [w EXCEPT !.on[s] = [ids   |-> Append(@.ids, id),
                         edges |-> ConnectSuccessors(@.edges, id, children)]]

\* (make-* :id ...): refused, or the id reserved and the component registered.
\* Modes that are refused take the component back, not the reservation.
MakeOf(w, s, f) ==
    LET reserved == [w EXCEPT !.alloc = Larger(@, Past(f.id))] IN
    IF f.id = 0 \/ Taken(w, s, f.id) THEN Failed(w)
    ELSE IF f.refused THEN Failed(reserved)
    ELSE Register(reserved, s, f.id, f.children)

\* (make-*) without an id.
MakeNext(w, s, f) ==
    LET a == AutoId(w, s)
        moved == [w EXCEPT !.alloc = a.next % (Top + 1), !.wrapped = @ \/ a.next > Top] IN
    IF f.refused THEN Failed(moved) ELSE Register(moved, s, a.id, f.children)

\* (connect p c): both must be on the site, and no cycle may close.
ConnectOf(w, s, f) ==
    LET edges == Connect(w.on[s].edges, f.parent, f.child) IN
    IF {f.parent, f.child} \subseteq Of(w.on[s].ids) /\ edges # w.on[s].edges
    THEN [w EXCEPT !.on[s].edges = edges] ELSE Failed(w)

DisconnectOf(w, s, f) ==
    [w EXCEPT !.on[s].edges = Without(@, LAMBDA e : e = <<f.parent, f.child>>)]

RemoveOf(w, s, f) == [w EXCEPT !.on[s] = Removed(@, f.id)]

Apply(w, s, f) ==
    CASE f.op = "make"       -> MakeOf(w, s, f)
      [] f.op = "next"       -> MakeNext(w, s, f)
      [] f.op = "connect"    -> ConnectOf(w, s, f)
      [] f.op = "disconnect" -> DisconnectOf(w, s, f)
      [] f.op = "remove"     -> RemoveOf(w, s, f)

Make(id) == [op |-> "make", id |-> id, children |-> <<>>, refused |-> FALSE]
Edge(e) == [op |-> "connect", parent |-> e[1], child |-> e[2]]

\* A text with a number past i64::MAX does not even parse.
Readable(ids) == \A id \in Of(ids) : id <= Half

Progn(w, s, ids, edges) ==
    LET made[i \in 0..Len(ids)] ==
            IF i = 0 THEN w ELSE
            IF made[i - 1].ok THEN Apply(made[i - 1], s, Make(ids[i])) ELSE made[i - 1]
        wired[i \in 0..Len(edges)] ==
            IF i = 0 THEN made[Len(ids)] ELSE
            IF wired[i - 1].ok THEN Apply(wired[i - 1], s, Edge(edges[i])) ELSE wired[i - 1]
    IN  IF Readable(ids) THEN wired[Len(edges)] ELSE Failed(w)

\* A saved block: every component in its order, then every edge.
Replay(w, s) == Progn(w, s, saved[s].ids, saved[s].edges)

\* The reload: all sites reset, the allocator set back, the files replayed in
\* order up to the first that fails.
Reloaded ==
    LET empty == [alloc |-> First, on |-> [s \in Sites |-> Bare],
                  wrapped |-> FALSE, ok |-> TRUE]
        file[i \in 0..Len(Files)] ==
            IF i = 0 THEN empty ELSE
            IF file[i - 1].ok THEN Replay(file[i - 1], Files[i]) ELSE file[i - 1]
    IN  file[Len(Files)]

Becomes(w) == alloc' = w.alloc /\ on' = w.on /\ wrapped' = w.wrapped

-----------------------------------------------------------------------------
(* The export: parsed into an order and edges, or refused.                  *)

\* Exports repeat connection rows; the first copy is kept.
Deduplicated(edges) ==
    LET kept[i \in 0..Len(edges)] ==
            IF i = 0 THEN <<>> ELSE
            IF edges[i] \in Of(kept[i - 1]) THEN kept[i - 1] ELSE Append(kept[i - 1], edges[i])
    IN  kept[Len(edges)]

\* Kahn's sort: the nodes left when every one without a parent left is taken.
Unresolved(edges) ==
    LET nodes == UNION {{e[1], e[2]} : e \in Of(edges)}
        rest[k \in 0..Cardinality(nodes)] ==
            IF k = 0 THEN nodes
            ELSE {n \in rest[k - 1] : \E e \in Of(edges) : e[2] = n /\ e[1] \in rest[k - 1]}
    IN  rest[Cardinality(nodes)]
CycleEdge(edges) == \E e \in Of(edges) : {e[1], e[2]} \subseteq Unresolved(edges)

Parses(x) ==
    /\ x.ids # <<>>
    /\ Cardinality(Of(x.ids)) = Len(x.ids)
    /\ \A e \in Of(x.edges) : {e[1], e[2]} \subseteq Of(x.ids) /\ e[1] # e[2]
    /\ ~CycleEdge(x.edges)

\* Children before parents: depth first, each emitted after what is below it.
Ordered(x) ==
    LET Below(id) == Without(x.edges, LAMBDA e : e[1] # id)
        visit[id \in 0..Top, done \in Seq(0..Top)] ==
            IF id \in Of(done) THEN done ELSE
            LET under[i \in 0..Len(Below(id))] ==
                    IF i = 0 THEN done ELSE visit[Below(id)[i][2], under[i - 1]]
            IN  Append(under[Len(Below(id))], id)
        all[i \in 0..Len(x.ids)] ==
            IF i = 0 THEN <<>> ELSE visit[x.ids[i], all[i - 1]]
    IN  all[Len(x.ids)]

MaxId(x) == CHOOSE id \in Of(x.ids) : \A j \in Of(x.ids) : j <= id

-----------------------------------------------------------------------------
Init ==
    /\ alloc = First
    /\ on = [s \in Sites |-> Bare] /\ saved = on
    /\ handles = {}
    /\ import = "idle"
    /\ \E c \in Cases : export = c.export /\ left = c.forms
    /\ wrapped = FALSE

Lists == {<<>>} \cup {<<h>> : h \in handles}
Forms(s) ==
    [op : {"make"}, id : Chosen, children : Lists, refused : BOOLEAN]
    \cup [op : {"next"}, children : Lists, refused : BOOLEAN]
    \cup [op : {"connect", "disconnect"}, parent : Of(on[s].ids), child : Of(on[s].ids)]
    \cup [op : {"remove"}, id : Of(on[s].ids)]

\* An eval on a site; only one without an error saves.  A progn may fail in a
\* form behind this one, which leaves what was done.
Eval(s, f, fails) ==
    LET w == Apply(World, s, f) IN
    /\ left > 0 /\ s \in Known
    /\ left' = left - 1
    /\ Becomes(w)
    /\ saved' = IF w.ok /\ ~fails THEN [saved EXCEPT ![s] = w.on[s]] ELSE saved
    /\ handles' = handles \cup Of(w.on[s].ids)
    /\ UNCHANGED <<import, export>>

Reload ==
    /\ left > 0
    /\ left' = left - 1
    /\ Becomes(Reloaded)
    /\ UNCHANGED <<saved, handles, import, export>>

\* One file again: its own site is reset, the allocator stays.
ReloadFile(s) ==
    /\ left > 0 /\ s \in Known
    /\ left' = left - 1
    /\ Becomes(Replay([World EXCEPT !.on[s] = Bare], s))
    /\ UNCHANGED <<saved, handles, import, export>>

\* Parse the two files; then scan every site for their ids.
Parse ==
    /\ import = "idle"
    /\ import' = IF Parses(export) THEN "parsed" ELSE "refused"
    /\ UNCHANGED <<alloc, on, saved, handles, export, left, wrapped>>

Scan ==
    /\ import = "parsed"
    /\ import' = IF \E s \in Known : Of(export.ids) \cap Of(on[s].ids) # {}
                 THEN "conflict" ELSE "scanned"
    /\ UNCHANGED <<alloc, on, saved, handles, export, left, wrapped>>

Create ==
    /\ import = "scanned"
    /\ import' = "created"
    /\ UNCHANGED <<alloc, on, saved, handles, export, left, wrapped>>

Bump ==
    /\ import = "created"
    /\ import' = "bumped"
    /\ alloc' = Larger(alloc, Past(MaxId(export)))
    /\ UNCHANGED <<on, saved, handles, export, left, wrapped>>

\* The one form, evaluated against the new microgrid.
Build ==
    LET w == Progn(World, "new", Ordered(export), Deduplicated(export.edges)) IN
    /\ import = "bumped"
    /\ import' = IF w.ok THEN "done" ELSE "incomplete"
    /\ Becomes(w)
    /\ saved' = IF w.ok THEN [saved EXCEPT !["new"] = w.on["new"]] ELSE saved
    /\ UNCHANGED <<handles, export, left>>

Next ==
    \/ \E s \in Sites : \E f \in Forms(s), fails \in BOOLEAN : Eval(s, f, fails)
    \/ Reload
    \/ \E s \in Sites : ReloadFile(s)
    \/ Parse \/ Scan \/ Create \/ Bump \/ Build

Spec == Init /\ [][Next]_vars

-----------------------------------------------------------------------------
\* No two sites carry one id, no site lists one twice and no graph has a
\* cycle, however evals, reloads and an import come together - until the
\* allocator wraps past u64::MAX (make.rs:1041-1076, mod.rs:587-692).
IdsAreUnique ==
    /\ ~wrapped => \A s \in Sites, t \in Sites :
                       s # t => Of(on[s].ids) \cap Of(on[t].ids) = {}
    /\ \A s \in Sites :
         /\ Cardinality(Of(on[s].ids)) = Len(on[s].ids)
         /\ \A e \in Of(on[s].edges) : ~Reaches(on[s].edges, e[2], e[1])

\* A parse lets exactly the graphs without a cycle through, and an import
\* builds all of its export, children before parents; it is left incomplete
\* only by an id that no form can make, or one that another site took after
\* the scan (site_import.rs:343-515, ui/handlers/microgrids.rs:231-376).
Unmakeable == \E id \in Of(export.ids) : id = 0 \/ id > Half
Contested == \E s \in Sites : Of(export.ids) \cap Of(on[s].ids) # {}
Cyclic == \E e \in Of(export.edges) : Reaches(export.edges, e[2], e[1])
Whole(site) ==
    /\ Of(site.ids) = Of(export.ids)
    /\ Of(site.edges) = Of(export.edges)
    /\ \A e \in Of(site.edges) : \E i, j \in DOMAIN site.ids :
           i < j /\ site.ids[i] = e[2] /\ site.ids[j] = e[1]
ImportsAreWhole ==
    [][/\ import = "idle" /\ import' = "parsed" => ~Cyclic
       /\ import = "idle" /\ import' = "refused" =>
              Cyclic \/ Cardinality(Of(export.ids)) # Len(export.ids)
       /\ import = "bumped" /\ import' = "done" /\ on["new"] = Bare => Whole(on'["new"])
       /\ import = "bumped" /\ import' = "incomplete" => Unmakeable \/ Contested]_vars

\* When every file shows its site, a reload rebuilds all of them - if no file
\* holds an edge to a component that is gone, which a stale handle among
\* :successors leaves, or an id that Lisp cannot write (microgrid_file.rs:
\* 489-533, boot.rs:1106-1180).
Replayable(site) ==
    /\ Readable(site.ids) /\ 0 \notin Of(site.ids)
    /\ \A e \in Of(site.edges) : {e[1], e[2]} \subseteq Of(site.ids)
FilesReplay ==
    saved = on /\ ~wrapped /\ (\A s \in Sites : Replayable(saved[s])) =>
        Reloaded.ok /\ Reloaded.on = on
=============================================================================
