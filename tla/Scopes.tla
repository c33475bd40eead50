------------------------------- MODULE Scopes -------------------------------
(***************************************************************************)
(* Which microgrid a form acts on, and which file a microgrid belongs to:    *)
(* the ambient scope and the ambient file of an evaluation                   *)
(* (sim/microgrids.rs), the two ways a file is evaluated and the copy of one *)
(* under another id (lisp/boot.rs, microgrid_file.rs, snapshots.rs), evals   *)
(* with and without a microgrid (lisp/overrides.rs), and timers.             *)
(*                                                                          *)
(* An evaluation holds the interpreter lock and is one step, an operator     *)
(* from world to world; a copy takes the lock for its load alone.  A file's  *)
(* block is what it declares - an id, components, connections -, its script  *)
(* what it does: drives a component, or arms a timer that does.  Nobody      *)
(* loads a copy's file by its path before the copy is done with it.          *)
(***************************************************************************)
EXTENDS Naturals, Sequences, SequencesExt, FiniteSetsExt, Functions

CONSTANTS
    None,           \* no scope, no file, no id
    Id,             \* microgrid ids
    First,          \* FIRST_AUTO_ID: the ids files name are below it
    Sources,        \* the files people load
    Versions,       \* what each may say, as it is first and as it is edited
    Typed,          \* the forms people type
    CopyIds,        \* the ids copies are asked for
    MaxSteps        \* evaluations and edits, a bound of the model

VARIABLES
    world,          \* the registry and what goes with it, see World
    disk,           \* the text of each file
    copy,           \* the copy underway, or None
    acts,           \* who acted on which microgrid in the last step (history)
    steps           \* evaluations and edits so far
vars == <<world, disk, copy, acts, steps>>

\* What one evaluation changes: the registry, the next component id, the files
\* the loader has evaluated and the timers armed.  The rest is the evaluation's
\* own: what acted where, whether a form has failed, and the microgrid the
\* block declared.
Start == [entries |-> <<>>, alloc |-> First, visited |-> <<>>, timers |-> {},
          acts |-> {}, ok |-> TRUE, made |-> None]

CopyOf(id) == <<"copy", id>>
Registered(w) == DOMAIN w.entries
Fail(w) == [w EXCEPT !.ok = FALSE]
Larger(a, b) == IF a > b THEN a ELSE b

\* Bare: an empty site, as reset leaves it.
Emptied(entry) == [entry EXCEPT !.comps = <<>>, !.edges = {}]
Has(w, id, c) == c \in Range(w.entries[id].comps)

-----------------------------------------------------------------------------
(* The scope.                                                               *)

\* SiteRouter::site: the microgrid in scope, else the lowest registered one,
\* else the bootstrap site, which is nobody's.
SiteOf(w, scope) ==
    IF scope \in Registered(w) THEN scope
    ELSE IF Registered(w) = {} THEN None ELSE Min(Registered(w))

\* A form that drives component c, by the microgrid it was written for.  No
\* component has the id: an error.
Drive(w, c, scope, by) ==
    LET on == SiteOf(w, scope)
    IN  IF on = None \/ ~Has(w, on, c) THEN Fail(w)
        ELSE [w EXCEPT !.acts = @ \cup {[by |-> by, on |-> on]}]

\* run-with-timer, every: the file is filed with the timer, the scope is not.
Arm(w, c, file, by) ==
    [w EXCEPT !.timers = @ \cup {[file |-> file, drives |-> c, by |-> by]}]

Form(w, form, scope, file, by) ==
    CASE ~w.ok -> w
      [] w.ok /\ form.does = "drive" -> Drive(w, form.comp, scope, by)
      [] w.ok /\ form.does = "arm" -> Arm(w, form.comp, file, by)
      [] w.ok /\ form.does = "err" -> Fail(w)

Script(w, forms, scope, file, by) ==
    FoldLeft(LAMBDA v, form : Form(v, form, scope, file, by), w, forms)

-----------------------------------------------------------------------------
(* (make-microgrid ...) and its topology.                                   *)

Taken(w, c) == \E id \in Registered(w) : Has(w, id, c)

\* One form of the topology: a constructor with an id of its own or the next
\* one its site does not list, a helper of the author's, or a connection.
Topology(w, form, id) ==
    LET auto == IF Has(w, id, w.alloc) THEN w.alloc + 1 ELSE w.alloc
        add(c) == [w EXCEPT !.entries[id].comps = Append(@, c),
                            !.alloc = Larger(@, c + 1)]
    IN  CASE ~w.ok -> w
          [] w.ok /\ form.does = "make" ->
                IF form.id = None THEN add(auto)
                ELSE IF Taken(w, form.id) THEN Fail(w) ELSE add(form.id)
          [] w.ok /\ form.does = "help" -> w
          [] w.ok /\ form.does = "connect" ->
                IF Has(w, id, form.ends[1]) /\ Has(w, id, form.ends[2])
                THEN [w EXCEPT !.entries[id].edges = @ \cup {form.ends}] ELSE Fail(w)

\* next_free_id_in.
NextFreeId(w) == Min(Id \ Registered(w))

Entered(w, id, entry) ==
    [w EXCEPT !.entries = [i \in Registered(w) \cup {id} |->
                              IF i = id THEN entry ELSE w.entries[i]]]

\* The file that declared a microgrid may declare it again, and its site is
\* used again, reset; anybody else's claim is an error.  A topology that fails
\* takes a microgrid it made with it.
MakeMicrogrid(w, want, forms, file, managed) ==
    LET id == IF want = None THEN NextFreeId(w) ELSE want
        again == id \in Registered(w)
        fresh == [source |-> file, managed |-> managed, comps |-> <<>>, edges |-> {}]
        built == FoldLeft(LAMBDA v, form : Topology(v, form, id),
                          [Entered(w, id, fresh) EXCEPT !.made = id], forms)
    IN  IF again /\ (file = None \/ w.entries[id].source # file) THEN Fail(w)
        ELSE IF built.ok \/ again THEN built
        ELSE [built EXCEPT !.entries = Restrict(@, Registered(w)), !.made = None]

-----------------------------------------------------------------------------
(* Evaluating a file.                                                       *)

\* A plausible slip: only a block that registers something new names the
\* microgrid its script is for.
HomeIfNew(w, new, head) == IF Cardinality(new) = 1 THEN CHOOSE id \in new : TRUE ELSE None

\* block_microgrid_id: the one new key of the registry, else what the head of
\* the block says.
Home(w, new, head) ==
    IF Cardinality(new) = 1 THEN CHOOSE id \in new : TRUE ELSE head

Note(w, path) == [w EXCEPT !.visited = IF path \in Range(@) THEN @ ELSE Append(@, path)]

\* eval_source_file.  A managed file's block and script are evaluated one
\* after the other, the script in the scope of the block's microgrid; a
\* hand-written one is evaluated in whatever scope there is.  A file whose
\* evaluation has started is visited, however it ends.
EvalSource(w, path, text, scope) ==
    LET block == MakeMicrogrid([w EXCEPT !.made = None], text.id, text.forms, path, text.managed)
        home == Home(w, Registered(block) \ Registered(w), text.id)
        run == IF text.managed
               THEN Script(block, text.script, IF home = None THEN scope ELSE home, path, block.made)
               ELSE Script(block, text.script, scope, path, scope)
    IN  Note(IF block.ok THEN run ELSE block, path)

CancelTimersOf(w, path) == [w EXCEPT !.timers = {t \in @ : t.file # path}]
ResetSitesOf(w, path) ==
    [w EXCEPT !.entries = [id \in DOMAIN @ |->
        IF @[id].source = path THEN Emptied(@[id]) ELSE @[id]]]

\* load_file: a file that was evaluated before is reloaded - its timers
\* cancelled and its sites reset - before it is evaluated again.
LoadFile(w, path, text, scope) ==
    IF path \in Range(w.visited)
    THEN EvalSource(ResetSitesOf(CancelTimersOf(w, path), path), path, text, scope)
    ELSE EvalSource(w, path, text, scope)

\* registered_sources: the files of live microgrids, as they first arrived.
RegisteredSources(w) ==
    SelectSeq(w.visited, LAMBDA p : \E id \in Registered(w) : w.entries[id].source = p)

\* reload: every site empty, every timer cancelled and the component ids from
\* the start, then one file after the other, up to one that fails.
Replay(w, texts) ==
    LET empty == [w EXCEPT !.entries = [id \in DOMAIN @ |-> Emptied(@[id])],
                           !.timers = {}, !.alloc = First]
    IN  FoldLeft(LAMBDA v, p : IF v.ok THEN EvalSource(v, p, texts[p], None) ELSE v,
                 empty, RegisteredSources(w))

-----------------------------------------------------------------------------
(* Copying a file: the id, the port and every component id replaced.        *)

Declared(forms) == SelectSeq(forms, LAMBDA f : f.does = "make" /\ f.id # None)

\* The ids a block's constructors name, each once, in the order they do.
OldIds(forms) ==
    FoldLeft(LAMBDA ids, f : IF f.id \in Range(ids) THEN ids ELSE Append(ids, f.id),
             <<>>, Declared(forms))

\* remap_component_ids: a connection to an id the block does not declare
\* makes it fail.
Remappable(forms) ==
    \A i \in DOMAIN forms : forms[i].does = "connect" =>
        \A k \in {1, 2} : forms[i].ends[k] \in Range(OldIds(forms))

\* The n-th id named becomes the n-th of the allocator; a helper's :id means
\* what the helper says and stays.
Remapped(forms, next) ==
    LET old == OldIds(forms)
        new(c) == next + (CHOOSE i \in DOMAIN old : old[i] = c) - 1
        remap(f) ==
            CASE f.does = "make" /\ f.id # None -> [f EXCEPT !.id = new(f.id)]
              [] f.does = "connect" -> [f EXCEPT !.ends = <<new(f.ends[1]), new(f.ends[2])>>]
              [] OTHER -> f
    IN  [i \in DOMAIN forms |-> remap(forms[i])]

\* microgrids_backed_by.
BackedBy(w, path) == {id \in Registered(w) : w.entries[id].source = path}
Forget(w, path) == [w EXCEPT !.visited = SelectSeq(@, LAMBDA p : p # path)]

-----------------------------------------------------------------------------
Init ==
    /\ world = Start
    /\ disk \in {d \in [Sources -> UNION {Versions[f] : f \in Sources}] :
                    \A f \in Sources : d[f] \in Versions[f]}
    /\ copy = None
    /\ acts = {}
    /\ steps = 0

Counts == steps < MaxSteps /\ steps' = steps + 1

\* What an evaluation leaves behind.
Left(w) ==
    /\ world' = [w EXCEPT !.acts = {}, !.ok = TRUE, !.made = None]
    /\ acts' = w.acts

\* Load(f, scope): (load "f") in the REPL or for a microgrid, POST /api/load,
\* a boot script; the watcher reloads without a scope.
Load(f, scope) ==
    /\ Counts
    /\ copy # None => f # CopyOf(copy.id)
    /\ Left(LoadFile(world, f, disk[f], scope))
    /\ UNCHANGED <<disk, copy>>

ReloadAll ==
    /\ Counts
    /\ world.visited # <<>>
    /\ Left(Replay(world, disk))
    /\ UNCHANGED <<disk, copy>>

\* eval_in_registered_mg, or eval without a microgrid: what is typed belongs
\* to no file.
Eval(scope, form) ==
    /\ Counts
    /\ scope # None => scope \in Registered(world)
    /\ Left(Form(world, form, scope, None, scope))
    /\ UNCHANGED <<disk, copy>>

\* A microgrid typed into the REPL.
Declare(id) ==
    /\ Counts
    /\ Left(MakeMicrogrid(world, id, <<[does |-> "make", id |-> None]>>, None, FALSE))
    /\ UNCHANGED <<disk, copy>>

Edit(f, text) ==
    /\ Counts
    /\ text # disk[f]
    /\ disk' = [disk EXCEPT ![f] = text]
    /\ acts' = {}
    /\ UNCHANGED <<world, copy>>

\* load_as, up to the copy it writes: a hand-written file, an id that is
\* registered, a block that does not add up and a target that exists are
\* refused.
CopyFile(f, id) ==
    /\ Counts
    /\ copy = None
    /\ disk[f].managed
    /\ id \notin Registered(world)
    /\ Remappable(disk[f].forms)
    /\ CopyOf(id) \notin DOMAIN disk
    /\ LET text == [disk[f] EXCEPT !.id = id, !.forms = Remapped(@, world.alloc)]
       IN  /\ disk' = [p \in DOMAIN disk \cup {CopyOf(id)} |->
                          IF p = CopyOf(id) THEN text ELSE disk[p]]
           /\ copy' = [id |-> id, of |-> disk[f]]
    /\ world' = [world EXCEPT !.alloc = @ + Len(OldIds(disk[f].forms))]
    /\ acts' = {}

\* Its load, and what becomes of the file: it stays if it backs a microgrid,
\* with a warning when its script has failed, and is dropped otherwise.
LoadCopy ==
    /\ copy # None
    /\ LET path == CopyOf(copy.id)
           loaded == LoadFile(world, path, disk[path], None)
           kept == loaded.ok \/ BackedBy(loaded, path) # {}
       IN  /\ Left(IF kept THEN loaded ELSE Forget(loaded, path))
           /\ disk' = IF kept THEN disk ELSE Restrict(disk, DOMAIN disk \ {path})
    /\ copy' = None
    /\ UNCHANGED steps

\* A timer comes due, in a refresh pass: no microgrid is in scope there.  One
\* whose callback fails is stopped.
Fire(t) ==
    /\ t \in world.timers
    /\ LET fired == Drive(world, t.drives, None, t.by)
       IN  Left(IF fired.ok THEN fired ELSE [world EXCEPT !.timers = @ \ {t}])
    /\ UNCHANGED <<disk, copy, steps>>

Next ==
    \/ \E f \in DOMAIN disk, scope \in Registered(world) \cup {None} : Load(f, scope)
    \/ ReloadAll
    \/ \E scope \in Registered(world) \cup {None}, form \in Typed : Eval(scope, form)
    \/ \E id \in CopyIds \cup {None} : Declare(id)
    \/ \E f \in Sources : \E text \in Versions[f] : Edit(f, text)
    \/ \E f \in Sources, id \in CopyIds : CopyFile(f, id)
    \/ LoadCopy
    \/ \E t \in world.timers : Fire(t)

Spec == Init /\ [][Next]_vars

-----------------------------------------------------------------------------
(* Properties.                                                              *)

\* A form acts on the microgrid it was written for: what a managed file's
\* script does when the file is loaded, loaded again or copied, and what is
\* typed for a microgrid, whatever else is registered and whatever fails
\* (boot.rs:584-615, overrides.rs:43-68).
FormsStayHome ==
    [][\/ \E t \in world.timers : Fire(t)
       \/ \A a \in acts' : a.by # None => a.on = a.by]_vars

\* So do its timers.
TimersStayHome ==
    [][\A t \in world.timers : Fire(t) => \A a \in acts' : a.by # None => a.on = a.by]_vars

\* An evaluation other than a whole reload rebuilds the microgrids of one file
\* at most and leaves everybody else's as they are (boot.rs:1010-1085).
OthersAreLeftAlone ==
    [][\/ ReloadAll
       \/ LET changed == {id \in Registered(world) :
                    id \notin Registered(world') \/ world'.entries[id] # world.entries[id]}
          IN  Cardinality({world.entries[id].source : id \in changed}) <= 1]_vars

\* The position of the constructor that names id c.
PlaceOf(made, c) == CHOOSE i \in DOMAIN made : made[i].id = c

\* entry is what the forms declare, under other component ids.
Twin(forms, entry) ==
    LET made == SelectSeq(forms, LAMBDA f : f.does = "make")
        wired == SelectSeq(forms, LAMBDA f : f.does = "connect")
        at(c) == entry.comps[PlaceOf(made, c)]
    IN  /\ Len(entry.comps) = Len(made)
        /\ entry.edges = {<<at(wired[i].ends[1]), at(wired[i].ends[2])>> : i \in DOMAIN wired}

\* A copy that answers for a microgrid has a file, and the microgrid is built
\* as the original's file says, out of components of its own; one that does
\* not leaves neither file nor trace (boot.rs:705-775, microgrid_file.rs:262).
CopiesAreWhole ==
    [][LoadCopy =>
        LET path == CopyOf(copy.id)
            others == Registered(world') \ {copy.id}
        IN  IF BackedBy(world', path) = {}
            THEN /\ path \notin DOMAIN disk' /\ path \notin Range(world'.visited)
                 /\ world'.entries = world.entries
            ELSE /\ path \in DOMAIN disk'
                 /\ Twin(copy.of.forms, world'.entries[copy.id])
                 /\ \A id \in others, c \in Range(world'.entries[copy.id].comps) :
                        ~Has(world', id, c)]_vars
=============================================================================
