---------------------------- MODULE ManagedFile ----------------------------
(***************************************************************************)
(* Microgrids and the files that back them: an edit is evaluated and saved   *)
(* (src/src/lisp/overrides.rs), undo, redo and snapshots rewrite the file    *)
(* and load it again (src/src/lisp/undo.rs, snapshots.rs), people edit the   *)
(* same files, and the watcher tells the two apart                           *)
(* (src/src/lisp/boot.rs, mod.rs).  A hand-written file can be adopted       *)
(* (src/src/ui/handlers/microgrids.rs).                                      *)
(*                                                                          *)
(* A file is a generated block - the components it declares, which one step  *)
(* writes, whole - and a script, which drives some of them.  What one        *)
(* holding of the interpreter lock does is one step; the adoption and the    *)
(* watcher's look at a file do not hold it, nor do people.                   *)
(***************************************************************************)
EXTENDS Integers, Sequences, FiniteSetsExt, Functions

Seqs == INSTANCE SequencesExt

CONSTANTS
    Unset,          \* nothing remembered, nothing underway
    Mangled,        \* a text whose markers are out of place
    Unmarked,       \* the block of a hand-written file
    Broken,         \* a block that does not evaluate
    Comp,           \* components
    Edited,         \* those that edits through the program add and remove
    Files,          \* the microgrids' files, in the order they were loaded
    Library,        \* a file named by watch-file, shared by all microgrids
    Enterprise,     \* enterprise.lisp
    Texts,          \* what people save
    Cap,            \* UNDO_CAP
    MaxHandEdits,   \* edits by people, a bound of the model
    MaxSaves        \* edits through the program, a bound of the model

VARIABLES
    onDisk,         \* what each file says
    live,           \* the components of each file's microgrid
    managed,        \* whether the registry holds the file for a managed one
    unsaved,        \* whether the registry says the file lacks live edits
    settings,       \* the enterprise settings in force
    steps,          \* the blocks to undo and to redo of each file, newest last
    snapshot,       \* a file's snapshot
    seen,           \* the text each file was last loaded from or saved as (history)
    adopting,       \* the adoption that has read its file, or Unset
    written,        \* what the program last wrote to each file, until matched
    watched,        \* files whose watch follows the file that is there now
    inbox,          \* modified files the watcher has not taken
    batch,          \* those of the batch it is in
    due,            \* the file it found a person edited, or Unset
    watching,       \* whether it is in a batch
    edits, saves    \* edits so far

texts == <<onDisk, written, watched, inbox>>
world == <<live, managed, unsaved, settings>>
history == <<steps, snapshot, seen>>
watcher == <<batch, due, watching>>
fileVars == <<texts, world, history, watcher, adopting, edits, saves>>

Mg == Range(Files)
Paths == Mg \cup {Library, Enterprise}

Text(block, script) == [block |-> block, script |-> script]
Block == {Unmarked, Broken} \cup SUBSET Comp
SavedText == {Mangled} \cup [block : Block, script : SUBSET Comp]

ASSUME FilesAssumption ==
    /\ Cap \in Nat \ {0}
    /\ {Library, Enterprise} \cap Mg = {}
    /\ Edited \subseteq Comp /\ Texts \subseteq SavedText
    /\ Unmarked # Broken /\ \A s \in SUBSET Comp : s \notin {Unmarked, Broken}
    /\ Mangled \notin [block : Block, script : SUBSET Comp]
    /\ Unset \notin SavedText \cup Mg
    /\ Unset \notin [file : Mg, text : SavedText]

\* parse: a text out of place is an error, one without markers is a script.
Generated(text) == IF text = Mangled THEN Unmarked ELSE text.block
IsManagedText(text) == Generated(text) # Unmarked

\* eval_source_file: the block is evaluated, then the script in the
\* microgrid's scope, which fails when it drives what the block lacks.
Evaluates(text) ==
    /\ text # Mangled
    /\ text.block # Broken
    /\ text.block = Unmarked \/ text.script \subseteq text.block

\* The components there are after: reset, and then what the text got to.
Builds(text) ==
    CASE text = Mangled -> {}
      [] text # Mangled /\ text.block = Broken -> {}
      [] text # Mangled /\ text.block = Unmarked -> text.script
      [] OTHER -> text.block

\* (make-microgrid ...) declares it anew, unless nothing got that far.
Declares(text) == text # Mangled /\ text.block # Broken

FileInit ==
    /\ onDisk = [p \in Paths |-> IF p \in Mg THEN Text({}, {}) ELSE 0]
    /\ live = [f \in Mg |-> {}]
    /\ managed = [f \in Mg |-> TRUE]
    /\ unsaved = [f \in Mg |-> FALSE]
    /\ settings = 0
    /\ steps = [f \in Mg |-> [undo |-> <<>>, redo |-> <<>>]]
    /\ snapshot = [f \in Mg |-> Unset]
    /\ seen = onDisk
    /\ adopting = Unset
    /\ written = [p \in Paths |-> Unset]
    /\ watched = Paths
    /\ inbox = {}
    /\ batch = {}
    /\ due = Unset
    /\ watching = FALSE
    /\ edits = 0
    /\ saves = 0

(***************************************************************************)
(* Files.                                                                   *)
(***************************************************************************)
\* A person saves: in place, or by a rename, which leaves the watch behind.
HumanSaves(p, text) ==
    /\ edits < MaxHandEdits /\ onDisk[p] # text
    /\ edits' = edits + 1
    /\ onDisk' = [onDisk EXCEPT ![p] = text]
    /\ inbox' = IF p \in watched THEN inbox \cup {p} ELSE inbox
    /\ watched' \in {watched, watched \ {p}}
    /\ UNCHANGED <<written, world, history, watcher, adopting, saves>>

\* write_atomic, and record_self_write after it: always a rename.
Write(p, text) ==
    /\ onDisk' = [onDisk EXCEPT ![p] = text]
    /\ seen' = [seen EXCEPT ![p] = text]
    /\ written' = [written EXCEPT ![p] = text]
    /\ inbox' = IF p \in watched THEN inbox \cup {p} ELSE inbox
    /\ watched' = watched \ {p}

\* write_two_section refuses a text without a block of its own.
Writable(f) == IsManagedText(onDisk[f])

Compose(f, block) == Text(block, onDisk[f].script)

(***************************************************************************)
(* Edits through the program.                                               *)
(***************************************************************************)
Counts == saves < MaxSaves /\ saves' = saves + 1

\* push_undo_block: the newest step, the oldest falls off at the cap, and
\* what was undone is forgotten.
Capped(blocks) ==
    IF Len(blocks) > Cap THEN SubSeq(blocks, Len(blocks) - Cap + 1, Len(blocks)) ELSE blocks

PushUndoBlock(f, block) ==
    steps' = [steps EXCEPT ![f] = [undo |-> Capped(Append(@.undo, block)), redo |-> <<>>]]

\* A plausible slip: the step is stacked before the write is known to work.
PersistAhead(f, structure) ==
    IF ~managed[f]
    THEN unsaved' = [unsaved EXCEPT ![f] = TRUE] /\ UNCHANGED <<texts, steps, seen>>
    ELSE /\ PushUndoBlock(f, Generated(onDisk[f]))
         /\ \/ /\ Writable(f)
               /\ Write(f, Compose(f, structure))
               /\ unsaved' = [unsaved EXCEPT ![f] = FALSE]
            \/ /\ unsaved' = [unsaved EXCEPT ![f] = TRUE]
               /\ UNCHANGED <<texts, seen>>

\* persist: the block the file carries becomes the undo step once the live
\* structure has taken its place; a write that is refused or fails leaves
\* the file and the steps alone and the microgrid flagged.
Persist(f, structure) ==
    IF ~managed[f]
    THEN unsaved' = [unsaved EXCEPT ![f] = TRUE] /\ UNCHANGED <<texts, steps, seen>>
    ELSE \/ /\ Writable(f)
            /\ Write(f, Compose(f, structure))
            /\ PushUndoBlock(f, Generated(onDisk[f]))
            /\ unsaved' = [unsaved EXCEPT ![f] = FALSE]
         \/ /\ unsaved' = [unsaved EXCEPT ![f] = TRUE]
            /\ UNCHANGED <<texts, steps, seen>>

Toggled(set, c) == IF c \in set THEN set \ {c} ELSE set \cup {c}

\* An eval that adds or removes a component: evaluated, then saved.
Eval(f, c) ==
    /\ Counts
    /\ live' = [live EXCEPT ![f] = Toggled(@, c)]
    /\ Persist(f, Toggled(live[f], c))
    /\ UNCHANGED <<managed, settings, snapshot, watcher, adopting, edits>>

\* An eval that fails half way: what it did stays, and nothing is saved.
EvalFails(f, c) ==
    /\ Counts
    /\ live' = [live EXCEPT ![f] = Toggled(@, c)]
    /\ UNCHANGED <<texts, managed, unsaved, settings, history, watcher, adopting, edits>>

\* An enterprise-wide setter or a setq of defaults: persist_enterprise.
EvalSettings(value) ==
    /\ Counts
    /\ settings' = value
    /\ \/ Write(Enterprise, value)
       \/ UNCHANGED <<texts, seen>>
    /\ UNCHANGED <<live, managed, unsaved, steps, snapshot, watcher, adopting, edits>>

(***************************************************************************)
(* Undo, redo and snapshots.                                                *)
(***************************************************************************)
\* reload_file: the site is reset and the file, as it is now, evaluated.
ReloadFile(f, text) ==
    /\ live' = [live EXCEPT ![f] = Builds(text)]
    /\ IF Declares(text)
       THEN /\ managed' = [managed EXCEPT ![f] = IsManagedText(text)]
            /\ unsaved' = [unsaved EXCEPT ![f] = FALSE]
       ELSE UNCHANGED <<managed, unsaved>>
    /\ UNCHANGED settings

\* The block the write displaced goes to the other stack; undo's is capped.
Moved(f, from, to) ==
    LET pushed == Append(steps[f][to], Generated(onDisk[f]))
    IN  steps' = [steps EXCEPT ![f][from] = Seqs!Front(@),
                               ![f][to] = IF to = "undo" THEN Capped(pushed) ELSE pushed]

\* apply_block_locked and what step does with its answer: the block written
\* counts as taken, whether or not the file then evaluates.
StepTaken(f, from, to) ==
    LET text == Compose(f, Seqs!Last(steps[f][from]))
    IN  /\ Write(f, text)
        /\ ReloadFile(f, text)
        /\ Moved(f, from, to)

\* step, with the interpreter held.  Nothing written: the step goes back
\* where it came from.
Step(f, from, to) ==
    /\ managed[f] /\ steps[f][from] # <<>>
    /\ Counts
    /\ \/ Writable(f) /\ StepTaken(f, from, to)
       \/ UNCHANGED <<texts, world, steps, seen>>
    /\ UNCHANGED <<snapshot, watcher, adopting, edits>>

Undo(f) == Step(f, "undo", "redo")
Redo(f) == Step(f, "redo", "undo")

\* save_snapshot_for does not take the lock: a copy of the file.
SaveSnapshot(f) ==
    /\ managed[f] /\ onDisk[f] # Mangled
    /\ snapshot[f] # onDisk[f]
    /\ snapshot' = [snapshot EXCEPT ![f] = onDisk[f]]
    /\ UNCHANGED <<texts, world, steps, seen, watcher, adopting, edits, saves>>

\* load_snapshot_for: the whole file, the block it displaces an undo step.
LoadSnapshot(f) ==
    /\ managed[f] /\ snapshot[f] # Unset
    /\ Counts
    /\ Write(f, snapshot[f])
    /\ IF IsManagedText(onDisk[f])
       THEN PushUndoBlock(f, Generated(onDisk[f]))
       ELSE UNCHANGED steps
    /\ ReloadFile(f, snapshot[f])
    /\ UNCHANGED <<snapshot, watcher, adopting, edits>>

(***************************************************************************)
(* Adoption, without the interpreter.                                       *)
(***************************************************************************)
AdoptReads(f) ==
    /\ adopting = Unset /\ ~managed[f] /\ Generated(onDisk[f]) = Unmarked /\ onDisk[f] # Mangled
    /\ adopting' = [file |-> f, text |-> Text(live[f], {})]
    /\ UNCHANGED <<texts, world, history, watcher, edits, saves>>

AdoptWrites ==
    /\ adopting # Unset
    /\ Write(adopting.file, adopting.text)
    /\ managed' = [managed EXCEPT ![adopting.file] = TRUE]
    /\ unsaved' = [unsaved EXCEPT ![adopting.file] = FALSE]
    /\ adopting' = Unset
    /\ UNCHANGED <<live, settings, steps, snapshot, watcher, edits, saves>>

(***************************************************************************)
(* The watcher.                                                             *)
(***************************************************************************)
\* The window went quiet: what modified events named is one batch.
TakeBatch ==
    /\ ~watching /\ inbox # {}
    /\ watching' = TRUE
    /\ batch' = inbox
    /\ inbox' = {}
    /\ UNCHANGED <<onDisk, written, watched, world, history, due, adopting, edits, saves>>

OwnWrite(p) == written[p] # Unset /\ written[p] = onDisk[p]

\* take_self_write: the program's own save is skipped, and forgotten.
SkipOwn(p) ==
    /\ p \in batch /\ due = Unset
    /\ OwnWrite(p)
    /\ written' = [written EXCEPT ![p] = Unset]
    /\ batch' = batch \ {p}
    /\ UNCHANGED <<onDisk, watched, inbox, world, history, due, watching, adopting, edits, saves>>

FoundEdited(p) ==
    /\ p \in batch /\ due = Unset
    /\ ~OwnWrite(p)
    /\ due' = p
    /\ batch' = batch \ {p}
    /\ UNCHANGED <<texts, world, history, watching, adopting, edits, saves>>

\* enterprise.lisp: settings only; a file that does not evaluate changes none.
LoadEnterprise ==
    /\ due = Enterprise
    /\ IF onDisk[due] = Broken THEN UNCHANGED <<settings, seen>>
       ELSE settings' = onDisk[due] /\ seen' = [seen EXCEPT ![due] = onDisk[due]]
    /\ due' = Unset
    /\ UNCHANGED <<texts, live, managed, unsaved, steps, snapshot, batch, watching,
                   adopting, edits, saves>>

ReloadDue ==
    /\ due \in Mg
    /\ ReloadFile(due, onDisk[due])
    /\ seen' = [seen EXCEPT ![due] = onDisk[due]]
    /\ due' = Unset
    /\ UNCHANGED <<texts, steps, snapshot, batch, watching, adopting, edits, saves>>

\* How many of the files a whole reload evaluates: the first that fails is
\* its last.
Replayed ==
    LET failing == {i \in DOMAIN Files : ~Evaluates(onDisk[Files[i]])}
    IN  IF failing = {} THEN Len(Files) ELSE Min(failing)

\* reload: nothing is touched when enterprise.lisp fails; otherwise every
\* site is reset and the files evaluated in order, up to one that fails.
ReloadAll ==
    /\ due = Library
    /\ due' = Unset
    /\ IF onDisk[Enterprise] = Broken THEN UNCHANGED <<world, seen>>
       ELSE LET reached == {Files[i] : i \in 1..Replayed}
                declared == {f \in reached : Declares(onDisk[f])}
            IN  /\ settings' = onDisk[Enterprise]
                /\ live' = [f \in Mg |-> IF f \in reached THEN Builds(onDisk[f]) ELSE {}]
                /\ managed' = [f \in Mg |-> IF f \in declared THEN IsManagedText(onDisk[f])
                                            ELSE managed[f]]
                /\ unsaved' = [f \in Mg |-> f \notin declared /\ unsaved[f]]
                /\ seen' = [p \in Paths |-> IF p \in reached \cup {Enterprise}
                                            THEN onDisk[p] ELSE seen[p]]
    /\ UNCHANGED <<texts, steps, snapshot, batch, watching, adopting, edits, saves>>

\* rearm_watches, after a batch and after five seconds without one.
Rearm ==
    /\ batch = {} /\ due = Unset
    /\ watching \/ watched # Paths
    /\ watched' = Paths
    /\ watching' = FALSE
    /\ UNCHANGED <<onDisk, written, inbox, world, history, batch, due, adopting, edits, saves>>

Watch ==
    \/ TakeBatch
    \/ \E p \in Paths : SkipOwn(p) \/ FoundEdited(p)
    \/ LoadEnterprise \/ ReloadDue \/ ReloadAll
    \/ Rearm

ProgramEdits ==
    \/ \E f \in Mg, c \in Edited : Eval(f, c) \/ EvalFails(f, c)
    \/ \E value \in {0, 1} : EvalSettings(value)
    \/ \E f \in Mg :
        \/ Undo(f) \/ Redo(f)
        \/ SaveSnapshot(f) \/ LoadSnapshot(f)
        \/ AdoptReads(f)
    \/ AdoptWrites

FileNext ==
    \/ ProgramEdits
    \/ Watch
    \/ \E f \in Mg, text \in Texts : HumanSaves(f, text)
    \/ HumanSaves(Library, 1)
    \/ \E text \in {0, 1, Broken} : HumanSaves(Enterprise, text)

FileSpec == FileInit /\ [][FileNext]_fileVars

(***************************************************************************)
(* Properties.                                                              *)
(***************************************************************************)
\* A file's history in order: what can be undone, what it says, what can be
\* redone.
Line(f) == steps[f].undo \o <<Generated(onDisk[f])>> \o Seqs!Reverse(steps[f].redo)

\* An undo or a redo moves along the history of a file and loses nothing of
\* it, whatever fails on the way and whatever people saved in between: a block
\* that was written and did not evaluate is one press of the other button
\* away (undo.rs:112).
StepsKeepHistory ==
    [][\A f \in Mg : Undo(f) \/ Redo(f) => Line(f)' = Line(f)]_fileVars

Top(stack) == IF stack = <<>> THEN Unset ELSE Seqs!Last(stack)
Grew(f) ==
    \E stack \in {"undo", "redo"} : Len(steps'[f][stack]) > Len(steps[f][stack])

\* What a step of the program replaces in a file can be put back, and what it
\* stacks it has written.
Recoverable(f) ==
    /\ onDisk'[f] # onDisk[f] /\ IsManagedText(onDisk[f]) =>
           Generated(onDisk[f]) \in {Top(steps'[f].undo), Top(steps'[f].redo)}
    /\ Grew(f) => live'[f] = Builds(onDisk'[f])

\* Whatever block the program replaces on disk is the newest of one of the
\* stacks, so that one press puts it back, and a block is only stacked for a
\* write that happened: what is live then is what the file says (undo.rs:58,
\* overrides.rs:227).
DisplacedIsKept ==
    [][edits' = edits /\ adopting' = adopting => \A f \in Mg : Recoverable(f)]_fileVars

\* Both: whatever the program does to a file can be taken back.
NothingOfAFileIsLost == StepsKeepHistory /\ DisplacedIsKept

\* Every variable these are about has its type.
FileTypeOK ==
    /\ \A f \in Mg : onDisk[f] \in SavedText
    /\ DOMAIN onDisk = Paths
    /\ live \in [Mg -> SUBSET Comp]
    /\ steps \in [Mg -> [undo : Seq(Block), redo : Seq(Block)]]
    /\ snapshot \in [Mg -> {Unset} \cup SavedText]
    /\ adopting \in {Unset} \cup [file : Mg, text : SavedText]
    /\ edits \in Nat

\* What can be undone or was undone fits the stack that undo fills again.
StacksFit == \A f \in Mg : Len(steps[f].undo) + Len(steps[f].redo) <= Cap

FileIInv == FileTypeOK /\ StacksFit

\* What the watcher skips as the program's own save is what the microgrid was
\* last saved as or loaded from: no edit of a person is missed
\* (boot.rs:1384, mod.rs:517).
SkippedIsLive ==
    [][\A p \in Paths : SkipOwn(p) => onDisk[p] = seen[p]]_fileVars
=============================================================================
