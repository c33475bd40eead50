---------------------------- MODULE MCManagedFile ---------------------------
(***************************************************************************)
(* One managed file, people who save it in an editor and the program that   *)
(* saves and watches it.                                                    *)
(***************************************************************************)
EXTENDS ManagedFile

CONSTANTS a, b, f

MCFiles == <<f>>

\* A block alone, as the program saves it too, a hand-written file, and one
\* that does not evaluate.
MCTexts == {Text({a}, {}), Text({b}, {}), Text(Unmarked, {b}), Text(Broken, {})}
=============================================================================
