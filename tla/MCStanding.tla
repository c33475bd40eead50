----------------------------- MODULE MCStanding -----------------------------
(***************************************************************************)
(* Six parts that share no state and whose properties need no fairness,     *)
(* side by side: a behaviour picks one of them at its start and is a        *)
(* behaviour of that part alone.  The registry is Enterprise's.             *)
(***************************************************************************)
EXTENDS Enterprise, Loopback, EventPush, ManagedFile, Integers, TLC

CONSTANTS Open, request1, request2, script1, file1, comp1, comp2

VARIABLE part

Parts == {"envelope", "loopback", "registry", "files", "push", "burst"}

-----------------------------------------------------------------------------
(* Envelopes: edges are even and powers are all integers, so that a gap     *)
(* between two bands holds a power of its own.                              *)
VARIABLES base, effective, augmented, sibling, admitted
evars == <<base, effective, augmented, sibling, admitted>>

Pair(lo, hi) == [lower |-> lo, upper |-> hi]
Shapes(edges) == {Pair(lo, hi) : lo, hi \in edges \cup {Open}}
Straight(pair) == pair.lower = Open \/ pair.upper = Open \/ pair.lower <= pair.upper

\* One band, or two in any order: overlapping, nested, touching or apart.
MCAugmentations ==
    {<<a>> : a \in Shapes({-4, -2, 0, 2, 4})}
        \cup {<<a, b>> : a, b \in {s \in Shapes({-2, 2, 4}) : Straight(s)}}
MCRated == {<<Pair(-4, 4)>>, <<Pair(0, 4)>>, <<Pair(-2, 2)>>}
MCSiblings == {<<>>, <<Pair(-4, -2), Pair(2, 4)>>}

E == INSTANCE Envelope WITH
    Lowest <- -99, MinPower <- -4, MaxPower <- 4,
    Rated <- MCRated, Augmentations <- MCAugmentations, Siblings <- MCSiblings,
    live <- augmented

-----------------------------------------------------------------------------
(* The registry: two ids and three ports, two creates at once, a script and *)
(* the REPL, one announcement the listener may be behind, and a server that *)
(* ends by itself.                                                          *)
MCAsks == {<<None, None>>, <<1, 1>>, <<1, 2>>}

\* Which of the two creates comes first makes no difference to the rest.
Symmetry == Permutations({request1, request2})

-----------------------------------------------------------------------------
(* The files: one microgrid's file, enterprise.lisp and a watched library;  *)
(* one edit by a person, which may be valid, mangled, broken or without a   *)
(* block; an undo stack two deep.                                           *)
MCFiles == <<file1>>
MCTexts == {Text({comp1}, {comp1}), Text({comp2}, {}), Text(Unmarked, {comp2}),
            Text(Broken, {}), Mangled}

-----------------------------------------------------------------------------
(* A browser: as the configuration has it, three makes of two ids with an    *)
(* announcement and an event it may be behind (push); or one id whose sites  *)
(* send bursts of two (burst).                                              *)
Burst == INSTANCE EventPush WITH
    MgIds <- {1}, EventRing <- 2, MaxSites <- 2, MaxEvents <- 2

-----------------------------------------------------------------------------
partVars == <<part, vars, evars, loopbackVars, fileVars, pushVars>>

\* In the other parts the envelope is one that stays put.
PartsInit ==
    /\ part \in Parts
    /\ Init /\ E!Init
    /\ part = "envelope" \/ (base = <<Pair(-4, 4)>> /\ sibling = <<>>)
    /\ LoopbackInit /\ FileInit /\ PushInit

PartsNext ==
    /\ UNCHANGED part
    /\ \/ /\ part = "envelope" /\ E!Next
          /\ UNCHANGED <<vars, loopbackVars, fileVars, pushVars>>
       \/ /\ part = "loopback" /\ LoopbackNext
          /\ UNCHANGED <<vars, evars, fileVars, pushVars>>
       \/ /\ part = "registry" /\ Next
          /\ UNCHANGED <<evars, loopbackVars, fileVars, pushVars>>
       \/ /\ part = "files" /\ FileNext
          /\ UNCHANGED <<vars, evars, loopbackVars, pushVars>>
       \/ /\ \/ part = "push" /\ PushNext
             \/ part = "burst" /\ Burst!PushNext
          /\ UNCHANGED <<vars, evars, loopbackVars, fileVars>>

PartsSpec == PartsInit /\ [][PartsNext]_partVars

-----------------------------------------------------------------------------
(* The properties of the parts; those of the registry, the loopback, the     *)
(* files and the browser are their modules' own.                            *)

\* Band lists mean the sets of powers they admit, whatever was intersected,
\* clamped or summed (bounds.rs).
ListsMeanSets ==
    part = "envelope" =>
        /\ E!EnvelopeIsIntersection /\ E!OuterEdgesAreExtremes
        /\ E!ClampFindsNearest /\ E!SumAdmitsReachable
=============================================================================
