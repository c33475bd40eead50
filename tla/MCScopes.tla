------------------------------ MODULE MCScopes ------------------------------
(***************************************************************************)
(* A managed file whose script arms a timer, and a hand-written file whose  *)
(* microgrid has a lower id.                                                *)
(***************************************************************************)
EXTENDS Scopes

managedFile == <<"file", 1>>
writtenFile == <<"file", 2>>
MCSources == {managedFile, writtenFile}

MCVersions ==
    managedFile :> {[managed |-> TRUE, id |-> 2, forms |-> <<[does |-> "make", id |-> 1]>>,
                     script |-> <<[does |-> "arm", comp |-> 1]>>]}
    @@ writtenFile :> {[managed |-> FALSE, id |-> 1,
                        forms |-> <<[does |-> "make", id |-> None]>>, script |-> <<>>]}
MCTyped == {[does |-> "drive", comp |-> 1]}
=============================================================================
