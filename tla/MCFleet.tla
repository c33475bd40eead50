------------------------------ MODULE MCFleet -------------------------------
(***************************************************************************)
(* Parts that share no state, side by side: a behaviour picks one of them    *)
(* at its start and is a behaviour of that part alone.  One axis of the      *)
(* gateway is MCGateway's; the others are what evaluating a file does to     *)
(* which of the microgrids, a site's components and connections, named        *)
(* scenarios with those who run them, what a site keeps of its past, a steam *)
(* boiler and the grid's frequency.                                          *)
(***************************************************************************)
EXTENDS MCGateway, SteamBoiler, Frequency, ScenarioRun, TLC

VARIABLE part

Parts == {"axis", "files", "topology", "runs", "past", "requests", "boiler", "frequency"}

-----------------------------------------------------------------------------
(* Two files: a managed one, whose edits break its script, its block or its  *)
(* head, and a hand-written one, which may claim the other's id.             *)
VARIABLES world, disk, copy, acts, steps
fvars == <<world, disk, copy, acts, steps>>

Make(id) == [does |-> "make", id |-> id]
Help(id) == [does |-> "help", id |-> id]
Connected(a, b) == [does |-> "connect", ends |-> <<a, b>>]
Does(what, c) == [does |-> what, comp |-> c]

Text(managed, id, forms, script) ==
    [managed |-> managed, id |-> id, forms |-> forms, script |-> script]
Two == <<Make(1), Make(2), Connected(1, 2)>>

managedFile == <<"file", 1>>
writtenFile == <<"file", 2>>

MCVersions ==
    managedFile :>
        {Text(TRUE, 2, Two, <<Does("drive", 1), Does("arm", 1)>>),
         Text(TRUE, 2, <<Make(2), Help(1), Make(None), Make(3), Connected(2, 3)>>, <<>>),
         Text(TRUE, 2, <<Make(1), Help(2), Connected(1, 2)>>, <<>>),
         Text(TRUE, 3, Two, <<Does("drive", 2), Does("err", 2)>>)}
    @@ writtenFile :>
        {Text(FALSE, 1, <<Make(None), Make(None)>>, <<Does("drive", 10), Does("arm", 10)>>),
         Text(FALSE, None, <<Make(1)>>, <<Does("drive", 1)>>),
         Text(FALSE, 2, <<Make(None)>>, <<>>)}

Files == INSTANCE Scopes WITH
    Id <- 1..6, First <- 10, Sources <- {managedFile, writtenFile}, Versions <- MCVersions,
    Typed <- {Does("drive", 1), Does("arm", 10)}, CopyIds <- {3, 4}, MaxSteps <- 4

-----------------------------------------------------------------------------
(* A grid connection point, a meter, a hidden one, a transformer and a       *)
(* battery's inverter, connected side by side, in a chain, and twice.        *)
VARIABLES components, byId, connections, power, source, reactive, change, changes, read
tvars == <<components, byId, connections, power, source, reactive, change, changes, read>>

MCKindOf == [id \in {"grid", "meter", "shadow", "transformer", "inverter"} |->
                CASE id \in {"grid", "meter"} -> id
                  [] id = "shadow" -> "meter"
                  [] id = "transformer" -> "marker"
                  [] id = "inverter" -> "device"]

InAChain == <<<<"grid", "meter">>, <<"meter", "shadow">>, <<"meter", "transformer">>,
              <<"shadow", "inverter">>, <<"transformer", "inverter">>>>
Twice == <<<<"grid", "meter">>, <<"meter", "transformer">>, <<"meter", "inverter">>,
           <<"shadow", "inverter">>, <<"meter", "inverter">>>>

Site == INSTANCE Topology WITH
    Ids <- DOMAIN MCKindOf, KindOf <- MCKindOf, Hidden <- {"shadow"},
    Wirings <- {InAChain, Twice}, Powers <- {43200, -86400},
    Pairs <- {<<"shadow", "inverter">>, <<"transformer", "meter">>},
    MaxChanges <- 2

-----------------------------------------------------------------------------
(* A scenario whose cue takes back its drive, one without a length, two that *)
(* break off, and one define-scenario refuses.                               *)
Text1(length, drive, cues, checks, agents, breaks) ==
    [name |-> 1, bad |-> breaks = "parse",
     def |-> [known |-> TRUE, length |-> length, drive |-> drive, cues |-> cues, checks |-> checks,
              agents |-> agents, breaks |-> breaks]]
Wants(at, value) == [at |-> at, wants |-> value]
EverySecond == {[every |-> 1, to |-> 1]}

MCDefinitions ==
    {Text1(2, 1, {[at |-> 1, to |-> 0]}, {Wants(0, 1), Wants(3, 1)}, {}, "nowhere"),
     Text1(-1, -1, {[at |-> 2, to |-> 1]}, {Wants(1, 0), Wants(2, 1)}, EverySecond, "nowhere"),
     Text1(1, 1, {}, {Wants(1, 0)}, EverySecond, "record"),
     Text1(1, 1, {}, {}, {}, "drive"),
     Text1(1, 1, {}, {}, {}, "parse")}
MCUntils == {Never, 3}
MCMgArgs == {Never}

-----------------------------------------------------------------------------
(* A meter that may come back as an inverter, sampled and recorded; and a     *)
(* battery with two requests on their way.                                  *)
VARIABLES comps, rows, sinks, dir, interp, passes, pass, rings, logs, asked, open, got, turns,
          downloads, listed, spans, recording, clashed, forgotten
pvars == <<comps, rows, sinks, dir, interp, passes, pass, rings, logs, asked, open, got, turns,
           downloads, listed, spans, recording, clashed, forgotten>>

Past == INSTANCE Recording WITH
    Ids <- {1}, Kinds <- {"meter", "inverter"}, Dirs <- {"csvs"}, Capacity <- 1, HeldRows <- 1,
    MaxPasses <- 2, MaxActs <- 3, MaxRequests <- 0, MaxDownloads <- 1,
    files <- rows, requests <- asked, acts <- turns
Requested == INSTANCE Recording WITH
    Ids <- {1}, Kinds <- {"battery"}, Dirs <- {"csvs"}, Capacity <- 2, HeldRows <- 2,
    MaxPasses <- 1, MaxActs <- 2, MaxRequests <- 2, MaxDownloads <- 0,
    files <- rows, requests <- asked, acts <- turns

-----------------------------------------------------------------------------
(* Boilers made well and badly, started below, at and above their target.    *)
Made(target, max, initial, lower) ==
    [target |-> target, max |-> max, initial |-> initial, capacity |-> 1, perKg |-> 1,
     lower |-> lower, upper |-> 4]
MCUsual == Made(2, 3, Absent, 0)
MCConfigs ==
    {Made(2, 4, 1, 0), Made(3, 5, 4, 2), Made(Odd, Odd, Odd, -2),
     [Made(0, 1, 9, 0) EXCEPT !.capacity = 2, !.perKg = 0, !.upper = -1]}

-----------------------------------------------------------------------------
(* A call that sets every key, ones that set one, and one that would set a    *)
(* rate of nothing and a sigma below 0.                                      *)
MCCalls ==
    {[nominal |-> 2, rate |-> Harsh, sigma |-> 0], [nominal |-> 1],
     [rate |-> 0, sigma |-> -1], [nominal |-> Astray]}

-----------------------------------------------------------------------------
otherVars == <<boilerVars, frequencyVars>>
partVars == <<part, vars, fvars, tvars, runsVars, pvars, otherVars>>

PartsInit ==
    /\ part \in Parts
    /\ Init /\ (part = "axis" \/ physical = [k \in Key |-> MCPower])
    /\ Files!Init
    /\ part = "files" \/ disk = [f \in {managedFile, writtenFile} |-> CHOOSE t \in MCVersions[f] : TRUE]
    /\ Site!Init /\ (part = "topology" \/ connections = Twice)
    /\ RunsInit /\ (part = "runs" \/ (client.at = "boot" /\ ~server.defs[1].known))
    /\ BoilerInit /\ (part = "boiler" \/ cfg.target = 3)
    /\ Past!Init /\ FrequencyInit

PartsNext ==
    /\ UNCHANGED part
    /\ \/ part = "axis" /\ Next /\ UNCHANGED <<fvars, tvars, runsVars, pvars, otherVars>>
       \/ part = "files" /\ Files!Next /\ UNCHANGED <<vars, tvars, runsVars, pvars, otherVars>>
       \/ part = "topology" /\ Site!Next /\ UNCHANGED <<vars, fvars, runsVars, pvars, otherVars>>
       \/ part = "runs" /\ RunsNext /\ UNCHANGED <<vars, fvars, tvars, pvars, otherVars>>
       \/ part = "past" /\ Past!Next /\ UNCHANGED <<vars, fvars, tvars, runsVars, otherVars>>
       \/ part = "requests" /\ Requested!Next /\ UNCHANGED <<vars, fvars, tvars, runsVars, otherVars>>
       \/ part = "boiler" /\ BoilerNext
          /\ UNCHANGED <<vars, fvars, tvars, runsVars, pvars, frequencyVars>>
       \/ part = "frequency" /\ FrequencyNext
          /\ UNCHANGED <<vars, fvars, tvars, runsVars, pvars, boilerVars>>

PartsSpec == PartsInit /\ [][PartsNext]_partVars

-----------------------------------------------------------------------------
\* A form acts on the microgrid it was written for, an evaluation changes one
\* file's microgrids, and a copy is its original under other ids or leaves
\* nothing (boot.rs:584-775, 1010-1085, overrides.rs:43-68).
FilesActAtHome == Files!FormsStayHome /\ Files!OthersAreLeftAlone /\ Files!CopiesAreWhole

\* Every watt is counted once, whatever is connected twice, hidden or driven,
\* a reading nothing straddled is true, and a listing tells one story
\* (mod.rs:694-836, meter.rs:138-160, topology.rs:56-95).
TopologyAddsUp ==
    part = "topology" =>
        Site!NothingCountedTwice /\ Site!ReadingsAreTrue /\ Site!ListingsAgree

\* A recording's files hold every pass and request of their component once,
\* and a window is what was kept from its first moment on
\* (scenario_csv.rs, microgrid_site/scenarios.rs:160-237, history.rs:155-205,
\* setpoints.rs:88-125).
PastIsKept ==
    /\ part = "past" => Past!RecordingsAreWhole /\ Past!WindowsAreTrue
    /\ part = "requests" => Requested!RecordingsAreWhole /\ Requested!WindowsAreTrue
=============================================================================
