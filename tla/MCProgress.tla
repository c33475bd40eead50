----------------------------- MODULE MCProgress -----------------------------
(***************************************************************************)
(* Five parts that have liveness properties and share no state, side by     *)
(* side: a behaviour picks one of them at its start and is a behaviour of   *)
(* that part alone.  The run of a site is MCSiteRun's.                      *)
(***************************************************************************)
EXTENDS MCSiteRun, DispatchStream, DelayOps, BandSets, TLC

CONSTANTS inv1, inv2, bat1, bat2, stream1

VARIABLE part

Parts == {"run", "device", "delay", "dc", "dispatch"}

-----------------------------------------------------------------------------
(* The device's line: four ticks of delay in two slots, so that a command   *)
(* can merge, follow at once or follow after a gap; the band cuts one of    *)
(* the two commands short.                                                  *)
VARIABLES pending, line, delayed, output, stepped, newest
avars == <<pending, line, delayed, output, stepped, newest>>

MCValue == {1, 2}
MCBands == {0..2, {0, 1}}
MCMinPower == -4

A == INSTANCE DeviceAxis WITH MaxLine <- 2, Bands <- MCBands, Initial <- 2
ASSUME SlotsDivide == A!SlotAssumption

-----------------------------------------------------------------------------
(* The gateway's line: three distinguishable commands, a delay of two ticks *)
(* and a clock that steps back by four ticks, at once or a little at a time.*)
VARIABLES cline, cstepped, cnewest
cvars == <<cline, cstepped, cnewest>>

C == INSTANCE CommandDelay WITH
    Delay <- 2, Back <- 4, Value <- {0, 1, 2},
    line <- cline, stepped <- cstepped, newest <- cnewest

-----------------------------------------------------------------------------
(* The DC bus: an inverter over both batteries, one of which another shares *)
(* that has a gap in its envelope; a battery with room, one near the end of *)
(* its window and a full one.                                               *)
VARIABLES healthy, level, target, actual, at, todo, pushes, settled, report, moves
dvars == <<healthy, level, target, actual, at, todo, pushes, settled, report, moves>>

Mid  == [room |-> <<-4, 4>>, hard |-> <<-4, 4>>]
High == [room |-> <<-4, 1>>, hard |-> <<-4, 4>>]
Over == [room |-> <<-4, 0>>, hard |-> <<-4, 0>>]

D == INSTANCE DcBus WITH
    Inverters <- {inv1, inv2}, Batteries <- {bat1, bat2},
    Children <- (inv1 :> {bat1, bat2} @@ inv2 :> {bat2}),
    Base <- (inv1 :> -4..4 @@ inv2 :> {-4, -3, 0, 2, 3, 4}),
    Commands <- {-4, 4}, Rate <- 2, Levels <- {Mid, High, Over}, Full <- Mid,
    Fallible <- {bat1}, Parts <- 2, MaxChanges <- 3,
    pending <- pushes, changes <- moves

-----------------------------------------------------------------------------
(* Dispatches: two microgrids, one watched by a stream two events behind at *)
(* most; two dispatches; updates that set a field, clear one, and name one  *)
(* that is not in their mask.                                               *)
MCUpdates ==
    {[fields |-> {"duration"}, update |-> [f \in {"duration"} |-> 1]],
     [fields |-> {"duration"}, update |-> <<>>],
     [fields |-> {}, update |-> [f \in {"recurrence"} |-> 1]]}

MCWatched == stream1 :> "here"
MCNewData == {"start" :> 1 @@ "duration" :> 0 @@ "active" :> 0 @@ "recurrence" :> 0}

-----------------------------------------------------------------------------
partVars == <<part, vars, avars, cvars, dvars, dispatchVars>>

PartsInit == part \in Parts /\ Init /\ A!Init /\ C!DelayInit /\ D!Init /\ DispatchInit

PartsNext ==
    /\ UNCHANGED part
    /\ \/ part = "run" /\ Next /\ UNCHANGED <<avars, cvars, dvars, dispatchVars>>
       \/ part = "device" /\ A!Next /\ UNCHANGED <<vars, cvars, dvars, dispatchVars>>
       \/ part = "delay" /\ C!DelayNext /\ UNCHANGED <<vars, avars, dvars, dispatchVars>>
       \/ part = "dc" /\ D!Next /\ UNCHANGED <<vars, avars, cvars, dispatchVars>>
       \/ part = "dispatch" /\ DispatchNext /\ UNCHANGED <<vars, avars, cvars, dvars>>

\* The fairness each part states, for the part that was picked.
PartsFairness ==
    /\ WF_vars(part = "run" /\ CancelStreams)
    /\ \A s \in Stream : WF_vars(part = "run" /\ Iterate(s))
    /\ WF_avars(part = "device" /\ \E band \in MCBands : A!Tick(band))
    /\ WF_avars(part = "device" /\ A!Clock)
    /\ WF_cvars(part = "delay" /\ C!PollTick)
    /\ WF_cvars(part = "delay" /\ C!ClockMoves)
    /\ WF_dvars(part = "dc" /\ D!Tick)
    /\ WF_dispatchVars(part = "dispatch" /\ Task(stream1))
    /\ WF_dispatchVars(part = "dispatch" /\ ClientReads(stream1))

PartsSpec == PartsInit /\ [][PartsNext]_partVars /\ PartsFairness

-----------------------------------------------------------------------------
(* The properties of the parts; those of the run are SiteRun's own, and two *)
(* of the dispatches' are DispatchStream's.                                 *)

\* Both delay lines implement DelayPromise, the gateway's without letting a
\* burst out at once, the device's without its backstop (ramp.rs,
\* device_axis.rs), and neither is starved by a controller that keeps sending
\* (ramp.rs:100-109).
LinesDeliver ==
    /\ C!KeepsPromise /\ C!OneCommandPerPoll /\ C!NoStarvation
    /\ A!KeepsPromise /\ []A!BackstopOutOfReach /\ A!NoStarvation

\* A step's outputs fit the room of every battery (window.rs:68-130), and
\* inverters come to report what the batteries move (dc_storage.rs:17-23).
PushesFitAndSettle == D!RoomIsKept /\ D!ReportsSettle

\* Pages handed out one after another cover the listing, a client whose stream
\* lost events is told, and the task of a client that left ends
\* (dispatch_server.rs:507, 278, 247).
ClientsAreServed == []PagesCover /\ LossIsTold /\ TasksAreReaped
=============================================================================
