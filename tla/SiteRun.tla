------------------------------ MODULE SiteRun -------------------------------
(***************************************************************************)
(* A site reset and rebuild, one lock at a time, against the requests and   *)
(* telemetry streams that run beside it (microgrid_site/mod.rs, server.rs). *)
(* One component id; a component is named by the run it was registered in.  *)
(* The thread with the interpreter lock does the resetting and the          *)
(* registering, so they never overlap each other.                           *)
(***************************************************************************)
EXTENDS Integers

CONSTANTS
    Nil,       \* nothing (model value)
    Client,     \* requests in flight
    Stream,     \* telemetry streams
    MaxRuns,    \* resets, a bound of the model
    MaxCancels  \* (cancel-all-streams), a bound of the model

ASSUME RunAssumption ==
    /\ MaxRuns \in Nat
    /\ MaxCancels \in Nat
    /\ Nil \notin Nat /\ Nil \notin Client

VARIABLES
    phase,      \* what the thread with the interpreter lock is at
    generation, \* run_generation
    epoch,      \* stream_cancel_epoch
    cancels,    \* how many (cancel-all-streams) there have been
    listed,     \* the component the registry hands out
    axis,       \* the component the gateway made the axis for
    command,    \* the command held on that axis
    lock,       \* who holds the gateway lock across the steps of a request
    request,    \* each request's place and what it has read
    stream      \* each stream's place and what it has read

lisp == <<phase, cancels>>
site == <<generation, epoch, listed>>
gateway == <<axis, command, lock>>
vars == <<lisp, site, gateway, request, stream>>

Run == 0..MaxRuns

Epoch == 0..(MaxRuns + MaxCancels)

Phases == {"empty", "registering", "built", "bumped", "cancelled", "unlisted"}

Request == [at : {"idle", "looking", "gated", "checked", "applying"},
            generation : Run,
            found : Run \cup {Nil}]

Telemetry == [at : {"idle", "spawned", "streaming"},
              found : Run \cup {Nil}, epoch : Epoch, run : Run]

NoRequest == [at |-> "idle", generation |-> 0, found |-> Nil]
NoStream == [at |-> "idle", found |-> Nil, epoch |-> 0, run |-> 0]

TypeOK ==
    /\ phase \in Phases
    /\ generation \in Run
    /\ cancels \in 0..MaxCancels
    /\ epoch \in Epoch
    /\ listed \in Run \cup {Nil}
    /\ axis \in Run \cup {Nil}
    /\ command \in [found : Run, generation : Run] \cup {Nil}
    /\ lock \in Client \cup {Nil}
    /\ request \in [Client -> Request]
    /\ stream \in [Stream -> Telemetry]

Init ==
    /\ phase = "empty" /\ generation = 0 /\ epoch = 0 /\ cancels = 0
    /\ listed = Nil /\ axis = Nil /\ command = Nil /\ lock = Nil
    /\ request = [c \in Client |-> NoRequest]
    /\ stream = [s \in Stream |-> NoStream]

-----------------------------------------------------------------------------
(* Reset and rebuild *)

BumpGeneration ==
    /\ phase \in {"built", "empty"}
    /\ generation < MaxRuns
    /\ phase' = "bumped"
    /\ generation' = generation + 1
    /\ UNCHANGED <<cancels, epoch, listed, gateway, request, stream>>

\* A reset that leaves the streams to notice by themselves.
CancelNoStream ==
    /\ phase = "bumped"
    /\ phase' = "cancelled"
    /\ UNCHANGED <<cancels, site, gateway, request, stream>>

CancelStreams ==
    /\ phase = "bumped"
    /\ phase' = "cancelled"
    /\ epoch' = epoch + 1
    /\ UNCHANGED <<cancels, generation, listed, gateway, request, stream>>

ClearById ==
    /\ phase = "cancelled"
    /\ phase' = "unlisted"
    /\ listed' = Nil
    /\ UNCHANGED <<cancels, generation, epoch, gateway, request, stream>>

\* A clear that leaves the commands to the next registration.
ClearAxes ==
    /\ phase = "unlisted" /\ lock = Nil
    /\ phase' = "empty"
    /\ axis' = Nil
    /\ UNCHANGED <<cancels, site, command, lock, request, stream>>

ClearGateway ==
    /\ phase = "unlisted" /\ lock = Nil
    /\ phase' = "empty"
    /\ axis' = Nil /\ command' = Nil
    /\ UNCHANGED <<cancels, site, lock, request, stream>>

OnRegister ==
    /\ phase = "empty" /\ lock = Nil
    /\ phase' = "registering"
    /\ axis' = generation /\ command' = Nil
    /\ UNCHANGED <<cancels, site, lock, request, stream>>

InsertById ==
    /\ phase = "registering"
    /\ phase' = "built"
    /\ listed' = generation
    /\ UNCHANGED <<cancels, generation, epoch, gateway, request, stream>>

CancelAllStreams ==
    /\ phase = "built"
    /\ cancels < MaxCancels
    /\ cancels' = cancels + 1
    /\ epoch' = epoch + 1
    /\ UNCHANGED <<phase, generation, listed, gateway, request, stream>>

-----------------------------------------------------------------------------
(* A SetElectricalComponentPower or AugmentElectricalComponentBounds request *)

Ask(c, r) == request' = [request EXCEPT ![c] = r]

\* A lookup that goes on with nothing found.
LookupUnguarded(c) ==
    /\ request[c].at = "looking"
    /\ Ask(c, [at |-> "gated", generation |-> request[c].generation,
               found |-> listed])
    /\ UNCHANGED <<lisp, site, gateway, stream>>

\* The run it belongs to, before the component is looked up.
Capture(c) ==
    /\ request[c].at = "idle"
    /\ Ask(c, [at |-> "looking", generation |-> generation, found |-> Nil])
    /\ UNCHANGED <<lisp, site, gateway, stream>>

Lookup(c) ==
    /\ request[c].at = "looking"
    /\ Ask(c, IF listed = Nil THEN NoRequest
              ELSE [at |-> "gated", generation |-> request[c].generation,
                    found |-> listed])
    /\ UNCHANGED <<lisp, site, gateway, stream>>

\* The fault gate, or a client that hangs up while it waits there.
Refuse(c) ==
    /\ request[c].at = "gated"
    /\ Ask(c, NoRequest)
    /\ UNCHANGED <<lisp, site, gateway, stream>>

\* A set_power that never compares the generations.
TakeLockUnchecked(c) ==
    /\ request[c].at = "gated" /\ lock = Nil
    /\ Ask(c, [request[c] EXCEPT !.at = "checked"])
    /\ lock' = c
    /\ UNCHANGED <<lisp, site, axis, command, stream>>

\* The generation is compared under the gateway lock; one that has moved is
\* refused and the lock released at once.
TakeLock(c) ==
    /\ request[c].at = "gated" /\ lock = Nil
    /\ IF request[c].generation = generation
       THEN Ask(c, [request[c] EXCEPT !.at = "checked"]) /\ lock' = c
       ELSE Ask(c, NoRequest) /\ UNCHANGED lock
    /\ UNCHANGED <<lisp, site, axis, command, stream>>

\* The component is looked up again under the lock.
FindAgain(c) ==
    /\ request[c].at = "checked"
    /\ IF listed = Nil
       THEN Ask(c, NoRequest) /\ lock' = Nil
       ELSE Ask(c, [request[c] EXCEPT !.at = "applying"]) /\ UNCHANGED lock
    /\ UNCHANGED <<lisp, site, axis, command, stream>>

Apply(c) ==
    /\ request[c].at = "applying"
    /\ command' = IF axis = Nil THEN command
                  ELSE [found |-> request[c].found,
                        generation |-> request[c].generation]
    /\ Ask(c, NoRequest)
    /\ lock' = Nil
    /\ UNCHANGED <<lisp, site, axis, stream>>

-----------------------------------------------------------------------------
(* A telemetry stream *)

Send(s, r) == stream' = [stream EXCEPT ![s] = r]

Open(s) ==
    /\ stream[s].at = "idle" /\ listed # Nil
    /\ Send(s, [NoStream EXCEPT !.at = "spawned", !.found = listed])
    /\ UNCHANGED <<lisp, site, gateway, request>>

\* The task captures the epoch when it starts to run; `run` records the run
\* it does so in.
StartTask(s) ==
    /\ stream[s].at = "spawned"
    /\ Send(s, [stream[s] EXCEPT !.at = "streaming", !.epoch = epoch,
                                 !.run = generation])
    /\ UNCHANGED <<lisp, site, gateway, request>>

\* An iteration that finds the epoch moved ends the stream with CANCELLED;
\* any other emits the component it holds.
Iterate(s) ==
    /\ stream[s].at = "streaming"
    /\ Send(s, IF stream[s].epoch # epoch THEN NoStream ELSE stream[s])
    /\ UNCHANGED <<lisp, site, gateway, request>>

Disconnect(s) ==
    /\ stream[s].at = "streaming"
    /\ Send(s, NoStream)
    /\ UNCHANGED <<lisp, site, gateway, request>>

-----------------------------------------------------------------------------
Reset == BumpGeneration \/ CancelStreams \/ ClearById \/ ClearGateway

Register == OnRegister \/ InsertById

Underway(c) == TakeLock(c) \/ FindAgain(c) \/ Apply(c)

Next ==
    \/ Reset \/ Register \/ CancelAllStreams
    \/ \E c \in Client : Capture(c) \/ Lookup(c) \/ Refuse(c) \/ Underway(c)
    \/ \E s \in Stream : Open(s) \/ StartTask(s) \/ Iterate(s) \/ Disconnect(s)

Spec == Init /\ [][Next]_vars

\* A reset that has begun goes on to cancel the streams, and a started stream
\* task keeps iterating: its client reads what it is sent.
Fairness ==
    /\ WF_vars(CancelStreams)
    /\ \A s \in Stream : WF_vars(Iterate(s))

LiveSpec == Spec /\ Fairness

-----------------------------------------------------------------------------
(***************************************************************************)
(* Outside a reset the gateway holds commands of the current run alone,     *)
(* though a request may have passed the generation check just before the    *)
(* bump and apply only after the registry was emptied.                      *)
(***************************************************************************)
CommandsOfThisRun ==
    phase \in {"empty", "registering", "built"} /\ command # Nil =>
        command.generation = generation

(***************************************************************************)
(* The one way to command a component other than the one that was looked    *)
(* up: between the bump and the clearing of the registry, the new           *)
(* generation goes with the old component.                                  *)
(***************************************************************************)
StrayOnlyFromMidReset ==
    command # Nil /\ axis # Nil =>
        \/ command.found = axis
        \/ command.found < command.generation

\* A stream started in a run that has been reset since.
Outrun(s) == stream[s].at = "streaming" /\ stream[s].run < generation

(***************************************************************************)
(* A stream that was running before a reset or a (cancel-all-streams) ends, *)
(* unless its client hangs up first: it does not emit a component of an     *)
(* earlier run forever.                                                     *)
(***************************************************************************)
OutrunStreamsEnd == \A s \in Stream : Outrun(s) ~> ~Outrun(s)

(***************************************************************************)
(* The inductive invariant behind the first two.  Place says which run each *)
(* table is of while the tables are cleared and refilled one by one; Locked *)
(* says that whoever holds the gateway lock keeps a reset from finishing.   *)
(***************************************************************************)
Resetting == phase \in {"bumped", "cancelled", "unlisted"}

Cancelled == IF phase = "bumped" THEN generation - 1 ELSE generation

Place ==
    /\ epoch = cancels + Cancelled
    /\ phase = "built" => listed = generation
    /\ phase \in {"registering", "built"} => axis = generation
    /\ phase \in {"unlisted", "empty", "registering"} => listed = Nil
    /\ phase = "empty" => axis = Nil
    /\ Resetting => /\ generation > 0
                    /\ listed \in {Nil, generation - 1}
                    /\ axis \in {Nil, generation - 1}

Found ==
    \A c \in Client :
        /\ request[c].at \in {"gated", "checked", "applying"} =>
               request[c].found # Nil
        /\ request[c].found # Nil =>
               /\ request[c].found <= generation
               /\ phase # "built" => request[c].found < generation

Locked ==
    \A c \in Client : request[c].at \in {"checked", "applying"} =>
        /\ lock = c
        /\ request[c].found <= request[c].generation
        /\ \/ request[c].generation = generation
           \/ Resetting /\ request[c].generation = generation - 1

IInv == TypeOK /\ Place /\ Found /\ Locked /\ CommandsOfThisRun /\ StrayOnlyFromMidReset

(***************************************************************************)
(* reset(): an active stream's task does not keep emitting the last         *)
(* snapshot of a cleared component; it is cancelled.                        *)
(***************************************************************************)
NoStreamOfAnEarlierRun ==
    phase = "built" =>
        \A s \in Stream : stream[s].at = "streaming" /\ stream[s].epoch = epoch =>
            stream[s].found = listed
=============================================================================
