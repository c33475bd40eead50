---------------------------- MODULE StreamProofs ----------------------------
(***************************************************************************)
(* Theorems of the two parts of a site that serve streams while requests     *)
(* change what they show: SiteRun, for any number of requests, streams and   *)
(* resets, and DispatchStream, for any number of microgrids, dispatches and  *)
(* streams.  Both live in one module; they share no variable.                *)
(***************************************************************************)
EXTENDS SiteRun, DispatchStream, FiniteSetTheorems, SequenceTheorems,
        WellFoundedInduction, TLAPS

\* A request on its way.
Asking(c) == Capture(c) \/ Lookup(c) \/ Refuse(c) \/ Underway(c)

\* What touches neither the registry, the gateway nor a request.
Streaming(s) == Open(s) \/ StartTask(s) \/ Iterate(s) \/ Disconnect(s)

-----------------------------------------------------------------------------
(* Requests *)

\* An idle request is well-typed and has found nothing.
LEMMA NoRequestType == NoRequest \in Request /\ NoRequest.found = Nil
  BY RunAssumption DEF NoRequest, Request, Run

\* Before the lock a request can be anywhere in any run.
LEMMA UnlockedKeeps ==
    ASSUME IInv, NEW c \in Client, Capture(c) \/ Lookup(c) \/ Refuse(c)
    PROVE  IInv'
  <1>1. TypeOK /\ UNCHANGED <<lisp, site, gateway, stream>>
    BY DEF IInv, Capture, Lookup, Refuse
  <1>2. \E r \in Request :
            /\ request' = [request EXCEPT ![c] = r]
            /\ r.at \in {"idle", "looking", "gated"}
            /\ r.found \in {Nil, listed}
            /\ r.at = "gated" => r.found # Nil
    <2>1. CASE Capture(c)
      <3> DEFINE r == [at |-> "looking", generation |-> generation, found |-> Nil]
      <3>1. r \in Request /\ r.at = "looking" /\ r.found = Nil
        BY <1>1 DEF TypeOK, Request
      <3>2. request' = [request EXCEPT ![c] = r]
        BY <2>1 DEF Capture, Ask
      <3> QED BY <3>1, <3>2
    <2>2. CASE Lookup(c) /\ listed = Nil
      BY <2>2, NoRequestType DEF Lookup, Ask, NoRequest
    <2>4. CASE Lookup(c) /\ listed # Nil
      <3> DEFINE r == [at |-> "gated", generation |-> request[c].generation,
                       found |-> listed]
      <3>1. r \in Request /\ r.at = "gated" /\ r.found = listed
        BY <1>1 DEF TypeOK, Request
      <3>2. request' = [request EXCEPT ![c] = r]
        BY <2>4 DEF Lookup, Ask
      <3> QED BY <2>4, <3>1, <3>2
    <2>3. CASE Refuse(c)
      BY <2>3, NoRequestType DEF Refuse, Ask, NoRequest
    <2> QED BY <2>1, <2>2, <2>3, <2>4
  <1>a. PICK r \in Request :
            /\ request' = [request EXCEPT ![c] = r]
            /\ r.at \in {"idle", "looking", "gated"}
            /\ r.found \in {Nil, listed}
            /\ r.at = "gated" => r.found # Nil
    BY <1>2
  <1>3. TypeOK'
    BY <1>1, <1>a DEF TypeOK, lisp, site, gateway
  <1>4. Place' /\ CommandsOfThisRun' /\ StrayOnlyFromMidReset'
    BY <1>1 DEF IInv, Place, Resetting, Cancelled, CommandsOfThisRun,
                StrayOnlyFromMidReset, lisp, site, gateway
  <1>5. listed # Nil => listed <= generation /\ (phase # "built" => listed < generation)
    BY <1>1 DEF IInv, Place, Resetting, TypeOK, Phases, Run
  <1>6. Found'
    BY <1>1, <1>a, <1>5 DEF IInv, Found, TypeOK, lisp, site
  <1>7. Locked'
    BY <1>1, <1>a DEF IInv, Locked, Resetting, TypeOK, lisp, site, gateway
  <1> QED BY <1>3, <1>4, <1>6, <1>7 DEF IInv

\* Whoever takes the lock has the current generation and found no later run.
LEMMA TakeLockKeeps ==
    ASSUME IInv, NEW c \in Client, TakeLock(c)
    PROVE  IInv'
  <1>1. /\ TypeOK /\ UNCHANGED <<lisp, site, axis, command, stream>>
        /\ lock = Nil /\ request[c].at = "gated"
    BY DEF IInv, TakeLock
  <1>2. CASE request[c].generation = generation
    <2>1. /\ request' = [request EXCEPT ![c] = [@ EXCEPT !.at = "checked"]]
          /\ lock' = c
      BY <1>2 DEF TakeLock, Ask
    <2>2. TypeOK'
      BY <1>1, <2>1 DEF TypeOK, Request, lisp, site
    <2>3. Found'
      BY <1>1, <2>1 DEF IInv, Found, TypeOK, Request, lisp, site
    <2>4. request[c].found # Nil /\ request[c].found <= generation
      BY DEF IInv, Found, TakeLock
    <2>5. \A d \in Client : request[d].at \notin {"checked", "applying"}
      BY <1>1, RunAssumption DEF IInv, Locked
    <2>6. Locked'
      BY <1>1, <1>2, <2>1, <2>4, <2>5 DEF Locked, TypeOK, Request, lisp, site
    <2> QED
      BY <1>1, <2>2, <2>3, <2>6
      DEF IInv, Place, Resetting, Cancelled, CommandsOfThisRun,
          StrayOnlyFromMidReset, lisp, site
  <1>3. CASE request[c].generation # generation
    <2>1. request' = [request EXCEPT ![c] = NoRequest] /\ lock' = lock
      BY <1>3 DEF TakeLock, Ask
    <2>2. TypeOK' /\ Found' /\ Locked'
      BY <1>1, <2>1, NoRequestType
      DEF IInv, TypeOK, Found, Locked, Resetting, NoRequest, lisp, site
    <2> QED
      BY <1>1, <2>2
      DEF IInv, Place, Resetting, Cancelled, CommandsOfThisRun,
          StrayOnlyFromMidReset, lisp, site
  <1> QED BY <1>2, <1>3

\* Looking the component up again only ever gives the request up.
LEMMA FindAgainKeeps ==
    ASSUME IInv, NEW c \in Client, FindAgain(c)
    PROVE  IInv'
  <1>1. /\ TypeOK /\ UNCHANGED <<lisp, site, axis, command, stream>>
        /\ request[c].at = "checked" /\ lock = c
    BY DEF IInv, FindAgain, Locked
  <1>2. /\ lock' \in {Nil, c} /\ \A d \in Client \ {c} : request[d].at \notin {"checked", "applying"}
    BY <1>1 DEF IInv, FindAgain, Locked
  <1>3. CASE listed = Nil
    <2>1. request' = [request EXCEPT ![c] = NoRequest] /\ lock' = Nil
      BY <1>3 DEF FindAgain, Ask
    <2>2. TypeOK' /\ Found' /\ Locked'
      BY <1>1, <1>2, <2>1, NoRequestType
      DEF IInv, TypeOK, Found, Locked, NoRequest, lisp, site
    <2> QED
      BY <1>1, <2>2
      DEF IInv, Place, Resetting, Cancelled, CommandsOfThisRun,
          StrayOnlyFromMidReset, lisp, site
  <1>4. CASE listed # Nil
    <2>1. /\ request' = [request EXCEPT ![c] = [@ EXCEPT !.at = "applying"]]
          /\ lock' = lock
      BY <1>4 DEF FindAgain, Ask
    <2>2. TypeOK'
      BY <1>1, <2>1 DEF TypeOK, Request, lisp, site
    <2>3. Found'
      BY <1>1, <2>1 DEF IInv, Found, TypeOK, Request, lisp, site
    <2>4. Locked'
      BY <1>1, <2>1 DEF IInv, Locked, Resetting, TypeOK, Request, lisp, site
    <2> QED
      BY <1>1, <2>2, <2>3, <2>4
      DEF IInv, Place, Resetting, Cancelled, CommandsOfThisRun,
          StrayOnlyFromMidReset, lisp, site
  <1> QED BY <1>3, <1>4

\* What is applied was found in this run, or in the middle of a reset.
LEMMA ApplyKeeps ==
    ASSUME IInv, NEW c \in Client, Apply(c)
    PROVE  IInv'
  <1>1. /\ TypeOK /\ UNCHANGED <<lisp, site, axis, stream>>
        /\ request[c].at = "applying" /\ lock = c
        /\ request' = [request EXCEPT ![c] = NoRequest] /\ lock' = Nil
    BY DEF IInv, Apply, Locked, Ask
  <1>2. /\ request[c].found \in Run /\ request[c].generation \in Run
        /\ request[c].found <= request[c].generation
        /\ phase # "built" => request[c].found < generation
    BY <1>1 DEF IInv, TypeOK, Request, Found, Locked
  <1>3. \A d \in Client \ {c} : request[d].at \notin {"checked", "applying"}
    BY <1>1 DEF IInv, Locked
  <1>4. TypeOK'
    BY <1>1, <1>2, NoRequestType DEF Apply, TypeOK, lisp, site
  <1>5. Found' /\ Locked'
    BY <1>1, <1>3, NoRequestType
    DEF IInv, TypeOK, Found, Locked, NoRequest, lisp, site
  <1>6. Place'
    BY <1>1 DEF IInv, Place, Resetting, Cancelled, lisp, site
  <1>7. CASE axis = Nil
    BY <1>1, <1>4, <1>5, <1>6, <1>7
    DEF IInv, Apply, CommandsOfThisRun, StrayOnlyFromMidReset, lisp, site
  <1>8. CASE axis # Nil
    <2>1. command' = [found |-> request[c].found,
                      generation |-> request[c].generation]
      BY <1>8 DEF Apply
    <2>2. CommandsOfThisRun'
      BY <1>1, <2>1 DEF IInv, Locked, Resetting, CommandsOfThisRun, lisp, site
    <2>3. \/ request[c].generation = generation
          \/ Resetting /\ request[c].generation = generation - 1
      BY <1>1 DEF IInv, Locked
    <2>4. request[c].found = axis \/ request[c].found < request[c].generation
      BY <1>1, <1>2, <1>8, <2>3
      DEF IInv, Place, Resetting, TypeOK, Phases, Run
    <2>5. StrayOnlyFromMidReset'
      BY <1>1, <2>1, <2>4 DEF StrayOnlyFromMidReset
    <2> QED BY <1>4, <1>5, <1>6, <2>2, <2>5 DEF IInv
  <1> QED BY <1>7, <1>8

\* No step of a request breaks the invariant.
LEMMA AskingKeeps ==
    ASSUME IInv, NEW c \in Client, Asking(c)
    PROVE  IInv'
  BY UnlockedKeeps, TakeLockKeeps, FindAgainKeeps, ApplyKeeps DEF Asking, Underway

-----------------------------------------------------------------------------
(* Streams *)

\* No stream and no (cancel-all-streams) touches what the invariant is about.
LEMMA StreamingKeeps ==
    ASSUME IInv,
           CancelAllStreams \/ UNCHANGED vars \/ \E s \in Stream : Streaming(s)
    PROVE  IInv'
  <1>1. TypeOK /\ UNCHANGED <<phase, generation, listed, gateway, request>>
    BY DEF IInv, CancelAllStreams, Streaming, Open, StartTask, Iterate,
           Disconnect, vars, lisp, site
  <1>2. epoch' = cancels' + Cancelled /\ cancels' \in 0..MaxCancels
    <2>1. epoch = cancels + Cancelled /\ cancels \in 0..MaxCancels
      BY DEF IInv, TypeOK, Place
    <2>2. cancels \in Nat /\ epoch \in Nat /\ Cancelled \in Int
      BY RunAssumption DEF IInv, TypeOK, Cancelled, Epoch, Run
    <2>3. CASE CancelAllStreams
      BY <2>1, <2>2, <2>3, RunAssumption DEF CancelAllStreams
    <2>4. CASE ~CancelAllStreams
      <3>1. UNCHANGED <<epoch, cancels>>
        BY <2>4 DEF Streaming, Open, StartTask, Iterate, Disconnect, vars, lisp, site
      <3> QED BY <2>1, <3>1
    <2> QED BY <2>3, <2>4
  <1>3. epoch' \in Epoch
    BY <1>1, <1>2, RunAssumption DEF IInv, Place, TypeOK, Cancelled, Resetting, Epoch, Run
  <1>4. stream' \in [Stream -> Telemetry]
    <2>1. NoStream \in Telemetry
      BY RunAssumption DEF NoStream, Telemetry, Run, Epoch
    <2>2. CASE \E s \in Stream : Open(s) \/ StartTask(s)
      <3>1. PICK s \in Stream : Open(s) \/ StartTask(s)
        BY <2>2
      <3>2. PICK r \in Telemetry : stream' = [stream EXCEPT ![s] = r]
        <4>1. CASE Open(s)
          BY <1>1, <2>1, <4>1 DEF Open, Send, TypeOK, Telemetry
        <4>2. CASE StartTask(s)
          BY <1>1, <4>2 DEF StartTask, Send, TypeOK, Telemetry
        <4> QED BY <3>1, <4>1, <4>2
      <3> QED BY <1>1, <3>2 DEF TypeOK
    <2>3. CASE \E s \in Stream : Iterate(s) \/ Disconnect(s)
      BY <1>1, <2>1, <2>3 DEF Iterate, Disconnect, Send, TypeOK
    <2>4. CASE CancelAllStreams \/ UNCHANGED vars
      BY <1>1, <2>4 DEF CancelAllStreams, vars, TypeOK
    <2> QED BY <2>2, <2>3, <2>4 DEF Streaming
  <1>5. TypeOK'
    BY <1>1, <1>2, <1>3, <1>4 DEF TypeOK, gateway
  <1> QED
    BY <1>1, <1>2, <1>5
    DEF IInv, Place, Found, Locked, Resetting, Cancelled, CommandsOfThisRun,
        StrayOnlyFromMidReset, gateway

-----------------------------------------------------------------------------
(* Reset and rebuild *)

\* The bump makes every command and every found component one of an earlier
\* run; the gateway is not consulted until it has been cleared.
LEMMA BumpKeeps ==
    ASSUME IInv, BumpGeneration
    PROVE  IInv'
  <1>1. /\ TypeOK /\ UNCHANGED <<cancels, epoch, listed, gateway, request, stream>>
        /\ phase \in {"built", "empty"} /\ phase' = "bumped"
        /\ generation' = generation + 1 /\ generation < MaxRuns
    BY DEF IInv, BumpGeneration
  <1>2. TypeOK'
    BY <1>1, RunAssumption DEF TypeOK, Phases, Run, gateway
  <1>3. Place'
    BY <1>1 DEF IInv, Place, Resetting, Cancelled, TypeOK, Run, gateway
  <1>4. Found'
    BY <1>1 DEF IInv, Found, TypeOK, Run, Request
  <1>5. Locked'
    BY <1>1 DEF IInv, Locked, Resetting, TypeOK, Run, Request, gateway
  <1>6. CommandsOfThisRun' /\ StrayOnlyFromMidReset'
    BY <1>1 DEF IInv, CommandsOfThisRun, StrayOnlyFromMidReset, gateway
  <1> QED BY <1>2, <1>3, <1>4, <1>5, <1>6 DEF IInv

\* Cancelling the streams and clearing the registry move the reset along.
LEMMA ClearKeeps ==
    ASSUME IInv, CancelStreams \/ ClearById
    PROVE  IInv'
  <1>1. /\ TypeOK /\ UNCHANGED <<cancels, generation, gateway, request, stream>>
        /\ phase \in {"bumped", "cancelled"} /\ phase' \in {"cancelled", "unlisted"}
        /\ listed' \in {Nil, listed}
    BY DEF IInv, CancelStreams, ClearById
  <1>2. Place'
    BY <1>1
    DEF IInv, Place, CancelStreams, ClearById, Resetting, Cancelled, TypeOK,
        Run, Epoch, gateway
  <1>3. epoch' \in Epoch
    BY <1>1, <1>2, RunAssumption DEF Place, Cancelled, TypeOK, Epoch, Run
  <1>4. TypeOK'
    BY <1>1, <1>3 DEF TypeOK, Phases, gateway
  <1> QED
    BY <1>1, <1>2, <1>4
    DEF IInv, Found, Locked, Resetting, CommandsOfThisRun,
        StrayOnlyFromMidReset, gateway

\* The gateway is cleared and set up only while nobody holds its lock.
LEMMA GatewayKeeps ==
    ASSUME IInv, ClearGateway \/ OnRegister
    PROVE  IInv'
  <1>1. /\ TypeOK /\ UNCHANGED <<cancels, site, lock, request, stream>>
        /\ phase \in {"unlisted", "empty"} /\ phase' \in {"empty", "registering"}
        /\ lock = Nil /\ command' = Nil
    BY DEF IInv, ClearGateway, OnRegister
  <1>2. TypeOK'
    BY <1>1 DEF ClearGateway, OnRegister, TypeOK, Phases, site
  <1>3. Place'
    BY <1>1 DEF IInv, Place, ClearGateway, OnRegister, Resetting, Cancelled, site
  <1>4. \A c \in Client : request[c].at \notin {"checked", "applying"}
    BY <1>1, RunAssumption DEF IInv, Locked
  <1>5. Found' /\ Locked'
    BY <1>1, <1>4 DEF IInv, Found, Locked, site
  <1> QED
    BY <1>1, <1>2, <1>3, <1>5
    DEF IInv, CommandsOfThisRun, StrayOnlyFromMidReset

\* A newcomer can be found once its axes are there.
LEMMA InsertByIdKeeps ==
    ASSUME IInv, InsertById
    PROVE  IInv'
  <1>1. /\ TypeOK /\ UNCHANGED <<cancels, generation, epoch, gateway, request, stream>>
        /\ phase = "registering" /\ phase' = "built" /\ listed' = generation
    BY DEF IInv, InsertById
  <1>2. TypeOK'
    BY <1>1 DEF TypeOK, Phases, gateway
  <1> QED
    BY <1>1, <1>2
    DEF IInv, Place, Found, Locked, Resetting, Cancelled, CommandsOfThisRun,
        StrayOnlyFromMidReset, gateway

-----------------------------------------------------------------------------
(* The theorems *)

\* The invariant holds initially,
LEMMA InitHolds == Init => IInv
  <1> SUFFICES ASSUME Init PROVE IInv
    OBVIOUS
  <1>1. 0 \in Run /\ 0 \in Epoch
    BY RunAssumption DEF Run, Epoch
  <1>2. NoStream \in Telemetry
    BY <1>1 DEF NoStream, Telemetry
  <1>3. TypeOK
    BY <1>1, <1>2, NoRequestType, RunAssumption DEF Init, TypeOK, Phases
  <1> QED
    BY <1>3
    DEF Init, IInv, Place, Found, Locked, Resetting, Cancelled, NoRequest,
        CommandsOfThisRun, StrayOnlyFromMidReset

\* and every step preserves it.
LEMMA NextKeeps ==
    ASSUME IInv, [Next]_vars
    PROVE  IInv'
  BY AskingKeeps, StreamingKeeps, BumpKeeps, ClearKeeps, GatewayKeeps,
     InsertByIdKeeps
  DEF Next, Asking, Streaming, Reset, Register

\* So it always holds.
LEMMA Invariance == Spec => []IInv
  BY InitHolds, NextKeeps, PTL DEF Spec

(***************************************************************************)
(* Outside a reset the gateway holds commands of the current run alone, for *)
(* any number of concurrent requests and of resets.                         *)
(***************************************************************************)
THEOREM HeldCommandsAreOfThisRun == Spec => []CommandsOfThisRun
  <1>1. IInv => CommandsOfThisRun
    BY DEF IInv
  <1> QED BY <1>1, Invariance, PTL

(***************************************************************************)
(* A command reaches another component than the one that was looked up only *)
(* when the lookup fell between the bump and the clearing of the registry.  *)
(***************************************************************************)
THEOREM StraysComeFromMidReset == Spec => []StrayOnlyFromMidReset
  <1>1. IInv => StrayOnlyFromMidReset
    BY DEF IInv
  <1> QED BY <1>1, Invariance, PTL

-----------------------------------------------------------------------------
(* The newest of a queue's events *)

\* A non-empty set of naturals has a least member.
LEMMA LeastPlace ==
    ASSUME NEW T \in SUBSET Nat, T # {}
    PROVE  \E m \in T : \A n \in T : m <= n
  <1> DEFINE R == OpToRel(<, Nat)
  <1>1. PICK m \in T : \A n \in T : ~(<<n, m>> \in R)
    BY NatLessThanWellFounded, WFMin
  <1>2. \A n \in T : ~(n < m)
    BY <1>1 DEF OpToRel
  <1> QED BY <1>2

\* A non-empty set of places in a queue has a last one.
LEMMA LastPlace ==
    ASSUME NEW n \in Nat, NEW P \in SUBSET (1..n), P # {}
    PROVE  \E k \in P : \A j \in P : j <= k
  <1> DEFINE T == {n - k : k \in P}
  <1>1. T \in SUBSET Nat
    OBVIOUS
  <1>2. T # {}
    OBVIOUS
  <1>3. \E d \in T : \A e \in T : d <= e
    <2> HIDE DEF T
    <2> QED BY <1>1, <1>2, LeastPlace
  <1>4. PICK k \in P : \A j \in P : n - k <= n - j
    BY <1>3
  <1>5. ASSUME NEW j \in P PROVE j <= k
    BY <1>4
  <1> QED BY <1>5

\* The place Newest chooses is one that no other is after.
LEMMA NewestIsLast ==
    ASSUME NEW n \in Nat, NEW P \in SUBSET (1..n), NEW k \in P,
           \A j \in P : j <= k
    PROVE  Newest(P) = k
  <1>1. Newest(P) \in P /\ \A j \in P : j <= Newest(P)
    BY DEF Newest
  <1>2. \A j \in P : j \in Int
    OBVIOUS
  <1>3. Newest(P) <= k /\ k <= Newest(P) /\ Newest(P) \in Int /\ k \in Int
    BY <1>1, <1>2
  <1> QED BY <1>3

\* Place n of a queue holds its last event about a dispatch, or no place does.
IsLast(q, m, i, n) ==
    /\ n \in 1..Len(q)
    /\ q[n].microgrid = m /\ q[n].id = i
    /\ \A k \in 1..Len(q) : q[k].microgrid = m /\ q[k].id = i => k <= n

IsSilent(q, m, i) == \A k \in 1..Len(q) : ~(q[k].microgrid = m /\ q[k].id = i)

\* Where a queue's events about a dispatch are.
LEMMA AboutInDomain ==
    ASSUME NEW S, NEW q \in Seq(S), NEW m, NEW i
    PROVE  /\ About(q, m, i) \in SUBSET (1..Len(q))
           /\ \A n \in 1..Len(q) : n \in About(q, m, i) <=> q[n].microgrid = m /\ q[n].id = i
  <1>1. DOMAIN q = 1..Len(q)
    OBVIOUS
  <1> QED BY <1>1 DEF About

\* The last event about a dispatch decides what its queue says.
LEMMA LastOneSaid ==
    ASSUME NEW S, NEW q \in Seq(S), NEW m, NEW i, NEW before,
           NEW n, IsLast(q, m, i, n)
    PROVE  LastSaid(q, m, i, before) = Said(q[n])
  <1>1. n \in About(q, m, i) /\ \A k \in About(q, m, i) : k <= n
    BY AboutInDomain DEF IsLast
  <1>2. Newest(About(q, m, i)) = n
    <2> DEFINE P == About(q, m, i)
    <2>1. P \in SUBSET (1..Len(q)) /\ n \in P /\ \A k \in P : k <= n
      BY <1>1, AboutInDomain
    <2>2. Len(q) \in Nat
      OBVIOUS
    <2> HIDE DEF P
    <2>3. Newest(P) = n
      BY <2>1, <2>2, NewestIsLast
    <2> QED BY <2>3 DEF P
  <1> QED BY <1>1, <1>2 DEF LastSaid

\* A queue with nothing about a dispatch says nothing of it.
LEMMA NothingSaid ==
    ASSUME NEW S, NEW q \in Seq(S), NEW m, NEW i, NEW before, IsSilent(q, m, i)
    PROVE  LastSaid(q, m, i, before) = before
  <1>1. About(q, m, i) = {}
    BY AboutInDomain DEF IsSilent
  <1> QED BY <1>1 DEF LastSaid

\* Either a queue says nothing of a dispatch, or there is a last event about it.
LEMMA SaidOrNot ==
    ASSUME NEW S, NEW q \in Seq(S), NEW m, NEW i
    PROVE  IsSilent(q, m, i) \/ \E n \in 1..Len(q) : IsLast(q, m, i, n)
  <1>1. CASE About(q, m, i) = {}
    BY <1>1, AboutInDomain DEF IsSilent
  <1>2. CASE About(q, m, i) # {}
    <2> DEFINE P == About(q, m, i)
    <2>1. P \in SUBSET (1..Len(q)) /\ P # {} /\ Len(q) \in Nat
      BY <1>2, AboutInDomain
    <2> HIDE DEF P
    <2>2. PICK n \in P : \A k \in P : k <= n
      BY <2>1, LastPlace
    <2>3. IsLast(q, m, i, n)
      BY <2>1, <2>2, AboutInDomain DEF P, IsLast
    <2> QED BY <2>1, <2>2, <2>3
  <1> QED BY <1>1, <1>2

LEMMA EmptySays ==
    ASSUME NEW m, NEW i, NEW before
    PROVE  LastSaid(<<>>, m, i, before) = before
  <1>1. DOMAIN <<>> = {}
    OBVIOUS
  <1>2. About(<<>>, m, i) = {}
    BY <1>1 DEF About
  <1> QED BY <1>2 DEF LastSaid

\* What an event adds to what a queue before it said.
Adds(event, m, i, before) ==
    IF event.microgrid = m /\ event.id = i THEN Said(event) ELSE before

\* An appended event has the last word about its dispatch.
LEMMA AppendSays ==
    ASSUME NEW S, NEW q \in Seq(S), NEW e \in S, NEW m, NEW i, NEW before
    PROVE  LastSaid(Append(q, e), m, i, before) = Adds(e, m, i, LastSaid(q, m, i, before))
  <1> DEFINE p == Append(q, e)
  <1>1. /\ p \in Seq(S) /\ Len(p) = Len(q) + 1 /\ p[Len(q) + 1] = e
        /\ \A k \in 1..Len(q) : p[k] = q[k]
        /\ Len(q) \in Nat
    OBVIOUS
  <1> HIDE DEF p
  <1>2. CASE e.microgrid = m /\ e.id = i
    <2> DEFINE n == Len(q) + 1
    <2>1. IsLast(p, m, i, n)
      BY <1>1, <1>2 DEF IsLast
    <2> HIDE DEF n
    <2>2. LastSaid(p, m, i, before) = Said(p[n])
      BY <1>1, <2>1, LastOneSaid
    <2> QED BY <1>1, <1>2, <2>2 DEF Adds, p, n
  <1>3. CASE ~(e.microgrid = m /\ e.id = i)
    <2>1. CASE IsSilent(q, m, i)
      <3>1. IsSilent(p, m, i)
        BY <1>1, <1>3, <2>1 DEF IsSilent
      <3>2. LastSaid(p, m, i, before) = before /\ LastSaid(q, m, i, before) = before
        BY <1>1, <2>1, <3>1, NothingSaid
      <3> QED BY <1>3, <3>2 DEF Adds, p
    <2>2. CASE \E n \in 1..Len(q) : IsLast(q, m, i, n)
      <3>1. PICK n \in 1..Len(q) : IsLast(q, m, i, n)
        BY <2>2
      <3>2. p[n] = q[n] /\ IsLast(p, m, i, n)
        BY <1>1, <1>3, <3>1 DEF IsLast
      <3>3. LastSaid(q, m, i, before) = Said(q[n])
        BY <3>1, LastOneSaid
      <3>4. LastSaid(p, m, i, before) = Said(p[n])
        BY <1>1, <3>1, <3>2, LastOneSaid
      <3> QED BY <1>3, <3>2, <3>3, <3>4 DEF Adds, p
    <2> QED BY <2>1, <2>2, SaidOrNot
  <1> QED BY <1>2, <1>3

\* One event says what it says.
LEMMA OneSays ==
    ASSUME NEW e, NEW m, NEW i, NEW before
    PROVE  LastSaid(<<e>>, m, i, before) = Adds(e, m, i, before)
  <1>1. <<e>> \in Seq({e}) /\ Len(<<e>>) = 1 /\ <<e>>[1] = e
    OBVIOUS
  <1> DEFINE q == <<e>>
  <1>2. /\ q \in Seq({e}) /\ Len(q) = 1 /\ q[1] = e
        /\ \A k \in 1..Len(q) : k = 1
    BY <1>1
  <1> HIDE DEF q
  <1>3. CASE e.microgrid = m /\ e.id = i
    <2>1. IsLast(q, m, i, 1)
      BY <1>2, <1>3 DEF IsLast
    <2>2. LastSaid(q, m, i, before) = Said(q[1])
      BY <1>2, <2>1, LastOneSaid
    <2> QED BY <1>2, <1>3, <2>2 DEF Adds, q
  <1>4. CASE ~(e.microgrid = m /\ e.id = i)
    <2>1. IsSilent(q, m, i)
      BY <1>2, <1>4 DEF IsSilent
    <2>2. LastSaid(q, m, i, before) = before
      BY <1>2, <2>1, NothingSaid
    <2> QED BY <1>4, <2>2 DEF Adds, q
  <1> QED BY <1>3, <1>4

\* Reading a queue's first event changes nothing of what reading all of it says.
LEMMA TailSays ==
    ASSUME NEW S, NEW q \in Seq(S), q # <<>>, NEW m, NEW i, NEW before
    PROVE  LastSaid(q, m, i, before) = LastSaid(Tail(q), m, i, Adds(Head(q), m, i, before))
  <1> DEFINE t == Tail(q)
             h == Head(q)
  <1>1. /\ t \in Seq(S) /\ Len(t) = Len(q) - 1 /\ Len(q) \in Nat \ {0} /\ h = q[1]
        /\ \A k \in 1..Len(t) : t[k] = q[k + 1]
    OBVIOUS
  <1> HIDE DEF t, h
  <1>a. \A k \in 1..Len(q) : k # 1 => k - 1 \in 1..Len(t) /\ t[k - 1] = q[k]
    BY <1>1
  <1>2. CASE IsSilent(t, m, i)
    <2>1. LastSaid(t, m, i, Adds(h, m, i, before)) = Adds(h, m, i, before)
      BY <1>1, <1>2, NothingSaid
    <2>2. \A k \in 1..Len(q) : q[k].microgrid = m /\ q[k].id = i => k = 1
      BY <1>a, <1>2 DEF IsSilent
    <2>3. CASE h.microgrid = m /\ h.id = i
      <3>1. IsLast(q, m, i, 1)
        BY <1>1, <2>2, <2>3 DEF IsLast
      <3>2. LastSaid(q, m, i, before) = Said(q[1])
        BY <1>1, <2>3, <3>1, LastOneSaid
      <3> QED BY <1>1, <2>1, <2>3, <3>2 DEF Adds, t, h
    <2>4. CASE ~(h.microgrid = m /\ h.id = i)
      <3>1. IsSilent(q, m, i)
        BY <1>1, <2>2, <2>4 DEF IsSilent
      <3>2. LastSaid(q, m, i, before) = before
        BY <3>1, NothingSaid
      <3> QED BY <2>1, <2>4, <3>2 DEF Adds, t, h
    <2> QED BY <2>3, <2>4
  <1>3. CASE \E n \in 1..Len(t) : IsLast(t, m, i, n)
    <2>1. PICK n \in 1..Len(t) : IsLast(t, m, i, n)
      BY <1>3
    <2>2. LastSaid(t, m, i, Adds(h, m, i, before)) = Said(t[n])
      BY <1>1, <2>1, LastOneSaid
    <2>3. n + 1 \in 1..Len(q) /\ q[n + 1] = t[n]
      BY <1>1
    <2>4. ASSUME NEW k \in 1..Len(q), q[k].microgrid = m, q[k].id = i
          PROVE  k <= n + 1
      <3>1. CASE k = 1
        BY <3>1
      <3>2. CASE k # 1
        <4>1. k - 1 <= n
          BY <1>a, <2>1, <2>4, <3>2 DEF IsLast
        <4> QED BY <4>1, <1>1
      <3> QED BY <3>1, <3>2
    <2>5. IsLast(q, m, i, n + 1)
      BY <2>1, <2>3, <2>4 DEF IsLast
    <2>6. LastSaid(q, m, i, before) = Said(q[n + 1])
      BY <2>5, LastOneSaid
    <2> QED BY <2>2, <2>3, <2>6 DEF t, h
  <1> QED BY <1>1, <1>2, <1>3, SaidOrNot

-----------------------------------------------------------------------------
(* The snapshot *)

Up(H, i) == {j \in H : j <= i}

\* Among finitely many naturals every rank is that of one of them.
LEMMA RanksAreTaken ==
    ASSUME NEW H \in SUBSET Nat, IsFiniteSet(H)
    PROVE  /\ \A i \in H : Cardinality(Up(H, i)) \in 1..Cardinality(H)
           /\ \A i, k \in H : Cardinality(Up(H, i)) = Cardinality(Up(H, k)) => i = k
           /\ \A n \in 1..Cardinality(H) : \E i \in H : Cardinality(Up(H, i)) = n
  <1> DEFINE rank == [i \in H |-> Cardinality(Up(H, i))]
             T == 1..Cardinality(H)
  <1>1. Cardinality(H) \in Nat
    BY FS_CardinalityType
  <1>2. ASSUME NEW i \in H
        PROVE  IsFiniteSet(Up(H, i)) /\ Cardinality(Up(H, i)) \in T
    <2>1. Up(H, i) \in SUBSET H /\ i \in Up(H, i)
      BY DEF Up
    <2>2. IsFiniteSet(Up(H, i)) /\ Cardinality(Up(H, i)) <= Cardinality(H)
      BY <2>1, FS_Subset
    <2>3. Cardinality(Up(H, i)) \in Nat /\ Cardinality(Up(H, i)) # 0
      BY <2>1, <2>2, FS_CardinalityType, FS_EmptySet
    <2> QED BY <1>1, <2>2, <2>3
  <1>3. ASSUME NEW i \in H, NEW k \in H, i < k
        PROVE  Cardinality(Up(H, i)) # Cardinality(Up(H, k))
    <2>1. i \in Nat /\ k \in Nat /\ \A j \in H : j \in Nat
      OBVIOUS
    <2>2. /\ \A j \in H : j <= i => j <= k
          /\ k <= k /\ ~(k <= i)
      BY <1>3, <2>1
    <2>3. Up(H, i) \in SUBSET Up(H, k) /\ k \in Up(H, k) /\ k \notin Up(H, i)
      BY <2>2 DEF Up
    <2> QED BY <1>2, <2>3, FS_Subset
  <1>4. \A i, k \in H : Cardinality(Up(H, i)) = Cardinality(Up(H, k)) => i = k
    <2> SUFFICES ASSUME NEW i \in H, NEW k \in H, i # k
                PROVE  Cardinality(Up(H, i)) # Cardinality(Up(H, k))
      OBVIOUS
    <2>1. i < k \/ k < i
      OBVIOUS
    <2> QED BY <1>3, <2>1
  <1>5. rank \in Injection(H, T)
    <2>1. rank \in [H -> T]
      BY <1>2
    <2> QED BY <1>4, <2>1 DEF Injection, IsInjective
  <1>6. IsFiniteSet(T) /\ Cardinality(T) = Cardinality(H)
    BY <1>1, FS_Interval
  <1>7. rank \in Surjection(H, T)
    <2> HIDE DEF rank, T
    <2> QED BY <1>5, <1>6, FS_Injection
  <1>8. \A n \in T : \E i \in H : Cardinality(Up(H, i)) = n
    BY <1>7 DEF Surjection
  <1> QED BY <1>2, <1>4, <1>8

Held(m) == {i \in Id : store[m][i] # Gone}

\* The listing holds exactly the dispatches held.
LEMMA ListedHolds ==
    ASSUME NEW m \in Microgrids
    PROVE  /\ Listed(m) \in Seq(Held(m))
           /\ \A i \in Held(m) : \E n \in 1..Len(Listed(m)) : Listed(m)[n] = i
  <1> DEFINE H == Held(m)
             C == Cardinality(H)
             L == [n \in 1..C |-> CHOOSE i \in H : Cardinality(Up(H, i)) = n]
  <1>1. H \in SUBSET Nat /\ IsFiniteSet(H)
    <2>1. IsFiniteSet(Id) /\ Id \subseteq Nat
      BY DispatchAssumption, FS_Interval DEF Id
    <2>2. H \in SUBSET Id
      BY DEF Held
    <2> QED BY <2>1, <2>2, FS_Subset
  <1>2. C \in Nat
    BY <1>1, FS_CardinalityType
  <1>3. Listed(m) = L
    BY DEF Listed, Held, Up
  <1>4. /\ \A i \in H : Cardinality(Up(H, i)) \in 1..C
        /\ \A i, k \in H : Cardinality(Up(H, i)) = Cardinality(Up(H, k)) => i = k
        /\ \A n \in 1..C : \E i \in H : Cardinality(Up(H, i)) = n
    <2> HIDE DEF H
    <2> QED BY <1>1, RanksAreTaken
  <1> HIDE DEF H, C
  <1>5. \A n \in 1..C : L[n] \in H /\ Cardinality(Up(H, L[n])) = n
    BY <1>4
  <1>6. L \in Seq(H) /\ Len(L) = C
    BY <1>2, <1>5
  <1>7. ASSUME NEW i \in H
        PROVE  \E n \in 1..C : L[n] = i
    <2> DEFINE n == Cardinality(Up(H, i))
    <2>1. n \in 1..C
      BY <1>4
    <2> HIDE DEF n
    <2>2. L[n] \in H /\ Cardinality(Up(H, L[n])) = n
      BY <1>5, <2>1
    <2>3. L[n] = i
      BY <1>4, <2>2 DEF n
    <2> QED BY <2>1, <2>3
  <1> HIDE DEF L
  <1> QED BY <1>3, <1>6, <1>7 DEF H

-----------------------------------------------------------------------------
(* Types *)

LEMMA StampedIsDispatch ==
    ASSUME NEW d \in Data
    PROVE  Stamped(d) \in Dispatch /\ Stamped(d) \in Known
  BY DEF Dispatch, Known

\* A dispatch held was stamped from its data.
LEMMA HeldIsDispatch ==
    ASSUME DispatchTypeOK, NEW m \in Microgrids, NEW i \in Id, store[m][i] # Gone
    PROVE  store[m][i] \in Dispatch /\ store[m][i].data \in Data
  <1>1. store[m][i] \in Dispatch
    BY DEF DispatchTypeOK, Known
  <1>2. PICK d \in Data : store[m][i] = Stamped(d)
    BY <1>1 DEF Dispatch
  <1> QED BY <1>1, <1>2 DEF Stamped

LEMMA MergedIsData ==
    ASSUME NEW d \in Data, NEW masked, NEW u,
           \E carried \in SUBSET Fields : u \in [carried -> {0, 1}]
    PROVE  Merged(d, masked, u) \in Data
  <1>1. ASSUME NEW f \in Fields, f \in DOMAIN u PROVE u[f] \in {0, 1}
    BY <1>1
  <1>2. ASSUME NEW f \in Fields PROVE d[f] \in {0, 1}
    BY DEF Data
  <1> QED BY <1>1, <1>2 DEF Merged, Data

\* What is announced is an event.
LEMMA AnnouncedIsEvent ==
    ASSUME NEW m \in Microgrids, NEW change \in {"created", "updated", "deleted"},
           NEW i \in Id, NEW d \in Dispatch
    PROVE  /\ Announced(m, change, i, d) \in Event
           /\ Announced(m, change, i, d) \in EventsOf(m)
  BY DEF Announced, Event, EventsOf

\* What a broadcast leaves each stream to read.
LEMMA BroadcastReaches ==
    ASSUME DispatchTypeOK, NEW event \in Event, Broadcast(event), NEW s \in Streams
    PROVE  /\ unread'[s] \in Seq(Event) /\ lagged'[s] \in BOOLEAN
           /\ ~Receives(s) => unread'[s] = unread[s] /\ lagged'[s] = lagged[s]
           /\ Receives(s) /\ ~lagged'[s] =>
                ~lagged[s] /\ unread'[s] = Append(unread[s], event)
  <1>1. unread[s] \in Seq(Event) /\ lagged[s] \in BOOLEAN
    BY DEF DispatchTypeOK
  <1>2. Behind(unread[s]) => unread[s] # <<>>
    BY <1>1, DispatchAssumption DEF Behind
  <1>3. unread'[s] =
            IF ~Receives(s) THEN unread[s]
            ELSE Append(IF Behind(unread[s]) THEN Tail(unread[s]) ELSE unread[s], event)
    BY DEF Broadcast
  <1>4. lagged'[s] = (lagged[s] \/ (Receives(s) /\ Behind(unread[s])))
    BY DEF Broadcast
  <1>5. Behind(unread[s]) => Tail(unread[s]) \in Seq(Event)
    BY <1>1, <1>2
  <1>6. unread'[s] \in Seq(Event)
    BY <1>1, <1>3, <1>5
  <1>7. lagged'[s] \in BOOLEAN
    BY <1>1, <1>4
  <1> QED BY <1>1, <1>3, <1>4, <1>6, <1>7

\* A change of the store, as the requests make it: the event says what is held.
Writes(m, i, known, event) ==
    /\ Change(m, i, known, event)
    /\ m \in Microgrids /\ i \in Id /\ known \in Known
    /\ event \in EventsOf(m) /\ event.id = i /\ Said(event) = known

Updating(m, i, masked, u) ==
    /\ m \in Microgrids /\ i \in Id
    /\ \E carried \in SUBSET Fields : u \in [carried -> {0, 1}]
    /\ UpdateWith(m, i, masked, u)

LEMMA InsertWrites ==
    ASSUME DispatchTypeOK, NEW c \in creating, Insert(c)
    PROVE  Writes(c.microgrid, c.id, Stamped(c.data),
                  Announced(c.microgrid, "created", c.id, Stamped(c.data)))
  <1> DEFINE d == Stamped(c.data)
             e == Announced(c.microgrid, "created", c.id, d)
  <1>1. c.microgrid \in Microgrids /\ c.id \in Id /\ c.data \in Data
    BY DispatchAssumption DEF DispatchTypeOK
  <1>2. d \in Dispatch /\ d \in Known
    BY <1>1, StampedIsDispatch
  <1> HIDE DEF d
  <1>3. e \in EventsOf(c.microgrid) /\ e.id = c.id /\ Said(e) = d
    BY <1>1, <1>2, AnnouncedIsEvent DEF Announced, Said
  <1>4. Change(c.microgrid, c.id, d, e)
    BY DEF Insert, d
  <1> QED BY <1>1, <1>2, <1>3, <1>4 DEF Writes, d

LEMMA UpdateWrites ==
    ASSUME DispatchTypeOK, NEW m, NEW i, NEW masked, NEW u, Updating(m, i, masked, u)
    PROVE  LET new == Merged(store[m][i].data, masked, u)
           IN  /\ new \in Data
               /\ Writes(m, i, Stamped(new), Announced(m, "updated", i, Stamped(new)))
  <1> DEFINE new == Merged(store[m][i].data, masked, u)
             d == Stamped(new)
             e == Announced(m, "updated", i, d)
  <1>1. m \in Microgrids /\ i \in Id /\ store[m][i] # Gone
    BY DEF Updating, UpdateWith
  <1>2. new \in Data
    BY <1>1, HeldIsDispatch, MergedIsData DEF Updating
  <1>3. Change(m, i, d, e)
    BY DEF Updating, UpdateWith
  <1> HIDE DEF new
  <1>4. d \in Dispatch /\ d \in Known
    BY <1>2, StampedIsDispatch
  <1> HIDE DEF d
  <1>5. e \in EventsOf(m) /\ e.id = i /\ Said(e) = d
    BY <1>1, <1>4, AnnouncedIsEvent DEF Announced, Said
  <1>6. Writes(m, i, d, e)
    BY <1>1, <1>3, <1>4, <1>5 DEF Writes
  <1> QED BY <1>2, <1>6 DEF new, d

LEMMA DeleteWrites ==
    ASSUME DispatchTypeOK, NEW m \in Microgrids, NEW i \in Id, Delete(m, i)
    PROVE  Writes(m, i, Gone, Announced(m, "deleted", i, store[m][i]))
  <1> DEFINE d == store[m][i]
             e == Announced(m, "deleted", i, d)
  <1>1. d \in Dispatch /\ Gone \in Known
    BY HeldIsDispatch DEF Delete, Known
  <1>2. Change(m, i, Gone, e)
    BY DEF Delete
  <1> HIDE DEF d
  <1>3. e \in EventsOf(m) /\ e.id = i /\ Said(e) = Gone
    BY <1>1, AnnouncedIsEvent DEF Announced, Said
  <1> QED BY <1>1, <1>2, <1>3 DEF Writes, d

\* The steps of the store: a create takes an id, or a change is made.
StoreSteps ==
    \/ \E m \in Microgrids, d \in NewData : Create(m, d)
    \/ \E c \in creating : Insert(c)
    \/ \E m \in Microgrids, i \in Id, masked \in SUBSET Fields,
         u \in UNION {[carried -> {0, 1}] : carried \in SUBSET Fields} :
            Updating(m, i, masked, u)
    \/ \E m \in Microgrids, i \in Id : Delete(m, i)

LEMMA RequestsAreStoreSteps == Requests => StoreSteps
  <1>1. ASSUME NEW m \in Microgrids, NEW i \in Id, NEW u \in Updates,
               Update(m, i, u.fields, u.update, u.fields # {})
        PROVE  StoreSteps
    <2> DEFINE masked == IF u.fields # {} THEN u.fields ELSE DOMAIN u.update
    <2>1. PICK carried \in SUBSET Fields : u.update \in [carried -> {0, 1}]
      BY DispatchAssumption
    <2>2. masked \in SUBSET Fields
      BY <2>1, DispatchAssumption
    <2>3. UpdateWith(m, i, masked, u.update)
      BY <1>1 DEF Update
    <2> HIDE DEF masked
    <2>4. Updating(m, i, masked, u.update)
      BY <2>1, <2>3 DEF Updating
    <2> QED BY <2>1, <2>2, <2>4 DEF StoreSteps
  <1>2. ASSUME NEW m \in Microgrids, NEW i \in Id, NEW active \in {0, 1},
               SetActive(m, i, active)
        PROVE  StoreSteps
    <2> DEFINE u == [f \in {"active"} |-> active]
    <2>1. {"active"} \in SUBSET Fields /\ u \in [{"active"} -> {0, 1}]
      BY DEF Fields
    <2>2. UpdateWith(m, i, {"active"}, u)
      BY <1>2 DEF SetActive
    <2> HIDE DEF u
    <2>3. Updating(m, i, {"active"}, u)
      BY <2>1, <2>2 DEF Updating
    <2> QED BY <2>1, <2>3 DEF StoreSteps
  <1> QED BY <1>1, <1>2 DEF Requests, StoreSteps

-----------------------------------------------------------------------------
(* The store *)

StoreTypeOK ==
    /\ store \in [Microgrids -> [Id -> Known]]
    /\ nextId \in 1..(MaxId + 1)
    /\ creating \subseteq [microgrid : Registered, id : Id, data : NewData]
    /\ asked \in [Id -> Data \cup {Gone}]
    /\ changes \in 0..MaxChanges

\* A change writes one dispatch of one microgrid.
LEMMA WritesStore ==
    ASSUME StoreTypeOK, NEW m, NEW i, NEW known, NEW event,
           Writes(m, i, known, event)
    PROVE  /\ store' \in [Microgrids -> [Id -> Known]]
           /\ changes' \in 0..MaxChanges
           /\ \A n \in Microgrids, j \in Id :
                store'[n][j] = IF n = m /\ j = i THEN known ELSE store[n][j]
  <1>1. store' = [store EXCEPT ![m][i] = known]
    BY DEF Writes, Change, Put
  <1>2. m \in Microgrids /\ i \in Id /\ known \in Known
    BY DEF Writes
  <1>3. store \in [Microgrids -> [Id -> Known]]
    BY DEF StoreTypeOK
  <1>4. store' \in [Microgrids -> [Id -> Known]]
    BY <1>1, <1>2, <1>3
  <1>5. \A n \in Microgrids, j \in Id :
            store'[n][j] = IF n = m /\ j = i THEN known ELSE store[n][j]
    BY <1>1, <1>2, <1>3
  <1>6. changes' = changes + 1 /\ changes < MaxChanges
    BY DEF Writes, Change
  <1>7. changes' \in 0..MaxChanges
    BY <1>6, DispatchAssumption DEF StoreTypeOK
  <1> QED BY <1>4, <1>5, <1>7

StoreInv == StoreTypeOK /\ IdsAreUsedOnce /\ NoLostUpdate

LEMMA CreateKeepsStore ==
    ASSUME StoreInv, NEW m \in Microgrids, NEW d \in NewData, Create(m, d)
    PROVE  StoreInv'
  <1> DEFINE c == [microgrid |-> m, id |-> nextId, data |-> d]
  <1>1. /\ nextId \in Id /\ nextId' = nextId + 1 /\ creating' = creating \cup {c}
        /\ UNCHANGED <<store, asked, changes>> /\ m \in Registered
    BY DEF Create
  <1>2. nextId \in Nat /\ MaxId \in Nat /\ \A i \in Id : i \in Nat
    BY <1>1, DispatchAssumption DEF Id
  <1>3. StoreTypeOK'
    <2>1. nextId' \in 1..(MaxId + 1)
      BY <1>1, <1>2 DEF Id
    <2>2. c \in [microgrid : Registered, id : Id, data : NewData]
      BY <1>1
    <2> HIDE DEF c
    <2> QED BY <1>1, <2>1, <2>2 DEF StoreInv, StoreTypeOK
  <1>4. IdsAreUsedOnce'
    <2>1. \A e \in creating : e.id < nextId /\ e.id \in Id
      BY DEF StoreInv, StoreTypeOK, IdsAreUsedOnce
    <2>2. \A n \in Microgrids, i \in Id : store[n][i] # Gone => i < nextId
      BY DEF StoreInv, IdsAreUsedOnce
    <2>3. \A n \in Microgrids : store[n][nextId] = Gone
      BY <1>1, <1>2, <2>2
    <2>4. ASSUME NEW e \in creating'
          PROVE  /\ e.id < nextId'
                 /\ \A n \in Microgrids : store'[n][e.id] = Gone
                 /\ \A other \in creating' : other.id = e.id => other = e
      <3>1. e \in creating \/ e = c
        BY <1>1
      <3>2. e.id < nextId'
        <4>1. CASE e \in creating
          <5>1. e.id < nextId /\ e.id \in Nat
            BY <1>2, <2>1, <4>1
          <5> QED BY <1>1, <1>2, <5>1
        <4>2. CASE e = c
          BY <1>1, <1>2, <4>2
        <4> QED BY <3>1, <4>1, <4>2
      <3>3. \A n \in Microgrids : store'[n][e.id] = Gone
        BY <1>1, <2>3, <3>1 DEF StoreInv, IdsAreUsedOnce
      <3>4. ASSUME NEW other \in creating', other.id = e.id
            PROVE  other = e
        <4>1. other \in creating \/ other = c
          BY <1>1
        <4>2. \A f \in creating : f.id # nextId
          BY <1>2, <2>1
        <4> QED BY <3>1, <3>4, <4>1, <4>2 DEF StoreInv, IdsAreUsedOnce
      <3> QED BY <3>2, <3>3, <3>4
    <2>5. ASSUME NEW n \in Microgrids, NEW i \in Id, store'[n][i] # Gone
          PROVE  /\ i < nextId'
                 /\ \A other \in Microgrids : store'[other][i] # Gone => other = n
      BY <1>1, <1>2, <2>2, <2>5 DEF StoreInv, IdsAreUsedOnce
    <2> QED BY <2>4, <2>5 DEF IdsAreUsedOnce
  <1>5. NoLostUpdate'
    BY <1>1 DEF StoreInv, NoLostUpdate
  <1> QED BY <1>3, <1>4, <1>5 DEF StoreInv

\* An insert holds what its create asked for, under an id no one else has.
LEMMA InsertKeepsStore ==
    ASSUME DispatchTypeOK, StoreInv, NEW c \in creating, Insert(c)
    PROVE  StoreInv'
  <1> DEFINE m == c.microgrid
             i == c.id
             known == Stamped(c.data)
  <1>1. Writes(m, i, known, Announced(m, "created", i, known))
    BY InsertWrites
  <1>2. /\ creating' = creating \ {c} /\ nextId' = nextId
        /\ asked' = [asked EXCEPT ![i] = c.data]
    BY DEF Insert
  <1>3. /\ m \in Microgrids /\ i \in Id /\ c.data \in Data
        /\ i < nextId /\ \A n \in Microgrids : store[n][i] = Gone
        /\ \A other \in creating : other.id = i => other = c
    BY DispatchAssumption DEF StoreInv, StoreTypeOK, IdsAreUsedOnce
  <1>4. /\ store' \in [Microgrids -> [Id -> Known]]
        /\ changes' \in 0..MaxChanges
        /\ \A n \in Microgrids, j \in Id :
             store'[n][j] = IF n = m /\ j = i THEN known ELSE store[n][j]
    BY <1>1, WritesStore DEF StoreInv
  <1> HIDE DEF m, i, known
  <1>5. StoreTypeOK'
    BY <1>2, <1>3, <1>4 DEF StoreInv, StoreTypeOK
  <1>6. IdsAreUsedOnce'
    <2>1. ASSUME NEW e \in creating'
          PROVE  /\ e.id < nextId'
                 /\ \A n \in Microgrids : store'[n][e.id] = Gone
                 /\ \A other \in creating' : other.id = e.id => other = e
      <3>1. e \in creating /\ e # c
        BY <1>2
      <3>2. e.id # i /\ e.id \in Id
        BY <1>3, <3>1 DEF StoreInv, StoreTypeOK
      <3> QED BY <1>2, <1>4, <3>1, <3>2 DEF StoreInv, IdsAreUsedOnce
    <2>2. ASSUME NEW n \in Microgrids, NEW j \in Id, store'[n][j] # Gone
          PROVE  /\ j < nextId'
                 /\ \A other \in Microgrids : store'[other][j] # Gone => other = n
      <3>1. CASE j = i
        BY <1>2, <1>3, <1>4, <2>2, <3>1
      <3>2. CASE j # i
        BY <1>2, <1>4, <2>2, <3>2 DEF StoreInv, IdsAreUsedOnce
      <3> QED BY <3>1, <3>2
    <2> QED BY <2>1, <2>2 DEF IdsAreUsedOnce
  <1>7. NoLostUpdate'
    <2>1. ASSUME NEW n \in Microgrids, NEW j \in Id, store'[n][j] # Gone
          PROVE  store'[n][j] = Stamped(asked'[j])
      <3>1. CASE j = i
        <4>1. n = m
          BY <1>3, <1>4, <2>1, <3>1
        <4>2. asked'[j] = c.data
          BY <1>2, <1>3, <3>1 DEF StoreInv, StoreTypeOK
        <4> QED BY <1>4, <3>1, <4>1, <4>2 DEF known
      <3>2. CASE j # i
        <4>1. asked'[j] = asked[j] /\ store'[n][j] = store[n][j]
          BY <1>2, <1>4, <3>2 DEF StoreInv, StoreTypeOK
        <4> QED BY <2>1, <4>1 DEF StoreInv, NoLostUpdate
      <3> QED BY <3>1, <3>2
    <2> QED BY <2>1 DEF NoLostUpdate
  <1> QED BY <1>5, <1>6, <1>7 DEF StoreInv

\* What is left in a dispatch is what was asked: the merge and the record agree.
LEMMA MergedIsAsked ==
    ASSUME NEW i \in Id, asked[i] \in Data, NEW masked, NEW u,
           asked \in [Id -> Data \cup {Gone}], OnRecord(i, masked, u)
    PROVE  /\ asked'[i] = Merged(asked[i], masked, u)
           /\ \A j \in Id : j # i => asked'[j] = asked[j]
  <1> DEFINE r == [f \in Fields |->
                    CASE f \in masked \cap DOMAIN u -> u[f]
                      [] f \in (masked \cap {"duration"}) \ DOMAIN u -> 0
                      [] OTHER -> asked[i][f]]
             w == Merged(asked[i], masked, u)
  <1>1. asked' = [asked EXCEPT ![i] = r]
    BY DEF OnRecord
  <1>2. ASSUME NEW f \in Fields PROVE r[f] = w[f]
    <2>1. w[f] = IF f \notin masked THEN asked[i][f]
                 ELSE IF f \in DOMAIN u THEN u[f]
                 ELSE IF f = "duration" THEN 0
                 ELSE asked[i][f]
      BY DEF Merged
    <2>2. r[f] = CASE f \in masked \cap DOMAIN u -> u[f]
                   [] f \in (masked \cap {"duration"}) \ DOMAIN u -> 0
                   [] OTHER -> asked[i][f]
      OBVIOUS
    <2> QED BY <2>1, <2>2
  <1>3. r = w
    <2>1. r = [f \in Fields |-> r[f]] /\ w = [f \in Fields |-> w[f]]
      BY DEF Merged
    <2> HIDE DEF r, w
    <2> QED BY <1>2, <2>1
  <1> HIDE DEF r, w
  <1> QED BY <1>1, <1>3 DEF w

\* An update leaves what was asked of it, on top of what was asked before.
LEMMA UpdateKeepsStore ==
    ASSUME DispatchTypeOK, StoreInv, NEW m, NEW i, NEW masked, NEW u,
           Updating(m, i, masked, u)
    PROVE  StoreInv'
  <1> DEFINE new == Merged(store[m][i].data, masked, u)
  <1>1. /\ new \in Data
        /\ Writes(m, i, Stamped(new), Announced(m, "updated", i, Stamped(new)))
    BY UpdateWrites
  <1>2. /\ m \in Microgrids /\ i \in Id /\ store[m][i] # Gone
        /\ OnRecord(i, masked, u) /\ UNCHANGED <<nextId, creating>>
    BY DEF Updating, UpdateWith
  <1>3. store[m][i].data = asked[i] /\ asked[i] \in Data
    <2>1. store[m][i] = Stamped(asked[i])
      BY <1>2 DEF StoreInv, NoLostUpdate
    <2>2. store[m][i].data = asked[i]
      BY <2>1 DEF Stamped
    <2> QED BY <1>2, <2>2, HeldIsDispatch
  <1>4. asked'[i] = new /\ \A j \in Id : j # i => asked'[j] = asked[j]
    <2>1. asked \in [Id -> Data \cup {Gone}]
      BY DEF StoreInv, StoreTypeOK
    <2> QED BY <1>2, <1>3, <2>1, MergedIsAsked
  <1> HIDE DEF new
  <1>5. /\ store' \in [Microgrids -> [Id -> Known]]
        /\ changes' \in 0..MaxChanges
        /\ \A n \in Microgrids, j \in Id :
             store'[n][j] = IF n = m /\ j = i THEN Stamped(new) ELSE store[n][j]
    BY <1>1, WritesStore DEF StoreInv
  <1>6. asked' \in [Id -> Data \cup {Gone}]
    <2>1. \E r : asked' = [asked EXCEPT ![i] = r]
      BY <1>2 DEF OnRecord
    <2> QED BY <1>1, <1>4, <2>1 DEF StoreInv, StoreTypeOK
  <1>7. StoreTypeOK'
    BY <1>2, <1>5, <1>6 DEF StoreInv, StoreTypeOK
  <1>8. ASSUME NEW n \in Microgrids, NEW j \in Id
        PROVE  /\ store'[n][j] # Gone => store[n][j] # Gone
               /\ store'[n][j] # Gone => store'[n][j] = Stamped(asked'[j])
    <2>1. CASE n = m /\ j = i
      BY <1>2, <1>4, <1>5, <2>1
    <2>2. CASE ~(n = m /\ j = i)
      <3>1. store'[n][j] = store[n][j]
        BY <1>5, <2>2
      <3>2. store[n][j] # Gone => j # i
        BY <1>2, <2>2 DEF StoreInv, IdsAreUsedOnce
      <3> QED BY <1>4, <3>1, <3>2 DEF StoreInv, NoLostUpdate
    <2> QED BY <2>1, <2>2
  <1>9. IdsAreUsedOnce'
    <2>1. ASSUME NEW e \in creating', NEW n \in Microgrids
          PROVE  store'[n][e.id] = Gone
      <3>1. e \in creating /\ e.id \in Id
        BY <1>2 DEF StoreInv, StoreTypeOK
      <3> QED BY <1>8, <3>1 DEF StoreInv, IdsAreUsedOnce
    <2> QED BY <1>2, <1>8, <2>1 DEF StoreInv, IdsAreUsedOnce
  <1>10. NoLostUpdate'
    BY <1>8 DEF NoLostUpdate
  <1> QED BY <1>7, <1>9, <1>10 DEF StoreInv

LEMMA DeleteKeepsStore ==
    ASSUME DispatchTypeOK, StoreInv, NEW m \in Microgrids, NEW i \in Id, Delete(m, i)
    PROVE  StoreInv'
  <1>1. Writes(m, i, Gone, Announced(m, "deleted", i, store[m][i]))
    BY DeleteWrites
  <1>2. /\ store[m][i] # Gone /\ asked' = [asked EXCEPT ![i] = Gone]
        /\ UNCHANGED <<nextId, creating>>
    BY DEF Delete
  <1>3. /\ store' \in [Microgrids -> [Id -> Known]]
        /\ changes' \in 0..MaxChanges
        /\ \A n \in Microgrids, j \in Id :
             store'[n][j] = IF n = m /\ j = i THEN Gone ELSE store[n][j]
    BY <1>1, WritesStore DEF StoreInv
  <1>4. StoreTypeOK'
    BY <1>2, <1>3 DEF StoreInv, StoreTypeOK
  <1>5. ASSUME NEW n \in Microgrids, NEW j \in Id
        PROVE  /\ store'[n][j] # Gone => store'[n][j] = store[n][j]
               /\ store'[n][j] # Gone => store'[n][j] = Stamped(asked'[j])
    <2>1. CASE n = m /\ j = i
      BY <1>3, <2>1
    <2>2. CASE ~(n = m /\ j = i)
      <3>1. store'[n][j] = store[n][j]
        BY <1>3, <2>2
      <3>2. store[n][j] # Gone => j # i
        BY <1>2, <2>2 DEF StoreInv, IdsAreUsedOnce
      <3>3. j # i => asked'[j] = asked[j]
        BY <1>2 DEF StoreInv, StoreTypeOK
      <3> QED BY <3>1, <3>2, <3>3 DEF StoreInv, NoLostUpdate
    <2> QED BY <2>1, <2>2
  <1>6. IdsAreUsedOnce'
    <2>1. ASSUME NEW e \in creating', NEW n \in Microgrids
          PROVE  store'[n][e.id] = Gone
      <3>1. e \in creating /\ e.id \in Id
        BY <1>2 DEF StoreInv, StoreTypeOK
      <3> QED BY <1>5, <3>1 DEF StoreInv, IdsAreUsedOnce
    <2> QED BY <1>2, <1>5, <2>1 DEF StoreInv, IdsAreUsedOnce
  <1>7. NoLostUpdate'
    BY <1>5 DEF NoLostUpdate
  <1> QED BY <1>4, <1>6, <1>7 DEF StoreInv

\* No step of the store loses an update or uses an id twice.
LEMMA StoreStepsKeepStore == DispatchTypeOK /\ StoreInv /\ StoreSteps => StoreInv'
  BY CreateKeepsStore, InsertKeepsStore, UpdateKeepsStore, DeleteKeepsStore DEF StoreSteps

-----------------------------------------------------------------------------
(* The streams *)

StreamTypeOK ==
    /\ stage \in [Streams -> {"unopened", "subscribed", "live", "ended"}]
    /\ unread \in [Streams -> Seq(Event)]
    /\ lagged \in [Streams -> BOOLEAN]
    /\ replay \in [Streams -> Seq(Event)]
    /\ hand \in [Streams -> Message \cup {Nothing}]
    /\ channel \in [Streams -> Seq(Message)]
    /\ open \in [Streams -> BOOLEAN]
    /\ view \in [Streams -> [Id -> Known]]
    /\ told \in [Streams -> BOOLEAN]

LEMMA TypesInParts ==
    /\ DispatchTypeOK <=> StoreTypeOK /\ StreamTypeOK
    /\ DispatchTypeOK' <=> StoreTypeOK' /\ StreamTypeOK'
  BY DEF DispatchTypeOK, StoreTypeOK, StreamTypeOK

\* What the invariant says of one stream.
Sound(s) == InOrder(s) /\ CatchesUp(s) /\ Converges(s)

\* A stream that a step leaves alone, store included, stays as it was.
LEMMA LeftAlone ==
    ASSUME NEW s \in Streams, Sound(s),
           stage'[s] = stage[s], unread'[s] = unread[s], lagged'[s] = lagged[s],
           replay'[s] = replay[s], hand'[s] = hand[s], channel'[s] = channel[s],
           open'[s] = open[s], view'[s] = view[s],
           \A i \in Id : store'[Watched[s]][i] = store[Watched[s]][i]
    PROVE  Sound(s)'
  <1>1. InOrder(s)'
    BY DEF Sound, InOrder, Receives
  <1>2. CatchesUp(s)'
    BY DEF Sound, CatchesUp
  <1>3. \A i \in Id : Learns(s, i)' = Learns(s, i)
    BY DEF Learns, InHand
  <1>4. Converges(s)'
    BY <1>3 DEF Sound, Converges
  <1> QED BY <1>1, <1>2, <1>4 DEF Sound

\* A change of the store reaches every stream that is not excused.
LEMMA WritesKeepStreams ==
    ASSUME DispatchTypeOK, NEW m, NEW i, NEW known, NEW event,
           Writes(m, i, known, event),
           \A s \in Streams : Sound(s)
    PROVE  StreamTypeOK' /\ \A s \in Streams : Sound(s)'
  <1>1. /\ Broadcast(event) /\ event \in Event /\ event.microgrid = m /\ event.id = i
        /\ UNCHANGED <<stage, replay, hand, channel, open, view, told>>
        /\ Said(event) = known
    BY DEF Writes, Change, EventsOf, clientVars
  <1>2. \A n \in Microgrids, j \in Id :
            store'[n][j] = IF n = m /\ j = i THEN known ELSE store[n][j]
    BY WritesStore, TypesInParts
  <1>3. ASSUME NEW s \in Streams
        PROVE  /\ unread'[s] \in Seq(Event) /\ lagged'[s] \in BOOLEAN
               /\ ~Receives(s) => unread'[s] = unread[s] /\ lagged'[s] = lagged[s]
               /\ Receives(s) /\ ~lagged'[s] =>
                    ~lagged[s] /\ unread'[s] = Append(unread[s], event)
    BY <1>1, BroadcastReaches
  <1>4. StreamTypeOK'
    <2>1. /\ unread' = [s \in Streams |-> unread'[s]]
          /\ lagged' = [s \in Streams |-> lagged'[s]]
      BY <1>1 DEF Broadcast
    <2>2. unread' \in [Streams -> Seq(Event)] /\ lagged' \in [Streams -> BOOLEAN]
      BY <1>3, <2>1
    <2> QED BY <1>1, <2>2, TypesInParts DEF StreamTypeOK
  <1>5. ASSUME NEW s \in Streams
        PROVE  Sound(s)'
    <2> DEFINE w == Watched[s]
    <2>1. w \in Microgrids /\ unread[s] \in Seq(Event)
      BY DispatchAssumption DEF DispatchTypeOK
    <2>2. InOrder(s)'
      <3>1. lagged[s] => lagged'[s]
        BY <1>1 DEF Broadcast
      <3> QED BY <1>1, <1>3, <3>1 DEF Sound, InOrder, Receives
    <2>3. ASSUME NEW j \in Id, NEW before, Receives(s), ~lagged'[s],
                 LastSaid(unread[s], w, j, before) = store[w][j]
          PROVE  LastSaid(unread'[s], w, j, before) = store'[w][j]
      <3>1. unread'[s] = Append(unread[s], event)
        BY <1>3, <2>3
      <3>2. LastSaid(unread'[s], w, j, before) = Adds(event, w, j, store[w][j])
        BY <1>1, <2>1, <2>3, <3>1, AppendSays
      <3> QED BY <1>1, <1>2, <2>1, <3>2 DEF Adds
    <2>4. CatchesUp(s)'
      <3>1. SUFFICES ASSUME stage[s] = "subscribed", ~lagged'[s], NEW j \in Id
                    PROVE  LastSaid(unread'[s], w, j, store'[w][j]) = store'[w][j]
        BY <1>1 DEF CatchesUp
      <3>2. Receives(s) /\ ~lagged[s] /\ unread'[s] = Append(unread[s], event)
        BY <1>3, <3>1 DEF Receives
      <3>3. LastSaid(unread[s], w, j, store[w][j]) = store[w][j]
        BY <3>1, <3>2 DEF Sound, CatchesUp
      <3>4. CASE w = m /\ j = i
        <4>1. LastSaid(unread'[s], w, j, store'[w][j])
                = Adds(event, w, j, LastSaid(unread[s], w, j, store'[w][j]))
          BY <1>1, <2>1, <3>2, AppendSays
        <4> QED BY <1>1, <1>2, <2>1, <3>4, <4>1 DEF Adds
      <3>5. CASE ~(w = m /\ j = i)
        <4>1. store'[w][j] = store[w][j]
          BY <1>2, <2>1, <3>5
        <4> QED BY <2>3, <3>1, <3>2, <3>3, <4>1
      <3> QED BY <3>4, <3>5
    <2>5. Converges(s)'
      <3>1. SUFFICES ASSUME stage[s] = "live", open[s], ~lagged'[s], NEW j \in Id
                    PROVE  Learns(s, j)' = store'[w][j]
        BY <1>1 DEF Converges
      <3>2. Receives(s) /\ ~lagged[s]
        BY <1>3, <3>1 DEF Receives
      <3>3. Learns(s, j) = store[w][j]
        BY <3>1, <3>2 DEF Sound, Converges
      <3> DEFINE before == LastSaid(replay[s], w, j,
                                LastSaid(InHand(s), w, j,
                                    LastSaid(channel[s], w, j, view[s][j])))
      <3>4. Learns(s, j) = LastSaid(unread[s], w, j, before)
        BY DEF Learns
      <3>5. Learns(s, j)' = LastSaid(unread'[s], w, j, before)
        BY <1>1 DEF Learns, InHand
      <3> HIDE DEF before
      <3> QED BY <2>3, <3>1, <3>2, <3>3, <3>4, <3>5
    <2> QED BY <2>2, <2>4, <2>5 DEF Sound
  <1> QED BY <1>4, <1>5

\* A stream is at no stage it is not at.
LEMMA NotLive ==
    ASSUME NEW s \in Streams, InOrder(s)', stage'[s] # "live",
           stage'[s] = "subscribed" => unread'[s] = <<>>
    PROVE  Sound(s)'
  <1>1. CatchesUp(s)'
    BY EmptySays DEF CatchesUp
  <1>2. Converges(s)'
    BY DEF Converges
  <1> QED BY <1>1, <1>2 DEF Sound

LEMMA SubscribeKeeps ==
    ASSUME StreamTypeOK, NEW s \in Streams, Subscribe(s), InOrder(s)
    PROVE  StreamTypeOK' /\ Sound(s)'
  <1>1. /\ stage[s] = "unopened" /\ stage' = [stage EXCEPT ![s] = "subscribed"]
        /\ open' = [open EXCEPT ![s] = TRUE]
        /\ UNCHANGED <<unread, lagged, replay, hand, channel, view, told>>
    BY DEF Subscribe
  <1>2. StreamTypeOK'
    BY <1>1 DEF StreamTypeOK
  <1>3. stage'[s] = "subscribed"
    BY <1>1 DEF StreamTypeOK
  <1>4. InOrder(s)' /\ unread'[s] = <<>>
    BY <1>1, <1>3 DEF InOrder, Receives
  <1> QED BY <1>2, <1>3, <1>4, NotLive

\* The snapshot and the events since the subscription make up the store.
LEMMA SnapshotKeeps ==
    ASSUME DispatchTypeOK, NEW s \in Streams, Snapshot(s), Sound(s)
    PROVE  StreamTypeOK' /\ Sound(s)'
  <1> DEFINE w == Watched[s]
             L == Listed(w)
             R == [n \in DOMAIN L |-> Announced(w, "created", L[n], store[w][L[n]])]
  <1>1. /\ stage[s] = "subscribed" /\ stage' = [stage EXCEPT ![s] = "live"]
        /\ replay' = [replay EXCEPT ![s] = R]
        /\ UNCHANGED <<store, unread, lagged, hand, channel, open, view, told>>
    BY DEF Snapshot, storeVars, clientVars
  <1>2. /\ w \in Microgrids /\ L \in Seq(Held(w))
        /\ \A i \in Held(w) : \E n \in 1..Len(L) : L[n] = i
    BY DispatchAssumption, ListedHolds
  <1>3. \A i \in Held(w) : i \in Id /\ store[w][i] # Gone /\ store[w][i] \in Dispatch
    BY <1>2, HeldIsDispatch DEF Held
  <1> HIDE DEF L
  <1>4. \A n \in 1..Len(L) : L[n] \in Held(w)
    BY <1>2
  <1>5. ASSUME NEW n \in 1..Len(L)
        PROVE  /\ Announced(w, "created", L[n], store[w][L[n]]) \in EventsOf(w)
               /\ Announced(w, "created", L[n], store[w][L[n]]) \in Event
    BY <1>2, <1>3, <1>4, AnnouncedIsEvent
  <1>6. DOMAIN L = 1..Len(L) /\ Len(L) \in Nat
    BY <1>2
  <1>7. /\ R \in Seq(EventsOf(w)) /\ R \in Seq(Event) /\ Len(R) = Len(L)
        /\ \A n \in 1..Len(L) : R[n] = Announced(w, "created", L[n], store[w][L[n]])
    BY <1>5, <1>6
  <1>8. /\ stage'[s] = "live" /\ replay'[s] = R
        /\ StreamTypeOK'
    <2> HIDE DEF R
    <2> QED BY <1>1, <1>7, TypesInParts DEF StreamTypeOK
  <1>9. /\ channel[s] = <<>> /\ view[s] = [i \in Id |-> Gone] /\ hand[s] = Nothing
    BY <1>1 DEF Sound, InOrder
  <1>10. InOrder(s)'
    <2> HIDE DEF R
    <2>1. channel'[s] \in Seq(EventsOf(w))
      BY <1>1, <1>9
    <2>2. hand'[s] = Nothing /\ Nothing # DataLoss
      BY <1>1, <1>9, DispatchAssumption DEF Message
    <2> QED BY <1>7, <1>8, <2>1, <2>2 DEF InOrder, Receives
  <1>11. CatchesUp(s)'
    BY <1>8 DEF CatchesUp
  <1>12. ASSUME NEW i \in Id
         PROVE  LastSaid(R, w, i, Gone) = store[w][i]
    <2>1. \A n \in 1..Len(R) : R[n].microgrid = w /\ R[n].id = L[n] /\ Said(R[n]) = store[w][L[n]]
      BY <1>7 DEF Announced, Said
    <2>2. CASE i \in Held(w)
      <3>1. PICK n \in 1..Len(L) : L[n] = i
        BY <1>2, <2>2
      <3>2. R[n].microgrid = w /\ R[n].id = i
        BY <1>7, <2>1, <3>1
      <3> HIDE DEF R
      <3>3. ~IsSilent(R, w, i)
        BY <1>7, <3>2 DEF IsSilent
      <3>4. PICK k \in 1..Len(R) : IsLast(R, w, i, k)
        BY <1>7, <3>3, SaidOrNot
      <3>5. LastSaid(R, w, i, Gone) = Said(R[k])
        BY <1>7, <3>4, LastOneSaid
      <3>6. L[k] = i
        BY <2>1, <3>4 DEF IsLast
      <3> QED BY <2>1, <3>5, <3>6
    <2>3. CASE i \notin Held(w)
      <3>1. store[w][i] = Gone
        BY <2>3 DEF Held
      <3>2. IsSilent(R, w, i)
        BY <1>4, <1>7, <2>1, <2>3 DEF IsSilent
      <3> HIDE DEF R
      <3> QED BY <1>7, <3>1, <3>2, NothingSaid
    <2> QED BY <2>2, <2>3
  <1>13. Converges(s)'
    <2>1. SUFFICES ASSUME open[s], ~lagged[s], NEW i \in Id
                  PROVE  Learns(s, i)' = store[w][i]
      BY <1>1, <1>8 DEF Converges
    <2>2. LastSaid(channel[s], w, i, view[s][i]) = Gone
      BY <1>9, EmptySays
    <2>3. LastSaid(InHand(s), w, i, Gone) = Gone
      BY <1>9, EmptySays DEF InHand
    <2>4. InHand(s)' = InHand(s)
      BY <1>1 DEF InHand
    <2>5. LastSaid(replay'[s], w, i, Gone) = store[w][i]
      BY <1>8, <1>12
    <2>6. LastSaid(unread[s], w, i, store[w][i]) = store[w][i]
      BY <1>1, <2>1 DEF Sound, CatchesUp
    <2> HIDE DEF R
    <2>7. Learns(s, i)' = LastSaid(unread[s], w, i, store[w][i])
      BY <1>1, <2>2, <2>3, <2>4, <2>5 DEF Learns
    <2> QED BY <2>6, <2>7
  <1> QED BY <1>8, <1>10, <1>11, <1>13 DEF Sound

\* An event that was next in line is in the task's hand.
LEMMA ReplayKeeps ==
    ASSUME StreamTypeOK, NEW s \in Streams, Replay(s), Sound(s)
    PROVE  StreamTypeOK' /\ Sound(s)'
  <1> DEFINE w == Watched[s]
             h == Head(replay[s])
  <1>1. /\ stage[s] = "live" /\ hand[s] = Nothing /\ replay[s] # <<>>
        /\ hand' = [hand EXCEPT ![s] = h] /\ replay' = [replay EXCEPT ![s] = Tail(replay[s])]
        /\ UNCHANGED <<store, stage, unread, lagged, channel, open, view, told>>
    BY DEF Replay, Idle, storeVars, clientVars
  <1>2. replay[s] \in Seq(EventsOf(w)) /\ replay[s] \in Seq(Event)
    BY <1>1 DEF Sound, InOrder, StreamTypeOK
  <1>3. /\ h \in EventsOf(w) /\ h \in Event
        /\ Tail(replay[s]) \in Seq(EventsOf(w)) /\ Tail(replay[s]) \in Seq(Event)
    <2>1. h \in EventsOf(w) /\ Tail(replay[s]) \in Seq(EventsOf(w))
      BY <1>1, <1>2, HeadTailProperties
    <2>2. h \in Event /\ Tail(replay[s]) \in Seq(Event)
      BY <1>1, <1>2, HeadTailProperties
    <2> QED BY <2>1, <2>2
  <1>4. h # Nothing /\ h # DataLoss /\ h \in Message
    BY <1>3, DispatchAssumption DEF Message
  <1>5. StreamTypeOK'
    BY <1>1, <1>3, <1>4 DEF StreamTypeOK
  <1>6. hand'[s] = h /\ replay'[s] = Tail(replay[s])
    BY <1>1 DEF StreamTypeOK
  <1> HIDE DEF h
  <1>7. InOrder(s)'
    BY <1>1, <1>3, <1>4, <1>6 DEF Sound, InOrder, Receives
  <1>8. CatchesUp(s)'
    BY <1>1 DEF CatchesUp
  <1>9. ASSUME NEW i \in Id PROVE Learns(s, i)' = Learns(s, i)
    <2> DEFINE before == LastSaid(channel[s], w, i, view[s][i])
    <2>1. /\ LastSaid(InHand(s), w, i, before) = before
          /\ LastSaid(InHand(s)', w, i, before) = Adds(h, w, i, before)
      BY <1>1, <1>4, <1>6, EmptySays, OneSays DEF InHand
    <2>2. LastSaid(replay[s], w, i, before)
            = LastSaid(Tail(replay[s]), w, i, Adds(h, w, i, before))
      BY <1>1, <1>2, TailSays DEF h
    <2>3. LastSaid(replay'[s], w, i, LastSaid(InHand(s)', w, i, before))
            = LastSaid(replay[s], w, i, LastSaid(InHand(s), w, i, before))
      BY <1>6, <2>1, <2>2
    <2> QED BY <1>1, <2>3 DEF Learns
  <1>10. Converges(s)'
    BY <1>1, <1>9 DEF Sound, Converges
  <1> QED BY <1>5, <1>7, <1>8, <1>10 DEF Sound

\* An event of the stream's own microgrid goes to its hand, another's nowhere;
\* a loss comes first.
LEMMA RecvKeeps ==
    ASSUME StreamTypeOK, NEW s \in Streams, Recv(s), Sound(s)
    PROVE  StreamTypeOK' /\ Sound(s)'
  <1> DEFINE w == Watched[s]
  <1>1. /\ stage[s] = "live" /\ hand[s] = Nothing /\ replay[s] = <<>>
        /\ UNCHANGED <<store, stage, lagged, replay, channel, open, view, told>>
    BY DEF Recv, Idle, storeVars, clientVars
  <1>2. CASE lagged[s]
    <2>1. hand' = [hand EXCEPT ![s] = DataLoss] /\ unread' = unread
      BY <1>2 DEF Recv
    <2>2. StreamTypeOK'
      BY <1>1, <2>1 DEF StreamTypeOK, Message
    <2>3. hand'[s] = DataLoss /\ lagged'[s]
      BY <1>1, <1>2, <2>1 DEF StreamTypeOK
    <2>4. InOrder(s)'
      BY <1>1, <2>1, <2>3 DEF Sound, InOrder, Receives
    <2>5. CatchesUp(s)' /\ Converges(s)'
      BY <1>1, <2>3 DEF CatchesUp, Converges
    <2> QED BY <2>2, <2>4, <2>5 DEF Sound
  <1>3. CASE ~lagged[s]
    <2> DEFINE h == Head(unread[s])
               got == IF h.microgrid = w THEN h ELSE Nothing
    <2>1. /\ unread[s] # <<>> /\ unread' = [unread EXCEPT ![s] = Tail(unread[s])]
          /\ hand' = [hand EXCEPT ![s] = got]
      BY <1>3 DEF Recv
    <2>2. unread[s] \in Seq(Event)
      BY DEF StreamTypeOK
    <2>3. h \in Event /\ Tail(unread[s]) \in Seq(Event)
      BY <2>1, <2>2
    <2>4. h # Nothing /\ h # DataLoss /\ h \in Message
      BY <2>3, DispatchAssumption DEF Message
    <2>5. /\ got \in EventsOf(w) \cup {Nothing} /\ got \in Message \cup {Nothing}
          /\ got # DataLoss
      BY <2>3, <2>4, DispatchAssumption DEF EventsOf, Message
    <2>6. hand'[s] = got /\ unread'[s] = Tail(unread[s])
      BY <2>1 DEF StreamTypeOK
    <2>7. ASSUME NEW i \in Id PROVE Learns(s, i)' = Learns(s, i)
      <3> DEFINE before == LastSaid(channel[s], w, i, view[s][i])
      <3>1. /\ LastSaid(InHand(s), w, i, before) = before
            /\ LastSaid(InHand(s)', w, i, before) = Adds(h, w, i, before)
        <4>1. CASE h.microgrid = w
          <5>1. InHand(s) = <<>> /\ InHand(s)' = <<h>>
            BY <1>1, <2>4, <2>6, <4>1 DEF InHand
          <5> QED BY <5>1, EmptySays, OneSays
        <4>2. CASE h.microgrid # w
          <5>1. InHand(s) = <<>> /\ InHand(s)' = <<>>
            BY <1>1, <2>6, <4>2 DEF InHand
          <5> QED BY <4>2, <5>1, EmptySays DEF Adds
        <4> QED BY <4>1, <4>2
      <3>2. LastSaid(unread[s], w, i, before)
              = LastSaid(Tail(unread[s]), w, i, Adds(h, w, i, before))
        BY <2>1, <2>2, TailSays
      <3>3. Learns(s, i) = LastSaid(unread[s], w, i, before)
        BY <1>1, <3>1, EmptySays DEF Learns
      <3>4. Learns(s, i)' = LastSaid(Tail(unread[s]), w, i, Adds(h, w, i, before))
        BY <1>1, <2>6, <3>1, EmptySays DEF Learns
      <3> QED BY <3>2, <3>3, <3>4
    <2> HIDE DEF h, got
    <2>8. StreamTypeOK'
      BY <1>1, <2>1, <2>3, <2>5 DEF StreamTypeOK
    <2>9. InOrder(s)'
      BY <1>1, <2>5, <2>6 DEF Sound, InOrder, Receives
    <2>10. CatchesUp(s)' /\ Converges(s)'
      BY <1>1, <2>7 DEF Sound, CatchesUp, Converges
    <2> QED BY <2>8, <2>9, <2>10 DEF Sound
  <1> QED BY <1>2, <1>3

\* A task that ends holds nothing back.
LEMMA EndedIsSound ==
    ASSUME StreamTypeOK, NEW s \in Streams, Ended(s)
    PROVE  /\ stage'[s] = "ended" /\ InOrder(s)' /\ Sound(s)'
           /\ stage' \in [Streams -> {"unopened", "subscribed", "live", "ended"}]
           /\ unread' \in [Streams -> Seq(Event)]
           /\ lagged' \in [Streams -> BOOLEAN]
           /\ replay' \in [Streams -> Seq(Event)]
           /\ hand' \in [Streams -> Message \cup {Nothing}]
  <1>1. /\ stage'[s] = "ended" /\ unread'[s] = <<>> /\ lagged'[s] = FALSE
        /\ replay'[s] = <<>> /\ hand'[s] = Nothing
    BY DEF Ended, StreamTypeOK
  <1>2. InOrder(s)'
    BY <1>1 DEF InOrder, Receives
  <1>3. Sound(s)'
    BY <1>1, <1>2, NotLive
  <1>4. /\ stage' \in [Streams -> {"unopened", "subscribed", "live", "ended"}]
        /\ unread' \in [Streams -> Seq(Event)]
        /\ lagged' \in [Streams -> BOOLEAN]
        /\ replay' \in [Streams -> Seq(Event)]
        /\ hand' \in [Streams -> Message \cup {Nothing}]
    BY DEF Ended, StreamTypeOK
  <1> QED BY <1>1, <1>2, <1>3, <1>4

\* What was in the task's hand is last in its channel, or the task ends.
LEMMA SendKeeps ==
    ASSUME StreamTypeOK, NEW s \in Streams, SendOn(s), Sound(s)
    PROVE  StreamTypeOK' /\ Sound(s)'
  <1> DEFINE w == Watched[s]
             h == hand[s]
  <1>1. /\ stage[s] = "live" /\ h # Nothing /\ h \in Message
        /\ UNCHANGED <<store, open, view, told>>
        /\ channel' = [channel EXCEPT ![s] = IF open[s] THEN Append(channel[s], h)
                                               ELSE channel[s]]
    BY DEF SendOn, storeVars, clientVars, StreamTypeOK
  <1>2. channel[s] \in Seq(Message) /\ channel[s] \in Seq(EventsOf(w))
    BY <1>1 DEF StreamTypeOK, Sound, InOrder
  <1>3. channel' \in [Streams -> Seq(Message)]
    <2>1. Append(channel[s], h) \in Seq(Message)
      BY <1>1, <1>2
    <2> QED BY <1>1, <1>2, <2>1 DEF StreamTypeOK
  <1>4. CASE open[s] /\ h # DataLoss
    <2>1. /\ hand' = [hand EXCEPT ![s] = Nothing]
          /\ UNCHANGED <<stage, unread, lagged, replay>>
      BY <1>4 DEF SendOn
    <2>2. hand'[s] = Nothing /\ channel'[s] = Append(channel[s], h)
      BY <1>1, <1>4, <2>1 DEF StreamTypeOK
    <2>3. h \in EventsOf(w)
      BY <1>1, <1>4 DEF Sound, InOrder
    <2>4. StreamTypeOK'
      BY <1>1, <1>3, <2>1 DEF StreamTypeOK
    <2>5. InOrder(s)'
      <3>1. channel'[s] \in Seq(EventsOf(w))
        BY <1>2, <2>2, <2>3
      <3>2. Nothing # DataLoss
        BY DispatchAssumption DEF Message
      <3> QED BY <1>1, <2>1, <2>2, <3>1, <3>2 DEF Sound, InOrder, Receives
    <2>6. CatchesUp(s)'
      BY <1>1, <2>1 DEF CatchesUp
    <2>7. ASSUME NEW i \in Id PROVE Learns(s, i)' = Learns(s, i)
      <3> DEFINE before == LastSaid(channel[s], w, i, view[s][i])
      <3>1. InHand(s) = <<h>> /\ InHand(s)' = <<>>
        BY <1>1, <2>2 DEF InHand
      <3>2. LastSaid(channel'[s], w, i, view[s][i]) = Adds(h, w, i, before)
        BY <1>2, <2>2, <2>3, AppendSays
      <3>3. LastSaid(InHand(s), w, i, before) = Adds(h, w, i, before)
        BY <3>1, OneSays
      <3>4. \A b : LastSaid(InHand(s)', w, i, b) = b
        BY <3>1, EmptySays
      <3>5. Learns(s, i) = LastSaid(unread[s], w, i,
                                LastSaid(replay[s], w, i, Adds(h, w, i, before)))
        BY <3>3 DEF Learns
      <3>6. Learns(s, i)' = LastSaid(unread[s], w, i,
                                LastSaid(replay[s], w, i, Adds(h, w, i, before)))
        <4> HIDE DEF before, h
        <4> QED BY <1>1, <2>1, <3>2, <3>4 DEF Learns
      <3> QED BY <3>5, <3>6
    <2>8. Converges(s)'
      BY <1>1, <2>1, <2>7 DEF Sound, Converges
    <2> QED BY <2>4, <2>5, <2>6, <2>8 DEF Sound
  <1>5. CASE ~(open[s] /\ h # DataLoss)
    <2>1. Ended(s)
      BY <1>5 DEF SendOn
    <2> QED BY <1>1, <1>3, <2>1, EndedIsSound DEF StreamTypeOK
  <1> QED BY <1>4, <1>5

LEMMA NoticeKeeps ==
    ASSUME StreamTypeOK, NEW s \in Streams, NoticeClosed(s)
    PROVE  StreamTypeOK' /\ Sound(s)'
  <1>1. Ended(s) /\ UNCHANGED <<channel, open, view, told>>
    BY DEF NoticeClosed, clientVars
  <1> QED BY <1>1, EndedIsSound DEF StreamTypeOK

\* What the client reads it knows, and it was next on its way.
LEMMA ReadKeeps ==
    ASSUME StreamTypeOK, NEW s \in Streams, ClientReads(s), Sound(s)
    PROVE  StreamTypeOK' /\ Sound(s)'
  <1> DEFINE w == Watched[s]
             h == Head(channel[s])
  <1>1. /\ channel[s] # <<>> /\ channel' = [channel EXCEPT ![s] = Tail(channel[s])]
        /\ UNCHANGED <<store, stage, unread, lagged, replay, hand, open>>
    BY DEF ClientReads, storeVars
  <1>2. channel[s] \in Seq(Message)
    BY DEF StreamTypeOK
  <1>3. h \in Message /\ Tail(channel[s]) \in Seq(Message)
    BY <1>1, <1>2
  <1>4. channel' \in [Streams -> Seq(Message)] /\ channel'[s] = Tail(channel[s])
    BY <1>1, <1>3 DEF StreamTypeOK
  <1>5. CASE h = DataLoss
    <2>1. told' = [told EXCEPT ![s] = TRUE] /\ view' = view
      BY <1>5 DEF ClientReads
    <2>2. StreamTypeOK'
      BY <1>1, <1>4, <2>1 DEF StreamTypeOK
    <2>3. stage[s] # "live"
      <3>1. stage[s] = "live" => h \in EventsOf(w)
        BY <1>1 DEF Sound, InOrder
      <3> QED BY <1>5, <3>1, DispatchAssumption DEF EventsOf
    <2>4. stage[s] \notin {"unopened", "subscribed"}
      BY <1>1 DEF Sound, InOrder
    <2>5. InOrder(s)'
      BY <1>1, <2>3, <2>4 DEF Sound, InOrder, Receives
    <2> QED BY <1>1, <2>2, <2>3, <2>4, <2>5, NotLive
  <1>6. CASE h # DataLoss
    <2>1. told' = told /\ view' = [view EXCEPT ![s] = After(view[s], h)]
      BY <1>6 DEF ClientReads
    <2>2. h \in Event
      BY <1>3, <1>6 DEF Message
    <2>3. Said(h) \in Known /\ h.id \in Id
      BY <2>2 DEF Said, Known, Event
    <2>4. After(view[s], h) \in [Id -> Known]
      BY <2>3 DEF After, StreamTypeOK
    <2>5. StreamTypeOK' /\ view'[s] = After(view[s], h)
      BY <1>1, <1>4, <2>1, <2>4 DEF StreamTypeOK
    <2>6. stage[s] \notin {"unopened", "subscribed"}
      BY <1>1 DEF Sound, InOrder
    <2>7. InOrder(s)'
      <3>1. stage[s] = "live" => Tail(channel[s]) \in Seq(EventsOf(w))
        <4>1. stage[s] = "live" => channel[s] \in Seq(EventsOf(w))
          BY DEF Sound, InOrder
        <4> QED BY <1>1, <4>1, HeadTailProperties
      <3> QED BY <1>1, <1>4, <2>6, <3>1 DEF Sound, InOrder, Receives
    <2>8. CASE stage[s] # "live"
      BY <1>1, <2>5, <2>6, <2>7, <2>8, NotLive
    <2>9. CASE stage[s] = "live"
      <3>1. h \in EventsOf(w)
        BY <1>1, <2>9 DEF Sound, InOrder
      <3>2. ASSUME NEW i \in Id PROVE Learns(s, i)' = Learns(s, i)
        <4>1. LastSaid(channel[s], w, i, view[s][i])
                = LastSaid(Tail(channel[s]), w, i, Adds(h, w, i, view[s][i]))
          BY <1>1, <1>2, TailSays
        <4>2. view'[s][i] = Adds(h, w, i, view[s][i])
          <5>1. h.microgrid = w
            BY <3>1 DEF EventsOf
          <5>2. view[s] \in [Id -> Known]
            BY DEF StreamTypeOK
          <5>3. After(view[s], h)[i] = IF h.id = i THEN Said(h) ELSE view[s][i]
            BY <2>3, <5>2 DEF After
          <5> QED BY <2>5, <5>1, <5>3 DEF Adds
        <4>3. LastSaid(channel'[s], w, i, view'[s][i]) = LastSaid(channel[s], w, i, view[s][i])
          BY <1>4, <4>1, <4>2
        <4>4. InHand(s)' = InHand(s)
          BY <1>1 DEF InHand
        <4> QED BY <1>1, <4>3, <4>4 DEF Learns
      <3>3. CatchesUp(s)'
        BY <1>1, <2>9 DEF CatchesUp
      <3>4. Converges(s)'
        BY <1>1, <3>2 DEF Sound, Converges
      <3> QED BY <2>5, <2>7, <3>3, <3>4 DEF Sound
    <2> QED BY <2>5, <2>8, <2>9
  <1> QED BY <1>5, <1>6

LEMMA LeaveKeeps ==
    ASSUME StreamTypeOK, NEW s \in Streams, ClientLeaves(s), Sound(s)
    PROVE  StreamTypeOK' /\ Sound(s)'
  <1>1. /\ open' = [open EXCEPT ![s] = FALSE]
        /\ channel' = [channel EXCEPT ![s] = <<>>]
        /\ view' = [view EXCEPT ![s] = [i \in Id |-> Gone]]
        /\ UNCHANGED <<store, stage, unread, lagged, replay, hand, told>>
    BY DEF ClientLeaves, storeVars
  <1>2. StreamTypeOK'
    BY <1>1 DEF StreamTypeOK, Known
  <1>3. ~open'[s] /\ channel'[s] = <<>> /\ view'[s] = [i \in Id |-> Gone]
    BY <1>1 DEF StreamTypeOK
  <1>4. InOrder(s)'
    <2>1. <<>> \in Seq(EventsOf(Watched[s]))
      OBVIOUS
    <2> QED BY <1>1, <1>3, <2>1 DEF Sound, InOrder, Receives
  <1>5. CatchesUp(s)'
    BY <1>1 DEF Sound, CatchesUp
  <1>6. Converges(s)'
    BY <1>3 DEF Converges
  <1> QED BY <1>2, <1>4, <1>5, <1>6 DEF Sound

\* A step of a stream or its client touches no other stream.
StreamStep(s) == Subscribe(s) \/ Task(s) \/ ClientReads(s) \/ ClientLeaves(s)

LEMMA StreamStepsKeepOthers ==
    ASSUME StreamTypeOK, NEW s \in Streams, StreamStep(s), NEW other \in Streams, other # s
    PROVE  /\ stage'[other] = stage[other] /\ unread'[other] = unread[other]
           /\ lagged'[other] = lagged[other] /\ replay'[other] = replay[other]
           /\ hand'[other] = hand[other] /\ channel'[other] = channel[other]
           /\ open'[other] = open[other] /\ view'[other] = view[other]
  <1>1. CASE Subscribe(s)
    BY <1>1 DEF Subscribe, StreamTypeOK
  <1>2. CASE Snapshot(s)
    BY <1>2 DEF Snapshot, StreamTypeOK, clientVars
  <1>3. CASE Replay(s)
    BY <1>3 DEF Replay, StreamTypeOK, clientVars
  <1>4. CASE Recv(s)
    BY <1>4 DEF Recv, StreamTypeOK, clientVars
  <1>5. CASE SendOn(s)
    BY <1>5 DEF SendOn, Ended, StreamTypeOK, clientVars
  <1>6. CASE NoticeClosed(s)
    BY <1>6 DEF NoticeClosed, Ended, StreamTypeOK, clientVars
  <1>7. CASE ClientReads(s)
    BY <1>7 DEF ClientReads, StreamTypeOK
  <1>8. CASE ClientLeaves(s)
    BY <1>8 DEF ClientLeaves, StreamTypeOK
  <1> QED BY <1>1, <1>2, <1>3, <1>4, <1>5, <1>6, <1>7, <1>8 DEF StreamStep, Task

LEMMA StreamStepsKeepStore ==
    ASSUME NEW s, StreamStep(s)
    PROVE  UNCHANGED storeVars
  BY DEF StreamStep, Task, Subscribe, Snapshot, Replay, Recv, SendOn, NoticeClosed,
         ClientReads, ClientLeaves, storeVars

LEMMA StreamStepsKeepStreams ==
    ASSUME DispatchTypeOK, NEW s \in Streams, StreamStep(s), \A t \in Streams : Sound(t)
    PROVE  StreamTypeOK' /\ \A t \in Streams : Sound(t)'
  <1>1. StreamTypeOK
    BY TypesInParts
  <1>2. Sound(s) /\ InOrder(s)
    BY DEF Sound
  <1>3. StreamTypeOK' /\ Sound(s)'
    BY <1>1, <1>2, SubscribeKeeps, SnapshotKeeps, ReplayKeeps, RecvKeeps, SendKeeps,
       NoticeKeeps, ReadKeeps, LeaveKeeps DEF StreamStep, Task
  <1>4. ASSUME NEW t \in Streams, t # s
        PROVE  Sound(t)'
    <2>1. \A i \in Id : store'[Watched[t]][i] = store[Watched[t]][i]
      BY StreamStepsKeepStore DEF storeVars
    <2> QED BY <1>1, <1>4, <2>1, StreamStepsKeepOthers, LeftAlone
  <1> QED BY <1>3, <1>4

LEMMA StoreStepsKeepStreams ==
    ASSUME DispatchTypeOK, StoreSteps, \A s \in Streams : Sound(s)
    PROVE  StreamTypeOK' /\ \A s \in Streams : Sound(s)'
  <1>1. ASSUME NEW m \in Microgrids, NEW d \in NewData, Create(m, d)
        PROVE  StreamTypeOK' /\ \A s \in Streams : Sound(s)'
    <2>1. UNCHANGED <<store, stage, unread, lagged, replay, hand, channel, open, view, told>>
      BY <1>1 DEF Create, streamVars, clientVars
    <2>2. StreamTypeOK'
      BY <2>1, TypesInParts DEF StreamTypeOK
    <2> QED BY <2>1, <2>2, LeftAlone
  <1>2. ASSUME NEW c \in creating, Insert(c)
        PROVE  StreamTypeOK' /\ \A s \in Streams : Sound(s)'
    BY <1>2, InsertWrites, WritesKeepStreams
  <1>3. ASSUME NEW m, NEW i, NEW masked, NEW u, Updating(m, i, masked, u)
        PROVE  StreamTypeOK' /\ \A s \in Streams : Sound(s)'
    <2> DEFINE d == Stamped(Merged(store[m][i].data, masked, u))
               e == Announced(m, "updated", i, d)
    <2>1. Writes(m, i, d, e)
      BY <1>3, UpdateWrites
    <2> HIDE DEF d, e
    <2> QED BY <2>1, WritesKeepStreams
  <1>4. ASSUME NEW m \in Microgrids, NEW i \in Id, Delete(m, i)
        PROVE  StreamTypeOK' /\ \A s \in Streams : Sound(s)'
    BY <1>4, DeleteWrites, WritesKeepStreams
  <1> QED BY <1>1, <1>2, <1>3, <1>4 DEF StoreSteps

-----------------------------------------------------------------------------
(* The theorems *)

LEMMA InvInParts ==
    /\ DispatchIInv <=> DispatchTypeOK /\ StoreInv /\ \A s \in Streams : Sound(s)
    /\ DispatchIInv' <=> DispatchTypeOK' /\ StoreInv' /\ \A s \in Streams : Sound(s)'
  BY TypesInParts DEF DispatchIInv, StoreInv, Sound, ViewConverges

LEMMA DispatchStarts == DispatchInit => DispatchIInv
  <1> SUFFICES ASSUME DispatchInit PROVE DispatchIInv
    OBVIOUS
  <1>1. DispatchTypeOK
    <2>1. 1 \in 1..(MaxId + 1) /\ 0 \in 0..MaxChanges
      BY DispatchAssumption
    <2>2. Gone \in Known
      BY DEF Known
    <2> QED BY <2>1, <2>2 DEF DispatchInit, DispatchTypeOK
  <1>2. StoreInv
    BY <1>1, TypesInParts DEF StoreInv, IdsAreUsedOnce, NoLostUpdate, DispatchInit
  <1>3. ASSUME NEW s \in Streams PROVE Sound(s)
    BY DEF Sound, InOrder, CatchesUp, Converges, DispatchInit, Receives
  <1> QED BY <1>1, <1>2, <1>3, InvInParts

LEMMA DispatchSteps == DispatchIInv /\ [DispatchNext]_dispatchVars => DispatchIInv'
  <1> SUFFICES ASSUME DispatchIInv, [DispatchNext]_dispatchVars
              PROVE  DispatchIInv'
    OBVIOUS
  <1>1. DispatchTypeOK /\ StoreTypeOK /\ StreamTypeOK /\ StoreInv
        /\ \A s \in Streams : Sound(s)
    BY InvInParts, TypesInParts
  <1>2. CASE Requests
    <2>1. StoreSteps
      BY <1>2, RequestsAreStoreSteps
    <2>2. StoreInv' /\ StreamTypeOK' /\ \A s \in Streams : Sound(s)'
      BY <1>1, <2>1, StoreStepsKeepStore, StoreStepsKeepStreams
    <2> QED BY <2>2, InvInParts, TypesInParts DEF StoreInv
  <1>3. ASSUME NEW s \in Streams, StreamStep(s)
        PROVE  DispatchIInv'
    <2>1. UNCHANGED storeVars
      BY <1>3, StreamStepsKeepStore
    <2>2. StoreInv'
      BY <1>1, <2>1 DEF StoreInv, StoreTypeOK, IdsAreUsedOnce, NoLostUpdate, storeVars
    <2>3. StreamTypeOK' /\ \A t \in Streams : Sound(t)'
      BY <1>1, <1>3, StreamStepsKeepStreams
    <2> QED BY <2>2, <2>3, InvInParts, TypesInParts DEF StoreInv
  <1>4. CASE UNCHANGED dispatchVars
    <2>1. UNCHANGED <<store, nextId, creating, asked, changes>>
      BY <1>4 DEF dispatchVars, storeVars
    <2>2. UNCHANGED <<stage, unread, lagged, replay, hand, channel, open, view, told>>
      BY <1>4 DEF dispatchVars, streamVars, clientVars
    <2>3. StoreInv'
      BY <1>1, <2>1 DEF StoreInv, StoreTypeOK, IdsAreUsedOnce, NoLostUpdate
    <2>4. StreamTypeOK'
      BY <1>1, <2>2 DEF StreamTypeOK
    <2>5. \A s \in Streams : Sound(s)'
      BY <1>1, <2>1, <2>2, LeftAlone
    <2> QED BY <2>3, <2>4, <2>5, InvInParts, TypesInParts DEF StoreInv
  <1> QED BY <1>2, <1>3, <1>4 DEF DispatchNext, StreamStep

\* The dispatch store, its streams and their clients keep the inductive
\* invariant, for any number of microgrids, dispatches and streams and any size
\* of the ring and the channels.
THEOREM DispatchIsSound == DispatchSpec => []DispatchIInv
  BY DispatchStarts, DispatchSteps, PTL DEF DispatchSpec

\* Concurrent creates, updates, pauses and deletes of dispatches lose nothing:
\* what is held of a dispatch is what was asked of it, field by field.
THEOREM UpdatesStand == DispatchSpec => []NoLostUpdate
  <1>1. DispatchIInv => NoLostUpdate
    BY DEF DispatchIInv
  <1> QED BY <1>1, DispatchIsSound, PTL

\* Whatever changes while a stream subscribes, takes its snapshot and replays it,
\* a client that reads all that is on its way knows the store, unless it lost
\* events.
THEOREM ClientsConverge == DispatchSpec => []ViewConverges
  <1>1. DispatchIInv => ViewConverges
    BY DEF DispatchIInv
  <1> QED BY <1>1, DispatchIsSound, PTL
=============================================================================
