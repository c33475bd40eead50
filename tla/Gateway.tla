------------------------------ MODULE Gateway -------------------------------
(***************************************************************************)
(* The Microgrid API gateway of one site (src/src/sim/gateway.rs, its step *)
(* and its axes): setpoints with a request lifetime, time-limited bounds    *)
(* augmentations, the command delay and the ramp, against registrations,    *)
(* removals and resets of the registry the gateway reads.                   *)
(*                                                                          *)
(* Time is relative: a deadline is kept as the ticks left before it, down   *)
(* to 0 (passed), so the state is finite without a bound on the clock.      *)
(* A request's run generation is module SiteRun's: a refused request leaves *)
(* the gateway as it was.                                                   *)
(***************************************************************************)
EXTENDS DelayOps, BandSets, FiniteSets, Functions

CONSTANTS
    Id,                 \* component ids
    Key,                \* the axes commands are taken on: pairs <<id, axis>>
    Reactive,           \* the reactive ones, whose base follows the live P
    Keeps,              \* those that keep their command through a fault
    Follows,            \* those whose bounds follow the physical band
    IdleValue,          \* the power an axis idles at, None to hold
    Initial,            \* the component's initial value on the axis
    Rate,               \* the most a ramp moves in a tick
    Base,               \* the bases a component can have on an axis
    Physical,           \* the physical bands it can have
    Share,              \* the window shares an active axis can be given
    Narrowing,          \* the bands of an augmentation
    Children,           \* the summed bounds of a component's children
    Life,               \* request lifetimes, in ticks
    MaxLife,            \* the longest of them
    MaxAugs             \* stored augmentations per axis, a bound of the model

ASSUME KeyAssumption ==
    /\ Key \subseteq Id \X {"active", "reactive"}
    /\ Reactive \subseteq Key /\ Keeps \subseteq Key /\ Follows \subseteq Key

ASSUME ValueAssumption ==
    /\ Value = Power
    /\ IdleValue \in [Key -> Power \cup {None}]
    /\ Initial \in [Key -> Power]
    /\ Rate \in Nat

ASSUME BandAssumption ==
    /\ Base \subseteq SUBSET Power
    /\ Narrowing \subseteq SUBSET Power
    /\ Children \subseteq (SUBSET Power) \cup {None}

\* Physical bands and shares are single bands that span 0.
ASSUME SpanAssumption ==
    \A band \in Physical \cup Share : \E lo, hi \in Power :
        lo <= 0 /\ 0 <= hi /\ band = lo..hi

ASSUME LifeAssumption ==
    /\ MaxLife \in Nat
    /\ Life \subseteq 0..MaxLife       \* 0 expires at the next tick
    /\ None \notin 0..MaxLife

IdOf(k) == k[1]

Phases == {"idle", "registering", "removing", "resetting"}

VARIABLES
    phase,          \* what the thread with the interpreter lock is at
    subject,        \* the component it is at, for a registration or removal
    registered,     \* the ids the registry hands out
    health,         \* health of each component: whether it is Ok
    base,           \* each axis's rated band, or its capability at the live P
    physical,       \* each axis's physical band
    axes,           \* the axes the gateway owns
    lifetimes,      \* ticks left of each armed request lifetime
    augs,           \* the augmentations stored for each axis
    delay,          \* each axis's command delay
    aim,            \* each axis's ramp target
    actual          \* each axis's ramp output, what its device is handed

registry == <<phase, subject, registered>>
site == <<health, base, physical>>
gateway == <<axes, lifetimes, augs, delay, aim, actual>>
vars == <<registry, site, gateway>>

Augmentation == [band : Narrowing, left : 0..MaxLife]

TypeOK ==
    /\ phase \in Phases
    /\ subject \in Id
    /\ registered \subseteq Id
    /\ health \in [Id -> BOOLEAN]
    /\ base \in [Key -> Base]
    /\ physical \in [Key -> Physical]
    /\ axes \subseteq Key
    /\ lifetimes \in [Key -> (0..MaxLife) \cup {None}]
    /\ augs \in [Key -> SUBSET Augmentation]
    /\ delay \in [Key -> DelayLine]
    /\ aim \in [Key -> Power]
    /\ actual \in [Key -> Power]
Init ==
    /\ phase = "idle"
    /\ subject \in Id
    /\ registered = {}
    /\ health = [i \in Id |-> TRUE]
    /\ base \in [Key -> Base]
    /\ physical \in [Key -> Physical]
    /\ axes = {}
    /\ lifetimes = [k \in Key |-> None]
    /\ augs = [k \in Key |-> {}]
    /\ delay = [k \in Key |-> NoCommand]
    /\ aim = Initial
    /\ actual = Initial

-----------------------------------------------------------------------------
(* Envelopes *)

Found(k) == IdOf(k) \in registered

\* Augmentations past their deadline do not count, reaped or not.
Live(k) == {a \in augs[k] : a.left > 0}

Validation(k) == {v \in base[k] : \A a \in Live(k) : v \in a.band}

WithPhysical(k) == Validation(k) \cap physical[k]

\* The rated band alone, whatever narrows it already.
CommandableUnaugmented(k) == base[k]

\* What an axis can still be commanded, where its bounds follow the band.
Commandable(k) == IF k \in Follows THEN WithPhysical(k) ELSE Validation(k)

Reported(k) ==
    IF k \in Reactive THEN OrZeroBand(Commandable(k)) ELSE Commandable(k)

\* Its own bounds, within its children's when any child reports some.
SetpointEnvelope(k, children) ==
    IF children = None THEN Reported(k) ELSE Reported(k) \cap children

-----------------------------------------------------------------------------
(* Requests *)

PassesGate(k, asked, children) ==
    asked = 0 \/ children = None \/ asked \in SetpointEnvelope(k, children)

\* Accept v on the axis, with a lifetime of its own.
Accept(k, v, life) ==
    /\ v = 0 \/ v \in Validation(k)
    /\ delay' = [delay EXCEPT ![k] = SetTarget(@, v)]
    /\ lifetimes' = [lifetimes EXCEPT ![k] = life]
    /\ UNCHANGED <<registry, site, axes, augs, aim, actual>>

\* Health is no guard: it is checked before the gateway lock is taken.
SetPowerReject(k, asked, children, life) ==
    /\ Found(k) /\ k \in axes
    /\ PassesGate(k, asked, children)
    /\ Accept(k, asked, life)

SetPowerClamp(k, asked, children, life) ==
    /\ Found(k) /\ k \in axes
    /\ Accept(k, ClampOrPark(SetpointEnvelope(k, children), asked), life)

SetPower(k) ==
    \E asked \in Power, children \in Children, life \in Life :
        \/ SetPowerReject(k, asked, children, life)
        \/ SetPowerClamp(k, asked, children, life)

Augment(k, band, life) ==
    /\ Found(k) /\ k \in axes
    /\ Commandable(k) \cap band # {}
    /\ Cardinality(augs[k]) < MaxAugs
    /\ augs' = [augs EXCEPT ![k] = @ \cup {[band |-> band, left |-> life]}]
    /\ UNCHANGED <<registry, site, axes, lifetimes, delay, aim, actual>>

-----------------------------------------------------------------------------
(* The physics tick *)

\* Gone only once the deadline is behind the tick.
ExpiredLate(k) == lifetimes[k] # None /\ lifetimes[k] < 0

\* One expiry for the whole component.
ExpiredOnAnyAxis(k) == \E j \in Key : IdOf(j) = IdOf(k) /\ lifetimes[j] = 0

Expired(k) == lifetimes[k] = 0

\* A faulted axis left to the trip.
ExpiresIfHealthy(k) ==
    Expired(k) /\ k \in axes /\ Found(k) /\ health[IdOf(k)]

\* An expired command is cleared only while its component can be found.
Expires(k) == Expired(k) /\ k \in axes /\ Found(k)

Trips(k) == k \in axes /\ Found(k) /\ ~health[IdOf(k)]
Runs(k)  == k \in axes /\ Found(k) /\ health[IdOf(k)]

Forgets(k) == Trips(k) /\ k \notin Keeps

\* The power an expired axis ramps toward, 0 when it has no idle value.
RestValue(k) == IF IdleValue[k] = None THEN 0 ELSE IdleValue[k]

\* The command delay and the ramp target once expiry is dealt with.
DelayLeft(k) == IF Expires(k) THEN NoCommand ELSE delay[k]
AimLeft(k)   == IF Expires(k) THEN RestValue(k) ELSE aim[k]

Target(k) ==
    LET armed == Poll(DelayLeft(k)).armed
    IN  IF armed # None THEN armed ELSE IdleValue[k]

\* The share without the side: a closed side pulls to the other one.
NarrowedAcross(k, v, share) == ClampOrPark(WithPhysical(k) \cap share, v)

\* Clamp, then narrow toward 0 by the share, parking rather than crossing it.
Narrowed(k, v, share) ==
    ClampOrPark(WithPhysical(k) \cap share \cap SideOf(v), v)

NextAim(k, share) ==
    IF Target(k) = None THEN AimLeft(k)
    ELSE Narrowed(k, ClampOrPark(WithPhysical(k), Target(k)), share)

\* A full step even when less would do, where the range has room for it.
SlewPast(from, to) ==
    LET stepped == IF from < to THEN from + Rate ELSE from - Rate
    IN  IF from = to \/ stepped \notin Power THEN to ELSE stepped

Slew(from, to) ==
    IF Distance(from, to) <= Rate THEN to
    ELSE IF from < to THEN from + Rate ELSE from - Rate

HeldIn(band, v) == IF v \in band THEN v ELSE ClampOrPark(band, v)

\* The share narrows the aim but does not hold the output.
NextActualUnshared(k, to, share) == HeldIn(physical[k], Slew(actual[k], to))

NextActual(k, to, share) ==
    HeldIn(share, HeldIn(physical[k], Slew(actual[k], to)))

\* Reactive axes have no share.
ShareOf(k, shares) == IF k \in Reactive THEN Power ELSE shares[k]

\* One whole tick under the gateway lock.  An axis that is not found is left
\* alone, except that its expired lifetime is gone.
Step(shares) ==
    /\ lifetimes' = [k \in Key |->
           IF Expired(k) \/ Forgets(k) THEN None ELSE lifetimes[k]]
    /\ augs' = [k \in Key |-> Live(k)]
    /\ delay' = [k \in Key |->
           IF Forgets(k) THEN NoCommand
           ELSE IF Runs(k) THEN Poll(DelayLeft(k)) ELSE DelayLeft(k)]
    /\ aim' = [k \in Key |->
           IF Trips(k) THEN 0
           ELSE IF Runs(k) THEN NextAim(k, ShareOf(k, shares)) ELSE aim[k]]
    /\ actual' = [k \in Key |->
           IF Trips(k) THEN 0
           ELSE IF Runs(k) THEN NextActual(k, aim'[k], ShareOf(k, shares))
           ELSE actual[k]]
    /\ UNCHANGED <<registry, site, axes>>

\* What shares() makes of the batteries' room is an input here.
Tick == \E shares \in [Key -> Share] : Step(shares)

Clock ==
    /\ lifetimes' = [k \in Key |->
           IF lifetimes[k] = None \/ Expired(k) THEN lifetimes[k]
           ELSE lifetimes[k] - 1]
    /\ augs' = [k \in Key |->
           {[band |-> a.band, left |-> IF a.left = 0 THEN 0 ELSE a.left - 1]
               : a \in augs[k]}]
    /\ delay' = [k \in Key |-> Aged(delay[k])]
    /\ UNCHANGED <<registry, site, axes, aim, actual>>

-----------------------------------------------------------------------------
(* Registration, removal and reset, one at a time *)

KeysOf(i) == {k \in Key : IdOf(k) = i}

\* f with every axis in K back to g.
Restored(f, K, g) == [k \in Key |-> IF k \in K THEN g[k] ELSE f[k]]

\* The axes go, their lifetimes stay armed.
DropButLifetimes(K) ==
    /\ augs' = Restored(augs, K, [k \in Key |-> {}])
    /\ delay' = Restored(delay, K, [k \in Key |-> NoCommand])
    /\ aim' = Restored(aim, K, Initial)
    /\ actual' = Restored(actual, K, Initial)
    /\ UNCHANGED lifetimes

\* Drop all that is held for the axes in K.
Drop(K) ==
    /\ lifetimes' = Restored(lifetimes, K, [k \in Key |-> None])
    /\ augs' = Restored(augs, K, [k \in Key |-> {}])
    /\ delay' = Restored(delay, K, [k \in Key |-> NoCommand])
    /\ aim' = Restored(aim, K, Initial)
    /\ actual' = Restored(actual, K, Initial)

\* The gateway is set up before the newcomer can be found.
OnRegister(i) ==
    /\ phase = "idle" /\ i \notin registered
    /\ phase' = "registering" /\ subject' = i
    /\ Drop(KeysOf(i))
    /\ axes' = axes \cup KeysOf(i)
    /\ \E b \in [Key -> Base], p \in [Key -> Physical] :
           /\ base' = Restored(base, KeysOf(i), b)
           /\ physical' = Restored(physical, KeysOf(i), p)
    /\ UNCHANGED <<registered, health>>

InsertById ==
    /\ phase = "registering"
    /\ phase' = "idle"
    /\ registered' = registered \cup {subject}
    /\ UNCHANGED <<subject, site, gateway>>

\* The gateway's part first, while the component can still be found.
ForgetFirst(i) ==
    /\ phase = "idle" /\ i \in registered
    /\ phase' = "removing" /\ subject' = i
    /\ Drop(KeysOf(i))
    /\ axes' = axes \ KeysOf(i)
    /\ UNCHANGED <<registered, site>>

RemoveById(i) ==
    /\ phase = "idle" /\ i \in registered
    /\ phase' = "removing" /\ subject' = i
    /\ registered' = registered \ {i}
    /\ UNCHANGED <<site, gateway>>

\* The runtime row goes with what the gateway holds.
Forget ==
    /\ phase = "removing"
    /\ phase' = "idle"
    /\ Drop(KeysOf(subject))
    /\ axes' = axes \ KeysOf(subject)
    /\ health' = [health EXCEPT ![subject] = TRUE]
    /\ UNCHANGED <<subject, registered, base, physical>>

ClearById ==
    /\ phase = "idle"
    /\ phase' = "resetting"
    /\ registered' = {}
    /\ UNCHANGED <<subject, site, gateway>>

ClearGateway ==
    /\ phase = "resetting"
    /\ phase' = "idle"
    /\ Drop(Key)
    /\ axes' = {}
    /\ health' = [i \in Id |-> TRUE]
    /\ UNCHANGED <<subject, registered, base, physical>>

-----------------------------------------------------------------------------
(* What moves outside the gateway *)

SetHealth(i) ==
    /\ i \in registered
    /\ health' = [health EXCEPT ![i] = ~@]
    /\ UNCHANGED <<registry, base, physical, gateway>>

PhysicalMoves(k) ==
    /\ Found(k)
    /\ \E p \in Physical : physical' = [physical EXCEPT ![k] = p]
    /\ UNCHANGED <<registry, health, base, gateway>>

\* A reactive capability is read at the live P.
BaseMoves(k) ==
    /\ Found(k) /\ k \in Reactive
    /\ \E b \in Base : base' = [base EXCEPT ![k] = b]
    /\ UNCHANGED <<registry, health, physical, gateway>>

Next ==
    \/ Clock
    \/ Tick
    \/ InsertById
    \/ Forget
    \/ ClearById
    \/ ClearGateway
    \/ \E i \in Id : OnRegister(i) \/ RemoveById(i) \/ SetHealth(i)
    \/ \E k \in Key : SetPower(k) \/ PhysicalMoves(k) \/ BaseMoves(k)
    \/ \E k \in Key, band \in Narrowing, life \in Life : Augment(k, band, life)

Spec == Init /\ [][Next]_vars

\* Time passes, the physics task ticks, and a registration, removal or reset
\* once begun runs to its end.  Nobody has to command anything.
Fairness ==
    /\ WF_vars(Clock)
    /\ WF_vars(Tick)
    /\ WF_vars(InsertById)
    /\ WF_vars(Forget)
    /\ WF_vars(ClearGateway)

LiveSpec == Spec /\ Fairness
-----------------------------------------------------------------------------
(***************************************************************************)
(* A component that can be found has a command on an axis exactly as long   *)
(* as a request lifetime is armed for it: no command outlives its lifetime  *)
(* unnoticed, through expiry, faults that keep the command or drop it, and  *)
(* registry changes between any two of them.                                *)
(***************************************************************************)
CommandHasLifetime ==
    \A k \in Key : Found(k) => (HasCommand(delay[k]) <=> lifetimes[k] # None)

(***************************************************************************)
(* A setpoint that finds a component also finds its axes, so a reader       *)
(* racing a registration or removal gets "not found", never "unsupported".  *)
(***************************************************************************)
FoundWithItsAxes == \A k \in Key : Found(k) => k \in axes

(***************************************************************************)
(* Nothing survives a removal or a reset: no request or tick that raced it  *)
(* leaves an axis, a command, an augmentation or a lifetime for a later     *)
(* component of the same id to inherit.                                     *)
(***************************************************************************)
NothingLeftBehind ==
    phase = "idle" =>
        \A k \in Key : ~Found(k) =>
            /\ k \notin axes
            /\ lifetimes[k] = None /\ augs[k] = {} /\ delay[k] = NoCommand

(***************************************************************************)
(* The inductive invariant behind the three above: it says where a          *)
(* registration, removal or reset is between its two steps.  A component    *)
(* that has left the registry may still hold its axes until the second.     *)
(***************************************************************************)
Unheld(k) == lifetimes[k] = None /\ augs[k] = {} /\ delay[k] = NoCommand

Entering(k) == phase = "registering" /\ subject = IdOf(k)

Leaving(k) ==
    \/ phase = "resetting"
    \/ phase = "removing" /\ subject = IdOf(k)

Lifecycle ==
    /\ phase \in {"registering", "removing"} => subject \notin registered
    /\ phase = "resetting" => registered = {}
    /\ \A k \in Key : ~Found(k) /\ ~Leaving(k) =>
           Unheld(k) /\ (k \in axes <=> Entering(k))

IInv == TypeOK /\ Lifecycle /\ CommandHasLifetime /\ FoundWithItsAxes

(***************************************************************************)
(* Augmentations accepted one by one never exclude each other: while the    *)
(* base of an axis stands still, some power inside it is inside every live  *)
(* augmentation too, whichever of them have expired or been reaped since.   *)
(***************************************************************************)
NeverBoxedIn ==
    \A k \in Key \ Reactive : Found(k) /\ Live(k) # {} => Validation(k) # {}

(***************************************************************************)
(* A command ends for a reason of its own: its lifetime ran out, its own    *)
(* component faulted and does not keep it, or its component went away.      *)
(* Nothing that happens to the other axis or another component ends it.     *)
(***************************************************************************)
OnlyOwnCauseEndsCommand ==
    [][\A k \in Key : Found(k) /\ HasCommand(delay[k]) /\ ~HasCommand(delay'[k]) =>
           \/ lifetimes[k] = 0
           \/ ~health[IdOf(k)] /\ k \notin Keeps
           \/ ~Found(k)']_vars

(***************************************************************************)
(* What a tick hands to the device is inside the physical band and inside   *)
(* the share of this tick, however the ramp got there, or 0.                *)
(***************************************************************************)
HeldInside ==
    [][\A shares \in [Key -> Share] : Step(shares) =>
           \A k \in Key : Runs(k) =>
               actual'[k] \in {0} \cup (physical[k] \cap ShareOf(k, shares))]_vars

(***************************************************************************)
(* A share moves an aim toward 0 and never past it: a closed charge side    *)
(* does not turn a charge into a discharge on another band.                 *)
(***************************************************************************)
ShareOnlyNarrows ==
    [][\A shares \in [Key -> Share] : Step(shares) =>
           \A k \in Key : Runs(k) /\ Target(k) # None =>
               LET own == ClampOrPark(WithPhysical(k), Target(k))
               IN  aim'[k] \in (0..own) \cup (own..0)]_vars

(***************************************************************************)
(* An axis that clients stop commanding does not stay commanded: commands   *)
(* recur forever only if requests do.                                       *)
(***************************************************************************)
AbandonedAxisIdles ==
    \A k \in Key : []<>HasCommand(delay[k]) => []<><<SetPower(k)>>_vars

(***************************************************************************)
(* With no more requests or outside changes and the same share every tick,  *)
(* the output comes to rest: the clamp, the share, the ramp and the hold    *)
(* never chase each other.                                                  *)
(***************************************************************************)
OutputSettles ==
    \A shares \in [Key -> Share] :
        <>[][Clock \/ Step(shares)]_vars => <>[][actual' = actual]_vars
=============================================================================
