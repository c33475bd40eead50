--------------------------- MODULE GatewayProofs ----------------------------
(***************************************************************************)
(* Theorems of the gateway: of module Gateway, for every set of components, *)
(* every delay, rate and lifetime; and of its command delay on its own,     *)
(* module CommandDelay, which implements DelayPromise for every delay,      *)
(* every set of powers and however far the clock may step back.             *)
(***************************************************************************)
EXTENDS Gateway, CommandDelay, PowerProofs, SequenceTheorems

-----------------------------------------------------------------------------
(* Types of the tick *)

\* Physical bands and shares are sets of powers.
LEMMA BandsArePowers == Physical \subseteq SUBSET Power /\ Share \subseteq SUBSET Power
  <1> SUFFICES ASSUME NEW band \in Physical \cup Share
              PROVE  band \in SUBSET Power
    OBVIOUS
  <1>1. PICK lo \in Power, hi \in Power : band = lo..hi
    BY SpanAssumption
  <1> QED BY <1>1, PowerRange DEF Power

\* Whatever an axis's envelope is computed from, it is a set of powers.
LEMMA EnvelopeIsBand ==
    ASSUME TypeOK, NEW k \in Key
    PROVE  /\ Validation(k) \in SUBSET Power
           /\ WithPhysical(k) \in SUBSET Power
           /\ Commandable(k) \in SUBSET Power
           /\ Reported(k) \in SUBSET Power
  <1>1. base[k] \in SUBSET Power
    BY BandAssumption DEF TypeOK
  <1>2. Validation(k) \in SUBSET Power
    BY <1>1 DEF Validation
  <1>3. NoHeadroom \in SUBSET Power
    BY PowerRange DEF NoHeadroom, Power
  <1> QED BY <1>2, <1>3 DEF WithPhysical, Commandable, Reported, OrZeroBand

\* An empty line is also what is left of an expired one.
LEMMA DelayLeftIsLine ==
    ASSUME TypeOK, NEW k \in Key
    PROVE  DelayLeft(k) \in DelayLine
  BY NoCommandIsLine DEF DelayLeft, TypeOK

\* A tick aims at a power, or holds.
LEMMA TargetType ==
    ASSUME TypeOK, NEW k \in Key
    PROVE  Target(k) \in Power \cup {None}
  <1>1. Poll(DelayLeft(k)) \in DelayLine
    BY DelayLeftIsLine, PollIsLine
  <1>2. Poll(DelayLeft(k)).armed \in Power \cup {None}
    BY <1>1, ValueAssumption DEF DelayLine
  <1> QED BY <1>2, ValueAssumption DEF Target

\* Every range of powers holds 0.
LEMMA ZeroIsPower == 0 \in Power
  BY PowerRange DEF Power

\* An expired or faulted axis ramps toward a power.
LEMMA AimLeftType ==
    ASSUME TypeOK, NEW k \in Key
    PROVE  AimLeft(k) \in Power
  <1>1. RestValue(k) \in Power
    BY ZeroIsPower, ValueAssumption DEF RestValue
  <1> QED BY <1>1 DEF AimLeft, TypeOK

\* The ramp target of a tick is a power.
LEMMA NextAimType ==
    ASSUME TypeOK, NEW k \in Key, NEW share \in SUBSET Power
    PROVE  NextAim(k, share) \in Power
  <1>1. CASE Target(k) = None
    BY <1>1, AimLeftType DEF NextAim
  <1>2. CASE Target(k) # None
    <2> DEFINE v == ClampOrPark(WithPhysical(k), Target(k))
    <2>1. v \in Power
      BY <1>2, TargetType, ClampLands, EnvelopeIsBand
    <2>2. WithPhysical(k) \cap share \cap SideOf(v) \in SUBSET Power
      BY EnvelopeIsBand
    <2>3. Narrowed(k, v, share) \in Power
      BY <2>1, <2>2, ClampLands DEF Narrowed
    <2> QED BY <1>2, <2>3 DEF NextAim
  <1> QED BY <1>1, <1>2

\* A ramp step stays within the range of its ends.
LEMMA SlewType ==
    ASSUME NEW from \in Power, NEW to \in Power
    PROVE  Slew(from, to) \in Power
  <1>1. /\ MinPower \in Int /\ MaxPower \in Int /\ Rate \in Nat
        /\ from \in Int /\ to \in Int
        /\ MinPower <= from /\ from <= MaxPower
        /\ MinPower <= to /\ to <= MaxPower
    BY PowerRange, ValueAssumption DEF Power
  <1> QED BY <1>1 DEF Slew, Distance, Power

\* Holding a power in a band gives a power, of the band or 0.
LEMMA HeldInType ==
    ASSUME NEW S \in SUBSET Power, NEW v \in Power
    PROVE  HeldIn(S, v) \in Power /\ HeldIn(S, v) \in S \cup {0}
  BY ClampLands DEF HeldIn

\* A tick's output is a power.
LEMMA NextActualType ==
    ASSUME TypeOK, NEW k \in Key, NEW to \in Power,
           NEW share \in SUBSET Power
    PROVE  NextActual(k, to, share) \in Power
  <1>1. physical[k] \in SUBSET Power
    BY BandsArePowers DEF TypeOK
  <1>2. Slew(actual[k], to) \in Power
    BY SlewType DEF TypeOK
  <1>3. HeldIn(physical[k], Slew(actual[k], to)) \in Power
    BY <1>1, <1>2, HeldInType
  <1> QED BY <1>1, <1>3, HeldInType DEF NextActual

-----------------------------------------------------------------------------
(* Type correctness *)

\* What dropping some axes puts in their place has the types of what it drops.
LEMMA DropTypes ==
    ASSUME TypeOK, NEW K \in SUBSET Key, Drop(K)
    PROVE  /\ lifetimes' \in [Key -> (0..MaxLife) \cup {None}]
           /\ augs' \in [Key -> SUBSET Augmentation]
           /\ delay' \in [Key -> DelayLine]
           /\ aim' \in [Key -> Power]
           /\ actual' \in [Key -> Power]
  BY NoCommandIsLine, ValueAssumption DEF TypeOK, Drop, Restored

\* The initial state is well-typed.
LEMMA InitTypes == Init => TypeOK
  BY NoCommandIsLine, ValueAssumption DEF Init, TypeOK, Phases

\* So is the state after a physics tick,
LEMMA StepTypes ==
    ASSUME TypeOK, NEW shares \in [Key -> Share], Step(shares)
    PROVE  TypeOK'
  <1>1. \A k \in Key : ShareOf(k, shares) \in SUBSET Power
    BY BandsArePowers DEF ShareOf
  <1>2. lifetimes' \in [Key -> (0..MaxLife) \cup {None}]
    BY DEF Step, TypeOK
  <1>3. augs' \in [Key -> SUBSET Augmentation]
    BY DEF Step, TypeOK, Live
  <1>4. delay' \in [Key -> DelayLine]
    BY NoCommandIsLine, DelayLeftIsLine, PollIsLine DEF Step
  <1>5. aim' \in [Key -> Power]
    BY <1>1, ZeroIsPower, NextAimType DEF Step, TypeOK
  <1>6. actual' \in [Key -> Power]
    <2>1. \A k \in Key : NextActual(k, aim'[k], ShareOf(k, shares)) \in Power
      BY <1>1, <1>5, NextActualType
    <2> QED BY <2>1, ZeroIsPower DEF Step, TypeOK
  <1> QED
    BY <1>2, <1>3, <1>4, <1>5, <1>6 DEF Step, TypeOK, registry, site

\* after a tick of the clock,
LEMMA ClockTypes ==
    ASSUME TypeOK, Clock
    PROVE  TypeOK'
  <1>1. lifetimes' \in [Key -> (0..MaxLife) \cup {None}]
    <2>1. \A k \in Key : lifetimes[k] # None /\ ~Expired(k) =>
                             lifetimes[k] - 1 \in 0..MaxLife
      BY LifeAssumption DEF TypeOK, Expired
    <2> QED BY <2>1 DEF Clock, TypeOK
  <1>2. augs' \in [Key -> SUBSET Augmentation]
    <2>1. ASSUME NEW a \in Augmentation
          PROVE  [band |-> a.band, left |-> IF a.left = 0 THEN 0 ELSE a.left - 1]
                     \in Augmentation
      BY LifeAssumption DEF Augmentation
    <2>2. \A k \in Key : augs[k] \subseteq Augmentation
      BY DEF TypeOK
    <2> QED BY <2>1, <2>2 DEF Clock
  <1>3. delay' \in [Key -> DelayLine]
    BY AgedKeepsCommand DEF Clock, TypeOK
  <1> QED
    BY <1>1, <1>2, <1>3 DEF Clock, TypeOK, registry, site

\* after a setpoint,
LEMMA SetPowerTypes ==
    ASSUME TypeOK, NEW k \in Key, SetPower(k)
    PROVE  TypeOK'
  <1>1. PICK asked \in Power, children \in Children, life \in Life :
            \/ SetPowerReject(k, asked, children, life)
            \/ SetPowerClamp(k, asked, children, life)
    BY DEF SetPower
  <1>2. children # None => children \in SUBSET Power
    BY BandAssumption
  <1>3. SetpointEnvelope(k, children) \in SUBSET Power
    BY <1>2, EnvelopeIsBand DEF SetpointEnvelope
  <1>4. PICK v \in Power : Accept(k, v, life)
    BY <1>1, <1>3, ClampLands DEF SetPowerReject, SetPowerClamp
  <1>5. SetTarget(delay[k], v) \in DelayLine
    BY SetTargetIsLine, ValueAssumption DEF TypeOK
  <1>6. life \in 0..MaxLife
    BY LifeAssumption
  <1> QED
    BY <1>4, <1>5, <1>6 DEF Accept, TypeOK, registry, site

\* after an augmentation,
LEMMA AugmentTypes ==
    ASSUME TypeOK, NEW k \in Key, NEW band \in Narrowing, NEW life \in Life,
           Augment(k, band, life)
    PROVE  TypeOK'
  <1>1. [band |-> band, left |-> life] \in Augmentation
    BY LifeAssumption DEF Augmentation
  <1> QED BY <1>1 DEF Augment, TypeOK, registry, site

\* after either step of a registration, removal or reset,
LEMMA RegistryTypes ==
    ASSUME TypeOK, NEW i \in Id,
           \/ OnRegister(i) \/ InsertById \/ RemoveById(i) \/ Forget
           \/ ClearById \/ ClearGateway
    PROVE  TypeOK'
  <1>1. \A j \in Id : KeysOf(j) \in SUBSET Key
    BY DEF KeysOf
  <1>2. CASE OnRegister(i)
    <2>1. base' \in [Key -> Base] /\ physical' \in [Key -> Physical]
      BY <1>2 DEF OnRegister, Restored, TypeOK
    <2> QED BY <1>1, <1>2, <2>1, DropTypes DEF OnRegister, TypeOK, Phases
  <1>3. CASE InsertById
    BY <1>3 DEF InsertById, TypeOK, Phases, site, gateway
  <1>4. CASE RemoveById(i)
    BY <1>4 DEF RemoveById, TypeOK, Phases, site, gateway
  <1>5. CASE Forget
    BY <1>1, <1>5, DropTypes DEF Forget, TypeOK, Phases
  <1>6. CASE ClearById
    BY <1>6 DEF ClearById, TypeOK, Phases, site, gateway
  <1>7. CASE ClearGateway
    BY <1>7, DropTypes DEF ClearGateway, TypeOK, Phases
  <1> QED BY <1>2, <1>3, <1>4, <1>5, <1>6, <1>7

\* after a fault, a recovery or a move of the bands,
LEMMA SiteTypes ==
    ASSUME TypeOK,
           \/ \E i \in Id : SetHealth(i)
           \/ \E k \in Key : PhysicalMoves(k) \/ BaseMoves(k)
    PROVE  TypeOK'
  <1>1. CASE \E i \in Id : SetHealth(i)
    BY <1>1 DEF SetHealth, TypeOK, registry, gateway
  <1>2. CASE \E k \in Key : PhysicalMoves(k)
    BY <1>2 DEF PhysicalMoves, TypeOK, registry, gateway
  <1>3. CASE \E k \in Key : BaseMoves(k)
    BY <1>3 DEF BaseMoves, TypeOK, registry, gateway
  <1> QED BY <1>1, <1>2, <1>3

\* and so after any step.
LEMMA NextTypes ==
    ASSUME TypeOK, [Next]_vars
    PROVE  TypeOK'
  <1>1. CASE Clock
    BY <1>1, ClockTypes
  <1>2. CASE Tick
    BY <1>2, StepTypes DEF Tick
  <1>3. CASE InsertById \/ Forget \/ ClearById \/ ClearGateway
    BY <1>3, RegistryTypes DEF TypeOK
  <1>4. CASE \E i \in Id : OnRegister(i) \/ RemoveById(i) \/ SetHealth(i)
    BY <1>4, RegistryTypes, SiteTypes
  <1>5. CASE \E k \in Key : SetPower(k) \/ PhysicalMoves(k) \/ BaseMoves(k)
    BY <1>5, SetPowerTypes, SiteTypes
  <1>6. CASE \E k \in Key, band \in Narrowing, life \in Life : Augment(k, band, life)
    BY <1>6, AugmentTypes
  <1>7. CASE UNCHANGED vars
    BY <1>7 DEF vars, registry, site, gateway, TypeOK
  <1> QED
    BY <1>1, <1>2, <1>3, <1>4, <1>5, <1>6, <1>7 DEF Next

(***************************************************************************)
(* Every variable keeps its type: in particular no lifetime counts below 0  *)
(* and no aim or output leaves the range of powers.                         *)
(***************************************************************************)
THEOREM TypeCorrect == Spec => []TypeOK
  <1>1. Init => TypeOK
    BY InitTypes
  <1>2. TypeOK /\ [Next]_vars => TypeOK'
    BY NextTypes
  <1> QED BY <1>1, <1>2, PTL DEF Spec

-----------------------------------------------------------------------------
(* Commands and lifetimes *)

\* The part of the invariant about one axis.
KeyInv(k) ==
    /\ ~Found(k) /\ ~Leaving(k) => Unheld(k) /\ (k \in axes <=> Entering(k))
    /\ Found(k) => (HasCommand(delay[k]) <=> lifetimes[k] # None)
    /\ Found(k) => k \in axes

PhaseInv ==
    /\ phase \in {"registering", "removing"} => subject \notin registered
    /\ phase = "resetting" => registered = {}

\* The inductive invariant, axis by axis.
LEMMA IInvByKey == IInv <=> TypeOK /\ PhaseInv /\ \A k \in Key : KeyInv(k)
  BY DEF IInv, Lifecycle, PhaseInv, KeyInv, CommandHasLifetime, FoundWithItsAxes

\* An axis that a step of the registry does not concern keeps its part of the

\* invariant as long as the step keeps its command and its lifetime together.
LEMMA KeyFrame ==
    ASSUME NEW k \in Key, KeyInv(k), UNCHANGED <<registry, axes>>,
           Unheld(k) => Unheld(k)',
           Found(k) => (HasCommand(delay'[k]) <=> lifetimes'[k] # None)
    PROVE  KeyInv(k)'
  BY DEF KeyInv, Found, Leaving, Entering, registry

\* What leaves the registry alone leaves its part of the invariant alone.
LEMMA PhaseFrame ==
    ASSUME PhaseInv, UNCHANGED registry
    PROVE  PhaseInv'
  BY DEF PhaseInv, registry

\* A physics tick ends a command and its lifetime together.
LEMMA StepKeeps ==
    ASSUME IInv, NEW shares \in [Key -> Share], Step(shares), NEW k \in Key
    PROVE  KeyInv(k)'
  <1> USE DEF KeyInv
  <1>1. TypeOK /\ KeyInv(k) /\ UNCHANGED <<registry, axes>>
    BY IInvByKey DEF Step
  <1>2. /\ lifetimes'[k] = IF Expired(k) \/ Forgets(k) THEN None ELSE lifetimes[k]
        /\ augs'[k] = Live(k)
        /\ delay'[k] = IF Forgets(k) THEN NoCommand
                       ELSE IF Runs(k) THEN Poll(DelayLeft(k)) ELSE DelayLeft(k)
    BY DEF Step
  <1>3. ~HasCommand(NoCommand)
    BY DEF HasCommand
  <1>4. HasCommand(Poll(DelayLeft(k))) <=> HasCommand(DelayLeft(k))
    BY <1>1, DelayLeftIsLine, PollKeepsCommand
  <1>5. CASE ~Found(k)
    <2>1. delay'[k] = delay[k]
      BY <1>2, <1>5 DEF Forgets, Trips, Runs, DelayLeft, Expires
    <2>2. Unheld(k) => Unheld(k)'
      BY <1>2, <2>1 DEF Unheld, Live
    <2> QED BY <1>1, <1>5, <2>2, KeyFrame
  <1>6. CASE Found(k)
    <2>1. Expires(k) <=> Expired(k)
      BY <1>1, <1>6 DEF Expires
    <2>2. HasCommand(delay'[k]) <=> ~Forgets(k) /\ HasCommand(DelayLeft(k))
      BY <1>2, <1>3, <1>4
    <2>3. HasCommand(DelayLeft(k)) <=> ~Expired(k) /\ HasCommand(delay[k])
      BY <1>3, <2>1 DEF DelayLeft
    <2>4. lifetimes'[k] # None <=> ~Forgets(k) /\ ~Expired(k) /\ lifetimes[k] # None
      BY <1>2
    <2>5. KeyInv(k)'
      BY <1>1, <1>6, <2>2, <2>3, <2>4 DEF Found, Leaving, Entering, registry
    <2> QED BY <2>5
  <1> QED BY <1>5, <1>6

\* Time neither arms nor disarms anything.
LEMMA ClockKeeps ==
    ASSUME IInv, Clock, NEW k \in Key
    PROVE  KeyInv(k)'
  <1>1. TypeOK /\ KeyInv(k) /\ UNCHANGED <<registry, axes>>
    BY IInvByKey DEF Clock
  <1>2. HasCommand(delay'[k]) <=> HasCommand(delay[k])
    BY <1>1, AgedKeepsCommand DEF Clock, TypeOK
  <1>3. lifetimes'[k] = None <=> lifetimes[k] = None
    <2>1. lifetimes[k] # None /\ ~Expired(k) => lifetimes[k] - 1 \in 0..MaxLife
      BY <1>1, LifeAssumption DEF TypeOK, Expired
    <2> QED BY <2>1, LifeAssumption DEF Clock
  <1>4. Unheld(k) => Unheld(k)'
    <2>1. delay[k] = NoCommand => delay'[k] = NoCommand
      BY <1>2 DEF HasCommand
    <2> QED BY <1>3, <2>1 DEF Unheld, Clock
  <1> QED BY <1>1, <1>2, <1>3, <1>4, KeyFrame DEF KeyInv

\* An accepted setpoint arms a command and its lifetime together.
LEMMA SetPowerKeeps ==
    ASSUME IInv, NEW k \in Key, SetPower(k), NEW j \in Key
    PROVE  KeyInv(j)'
  <1>1. PICK asked \in Power, children \in Children, life \in Life :
            \/ SetPowerReject(k, asked, children, life)
            \/ SetPowerClamp(k, asked, children, life)
    BY DEF SetPower
  <1>2. TypeOK /\ KeyInv(j) /\ Found(k)
    BY <1>1, IInvByKey DEF SetPowerReject, SetPowerClamp
  <1>3. children # None => children \in SUBSET Power
    BY BandAssumption
  <1>4. SetpointEnvelope(k, children) \in SUBSET Power
    BY <1>2, <1>3, EnvelopeIsBand DEF SetpointEnvelope
  <1>5. PICK v \in Power : Accept(k, v, life)
    BY <1>1, <1>4, ClampLands DEF SetPowerReject, SetPowerClamp
  <1>6. UNCHANGED <<registry, axes, augs>>
    BY <1>5 DEF Accept
  <1>7. CASE j # k
    <2>1. delay'[j] = delay[j] /\ lifetimes'[j] = lifetimes[j]
      BY <1>2, <1>5, <1>7 DEF Accept, TypeOK
    <2> QED BY <1>2, <1>6, <2>1, KeyFrame DEF Unheld, KeyInv
  <1>8. CASE j = k
    <2>1. HasCommand(delay'[k])
      BY <1>2, <1>5, SetTargetCommands, ValueAssumption DEF Accept, TypeOK
    <2>2. lifetimes'[k] # None
      BY <1>2, <1>5, LifeAssumption DEF Accept, TypeOK
    <2> QED
      BY <1>2, <1>6, <1>8, <2>1, <2>2
      DEF KeyInv, Found, Leaving, Entering, registry
  <1> QED BY <1>7, <1>8

\* An augmentation touches neither.
LEMMA AugmentKeeps ==
    ASSUME IInv, NEW k \in Key, NEW band \in Narrowing, NEW life \in Life,
           Augment(k, band, life), NEW j \in Key
    PROVE  KeyInv(j)'
  <1>1. TypeOK /\ KeyInv(j)
    BY IInvByKey
  <1>2. Found(k) /\ UNCHANGED <<registry, axes, delay, lifetimes>>
    BY DEF Augment
  <1>3. j # k => augs'[j] = augs[j]
    BY <1>1 DEF Augment, TypeOK
  <1>4. CASE Found(j)
    BY <1>1, <1>2, <1>4 DEF KeyInv, Found, Leaving, Entering, registry
  <1>5. CASE ~Found(j)
    BY <1>1, <1>2, <1>3, <1>5, KeyFrame DEF Unheld
  <1> QED BY <1>4, <1>5

\* What moves outside the gateway moves nothing of the invariant.
LEMMA SiteKeeps ==
    ASSUME IInv, UNCHANGED <<registry, gateway>>, NEW k \in Key
    PROVE  KeyInv(k)'
  BY IInvByKey, KeyFrame DEF gateway, Unheld, KeyInv

\* A registration sets the axes up before the id can be found.
LEMMA OnRegisterKeeps ==
    ASSUME IInv, NEW i \in Id, OnRegister(i)
    PROVE  PhaseInv' /\ \A k \in Key : KeyInv(k)'
  <1>1. PhaseInv'
    BY DEF PhaseInv, OnRegister
  <1>2. ASSUME NEW k \in Key PROVE KeyInv(k)'
    <2>1. KeyInv(k) /\ TypeOK
      BY IInvByKey
    <2>2. /\ phase = "idle" /\ phase' = "registering" /\ subject' = i
          /\ i \notin registered /\ registered' = registered
          /\ axes' = axes \cup KeysOf(i)
      BY DEF OnRegister
    <2>3. k \in KeysOf(i) <=> IdOf(k) = i
      BY DEF KeysOf
    <2>4. CASE IdOf(k) = i
      <3>1. Unheld(k)'
        BY <2>3, <2>4 DEF OnRegister, Drop, Restored, Unheld
      <3> QED BY <2>2, <2>3, <2>4, <3>1 DEF KeyInv, Found, Leaving, Entering
    <2>5. CASE IdOf(k) # i
      <3>1. /\ lifetimes'[k] = lifetimes[k] /\ augs'[k] = augs[k]
            /\ delay'[k] = delay[k]
        BY <2>3, <2>5 DEF OnRegister, Drop, Restored
      <3> QED
        BY <2>1, <2>2, <2>3, <2>5, <3>1
        DEF KeyInv, Found, Leaving, Entering, Unheld
    <2> QED BY <2>4, <2>5
  <1> QED BY <1>1, <1>2

\* What a newcomer finds is unheld and has its axes.
LEMMA InsertByIdKeeps ==
    ASSUME IInv, InsertById
    PROVE  PhaseInv' /\ \A k \in Key : KeyInv(k)'
  <1>1. PhaseInv'
    BY DEF PhaseInv, InsertById
  <1>2. ASSUME NEW k \in Key PROVE KeyInv(k)'
    <2>1. KeyInv(k) /\ PhaseInv
      BY IInvByKey
    <2>2. /\ phase = "registering" /\ phase' = "idle"
          /\ registered' = registered \cup {subject}
          /\ UNCHANGED <<subject, axes, lifetimes, augs, delay>>
      BY DEF InsertById, gateway
    <2>3. CASE IdOf(k) = subject
      <3>1. Unheld(k) /\ k \in axes
        BY <2>1, <2>2, <2>3 DEF PhaseInv, KeyInv, Found, Leaving, Entering
      <3> QED
        BY <2>2, <2>3, <3>1 DEF KeyInv, Found, Leaving, Unheld, HasCommand
    <2>4. CASE IdOf(k) # subject
      BY <2>1, <2>2, <2>4 DEF KeyInv, Found, Leaving, Entering, Unheld
    <2> QED BY <2>3, <2>4
  <1> QED BY <1>1, <1>2

\* An id that leaves the registry may leave its axes for the second step.
LEMMA RemoveByIdKeeps ==
    ASSUME IInv, NEW i \in Id, RemoveById(i)
    PROVE  PhaseInv' /\ \A k \in Key : KeyInv(k)'
  <1>1. PhaseInv'
    BY DEF PhaseInv, RemoveById
  <1>2. ASSUME NEW k \in Key PROVE KeyInv(k)'
    BY IInvByKey
    DEF RemoveById, gateway, KeyInv, Found, Leaving, Entering, Unheld
  <1> QED BY <1>1, <1>2

\* That second step leaves nothing.
LEMMA ForgetKeeps ==
    ASSUME IInv, Forget
    PROVE  PhaseInv' /\ \A k \in Key : KeyInv(k)'
  <1>1. PhaseInv'
    BY DEF PhaseInv, Forget
  <1>2. ASSUME NEW k \in Key PROVE KeyInv(k)'
    <2>1. KeyInv(k) /\ PhaseInv
      BY IInvByKey
    <2>2. /\ phase = "removing" /\ phase' = "idle"
          /\ UNCHANGED <<subject, registered>>
          /\ axes' = axes \ KeysOf(subject)
      BY DEF Forget
    <2>3. k \in KeysOf(subject) <=> IdOf(k) = subject
      BY DEF KeysOf
    <2>4. CASE IdOf(k) = subject
      <3>1. Unheld(k)'
        BY <2>3, <2>4 DEF Forget, Drop, Restored, Unheld
      <3> QED
        BY <2>1, <2>2, <2>3, <2>4, <3>1
        DEF PhaseInv, KeyInv, Found, Leaving, Entering
    <2>5. CASE IdOf(k) # subject
      <3>1. /\ lifetimes'[k] = lifetimes[k] /\ augs'[k] = augs[k]
            /\ delay'[k] = delay[k]
        BY <2>3, <2>5 DEF Forget, Drop, Restored
      <3> QED
        BY <2>1, <2>2, <2>3, <2>5, <3>1
        DEF KeyInv, Found, Leaving, Entering, Unheld
    <2> QED BY <2>4, <2>5
  <1> QED BY <1>1, <1>2

\* Nor does a reset, for any id.
LEMMA ResetKeeps ==
    ASSUME IInv, ClearById \/ ClearGateway
    PROVE  PhaseInv' /\ \A k \in Key : KeyInv(k)'
  <1>1. CASE ClearById
    BY <1>1 DEF ClearById, PhaseInv, KeyInv, Found, Leaving
  <1>2. CASE ClearGateway
    <2>1. PhaseInv'
      BY <1>2 DEF PhaseInv, ClearGateway
    <2>2. registered' = {} /\ phase' = "idle" /\ axes' = {}
      BY <1>2, IInvByKey DEF PhaseInv, ClearGateway
    <2>3. ASSUME NEW k \in Key PROVE Unheld(k)'
      BY <1>2 DEF ClearGateway, Drop, Restored, Unheld
    <2> QED BY <2>1, <2>2, <2>3 DEF KeyInv, Found, Leaving, Entering
  <1> QED BY <1>1, <1>2

\* The inductive invariant holds initially,
LEMMA InitHolds == Init => IInv
  <1> SUFFICES ASSUME Init PROVE PhaseInv /\ \A k \in Key : KeyInv(k)
    BY InitTypes, IInvByKey
  <1> QED BY DEF Init, PhaseInv, KeyInv, Found, Leaving, Entering, Unheld

\* every step preserves it,
LEMMA NextKeeps ==
    ASSUME IInv, [Next]_vars
    PROVE  IInv'
  <1>1. TypeOK'
    BY NextTypes DEF IInv
  <1>2. PhaseInv
    BY IInvByKey
  <1> SUFFICES PhaseInv' /\ \A k \in Key : KeyInv(k)'
    BY <1>1 DEF IInv, Lifecycle, PhaseInv, KeyInv, CommandHasLifetime,
                FoundWithItsAxes, Found, Leaving, Entering, Unheld
  <1>3. CASE Clock
    BY <1>2, <1>3, ClockKeeps, PhaseFrame DEF Clock
  <1>4. CASE Tick
    <2>1. PICK shares \in [Key -> Share] : Step(shares)
      BY <1>4 DEF Tick
    <2> QED BY <1>2, <2>1, StepKeeps, PhaseFrame DEF Step
  <1>5. CASE InsertById \/ Forget \/ ClearById \/ ClearGateway
    BY <1>5, InsertByIdKeeps, ForgetKeeps, ResetKeeps
  <1>6. CASE \E i \in Id : OnRegister(i) \/ RemoveById(i)
    BY <1>6, OnRegisterKeeps, RemoveByIdKeeps
  <1>7. CASE \/ \E i \in Id : SetHealth(i)
             \/ \E k \in Key : PhysicalMoves(k) \/ BaseMoves(k)
             \/ UNCHANGED vars
    <2>1. UNCHANGED <<registry, gateway>>
      BY <1>7 DEF SetHealth, PhysicalMoves, BaseMoves, vars
    <2> QED BY <1>2, <2>1, SiteKeeps, PhaseFrame
  <1>8. CASE \E k \in Key : SetPower(k)
    <2>1. UNCHANGED registry
      BY <1>8 DEF SetPower, SetPowerReject, SetPowerClamp, Accept
    <2> QED BY <1>2, <1>8, <2>1, SetPowerKeeps, PhaseFrame
  <1>9. CASE \E k \in Key, band \in Narrowing, life \in Life : Augment(k, band, life)
    <2>1. UNCHANGED registry
      BY <1>9 DEF Augment
    <2> QED BY <1>2, <1>9, <2>1, AugmentKeeps, PhaseFrame
  <1> QED
    BY <1>3, <1>4, <1>5, <1>6, <1>7, <1>8, <1>9 DEF Next

\* and so it always holds.
LEMMA Invariance == Spec => []IInv
  <1>1. Init => IInv
    BY InitHolds
  <1>2. IInv /\ [Next]_vars => IInv'
    BY NextKeeps
  <1> QED BY <1>1, <1>2, PTL DEF Spec

(***************************************************************************)
(* A component that can be found has a command exactly as long as a         *)
(* lifetime is armed for it, whatever the delay, the lifetimes and the      *)
(* number of components.                                                    *)
(***************************************************************************)
THEOREM CommandsHaveLifetimes == Spec => []CommandHasLifetime
  <1>1. IInv => CommandHasLifetime
    BY DEF IInv
  <1> QED BY <1>1, Invariance, PTL

(***************************************************************************)
(* A setpoint that finds a component finds its axes.                        *)
(***************************************************************************)
THEOREM FoundHaveAxes == Spec => []FoundWithItsAxes
  <1>1. IInv => FoundWithItsAxes
    BY DEF IInv
  <1> QED BY <1>1, Invariance, PTL

(***************************************************************************)
(* Nothing a removed component or an earlier run held is left behind.       *)
(***************************************************************************)
THEOREM NothingIsLeftBehind == Spec => []NothingLeftBehind
  <1>1. IInv => NothingLeftBehind
    BY DEF IInv, Lifecycle, NothingLeftBehind, Unheld, Leaving, Entering
  <1> QED BY <1>1, Invariance, PTL

-----------------------------------------------------------------------------
(* Augmentations *)

\* The strengthening: some power is left of the base by whatever is live.
Room(k) == Live(k) # {} => Validation(k) # {}

\* Fewer live augmentations leave more room.
LEMMA FewerLeaveRoom ==
    ASSUME NEW k \in Key, Room(k), base'[k] = base[k],
           \A a \in Live(k)' : \E b \in Live(k) : b.band = a.band
    PROVE  Room(k)'
  BY DEF Room, Validation

\* No step boxes a component's active axis in.
LEMMA NextLeavesRoom ==
    ASSUME IInv, [Next]_vars, NEW k \in Key \ Reactive, Room(k)
    PROVE  Room(k)'
  <1> DEFINE K == base'[k] = base[k] /\ Live(k)' \subseteq Live(k)
  <1>0. TypeOK
    BY DEF IInv
  <1>a. K => Room(k)'
    BY FewerLeaveRoom
  <1>b. ASSUME augs'[k] = {} PROVE Room(k)'
    BY <1>b DEF Room, Live
  <1>1. CASE Clock
    <2>1. ASSUME NEW a \in Live(k)' PROVE \E b \in Live(k) : b.band = a.band
      <3>1. PICK b \in augs[k] :
                a = [band |-> b.band,
                     left |-> IF b.left = 0 THEN 0 ELSE b.left - 1]
        BY <1>1, <2>1 DEF Clock, Live
      <3>2. b.left \in 0..MaxLife
        BY <1>0 DEF TypeOK, Augmentation
      <3> QED BY <2>1, <3>1, <3>2, LifeAssumption DEF Live
    <2>2. base'[k] = base[k]
      BY <1>1 DEF Clock, site
    <2> QED BY <2>1, <2>2, FewerLeaveRoom
  <1>2. CASE Tick
    BY <1>2, <1>a DEF Tick, Step, Live, site
  <1>3. CASE InsertById \/ ClearById
    BY <1>3, <1>a DEF InsertById, ClearById, Live, site, gateway
  <1>4. CASE Forget \/ ClearGateway
    BY <1>4, <1>a, <1>b DEF Forget, ClearGateway, Drop, Restored, Live
  <1>5. CASE \E i \in Id : OnRegister(i)
    BY <1>5, <1>a, <1>b DEF OnRegister, Drop, Restored, Live
  <1>6. CASE \E i \in Id : RemoveById(i) \/ SetHealth(i)
    BY <1>6, <1>a DEF RemoveById, SetHealth, Live, site, gateway
  <1>7. CASE \E j \in Key : SetPower(j)
    BY <1>7, <1>a
    DEF SetPower, SetPowerReject, SetPowerClamp, Accept, Live, site
  <1>8. CASE \E j \in Key : PhysicalMoves(j) \/ BaseMoves(j)
    <2>1. base'[k] = base[k] /\ UNCHANGED augs
      BY <1>0, <1>8 DEF PhysicalMoves, BaseMoves, TypeOK, gateway
    <2> QED BY <1>a, <2>1 DEF Live
  <1>9. ASSUME NEW j \in Key, NEW band \in Narrowing, NEW life \in Life,
               Augment(j, band, life)
        PROVE  Room(k)'
    <2>1. base'[k] = base[k]
      BY <1>9 DEF Augment, site
    <2>2. CASE j # k
      BY <1>0, <1>9, <1>a, <2>1, <2>2 DEF Augment, Live, TypeOK
    <2>3. CASE j = k
      <3>1. PICK v \in Validation(k) : v \in band
        BY <1>9, <2>3 DEF Augment, Commandable, WithPhysical
      <3>2. augs'[k] = augs[k] \cup {[band |-> band, left |-> life]}
        BY <1>0, <1>9, <2>3 DEF Augment, TypeOK
      <3>3. v \in Validation(k)'
        BY <2>1, <3>1, <3>2 DEF Validation, Live
      <3> QED BY <3>3 DEF Room
    <2> QED BY <2>2, <2>3
  <1>10. CASE UNCHANGED vars
    BY <1>10, <1>a DEF vars, site, gateway, Live
  <1> QED
    BY <1>1, <1>2, <1>3, <1>4, <1>5, <1>6, <1>7, <1>8, <1>9, <1>10 DEF Next

(***************************************************************************)
(* Augmentations accepted one by one never exclude each other, however many *)
(* there are: the check in augment() against what is still commandable is   *)
(* enough as long as the base of an active axis stands still.               *)
(***************************************************************************)
THEOREM NobodyIsBoxedIn == Spec => []NeverBoxedIn
  <1> DEFINE RoomInv == \A k \in Key \ Reactive : Room(k)
  <1>1. Init => RoomInv
    BY DEF Init, Room, Live
  <1>2. RoomInv /\ IInv /\ [Next]_vars => RoomInv'
    BY NextLeavesRoom
  <1>3. RoomInv => NeverBoxedIn
    BY DEF NeverBoxedIn, Room
  <1> QED
    <2> HIDE DEF RoomInv
    <2> QED BY <1>1, <1>2, <1>3, Invariance, PTL DEF Spec

-----------------------------------------------------------------------------
(* What a tick and any other step may do *)

\* Holding a power in a span of 0 moves it toward 0, if at all.
LEMMA HeldTowardZero ==
    ASSUME NEW band \in Physical \cup Share, NEW v \in Power
    PROVE  /\ HeldIn(band, v) \in band
           /\ HeldIn(band, v) \in (0..v) \cup (v..0)
  <1>1. PICK lo \in Power, hi \in Power : lo <= 0 /\ 0 <= hi /\ band = lo..hi
    BY SpanAssumption
  <1>2. v \in Int /\ lo \in Int /\ hi \in Int /\ 0 \in band
    BY <1>1, PowerRange DEF Power
  <1>3. CASE v \in band
    BY <1>2, <1>3 DEF HeldIn
  <1>4. CASE v \notin band
    <2>1. band \in SUBSET Power /\ band # {} /\ v # 0
      BY <1>2, <1>4, BandsArePowers
    <2>2. HeldIn(band, v) = CHOOSE x \in band : Nearest(band, v, x)
      BY <1>4, <2>1 DEF HeldIn, ClampOrPark, NearestTo
    <2>3. PICK x \in band : x = HeldIn(band, v) /\ Nearest(band, v, x)
      BY <2>1, <2>2, NearestExists
    <2>4. x \in lo..hi /\ (\A y \in lo..hi : Distance(v, x) <= Distance(v, y))
      BY <1>1, <1>2, <2>3 DEF Nearest, Distance
    <2>5. CASE v > hi
      <3>1. Distance(v, x) <= Distance(v, hi)
        BY <1>1, <1>2, <2>4
      <3> QED BY <1>1, <1>2, <2>3, <2>4, <2>5, <3>1 DEF Distance
    <2>6. CASE v < lo
      <3>1. Distance(v, x) <= Distance(v, lo)
        BY <1>1, <1>2, <2>4
      <3> QED BY <1>1, <1>2, <2>3, <2>4, <2>6, <3>1 DEF Distance
    <2> QED BY <1>1, <1>2, <1>4, <2>5, <2>6
  <1> QED BY <1>3, <1>4

\* A physics tick hands every device it runs a power its bands allow.
LEMMA StepHolds ==
    ASSUME TypeOK, NEW shares \in [Key -> Share], Step(shares),
           NEW k \in Key, Runs(k)
    PROVE  actual'[k] \in {0} \cup (physical[k] \cap ShareOf(k, shares))
  <1> DEFINE v == Slew(actual[k], aim'[k])
             w == HeldIn(physical[k], v)
  <1>1. v \in Power
    BY StepTypes, SlewType DEF TypeOK
  <1>2. physical[k] \in Physical
    BY DEF TypeOK
  <1>3. w \in physical[k] /\ w \in Power
    BY <1>1, <1>2, HeldTowardZero, BandsArePowers
  <1>4. actual'[k] = HeldIn(ShareOf(k, shares), w)
    BY DEF Step, Runs, Trips, NextActual
  <1>5. CASE k \in Reactive
    BY <1>3, <1>4, <1>5 DEF ShareOf, HeldIn
  <1>6. CASE k \notin Reactive
    <2>1. ShareOf(k, shares) \in Share
      BY <1>6 DEF ShareOf
    <2>2. /\ actual'[k] \in ShareOf(k, shares)
          /\ actual'[k] \in (0..w) \cup (w..0)
      BY <1>3, <1>4, <2>1, HeldTowardZero
    <2>3. PICK lo \in Power, hi \in Power :
              lo <= 0 /\ 0 <= hi /\ physical[k] = lo..hi
      BY <1>2, SpanAssumption
    <2>4. actual'[k] \in physical[k]
      BY <1>3, <2>2, <2>3, PowerRange DEF Power
    <2> QED BY <2>2, <2>4
  <1> QED BY <1>5, <1>6

(***************************************************************************)
(* What a tick hands to a device is inside its physical band and its share, *)
(* for every rate and every pair of bands: holding the output in the share  *)
(* never moves it out of the physical band it was held in just before.      *)
(***************************************************************************)
THEOREM OutputsAreHeldInside == Spec => HeldInside
  <1>1. TypeOK /\ [Next]_vars =>
          [\A shares \in [Key -> Share] : Step(shares) =>
              \A k \in Key : Runs(k) =>
                  actual'[k] \in {0} \cup (physical[k] \cap ShareOf(k, shares))]_vars
    BY StepHolds
  <1> QED BY <1>1, TypeCorrect, PTL DEF Spec, HeldInside

\* A share and the side an aim is on leave of a band powers between 0 and the
\* aim, and 0 itself where they leave nothing.
LEMMA NarrowedTowardZero ==
    ASSUME NEW S \in SUBSET Power, NEW v \in S \cup {0},
           NEW lo \in Int, NEW hi \in Int, lo <= 0, 0 <= hi
    PROVE  ClampOrPark(S \cap (lo..hi) \cap SideOf(v), v) \in (0..v) \cup (v..0)
  <1> DEFINE T == S \cap (lo..hi) \cap SideOf(v)
             x == ClampOrPark(T, v)
  <1>1. v \in Power /\ v \in Int /\ T \in SUBSET Power /\ Power \subseteq Int
    BY ZeroIsPower, PowerRange DEF Power
  <1>2. CASE v = 0 \/ T = {}
    <2>1. x = 0
      BY <1>2 DEF ClampOrPark
    <2> QED BY <1>1, <2>1
  <1>3. CASE v # 0 /\ T # {}
    <2>1. x = CHOOSE y \in T : Nearest(T, v, y)
      BY <1>1, <1>3 DEF ClampOrPark, NearestTo
    <2>2. x \in T /\ Nearest(T, v, x)
      BY <1>1, <1>3, <2>1, NearestExists
    <2>3. x \in Int /\ lo <= x /\ x <= hi /\ x \in SideOf(v)
      BY <1>1, <2>2
    <2>4. CASE v \in lo..hi
      <3>1. v \in SideOf(v)
        BY <1>1 DEF SideOf
      <3>2. v \in T
        BY <1>3, <2>4, <3>1
      <3>3. Distance(v, x) <= Distance(v, v)
        BY <1>1, <2>2, <2>3, <3>2 DEF Nearest, Distance
      <3>4. x = v
        BY <1>1, <2>3, <3>3 DEF Distance
      <3> QED BY <1>1, <3>4
    <2>5. CASE v > hi
      <3>1. x >= 0
        BY <1>1, <2>3, <2>5 DEF SideOf
      <3> QED BY <1>1, <2>3, <2>5, <3>1
    <2>6. CASE v < lo
      <3>1. x <= 0
        BY <1>1, <2>3, <2>6 DEF SideOf
      <3> QED BY <1>1, <2>3, <2>6, <3>1
    <2> QED BY <1>1, <2>4, <2>5, <2>6
  <1> QED BY <1>2, <1>3

\* What a tick aims at lies between 0 and what the axis's own bands allow of
\* the command, whatever share it is given.
LEMMA StepNarrows ==
    ASSUME TypeOK, NEW shares \in [Key -> Share], Step(shares),
           NEW k \in Key, Runs(k), Target(k) # None,
           NEW own, own = ClampOrPark(WithPhysical(k), Target(k))
    PROVE  aim'[k] \in (0..own) \cup (own..0)
  <1> DEFINE share == ShareOf(k, shares)
             S == WithPhysical(k)
  <1>1. aim'[k] = NextAim(k, share)
    BY DEF Step, Runs, Trips
  <1>2. aim'[k] = ClampOrPark(S \cap share \cap SideOf(own), own)
    BY <1>1 DEF NextAim, Narrowed
  <1>3. S \in SUBSET Power /\ own \in S \cup {0}
    BY TargetType, EnvelopeIsBand, ClampLands
  <1>4. PICK lo \in Int, hi \in Int : lo <= 0 /\ 0 <= hi /\ share = lo..hi
    <2>1. CASE k \in Reactive
      BY <2>1, PowerRange DEF ShareOf, Power
    <2>2. CASE k \notin Reactive
      <3>1. share \in Physical \cup Share
        BY <2>2 DEF ShareOf
      <3>2. PICK lo \in Power, hi \in Power :
                lo <= 0 /\ 0 <= hi /\ share = lo..hi
        BY <3>1, SpanAssumption
      <3> QED BY <3>2, PowerRange DEF Power
    <2> QED BY <2>1, <2>2
  <1> HIDE DEF S, share
  <1>5. ClampOrPark(S \cap (lo..hi) \cap SideOf(own), own)
            \in (0..own) \cup (own..0)
    BY <1>3, <1>4, NarrowedTowardZero
  <1> QED BY <1>2, <1>4, <1>5

(***************************************************************************)
(* A share only ever narrows: for every set of bands, augmentations and     *)
(* shares, a tick aims an axis no further than its own bands would, and on  *)
(* the same side of 0.                                                      *)
(***************************************************************************)
THEOREM SharesOnlyNarrow == Spec => ShareOnlyNarrows
  <1>1. TypeOK /\ [Next]_vars =>
          [\A shares \in [Key -> Share] : Step(shares) =>
              \A k \in Key : Runs(k) /\ Target(k) # None =>
                  LET own == ClampOrPark(WithPhysical(k), Target(k))
                  IN  aim'[k] \in (0..own) \cup (own..0)]_vars
    BY StepNarrows
  <1> QED BY <1>1, TypeCorrect, PTL DEF Spec, ShareOnlyNarrows

\* The steps that end a command and what they end it for.
LEMMA CommandEndsFor ==
    ASSUME TypeOK, IInv, Next, NEW k \in Key,
           Found(k), HasCommand(delay[k]), ~HasCommand(delay'[k])
    PROVE  \/ lifetimes[k] = 0
           \/ ~health[IdOf(k)] /\ k \notin Keeps
           \/ ~Found(k)'
  <1>1. CASE Clock
    BY <1>1, AgedKeepsCommand DEF Clock, TypeOK
  <1>2. CASE Tick
    <2>1. PICK shares \in [Key -> Share] : Step(shares)
      BY <1>2 DEF Tick
    <2>2. CASE Forgets(k)
      BY <2>2 DEF Forgets, Trips
    <2>3. CASE ~Forgets(k)
      <3>1. ~HasCommand(DelayLeft(k))
        BY <2>1, <2>3, DelayLeftIsLine, PollKeepsCommand DEF Step
      <3> QED BY <3>1 DEF DelayLeft, Expires, Expired
    <2> QED BY <2>2, <2>3
  <1>3. CASE InsertById \/ ClearById \/ \E i \in Id : RemoveById(i) \/ SetHealth(i)
    BY <1>3 DEF InsertById, ClearById, RemoveById, SetHealth, gateway
  <1>4. CASE Forget
    <2>1. CASE IdOf(k) = subject
      BY <1>4, <2>1 DEF Forget, IInv, Lifecycle, Found
    <2>2. CASE IdOf(k) # subject
      BY <1>4, <2>2 DEF Forget, Drop, Restored, KeysOf
    <2> QED BY <2>1, <2>2
  <1>5. CASE ClearGateway
    BY <1>5 DEF ClearGateway, IInv, Lifecycle, Found
  <1>6. CASE \E i \in Id : OnRegister(i)
    <2>1. PICK i \in Id : OnRegister(i)
      BY <1>6
    <2>2. IdOf(k) # i
      BY <2>1 DEF OnRegister, Found
    <2> QED BY <2>1, <2>2 DEF OnRegister, Drop, Restored, KeysOf
  <1>7. CASE \E j \in Key : SetPower(j)
    <2>1. \A j \in Key : SetPower(j) => KeyInv(k)' /\ UNCHANGED registry
      BY SetPowerKeeps DEF SetPower, SetPowerReject, SetPowerClamp, Accept
    <2>2. PICK j \in Key : SetPower(j)
      BY <1>7
    <2>3. lifetimes'[k] # None
      <3>1. lifetimes[k] # None
        BY DEF IInv, CommandHasLifetime
      <3>2. \E life \in Life : lifetimes' = [lifetimes EXCEPT ![j] = life]
        BY <2>2 DEF SetPower, SetPowerReject, SetPowerClamp, Accept
      <3> QED BY <3>1, <3>2, LifeAssumption DEF TypeOK
    <2> QED BY <1>7, <2>1, <2>3 DEF KeyInv, Found, registry
  <1>8. CASE \E j \in Key : PhysicalMoves(j) \/ BaseMoves(j)
    BY <1>8 DEF PhysicalMoves, BaseMoves, gateway
  <1>9. CASE \E j \in Key, band \in Narrowing, life \in Life : Augment(j, band, life)
    BY <1>9 DEF Augment
  <1> QED
    BY <1>1, <1>2, <1>3, <1>4, <1>5, <1>6, <1>7, <1>8, <1>9 DEF Next

(***************************************************************************)
(* A command ends only for a reason of its own, with any number of axes and *)
(* of other components registered, removed, faulted or expiring around it.  *)
(***************************************************************************)
THEOREM CommandsEndForOwnCause == Spec => OnlyOwnCauseEndsCommand
  <1>1. IInv /\ [Next]_vars =>
          [\A k \in Key :
              Found(k) /\ HasCommand(delay[k]) /\ ~HasCommand(delay'[k]) =>
                  \/ lifetimes[k] = 0
                  \/ ~health[IdOf(k)] /\ k \notin Keeps
                  \/ ~Found(k)']_vars
    BY CommandEndsFor DEF IInv
  <1> QED BY <1>1, Invariance, PTL DEF Spec, OnlyOwnCauseEndsCommand

-----------------------------------------------------------------------------
(* Sequences of at most two *)

\* A sequence of length one or two is the tuple of what it holds.
LEMMA AsTuple ==
    ASSUME NEW S, NEW s \in Seq(S)
    PROVE  /\ Len(s) = 0 => s = <<>>
           /\ Len(s) = 1 => s = <<s[1]>>
           /\ Len(s) = 2 => s = <<s[1], s[2]>>
  <1>1. Len(s) = 0 => s = <<>>
    OBVIOUS
  <1>2. ASSUME Len(s) = 1 PROVE s = <<s[1]>>
    <2> DEFINE t == <<s[1]>>
    <2>1. t \in Seq(S) /\ Len(t) = 1 /\ t[1] = s[1]
      BY <1>2
    <2> HIDE DEF t
    <2>2. \A i \in 1..1 : s[i] = t[i]
      BY <2>1
    <2>3. s = t
      BY <1>2, <2>1, <2>2, SeqEqual
    <2> QED BY <2>3 DEF t
  <1>3. ASSUME Len(s) = 2 PROVE s = <<s[1], s[2]>>
    <2> DEFINE t == <<s[1], s[2]>>
    <2>1. s \in [1..2 -> S]
      BY <1>3, LenProperties
    <2>2. s[1] \in S /\ s[2] \in S
      BY <2>1
    <2>3. t \in Seq(S) /\ Len(t) = 2 /\ t[1] = s[1] /\ t[2] = s[2]
      BY <2>2
    <2> HIDE DEF t
    <2>4. \A i \in 1..2 : s[i] = t[i]
      BY <2>3
    <2>5. s = t
      BY <1>3, <2>3, <2>4, SeqEqual
    <2> QED BY <2>5 DEF t
  <1> QED BY <1>1, <1>2, <1>3

LEMMA ShortSequences ==
    ASSUME NEW a, NEW b
    PROVE  /\ Append(<<>>, a) = <<a>> /\ Append(<<a>>, b) = <<a, b>>
           /\ <<>> \o <<>> = <<>> /\ <<a>> \o <<>> = <<a>>
           /\ <<a>> \o <<b>> = <<a, b>>
  <1> DEFINE S == {a, b}
  <1>1. /\ <<>> \in Seq(S) /\ <<a>> \in Seq(S) /\ <<b>> \in Seq(S)
        /\ Len(<<>>) = 0 /\ Len(<<a>>) = 1 /\ Len(<<b>>) = 1
        /\ <<a>>[1] = a /\ <<b>>[1] = b /\ a \in S /\ b \in S
    OBVIOUS
  <1> HIDE DEF S
  <1>2. <<>> \o <<>> = <<>> /\ <<a>> \o <<>> = <<a>>
    BY <1>1, ConcatEmptySeq
  <1>3. /\ <<a>> \o <<b>> \in Seq(S) /\ Len(<<a>> \o <<b>>) = 2
        /\ (<<a>> \o <<b>>)[1] = a /\ (<<a>> \o <<b>>)[2] = b
    BY <1>1, ConcatProperties
  <1>4. <<a>> \o <<b>> = <<a, b>>
    BY <1>3, AsTuple
  <1>5. Append(<<a>>, b) = <<a>> \o <<b>>
    BY <1>1, AppendIsConcat
  <1>6. Append(<<>>, a) = <<a>>
    BY <1>1, AppendIsConcat, ConcatEmptySeq
  <1> QED BY <1>2, <1>4, <1>5, <1>6

LEMMA ShortParts ==
    ASSUME NEW a, NEW b
    PROVE  /\ SubSeq(<<>>, 1, 0) = <<>> /\ SubSeq(<<a>>, 1, 1) = <<a>>
           /\ SubSeq(<<a, b>>, 1, 1) = <<a>>
           /\ SubSeq(<<a>>, 2, 1) = <<>> /\ SubSeq(<<a, b>>, 2, 2) = <<b>>
  <1>1. SubSeq(<<>>, 1, 0) = <<>> /\ SubSeq(<<a>>, 2, 1) = <<>>
    BY SubSeqEmpty
  <1>2. SubSeq(<<a>>, 1, 1) = <<a>>
    <2>1. <<a>> \in Seq({a}) /\ Len(<<a>>) = 1
      OBVIOUS
    <2> QED BY <2>1, SubSeqFull
  <1> DEFINE S == {a, b}
             s == <<a, b>>
  <1>3. s[1] = a /\ s[2] = b /\ a \in S /\ b \in S
    OBVIOUS
  <1> HIDE DEF S, s
  <1>4. \A i \in {1, 2} : SubSeq(s, i, i) = <<s[i]>>
    <2>1. TAKE i \in {1, 2}
    <2>2. i \in Int /\ i <= i /\ i - i + 1 = 1 /\ 1 \in 1..1 /\ i + 1 - 1 = i
      OBVIOUS
    <2>3. \A j \in i..i : s[j] \in S
      BY <1>3
    <2>4. /\ SubSeq(s, i, i) \in Seq(S) /\ Len(SubSeq(s, i, i)) = 1
          /\ SubSeq(s, i, i)[1] = s[i]
      BY <2>2, <2>3, SubSeqProperties
    <2> QED BY <2>4, AsTuple
  <1>5. SubSeq(s, 1, 1) = <<a>> /\ SubSeq(s, 2, 2) = <<b>>
    BY <1>3, <1>4
  <1> QED BY <1>1, <1>2, <1>5 DEF s

\* What a line queues is what executes and what waits behind it.
LEMMA QueuedShape ==
    ASSUME NEW d
    PROVE  /\ d.executing = None /\ d.waiting = None => Queued(d) = <<>>
           /\ d.executing # None /\ d.waiting = None
                  => Queued(d) = <<d.executing.value>>
           /\ d.executing # None /\ d.waiting # None
                  => Queued(d) = <<d.executing.value, d.waiting.value>>
  <1>1. CASE d.executing = None /\ d.waiting = None
    BY <1>1, ShortSequences DEF Queued, Held
  <1>2. CASE d.executing # None /\ d.waiting = None
    BY <1>2, ShortSequences DEF Queued, Held
  <1>3. CASE d.executing # None /\ d.waiting # None
    BY <1>3, ShortSequences DEF Queued, Held
  <1> QED BY <1>1, <1>2, <1>3

-----------------------------------------------------------------------------
(* The inductive invariant *)

\* Accepting a command keeps the line in order, and the command in it.
LEMMA SubmitKeeps ==
    ASSUME DelayIInv, NEW v \in Value, Submit(v)
    PROVE  DelayIInv'
  <1>1. line' = SetTarget(line, v) /\ newest' = v /\ stepped' = stepped
    BY DEF Submit
  <1>2. line \in DelayLine /\ line' \in DelayLine
    BY <1>1, SetTargetIsLine DEF DelayIInv, DelayTypeOK
  <1>3. DelayTypeOK'
    BY <1>1, <1>2 DEF DelayIInv, DelayTypeOK
  <1>4. Fresh(v) # None /\ Fresh(v).value = v /\ ~Stamped(Fresh(v))
    BY NoneIsNothing DEF Fresh, Command, Stamped
  <1>5. CASE Delay = 0
    <2>1. line'.executing = None /\ line'.waiting = None /\ line'.armed = v
      BY <1>1, <1>5 DEF SetTarget, NoCommand
    <2> QED BY <1>1, <1>3, <2>1 DEF DelayIInv, Lined, NewestKept, Stamped
  <1>6. CASE Delay # 0 /\ line.executing = None
    <2>1. /\ line'.executing = Fresh(v) /\ line'.waiting = line.waiting
          /\ line.waiting = None
      BY <1>1, <1>2, <1>6 DEF SetTarget, DelayLine, DelayIInv, Lined
    <2> QED BY <1>1, <1>3, <1>4, <2>1 DEF DelayIInv, Lined, NewestKept, Stamped
  <1>7. CASE Delay # 0 /\ line.executing # None
    <2>1. line'.executing = line.executing /\ line'.waiting = Fresh(v)
      BY <1>1, <1>2, <1>7 DEF SetTarget, DelayLine
    <2> QED BY <1>1, <1>3, <1>4, <1>7, <2>1 DEF DelayIInv, Lined, NewestKept
  <1> QED BY <1>5, <1>6, <1>7

\* A poll stamps at the present, which is not ahead of the clock.
LEMMA StampAtIsNotAhead ==
    ASSUME NEW c \in Command \cup {None}, NEW s \in Nat, Stamped(c) => c.age >= -s
    PROVE  /\ StampAt(c) # None => StampAt(c).age >= -s
           /\ StampAt(c) = None <=> c = None
           /\ c # None => StampAt(c).value = c.value
  <1>1. CASE Stamped(c) \/ c = None
    BY <1>1, StampAtType DEF StampAt, Stamped
  <1>2. CASE c # None /\ c.age = Unstamped
    <2>1. StampAt(c).age = 0
      BY <1>2 DEF StampAt, Command
    <2> QED BY <1>2, <2>1, StampAtType
  <1> QED BY <1>1, <1>2 DEF Stamped

\* A poll moves the commands of a line along and keeps their order.
LEMMA PollKeeps ==
    ASSUME DelayIInv, PollTick
    PROVE  DelayIInv'
  <1> DEFINE e == StampAt(line.executing)
             w == StampAt(line.waiting)
  <1>1. line' = Poll(line) /\ newest' = newest /\ stepped' = stepped
    BY DEF PollTick
  <1>2. /\ line \in DelayLine /\ line' \in DelayLine /\ stepped \in Nat
        /\ line.executing \in Command \cup {None} /\ line.waiting \in Command \cup {None}
    BY <1>1, PollIsLine, DelayAssumption DEF DelayIInv, DelayTypeOK, DelayLine
  <1>3. DelayTypeOK'
    BY <1>1, <1>2 DEF DelayIInv, DelayTypeOK
  <1>4. /\ e # None => e.age >= -stepped
        /\ e = None <=> line.executing = None
        /\ line.executing # None => e.value = line.executing.value
    BY <1>2, StampAtIsNotAhead DEF DelayIInv, Lined
  <1>5. /\ w # None => w.age >= -stepped
        /\ w = None <=> line.waiting = None
        /\ line.waiting # None => w.value = line.waiting.value
    BY <1>2, StampAtIsNotAhead DEF DelayIInv, Lined
  <1>6. CASE e # None /\ IsDue(e.age)
    <2>1. line'.executing = w /\ line'.waiting = None /\ line'.armed = e.value
      BY <1>1, <1>6 DEF Poll
    <2> HIDE DEF e, w
    <2> QED BY <1>1, <1>3, <1>4, <1>5, <1>6, <2>1 DEF DelayIInv, Lined, NewestKept, Stamped
  <1>7. CASE ~(e # None /\ IsDue(e.age))
    <2>1. line'.executing = e /\ line'.waiting = w /\ line'.armed = line.armed
      BY <1>1, <1>7 DEF Poll
    <2> HIDE DEF e, w
    <2> QED BY <1>1, <1>3, <1>4, <1>5, <2>1 DEF DelayIInv, Lined, NewestKept, Stamped
  <1> QED BY <1>6, <1>7

\* One tick later, or some ticks earlier, a command is the command it was.
LEMMA OlderIsOlder ==
    ASSUME NEW c \in Command \cup {None}, NEW s \in Nat, Stamped(c) => c.age >= -s
    PROVE  /\ Stamped(Older(c)) => Older(c).age >= -s
           /\ c # None => Older(c).value = c.value
  <1>1. CASE Stamped(c) /\ c.age < Oldest
    <2>1. c.age \in Int
      BY <1>1 DEF Stamped, Command, Age
    <2>2. Older(c).age = c.age + 1 /\ Older(c).value = c.value
      BY <1>1 DEF Older, Stamped, Command
    <2> QED BY <1>1, <2>1, <2>2
  <1>2. CASE ~(Stamped(c) /\ c.age < Oldest)
    BY <1>2 DEF Older, Stamped
  <1> QED BY <1>1, <1>2

LEMMA ClockMoveKeeps ==
    ASSUME DelayIInv, ClockMoves
    PROVE  DelayIInv'
  <1>1. line' = Aged(line) /\ newest' = newest /\ stepped' = stepped
    BY DEF ClockMoves
  <1>2. /\ line \in DelayLine /\ line' \in DelayLine /\ stepped \in Nat
        /\ line.executing \in Command \cup {None} /\ line.waiting \in Command \cup {None}
    BY <1>1, AgedKeepsCommand, DelayAssumption DEF DelayIInv, DelayTypeOK, DelayLine
  <1>3. /\ line'.executing = Older(line.executing)
        /\ line'.waiting = Older(line.waiting) /\ line'.armed = line.armed
    BY <1>1 DEF Aged
  <1>4. /\ Stamped(line'.executing) => line'.executing.age >= -stepped
        /\ line'.executing = None <=> line.executing = None
        /\ line.executing # None => line'.executing.value = line.executing.value
    BY <1>2, <1>3, OlderIsOlder, OlderType DEF DelayIInv, Lined
  <1>5. /\ Stamped(line'.waiting) => line'.waiting.age >= -stepped
        /\ line'.waiting = None <=> line.waiting = None
        /\ line.waiting # None => line'.waiting.value = line.waiting.value
    BY <1>2, <1>3, OlderIsOlder, OlderType DEF DelayIInv, Lined
  <1> QED BY <1>1, <1>2, <1>3, <1>4, <1>5 DEF DelayIInv, DelayTypeOK, Lined, NewestKept

LEMMA YoungerType ==
    ASSUME NEW c \in Command \cup {None}, NEW s \in Nat, NEW ticks \in Nat,
           s + ticks <= Back, Stamped(c) => c.age >= -s
    PROVE  /\ Younger(c, ticks) \in Command \cup {None}
           /\ Stamped(Younger(c, ticks)) => Younger(c, ticks).age >= -(s + ticks)
           /\ Younger(c, ticks) = None <=> c = None
           /\ c # None => Younger(c, ticks).value = c.value
  <1>1. CASE Stamped(c)
    <2>1. c \in Command /\ c.age \in Age /\ c.age >= -s
      BY <1>1 DEF Stamped, Command
    <2>2. c.age - ticks \in Age /\ c.age - ticks >= -(s + ticks)
      BY <2>1, DelayAssumption DEF Age, Oldest
    <2>3. Younger(c, ticks) = [c EXCEPT !.age = c.age - ticks]
      BY <1>1 DEF Younger, Stamped
    <2>4. /\ Younger(c, ticks) \in Command /\ Younger(c, ticks).value = c.value
          /\ Younger(c, ticks).age = c.age - ticks
      BY <2>1, <2>2, <2>3 DEF Command
    <2> QED BY <1>1, <2>2, <2>4, NoneIsNothing DEF Stamped
  <1>2. CASE ~Stamped(c)
    BY <1>2 DEF Younger, Stamped
  <1> QED BY <1>1, <1>2

LEMMA StepBackKeeps ==
    ASSUME DelayIInv, NEW ticks \in 1..Back, StepBack(ticks)
    PROVE  DelayIInv'
  <1>1. /\ stepped + ticks <= Back /\ stepped' = stepped + ticks /\ newest' = newest
        /\ line' = [line EXCEPT !.executing = Younger(@, ticks),
                                !.waiting = Younger(@, ticks)]
    BY DEF StepBack
  <1>2. /\ line \in DelayLine /\ stepped \in Nat /\ ticks \in Nat
        /\ line.executing \in Command \cup {None} /\ line.waiting \in Command \cup {None}
        /\ stepped + ticks \in 0..Back
    BY <1>1, DelayAssumption DEF DelayIInv, DelayTypeOK, DelayLine
  <1>3. /\ line'.executing = Younger(line.executing, ticks)
        /\ line'.waiting = Younger(line.waiting, ticks) /\ line'.armed = line.armed
    BY <1>1, <1>2 DEF DelayLine
  <1>4. /\ line'.executing \in Command \cup {None}
        /\ Stamped(line'.executing) => line'.executing.age >= -(stepped + ticks)
        /\ line'.executing = None <=> line.executing = None
        /\ line.executing # None => line'.executing.value = line.executing.value
    BY <1>1, <1>2, <1>3, YoungerType DEF DelayIInv, Lined
  <1>5. /\ line'.waiting \in Command \cup {None}
        /\ Stamped(line'.waiting) => line'.waiting.age >= -(stepped + ticks)
        /\ line'.waiting = None <=> line.waiting = None
        /\ line.waiting # None => line'.waiting.value = line.waiting.value
    BY <1>1, <1>2, <1>3, YoungerType DEF DelayIInv, Lined
  <1>6. line' \in DelayLine
    BY <1>1, <1>2, <1>3, <1>4, <1>5 DEF DelayLine
  <1> QED BY <1>1, <1>2, <1>3, <1>4, <1>5, <1>6 DEF DelayIInv, DelayTypeOK, Lined, NewestKept

LEMMA NoCommandKeeps ==
    ASSUME line = NoCommand, stepped \in 0..Back, newest = None
    PROVE  DelayIInv
  BY NoCommandIsLine DEF DelayIInv, DelayTypeOK, Lined, NewestKept, NoCommand, Stamped

LEMMA DelayStepKeeps == DelayIInv /\ [DelayNext]_delayVars => DelayIInv'
  <1> SUFFICES ASSUME DelayIInv, [DelayNext]_delayVars PROVE DelayIInv'
    OBVIOUS
  <1>1. CASE PollTick
    BY <1>1, PollKeeps
  <1>2. CASE ClockMoves
    BY <1>2, ClockMoveKeeps
  <1>3. CASE \E ticks \in 1..Back : StepBack(ticks)
    BY <1>3, StepBackKeeps
  <1>4. CASE Reset
    <2>1. line' = NoCommand /\ newest' = None /\ stepped' \in 0..Back
      BY <1>4 DEF Reset, DelayIInv, DelayTypeOK
    <2> QED BY <2>1, NoCommandIsLine
            DEF DelayIInv, DelayTypeOK, Lined, NewestKept, NoCommand, Stamped
  <1>5. CASE \E v \in Value : Submit(v)
    BY <1>5, SubmitKeeps
  <1>6. CASE UNCHANGED delayVars
    BY <1>6 DEF delayVars, DelayIInv, DelayTypeOK, Lined, NewestKept
  <1> QED BY <1>1, <1>2, <1>3, <1>4, <1>5, <1>6 DEF DelayNext

(***************************************************************************)
(* However commands, polls, resets and backward clock steps follow one      *)
(* another, the newest command accepted waits last in line or is armed.     *)
(***************************************************************************)
THEOREM NewestIsKept == DelaySpec => []NewestKept
  <1>1. DelayInit => DelayIInv
    BY DelayAssumption, NoCommandKeeps DEF DelayInit
  <1>2. DelayIInv => NewestKept
    BY DEF DelayIInv
  <1> QED BY <1>1, <1>2, DelayStepKeeps, PTL DEF DelaySpec

-----------------------------------------------------------------------------
(* The refinement *)

\* A command accepted takes the place of the one that waited, or is queued,
\* or passes at once.
LEMMA SubmitPromises ==
    ASSUME DelayIInv, NEW v \in Value, Submit(v)
    PROVE  Promise!Next
  <1>1. line' = SetTarget(line, v) /\ newest' = v
    BY DEF Submit
  <1>2. line \in DelayLine
    BY DEF DelayIInv, DelayTypeOK
  <1>3. Fresh(v) # None /\ Fresh(v).value = v
    BY NoneIsNothing DEF Fresh, Command
  <1>4. CASE Delay = 0
    <2>1. line'.executing = None /\ line'.waiting = None /\ line'.armed = v
      BY <1>1, <1>4 DEF SetTarget, NoCommand
    <2>2. InLine' = <<>>
      BY <2>1, QueuedShape DEF InLine
    <2>3. Promise!Pass(v)
      BY <1>1, <2>1, <2>2 DEF Promise!Pass
    <2> QED BY <2>3 DEF Promise!Next
  <1>5. CASE Delay # 0
    <2>1. line'.armed = line.armed
      BY <1>1, <1>2, <1>5 DEF SetTarget, DelayLine
    <2>2. PICK n \in 0..Len(InLine) : InLine' = Append(SubSeq(InLine, 1, n), v)
      <3>1. CASE line.executing = None
        <4>1. /\ line.waiting = None
              /\ line'.executing = Fresh(v) /\ line'.waiting = None
          BY <1>1, <1>2, <1>5, <3>1 DEF SetTarget, DelayLine, DelayIInv, Lined
        <4>2. InLine = <<>> /\ InLine' = <<v>>
          BY <1>3, <3>1, <4>1, QueuedShape DEF InLine
        <4>3. InLine' = Append(SubSeq(InLine, 1, 0), v) /\ 0 \in 0..Len(InLine)
          BY <4>2, ShortSequences, ShortParts
        <4> QED BY <4>3
      <3>2. CASE line.executing # None
        <4> DEFINE e == line.executing.value
        <4>1. /\ line'.executing = line.executing /\ line'.waiting = Fresh(v)
          BY <1>1, <1>2, <1>5, <3>2 DEF SetTarget, DelayLine
        <4>2. InLine' = <<e, v>>
          BY <1>3, <3>2, <4>1, QueuedShape DEF InLine
        <4>3. SubSeq(InLine, 1, 1) = <<e>> /\ 1 \in 0..Len(InLine)
          <5>1. CASE line.waiting = None
            <6>1. InLine = <<e>>
              BY <3>2, <5>1, QueuedShape DEF InLine
            <6>2. SubSeq(<<e>>, 1, 1) = <<e>> /\ Len(<<e>>) = 1
              BY ShortParts
            <6> QED BY <6>1, <6>2
          <5>2. CASE line.waiting # None
            <6>1. InLine = <<e, line.waiting.value>>
              BY <3>2, <5>2, QueuedShape DEF InLine
            <6> DEFINE w == line.waiting.value
            <6>2. SubSeq(<<e, w>>, 1, 1) = <<e>> /\ Len(<<e, w>>) = 2
              BY ShortParts
            <6> QED BY <6>1, <6>2
          <5> QED BY <5>1, <5>2
        <4>4. InLine' = Append(SubSeq(InLine, 1, 1), v)
          BY <4>2, <4>3, ShortSequences
        <4> QED BY <4>3, <4>4
      <3> QED BY <3>1, <3>2
    <2>3. Promise!Submit(v)
      BY <1>1, <2>1, <2>2 DEF Promise!Submit
    <2> QED BY <2>3 DEF Promise!Next
  <1> QED BY <1>4, <1>5

\* A line whose commands are the ones they were is queued as it was.
LEMMA SameQueue ==
    ASSUME NEW d, NEW d2,
           d2.executing = None <=> d.executing = None,
           d2.waiting = None <=> d.waiting = None,
           d.executing # None => d2.executing.value = d.executing.value,
           d.waiting # None => d2.waiting.value = d.waiting.value
    PROVE  Queued(d2) = Queued(d)
  BY DEF Queued, Held

\* A poll brings out the oldest command, or none.
LEMMA PollMoves ==
    ASSUME DelayIInv, PollTick
    PROVE  \/ InLine' = InLine /\ line'.armed = line.armed
           \/ /\ InLine' = SubSeq(InLine, 2, Len(InLine))
              /\ Len(InLine') = Len(InLine) - 1
              /\ 1 \in 0..Len(InLine) /\ line'.armed = InLine[1]
  <1> DEFINE e == StampAt(line.executing)
             w == StampAt(line.waiting)
  <1>1. line' = Poll(line)
    BY DEF PollTick
  <1>2. /\ line.executing \in Command \cup {None}
        /\ line.waiting \in Command \cup {None}
    BY DEF DelayIInv, DelayTypeOK, DelayLine
  <1>3. /\ e = None <=> line.executing = None
        /\ line.executing # None => e.value = line.executing.value
        /\ w = None <=> line.waiting = None
        /\ line.waiting # None => w.value = line.waiting.value
    BY <1>2, StampAtType
  <1>4. CASE e # None /\ IsDue(e.age)
    <2>1. line'.executing = w /\ line'.waiting = None /\ line'.armed = e.value
      BY <1>1, <1>4 DEF Poll
    <2> HIDE DEF e, w
    <2> DEFINE v == line.executing.value
    <2>2. line.executing # None /\ line'.armed = v
      BY <1>3, <1>4, <2>1
    <2>3. CASE line.waiting = None
      <3>1. InLine = <<v>> /\ InLine' = <<>>
        BY <1>3, <2>1, <2>2, <2>3, QueuedShape DEF InLine
      <3>2. Len(InLine) = 1 /\ InLine[1] = v /\ Len(InLine') = 0
        BY <3>1
      <3> QED BY <2>2, <3>1, <3>2, ShortParts
    <2>4. CASE line.waiting # None
      <3>1. InLine = <<v, line.waiting.value>> /\ InLine' = <<line.waiting.value>>
        BY <1>3, <2>1, <2>2, <2>4, QueuedShape DEF InLine
      <3>2. Len(InLine) = 2 /\ InLine[1] = v /\ Len(InLine') = 1
        BY <3>1
      <3> QED BY <2>2, <3>1, <3>2, ShortParts
    <2> QED BY <2>3, <2>4
  <1>5. CASE ~(e # None /\ IsDue(e.age))
    <2>1. line'.executing = e /\ line'.waiting = w /\ line'.armed = line.armed
      BY <1>1, <1>5 DEF Poll
    <2> HIDE DEF e, w
    <2>2. InLine' = InLine
      BY <1>3, <2>1, SameQueue DEF InLine
    <2> QED BY <2>1, <2>2
  <1> QED BY <1>4, <1>5

LEMMA PollPromises ==
    ASSUME DelayIInv, PollTick
    PROVE  Promise!Release \/ UNCHANGED Promise!vars
  <1>1. newest' = newest
    BY DEF PollTick
  <1>2. CASE InLine' = InLine /\ line'.armed = line.armed
    BY <1>1, <1>2 DEF Promise!vars
  <1>3. CASE ~(InLine' = InLine /\ line'.armed = line.armed)
    <2>1. InLine \in Promise!Thinned
      BY DEF Promise!Thinned
    <2>2. /\ 1 \in 0..Len(InLine)
          /\ InLine' = SubSeq(InLine, 1 + 1, Len(InLine))
          /\ line'.armed = IF 1 = 0 THEN line.armed ELSE InLine[1]
      BY <1>3, PollMoves
    <2> QED BY <1>1, <2>1, <2>2 DEF Promise!Release
  <1> QED BY <1>2, <1>3

\* Time moves no command, whichever way the clock steps.
LEMMA ClockPromises ==
    ASSUME DelayIInv, ClockMoves \/ \E ticks \in 1..Back : StepBack(ticks)
    PROVE  UNCHANGED Promise!vars
  <1>0. newest' = newest
    BY DEF ClockMoves, StepBack
  <1>1. /\ line \in DelayLine /\ stepped \in Nat
        /\ line.executing \in Command \cup {None} /\ line.waiting \in Command \cup {None}
    BY DelayAssumption DEF DelayIInv, DelayTypeOK, DelayLine
  <1>2. /\ line'.armed = line.armed
        /\ line'.executing = None <=> line.executing = None
        /\ line.executing # None => line'.executing.value = line.executing.value
        /\ line'.waiting = None <=> line.waiting = None
        /\ line.waiting # None => line'.waiting.value = line.waiting.value
    <2>1. CASE ClockMoves
      <3>1. /\ line'.executing = Older(line.executing)
            /\ line'.waiting = Older(line.waiting) /\ line'.armed = line.armed
        BY <2>1 DEF ClockMoves, Aged
      <3> QED BY <1>1, <3>1, OlderIsOlder, OlderType DEF DelayIInv, Lined
    <2>2. ASSUME NEW ticks \in 1..Back, StepBack(ticks)
          PROVE  /\ line'.armed = line.armed
                 /\ line'.executing = None <=> line.executing = None
                 /\ line.executing # None => line'.executing.value = line.executing.value
                 /\ line'.waiting = None <=> line.waiting = None
                 /\ line.waiting # None => line'.waiting.value = line.waiting.value
      <3>1. /\ stepped + ticks <= Back
            /\ line' = [line EXCEPT !.executing = Younger(@, ticks),
                                    !.waiting = Younger(@, ticks)]
        BY <2>2 DEF StepBack
      <3>2. /\ line'.executing = Younger(line.executing, ticks)
            /\ line'.waiting = Younger(line.waiting, ticks) /\ line'.armed = line.armed
        BY <1>1, <3>1 DEF DelayLine
      <3>3. ticks \in Nat
        OBVIOUS
      <3> QED BY <1>1, <3>1, <3>2, <3>3, YoungerType DEF DelayIInv, Lined
    <2> QED BY <2>1, <2>2
  <1>3. InLine' = InLine
    BY <1>2, SameQueue DEF InLine
  <1> QED BY <1>0, <1>2, <1>3 DEF Promise!vars

LEMMA StepPromises == DelayIInv /\ [DelayNext]_delayVars => [Promise!Next]_Promise!vars
  <1> SUFFICES ASSUME DelayIInv, [DelayNext]_delayVars PROVE [Promise!Next]_Promise!vars
    OBVIOUS
  <1>1. CASE PollTick
    BY <1>1, PollPromises DEF Promise!Next
  <1>2. CASE ClockMoves \/ \E ticks \in 1..Back : StepBack(ticks)
    BY <1>2, ClockPromises
  <1>3. CASE Reset
    <2>1. line'.executing = None /\ line'.waiting = None /\ line'.armed = None
      BY <1>3 DEF Reset, NoCommand
    <2>2. InLine' = <<>>
      BY <2>1, QueuedShape DEF InLine
    <2> QED BY <1>3, <2>1, <2>2 DEF Reset, Promise!Reset, Promise!Next
  <1>4. CASE \E v \in Value : Submit(v)
    BY <1>4, SubmitPromises
  <1>5. CASE UNCHANGED delayVars
    BY <1>5 DEF delayVars, Promise!vars, InLine
  <1> QED BY <1>1, <1>2, <1>3, <1>4, <1>5 DEF DelayNext

(***************************************************************************)
(* Commands arm in the order they were accepted, one is passed over only    *)
(* for a later one, and the newest is never lost: CommandDelay implements   *)
(* DelayPromise.                                                            *)
(***************************************************************************)
THEOREM DelayKeepsPromise == DelaySpec => KeepsPromise
  <1>1. DelayInit => DelayIInv
    BY DelayAssumption, NoCommandKeeps DEF DelayInit
  <1>2. DelayInit => Promise!Init
    <2> SUFFICES ASSUME DelayInit PROVE Promise!Init
      OBVIOUS
    <2>1. line.executing = None /\ line.waiting = None /\ line.armed = None
      BY DEF DelayInit, NoCommand
    <2>2. InLine = <<>>
      BY <2>1, QueuedShape DEF InLine
    <2> QED BY <2>1, <2>2 DEF DelayInit, Promise!Init
  <1> QED BY <1>1, <1>2, DelayStepKeeps, StepPromises, PTL DEF DelaySpec, KeepsPromise, Promise!Spec

(***************************************************************************)
(* A burst never collapses: one poll brings out at most one command.        *)
(***************************************************************************)
THEOREM BurstsDoNotCollapse == DelaySpec => OneCommandPerPoll
  <1>1. DelayInit => DelayIInv
    BY DelayAssumption, NoCommandKeeps DEF DelayInit
  <1>2. ASSUME DelayIInv, PollTick PROVE Len(InLine') >= Len(InLine) - 1
    <2>1. Len(InLine) \in Nat
      <3>1. \A a, b : Len(<<a>>) = 1 /\ Len(<<a, b>>) = 2
        OBVIOUS
      <3> QED BY <1>2, <3>1, QueuedShape DEF InLine, DelayIInv, Lined
    <2> QED BY <1>2, <2>1, PollMoves
  <1>3. DelayIInv /\ [DelayNext]_delayVars => [PollTick => Len(InLine') >= Len(InLine) - 1]_delayVars
    BY <1>2
  <1> QED BY <1>1, <1>3, DelayStepKeeps, PTL DEF DelaySpec, OneCommandPerPoll
=============================================================================
