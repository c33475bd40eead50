---------------------------- MODULE PowerProofs -----------------------------
(***************************************************************************)
(* What the operators that the power axes share do, for every range of      *)
(* powers and every delay: a clamp of BandSets lands in its band, and the   *)
(* operators of DelayOps keep the state well-formed, with only a reset      *)
(* making a commanded line uncommanded.                                     *)
(***************************************************************************)
EXTENDS BandSets, DelayOps, WellFoundedInduction, TLAPS

-----------------------------------------------------------------------------
(* Bands *)

\* A non-empty set of naturals has a least member.
LEMMA LeastNatural ==
    ASSUME NEW T \in SUBSET Nat, T # {}
    PROVE  \E m \in T : \A n \in T : m <= n
  <1> DEFINE R == OpToRel(<, Nat)
  <1>1. PICK m \in T : \A n \in T : ~(<<n, m>> \in R)
    BY NatLessThanWellFounded, WFMin
  <1>2. \A n \in T : ~(n < m)
    BY <1>1 DEF OpToRel
  <1> QED BY <1>2

\* A non-empty set of powers has one nearest to any power: clamps exist.
LEMMA NearestExists ==
    ASSUME NEW S \in SUBSET Power, NEW v \in Power, S # {}
    PROVE  \E x \in S : Nearest(S, v, x)
  <1> DEFINE rank(x) == 2 * Distance(v, x) + (IF x <= v THEN 0 ELSE 1)
             T == {rank(x) : x \in S}
  <1>1. \A x \in S : x \in Int /\ v \in Int
    BY PowerRange DEF Power
  <1>2. \A x \in S : rank(x) \in Nat
    BY <1>1 DEF Distance
  <1>3. \E m \in T : \A n \in T : m <= n
    <2>1. T \in SUBSET Nat /\ T # {}
      BY <1>2
    <2> HIDE DEF T
    <2> QED BY <2>1, LeastNatural
  <1>4. PICK x \in S : \A y \in S : rank(x) <= rank(y)
    BY <1>3
  <1>5. ASSUME NEW y \in S
        PROVE  \/ Distance(v, x) < Distance(v, y)
               \/ Distance(v, x) = Distance(v, y) /\ x <= y
    BY <1>1, <1>4 DEF Distance
  <1> QED BY <1>5 DEF Nearest

\* A clamp lands in the band or on 0.
LEMMA ClampLands ==
    ASSUME NEW S \in SUBSET Power, NEW v \in Power
    PROVE  /\ ClampOrPark(S, v) \in S \cup {0}
           /\ ClampOrPark(S, v) \in Power
  <1>1. 0 \in Power
    BY PowerRange DEF Power
  <1>2. CASE v = 0 \/ S = {}
    BY <1>1, <1>2 DEF ClampOrPark
  <1>3. CASE v # 0 /\ S # {}
    <2>1. NearestTo[S][v] = CHOOSE x \in S : Nearest(S, v, x)
      BY <1>3 DEF NearestTo
    <2>2. \E x \in S : Nearest(S, v, x)
      BY <1>3, NearestExists
    <2>3. NearestTo[S][v] \in S
      BY <2>1, <2>2
    <2> QED BY <1>3, <2>3 DEF ClampOrPark
  <1> QED BY <1>2, <1>3

-----------------------------------------------------------------------------
(* The command delay *)

\* An uncommanded line is a line.
LEMMA NoCommandIsLine == NoCommand \in DelayLine
  BY DEF NoCommand, DelayLine

\* Accepting a command leaves the delay a line.
LEMMA SetTargetIsLine ==
    ASSUME NEW d \in DelayLine, NEW v \in Value
    PROVE  SetTarget(d, v) \in DelayLine
  BY DEF SetTarget, Fresh, NoCommand, DelayLine, Command

\* An accepted command leaves the line commanded, whatever it was before.
LEMMA SetTargetCommands ==
    ASSUME NEW d \in DelayLine, NEW v \in Value
    PROVE  HasCommand(SetTarget(d, v))
  <1>1. CASE Delay = 0
    <2>1. SetTarget(d, v).armed = v
      BY <1>1 DEF SetTarget, NoCommand
    <2> QED BY <2>1, NoneIsNothing DEF HasCommand, NoCommand
  <1>2. CASE Delay # 0 /\ d.executing = None
    <2>1. SetTarget(d, v).executing = Fresh(v)
      BY <1>2 DEF SetTarget, DelayLine
    <2>2. Fresh(v) # None
      BY NoneIsNothing DEF Fresh, Command
    <2> QED BY <2>1, <2>2 DEF HasCommand, NoCommand
  <1>3. CASE Delay # 0 /\ d.executing # None
    <2>1. SetTarget(d, v).executing = d.executing
      BY <1>3 DEF SetTarget, DelayLine
    <2> QED BY <1>3, <2>1 DEF HasCommand, NoCommand
  <1> QED BY <1>1, <1>2, <1>3

\* Stamping keeps a command a command and nothing nothing.
LEMMA StampAtType ==
    ASSUME NEW c \in Command \cup {None}
    PROVE  /\ StampAt(c) \in Command \cup {None}
           /\ StampAt(c) = None <=> c = None
           /\ c # None => StampAt(c).value = c.value
  <1>1. 0 \in Age
    BY DelayAssumption DEF Age, Oldest
  <1>2. CASE c = None
    BY <1>2 DEF StampAt
  <1>3. CASE c \in Command
    BY <1>1, <1>3, NoneIsNothing DEF StampAt, Command
  <1> QED BY <1>2, <1>3

\* A poll leaves the delay a line.
LEMMA PollIsLine ==
    ASSUME NEW d \in DelayLine
    PROVE  Poll(d) \in DelayLine
  <1> DEFINE e == StampAt(d.executing)
             w == StampAt(d.waiting)
  <1>1. e \in Command \cup {None} /\ w \in Command \cup {None}
    BY StampAtType DEF DelayLine
  <1>2. e # None => e.value \in Value
    BY <1>1 DEF Command
  <1> QED BY <1>1, <1>2 DEF Poll, DelayLine

\* A poll moves commands along: it neither invents one nor loses the last.
LEMMA PollKeepsCommand ==
    ASSUME NEW d \in DelayLine
    PROVE  HasCommand(Poll(d)) <=> HasCommand(d)
  <1> DEFINE e == StampAt(d.executing)
             w == StampAt(d.waiting)
  <1>1. /\ e \in Command \cup {None} /\ (e = None <=> d.executing = None)
        /\ (w = None <=> d.waiting = None)
    BY StampAtType DEF DelayLine
  <1>2. CASE e # None /\ IsDue(e.age)
    <2>1. Poll(d).armed = e.value
      BY <1>2 DEF Poll
    <2>2. e.value # None
      BY <1>1, <1>2, NoneIsNothing DEF Command
    <2> QED BY <1>1, <1>2, <2>1, <2>2 DEF HasCommand, NoCommand
  <1>3. CASE ~(e # None /\ IsDue(e.age))
    <2>1. Poll(d) = [executing |-> e, waiting |-> w, armed |-> d.armed]
      BY <1>3 DEF Poll
    <2> QED BY <1>1, <2>1 DEF HasCommand, NoCommand, DelayLine
  <1> QED BY <1>2, <1>3

\* A tick of the clock keeps a command a command and nothing nothing.
LEMMA OlderType ==
    ASSUME NEW c \in Command \cup {None}
    PROVE  /\ Older(c) \in Command \cup {None}
           /\ Older(c) = None <=> c = None
  <1>1. CASE c = None
    BY <1>1 DEF Older
  <1>2. CASE c \in Command
    <2>1. ASSUME c.age # Unstamped, c.age < Oldest PROVE c.age + 1 \in Age
      BY <1>2, <2>1, DelayAssumption DEF Command, Age, Oldest
    <2> QED BY <1>2, <2>1, NoneIsNothing DEF Older, Command
  <1> QED BY <1>1, <1>2

\* The clock leaves the delay a line and neither adds nor ends a command.
LEMMA AgedKeepsCommand ==
    ASSUME NEW d \in DelayLine
    PROVE  /\ Aged(d) \in DelayLine
           /\ HasCommand(Aged(d)) <=> HasCommand(d)
  <1>1. Aged(d) = [executing |-> Older(d.executing),
                   waiting |-> Older(d.waiting), armed |-> d.armed]
    BY DEF Aged, DelayLine
  <1>2. /\ Older(d.executing) \in Command \cup {None}
        /\ Older(d.waiting) \in Command \cup {None}
        /\ (Older(d.executing) = None <=> d.executing = None)
        /\ (Older(d.waiting) = None <=> d.waiting = None)
    BY OlderType DEF DelayLine
  <1> QED BY <1>1, <1>2 DEF HasCommand, NoCommand, DelayLine
=============================================================================
