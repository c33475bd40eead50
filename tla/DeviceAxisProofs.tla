-------------------------- MODULE DeviceAxisProofs --------------------------
(***************************************************************************)
(* The hardware half of a power axis implements DelayPromise, and its line  *)
(* never outgrows MAX_LINE + 1 while the clock does not step back, for      *)
(* every delay, number of slots and set of commands.                        *)
(***************************************************************************)
EXTENDS DeviceAxis, PowerProofs, SequenceTheorems

-----------------------------------------------------------------------------
(* Slots and sequences *)

\* A delay is a whole number of slots.
LEMMA SlotsFillDelay ==
    ASSUME SlotAssumption
    PROVE  /\ MaxLine \in Nat /\ MaxLine >= 1 /\ Delay \in Nat
           /\ Slot \in Nat /\ Delay = MaxLine * Slot
  BY DelayAssumption DEF SlotAssumption, Slot

\* A function on 1..n is a sequence of length n.
LEMMA FunctionIsSeq ==
    ASSUME NEW S, NEW n \in Nat, NEW f \in [1..n -> S]
    PROVE  f \in Seq(S) /\ Len(f) = n
  <1>1. f \in Seq(S)
    BY SeqDef
  <1>2. 1..Len(f) = 1..n /\ Len(f) \in Nat
    BY <1>1, LenProperties
  <1> QED BY <1>1, <1>2

\* A part of a sequence, entry by entry.
LEMMA PartOfSeq ==
    ASSUME NEW S, NEW s \in Seq(S), NEW n \in 0..Len(s)
    PROVE  LET part == SubSeq(s, n + 1, Len(s))
           IN  /\ part \in Seq(S) /\ Len(part) = Len(s) - n
               /\ \A i \in 1..(Len(s) - n) : part[i] = s[n + i]
  <1> DEFINE part == SubSeq(s, n + 1, Len(s))
  <1>1. Len(s) \in Nat /\ n \in Int /\ \A i \in (n + 1)..Len(s) : s[i] \in S
    BY LenProperties, ElementOfSeq
  <1>2. part \in Seq(S)
    BY <1>1, SubSeqProperties
  <1>3. Len(part) = Len(s) - n
    BY <1>1, SubSeqProperties
  <1>4. \A i \in 1..(Len(s) - n) : part[i] = s[n + i]
    BY <1>1, SubSeqProperties
  <1> QED BY <1>2, <1>3, <1>4

\* The first n entries of a sequence.
LEMMA HeadOfSeq ==
    ASSUME NEW S, NEW s \in Seq(S), NEW n \in 0..Len(s)
    PROVE  /\ SubSeq(s, 1, n) \in Seq(S) /\ Len(SubSeq(s, 1, n)) = n
           /\ \A i \in 1..n : SubSeq(s, 1, n)[i] = s[i]
  <1>1. Len(s) \in Nat /\ n \in Int /\ \A i \in 1..n : s[i] \in S
    BY LenProperties, ElementOfSeq
  <1> QED BY <1>1, SubSeqProperties

\* What is queued is the commands in the line and then the unstamped one.
LEMMA QueuedShape ==
    ASSUME NEW l \in Seq(Entry), NEW p \in Value \cup {None}
    PROVE  /\ Queued(l, p) \in Seq(Value)
           /\ Len(Queued(l, p)) = Len(l) + (IF p = None THEN 0 ELSE 1)
           /\ \A i \in 1..Len(l) : Queued(l, p)[i] = l[i].value
           /\ p # None => Queued(l, p)[Len(l) + 1] = p
  <1> DEFINE v == [i \in DOMAIN l |-> l[i].value]
             t == IF p = None THEN <<>> ELSE <<p>>
  <1>1. Len(l) \in Nat /\ DOMAIN l = 1..Len(l) /\ \A i \in 1..Len(l) : l[i] \in Entry
    BY LenProperties, ElementOfSeq
  <1>2. v \in [1..Len(l) -> Value]
    BY <1>1 DEF Entry
  <1>3. v \in Seq(Value) /\ Len(v) = Len(l)
    BY <1>1, <1>2, FunctionIsSeq
  <1>4. /\ t \in Seq(Value) /\ Len(t) = (IF p = None THEN 0 ELSE 1)
        /\ p # None => t[1] = p
    OBVIOUS
  <1>5. \A i \in 1..Len(l) : v[i] = l[i].value
    BY <1>1
  <1> HIDE DEF v, t
  <1>6. /\ v \o t \in Seq(Value) /\ Len(v \o t) = Len(v) + Len(t)
        /\ \A i \in 1..(Len(v) + Len(t)) :
              (v \o t)[i] = IF i <= Len(v) THEN v[i] ELSE t[i - Len(v)]
    BY <1>3, <1>4, ConcatProperties
  <1>7. Queued(l, p) = v \o t
    BY DEF Queued, v, t
  <1> QED BY <1>1, <1>3, <1>4, <1>5, <1>6, <1>7

\* The commands that are due are the ones at the front.
LEMMA DueAtFront ==
    ASSUME NEW l \in Seq(Entry)
    PROVE  /\ DueCount(l) \in 0..Len(l)
           /\ \A i \in 1..DueCount(l) : IsDue(l[i].age)
           /\ DueCount(l) < Len(l) => ~IsDue(l[DueCount(l) + 1].age)
  <1> DEFINE Splits(n) == /\ \A i \in 1..n : IsDue(l[i].age)
                          /\ n < Len(l) => ~IsDue(l[n + 1].age)
             T == {n \in Nat : n < Len(l) /\ ~IsDue(l[n + 1].age)}
  <1>1. Len(l) \in Nat
    BY LenProperties
  <1>2. \E n \in 0..Len(l) : Splits(n)
    <2>1. CASE T = {}
      <3>1. \A i \in 1..Len(l) : i - 1 \in Nat /\ i - 1 < Len(l) /\ (i - 1) + 1 = i
        BY <1>1
      <3>2. Splits(Len(l))
        BY <1>1, <2>1, <3>1
      <3> QED BY <1>1, <3>2
    <2>2. CASE T # {}
      <3>1. PICK n \in T : \A m \in T : n <= m
        BY <2>2, LeastNatural
      <3>2. n \in Nat /\ n < Len(l) /\ ~IsDue(l[n + 1].age)
        BY <3>1
      <3>3. ASSUME NEW i \in 1..n PROVE IsDue(l[i].age)
        <4>1. i - 1 \in Nat /\ i - 1 < n /\ (i - 1) + 1 = i /\ i - 1 < Len(l)
          BY <1>1, <3>2
        <4>2. i - 1 \notin T
          BY <3>1, <3>2, <4>1
        <4> QED BY <4>1, <4>2
      <3> QED BY <1>1, <3>2, <3>3
    <2> QED BY <2>1, <2>2
  <1>3. DueCount(l) = CHOOSE n \in 0..Len(l) : Splits(n)
    BY DEF DueCount
  <1> HIDE DEF Splits
  <1>4. DueCount(l) \in 0..Len(l) /\ Splits(DueCount(l))
    BY <1>2, <1>3
  <1> QED BY <1>4 DEF Splits

-----------------------------------------------------------------------------
(* The inductive invariant *)

\* No stamp is further ahead than the clock has stepped back.
Dated(l) == \A i \in 1..Len(l) : l[i].age >= -stepped

Lined ==
    /\ line \in Seq(Entry)
    /\ pending \in Value \cup {None}
    /\ stepped \in 0..Back
    /\ Len(line) <= MostEntries
    /\ Dated(line)

\* Two commands in a line are a slot apart for every place between them, as
\* long as the earlier one is not due.
Apart(l) ==
    \A i, j \in 1..Len(l) :
        i < j => l[i].age >= Delay \/ l[i].age - l[j].age >= (j - i) * Slot

Aging(l) == \A i \in 1..Len(l) : l[i].age >= 0

\* While the clock has not stepped back, the line keeps to the slots.
Spread == stepped = 0 => Len(line) <= MaxLine /\ Apart(line)

IInv == Lined /\ Spread

\* Entries have ages, and an age is a number of ticks.
LEMMA EntryAges ==
    ASSUME NEW l \in Seq(Entry)
    PROVE  /\ Len(l) \in Nat
           /\ \A i \in 1..Len(l) :
                /\ l[i] \in Entry /\ l[i].value \in Value
                /\ l[i].age \in Int /\ -Back <= l[i].age /\ l[i].age <= Oldest
  <1>1. Len(l) \in Nat /\ \A i \in 1..Len(l) : l[i] \in Entry
    BY LenProperties, ElementOfSeq
  <1>2. \A e \in Entry : e.value \in Value /\ e.age \in Age
    BY DEF Entry
  <1>3. \A a \in Age : a \in Int /\ -Back <= a /\ a <= Oldest
    BY DelayAssumption DEF Age, Oldest
  <1> QED BY <1>1, <1>2, <1>3

\* A stamped command is an entry of age 0.
LEMMA StampedIsEntry ==
    ASSUME NEW v \in Value
    PROVE  Stamped(v) \in Entry /\ Stamped(v).age = 0 /\ Stamped(v).value = v
  BY DelayAssumption DEF Stamped, Entry, Age, Oldest

\* Absorbing the pending command leaves the line, replaces the value of its
\* newest entry, or appends one.
LEMMA AbsorbCases ==
    ASSUME Lined
    PROVE  \/ pending = None /\ Absorb = line
           \/ /\ pending # None /\ Mergeable /\ Len(line) >= 1
              /\ Absorb \in Seq(Entry) /\ Len(Absorb) = Len(line)
              /\ \A i \in 1..Len(line) :
                    /\ Absorb[i].age = line[i].age
                    /\ Absorb[i].value = IF i = Len(line) THEN pending
                                         ELSE line[i].value
           \/ /\ pending # None /\ ~Mergeable
              /\ Absorb \in Seq(Entry) /\ Len(Absorb) = Len(line) + 1
              /\ \A i \in 1..Len(line) : Absorb[i] = line[i]
              /\ Absorb[Len(line) + 1] = Stamped(pending)
  <1>1. line \in Seq(Entry) /\ Len(line) \in Nat
        /\ \A i \in 1..Len(line) : line[i] \in Entry
    BY EntryAges DEF Lined
  <1>2. CASE pending = None
    BY <1>2 DEF Absorb, AbsorbUnmerged
  <1>3. CASE pending # None /\ Mergeable
    <2> DEFINE n == Len(line)
               e == [line[n] EXCEPT !.value = pending]
    <2>1. pending \in Value /\ n \in 1..Len(line)
      BY <1>1, <1>3 DEF Lined, Mergeable
    <2>2. e \in Entry /\ e.age = line[n].age /\ e.value = pending
      BY <1>1, <2>1 DEF Entry
    <2>3. Absorb = [line EXCEPT ![n] = e]
      BY <1>3 DEF Absorb
    <2>4. Absorb \in Seq(Entry) /\ Len(Absorb) = n
      BY <1>1, <2>1, <2>2, <2>3, ExceptSeq
    <2>5. \A i \in 1..n : Absorb[i] = IF i = n THEN e ELSE line[i]
      BY <1>1, <2>1, <2>3
    <2>6. \A i \in 1..n : /\ Absorb[i].age = line[i].age
                          /\ Absorb[i].value = IF i = n THEN pending
                                               ELSE line[i].value
      BY <2>2, <2>5
    <2> QED BY <1>3, <2>1, <2>4, <2>6
  <1>4. CASE pending # None /\ ~Mergeable
    <2>1. Stamped(pending) \in Entry
      BY <1>4, StampedIsEntry DEF Lined
    <2>2. Absorb = Append(line, Stamped(pending))
      BY <1>4 DEF Absorb, AbsorbUnmerged
    <2> QED BY <1>1, <1>4, <2>1, <2>2, AppendProperties
  <1> QED BY <1>2, <1>3, <1>4

\* What is absorbed is a line, at most one entry longer.
LEMMA AbsorbIsLine ==
    ASSUME Lined
    PROVE  /\ Absorb \in Seq(Entry) /\ Len(Absorb) \in Nat
           /\ Len(Absorb) <= Len(line) + 1
  <1>1. line \in Seq(Entry) /\ Len(line) \in Nat
    BY EntryAges DEF Lined
  <1> QED BY <1>1, AbsorbCases

\* A command is only appended when the newest one is a slot old, so absorbing
\* keeps the line spread.
LEMMA AbsorbStaysSpread ==
    ASSUME SlotAssumption, IInv, stepped = 0
    PROVE  Aging(Absorb) /\ Apart(Absorb) /\ Len(Absorb) <= MostEntries
  <1> DEFINE n == Len(line)
  <1>1. /\ n \in Nat /\ n <= MaxLine /\ Aging(line) /\ Apart(line) /\ Lined
        /\ \A i \in 1..n : line[i].age \in Int
    BY EntryAges DEF IInv, Lined, Spread, Dated, Aging
  <1>2. MaxLine \in Nat /\ Slot \in Nat /\ MostEntries = MaxLine + 1
    BY SlotsFillDelay DEF MostEntries
  <1>3. CASE pending = None
    BY <1>1, <1>2, <1>3, AbsorbCases
  <1>4. CASE pending # None /\ Mergeable
    <2>1. Len(Absorb) = n /\ \A i \in 1..n : Absorb[i].age = line[i].age
      BY <1>1, <1>4, AbsorbCases
    <2> QED BY <1>1, <1>2, <2>1 DEF Aging, Apart
  <1>5. CASE pending # None /\ ~Mergeable
    <2>1. /\ Len(Absorb) = n + 1
          /\ \A i \in 1..n : Absorb[i] = line[i]
          /\ Absorb[n + 1] = Stamped(pending)
      BY <1>1, <1>5, AbsorbCases
    <2>2. Absorb[n + 1].age = 0
      BY <1>1, <1>5, <2>1, StampedIsEntry DEF Lined
    <2>3. n > 0 => line[n].age >= Slot
      <3>1. n > 0 => line # <<>> /\ Last(line) = line[n]
        BY DEF Last
      <3> QED BY <1>1, <1>2, <1>5, <3>1 DEF Mergeable, Aging
    <2>4. Aging(Absorb)
      BY <1>1, <2>1, <2>2 DEF Aging
    <2>5. ASSUME NEW i \in 1..n
          PROVE  line[i].age >= Delay \/ line[i].age - 0 >= ((n + 1) - i) * Slot
      <3>1. CASE i = n
        BY <1>1, <1>2, <2>3, <3>1
      <3>2. CASE i < n
        <4>1. line[i].age >= Delay \/ line[i].age - line[n].age >= (n - i) * Slot
          BY <1>1, <3>2 DEF Apart
        <4>2. ((n + 1) - i) * Slot = (n - i) * Slot + Slot
          BY <1>1, <1>2
        <4>3. (n - i) * Slot \in Int
          BY <1>1, <1>2
        <4> HIDE DEF n
        <4> QED BY <1>1, <1>2, <2>3, <4>1, <4>2, <4>3, DelayAssumption
      <3> QED BY <1>1, <3>1, <3>2
    <2>6. ASSUME NEW i \in 1..(n + 1), NEW j \in 1..(n + 1), i < j
          PROVE  \/ Absorb[i].age >= Delay
                 \/ Absorb[i].age - Absorb[j].age >= (j - i) * Slot
      <3>1. CASE j = n + 1
        BY <1>1, <2>1, <2>2, <2>5, <2>6, <3>1
      <3>2. CASE j <= n
        BY <1>1, <2>1, <2>6, <3>2 DEF Apart
      <3> QED BY <1>1, <3>1, <3>2
    <2> QED BY <1>1, <1>2, <2>1, <2>4, <2>6 DEF Apart
  <1> QED BY <1>3, <1>4, <1>5

-----------------------------------------------------------------------------
(* The invariant is kept *)

\* The backstop leaves a line as it is, or drops its oldest command.
LEMMA BackstopCases ==
    ASSUME NEW l \in Seq(Entry), Len(l) <= MostEntries + 1, MaxLine \in Nat
    PROVE  \/ Len(l) <= MostEntries /\ Backstop(l) = l
           \/ Len(l) = MostEntries + 1 /\ Backstop(l) = SubSeq(l, 2, Len(l))
  BY EntryAges DEF Backstop, MostEntries

\* What is left to come out of after the backstop is a line within the limit.
LEMMA BackstopIsLine ==
    ASSUME SlotAssumption, Lined
    PROVE  /\ Backstop(Absorb) \in Seq(Entry)
           /\ Len(Backstop(Absorb)) \in Nat
           /\ Len(Backstop(Absorb)) <= MostEntries
  <1>1. /\ Absorb \in Seq(Entry) /\ Len(Absorb) \in Nat
        /\ MaxLine \in Nat /\ MostEntries = MaxLine + 1
        /\ Len(Absorb) <= MostEntries + 1
    BY AbsorbIsLine, EntryAges, SlotsFillDelay DEF Lined, MostEntries
  <1>2. CASE Len(Absorb) <= MostEntries
    BY <1>1, <1>2, BackstopCases
  <1>3. CASE Len(Absorb) = MostEntries + 1
    <2>1. Backstop(Absorb) = SubSeq(Absorb, 1 + 1, Len(Absorb))
      <3>1. 1 + 1 = 2
        OBVIOUS
      <3>2. ~(Len(Absorb) <= MostEntries)
        BY <1>1, <1>3
      <3> QED BY <1>1, <3>1, <3>2, BackstopCases
    <2>2. 1 \in 0..Len(Absorb)
      BY <1>1, <1>3
    <2> QED BY <1>1, <1>3, <2>1, <2>2, PartOfSeq
  <1> QED BY <1>1, <1>2, <1>3

\* Neither absorbing nor dropping moves a stamp.
LEMMA PartIsDated ==
    ASSUME NEW l \in Seq(Entry), Dated(l), NEW n \in 0..Len(l)
    PROVE  Dated(SubSeq(l, n + 1, Len(l)))
  <1>1. Len(l) \in Nat
    BY EntryAges
  <1> SUFFICES ASSUME NEW i \in 1..(Len(l) - n)
               PROVE  SubSeq(l, n + 1, Len(l))[i].age >= -stepped
    BY <1>1, PartOfSeq DEF Dated
  <1>2. SubSeq(l, n + 1, Len(l))[i] = l[n + i] /\ n + i \in 1..Len(l)
    BY <1>1, PartOfSeq
  <1> QED BY <1>2 DEF Dated

LEMMA BackstopIsDated ==
    ASSUME SlotAssumption, Lined
    PROVE  Dated(Backstop(Absorb))
  <1>1. /\ Absorb \in Seq(Entry) /\ Len(Absorb) \in Nat
        /\ MaxLine \in Nat /\ MostEntries = MaxLine + 1
        /\ Len(Absorb) <= MostEntries + 1
        /\ Len(line) \in Nat /\ stepped \in Nat
    BY AbsorbIsLine, EntryAges, SlotsFillDelay, DelayAssumption DEF Lined, MostEntries
  <1>2. Dated(Absorb)
    <2>1. Dated(line)
      BY DEF Lined
    <2>2. CASE pending = None
      BY <2>1, <2>2, AbsorbCases
    <2>3. CASE pending # None /\ Mergeable
      <3>1. Len(Absorb) = Len(line) /\ \A i \in 1..Len(line) : Absorb[i].age = line[i].age
        BY <2>3, AbsorbCases
      <3> QED BY <2>1, <3>1 DEF Dated
    <2>4. CASE pending # None /\ ~Mergeable
      <3>1. /\ Len(Absorb) = Len(line) + 1
            /\ \A i \in 1..Len(line) : Absorb[i] = line[i]
            /\ Absorb[Len(line) + 1] = Stamped(pending)
        BY <2>4, AbsorbCases
      <3>2. Absorb[Len(line) + 1].age = 0
        BY <2>4, <3>1, StampedIsEntry DEF Lined
      <3> QED BY <1>1, <2>1, <3>1, <3>2 DEF Dated
    <2> QED BY <2>2, <2>3, <2>4
  <1>3. CASE Len(Absorb) <= MostEntries
    BY <1>1, <1>2, <1>3, BackstopCases
  <1>4. CASE Len(Absorb) = MostEntries + 1
    <2>1. 1 + 1 = 2 /\ 1 \in 0..Len(Absorb) /\ ~(Len(Absorb) <= MostEntries)
      BY <1>1, <1>4
    <2>2. Backstop(Absorb) = SubSeq(Absorb, 1 + 1, Len(Absorb))
      BY <1>1, <2>1, BackstopCases
    <2> QED BY <1>1, <1>2, <2>1, <2>2, PartIsDated
  <1> QED BY <1>1, <1>3, <1>4

\* A spread line whose oldest command is not due has a slot for each command.
LEMMA SpreadIsShort ==
    ASSUME SlotAssumption, NEW s \in Seq(Entry), Aging(s), Apart(s),
           Len(s) > 0 => s[1].age < Delay
    PROVE  Len(s) <= MaxLine
  <1> SUFFICES ASSUME NEW m, m = Len(s), m > 0 PROVE m <= MaxLine
    BY EntryAges, SlotsFillDelay
  <1>1. /\ m \in Nat /\ 1 \in 1..m /\ m \in 1..m
        /\ s[1].age \in Int /\ s[m].age \in Int
    BY EntryAges
  <1>2. s[1].age < Delay /\ s[m].age >= 0 /\ Delay \in Nat
    BY <1>1, DelayAssumption DEF Aging
  <1>3. s[1].age - s[m].age >= (m - 1) * Slot
    <2>1. CASE m = 1
      <3>1. (m - 1) * Slot = 0
        BY <2>1, SlotsFillDelay
      <3> QED BY <1>1, <2>1, <3>1
    <2>2. CASE m > 1
      <3>1. s[1].age >= Delay \/ s[1].age - s[m].age >= (m - 1) * Slot
        BY <1>1, <2>2 DEF Apart
      <3> QED BY <1>1, <1>2, <3>1
    <2> QED BY <1>1, <2>1, <2>2
  <1>4. (m - 1) * Slot < MaxLine * Slot
    <2>1. (m - 1) * Slot \in Int /\ Delay = MaxLine * Slot
      BY <1>1, SlotsFillDelay
    <2> QED BY <1>1, <1>2, <1>3, <2>1
  <1>5. m - 1 < MaxLine
    <2>1. Slot \in Nat /\ MaxLine \in Nat
      BY SlotsFillDelay
    <2> SUFFICES ASSUME MaxLine <= m - 1 PROVE FALSE
      BY <1>1, <2>1
    <2>2. MaxLine * Slot <= (m - 1) * Slot
      BY <1>1, <2>1
    <2>3. MaxLine * Slot \in Int /\ (m - 1) * Slot \in Int
      BY <1>1, <2>1
    <2> QED BY <1>4, <2>2, <2>3
  <1> QED BY <1>1, <1>5, SlotsFillDelay

\* What a tick keeps of a spread line is not due, and so within one delay.
LEMMA RestIsSpread ==
    ASSUME SlotAssumption, NEW l \in Seq(Entry), Aging(l), Apart(l),
           NEW rest, rest = SubSeq(l, DueCount(l) + 1, Len(l))
    PROVE  Len(rest) <= MaxLine /\ Aging(rest) /\ Apart(rest)
  <1> DEFINE n == DueCount(l)
             m == Len(l) - n
  <1>1. /\ Len(l) \in Nat /\ n \in 0..Len(l)
        /\ \A i \in 1..Len(l) : l[i].age \in Int
    BY EntryAges, DueAtFront
  <1>2. /\ rest \in Seq(Entry) /\ Len(rest) = m
        /\ \A i \in 1..m : rest[i] = l[n + i]
    BY <1>1, PartOfSeq
  <1>3. n < Len(l) => ~IsDue(l[n + 1].age)
    BY DueAtFront
  <1> HIDE DEF n
  <1>4. m \in Nat /\ \A i \in 1..m : n + i \in 1..Len(l)
    BY <1>1
  <1>5. Aging(rest)
    BY <1>2, <1>4 DEF Aging
  <1>6. Apart(rest)
    <2>1. ASSUME NEW i \in 1..m, NEW j \in 1..m, i < j
          PROVE  rest[i].age >= Delay \/ rest[i].age - rest[j].age >= (j - i) * Slot
      <3>1. /\ n + i \in 1..Len(l) /\ n + j \in 1..Len(l) /\ n + i < n + j
            /\ (n + j) - (n + i) = j - i
        BY <1>1, <1>4, <2>1
      <3>2. \/ l[n + i].age >= Delay
            \/ l[n + i].age - l[n + j].age >= ((n + j) - (n + i)) * Slot
        BY <3>1 DEF Apart
      <3> QED BY <1>2, <3>1, <3>2
    <2> QED BY <1>2, <2>1 DEF Apart
  <1>7. Len(rest) > 0 => rest[1].age < Delay
    <2> SUFFICES ASSUME m > 0 PROVE rest[1].age < Delay
      BY <1>2
    <2>1. rest[1] = l[n + 1] /\ n + 1 \in 1..Len(l) /\ n < Len(l)
      BY <1>1, <1>2, <1>4
    <2>2. l[n + 1].age \in Int
      BY <1>1, <2>1
    <2>3. ~(l[n + 1].age >= Delay)
      BY <1>3, <2>1 DEF IsDue
    <2>4. l[n + 1].age < Delay
      BY <2>2, <2>3, DelayAssumption
    <2> QED BY <2>1, <2>4
  <1>8. Len(rest) <= MaxLine
    BY <1>2, <1>5, <1>6, <1>7, SpreadIsShort
  <1> QED BY <1>5, <1>6, <1>8

\* What a tick leaves in line and hands on, with nothing pending.
LEMMA TickMoves ==
    ASSUME NEW band, Tick(band)
    PROVE  /\ pending' = None /\ stepped' = stepped /\ newest' = newest
           /\ line' = SubSeq(Backstop(Absorb), DueCount(Backstop(Absorb)) + 1,
                             Len(Backstop(Absorb)))
           /\ delayed' = IF DueCount(Backstop(Absorb)) = 0 THEN delayed
                         ELSE Backstop(Absorb)[DueCount(Backstop(Absorb))].value
  BY DEF Tick

LEMMA TickKeeps ==
    ASSUME SlotAssumption, IInv, NEW band, Tick(band)
    PROVE  IInv'
  <1> DEFINE l == Backstop(Absorb)
             n == DueCount(l)
  <1>1. /\ pending' = None /\ stepped' = stepped
        /\ line' = SubSeq(l, n + 1, Len(l))
    BY TickMoves
  <1>2. /\ l \in Seq(Entry) /\ Len(l) \in Nat /\ Len(l) <= MostEntries
        /\ n \in 0..Len(l)
    BY BackstopIsLine, DueAtFront DEF IInv
  <1>3. line' \in Seq(Entry) /\ Len(line') = Len(l) - n
    BY <1>1, <1>2, PartOfSeq
  <1>4. Lined'
    <2>1. Len(line') <= MostEntries
      BY <1>2, <1>3, SlotsFillDelay DEF MostEntries
    <2>2. Dated(l)
      BY BackstopIsDated DEF IInv
    <2>3. Dated(line')
      BY <1>1, <1>2, <2>2, PartIsDated
    <2>4. Dated(line)'
      BY <1>1, <2>3 DEF Dated
    <2> QED BY <1>1, <1>3, <2>1, <2>4 DEF Lined, IInv, MostEntries
  <1>5. Spread'
    <2> SUFFICES ASSUME stepped = 0
                 PROVE  Len(line') <= MaxLine /\ Apart(line')
      BY <1>1 DEF Spread
    <2>1. Absorb \in Seq(Entry) /\ Len(Absorb) \in Nat
      BY AbsorbIsLine DEF IInv
    <2>2. Aging(Absorb) /\ Apart(Absorb) /\ Len(Absorb) <= MostEntries
      BY AbsorbStaysSpread
    <2>3. l = Absorb
      BY <2>1, <2>2, SlotsFillDelay DEF Backstop, MostEntries
    <2> HIDE DEF l
    <2> QED BY <1>1, <1>2, <2>2, <2>3, RestIsSpread
  <1> QED BY <1>4, <1>5 DEF IInv

\* A tick of the clock ages every entry by one, as long as it is not due.
LEMMA ClockMoves ==
    ASSUME Lined, Clock
    PROVE  /\ line' \in Seq(Entry) /\ Len(line') = Len(line)
           /\ \A i \in 1..Len(line) :
                /\ line'[i].value = line[i].value
                /\ line'[i].age >= line[i].age
                /\ line[i].age < Delay => line'[i].age = line[i].age + 1
  <1>1. /\ line \in Seq(Entry) /\ Len(line) \in Nat /\ DOMAIN line = 1..Len(line)
        /\ line' = [i \in DOMAIN line |-> Older(line[i])]
    BY LenProperties DEF Lined, Clock
  <1>2. ASSUME NEW e \in Entry
        PROVE  /\ Older(e) \in Entry /\ Older(e).value = e.value
               /\ Older(e).age >= e.age
               /\ e.age < Delay => Older(e).age = e.age + 1
    <2>1. e.age \in Age /\ e.age \in Int /\ e.age # Unstamped
      BY UnstampedIsNoAge DEF Entry, Age
    <2>2. e # None
      <3>1. e \in Command
        BY DEF Entry, Command
      <3> QED BY <3>1, NoneIsNothing
    <2>3. CASE e.age < Oldest
      <3>1. Older(e) = [e EXCEPT !.age = @ + 1]
        BY <2>1, <2>2, <2>3 DEF Older
      <3>2. e.age + 1 \in Age
        BY <2>1, <2>3, DelayAssumption DEF Age, Oldest
      <3>3. /\ Older(e) \in Entry /\ Older(e).value = e.value
            /\ Older(e).age = e.age + 1
        BY <3>1, <3>2 DEF Entry
      <3> QED BY <2>1, <3>3
    <2>4. CASE ~(e.age < Oldest)
      <3>1. Older(e) = e
        BY <2>4 DEF Older
      <3> QED BY <2>1, <2>4, <3>1, DelayAssumption DEF Oldest
    <2> QED BY <2>3, <2>4
  <1>3. \A i \in 1..Len(line) : line[i] \in Entry /\ line'[i] = Older(line[i])
    BY <1>1, ElementOfSeq
  <1>4. line' \in [1..Len(line) -> Entry]
    BY <1>1, <1>2, <1>3
  <1>5. line' \in Seq(Entry) /\ Len(line') = Len(line)
    BY <1>1, <1>4, FunctionIsSeq
  <1> QED BY <1>2, <1>3, <1>5

LEMMA ClockKeeps ==
    ASSUME SlotAssumption, IInv, Clock
    PROVE  IInv'
  <1> DEFINE n == Len(line)
  <1>1. /\ line' \in Seq(Entry) /\ Len(line') = n
        /\ \A i \in 1..n :
             /\ line'[i].age >= line[i].age
             /\ line[i].age < Delay => line'[i].age = line[i].age + 1
        /\ pending' = pending /\ stepped' = stepped
    BY ClockMoves DEF IInv, Clock
  <1>2. /\ n \in Nat
        /\ \A i \in 1..n : line[i].age \in Int /\ line'[i].age \in Int
    BY <1>1, EntryAges DEF IInv, Lined
  <1>3. Lined'
    <2>1. Dated(line)
      BY DEF IInv, Lined
    <2>2. Dated(line)'
      <3>1. ASSUME NEW i \in 1..n PROVE line'[i].age >= -stepped
        <4>1. line[i].age >= -stepped /\ stepped \in Int
          BY <2>1, DelayAssumption DEF Dated, IInv, Lined
        <4> QED BY <1>1, <1>2, <4>1
      <3> QED BY <1>1, <3>1 DEF Dated
    <2> QED BY <1>1, <2>2 DEF IInv, Lined, MostEntries
  <1>4. Spread'
    <2> SUFFICES ASSUME stepped = 0
                 PROVE  n <= MaxLine /\ Apart(line')
      BY <1>1 DEF Spread
    <2>1. n <= MaxLine /\ Apart(line)
      BY DEF IInv, Spread
    <2>3. ASSUME NEW i \in 1..n, NEW j \in 1..n, i < j
          PROVE  \/ line'[i].age >= Delay
                 \/ line'[i].age - line'[j].age >= (j - i) * Slot
      <3>1. line[i].age >= Delay \/ line[i].age - line[j].age >= (j - i) * Slot
        BY <2>1, <2>3 DEF Apart
      <3>2. CASE line[i].age >= Delay
        BY <1>1, <1>2, <3>2, DelayAssumption
      <3>3. CASE line[i].age < Delay /\ line[i].age - line[j].age >= (j - i) * Slot
        <4>1. /\ j - i \in Nat /\ Slot \in Nat /\ (j - i) * Slot >= 0
              /\ (j - i) * Slot \in Int
          BY <1>2, <2>3, SlotsFillDelay
        <4>2. line[i].age \in Int /\ line[j].age \in Int
          BY <1>2
        <4>3. line[j].age <= line[i].age
          BY <3>3, <4>1, <4>2
        <4>4. line[j].age < Delay
          BY <3>3, <4>2, <4>3, DelayAssumption
        <4>5. line'[i].age = line[i].age + 1 /\ line'[j].age = line[j].age + 1
          BY <1>1, <3>3, <4>4
        <4>6. line'[i].age - line'[j].age = line[i].age - line[j].age
          BY <4>2, <4>5
        <4> QED BY <3>3, <4>6
      <3> QED BY <1>2, <3>1, <3>2, <3>3, DelayAssumption
    <2> QED BY <1>1, <2>1, <2>3 DEF Apart
  <1> QED BY <1>3, <1>4 DEF IInv

\* The clock steps back by at most what is left of its steps, and so never
\* past the youngest age.
LEMMA StepBackMoves ==
    ASSUME Lined, NEW ticks \in 1..Back, StepBack(ticks)
    PROVE  /\ line' \in Seq(Entry) /\ Len(line') = Len(line)
           /\ \A i \in 1..Len(line) :
                /\ line'[i].value = line[i].value
                /\ line'[i].age >= -stepped'
  <1>1. /\ line \in Seq(Entry) /\ Len(line) \in Nat /\ DOMAIN line = 1..Len(line)
        /\ line' = [i \in DOMAIN line |-> Younger(line[i], ticks)]
        /\ stepped' = stepped + ticks /\ stepped + ticks <= Back
        /\ stepped \in Nat /\ ticks \in Nat
    BY LenProperties, DelayAssumption DEF Lined, StepBack
  <1>2. ASSUME NEW e \in Entry, e.age >= -stepped
        PROVE  /\ Younger(e, ticks) \in Entry /\ Younger(e, ticks).value = e.value
               /\ Younger(e, ticks).age >= -stepped'
    <2>1. e.age \in Age /\ e.age \in Int /\ e.age # Unstamped /\ e.age <= Oldest
      BY UnstampedIsNoAge DEF Entry, Age
    <2>2. e # None
      <3>1. e \in Command
        BY DEF Entry, Command
      <3> QED BY <3>1, NoneIsNothing
    <2>3. Younger(e, ticks) = [e EXCEPT !.age = @ - ticks]
      BY <2>1, <2>2 DEF Younger
    <2>4. e.age - ticks \in Age /\ e.age - ticks >= -stepped'
      BY <1>1, <1>2, <2>1, DelayAssumption DEF Age, Oldest
    <2> QED BY <2>3, <2>4 DEF Entry
  <1>3. \A i \in 1..Len(line) :
            /\ line[i] \in Entry /\ line[i].age >= -stepped
            /\ line'[i] = Younger(line[i], ticks)
    BY <1>1, ElementOfSeq DEF Lined, Dated
  <1>4. line' \in [1..Len(line) -> Entry]
    BY <1>1, <1>2, <1>3
  <1>5. line' \in Seq(Entry) /\ Len(line') = Len(line)
    BY <1>1, <1>4, FunctionIsSeq
  <1> QED BY <1>2, <1>3, <1>5

LEMMA StepBackKeeps ==
    ASSUME IInv, NEW ticks \in 1..Back, StepBack(ticks)
    PROVE  IInv'
  <1>1. /\ line' \in Seq(Entry) /\ Len(line') = Len(line) /\ pending' = pending
        /\ stepped' = stepped + ticks /\ stepped + ticks <= Back
        /\ stepped \in Nat /\ ticks \in Nat /\ ticks >= 1
        /\ \A i \in 1..Len(line') : line'[i].age >= -stepped'
    BY StepBackMoves, DelayAssumption DEF IInv, Lined, StepBack
  <1>2. Lined'
    BY <1>1, DelayAssumption DEF IInv, Lined, Dated, MostEntries
  <1>3. Spread'
    BY <1>1 DEF Spread
  <1> QED BY <1>2, <1>3 DEF IInv

\* A start has an empty line.
LEMMA InitHolds == SlotAssumption /\ Init => IInv
  <1> SUFFICES ASSUME SlotAssumption, Init PROVE IInv
    OBVIOUS
  <1>1. line \in Seq(Entry) /\ Len(line) = 0 /\ 1..Len(line) = {}
    BY DEF Init
  <1>2. MaxLine \in Nat /\ stepped \in 0..Back /\ pending = None
    BY SlotsFillDelay, DelayAssumption DEF Init
  <1> QED BY <1>1, <1>2 DEF IInv, Lined, Spread, Dated, Apart, MostEntries

LEMMA StepKeeps == SlotAssumption /\ IInv /\ [Next]_vars => IInv'
  <1> SUFFICES ASSUME SlotAssumption, IInv, [Next]_vars PROVE IInv'
    OBVIOUS
  <1>1. CASE \E v \in Value : SetCommand(v)
    BY <1>1 DEF SetCommand, IInv, Lined, Spread, Dated, Apart, MostEntries
  <1>2. CASE \E band \in Bands : Tick(band)
    BY <1>2, TickKeeps
  <1>3. CASE Trip
    <2>1. line' = <<>> /\ pending' = None /\ stepped' \in 0..Back
      BY <1>3 DEF Trip, IInv, Lined
    <2>2. MaxLine \in Nat /\ line' \in Seq(Entry) /\ Len(line') = 0 /\ 1..Len(line') = {}
      BY <2>1, SlotsFillDelay
    <2> QED BY <2>1, <2>2 DEF IInv, Lined, Spread, Dated, Apart, MostEntries
  <1>4. CASE Clock
    BY <1>4, ClockKeeps
  <1>5. CASE \E ticks \in 1..Back : StepBack(ticks)
    BY <1>5, StepBackKeeps
  <1>6. CASE UNCHANGED vars
    BY <1>6 DEF vars, IInv, Lined, Spread, Dated, Apart, MostEntries
  <1> QED BY <1>1, <1>2, <1>3, <1>4, <1>5, <1>6 DEF Next

(***************************************************************************)
(* However fast commands and ticks come, merging keeps the line within      *)
(* MAX_LINE + 1 until the clock steps back: the backstop drops nothing.     *)
(***************************************************************************)
THEOREM MergingBoundsTheLine ==
    ASSUME SlotAssumption
    PROVE  Spec => []BackstopOutOfReach
  <1>1. Init => IInv
    BY InitHolds
  <1>2. IInv => BackstopOutOfReach
    BY AbsorbStaysSpread DEF BackstopOutOfReach
  <1>3. IInv /\ [Next]_vars => IInv'
    BY StepKeeps
  <1> QED BY <1>1, <1>2, <1>3, PTL DEF Spec

-----------------------------------------------------------------------------
(* The refinement *)

\* The part of a sequence before and after one place.
LEMMA RemovedShape ==
    ASSUME NEW S, NEW s \in Seq(S), NEW k \in 1..Len(s)
    PROVE  /\ RemoveAt(s, k) \in Seq(S) /\ Len(RemoveAt(s, k)) = Len(s) - 1
           /\ \A i \in 1..(Len(s) - 1) :
                RemoveAt(s, k)[i] = IF i < k THEN s[i] ELSE s[i + 1]
  <1> DEFINE a == SubSeq(s, 1, k - 1)
             b == SubSeq(s, k + 1, Len(s))
  <1>1. Len(s) \in Nat /\ k \in Nat /\ k >= 1 /\ k <= Len(s)
    BY LenProperties
  <1>2. /\ a \in Seq(S) /\ Len(a) = k - 1
        /\ \A i \in 1..(k - 1) : a[i] = s[i]
    BY <1>1, HeadOfSeq
  <1>3. /\ b \in Seq(S) /\ Len(b) = Len(s) - k
        /\ \A i \in 1..(Len(s) - k) : b[i] = s[k + i]
    BY <1>1, PartOfSeq
  <1>4. RemoveAt(s, k) = a \o b
    BY DEF RemoveAt
  <1> HIDE DEF a, b
  <1>5. /\ a \o b \in Seq(S) /\ Len(a \o b) = Len(a) + Len(b)
        /\ \A i \in 1..(Len(a) + Len(b)) :
              (a \o b)[i] = IF i <= Len(a) THEN a[i] ELSE b[i - Len(a)]
    BY <1>2, <1>3, ConcatProperties
  <1>6. Len(a) + Len(b) = Len(s) - 1
    BY <1>1, <1>2, <1>3
  <1>7. ASSUME NEW i \in 1..(Len(s) - 1)
        PROVE  (a \o b)[i] = IF i < k THEN s[i] ELSE s[i + 1]
    <2>1. CASE i < k
      BY <1>1, <1>2, <1>5, <1>6, <2>1
    <2>2. CASE i >= k
      <3>1. i - (k - 1) \in 1..(Len(s) - k) /\ k + (i - (k - 1)) = i + 1
        BY <1>1, <2>2
      <3>2. (a \o b)[i] = b[i - (k - 1)]
        BY <1>1, <1>2, <1>5, <1>6, <2>2
      <3>3. b[i - (k - 1)] = s[i + 1] /\ ~(i < k)
        BY <1>1, <1>3, <2>2, <3>1
      <3> QED BY <3>2, <3>3
    <2>3. i < k \/ i >= k
      BY <1>1
    <2> QED BY <2>1, <2>2, <2>3
  <1> QED BY <1>4, <1>5, <1>6, <1>7

\* The values of a line's entries are what it queues with nothing pending.
LEMMA SameValuesSameQueue ==
    ASSUME NEW l \in Seq(Entry), NEW q \in Seq(Value), Len(q) = Len(l),
           \A i \in 1..Len(l) : l[i].value = q[i]
    PROVE  Queued(l, None) = q
  <1>1. /\ Queued(l, None) \in Seq(Value) /\ Len(Queued(l, None)) = Len(l)
        /\ \A i \in 1..Len(l) : Queued(l, None)[i] = l[i].value
        /\ Len(l) \in Nat
    BY QueuedShape, EntryAges
  <1> QED BY <1>1, SeqEqual

\* An empty line with nothing pending queues nothing.
LEMMA NothingQueued == Queued(<<>>, None) = <<>>
  <1>1. <<>> \in Seq(Entry) /\ <<>> \in Seq(Value) /\ Len(<<>>) = 0
    BY EmptySeq
  <1>2. \A i \in 1..Len(<<>>) : <<>>[i].value = <<>>[i]
    BY <1>1
  <1> QED BY <1>1, <1>2, SameValuesSameQueue

\* Two lines of the same values queue the same behind them.
LEMMA SameLineSameQueue ==
    ASSUME NEW l \in Seq(Entry), NEW m \in Seq(Entry), Len(l) = Len(m),
           NEW p \in Value \cup {None},
           \A i \in 1..Len(l) : l[i].value = m[i].value
    PROVE  Queued(l, p) = Queued(m, p)
  <1> DEFINE n == IF p = None THEN 0 ELSE 1
  <1>1. /\ Queued(l, p) \in Seq(Value) /\ Len(Queued(l, p)) = Len(l) + n
        /\ Queued(m, p) \in Seq(Value) /\ Len(Queued(m, p)) = Len(l) + n
        /\ Len(l) \in Nat
    BY QueuedShape, EntryAges
  <1>2. ASSUME NEW i \in 1..(Len(l) + n) PROVE Queued(l, p)[i] = Queued(m, p)[i]
    <2>1. CASE i <= Len(l)
      BY <1>1, <2>1, QueuedShape
    <2>2. CASE i > Len(l)
      <3>1. p # None /\ i = Len(l) + 1
        BY <1>1, <2>2
      <3> QED BY <3>1, QueuedShape
    <2> QED BY <1>1, <2>1, <2>2
  <1> HIDE DEF n
  <1> QED BY <1>1, <1>2, SeqEqual

\* What a tick leaves to come out is the queue, with at most one command
\* passed over that a later one follows.
LEMMA TickThins ==
    ASSUME SlotAssumption, IInv
    PROVE  Queued(Backstop(Absorb), None) \in Promise!Thinned
  <1> DEFINE l == Backstop(Absorb)
             q == InLine
             n == Len(line)
  <1>1. /\ q \in Seq(Value) /\ Len(q) = n + (IF pending = None THEN 0 ELSE 1)
        /\ \A i \in 1..n : q[i] = line[i].value
        /\ pending # None => q[n + 1] = pending
        /\ line \in Seq(Entry) /\ n \in Nat /\ n <= MostEntries
        /\ pending \in Value \cup {None}
    BY QueuedShape, EntryAges DEF InLine, IInv, Lined
  <1>2. /\ MaxLine \in Nat /\ MaxLine >= 1 /\ MostEntries = MaxLine + 1
        /\ MostEntries \in Nat
        /\ l \in Seq(Entry) /\ Len(l) \in Nat
    BY SlotsFillDelay, BackstopIsLine DEF MostEntries, IInv
  <1> HIDE DEF n, q
  <1>3. CASE pending = None
    <2>1. Absorb = line
      BY <1>3, AbsorbCases DEF IInv
    <2>2. l = line
      BY <1>1, <1>2, <2>1, BackstopCases DEF n
    <2>3. Queued(l, None) = q
      BY <1>3, <2>2 DEF q, InLine
    <2> QED BY <2>3 DEF Promise!Thinned, q
  <1>4. CASE pending # None /\ Mergeable
    <2>1. /\ n >= 1 /\ Absorb \in Seq(Entry) /\ Len(Absorb) = n
          /\ \A i \in 1..n : Absorb[i].value = IF i = n THEN pending
                                               ELSE line[i].value
      BY <1>4, AbsorbCases DEF IInv, n
    <2>2. l = Absorb
      BY <1>1, <1>2, <2>1, BackstopCases
    <2>3. /\ n \in 1..Len(q) /\ n \in 1..(Len(q) - 1) /\ Len(q) - 1 = n
      BY <1>1, <1>4, <2>1
    <2>4. /\ RemoveAt(q, n) \in Seq(Value) /\ Len(RemoveAt(q, n)) = n
          /\ \A i \in 1..n : RemoveAt(q, n)[i] = IF i < n THEN q[i] ELSE q[i + 1]
      BY <1>1, <2>3, RemovedShape
    <2>5. ASSUME NEW i \in 1..n PROVE Absorb[i].value = RemoveAt(q, n)[i]
      <3>1. CASE i = n
        BY <1>1, <1>4, <2>1, <2>4, <3>1
      <3>2. CASE i # n
        BY <1>1, <2>1, <2>4, <3>2
      <3> QED BY <3>1, <3>2
    <2>6. Queued(l, None) = RemoveAt(q, n)
      BY <2>1, <2>2, <2>4, <2>5, SameValuesSameQueue
    <2> QED BY <2>3, <2>6 DEF Promise!Thinned, q, RemoveAt, Promise!RemoveAt
  <1>5. CASE pending # None /\ ~Mergeable
    <2>1. /\ Absorb \in Seq(Entry) /\ Len(Absorb) = n + 1
          /\ \A i \in 1..n : Absorb[i] = line[i]
          /\ Absorb[n + 1] = Stamped(pending)
      BY <1>5, AbsorbCases DEF IInv, n
    <2>2. Stamped(pending).value = pending
      BY <1>1, <1>5, StampedIsEntry
    <2>3. Len(q) = n + 1 /\ \A i \in 1..(n + 1) : Absorb[i].value = q[i]
      BY <1>1, <1>5, <2>1, <2>2
    <2>4. CASE n < MostEntries
      <3>1. l = Absorb
        BY <1>1, <1>2, <2>1, <2>4, BackstopCases
      <3>2. Queued(l, None) = q
        BY <1>1, <2>1, <2>3, <3>1, SameValuesSameQueue
      <3> QED BY <3>2 DEF Promise!Thinned, q
    <2>5. CASE n = MostEntries
      <3>1. l = SubSeq(Absorb, 1 + 1, Len(Absorb))
        <4>1. 1 + 1 = 2 /\ ~(Len(Absorb) <= MostEntries)
          BY <1>1, <1>2, <2>1, <2>5
        <4>2. Len(Absorb) <= MostEntries + 1
          BY <1>1, <1>2, <2>1
        <4>3. l = SubSeq(Absorb, 2, Len(Absorb))
          BY <1>2, <2>1, <4>1, <4>2, BackstopCases
        <4> QED BY <4>1, <4>3
      <3>2. 1 \in 0..Len(Absorb) /\ Len(Absorb) - 1 = n
        BY <1>1, <2>1
      <3>3. Len(l) = n /\ \A i \in 1..n : l[i] = Absorb[1 + i]
        BY <2>1, <3>1, <3>2, PartOfSeq
      <3>4. 1 \in 1..Len(q) /\ 1 \in 1..(Len(q) - 1) /\ Len(q) - 1 = n
        BY <1>1, <1>2, <2>3, <2>5
      <3>5. /\ RemoveAt(q, 1) \in Seq(Value) /\ Len(RemoveAt(q, 1)) = n
            /\ \A i \in 1..n : RemoveAt(q, 1)[i] = IF i < 1 THEN q[i] ELSE q[i + 1]
        BY <1>1, <3>4, RemovedShape
      <3>6. ASSUME NEW i \in 1..n PROVE l[i].value = RemoveAt(q, 1)[i]
        <4>1. ~(i < 1) /\ 1 + i = i + 1 /\ i + 1 \in 1..(n + 1)
          BY <1>1
        <4> QED BY <2>3, <3>3, <3>5, <4>1
      <3> HIDE DEF l
      <3>7. Queued(l, None) = RemoveAt(q, 1)
        BY <1>2, <3>3, <3>5, <3>6, SameValuesSameQueue
      <3> QED BY <3>4, <3>7 DEF Promise!Thinned, q, l, RemoveAt, Promise!RemoveAt
    <2> QED BY <1>1, <1>2, <2>4, <2>5
  <1> QED BY <1>3, <1>4, <1>5

\* A tick releases what is due.
LEMMA TickPromises ==
    ASSUME SlotAssumption, IInv, NEW band, Tick(band)
    PROVE  Promise!Release
  <1> DEFINE l == Backstop(Absorb)
             n == DueCount(l)
             q == Queued(l, None)
  <1>1. /\ pending' = None /\ newest' = newest
        /\ line' = SubSeq(l, n + 1, Len(l))
        /\ delayed' = IF n = 0 THEN delayed ELSE l[n].value
    BY TickMoves
  <1>2. /\ l \in Seq(Entry) /\ Len(l) \in Nat /\ n \in 0..Len(l)
        /\ q \in Seq(Value) /\ Len(q) = Len(l)
        /\ \A i \in 1..Len(l) : q[i] = l[i].value
    BY BackstopIsLine, DueAtFront, QueuedShape DEF IInv
  <1>3. q \in Promise!Thinned
    BY TickThins
  <1> HIDE DEF l, n, q
  <1>4. /\ line' \in Seq(Entry) /\ Len(line') = Len(l) - n
        /\ \A i \in 1..(Len(l) - n) : line'[i] = l[n + i]
    BY <1>1, <1>2, PartOfSeq
  <1>5. InLine' = SubSeq(q, n + 1, Len(q))
    <2>1. /\ SubSeq(q, n + 1, Len(q)) \in Seq(Value)
          /\ Len(SubSeq(q, n + 1, Len(q))) = Len(l) - n
          /\ \A i \in 1..(Len(l) - n) : SubSeq(q, n + 1, Len(q))[i] = q[n + i]
      BY <1>2, PartOfSeq
    <2>2. \A i \in 1..(Len(l) - n) : n + i \in 1..Len(l)
      BY <1>2
    <2>3. \A i \in 1..(Len(l) - n) :
              line'[i].value = SubSeq(q, n + 1, Len(q))[i]
      BY <1>2, <1>4, <2>1, <2>2
    <2>4. Queued(line', None) = SubSeq(q, n + 1, Len(q))
      BY <1>4, <2>1, <2>3, SameValuesSameQueue
    <2> QED BY <1>1, <2>4 DEF InLine
  <1>6. delayed' = IF n = 0 THEN delayed ELSE q[n]
    BY <1>1, <1>2
  <1> QED BY <1>1, <1>2, <1>3, <1>5, <1>6 DEF Promise!Release

\* A command takes the place of the one not yet stamped.
LEMMA SetCommandPromises ==
    ASSUME IInv, NEW v \in Value, SetCommand(v)
    PROVE  Promise!Submit(v)
  <1> DEFINE n == Len(line)
             before == Queued(line, pending)
             after == Queued(line, v)
  <1>1. /\ line \in Seq(Entry) /\ n \in Nat /\ v # None
        /\ pending \in Value \cup {None}
    BY EntryAges, NoneIsNothing DEF IInv, Lined
  <1>2. /\ before \in Seq(Value) /\ Len(before) >= n /\ Len(before) \in Nat
        /\ \A i \in 1..n : before[i] = line[i].value
    BY <1>1, QueuedShape
  <1>3. /\ after \in Seq(Value) /\ Len(after) = n + 1
        /\ \A i \in 1..n : after[i] = line[i].value
        /\ after[n + 1] = v
    BY <1>1, QueuedShape
  <1>4. InLine = before /\ InLine' = after /\ newest' = v /\ delayed' = delayed
    BY DEF SetCommand, InLine
  <1> HIDE DEF n, before, after
  <1>5. n \in 0..Len(before)
    BY <1>1, <1>2
  <1>6. /\ SubSeq(before, 1, n) \in Seq(Value) /\ Len(SubSeq(before, 1, n)) = n
        /\ \A i \in 1..n : SubSeq(before, 1, n)[i] = before[i]
    BY <1>2, <1>5, HeadOfSeq
  <1> DEFINE s == Append(SubSeq(before, 1, n), v)
  <1>7. /\ s \in Seq(Value) /\ Len(s) = n + 1 /\ s[n + 1] = v
        /\ \A i \in 1..n : s[i] = SubSeq(before, 1, n)[i]
    BY <1>1, <1>6, AppendProperties
  <1> HIDE DEF s
  <1>8. \A i \in 1..(n + 1) : after[i] = s[i]
    BY <1>1, <1>2, <1>3, <1>6, <1>7
  <1>9. after = s
    BY <1>3, <1>7, <1>8, SeqEqual
  <1> QED BY <1>4, <1>5, <1>9 DEF Promise!Submit, s

\* The clock moves stamps and not commands, forward or back.
LEMMA StampsMoveOnly ==
    ASSUME IInv, Clock \/ \E ticks \in 1..Back : StepBack(ticks)
    PROVE  UNCHANGED Promise!vars
  <1>1. /\ line \in Seq(Entry) /\ pending \in Value \cup {None}
        /\ line' \in Seq(Entry) /\ Len(line') = Len(line)
        /\ \A i \in 1..Len(line) : line'[i].value = line[i].value
    BY ClockMoves, StepBackMoves DEF IInv, Lined
  <1>2. pending' = pending /\ delayed' = delayed /\ newest' = newest
    BY DEF Clock, StepBack
  <1>3. Queued(line', pending) = Queued(line, pending)
    BY <1>1, SameLineSameQueue
  <1> QED BY <1>2, <1>3 DEF Promise!vars, InLine

LEMMA StepPromises ==
    ASSUME SlotAssumption, IInv, [Next]_vars
    PROVE  [Promise!Next]_Promise!vars
  <1>1. CASE \E v \in Value : SetCommand(v)
    BY <1>1, SetCommandPromises DEF Promise!Next
  <1>2. CASE \E band \in Bands : Tick(band)
    BY <1>2, TickPromises DEF Promise!Next
  <1>3. CASE Trip
    <2>1. line' = <<>> /\ pending' = None /\ delayed' = 0 /\ newest' = 0
      BY <1>3 DEF Trip
    <2>2. InLine' = <<>>
      BY <2>1, NothingQueued DEF InLine
    <2> QED BY <2>1, <2>2 DEF Promise!Reset, Promise!Next
  <1>4. CASE Clock \/ \E ticks \in 1..Back : StepBack(ticks)
    BY <1>4, StampsMoveOnly
  <1>5. CASE UNCHANGED vars
    BY <1>5 DEF vars, Promise!vars, InLine
  <1> QED BY <1>1, <1>2, <1>3, <1>4, <1>5 DEF Next

(***************************************************************************)
(* The hardware's delay line, merging and backstop included, implements     *)
(* DelayPromise for every delay, number of slots and backward clock step:   *)
(* commands come out in order, one is passed over only for a later one, and *)
(* the newest is never lost but to a trip.                                  *)
(***************************************************************************)
THEOREM AxisKeepsPromise ==
    ASSUME SlotAssumption
    PROVE  Spec => KeepsPromise
  <1>1. Init => IInv
    BY InitHolds
  <1>2. Init => Promise!Init
    BY NothingQueued DEF Init, InLine, Promise!Init
  <1>3. IInv /\ [Next]_vars => IInv'
    BY StepKeeps
  <1>4. IInv /\ [Next]_vars => [Promise!Next]_Promise!vars
    BY StepPromises
  <1> QED BY <1>1, <1>2, <1>3, <1>4, PTL DEF Spec, KeepsPromise, Promise!Spec
=============================================================================
