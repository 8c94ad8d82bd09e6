----------------------------- MODULE SchedulerProofs -----------------------------
(***************************************************************************)
(* Theorems about Scheduler: its types, and that next runs are at slots of *)
(* their provider's cadence, for any intervals and any length of runs.     *)
(* First division with a positive divisor, then what time does to one next *)
(* run, then the steps.                                                    *)
(***************************************************************************)
EXTENDS Scheduler, WellFoundedInduction, TLAPS

\* Division with rest.
LEMMA Division ==
  ASSUME NEW a \in Int, NEW n \in Nat \ {0}
  PROVE  /\ a \div n \in Int
         /\ a % n \in 0..(n - 1)
         /\ a = (n * (a \div n)) + (a % n)
  <1>1. a \div n \in Int
    OBVIOUS
  <1>2. a % n \in 0..(n - 1)
    OBVIOUS
  <1>3. a = (n * (a \div n)) + (a % n)
    OBVIOUS
  <1> QED BY <1>1, <1>2, <1>3

\* The only multiple of n less than n away from zero is zero.
LEMMA SmallMultiple ==
  ASSUME NEW n \in Nat \ {0}, NEW k \in Int, NEW r \in 0..(n - 1), (n * k) + r = 0
  PROVE  r = 0
  <1>1. CASE k >= 1
    BY <1>1, n * k >= n
  <1>2. CASE k <= -1
    BY <1>2, n * k <= -n
  <1>3. CASE k = 0
    BY <1>3
  <1> QED BY <1>1, <1>2, <1>3

\* A rest is zero exactly for multiples.
LEMMA RestZero ==
  ASSUME NEW a \in Int, NEW n \in Nat \ {0}
  PROVE  a % n = 0 <=> \E k \in Int : a = n * k
  <1>1. ASSUME a % n = 0 PROVE \E k \in Int : a = n * k
    <2>1. PICK q \in Int : a = (n * q) + (a % n)
      BY Division
    <2>2. a = n * q
      BY <1>1, <2>1
    <2> QED BY <2>2
  <1>2. ASSUME NEW k \in Int, a = n * k PROVE a % n = 0
    <2>1. PICK q \in Int, r \in 0..(n - 1) : r = a % n /\ a = (n * q) + r
      BY Division
    <2>2. (n * q) + r = n * k
      BY ONLY <2>1, <1>2
    <2>3. q - k \in Int /\ (n * (q - k)) + r = 0
      BY ONLY <2>2, n \in Nat, q \in Int, k \in Int, r \in Int
    <2>4. r = 0
      BY <2>3, SmallMultiple
    <2> QED BY <2>1, <2>4
  <1> QED BY <1>1, <1>2

\* A set of naturals has a least element.
LEMMA LeastElement ==
  ASSUME NEW S \in SUBSET Nat, S # {}
  PROVE  \E m \in S : \A k \in S : m <= k
  <1> DEFINE R == OpToRel(<, Nat)
  <1>1. IsWellFoundedOn(R, Nat)
    BY NatLessThanWellFounded
  <1>2. \A x, y \in Nat : y < x => <<y, x>> \in R
    BY DEF OpToRel
  <1> HIDE DEF R
  <1>3. \E x \in S : \A y \in S : ~(<<y, x>> \in R)
    BY <1>1, WFMin, Zenon
  <1>4. PICK x \in S : \A y \in S : ~(<<y, x>> \in R)
    BY <1>3
  <1>5. ASSUME NEW k \in S PROVE ~(k < x)
    BY <1>2, <1>4, Zenon
  <1>6. ASSUME NEW k \in S PROVE x <= k
    <2>1. ~(k < x)
      BY <1>5
    <2>2. k \in Nat /\ x \in Nat
      OBVIOUS
    <2> QED BY ONLY <2>1, <2>2
  <1> QED BY <1>6, Zenon
-------------------------------------------------------------------------------
\* A time is at a slot of a cadence.
AtSlot(t, n) == \E k \in Int : t = n * k

\* An interval fits into a round, a whole number of times.
LEMMA RoundIsAtSlot ==
  ASSUME NEW p \in Providers
  PROVE  /\ Interval[p] \in Nat \ {0}
         /\ Round \in Nat \ {0}
         /\ AtSlot(Round, Interval[p])
         /\ Interval[p] <= Round
  <1>1. Interval[p] \in Nat \ {0} /\ Round \in Nat \ {0} /\ Round % Interval[p] = 0
    BY ScheduleConstantsOK
  <1>2. PICK c \in Int : Round = Interval[p] * c
    <2>1. Round \in Int
      BY <1>1
    <2> QED BY <1>1, <2>1, RestZero, Zenon
  <1>3. c >= 1
    <2>1. CASE c <= 0
      <3>1. Interval[p] * c <= 0
        BY <1>1, <2>1
      <3> QED BY <1>1, <1>2, <3>1
    <2> QED BY <2>1
  <1>4. Interval[p] <= Interval[p] * c
    BY <1>1, <1>3
  <1> QED BY <1>1, <1>2, <1>4 DEF AtSlot

\* Adding multiples stays on the cadence.
LEMMA SlotsAdd ==
  ASSUME NEW n \in Nat \ {0}, NEW t \in Int, AtSlot(t, n), NEW u \in Int, AtSlot(u, n), NEW m \in Int
  PROVE  AtSlot(t + (u * m), n)
  <1>1. PICK j \in Int : t = n * j
    BY DEF AtSlot
  <1>2. PICK k \in Int : u = n * k
    BY DEF AtSlot
  <1>3. t + (u * m) = n * (j + (k * m))
    <2>1. (n * k) * m = n * (k * m)
      OBVIOUS
    <2>2. n * (j + (k * m)) = (n * j) + (n * (k * m))
      BY k * m \in Int
    <2> QED BY <1>1, <1>2, <2>1, <2>2
  <1>4. j + (k * m) \in Int
    OBVIOUS
  <1> QED BY <1>3, <1>4 DEF AtSlot

\* The next run of p, as the invariant has it, t being the time.
Slot(t, w, p) ==
    /\ w \in (-MaxLate)..Interval[p]
    /\ AtSlot(t + w, Interval[p])

\* When time goes by, the next run stays at its slot.
LEMMA LaterKeepsSlot ==
  ASSUME NEW p \in enabled, enabled \subseteq Providers, tick \in 0..(Round - 1),
         Slot(tick, wait[p], p), NEW d \in 0..Round
  PROVE  Slot((tick + d) % Round, Later(d, p), p)
  <1> DEFINE I == Interval[p]
             w == wait[p]
             t == (tick + d) % Round
  <1>1. I \in Nat \ {0} /\ Round \in Nat \ {0} /\ AtSlot(Round, I) /\ I <= Round
    BY RoundIsAtSlot
  <1>2. MaxLate \in Nat /\ Round <= MaxLate
    BY ScheduleConstantsOK
  <1>3. w \in (-MaxLate)..I /\ AtSlot(tick + w, I)
    BY DEF Slot
  <1>4. PICK q \in Int : tick + d = (Round * q) + t /\ t \in Int
    <2>1. tick + d \in Int
      BY <1>1
    <2>2. /\ (tick + d) \div Round \in Int
          /\ t \in 0..(Round - 1)
          /\ tick + d = (Round * ((tick + d) \div Round)) + t
      BY <1>1, <2>1, Division, Zenon
    <2>3. t \in Int
      BY <1>1, <2>2
    <2> QED BY <2>2, <2>3, Zenon
  <1> HIDE DEF I, w, t
  <1>5. CASE w - d < -MaxLate
    <2>1. Later(d, p) = w - d + Round
      BY <1>5 DEF Later, w
    <2>2. t + (w - d + Round) = (tick + w) + (Round * (1 - q))
      <3>1. Round * (1 - q) = Round - (Round * q)
        BY <1>1
      <3> QED BY <1>1, <1>2, <1>3, <1>4, <3>1
    <2>3. AtSlot((tick + w) + (Round * (1 - q)), I)
      <3>1. 1 - q \in Int /\ tick + w \in Int /\ Round \in Int
        BY <1>1, <1>2, <1>3
      <3> QED BY <1>1, <1>3, <3>1, SlotsAdd, Zenon
    <2>4. w - d + Round \in (-MaxLate)..I
      BY <1>1, <1>2, <1>3, <1>5
    <2> QED BY <2>1, <2>2, <2>3, <2>4 DEF Slot, I, t
  <1>6. CASE ~(w - d < -MaxLate)
    <2>1. Later(d, p) = w - d
      BY <1>6 DEF Later, w
    <2>2. t + (w - d) = (tick + w) + (Round * (0 - q))
      <3>1. Round * (0 - q) = 0 - (Round * q)
        BY <1>1
      <3> QED BY <1>1, <1>2, <1>3, <1>4, <3>1
    <2>3. AtSlot((tick + w) + (Round * (0 - q)), I)
      <3>1. 0 - q \in Int /\ tick + w \in Int /\ Round \in Int
        BY <1>1, <1>2, <1>3
      <3> QED BY <1>1, <1>3, <3>1, SlotsAdd, Zenon
    <2>4. w - d \in (-MaxLate)..I
      BY <1>1, <1>2, <1>3, <1>6
    <2> QED BY <2>1, <2>2, <2>3, <2>4 DEF Slot, I, t
  <1> QED BY <1>5, <1>6

\* reschedule() goes to a slot in the future, no further than one interval.
LEMMA RescheduledToSlot ==
  ASSUME NEW p \in Providers, NEW t \in Int, NEW w \in (-MaxLate)..Interval[p],
         AtSlot(t + w, Interval[p])
  PROVE  /\ Slot(t, Rescheduled(w, Interval[p]), p)
         /\ Rescheduled(w, Interval[p]) > 0
  <1> DEFINE I == Interval[p]
  <1>1. I \in Nat \ {0} /\ MaxLate \in Nat
    BY RoundIsAtSlot, ScheduleConstantsOK
  <1> HIDE DEF I
  <1>2. CASE w <= 0
    <2>1. PICK q \in Int, r \in 0..(I - 1) : q = (-w) \div I /\ -w = (I * q) + r
      BY <1>1, Division, -w \in Int
    <2>2. Rescheduled(w, I) = w + (I * (q + 1))
      BY <1>2, <2>1 DEF Rescheduled
    <2>3. I * (q + 1) = (I * q) + I
      BY <1>1
    <2>4. w + (I * (q + 1)) \in 1..I
      BY <1>1, <2>1, <2>3
    <2>5. AtSlot(I, I)
      BY <1>1, I = I * 1 DEF AtSlot
    <2>6. AtSlot((t + w) + (I * (q + 1)), I)
      BY <1>1, <2>5, SlotsAdd, q + 1 \in Int, t + w \in Int DEF I
    <2>7. t + (w + (I * (q + 1))) = (t + w) + (I * (q + 1))
      BY <1>1
    <2> QED BY <1>1, <2>2, <2>4, <2>6, <2>7 DEF Slot, I
  <1>3. CASE w > 0
    BY <1>1, <1>3 DEF Rescheduled, Slot, I
  <1> QED BY <1>1, <1>2, <1>3 DEF I
-------------------------------------------------------------------------------
\* What is to be slept for is a number.
LEMMA SleepIsNat ==
  ASSUME wait \in [Providers -> (-MaxLate)..Round], enabled \subseteq Providers
  PROVE  seconds_until_next \in Nat
  <1>1. MaxLate \in Nat /\ Idle \in Nat /\ Round \in Nat
    BY ScheduleConstantsOK
  <1>2. CASE enabled = {}
    BY <1>1, <1>2 DEF seconds_until_next
  <1>3. CASE enabled # {}
    <2> DEFINE S == {wait[p] : p \in enabled}
               T == {s + MaxLate : s \in S}
    <2>1. S \subseteq (-MaxLate)..Round /\ S # {}
      BY <1>3
    <2> HIDE DEF S
    <2>2. T \subseteq Nat /\ T # {}
      <3>1. \A s \in S : s \in Int /\ s >= -MaxLate
        BY <1>1, <2>1
      <3>2. \A s \in S : s + MaxLate \in Nat
        BY <1>1, <3>1
      <3> QED BY <2>1, <3>2
    <2>3. PICK m \in T : \A k \in T : m <= k
      BY <2>2, LeastElement, Zenon
    <2>4. PICK s \in S : m = s + MaxLate
      BY <2>3
    <2>5. ASSUME NEW x \in S PROVE s <= x
      <3>1. m <= x + MaxLate
        BY <2>3
      <3>2. s \in Int /\ x \in Int
        BY <1>1, <2>1
      <3> QED BY <1>1, <2>4, <3>1, <3>2
    <2>6. Min(S) \in S
      BY <2>4, <2>5 DEF Min
    <2>7. Min(S) \in Int
      <3>1. S \subseteq Int
        BY <1>1, <2>1
      <3> QED BY <2>6, <3>1, Zenon
    <2> DEFINE z == Min(S)
    <2> HIDE DEF z
    <2>8. Max({0, z}) \in {0, z} /\ \A y \in {0, z} : Max({0, z}) >= y
      <3>1. z \in Int
        BY <2>7 DEF z
      <3>2. \E x \in {0, z} : \A y \in {0, z} : x >= y
        BY <3>1
      <3> QED BY <3>2 DEF Max
    <2>9. Max({0, z}) \in Nat
      <3>1. z \in Int
        BY <2>7 DEF z
      <3>2. Max({0, z}) \in Int /\ Max({0, z}) >= 0
        BY <2>8, <3>1
      <3> QED BY <3>2
    <2> QED BY <1>3, <2>9 DEF seconds_until_next, S, z
  <1> QED BY <1>2, <1>3

\* Every enabled provider is at a slot, and what has just run is in the future.
Cadence ==
    /\ \A p \in enabled : Slot(tick, wait[p], p)
    /\ \A p \in enabled : pc = "publish" /\ at = p => wait[p] > 0

Inv == TypeOK /\ Cadence

\* The first slots.
LEMMA InvInit == Init => Inv
  <1> SUFFICES ASSUME Init PROVE Inv
    OBVIOUS
  <1>1. MaxLate \in Nat /\ Round \in Nat \ {0}
    BY ScheduleConstantsOK
  <1>2. TypeOK
    <2>1. /\ wait \in [Providers -> (-MaxLate)..Round]
          /\ tick \in 0..(Round - 1)
          /\ left \in Nat
      <3>1. 0 \in (-MaxLate)..Round /\ 0 \in 0..(Round - 1)
        BY <1>1
      <3> QED BY <3>1 DEF Init
    <2>2. /\ pc = "cycle" /\ enabled \subseteq Providers /\ queue = {} /\ at = "none"
          /\ {stopping, once} \subseteq BOOLEAN
      BY DEF Init
    <2> QED BY <2>1, <2>2 DEF TypeOK
  <1>3. ASSUME NEW p \in enabled PROVE Slot(tick, wait[p], p)
    <2>1. p \in Providers /\ wait[p] = 0 /\ tick = 0
      BY DEF Init
    <2>2. Interval[p] \in Nat \ {0}
      BY <2>1, RoundIsAtSlot
    <2>3. AtSlot(0 + 0, Interval[p])
      BY <2>2, Interval[p] * 0 = 0 DEF AtSlot
    <2> QED BY <1>1, <2>1, <2>2, <2>3 DEF Slot
  <1>4. pc = "cycle"
    BY DEF Init
  <1> QED BY <1>2, <1>3, <1>4 DEF Inv, Cadence

\* Time that goes by disturbs neither the types nor the cadence.
LEMMA PassKeepsSlots ==
  ASSUME Inv, NEW d \in 0..Round, Pass(d), enabled' = enabled
  PROVE  /\ wait' \in [Providers -> (-MaxLate)..Round]
         /\ tick' \in 0..(Round - 1)
         /\ \A p \in enabled : Slot(tick', wait'[p], p)
  <1>1. Round \in Nat \ {0} /\ MaxLate \in Nat
    BY ScheduleConstantsOK
  <1>2. /\ enabled \subseteq Providers /\ tick \in 0..(Round - 1)
        /\ wait \in [Providers -> (-MaxLate)..Round]
        /\ \A p \in enabled : Slot(tick, wait[p], p)
    BY DEF Inv, TypeOK, Cadence
  <1>3. wait' = [p \in Providers |-> Later(d, p)] /\ tick' = (tick + d) % Round
    BY DEF Pass
  <1>4. tick' \in 0..(Round - 1)
    <2>1. tick + d \in Int
      BY <1>1, <1>2
    <2> QED BY <1>1, <1>3, <2>1, Division
  <1>5. \A p \in enabled : Slot(tick', Later(d, p), p)
    BY <1>2, <1>3, LaterKeepsSlot
  <1>6. ASSUME NEW p \in Providers PROVE Later(d, p) \in (-MaxLate)..Round
    <2>1. CASE p \in enabled
      BY <1>1, <1>5, <2>1, RoundIsAtSlot DEF Slot
    <2>2. CASE p \notin enabled
      BY <1>2, <2>2 DEF Later
    <2> QED BY <2>1, <2>2
  <1>7. wait' \in [Providers -> (-MaxLate)..Round]
    BY <1>3, <1>6
  <1>8. \A p \in enabled : wait'[p] = Later(d, p)
    BY <1>2, <1>3
  <1> QED BY <1>4, <1>5, <1>7, <1>8

\* Every step keeps the slots on their cadence.
LEMMA InvStep == Inv /\ [Next]_vars => Inv'
  <1> SUFFICES ASSUME Inv, [Next]_vars PROVE Inv'
    OBVIOUS
  <1>0. /\ Round \in Nat \ {0} /\ MaxLate \in Nat /\ MaxRun \in Nat /\ MaxLag \in Nat
        /\ MaxRun <= Round /\ MaxLag < Round
    BY ScheduleConstantsOK
  <1>t. TypeOK /\ enabled \subseteq Providers
    BY DEF Inv, TypeOK
  <1>1. CASE Cycle
    <2>1. due_providers \subseteq enabled
      BY DEF due_providers, Due
    <2>2. TypeOK'
      BY <1>1, <1>t, <2>1 DEF Cycle, TypeOK
    <2>3. Cadence'
      BY <1>1 DEF Cycle, Inv, Cadence
    <2> QED BY <2>2, <2>3 DEF Inv
  <1>2. CASE Take
    <2>1. TypeOK'
      <3>1. PICK p \in queue : at' = p /\ queue' = queue \ {p}
        BY <1>2 DEF Take
      <3>2. p \in enabled /\ p # "none"
        <4>1. p \in enabled
          BY <1>t, <3>1 DEF TypeOK
        <4> QED BY <4>1, ScheduleConstantsOK, <1>t
      <3>3. /\ pc = "take" /\ pc' = "run"
            /\ UNCHANGED <<enabled, wait, left, stopping, once, tick>>
        BY <1>2 DEF Take
      <3> QED BY <1>t, <3>1, <3>2, <3>3 DEF TypeOK
    <2>2. Cadence'
      BY <1>2 DEF Take, Inv, Cadence
    <2> QED BY <2>1, <2>2 DEF Inv
  <1>3. CASE Run
    <2>1. PICK d \in 0..MaxRun :
            /\ wait' = [p \in Providers |-> IF p = at THEN Rescheduled(Later(d, p), Interval[p]) ELSE Later(d, p)]
            /\ tick' = (tick + d) % Round
      BY <1>3 DEF Run
    <2>2. /\ pc = "run" /\ pc' = "publish"
          /\ UNCHANGED <<enabled, queue, at, left, stopping, once>>
      BY <1>3 DEF Run
    <2>3. d \in 0..Round
      BY <1>0
    <2>4. tick \in 0..(Round - 1) /\ wait \in [Providers -> (-MaxLate)..Round] /\ at \in enabled
      BY <2>2, <1>t DEF TypeOK
    <2>5. tick' \in 0..(Round - 1)
      <3>1. tick + d \in Int
        BY <1>0, <2>3, <2>4
      <3> QED BY <1>0, <2>1, <3>1, Division
    <2>6. \A p \in enabled : Slot(tick', Later(d, p), p)
      BY <1>t, <2>1, <2>3, <2>4, LaterKeepsSlot DEF Inv, Cadence
    <2>7. /\ Slot(tick', Rescheduled(Later(d, at), Interval[at]), at)
          /\ Rescheduled(Later(d, at), Interval[at]) > 0
      <3>1. at \in Providers /\ tick' \in Int
        BY <1>t, <2>4, <2>5
      <3>2. Later(d, at) \in (-MaxLate)..Interval[at] /\ AtSlot(tick' + Later(d, at), Interval[at])
        BY <2>4, <2>6 DEF Slot
      <3> QED BY <3>1, <3>2, RescheduledToSlot
    <2>8. ASSUME NEW p \in Providers PROVE wait'[p] \in (-MaxLate)..Round
      <3>1. CASE p = at
        BY <1>0, <2>1, <2>7, <3>1, RoundIsAtSlot DEF Slot
      <3>2. CASE p # at /\ p \in enabled
        BY <1>0, <2>1, <2>6, <3>2, RoundIsAtSlot DEF Slot
      <3>3. CASE p \notin enabled
        BY <2>1, <2>4, <3>3 DEF Later
      <3> QED BY <3>1, <3>2, <3>3
    <2>9. wait' \in [Providers -> (-MaxLate)..Round]
      BY <2>1, <2>8
    <2>10. TypeOK'
      BY <1>t, <2>2, <2>4, <2>5, <2>9 DEF TypeOK
    <2>11. Cadence'
      <3>1. ASSUME NEW p \in enabled PROVE Slot(tick', wait'[p], p)
        BY <1>t, <2>1, <2>6, <2>7
      <3>2. wait'[at] > 0
        BY <1>t, <2>1, <2>4, <2>7
      <3> QED BY <2>2, <3>1, <3>2 DEF Cadence, Slot
    <2> QED BY <2>10, <2>11 DEF Inv
  <1>4. CASE Publish
    <2>1. PICK d \in 0..MaxLag : Pass(d)
      BY <1>4 DEF Publish
    <2>2. /\ pc = "publish" /\ pc' \in {"take", "killed"} /\ at' = "none"
          /\ UNCHANGED <<enabled, queue, left, stopping, once>>
      BY <1>4 DEF Publish
    <2>3. d \in 0..Round
      BY <1>0
    <2>4. /\ wait' \in [Providers -> (-MaxLate)..Round]
          /\ tick' \in 0..(Round - 1)
          /\ \A p \in enabled : Slot(tick', wait'[p], p)
      BY <2>1, <2>2, <2>3, PassKeepsSlots
    <2>5. TypeOK'
      BY <1>t, <2>2, <2>4 DEF TypeOK
    <2>6. Cadence'
      BY <2>2, <2>4 DEF Cadence, Slot
    <2> QED BY <2>5, <2>6 DEF Inv
  <1>5. CASE Settle
    <2>1. seconds_until_next \in Nat
      BY <1>t, SleepIsNat DEF TypeOK
    <2>2. TypeOK'
      BY <1>5, <1>t, <2>1 DEF Settle, TypeOK
    <2>3. Cadence'
      BY <1>5 DEF Settle, Inv, Cadence
    <2> QED BY <2>2, <2>3 DEF Inv
  <1>6. CASE Sleep
    <2>1. PICK lag \in 0..MaxLag : Pass(1 + lag)
      BY <1>6 DEF Sleep
    <2>2. /\ pc = "sleep" /\ left > 0 /\ left' = left - 1
          /\ UNCHANGED <<pc, enabled, queue, at, stopping, once>>
      BY <1>6 DEF Sleep
    <2>3. 1 + lag \in 0..Round
      BY <1>0
    <2>4. /\ wait' \in [Providers -> (-MaxLate)..Round]
          /\ tick' \in 0..(Round - 1)
          /\ \A p \in enabled : Slot(tick', wait'[p], p)
      BY <2>1, <2>2, <2>3, PassKeepsSlots
    <2>5. TypeOK'
      BY <1>t, <2>2, <2>4 DEF TypeOK
    <2>6. Cadence'
      BY <2>2, <2>4 DEF Cadence, Slot
    <2> QED BY <2>5, <2>6 DEF Inv
  <1>7. CASE Wake
    <2>1. TypeOK'
      BY <1>7, <1>t DEF Wake, TypeOK
    <2>2. Cadence'
      BY <1>7 DEF Wake, Inv, Cadence
    <2> QED BY <2>1, <2>2 DEF Inv
  <1>8. CASE Stop
    <2>1. TypeOK'
      BY <1>8, <1>t DEF Stop, TypeOK
    <2>2. Cadence'
      BY <1>8 DEF Stop, Inv, Cadence
    <2> QED BY <2>1, <2>2 DEF Inv
  <1>9. CASE UNCHANGED vars
    BY <1>9 DEF vars, Inv, TypeOK, Cadence, Slot, AtSlot
  <1> QED BY <1>1, <1>2, <1>3, <1>4, <1>5, <1>6, <1>7, <1>8, <1>9 DEF Next, Step

\* TypeOK of the scheduler, for any providers and intervals.
THEOREM SchedulerTypeCorrect == Spec => []TypeOK
  <1>1. Inv => TypeOK
    BY DEF Inv
  <1>2. QED BY <1>1, InvInit, InvStep, PTL DEF Spec

\* ScheduleEntry.reschedule: however long runs take and however late the loop wakes up, each
\* next run stays on its provider's cadence, at most one interval away, and after a run it
\* is in the future.
THEOREM SlotsStayOnCadence == Spec => []SlotsOnCadence
  <1>1. Inv => SlotsOnCadence
    <2> SUFFICES ASSUME Inv, NEW p \in enabled
                 PROVE  /\ (tick + wait[p]) % Interval[p] = 0
                        /\ wait[p] <= Interval[p]
                        /\ pc = "publish" /\ at = p => wait[p] > 0
      BY DEF SlotsOnCadence
    <2>1. p \in Providers /\ tick \in Int /\ MaxLate \in Nat
      BY ScheduleConstantsOK DEF Inv, TypeOK
    <2>2. Interval[p] \in Nat \ {0}
      BY <2>1, RoundIsAtSlot
    <2>3. wait[p] \in (-MaxLate)..Interval[p] /\ AtSlot(tick + wait[p], Interval[p])
      BY DEF Inv, Cadence, Slot
    <2>4. tick + wait[p] \in Int
      BY <2>1, <2>2, <2>3
    <2>5. (tick + wait[p]) % Interval[p] = 0
      BY <2>2, <2>3, <2>4, RestZero DEF AtSlot
    <2>6. pc = "publish" /\ at = p => wait[p] > 0
      BY DEF Inv, Cadence
    <2> QED BY <2>1, <2>2, <2>3, <2>5, <2>6
  <1>2. QED BY <1>1, InvInit, InvStep, PTL DEF Spec
==================================================================================
