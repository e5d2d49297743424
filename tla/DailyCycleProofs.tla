---------------------------- MODULE DailyCycleProofs ----------------------------
(***************************************************************************)
(* Proofs about DailyCycle for any sessions, windows, schedules and        *)
(* answers of ISS.  The invariant CycleInv has three parts: what a fetch   *)
(* has collected so far (its offset counts bars, and as long as ISS is     *)
(* honest they are bars ISS still holds), what the load left behind (every *)
(* day of the calendar is a session, no session ISS held is missing from   *)
(* it), and the dividends dated with it.                                   *)
(***************************************************************************)
EXTENDS DailyCycle, FiniteSetTheorems, TLAPS

USE DEF Day

-----------------------------------------------------------------------------
(* The lookups of the calendar. *)

\* The days of a calendar from a day to one after it, or back to one before it.
After(cal, day, x) == {c \in cal : day < c /\ c <= x}
Before(cal, day, x) == {c \in cal : x <= c /\ c < day}

\* What the docstring of add_trading_days means by the n-th trading day strictly after, or
\* strictly before, a day.
NthAfter(cal, day, n) == {x \in cal : day < x /\ Cardinality(After(cal, day, x)) = n}
NthBefore(cal, day, n) == {x \in cal : x < day /\ Cardinality(Before(cal, day, x)) = n}

\* The set of the days a bisection counts is finite.
LEMMA BisectType ==
  ASSUME NEW cal, IsFiniteSet(cal), NEW day
  PROVE  /\ IsFiniteSet({c \in cal : c < day}) /\ IsFiniteSet({c \in cal : c <= day})
         /\ BisectLeft(cal, day) \in Nat /\ BisectRight(cal, day) \in Nat
<1>1. IsFiniteSet({c \in cal : c < day}) /\ IsFiniteSet({c \in cal : c <= day})
  BY FS_Subset
<1> QED BY <1>1, FS_CardinalityType DEF BisectLeft, BisectRight

\* The sizes of two disjoint sets add up.
LEMMA DisjointCount ==
  ASSUME NEW A, NEW B, IsFiniteSet(A), IsFiniteSet(B), A \cap B = {}
  PROVE  Cardinality(A \cup B) = Cardinality(A) + Cardinality(B)
<1>1. Cardinality(A \cap B) = 0
  BY FS_EmptySet
<1>2. Cardinality(A) \in Nat /\ Cardinality(B) \in Nat
  BY FS_CardinalityType
<1>3. Cardinality(A \cup B) = Cardinality(A) + Cardinality(B) - Cardinality(A \cap B)
  BY FS_Union
<1> QED BY <1>1, <1>2, <1>3

\* The two bisections of a day of the calendar are one apart.
LEMMA RightOfOwnDay ==
  ASSUME NEW cal, IsFiniteSet(cal), cal \subseteq Int, NEW x \in cal
  PROVE  BisectRight(cal, x) = BisectLeft(cal, x) + 1
<1> DEFINE L == {c \in cal : c < x}
           R == {c \in cal : c <= x}
<1>1. x \in Int /\ \A c \in cal : c \in Int
  OBVIOUS
<1>2. IsFiniteSet(L) /\ x \notin L
  <2>1. ~(x < x)
    BY <1>1
  <2> QED BY <2>1, BisectType
<1>3. ASSUME NEW c PROVE c \in R <=> c \in L \cup {x}
  <2>1. CASE c \in cal
    <3>1. c \in Int
      BY <1>1, <2>1
    <3> QED BY <1>1, <2>1, <3>1
  <2>2. CASE c \notin cal
    BY <2>2
  <2> QED BY <2>1, <2>2
<1>4. Cardinality(R) = Cardinality(L) + 1
  <2> HIDE DEF L, R
  <2>1. R = L \cup {x}
    BY <1>3
  <2> QED BY <1>2, <2>1, FS_AddElement
<1> QED BY <1>4 DEF BisectLeft, BisectRight

\* The ranks of two days of the calendar differ by the days from one to the other.
LEMMA RankDifference ==
  ASSUME NEW cal, IsFiniteSet(cal), cal \subseteq Int, NEW day \in Int, NEW x \in cal
  PROVE  /\ day < x => BisectLeft(cal, x) + 1
                         = BisectRight(cal, day) + Cardinality(After(cal, day, x))
         /\ x < day => BisectLeft(cal, day)
                         = BisectLeft(cal, x) + Cardinality(Before(cal, day, x))
         /\ x <= day => BisectLeft(cal, x) < BisectRight(cal, day)
         /\ day <= x => BisectLeft(cal, day) <= BisectLeft(cal, x)
         /\ Cardinality(After(cal, day, x)) \in Nat /\ Cardinality(Before(cal, day, x)) \in Nat
<1> DEFINE L(e) == {c \in cal : c < e}
           R(e) == {c \in cal : c <= e}
<1>1. /\ IsFiniteSet(L(x)) /\ IsFiniteSet(R(x)) /\ IsFiniteSet(L(day)) /\ IsFiniteSet(R(day))
      /\ BisectLeft(cal, x) \in Nat /\ BisectLeft(cal, day) \in Nat
      /\ BisectRight(cal, x) \in Nat /\ BisectRight(cal, day) \in Nat
  BY BisectType
<1>2. /\ IsFiniteSet(After(cal, day, x)) /\ IsFiniteSet(Before(cal, day, x))
      /\ Cardinality(After(cal, day, x)) \in Nat /\ Cardinality(Before(cal, day, x)) \in Nat
  <2>1. After(cal, day, x) \in SUBSET cal /\ Before(cal, day, x) \in SUBSET cal
    BY DEF After, Before
  <2> QED BY <2>1, FS_Subset, FS_CardinalityType
<1>3. x \in Int /\ \A c \in cal : c \in Int
  OBVIOUS
<1>4. BisectRight(cal, x) = BisectLeft(cal, x) + 1
  BY RightOfOwnDay
<1>5. ASSUME day < x
      PROVE  BisectLeft(cal, x) + 1 = BisectRight(cal, day) + Cardinality(After(cal, day, x))
  <2>0. ASSUME NEW c \in cal
        PROVE  /\ c <= x <=> c <= day \/ (day < c /\ c <= x)
               /\ ~(c <= day /\ day < c)
    BY <1>3, <1>5
  <2>1. R(x) = R(day) \cup After(cal, day, x) /\ R(day) \cap After(cal, day, x) = {}
    BY <2>0 DEF After
  <2>2. Cardinality(R(x)) = Cardinality(R(day)) + Cardinality(After(cal, day, x))
    <3> HIDE DEF R
    <3> QED BY <1>1, <1>2, <2>1, DisjointCount
  <2> QED BY <1>4, <2>2 DEF BisectRight
<1>6. ASSUME x < day
      PROVE  BisectLeft(cal, day) = BisectLeft(cal, x) + Cardinality(Before(cal, day, x))
  <2>0. ASSUME NEW c \in cal
        PROVE  /\ c < day <=> c < x \/ (x <= c /\ c < day)
               /\ ~(c < x /\ x <= c)
    BY <1>3, <1>6
  <2>1. L(day) = L(x) \cup Before(cal, day, x) /\ L(x) \cap Before(cal, day, x) = {}
    BY <2>0 DEF Before
  <2>2. Cardinality(L(day)) = Cardinality(L(x)) + Cardinality(Before(cal, day, x))
    <3> HIDE DEF L
    <3> QED BY <1>1, <1>2, <2>1, DisjointCount
  <2> QED BY <2>2 DEF BisectLeft
<1>7. ASSUME x <= day PROVE BisectLeft(cal, x) < BisectRight(cal, day)
  <2>0. \A c \in cal : c <= x => c <= day
    BY <1>3, <1>7
  <2>1. R(x) \in SUBSET R(day)
    BY <2>0
  <2>2. Cardinality(R(x)) <= Cardinality(R(day))
    <3> HIDE DEF R
    <3> QED BY <1>1, <2>1, FS_Subset
  <2> QED BY <1>1, <1>4, <2>2 DEF BisectRight
<1>8. ASSUME day <= x PROVE BisectLeft(cal, day) <= BisectLeft(cal, x)
  <2>0. \A c \in cal : c < day => c < x
    BY <1>3, <1>8
  <2>1. L(day) \in SUBSET L(x)
    BY <2>0
  <2>2. Cardinality(L(day)) <= Cardinality(L(x))
    <3> HIDE DEF L
    <3> QED BY <1>1, <2>1, FS_Subset
  <2> QED BY <2>2 DEF BisectLeft
<1> QED BY <1>2, <1>5, <1>6, <1>7, <1>8

\* add_trading_days counts sessions: its bisections return the day of the calendar that
\* is the n-th strictly after the timestamp's, or the n-th strictly before it.
THEOREM AddTradingDaysCounts ==
  ASSUME NEW cal, IsFiniteSet(cal), cal \subseteq Int, NEW ts, UtcDay(ts) \in Int,
         NEW n \in Nat \ {0}
  PROVE  /\ AddTradingDays(cal, ts, n) = NthAfter(cal, UtcDay(ts), n)
         /\ AddTradingDays(cal, ts, -n) = NthBefore(cal, UtcDay(ts), n)
<1> DEFINE day == UtcDay(ts)
<1>0. day \in Int /\ n \in Int /\ n > 0 /\ -n # 0 /\ ~(-n > 0)
  OBVIOUS
<1> HIDE DEF day
<1>1. /\ AddTradingDays(cal, ts, n) = DayAt(cal, BisectRight(cal, day) + n - 1)
      /\ AddTradingDays(cal, ts, -n) = DayAt(cal, BisectLeft(cal, day) + (-n))
  BY <1>0 DEF AddTradingDays, day
<1>2. BisectRight(cal, day) \in Nat /\ BisectLeft(cal, day) \in Nat
  BY BisectType
<1>3. ASSUME NEW x \in cal
      PROVE  BisectLeft(cal, x) = BisectRight(cal, day) + n - 1
               <=> day < x /\ Cardinality(After(cal, day, x)) = n
  <2>1. BisectLeft(cal, x) \in Nat /\ x \in Int
    BY BisectType
  <2>2. Cardinality(After(cal, day, x)) \in Nat
    BY <1>0, RankDifference
  <2>3. CASE day < x
    <3>1. BisectLeft(cal, x) + 1 = BisectRight(cal, day) + Cardinality(After(cal, day, x))
      BY <1>0, <2>3, RankDifference
    <3> QED BY <1>0, <1>2, <2>1, <2>2, <2>3, <3>1
  <2>4. CASE ~(day < x)
    <3>0. x <= day
      BY <1>0, <2>1, <2>4
    <3>1. BisectLeft(cal, x) < BisectRight(cal, day)
      BY <1>0, <3>0, RankDifference
    <3> QED BY <1>0, <1>2, <2>1, <2>4, <3>1
  <2> QED BY <2>3, <2>4
<1>4. ASSUME NEW x \in cal
      PROVE  BisectLeft(cal, x) = BisectLeft(cal, day) + (-n)
               <=> x < day /\ Cardinality(Before(cal, day, x)) = n
  <2>1. BisectLeft(cal, x) \in Nat /\ x \in Int
    BY BisectType
  <2>2. Cardinality(Before(cal, day, x)) \in Nat
    BY <1>0, RankDifference
  <2>3. CASE x < day
    <3>1. BisectLeft(cal, day) = BisectLeft(cal, x) + Cardinality(Before(cal, day, x))
      BY <1>0, <2>3, RankDifference
    <3> QED BY <1>0, <1>2, <2>1, <2>2, <2>3, <3>1
  <2>4. CASE ~(x < day)
    <3>0. day <= x
      BY <1>0, <2>1, <2>4
    <3>1. BisectLeft(cal, day) <= BisectLeft(cal, x)
      BY <1>0, <3>0, RankDifference
    <3> QED BY <1>0, <1>2, <2>1, <2>4, <3>1
  <2> QED BY <2>3, <2>4
<1>5. AddTradingDays(cal, ts, n) = NthAfter(cal, day, n)
  BY <1>1, <1>3 DEF DayAt, NthAfter
<1>6. AddTradingDays(cal, ts, -n) = NthBefore(cal, day, n)
  BY <1>1, <1>4 DEF DayAt, NthBefore
<1> QED BY <1>5, <1>6 DEF day

\* The rank of a day in the calendar is its index: every index below the length belongs to
\* exactly one day.
LEMMA EveryIndexHasOneDay ==
  ASSUME NEW cal, IsFiniteSet(cal), cal \subseteq Int, NEW index \in Int
  PROVE  /\ \A x, y \in DayAt(cal, index) : x = y
         /\ DayAt(cal, index) # {} <=> 0 <= index /\ index < Cardinality(cal)
<1> DEFINE N == Cardinality(cal)
           rank == [c \in cal |-> BisectLeft(cal, c)]
<1>1. N \in Nat /\ \A c \in cal : c \in Int /\ BisectLeft(cal, c) \in Nat
  BY BisectType, FS_CardinalityType
<1>2. ASSUME NEW x \in cal, NEW y \in cal, x < y
      PROVE  BisectLeft(cal, x) < BisectLeft(cal, y)
  <2>1. BisectLeft(cal, y) = BisectLeft(cal, x) + Cardinality(Before(cal, y, x))
    BY <1>1, <1>2, RankDifference
  <2>2. x \in Before(cal, y, x) /\ Before(cal, y, x) \in SUBSET cal
    BY <1>1, <1>2 DEF Before
  <2>3. Cardinality(Before(cal, y, x)) \in Nat /\ Cardinality(Before(cal, y, x)) # 0
    BY <2>2, FS_Subset, FS_EmptySet, FS_CardinalityType
  <2> QED BY <1>1, <2>1, <2>3
<1>3. ASSUME NEW x \in cal, NEW y \in cal, BisectLeft(cal, x) = BisectLeft(cal, y)
      PROVE  x = y
  <2>1. x \in Int /\ y \in Int
    BY <1>1
  <2> QED BY <1>1, <1>2, <1>3, <2>1
<1>4. ASSUME NEW c \in cal PROVE BisectLeft(cal, c) \in 0 .. N - 1
  <2>1. {e \in cal : e < c} \in SUBSET (cal \ {c})
    BY <1>1
  <2>2. IsFiniteSet(cal \ {c}) /\ Cardinality(cal \ {c}) = N - 1
    BY FS_RemoveElement
  <2>3. BisectLeft(cal, c) <= N - 1
    BY <2>1, <2>2, FS_Subset DEF BisectLeft
  <2> HIDE DEF N
  <2> QED BY <1>1, <2>3
<1>5. \A i \in 0 .. N - 1 : \E c \in cal : BisectLeft(cal, c) = i
  <2>1. rank \in Injection(cal, 0 .. N - 1)
    BY <1>3, <1>4 DEF Injection, IsInjective
  <2>2. IsFiniteSet(0 .. N - 1) /\ Cardinality(0 .. N - 1) = N
    <3> HIDE DEF N
    <3>1. 0 \in Int /\ N - 1 \in Int
      BY <1>1
    <3>2. /\ IsFiniteSet(0 .. N - 1)
          /\ Cardinality(0 .. N - 1) = IF 0 > N - 1 THEN 0 ELSE N - 1 - 0 + 1
      BY <3>1, FS_Interval
    <3> QED BY <1>1, <3>2
  <2>3. rank \in Surjection(cal, 0 .. N - 1)
    <3> HIDE DEF rank
    <3> QED BY <2>1, <2>2, FS_Injection
  <2> QED BY <2>3 DEF Surjection
<1>6. \A x, y \in DayAt(cal, index) : x = y
  BY <1>3 DEF DayAt
<1>7. ASSUME DayAt(cal, index) # {} PROVE 0 <= index /\ index < N
  <2>1. index \in 0 .. N - 1
    BY <1>4, <1>7 DEF DayAt
  <2> HIDE DEF N
  <2> QED BY <1>1, <2>1
<1>8. ASSUME 0 <= index, index < N PROVE DayAt(cal, index) # {}
  <2>1. index \in 0 .. N - 1
    <3> HIDE DEF N
    <3> QED BY <1>1, <1>8
  <2> QED BY <1>5, <2>1 DEF DayAt
<1> QED BY <1>6, <1>7, <1>8

\* A lookup has at most one answer, and it raises only if the calendar has fewer days on
\* that side of the timestamp than are asked for.
THEOREM LookupRaisesOnlyUncovered ==
  ASSUME NEW cal, IsFiniteSet(cal), cal \subseteq Int, NEW ts, UtcDay(ts) \in Int,
         NEW n \in Nat \ {0}
  PROVE  /\ \A x, y \in AddTradingDays(cal, ts, n) : x = y
         /\ \A x, y \in AddTradingDays(cal, ts, -n) : x = y
         /\ AddTradingDays(cal, ts, n) # {} <=> n <= Cardinality({c \in cal : UtcDay(ts) < c})
         /\ AddTradingDays(cal, ts, -n) # {} <=> n <= Cardinality({c \in cal : c < UtcDay(ts)})
<1> DEFINE day == UtcDay(ts)
           later == {c \in cal : day < c}
<1>0. day \in Int /\ n \in Int /\ n > 0 /\ -n # 0 /\ ~(-n > 0)
  OBVIOUS
<1> HIDE DEF day
<1>1. /\ AddTradingDays(cal, ts, n) = DayAt(cal, BisectRight(cal, day) + n - 1)
      /\ AddTradingDays(cal, ts, -n) = DayAt(cal, BisectLeft(cal, day) + (-n))
  BY <1>0 DEF AddTradingDays, day
<1>2. /\ BisectRight(cal, day) \in Nat /\ BisectLeft(cal, day) \in Nat
      /\ Cardinality(cal) \in Nat /\ IsFiniteSet(later) /\ Cardinality(later) \in Nat
  BY BisectType, FS_CardinalityType, FS_Subset
<1>3. Cardinality(cal) = BisectRight(cal, day) + Cardinality(later)
  <2> DEFINE R == {c \in cal : c <= day}
  <2>0. ASSUME NEW c \in cal PROVE c <= day <=> ~(day < c)
    <3>1. c \in Int
      OBVIOUS
    <3> QED BY <1>0, <3>1
  <2>1. cal = R \cup later /\ R \cap later = {} /\ IsFiniteSet(R)
    BY <2>0, BisectType
  <2> HIDE DEF R, later
  <2>2. Cardinality(cal) = Cardinality(R) + Cardinality(later)
    BY <1>2, <2>1, DisjointCount
  <2> QED BY <2>2 DEF R, BisectRight
<1>4. BisectLeft(cal, day) <= Cardinality(cal)
  <2>1. {c \in cal : c < day} \in SUBSET cal
    OBVIOUS
  <2> QED BY <2>1, FS_Subset DEF BisectLeft
<1> HIDE DEF later
<1>5. /\ \A x, y \in AddTradingDays(cal, ts, n) : x = y
      /\ AddTradingDays(cal, ts, n) # {} <=> n <= Cardinality(later)
  <2> DEFINE index == BisectRight(cal, day) + n - 1
  <2>1. index \in Int /\ 0 <= index /\ (index < Cardinality(cal) <=> n <= Cardinality(later))
    BY <1>0, <1>2, <1>3
  <2> HIDE DEF index
  <2>2. /\ \A x, y \in DayAt(cal, index) : x = y
        /\ DayAt(cal, index) # {} <=> 0 <= index /\ index < Cardinality(cal)
    BY <2>1, EveryIndexHasOneDay
  <2> QED BY <1>1, <2>1, <2>2 DEF index
<1>6. /\ \A x, y \in AddTradingDays(cal, ts, -n) : x = y
      /\ AddTradingDays(cal, ts, -n) # {} <=> n <= BisectLeft(cal, day)
  <2> DEFINE index == BisectLeft(cal, day) + (-n)
  <2>1. index \in Int /\ index < Cardinality(cal) /\ (0 <= index <=> n <= BisectLeft(cal, day))
    BY <1>0, <1>2, <1>4
  <2> HIDE DEF index
  <2>2. /\ \A x, y \in DayAt(cal, index) : x = y
        /\ DayAt(cal, index) # {} <=> 0 <= index /\ index < Cardinality(cal)
    BY <2>1, EveryIndexHasOneDay
  <2> QED BY <1>1, <2>1, <2>2 DEF index
<1> QED BY <1>5, <1>6 DEF day, later, BisectLeft

\* Forward and back again is the same session.
THEOREM AddTradingDaysReturns ==
  ASSUME NEW cal, IsFiniteSet(cal), cal \subseteq Int, NEW ts, NEW back,
         UtcDay(ts) \in cal, NEW n \in Nat \ {0}, UtcDay(back) \in AddTradingDays(cal, ts, n)
  PROVE  AddTradingDays(cal, back, -n) = {UtcDay(ts)}
<1> DEFINE day == UtcDay(ts)
           x == UtcDay(back)
<1>1. /\ day \in cal /\ day \in Int /\ x \in cal /\ x \in Int /\ day < x
      /\ Cardinality(After(cal, day, x)) = n
  <2>1. day \in Int /\ \A c \in cal : c \in Int
    OBVIOUS
  <2>2. AddTradingDays(cal, ts, n) = NthAfter(cal, day, n)
    BY <2>1, AddTradingDaysCounts
  <2> QED BY <2>1, <2>2 DEF NthAfter
<1> HIDE DEF day, x
<1>2. Cardinality(Before(cal, x, day)) = n
  <2>1. /\ BisectLeft(cal, x) = BisectLeft(cal, day) + Cardinality(Before(cal, x, day))
        /\ Cardinality(Before(cal, x, day)) \in Nat
    BY <1>1, RankDifference
  <2>2. BisectLeft(cal, x) + 1 = BisectRight(cal, day) + n
    BY <1>1, RankDifference
  <2>3. BisectLeft(cal, day) \in Nat /\ BisectLeft(cal, x) \in Nat /\ BisectRight(cal, day) \in Nat
    BY BisectType
  <2>4. BisectRight(cal, day) = BisectLeft(cal, day) + 1
    BY <1>1, RightOfOwnDay
  <2> QED BY <2>1, <2>2, <2>3, <2>4
<1>3. day \in AddTradingDays(cal, back, -n)
  <2>1. UtcDay(back) \in Int
    BY <1>1 DEF x
  <2>2. AddTradingDays(cal, back, -n) = NthBefore(cal, x, n)
    BY <2>1, AddTradingDaysCounts DEF x
  <2> QED BY <1>1, <1>2, <2>2 DEF NthBefore
<1>4. \A y, z \in AddTradingDays(cal, back, -n) : y = z
  BY <1>1, LookupRaisesOnlyUncovered DEF x
<1> QED BY <1>3, <1>4 DEF day

\* next_trading_day returns a day of the calendar after the timestamp's, and the calendar
\* has none in between.
THEOREM NextTradingDayIsNext ==
  ASSUME NEW cal, IsFiniteSet(cal), cal \subseteq Int, NEW ts, UtcDay(ts) \in Int,
         NEW x \in NextTradingDay(cal, ts)
  PROVE  x \in cal /\ x > UtcDay(ts) /\ \A c \in cal : c > UtcDay(ts) => x <= c
<1> DEFINE day == UtcDay(ts)
<1>1. x \in cal /\ day < x /\ Cardinality(After(cal, day, x)) = 1
  <2>1. 1 \in Nat \ {0}
    OBVIOUS
  <2>2. AddTradingDays(cal, ts, 1) = NthAfter(cal, day, 1)
    BY <2>1, AddTradingDaysCounts
  <2> QED BY <2>2 DEF NextTradingDay, NthAfter
<1>2. x \in Int /\ day \in Int /\ \A c \in cal : c \in Int
  BY <1>1
<1> HIDE DEF day
<1>3. \A c \in After(cal, day, x) : c = x
  <2>1. IsFiniteSet(After(cal, day, x)) /\ x \in After(cal, day, x)
    BY <1>1, <1>2, FS_Subset DEF After
  <2> QED BY <1>1, <2>1, FS_Singleton
<1>4. ASSUME NEW c \in cal, c > day PROVE x <= c
  BY <1>2, <1>3, <1>4 DEF After
<1> QED BY <1>1, <1>2, <1>4 DEF day

\* previous_trading_day returns a day of the calendar before the timestamp's, and the
\* calendar has none in between.
THEOREM PreviousTradingDayIsPrevious ==
  ASSUME NEW cal, IsFiniteSet(cal), cal \subseteq Int, NEW ts, UtcDay(ts) \in Int,
         NEW x \in PreviousTradingDay(cal, ts)
  PROVE  x \in cal /\ x < UtcDay(ts) /\ \A c \in cal : c < UtcDay(ts) => c <= x
<1> DEFINE day == UtcDay(ts)
<1>1. x \in cal /\ x < day /\ Cardinality(Before(cal, day, x)) = 1
  <2>1. 1 \in Nat \ {0}
    OBVIOUS
  <2>2. AddTradingDays(cal, ts, -1) = NthBefore(cal, day, 1)
    BY <2>1, AddTradingDaysCounts
  <2> QED BY <2>2 DEF PreviousTradingDay, NthBefore
<1>2. x \in Int /\ day \in Int /\ \A c \in cal : c \in Int
  BY <1>1
<1> HIDE DEF day
<1>3. \A c \in Before(cal, day, x) : c = x
  <2>1. IsFiniteSet(Before(cal, day, x)) /\ x \in Before(cal, day, x)
    BY <1>1, <1>2, FS_Subset DEF Before
  <2> QED BY <1>1, <2>1, FS_Singleton
<1>4. ASSUME NEW c \in cal, c < day PROVE c <= x
  BY <1>2, <1>3, <1>4 DEF Before
<1> QED BY <1>1, <1>4 DEF day

-----------------------------------------------------------------------------
(* The fetch. *)

FetchInv ==
    /\ Fetch!TypeOK
    /\ OffsetCountsBars
    /\ IF honest THEN asked \subseteq server /\ parsed \subseteq server ELSE asked = {}
    /\ CompleteIfHonest

\* What an answer may hold besides the bars.
AnyCursor == [index : Nat, total : Nat, page_size : Nat]

\* Counting is the same in the fetch.
LEMMA SameCounting ==
  ASSUME NEW S
  PROVE  /\ Fetch!IsFiniteSet(S) <=> IsFiniteSet(S)
         /\ Fetch!Cardinality(S) = Cardinality(S)
<1>1. Fetch!IsFiniteSet(S) <=> IsFiniteSet(S)
  BY DEF Fetch!IsFiniteSet, IsFiniteSet
<1>2. Fetch!Cardinality(S) = Cardinality(S)
  BY DEF Fetch!Cardinality, Cardinality, Fetch!IsFiniteSet, IsFiniteSet
<1> QED BY <1>1, <1>2

\* Sets of sessions are finite, and counting them is monotone.
LEMMA SessionsFinite ==
  ASSUME NEW S \in SUBSET Session
  PROVE  IsFiniteSet(S) /\ Cardinality(S) \in 0..Cardinality(Session)
<1>1. IsFiniteSet(Session)
  BY CycleAssumption, SameCounting DEF Fetch!FetchAssumption
<1>2. IsFiniteSet(S) /\ Cardinality(S) <= Cardinality(Session)
  BY <1>1, FS_Subset
<1>3. Cardinality(S) \in Nat /\ Cardinality(Session) \in Nat
  BY <1>1, <1>2, FS_CardinalityType
<1> QED BY <1>2, <1>3

\* An iteration that goes on has added a full page of new bars, so that the offset still
\* counts them.
LEMMA ReadCounts ==
  ASSUME FetchInv, NEW page \in SUBSET Session, NEW cursor \in AnyCursor \cup {NULL},
         Fetch!Read(page, cursor)
  PROVE  /\ start' \in 0..Cardinality(Session)
         /\ parsed' \in SUBSET Session
         /\ state' \in {"asking", "returned", "raised"}
         /\ owed' \in BOOLEAN
         /\ OffsetCountsBars'
<1>1. /\ parsed \in SUBSET Session /\ start \in 0..Cardinality(Session)
      /\ owed \in BOOLEAN /\ state = "awaiting" /\ start = Cardinality(parsed)
  BY SameCounting DEF FetchInv, Fetch!TypeOK, Fetch!Read, OffsetCountsBars, Fetch!OffsetCountsBars,
         Fetch!Fetching
<1>2. owed' \in BOOLEAN
  BY <1>1 DEF Fetch!Read, Fetch!Finished
<1>3. CASE Fetch!Refused(page, cursor)
  <2>1. state' = "raised" /\ start' = start /\ parsed' = parsed
    BY <1>3 DEF Fetch!Read
  <2> QED BY <1>1, <1>2, <2>1 DEF OffsetCountsBars, Fetch!OffsetCountsBars, Fetch!Fetching
<1>4. CASE ~Fetch!Refused(page, cursor) /\ Fetch!Returns(page, cursor)
  <2>1. state' = "returned" /\ start' = start /\ parsed' = parsed \cup page
    BY <1>4 DEF Fetch!Read
  <2> QED BY <1>1, <1>2, <2>1 DEF OffsetCountsBars, Fetch!OffsetCountsBars, Fetch!Fetching
<1>5. CASE ~Fetch!Refused(page, cursor) /\ ~Fetch!Returns(page, cursor)
  <2>1. state' = "asking" /\ start' = Fetch!NextStart(cursor) /\ parsed' = parsed \cup page
    BY <1>5 DEF Fetch!Read
  <2>2. /\ cursor \in AnyCursor /\ page \cap parsed = {}
        /\ cursor.index = start /\ Cardinality(page) = cursor.page_size
    BY <1>5, SameCounting DEF Fetch!Refused, Fetch!Returns, Fetch!Repeats, Fetch!Malformed
  <2>3. start' = start + Cardinality(page)
    BY <2>1, <2>2 DEF Fetch!NextStart
  <2>4. Cardinality(parsed \cup page) = Cardinality(parsed) + Cardinality(page)
    <3>1. /\ IsFiniteSet(parsed) /\ IsFiniteSet(page)
          /\ Cardinality(parsed) \in Nat /\ Cardinality(page) \in Nat
      BY <1>1, SessionsFinite, FS_CardinalityType
    <3>2. Cardinality(parsed \cap page) = 0
      <4>1. parsed \cap page = {}
        BY <2>2
      <4> QED BY <4>1, FS_EmptySet
    <3>3. Cardinality(parsed \cup page)
            = Cardinality(parsed) + Cardinality(page) - Cardinality(parsed \cap page)
      BY <3>1, FS_Union
    <3> QED BY <3>1, <3>2, <3>3
  <2>5. parsed \cup page \in SUBSET Session
    BY <1>1
  <2>6. Cardinality(parsed \cup page) \in 0..Cardinality(Session)
    BY <2>5, SessionsFinite
  <2> QED
    BY <1>1, <1>2, <2>1, <2>3, <2>4, <2>5, <2>6, SameCounting
       DEF OffsetCountsBars, Fetch!OffsetCountsBars, Fetch!Fetching
<1> QED BY <1>3, <1>4, <1>5

\* A true answer preserves the invariant: a fetch ends on one only when it collected as
\* many bars as ISS holds, all of which ISS holds.
LEMMA ReadTrueInv ==
  ASSUME FetchInv, Fetch!ReadTrue
  PROVE  FetchInv'
<1> PICK p \in 1..MaxPage : Fetch!Read(Fetch!TruePage(p), Fetch!TrueCursor(p))
  BY DEF Fetch!ReadTrue
<1> DEFINE page == Fetch!TruePage(p)
           cursor == Fetch!TrueCursor(p)
<1>1. UNCHANGED <<server, asked, honest>> /\ server \in SUBSET Session
  BY DEF Fetch!ReadTrue, FetchInv, Fetch!TypeOK
<1>2. page \in SUBSET server
  BY DEF Fetch!TruePage
<1>3. cursor \in AnyCursor /\ cursor.total = Cardinality(server)
  <2>1. MaxPage \in Nat
    BY CycleAssumption DEF Fetch!FetchAssumption
  <2>2. start \in Nat
    BY SessionsFinite, SameCounting DEF FetchInv, Fetch!TypeOK
  <2>3. Cardinality(server) \in Nat
    BY <1>1, SessionsFinite
  <2> QED BY <2>1, <2>2, <2>3, SameCounting DEF Fetch!TrueCursor, AnyCursor
<1>4. cursor # NULL
  BY <1>3, CycleAssumption DEF Fetch!FetchAssumption, AnyCursor
<1>5. page \in SUBSET Session
  BY <1>1, <1>2
<1> HIDE DEF page, cursor
<1>6. Fetch!Read(page, cursor)
  BY DEF page, cursor
<1>7. Fetch!TypeOK' /\ OffsetCountsBars'
  <2>1. /\ start' \in 0..Cardinality(Session) /\ parsed' \in SUBSET Session
        /\ state' \in {"asking", "returned", "raised"} /\ owed' \in BOOLEAN
        /\ OffsetCountsBars'
    BY <1>3, <1>5, <1>6, ReadCounts
  <2> QED BY <1>1, <2>1, SameCounting DEF FetchInv, Fetch!TypeOK
<1>8. parsed' = parsed \/ parsed' = parsed \cup page
  BY <1>6 DEF Fetch!Read
<1>9. honest => parsed' \subseteq server
  BY <1>2, <1>8 DEF FetchInv
<1>10. ASSUME honest, state' = "returned" PROVE asked \subseteq parsed'
  <2>1. parsed' = parsed \cup page /\ Fetch!Finished(page, cursor)
    BY <1>4, <1>6, <1>10 DEF Fetch!Read, Fetch!Returns
  <2>2. Cardinality(parsed') >= Cardinality(server)
    BY <1>3, <2>1, SameCounting DEF Fetch!Finished
  <2>3. parsed' \in SUBSET server
    BY <1>9, <1>10
  <2>4. /\ IsFiniteSet(server) /\ Cardinality(server) \in Nat
        /\ Cardinality(parsed') \in Nat
    <3>1. parsed' \in SUBSET Session
      BY <1>1, <2>3
    <3> QED BY <1>1, <3>1, SessionsFinite
  <2>5. parsed' = server
    BY <2>2, <2>3, <2>4, FS_Subset
  <2> QED BY <1>10, <2>5 DEF FetchInv
<1> QED
  BY <1>1, <1>7, <1>9, <1>10
     DEF FetchInv, CompleteIfHonest, Fetch!CompleteIfHonest

\* Any other answer preserves it: nothing is claimed of a dishonest fetch but its offset.
LEMMA ReadWrongInv ==
  ASSUME FetchInv, Fetch!ReadWrong
  PROVE  FetchInv'
<1> PICK page \in SUBSET Session, cursor \in Fetch!Cursor \cup {NULL} : Fetch!Read(page, cursor)
  BY DEF Fetch!ReadWrong
<1>1. cursor \in AnyCursor \cup {NULL}
  <2>1. start \in Nat
    BY SessionsFinite, SameCounting DEF FetchInv, Fetch!TypeOK
  <2>2. MaxPage \in Nat
    BY CycleAssumption DEF Fetch!FetchAssumption
  <2> QED BY <2>1, <2>2, SessionsFinite, SameCounting DEF Fetch!Cursor, AnyCursor
<1>2. /\ start' \in 0..Cardinality(Session) /\ parsed' \in SUBSET Session
      /\ state' \in {"asking", "returned", "raised"} /\ owed' \in BOOLEAN
      /\ OffsetCountsBars'
  BY <1>1, ReadCounts
<1>3. honest' = FALSE /\ asked' = {} /\ server' = server
  BY DEF Fetch!ReadWrong
<1> QED
  BY <1>2, <1>3, SameCounting DEF FetchInv, Fetch!TypeOK, CompleteIfHonest, Fetch!CompleteIfHonest

\* So do the request, an exception and what ISS does between the pages.
LEMMA QuietFetchInv ==
  ASSUME FetchInv,
         \/ Fetch!Request \/ Fetch!ReadRaises
         \/ \E b \in Session : Fetch!Publish(b) \/ Fetch!Withdraw(b)
  PROVE  FetchInv'
<1> USE DEF FetchInv, Fetch!TypeOK, OffsetCountsBars, Fetch!OffsetCountsBars, Fetch!Fetching,
            CompleteIfHonest, Fetch!CompleteIfHonest, Fetch!fetchVars
<1>1. CASE Fetch!Request
  BY <1>1 DEF Fetch!Request
<1>2. CASE Fetch!ReadRaises
  BY <1>2 DEF Fetch!ReadRaises
<1>3. ASSUME NEW b \in Session, Fetch!Publish(b) PROVE FetchInv'
  BY <1>3 DEF Fetch!Publish
<1>4. ASSUME NEW b \in Session, Fetch!Withdraw(b) PROVE FetchInv'
  BY <1>4 DEF Fetch!Withdraw
<1> QED BY <1>1, <1>2, <1>3, <1>4

-----------------------------------------------------------------------------
(* The load and its uses. *)

CycleInv ==
    /\ TypeOK
    /\ FetchInv
    /\ server \subseteq Window /\ asked \subseteq Window
    /\ loading => calendar = NULL /\ held = {} /\ dividends = {}
    /\ \/ calendar = NULL /\ held = {}
       \/ calendar \subseteq Session /\ held \subseteq calendar
    /\ ExDateWhenCovered

\* The day of a timestamp is an integer.
LEMMA UtcDayType ==
  ASSUME NEW ts \in Int
  PROVE  UtcDay(ts) \in Int
<1> QED BY DEF UtcDay, DayMinutes

\* The dividend table looks days up in the calendar as DailyCycle does.
LEMMA SameLookup ==
  ASSUME NEW cal, NEW ts
  PROVE  Table!NextTradingDay(cal, ts) = NextTradingDay(cal, ts)
<1>1. ASSUME NEW S PROVE Table!Cardinality(S) = Cardinality(S)
  BY DEF Table!Cardinality, Cardinality, Table!IsFiniteSet, IsFiniteSet
<1> QED
  BY <1>1 DEF Table!NextTradingDay, NextTradingDay, Table!AddTradingDays, AddTradingDays,
              Table!DayAt, DayAt, Table!BisectLeft, BisectLeft,
              Table!BisectRight, BisectRight, Table!UtcDay, UtcDay,
              Table!DayMinutes, DayMinutes

\* A row takes its ex_date from the feed or is dated with the first later day of the
\* calendar, which is the next session if the calendar holds that one.
LEMMA DatedRow ==
  ASSUME NEW d \in Table!Snapshot, calendar \subseteq Session \/ calendar = NULL,
         held \subseteq calendar \/ held = {},
         NEW ex_date \in Table!ExDate(d, calendar)
  PROVE  /\ [d EXCEPT !.ex_date = ex_date] \in Table!Dividend(Supplied \cup Session)
         /\ d.derived /\ NextSession(d.last_buy_date) \cap held # {}
              => ex_date \in NextSession(d.last_buy_date)
<1>1. /\ d \in Table!Dividend(Supplied \cup {NULL})
      /\ d.derived = (d.ex_date = NULL)
  BY DEF Table!Snapshot
<1>2. d.derived \in BOOLEAN /\ d.ex_date \in Supplied \cup {NULL} /\ d.last_buy_date \in LastBuy
  BY <1>1 DEF Table!Dividend
<1>3. CASE ~d.derived
  <2>1. ex_date \in Supplied
    BY <1>1, <1>2, <1>3 DEF Table!ExDate
  <2> QED BY <1>1, <1>3, <2>1 DEF Table!Dividend
<1>4. CASE d.derived
  <2>1. calendar \subseteq Session /\ ex_date \in NextTradingDay(calendar, d.last_buy_date)
    BY <1>4, SameLookup DEF Table!ExDate
  <2>2. IsFiniteSet(calendar) /\ calendar \subseteq Int
    BY <2>1, SessionsFinite, CycleAssumption
  <2>3. UtcDay(d.last_buy_date) \in Int
    BY <1>2, UtcDayType, CycleAssumption
  <2>4. /\ ex_date \in calendar /\ ex_date > UtcDay(d.last_buy_date)
        /\ \A c \in calendar : c > UtcDay(d.last_buy_date) => ex_date <= c
    BY <2>1, <2>2, <2>3, NextTradingDayIsNext
  <2>5. [d EXCEPT !.ex_date = ex_date] \in Table!Dividend(Supplied \cup Session)
    BY <1>1, <2>1, <2>4 DEF Table!Dividend
  <2>6. ASSUME NEW x \in NextSession(d.last_buy_date), x \in held
        PROVE  ex_date \in NextSession(d.last_buy_date)
    <3>1. /\ x \in Session /\ x > UtcDay(d.last_buy_date)
          /\ \A c \in Session : c > UtcDay(d.last_buy_date) => x <= c
      BY <2>6 DEF NextSession
    <3>2. x \in calendar
      BY <2>6
    <3>3. ex_date <= x /\ x <= ex_date
      BY <2>1, <2>4, <3>1, <3>2
    <3>4. ex_date \in Int /\ x \in Int
      BY <2>2, <2>4, <3>2
    <3>5. ex_date = x
      BY <3>3, <3>4
    <3> QED BY <2>6, <3>5
  <2> QED BY <2>5, <2>6
<1> QED BY <1>2, <1>3, <1>4

\* A load begins with nothing collected, no calendar and no dividend.
LEMMA CycleInvInit == Init => CycleInv
<1> SUFFICES ASSUME Init PROVE CycleInv
  OBVIOUS
<1>1. server \subseteq Window /\ asked = server /\ server \in SUBSET Session
  BY DEF Init, Fetch!Init
<1>2. Cardinality({}) = 0 /\ Cardinality(Session) \in Nat
  BY FS_EmptySet, SessionsFinite
<1>3. FetchInv
  <2>1. Fetch!TypeOK
    <3>1. start \in 0..Fetch!Cardinality(Session)
      BY <1>2, SameCounting DEF Init, Fetch!Init
    <3> QED BY <1>1, <3>1 DEF Init, Fetch!Init, Fetch!TypeOK
  <2>2. OffsetCountsBars
    BY <1>2, SameCounting DEF Init, Fetch!Init, OffsetCountsBars, Fetch!OffsetCountsBars
  <2>3. CompleteIfHonest
    BY DEF Init, Fetch!Init, CompleteIfHonest, Fetch!CompleteIfHonest
  <2> QED BY <1>1, <2>1, <2>2, <2>3 DEF Init, Fetch!Init, FetchInv
<1>4. TypeOK
  BY <1>3 DEF Init, TypeOK, FetchInv
<1> QED BY <1>1, <1>3, <1>4 DEF Init, CycleInv, ExDateWhenCovered

\* What the fetch and ISS do touches neither the load's result nor its window.
LEMMA FetchStepInv ==
  ASSUME CycleInv,
         \/ Request \/ Answer
         \/ \E b \in Session : Publish(b) \/ Withdraw(b)
  PROVE  CycleInv'
<1>1. UNCHANGED <<today, window, cycleVars>>
  BY DEF Request, Answer, Publish, Withdraw
<1>2. FetchInv'
  BY ReadTrueInv, ReadWrongInv, QuietFetchInv
     DEF Request, Answer, Publish, Withdraw, Fetch!Answer, CycleInv
<1>3. server' \subseteq Window /\ asked' \subseteq Window
  BY DEF CycleInv, Request, Answer, Publish, Withdraw, Fetch!Answer, Fetch!Request,
         Fetch!ReadTrue, Fetch!ReadWrong, Fetch!ReadRaises, Fetch!Publish, Fetch!Withdraw
<1>4. Window' = Window
  BY <1>1 DEF Window, window
<1>5. TypeOK'
  BY <1>1, <1>2, <1>4 DEF CycleInv, TypeOK, FetchInv, window, cycleVars
<1>6. ExDateWhenCovered'
  BY <1>1 DEF CycleInv, ExDateWhenCovered, NextSession, cycleVars
<1> QED BY <1>1, <1>2, <1>3, <1>4, <1>5, <1>6 DEF CycleInv, cycleVars

\* The end of the load hands over a calendar that holds what ISS held when it began.
LEMMA EndLoadInv ==
  ASSUME CycleInv, EndLoad
  PROVE  CycleInv'
<1>1. /\ server' = {} /\ asked' = {} /\ parsed' = {} /\ start' = 0 /\ owed' = FALSE
      /\ UNCHANGED <<state, honest, today, from, till, dividends>>
      /\ loading /\ loading' = FALSE /\ ~Fetch!Fetching
  BY DEF EndLoad, window
<1>2. Window' = Window
  BY <1>1 DEF Window
<1>3. FetchInv'
  <2>1. Cardinality(Session) \in Nat
    BY SessionsFinite
  <2>2. Fetch!TypeOK'
    <3>1. start' \in 0..Fetch!Cardinality(Session)
      BY <1>1, <2>1, SameCounting
    <3> QED BY <1>1, <3>1 DEF CycleInv, FetchInv, Fetch!TypeOK
  <2>3. OffsetCountsBars'
    BY <1>1 DEF OffsetCountsBars, Fetch!OffsetCountsBars, Fetch!Fetching
  <2>4. CompleteIfHonest'
    BY <1>1 DEF CompleteIfHonest, Fetch!CompleteIfHonest
  <2> QED BY <1>1, <2>2, <2>3, <2>4 DEF CycleInv, FetchInv
<1>4. /\ held' \subseteq Window
      /\ \/ calendar' = NULL /\ held' = {}
         \/ calendar' \subseteq Session /\ held' \subseteq calendar'
  <2>1. CASE state = "returned" /\ parsed # {}
    <3>1. calendar' = parsed /\ held' = asked
      BY <2>1 DEF EndLoad
    <3>2. parsed \subseteq Session /\ asked \subseteq parsed /\ asked \subseteq Window
      BY <2>1
         DEF CycleInv, FetchInv, Fetch!TypeOK, CompleteIfHonest, Fetch!CompleteIfHonest
    <3> QED BY <3>1, <3>2
  <2>2. CASE ~(state = "returned" /\ parsed # {})
    BY <1>1, <2>2 DEF EndLoad, CycleInv
  <2> QED BY <2>1, <2>2
<1>5. dividends' = {}
  BY <1>1 DEF CycleInv
<1>6. TypeOK'
  BY <1>1, <1>2, <1>3, <1>4, <1>5 DEF CycleInv, TypeOK, FetchInv
<1> QED BY <1>1, <1>3, <1>4, <1>5, <1>6 DEF CycleInv, ExDateWhenCovered

\* A snapshot dated by the calendar of the load keeps the invariant.
LEMMA StoreDividendInv ==
  ASSUME CycleInv, StoreDividend
  PROVE  CycleInv'
<1> PICK d \in Table!Snapshot : Table!StoreDividendSnapshot(d, calendar)
  BY DEF StoreDividend
<1> PICK ex_date \in Table!ExDate(d, calendar) :
      dividends' = dividends \cup {[d EXCEPT !.ex_date = ex_date]}
  BY DEF Table!StoreDividendSnapshot
<1> DEFINE row == [d EXCEPT !.ex_date = ex_date]
<1>1. UNCHANGED <<fetchVars, today, window, loading, calendar, held>> /\ ~loading
  BY DEF StoreDividend
<1>2. /\ row \in Table!Dividend(Supplied \cup Session)
      /\ d.derived /\ NextSession(d.last_buy_date) \cap held # {}
           => ex_date \in NextSession(d.last_buy_date)
  BY DatedRow DEF CycleInv
<1>3. row.derived = d.derived /\ row.last_buy_date = d.last_buy_date /\ row.ex_date = ex_date
  BY DEF Table!Snapshot, Table!Dividend
<1>4. Window' = Window /\ FetchInv'
  BY <1>1 DEF Window, window, fetchVars, CycleInv, FetchInv, Fetch!TypeOK, OffsetCountsBars,
              Fetch!OffsetCountsBars, CompleteIfHonest, Fetch!CompleteIfHonest,
              Fetch!Fetching
<1>5. TypeOK'
  BY <1>1, <1>2, <1>4 DEF TypeOK, CycleInv, FetchInv, fetchVars, window
<1>6. ExDateWhenCovered'
  BY <1>1, <1>2, <1>3 DEF ExDateWhenCovered, NextSession, CycleInv
<1> QED BY <1>1, <1>4, <1>5, <1>6 DEF CycleInv, fetchVars

\* The invariant is inductive.
LEMMA CycleInvNext == CycleInv /\ [Next]_vars => CycleInv'
<1> SUFFICES ASSUME CycleInv, [Next]_vars PROVE CycleInv'
  OBVIOUS
<1> USE DEF fetchVars, window, cycleVars
<1>1. CASE UNCHANGED vars \/ NextDay
  <2>1. UNCHANGED <<fetchVars, window, cycleVars>> /\ today' \in Day
    BY <1>1, CycleAssumption DEF vars, NextDay, CycleInv, TypeOK
  <2>2. Window' = Window /\ FetchInv'
    BY <2>1 DEF Window, CycleInv, FetchInv, Fetch!TypeOK, OffsetCountsBars,
                Fetch!OffsetCountsBars, CompleteIfHonest, Fetch!CompleteIfHonest,
                Fetch!Fetching
  <2>3. TypeOK' /\ ExDateWhenCovered'
    BY <2>1, <2>2 DEF CycleInv, TypeOK, FetchInv, ExDateWhenCovered, NextSession
  <2> QED BY <2>1, <2>2, <2>3 DEF CycleInv
<1>2. CASE EndLoad
  BY <1>2, EndLoadInv
<1>3. CASE StoreDividend
  BY <1>3, StoreDividendInv
<1>4. CASE Request \/ Answer \/ \E b \in Session : Publish(b) \/ Withdraw(b)
  BY <1>4, FetchStepInv
<1> QED BY <1>1, <1>2, <1>3, <1>4 DEF Next

\* The invariant holds in every reachable state.
LEMMA CycleInvAlways == Spec => []CycleInv
<1> QED BY CycleInvInit, CycleInvNext, PTL DEF Spec

\* Every reachable state is well typed.
THEOREM CycleTypeCorrect == Spec => []TypeOK
<1>1. CycleInv => TypeOK
  BY DEF CycleInv
<1> QED BY <1>1, CycleInvAlways, PTL

\* A fetch that ISS answered truly misses none of the bars ISS held when it began.
THEOREM FetchAlwaysCompleteIfHonest == Spec => []CompleteIfHonest
<1>1. CycleInv => CompleteIfHonest
  BY DEF CycleInv, FetchInv
<1> QED BY <1>1, CycleInvAlways, PTL

\* The offset of the fetch is the number of bars it collected, whatever ISS answers.
THEOREM OffsetAlwaysCountsBars == Spec => []OffsetCountsBars
<1>1. CycleInv => OffsetCountsBars
  BY DEF CycleInv, FetchInv
<1> QED BY <1>1, CycleInvAlways, PTL

\* A derived ex_date is the next session whenever the calendar's load could know it.
THEOREM ExDateAlwaysRightWhenCovered == Spec => []ExDateWhenCovered
<1>1. CycleInv => ExDateWhenCovered
  BY DEF CycleInv
<1> QED BY <1>1, CycleInvAlways, PTL

-----------------------------------------------------------------------------
(* The decisions. *)

\* The local date and minute of a Moscow instant in a timezone that is not ahead of it:
\* an earlier date, or the same date at no later a minute.
LEMMA LocalTime ==
  ASSUME NEW day \in Int, NEW m \in 0 .. DayMinutes - 1, NEW tz \in Int, tz <= Moscow
  PROVE  /\ LocalDay(Instant(day, m), tz) \in Int
         /\ LocalMinute(Instant(day, m), tz) \in 0 .. DayMinutes - 1
         /\ LocalDay(Instant(day, m), tz) <= day
         /\ LocalDay(Instant(day, m), tz) = day => LocalMinute(Instant(day, m), tz) <= m
         /\ tz = Moscow => /\ LocalDay(Instant(day, m), tz) = day
                           /\ LocalMinute(Instant(day, m), tz) = m
<1> DEFINE t == Instant(day, m) + tz
<1>1. t \in Int /\ t = 1440 * day + m + (tz - 180) /\ m \in 0..1439
  BY DEF Instant, DayMinutes, Moscow
<1>2. LocalDay(Instant(day, m), tz) = t \div 1440 /\ LocalMinute(Instant(day, m), tz) = t % 1440
  BY DEF LocalDay, LocalMinute, DayMinutes
<1> HIDE DEF t
<1>3. PICK q \in Int, r \in 0..1439 : t = 1440 * q + r
  <2>1. /\ t \div 1440 \in Int
        /\ 1440 * (t \div 1440) <= t /\ t < 1440 * (t \div 1440) + 1440
    BY <1>1
  <2>2. t - 1440 * (t \div 1440) \in 0..1439
    BY <1>1, <2>1
  <2> QED BY <1>1, <2>1, <2>2
<1>4. t \div 1440 = q /\ t % 1440 = r
  BY <1>1, <1>3
<1>5. \E z \in Int : z = tz - 180 /\ z <= 0 /\ (tz = Moscow => z = 0)
  BY DEF Moscow
<1>6. q <= day /\ (q = day => r <= m) /\ (tz = Moscow => q = day /\ r = m)
  BY <1>1, <1>3, <1>5
<1> QED BY <1>2, <1>4, <1>6 DEF DayMinutes

\* A minute of the day is an integer.
LEMMA MinuteType ==
  ASSUME NEW m \in 0 .. DayMinutes - 1
  PROVE  m \in Int
<1> QED BY DEF DayMinutes

\* The parts of a schedule are those of the settings.
LEMMA ScheduleType ==
  ASSUME NEW s \in Schedule
  PROVE  /\ s.close_definition \in CloseDefinition
         /\ s.daily_run_time \in Int /\ s.timezone \in Int
<1>1. /\ s.close_definition \in CloseDefinition /\ s.daily_run_time \in RunTime
      /\ s.timezone \in Timezone
  BY DEF Schedule
<1>2. RunTime \subseteq 0 .. DayMinutes - 1 /\ Timezone \subseteq Int
  BY CycleAssumption
<1>3. s.daily_run_time \in 0 .. DayMinutes - 1
  BY <1>1, <1>2
<1> QED BY <1>1, <1>2, <1>3, MinuteType

\* The auction never ends after 19:00, nor do two shift dates move its end by more.
LEMMA AuctionCloseBound ==
  ASSUME NEW day, NEW shift
  PROVE  AuctionClose(day, shift) \in {1130, 1140}
<1> QED BY DEF AuctionClose, Clock

\* From its run time on, a schedule the startup accepts is past the threshold and past the
\* real end of the auction, whatever its shift date.
LEMMA AcceptedSchedule ==
  ASSUME NEW s \in Schedule, ScheduleAccepted(s), NEW minute \in Int,
         minute >= s.daily_run_time, NEW day
  PROVE  /\ minute >= FinalCloseThreshold(day, s)
         /\ minute >= FinalClose(day, s.close_definition)
<1>1. s.daily_run_time \in Int /\ s.close_definition \in CloseDefinition
  BY ScheduleType
<1>2. CASE s.close_definition = "auction_close"
  <2>1. minute >= 1140
    BY <1>1, <1>2 DEF ScheduleAccepted, Clock
  <2> QED BY <1>2, <2>1, AuctionCloseBound DEF FinalCloseThreshold, FinalClose
<1>3. CASE s.close_definition = "d1_candle_after_evening"
  <2>1. minute >= 1435
    BY <1>1, <1>3 DEF ScheduleAccepted, Clock
  <2> QED BY <1>3, <2>1 DEF FinalCloseThreshold, FinalClose, Clock
<1> QED BY <1>1, <1>2, <1>3 DEF CloseDefinition

\* A decision to run falls on a session whose close is final, from its run time on of any
\* schedule the startup accepts, and at any time of one whose shift date is right.
THEOREM RunAlwaysOnClosedSession == Spec => []RunOnlyOnClosedSession
<1>1. CycleInv => RunOnlyOnClosedSession
  <2> SUFFICES ASSUME CycleInv, calendar # NULL,
                      NEW s \in Schedule, NEW m \in Minute, NEW absence \in SameDayAbsencePolicy,
                      Decision(Instant(today, m), s, absence) = "trading_day",
                      s.timezone <= Moscow,
                      \/ s.moex_auction_shift_date = ShiftDay
                      \/ /\ ScheduleAccepted(s)
                         /\ LocalMinute(Instant(today, m), s.timezone) >= s.daily_run_time
               PROVE  /\ LocalDay(Instant(today, m), s.timezone) \in Session
                      /\ \/ LocalDay(Instant(today, m), s.timezone) < today
                         \/ m >= FinalClose(LocalDay(Instant(today, m), s.timezone),
                                            s.close_definition)
    BY DEF RunOnlyOnClosedSession
  <2> DEFINE day == LocalDay(Instant(today, m), s.timezone)
             minute == LocalMinute(Instant(today, m), s.timezone)
  <2>1. /\ today \in Int /\ s.timezone \in Int /\ m \in 0 .. DayMinutes - 1
        /\ s.close_definition \in CloseDefinition
    BY ScheduleType, CycleAssumption DEF CycleInv, TypeOK
  <2>2. /\ day \in Int /\ minute \in Int /\ day <= today
        /\ day = today => minute <= m
    <3>1. minute \in 0 .. DayMinutes - 1
      BY <2>1, LocalTime
    <3> QED BY <2>1, <3>1, LocalTime, MinuteType
  <2>3. ~BeforeFinalClose(Instant(today, m), s) /\ day \in calendar
    BY DEF Decision, ResolveDailyRun, IsTradingDay, SameDayAbsencePolicy
  <2>4. day \in Session
    BY <2>3 DEF CycleInv
  <2>5. FinalCloseThreshold(day, s) \in Int
    BY <2>1, AuctionCloseBound DEF FinalCloseThreshold, Clock
  <2>6. minute >= FinalCloseThreshold(day, s)
    BY <2>2, <2>3, <2>5 DEF BeforeFinalClose
  <2>7. ASSUME day = today PROVE m >= FinalClose(day, s.close_definition)
    <3>1. FinalClose(day, s.close_definition) \in Int
      BY AuctionCloseBound DEF FinalClose, Clock
    <3>2. CASE s.moex_auction_shift_date = ShiftDay
      <4>1. FinalCloseThreshold(day, s) = FinalClose(day, s.close_definition)
        BY <2>7, <3>2 DEF FinalCloseThreshold, FinalClose
      <4> QED BY <2>1, <2>2, <2>6, <2>7, <3>1, <4>1 DEF DayMinutes
    <3>3. CASE ScheduleAccepted(s) /\ minute >= s.daily_run_time
      <4>1. minute >= FinalClose(day, s.close_definition)
        BY <2>2, <3>3, AcceptedSchedule
      <4> QED BY <2>1, <2>2, <2>7, <3>1, <4>1 DEF DayMinutes
    <3> QED BY <3>2, <3>3
  <2> QED BY <2>1, <2>2, <2>4, <2>7
<1> QED BY <1>1, CycleInvAlways, PTL

\* A session ISS held when the load began is run on by every accepted schedule, from its
\* run time to midnight.
THEOREM CycleNeverMissed == Spec => []NoMissedCycle
<1>1. CycleInv => NoMissedCycle
  <2> SUFFICES ASSUME CycleInv, today \in held,
                      NEW s \in Schedule, NEW m \in Minute, NEW absence \in SameDayAbsencePolicy,
                      s.timezone = Moscow, ScheduleAccepted(s), m >= s.daily_run_time
               PROVE  Decision(Instant(today, m), s, absence) = "trading_day"
    BY DEF NoMissedCycle
  <2>1. today \in Int /\ till \in Int /\ m \in 0 .. DayMinutes - 1 /\ m \in Int
    BY CycleAssumption DEF CycleInv, TypeOK, DayMinutes
  <2>2. /\ LocalDay(Instant(today, m), s.timezone) = today
        /\ LocalMinute(Instant(today, m), s.timezone) = m
    <3>1. Moscow \in Int /\ Moscow <= Moscow
      BY DEF Moscow
    <3> QED BY <2>1, <3>1, LocalTime
  <2>3. ~BeforeFinalClose(Instant(today, m), s)
    <3>1. m >= FinalCloseThreshold(today, s)
      BY <2>1, AcceptedSchedule
    <3>2. FinalCloseThreshold(today, s) \in Int
      BY AuctionCloseBound DEF FinalCloseThreshold, Clock
    <3> QED BY <2>1, <2>2, <3>1, <3>2 DEF BeforeFinalClose
  <2>4. today \in calendar /\ today <= till
    BY DEF CycleInv, TypeOK, Window
  <2> QED BY <2>1, <2>2, <2>3, <2>4 DEF Decision, ResolveDailyRun, IsTradingDay
<1> QED BY <1>1, CycleInvAlways, PTL

\* No snapshot changes what was known of the dividends before it was stamped and declared.
THEOREM DividendReadsAlwaysKept == Spec => DividendReadsKept
<1>1. [Next]_vars =>
        [\A ts \in AsOf \cup Declared :
           (\A d \in dividends' \ dividends :
               ts < d.as_of \/ (d.declared_date # NULL /\ ts < d.declared_date))
             => UNCHANGED Table!ReadDividendsKnownAsOf(ts)]_vars
  <2> SUFFICES ASSUME Next, NEW ts \in AsOf \cup Declared,
                      \A d \in dividends' \ dividends :
                        ts < d.as_of \/ (d.declared_date # NULL /\ ts < d.declared_date)
               PROVE  UNCHANGED Table!ReadDividendsKnownAsOf(ts)
    OBVIOUS
  <2>1. CASE UNCHANGED dividends
    BY <2>1 DEF Table!ReadDividendsKnownAsOf
  <2>2. CASE StoreDividend
    <3>1. PICK d \in Table!Snapshot : Table!StoreDividendSnapshot(d, calendar)
      BY <2>2 DEF StoreDividend
    <3>2. PICK ex_date \in Table!ExDate(d, calendar) :
            dividends' = dividends \cup {[d EXCEPT !.ex_date = ex_date]}
      BY <3>1 DEF Table!StoreDividendSnapshot
    <3> DEFINE row == [d EXCEPT !.ex_date = ex_date]
    <3>3. row.as_of \in AsOf /\ row.declared_date \in Declared \cup {NULL}
      BY DEF Table!Snapshot, Table!Dividend
    <3>4. ASSUME row \notin dividends PROVE ~Table!Since(row, ts)
      <4>1. ts < row.as_of \/ (row.declared_date # NULL /\ ts < row.declared_date)
        BY <3>2, <3>4
      <4>2. /\ ts \in Int /\ row.as_of \in Int
            /\ row.declared_date # NULL => row.declared_date \in Int
        BY <3>3, CycleAssumption
      <4> HIDE DEF row
      <4> QED BY <4>1, <4>2 DEF Table!Since
    <3> HIDE DEF row
    <3>5. {r \in dividends' : Table!Since(r, ts)} = {r \in dividends : Table!Since(r, ts)}
      BY <3>2, <3>4 DEF row
    <3> QED BY <3>5 DEF Table!ReadDividendsKnownAsOf, Table!Since
  <2> QED
    BY <2>1, <2>2
       DEF Next, Request, Answer, Publish, Withdraw, NextDay, EndLoad, cycleVars
<1> QED BY <1>1, PTL DEF Spec, DividendReadsKept

-----------------------------------------------------------------------------
(* The versions of a dividend. *)

DividendKeysUnique ==
    \A d, r \in dividends : Table!DividendKey(d) = Table!DividendKey(r) => d = r

\* The primary key refuses a second row of a version of an event.
LEMMA DividendKeysKept == DividendKeysUnique /\ [Next]_vars => DividendKeysUnique'
<1> SUFFICES ASSUME DividendKeysUnique, [Next]_vars PROVE DividendKeysUnique'
  OBVIOUS
<1>1. CASE UNCHANGED dividends
  BY <1>1 DEF DividendKeysUnique, Table!DividendKey
<1>2. CASE StoreDividend
  <2>1. PICK d \in Table!Snapshot : Table!StoreDividendSnapshot(d, calendar)
    BY <1>2 DEF StoreDividend
  <2>2. PICK ex_date \in Table!ExDate(d, calendar) :
          dividends' = dividends \cup {[d EXCEPT !.ex_date = ex_date]}
    BY <2>1 DEF Table!StoreDividendSnapshot
  <2> DEFINE row == [d EXCEPT !.ex_date = ex_date]
  <2>3. Table!DividendKey(row) = Table!DividendKey(d)
    BY DEF Table!Snapshot, Table!Dividend, Table!DividendKey
  <2>4. \A r \in dividends : Table!DividendKey(r) # Table!DividendKey(row)
    BY <2>1, <2>3 DEF Table!StoreDividendSnapshot
  <2> HIDE DEF row
  <2>5. dividends' = dividends \cup {row}
    BY <2>2 DEF row
  <2> QED BY <2>4, <2>5 DEF DividendKeysUnique, Table!DividendKey
<1> QED
  BY <1>1, <1>2 DEF Next, Request, Answer, Publish, Withdraw, NextDay, EndLoad, cycleVars, vars

\* A read shows one row of an event, the one of its highest version known then.
THEOREM OneVersionPerDividend ==
  Spec => [](\A ts \in Int : \A d, r \in Table!ReadDividendsKnownAsOf(ts) :
               d.last_buy_date = r.last_buy_date => d = r)
<1>1. Init => DividendKeysUnique
  BY DEF Init, DividendKeysUnique
<1>2. TypeOK /\ DividendKeysUnique =>
        \A ts \in Int : \A d, r \in Table!ReadDividendsKnownAsOf(ts) :
          d.last_buy_date = r.last_buy_date => d = r
  <2> SUFFICES ASSUME TypeOK, DividendKeysUnique, NEW ts \in Int,
                      NEW d \in Table!ReadDividendsKnownAsOf(ts),
                      NEW r \in Table!ReadDividendsKnownAsOf(ts),
                      d.last_buy_date = r.last_buy_date
               PROVE  d = r
    OBVIOUS
  <2>1. /\ d \in dividends /\ r \in dividends
        /\ d.source_version <= r.source_version /\ r.source_version <= d.source_version
    BY DEF Table!ReadDividendsKnownAsOf
  <2>2. d.source_version \in Int /\ r.source_version \in Int
    BY <2>1 DEF TypeOK, Table!Dividend
  <2> QED BY <2>1, <2>2 DEF DividendKeysUnique, Table!DividendKey
<1> QED BY <1>1, <1>2, DividendKeysKept, CycleTypeCorrect, PTL DEF Spec

=============================================================================
