-------------------------- MODULE AlgorithmsProofs --------------------------
(***************************************************************************)
(* That the algorithms of Algorithms compute what their references say,    *)
(* for every buffer and limit, every profile, every day and instant and    *)
(* every environment: the calendar, the printed timestamps, the names, the *)
(* cut of a buffer, the checks of a profile and the verdicts it leads to.  *)
(* WorkOK, at the end, is the invariant that carries all of them.          *)
(***************************************************************************)
EXTENDS Algorithms, SequenceTheorems, TLAPS

-----------------------------------------------------------------------------
(* The calendar.                                                           *)

\* The days before a year, of those that begin in March.
YearDays(y) == 365 * y + y \div 4 - y \div 100 + y \div 400

\* A day, counted from the first of March of year 0, by the era, the year of the era and
\* the day of that year; the years that have a day 365.
OnDay(z, era, yoe, doy) == z = era * 146097 + (yoe * 365 + yoe \div 4 - yoe \div 100) + doy
LongYear(yoe) == (yoe + 1) % 4 = 0 /\ ((yoe + 1) % 100 # 0 \/ yoe = 399)

\* What civil_from_days works out on the way.
Parts(z, era, yoe, doy) ==
    LET doe == z - era * 146097
    IN /\ z \div 146097 = era
       /\ (doe - doe \div 1460 + doe \div 36524 - doe \div 146096) \div 365 = yoe
       /\ doe - (365 * yoe + yoe \div 4 - yoe \div 100) = doy

EraYear(doe) == (doe - doe \div 1460 + doe \div 36524 - doe \div 146096) \div 365

InYear(c, q, r, doy, doe) ==
    /\ doe = 36524 * c + 1461 * q + 365 * r + doy
    /\ doy = 365 => r = 3 /\ (q = 24 => c = 3)
YearIs(doe, c, q, r) == 0 <= doe /\ doe <= 146096 /\ EraYear(doe) = 100 * c + 4 * q + r

LEMMA YearOfEra ==
    ASSUME NEW c \in 0..3, NEW q \in 0..24, NEW r \in 0..3, NEW doy \in 0..365, NEW doe \in Int,
           InYear(c, q, r, doy, doe)
    PROVE  YearIs(doe, c, q, r)
<1> USE DEF InYear, YearIs
<1>1. 0 <= doe /\ doe <= 146096
  BY SMT
<1>2. EraYear(doe) = 100 * c + 4 * q + r
  BY <1>1, SMT DEF EraYear
<1> QED
  BY <1>1, <1>2, SMT

\* A year of an era by its century, its four years in the century and its year in these.
LEMMA YearParts ==
    ASSUME NEW yoe \in Nat, yoe < 400
    PROVE  \E c \in 0..3, q \in 0..24, r \in 0..3 :
              /\ yoe = 100 * c + 4 * q + r /\ yoe \div 4 = 25 * c + q /\ yoe \div 100 = c
              /\ LongYear(yoe) <=> r = 3 /\ (q = 24 => c = 3)
<1> DEFINE c == yoe \div 100
           q == (yoe % 100) \div 4
           r == yoe % 4
<1>1. c \in 0..3 /\ q \in 0..24 /\ r \in 0..3
  BY SMT
<1>2. yoe = 100 * c + 4 * q + r /\ yoe \div 4 = 25 * c + q
  BY SMT
<1>3. LongYear(yoe) <=> r = 3 /\ (q = 24 => c = 3)
  BY SMT DEF LongYear
<1> HIDE DEF c, q, r
<1>4. yoe \div 100 = c
  BY SMT DEF c
<1> QED
  BY <1>1, <1>2, <1>3, <1>4

LEMMA DayOfEra ==
    ASSUME NEW era \in Nat, NEW yoe \in Nat, yoe < 400, NEW doy \in Nat, doy < 366, NEW z \in Nat,
           OnDay(z, era, yoe, doy), doy = 365 => LongYear(yoe)
    PROVE  Parts(z, era, yoe, doy)
<1>1. PICK c \in 0..3, q \in 0..24, r \in 0..3 :
              /\ yoe = 100 * c + 4 * q + r /\ yoe \div 4 = 25 * c + q /\ yoe \div 100 = c
              /\ LongYear(yoe) <=> r = 3 /\ (q = 24 => c = 3)
  BY YearParts
<1>2. PICK doe \in Int : doe = z - era * 146097
  BY SMT
<1>3. doe = yoe * 365 + yoe \div 4 - yoe \div 100 + doy
  BY <1>2, SMT DEF OnDay
<1>4. doe = 36524 * c + 1461 * q + 365 * r + doy
  BY <1>1, <1>3, SMT
<1>5. 0 <= doe /\ doe <= 146096 /\ EraYear(doe) = 100 * c + 4 * q + r
  <2>1. doy \in 0..365 /\ InYear(c, q, r, doy, doe)
    BY <1>1, <1>4, SMT DEF InYear
  <2>2. YearIs(doe, c, q, r)
    BY <2>1, YearOfEra
  <2> QED
    BY <2>2 DEF YearIs
<1>6. z \div 146097 = era
  BY <1>2, <1>5, SMT
<1>7. doe - (365 * yoe + yoe \div 4 - yoe \div 100) = doy
  BY <1>3, SMT
<1>8. EraYear(z - era * 146097) = yoe
  BY <1>1, <1>2, <1>5, SMT
<1> QED
  BY <1>2, <1>6, <1>7, <1>8, SMT DEF Parts, EraYear

\* And the other way: every day is in a year of an era.
LEMMA Decompose ==
    ASSUME NEW z \in Nat
    PROVE  \E era \in Nat, yoe \in Nat, doy \in Nat :
              /\ yoe < 400 /\ doy < 366 /\ OnDay(z, era, yoe, doy)
              /\ doy = 365 => LongYear(yoe)
<1>1. PICK era \in Nat, doe \in Nat : z = era * 146097 + doe /\ doe <= 146096
  <2>1. z \div 146097 \in Nat /\ z % 146097 \in Nat /\ z % 146097 <= 146096
    BY SMT
  <2>2. z = (z \div 146097) * 146097 + (z % 146097)
    BY SMT
  <2> QED
    BY <2>1, <2>2, SMT
<1>2. PICK c \in 0..3, u \in Nat : doe = 36524 * c + u /\ (c < 3 => u < 36524) /\ u <= 36524
  <2>1. CASE doe = 146096
    BY <2>1, SMT
  <2>2. CASE doe < 146096
    <3>1. doe \div 36524 \in 0..3 /\ doe % 36524 \in Nat /\ doe % 36524 < 36524
      BY <2>2, SMT
    <3>2. doe = 36524 * (doe \div 36524) + (doe % 36524)
      BY SMT
    <3> QED
      BY <3>1, <3>2, SMT
  <2> QED
    BY <1>1, <2>1, <2>2, SMT
<1>3. PICK q \in 0..24, v \in Nat : u = 1461 * q + v /\ v <= 1460 /\ (q = 24 /\ c < 3 => v < 1460)
  <2>1. u \div 1461 \in 0..24 /\ u % 1461 \in Nat /\ u % 1461 <= 1460
    BY <1>2, SMT
  <2>2. u = 1461 * (u \div 1461) + (u % 1461)
    BY SMT
  <2> QED
    BY <1>2, <2>1, <2>2, SMT
<1>4. PICK r \in 0..3, doy \in Nat : v = 365 * r + doy /\ doy <= 365 /\ (doy = 365 => r = 3 /\ v = 1460)
  <2>1. CASE v = 1460
    BY <2>1, SMT
  <2>2. CASE v < 1460
    <3>1. v \div 365 \in 0..3 /\ v % 365 \in Nat /\ v % 365 < 365
      BY <2>2, SMT
    <3>2. v = 365 * (v \div 365) + (v % 365)
      BY SMT
    <3> QED
      BY <3>1, <3>2, SMT
  <2> QED
    BY <1>3, <2>1, <2>2, SMT
<1>5. PICK yoe \in Nat : yoe = 100 * c + 4 * q + r /\ yoe < 400
  BY SMT
<1>6. yoe \div 4 = 25 * c + q /\ yoe \div 100 = c
  BY <1>5, SMT
<1>7. OnDay(z, era, yoe, doy)
  BY <1>1, <1>2, <1>3, <1>4, <1>5, <1>6, SMT DEF OnDay
<1>8. doy = 365 => LongYear(yoe)
  <2>1. doy = 365 => r = 3 /\ (q = 24 => c = 3)
    BY <1>3, <1>4, SMT
  <2> QED
    BY <1>5, <2>1, SMT DEF LongYear
<1>9. doy < 366 /\ yoe < 400
  BY <1>4, <1>5, SMT
<1> QED
  BY <1>7, <1>8, <1>9

-----------------------------------------------------------------------------
\* The year that begins in March, and the day of it, of a date.
MarchYear(y, m) == IF m <= 2 THEN y - 1 ELSE y
MarchDay(m, d) == (153 * (IF m > 2 THEN m - 3 ELSE m + 9) + 2) \div 5 + d - 1
MarchCount(y, m, d) == YearDays(MarchYear(y, m)) + MarchDay(m, d)

IsDate(y, m, d) ==
    y \in Nat /\ 1 <= y /\ m \in 1..12 /\ d \in Nat /\ 1 <= d /\ d <= DaysIn(y, m)

LEMMA LeapYears ==
    ASSUME NEW y \in Nat
    PROVE  /\ YearDays(y) \in Nat
           /\ YearDays(y + 1) = YearDays(y) + IF Leap(y + 1) THEN 366 ELSE 365
<1>1. YearDays(y) \in Nat
  BY SMT DEF YearDays
<1>2. YearDays(y + 1) = YearDays(y) + IF Leap(y + 1) THEN 366 ELSE 365
  BY SMT DEF YearDays, Leap
<1> QED
  BY <1>1, <1>2

LEMMA YearsGrow ==
    ASSUME NEW x \in Nat, NEW y \in Nat, x < y
    PROVE  YearDays(x + 1) <= YearDays(y)
BY SMT DEF YearDays

LEMMA MarchFacts ==
    ASSUME NEW y, NEW m, NEW d, IsDate(y, m, d)
    PROVE  \E Y \in Nat, doy \in Nat :
              /\ Y = MarchYear(y, m) /\ doy = MarchDay(m, d) /\ doy < 366
              /\ doy = 365 => m = 2 /\ d = 29 /\ Leap(Y + 1)
              /\ y = Y + IF m <= 2 THEN 1 ELSE 0
<1>1. y \in Nat /\ 1 <= y /\ m \in 1..12 /\ d \in Nat /\ 1 <= d /\ d <= 31
  BY SMT DEF IsDate, DaysIn
<1>2. /\ m = 2 => d <= 29 /\ (d = 29 => Leap(y))
      /\ m \in {4, 6, 9, 11} => d <= 30
  BY SMT DEF IsDate, DaysIn
<1>3. PICK Y \in Nat, doy \in Nat : Y = MarchYear(y, m) /\ doy = MarchDay(m, d)
  <2>1. MarchYear(y, m) \in Nat /\ MarchDay(m, d) \in Nat
    BY <1>1, SMT DEF MarchYear, MarchDay
  <2> QED
    BY <2>1
<1>4. doy < 366 /\ (doy = 365 => m = 2 /\ d = 29)
  BY <1>1, <1>2, <1>3, SMT DEF MarchDay
<1>5. y = Y + IF m <= 2 THEN 1 ELSE 0
  BY <1>1, <1>3, SMT DEF MarchYear
<1>6. m = 2 => Y + 1 = y
  BY <1>5
<1> QED
  BY <1>2, <1>3, <1>4, <1>5, <1>6, SMT

\* days_from_civil counts the days from the first of March of year 0.
LEMMA CountFacts ==
    ASSUME NEW y, NEW m, NEW d, IsDate(y, m, d)
    PROVE  /\ MarchCount(y, m, d) \in Nat
           /\ days_from_civil(y, m, d) = MarchCount(y, m, d) - 719468
<1>1. PICK Y \in Nat, doy \in Nat : Y = MarchYear(y, m) /\ doy = MarchDay(m, d)
  BY MarchFacts
<1>2. m \in 1..12 /\ y \in Nat /\ d \in Nat
  BY SMT DEF IsDate
<1>3. Y = (IF m <= 2 THEN y - 1 ELSE y)
      /\ doy = (153 * (IF m > 2 THEN m - 3 ELSE m + 9) + 2) \div 5 + d - 1
  BY <1>1, <1>2, SMT DEF MarchYear, MarchDay
<1>4. PICK era \in Nat, yoe \in Nat : era = Y \div 400 /\ yoe = Y - era * 400
  BY SMT
<1>5. YearDays(Y) = era * 146097 + (yoe * 365 + yoe \div 4 - yoe \div 100)
  BY <1>4, SMT DEF YearDays
<1>6. days_from_civil(y, m, d) = era * 146097 + (yoe * 365 + yoe \div 4 - yoe \div 100 + doy) - 719468
  BY <1>2, <1>3, <1>4, SMT DEF days_from_civil
<1>7. YearDays(Y) \in Nat
  BY LeapYears
<1>8. days_from_civil(y, m, d) = YearDays(Y) + doy - 719468
  BY <1>5, <1>6, <1>7, SMT
<1> QED
  BY <1>1, <1>7, <1>8, SMT DEF MarchCount

\* The date on a day of a year.
CivilDate(era, yoe, doy) ==
    LET mp == (5 * doy + 2) \div 153
        month == IF mp < 10 THEN mp + 3 ELSE mp - 9
    IN <<yoe + era * 400 + (IF month <= 2 THEN 1 ELSE 0), month, doy - (153 * mp + 2) \div 5 + 1>>
DayOfYear(doe, yoe) == doe - (365 * yoe + yoe \div 4 - yoe \div 100)

LEMMA CivilOf ==
    ASSUME NEW days \in Nat, NEW z \in Nat, z = days + 719468, NEW era \in Nat, NEW yoe \in Nat,
           NEW doy \in Nat, Parts(z, era, yoe, doy)
    PROVE  civil_from_days(days) = CivilDate(era, yoe, doy)
<1> DEFINE e == (days + 719468) \div 146097
           doe == (days + 719468) - e * 146097
<1>1. civil_from_days(days) = CivilDate(e, EraYear(doe), DayOfYear(doe, EraYear(doe)))
  BY SMT DEF civil_from_days, CivilDate, EraYear, DayOfYear
<1>2. e = era /\ doe = z - era * 146097
  BY SMT DEF Parts
<1>3. EraYear(doe) = yoe
  BY <1>2, SMT DEF Parts, EraYear
<1>4. DayOfYear(doe, yoe) = doy
  BY <1>2, SMT DEF Parts, DayOfYear
<1> HIDE DEF e, doe
<1> QED
  BY <1>1, <1>2, <1>3, <1>4

OfMarch(y, m, d, era, yoe, doy) == MarchYear(y, m) = era * 400 + yoe /\ MarchDay(m, d) = doy

LEMMA MarchBack ==
    ASSUME NEW y, NEW m, NEW d, IsDate(y, m, d), NEW era \in Nat, NEW yoe \in Nat, NEW doy \in Nat,
           OfMarch(y, m, d, era, yoe, doy)
    PROVE  CivilDate(era, yoe, doy) = <<y, m, d>>
<1>1. y \in Nat /\ 1 <= y /\ m \in 1..12 /\ d \in Nat /\ 1 <= d /\ d <= 31
  BY SMT DEF IsDate, DaysIn
<1>2. m = 2 => d <= 29
  BY SMT DEF IsDate, DaysIn
<1>3. m \in {4, 6, 9, 11} => d <= 30
  BY SMT DEF IsDate, DaysIn
<1>4. PICK mp \in Nat : mp = (5 * doy + 2) \div 153
  BY SMT
<1>5. doy = (153 * (IF m > 2 THEN m - 3 ELSE m + 9) + 2) \div 5 + d - 1
  BY <1>1, SMT DEF MarchDay, OfMarch
<1>6. mp = IF m > 2 THEN m - 3 ELSE m + 9
  BY <1>1, <1>2, <1>3, <1>4, <1>5, SMT
<1>7. m = IF mp < 10 THEN mp + 3 ELSE mp - 9
  BY <1>1, <1>6, SMT
<1>8. d = doy - (153 * mp + 2) \div 5 + 1
  BY <1>1, <1>5, <1>6, SMT
<1>9. y = yoe + era * 400 + (IF m <= 2 THEN 1 ELSE 0)
  BY <1>1, SMT DEF MarchYear, OfMarch
<1> QED
  BY <1>4, <1>7, <1>8, <1>9, SMT DEF CivilDate

LEMMA ThereAndBack ==
    ASSUME NEW y, NEW m, NEW d, IsDate(y, m, d), NEW days \in Nat, days = days_from_civil(y, m, d)
    PROVE  civil_from_days(days) = <<y, m, d>>
<1>1. PICK Y \in Nat, doy \in Nat :
          /\ Y = MarchYear(y, m) /\ doy = MarchDay(m, d) /\ doy < 366
          /\ doy = 365 => Leap(Y + 1)
  BY MarchFacts
<1>2. PICK z \in Nat : z = days + 719468
  BY SMT
<1>3. YearDays(Y) \in Nat
  BY LeapYears
<1>4. z = YearDays(Y) + doy
  <2>1. days = MarchCount(y, m, d) - 719468 /\ MarchCount(y, m, d) = YearDays(Y) + doy
    BY <1>1, CountFacts DEF MarchCount
  <2> QED
    BY <1>2, <1>3, <2>1, SMT
<1>5. PICK era \in Nat, yoe \in Nat : Y = era * 400 + yoe /\ yoe < 400
  <2>1. Y \div 400 \in Nat /\ Y % 400 \in Nat /\ Y % 400 < 400 /\ Y = (Y \div 400) * 400 + (Y % 400)
    BY SMT
  <2> QED
    BY <2>1, SMT
<1>6. OnDay(z, era, yoe, doy)
  BY <1>4, <1>5, SMT DEF OnDay, YearDays
<1>7. Leap(Y + 1) => LongYear(yoe)
  BY <1>5, SMT DEF Leap, LongYear
<1>8. Parts(z, era, yoe, doy)
  BY <1>1, <1>5, <1>6, <1>7, DayOfEra
<1>9. civil_from_days(days) = CivilDate(era, yoe, doy)
  BY <1>2, <1>8, CivilOf
<1>10. OfMarch(y, m, d, era, yoe, doy)
  BY <1>1, <1>5 DEF OfMarch
<1>11. CivilDate(era, yoe, doy) = <<y, m, d>>
  BY <1>10, MarchBack
<1> QED
  BY <1>9, <1>11

\* The day after a date counts one more.
LEMMA NextDate ==
    ASSUME NEW y, NEW m, NEW d, IsDate(y, m, d), NEW t,
           t = IF d < DaysIn(y, m) THEN <<y, m, d + 1>>
               ELSE IF m < 12 THEN <<y, m + 1, 1>> ELSE <<y + 1, 1, 1>>
    PROVE  /\ t = <<t[1], t[2], t[3]>> /\ IsDate(t[1], t[2], t[3])
           /\ days_from_civil(t[1], t[2], t[3]) = days_from_civil(y, m, d) + 1
<1>1. /\ y \in Nat /\ 1 <= y /\ m \in 1..12 /\ d \in Nat /\ 1 <= d /\ d <= 31
      /\ d <= DaysIn(y, m) /\ DaysIn(y, m) \in Nat
  BY SMT DEF IsDate, DaysIn
<1>2. PICK u, k, e : t = <<u, k, e>>
  OBVIOUS
<1>3. t[1] = u /\ t[2] = k /\ t[3] = e
  BY <1>2
<1>4. \/ d < DaysIn(y, m) /\ u = y /\ k = m /\ e = d + 1
      \/ d = DaysIn(y, m) /\ m < 12 /\ u = y /\ k = m + 1 /\ e = 1
      \/ d = DaysIn(y, m) /\ m = 12 /\ u = y + 1 /\ k = 1 /\ e = 1
  BY <1>1, <1>2, SMT
<1>5. IsDate(u, k, e)
  BY <1>1, <1>4, SMT DEF IsDate, DaysIn
<1>6. PICK Y \in Nat, doy \in Nat : Y = MarchYear(y, m) /\ doy = MarchDay(m, d)
  BY MarchFacts
<1>7. \/ MarchYear(u, k) = Y /\ MarchDay(k, e) = doy + 1
      \/ /\ MarchYear(u, k) = Y + 1 /\ MarchDay(k, e) = 0
         /\ doy + 1 = IF Leap(Y + 1) THEN 366 ELSE 365
  <2>1. CASE d < DaysIn(y, m)
    BY <1>1, <1>4, <1>6, <2>1, SMT DEF MarchYear, MarchDay
  <2>2. CASE d = DaysIn(y, m) /\ m # 2
    BY <1>1, <1>4, <1>6, <2>2, SMT DEF MarchYear, MarchDay, DaysIn
  <2>3. CASE d = DaysIn(y, m) /\ m = 2
    <3>1. u = y /\ k = 3 /\ e = 1 /\ d = IF Leap(y) THEN 29 ELSE 28
      BY <1>1, <1>4, <2>3, SMT DEF DaysIn
    <3>2. Y + 1 = y /\ doy = 336 + d
      BY <1>1, <1>6, <2>3, SMT DEF MarchYear, MarchDay
    <3>3. MarchYear(u, k) = y /\ MarchDay(k, e) = 0
      BY <1>1, <3>1, SMT DEF MarchYear, MarchDay
    <3> QED
      BY <3>1, <3>2, <3>3, SMT
  <2> QED
    BY <1>4, <2>1, <2>2, <2>3
<1>8. /\ YearDays(Y) \in Nat
      /\ YearDays(Y + 1) = YearDays(Y) + IF Leap(Y + 1) THEN 366 ELSE 365
  BY LeapYears
<1>9. MarchCount(u, k, e) = MarchCount(y, m, d) + 1
  BY <1>6, <1>7, <1>8, SMT DEF MarchCount
<1>10. days_from_civil(u, k, e) = days_from_civil(y, m, d) + 1
  <2>1. PICK n \in Nat : n = MarchCount(y, m, d) /\ days_from_civil(y, m, d) = n - 719468
    BY CountFacts
  <2>2. days_from_civil(u, k, e) = MarchCount(u, k, e) - 719468
    BY <1>5, CountFacts
  <2> QED
    BY <1>9, <2>1, <2>2, SMT
<1> QED
  BY <1>2, <1>3, <1>5, <1>10

DateBefore(y, m, d, u, k, e) == y < u \/ (y = u /\ (m < k \/ (m = k /\ d < e)))

\* Later dates count more.
LEMMA DatesGrow ==
    ASSUME NEW y, NEW m, NEW d, IsDate(y, m, d), NEW u, NEW k, NEW e, IsDate(u, k, e),
           DateBefore(y, m, d, u, k, e)
    PROVE  days_from_civil(y, m, d) < days_from_civil(u, k, e)
<1>1. /\ y \in Nat /\ 1 <= y /\ m \in 1..12 /\ d \in Nat /\ 1 <= d /\ d <= 31
      /\ u \in Nat /\ 1 <= u /\ k \in 1..12 /\ e \in Nat /\ 1 <= e /\ e <= 31
      /\ m \in {4, 6, 9, 11} => d <= 30
      /\ m = 2 => d <= 29
  BY SMT DEF IsDate, DaysIn
<1>2. PICK X \in Nat, a \in Nat :
          /\ X = MarchYear(y, m) /\ a = MarchDay(m, d) /\ a < 366
          /\ a = 365 => Leap(X + 1)
  BY MarchFacts
<1>3. PICK Y \in Nat, b \in Nat : Y = MarchYear(u, k) /\ b = MarchDay(k, e)
  BY MarchFacts
<1>4. X < Y \/ (X = Y /\ a < b)
  BY <1>1, <1>2, <1>3, SMT DEF DateBefore, MarchYear, MarchDay
<1>5. YearDays(X) \in Nat /\ YearDays(Y) \in Nat /\ (X < Y => YearDays(X) + a < YearDays(Y))
  <2>1. /\ YearDays(X) \in Nat /\ YearDays(Y) \in Nat
        /\ YearDays(X + 1) = YearDays(X) + IF Leap(X + 1) THEN 366 ELSE 365
    BY LeapYears
  <2>2. X < Y => YearDays(X + 1) <= YearDays(Y)
    BY YearsGrow
  <2> QED
    BY <1>2, <2>1, <2>2, SMT
<1>6. MarchCount(y, m, d) < MarchCount(u, k, e)
  BY <1>2, <1>3, <1>4, <1>5, SMT DEF MarchCount
<1> QED
  BY <1>6, CountFacts, SMT

\* Every day has a date.
LEMMA EveryDay ==
    ASSUME NEW days \in Nat
    PROVE  \E y, m, d : /\ IsDate(y, m, d) /\ civil_from_days(days) = <<y, m, d>>
                        /\ days_from_civil(y, m, d) = days
<1>1. PICK z \in Nat : z = days + 719468
  BY SMT
<1>2. PICK era \in Nat, yoe \in Nat, doy \in Nat :
          /\ yoe < 400 /\ doy < 366 /\ OnDay(z, era, yoe, doy)
          /\ doy = 365 => LongYear(yoe)
  BY Decompose, Zenon
<1>3. PICK Y \in Nat : Y = era * 400 + yoe
  BY SMT
<1>4. Y >= 1 /\ z = YearDays(Y) + doy /\ (LongYear(yoe) => Leap(Y + 1))
  <2>1. Y >= 1
    BY <1>1, <1>2, <1>3, SMT DEF OnDay
  <2>2. z = YearDays(Y) + doy
    BY <1>1, <1>2, <1>3, SMT DEF OnDay, YearDays
  <2>3. LongYear(yoe) => Leap(Y + 1)
    BY <1>2, <1>3, SMT DEF LongYear, Leap
  <2> QED
    BY <2>1, <2>2, <2>3, SMT
<1>5. PICK mp \in Nat, d \in Nat : /\ mp = (5 * doy + 2) \div 153 /\ d = doy - (153 * mp + 2) \div 5 + 1
                                    /\ mp <= 11 /\ 1 <= d /\ d <= 31
                                    /\ (mp \in {1, 3, 6, 8} => d <= 30)
                                    /\ (mp = 11 => d <= 29 /\ (d = 29 => doy = 365))
  <2> DEFINE n == (5 * doy + 2) \div 153
             e == doy - (153 * n + 2) \div 5 + 1
  <2>1. n \in Nat /\ n <= 11 /\ e \in Nat /\ 1 <= e /\ e <= 31
    BY <1>2, SMT
  <2>2. (n \in {1, 3, 6, 8} => e <= 30) /\ (n = 11 => e <= 29 /\ (e = 29 => doy = 365))
    BY <1>2, SMT
  <2> QED
    BY <2>1, <2>2, SMT
<1>6. PICK m, y : /\ m = IF mp < 10 THEN mp + 3 ELSE mp - 9
                  /\ y = Y + IF m <= 2 THEN 1 ELSE 0
  OBVIOUS
<1>7. m \in 1..12 /\ y \in Nat /\ 1 <= y
  BY <1>4, <1>5, <1>6, SMT
<1>8. IsDate(y, m, d)
  <2>1. m = 2 => d <= 29 /\ (d = 29 => Leap(y))
    BY <1>2, <1>4, <1>5, <1>6, SMT
  <2>2. m \in {4, 6, 9, 11} => d <= 30
    BY <1>5, <1>6, SMT
  <2>3. d <= DaysIn(y, m)
    BY <1>5, <1>7, <2>1, <2>2, SMT DEF DaysIn
  <2> QED
    BY <1>5, <1>7, <2>3, SMT DEF IsDate
<1>9. MarchYear(y, m) = Y /\ MarchDay(m, d) = doy
  BY <1>5, <1>6, SMT DEF MarchYear, MarchDay
<1>10. days_from_civil(y, m, d) = days
  <2>1. days_from_civil(y, m, d) = MarchCount(y, m, d) - 719468 /\ MarchCount(y, m, d) = YearDays(Y) + doy
    BY <1>8, <1>9, CountFacts DEF MarchCount
  <2>2. YearDays(Y) \in Nat
    BY LeapYears, SMT
  <2> QED
    BY <1>1, <1>4, <2>1, <2>2, SMT
<1>11. civil_from_days(days) = <<y, m, d>>
  BY <1>8, <1>10, ThereAndBack, SMT
<1> QED
  BY <1>8, <1>10, <1>11

-----------------------------------------------------------------------------
\* The calendar and the day count agree.
CalendarOK ==
    \E n, y, m, d :
        /\ n \in Nat /\ work = [kind |-> "day", day |-> n, date |-> <<y, m, d>>]
        /\ IsDate(y, m, d) /\ days_from_civil(y, m, d) = n

LEMMA CalendarStep == CalendarOK /\ next_day => CalendarOK'
<1> SUFFICES ASSUME CalendarOK, next_day PROVE CalendarOK'
  OBVIOUS
<1>1. PICK n, y, m, d :
        /\ n \in Nat /\ work = [kind |-> "day", day |-> n, date |-> <<y, m, d>>]
        /\ IsDate(y, m, d) /\ days_from_civil(y, m, d) = n
  BY DEF CalendarOK
<1>2. PICK t : t = IF d < DaysIn(y, m) THEN <<y, m, d + 1>>
                   ELSE IF m < 12 THEN <<y, m + 1, 1>> ELSE <<y + 1, 1, 1>>
  OBVIOUS
<1>3. work' = [kind |-> "day", day |-> n + 1, date |-> t]
  BY <1>1, <1>2 DEF next_day
<1>4. /\ t = <<t[1], t[2], t[3]>> /\ IsDate(t[1], t[2], t[3])
      /\ days_from_civil(t[1], t[2], t[3]) = n + 1
  BY <1>1, <1>2, NextDate
<1>5. n + 1 \in Nat
  BY <1>1
<1> QED
  BY <1>3, <1>4, <1>5 DEF CalendarOK

LEMMA CalendarInit ==
    ASSUME work = [kind |-> "day", day |-> 0, date |-> <<1970, 1, 1>>]
    PROVE  CalendarOK
<1>1. IsDate(1970, 1, 1)
  BY SMT DEF IsDate, DaysIn
<1>2. days_from_civil(1970, 1, 1) = 0
  BY SMT DEF days_from_civil
<1>3. PICK n, y, m, d : n = 0 /\ y = 1970 /\ m = 1 /\ d = 1
  OBVIOUS
<1>4. /\ n \in Nat /\ work = [kind |-> "day", day |-> n, date |-> <<y, m, d>>]
      /\ IsDate(y, m, d) /\ days_from_civil(y, m, d) = n
  BY <1>1, <1>2, <1>3, SMT
<1> QED
  BY <1>4 DEF CalendarOK

LEMMA CalendarHolds == CalendarOK => CalendarRight
<1> SUFFICES ASSUME CalendarOK PROVE CalendarRight
  OBVIOUS
<1>1. PICK n, y, m, d :
        /\ n \in Nat /\ work = [kind |-> "day", day |-> n, date |-> <<y, m, d>>]
        /\ IsDate(y, m, d) /\ days_from_civil(y, m, d) = n
  BY DEF CalendarOK
<1>2. civil_from_days(n) = <<y, m, d>>
  BY <1>1, ThereAndBack
<1> QED
  BY <1>1, <1>2 DEF CalendarRight

-----------------------------------------------------------------------------
(* Printed timestamps.                                                     *)

\* The comparison from the i-th field on.
LessFrom(s, t, i) ==
    \/ Len(s) < Len(t) /\ \A j \in i..Len(s) : s[j] = t[j]
    \/ \E k \in i..Len(s) : k <= Len(t) /\ s[k] < t[k] /\ \A j \in i..(k - 1) : s[j] = t[j]

LEMMA Peel ==
    ASSUME NEW s \in Seq(Int), NEW t \in Seq(Int), NEW i \in Nat, 1 <= i, i <= Len(s), i <= Len(t)
    PROVE  LessFrom(s, t, i) <=> s[i] < t[i] \/ (s[i] = t[i] /\ LessFrom(s, t, i + 1))
<1>1. Len(s) \in Nat /\ Len(t) \in Nat /\ s[i] \in Int /\ t[i] \in Int
  OBVIOUS
<1>2. \A n \in Int : \A j \in i..n : j = i \/ j \in (i + 1)..n
  OBVIOUS
<1>3. \A n \in Int : \A j \in (i + 1)..n : j \in i..n /\ i \in i..n
  OBVIOUS
<1>4. ASSUME LessFrom(s, t, i) PROVE s[i] < t[i] \/ (s[i] = t[i] /\ LessFrom(s, t, i + 1))
  <2>1. CASE Len(s) < Len(t) /\ \A j \in i..Len(s) : s[j] = t[j]
    <3>1. i \in i..Len(s) /\ \A j \in (i + 1)..Len(s) : j \in i..Len(s)
      BY <1>1, <1>3
    <3> QED
      BY <2>1, <3>1 DEF LessFrom
  <2>2. CASE \E k \in i..Len(s) : k <= Len(t) /\ s[k] < t[k] /\ \A j \in i..(k - 1) : s[j] = t[j]
    <3>1. PICK k \in i..Len(s) : k <= Len(t) /\ s[k] < t[k] /\ \A j \in i..(k - 1) : s[j] = t[j]
      BY <2>2
    <3>2. CASE k # i
      <4>1. i \in i..(k - 1) /\ k \in (i + 1)..Len(s)
        BY <1>1, <3>2
      <4>2. \A j \in (i + 1)..(k - 1) : s[j] = t[j]
        BY <1>3, <3>1
      <4> QED
        BY <3>1, <4>1, <4>2 DEF LessFrom
    <3> QED
      BY <3>1, <3>2
  <2> QED
    BY <1>4, <2>1, <2>2 DEF LessFrom
<1>5. ASSUME s[i] < t[i] PROVE LessFrom(s, t, i)
  <2>1. i \in i..Len(s) /\ i..(i - 1) = {}
    BY <1>1
  <2> QED
    BY <1>5, <2>1 DEF LessFrom
<1>6. ASSUME s[i] = t[i], LessFrom(s, t, i + 1) PROVE LessFrom(s, t, i)
  <2>1. CASE Len(s) < Len(t) /\ \A j \in (i + 1)..Len(s) : s[j] = t[j]
    <3>1. \A j \in i..Len(s) : s[j] = t[j]
      <4>1. \A j \in i..Len(s) : j = i \/ j \in (i + 1)..Len(s)
        BY <1>1
      <4> QED
        BY <1>6, <2>1, <4>1, Zenon
    <3> QED
      BY <2>1, <3>1 DEF LessFrom
  <2>2. CASE \E k \in (i + 1)..Len(s) : k <= Len(t) /\ s[k] < t[k] /\ \A j \in (i + 1)..(k - 1) : s[j] = t[j]
    <3>1. PICK k \in (i + 1)..Len(s) : k <= Len(t) /\ s[k] < t[k] /\ \A j \in (i + 1)..(k - 1) : s[j] = t[j]
      BY <2>2
    <3>2. k \in i..Len(s) /\ k - 1 \in Int
      BY <1>1
    <3>3. \A j \in i..(k - 1) : s[j] = t[j]
      BY <1>2, <1>6, <3>1, <3>2
    <3> QED
      BY <3>1, <3>2, <3>3 DEF LessFrom
  <2> QED
    BY <1>6, <2>1, <2>2 DEF LessFrom
<1> QED
  BY <1>4, <1>5, <1>6

\* After the last field of both nothing is less.
LEMMA Ends ==
    ASSUME NEW s \in Seq(Int), NEW t \in Seq(Int), Len(s) = Len(t)
    PROVE  ~LessFrom(s, t, Len(s) + 1)
BY DEF LessFrom

LEMMA Whole ==
    ASSUME NEW s \in Seq(Int), NEW t \in Seq(Int)
    PROVE  StringLess(s, t) <=> LessFrom(s, t, 1)
<1>1. DOMAIN s = 1..Len(s) /\ DOMAIN t = 1..Len(t) /\ Len(s) \in Nat /\ Len(t) \in Nat
  OBVIOUS
<1>2. \A i : i \in DOMAIN s \cap DOMAIN t <=> i \in 1..Len(s) /\ i <= Len(t)
  BY <1>1
<1> QED
  BY <1>1, <1>2 DEF StringLess, LessFrom

\* The six fields before the fraction.
HeadLess(s, t) ==
    \/ s[1] < t[1]
    \/ s[1] = t[1] /\ \/ s[2] < t[2]
                      \/ s[2] = t[2] /\ \/ s[3] < t[3]
                                        \/ s[3] = t[3] /\ \/ s[4] < t[4]
                                                          \/ s[4] = t[4] /\ \/ s[5] < t[5]
                                                                            \/ s[5] = t[5] /\ s[6] < t[6]
SameHead(s, t) == s[1] = t[1] /\ s[2] = t[2] /\ s[3] = t[3] /\ s[4] = t[4] /\ s[5] = t[5] /\ s[6] = t[6]

LEMMA HeadFirst ==
    ASSUME NEW s \in Seq(Int), NEW t \in Seq(Int), Len(s) >= 7, Len(t) >= 7
    PROVE  StringLess(s, t) <=> HeadLess(s, t) \/ (SameHead(s, t) /\ LessFrom(s, t, 7))
<1>1. \A i \in 1..6 : LessFrom(s, t, i) <=> s[i] < t[i] \/ (s[i] = t[i] /\ LessFrom(s, t, i + 1))
  <2>1. \A i \in 1..6 : i \in Nat /\ 1 <= i /\ i <= Len(s) /\ i <= Len(t)
    OBVIOUS
  <2> QED
    BY <2>1, Peel, Zenon
<1>2. /\ LessFrom(s, t, 1) <=> s[1] < t[1] \/ (s[1] = t[1] /\ LessFrom(s, t, 2))
      /\ LessFrom(s, t, 2) <=> s[2] < t[2] \/ (s[2] = t[2] /\ LessFrom(s, t, 3))
      /\ LessFrom(s, t, 3) <=> s[3] < t[3] \/ (s[3] = t[3] /\ LessFrom(s, t, 4))
      /\ LessFrom(s, t, 4) <=> s[4] < t[4] \/ (s[4] = t[4] /\ LessFrom(s, t, 5))
      /\ LessFrom(s, t, 5) <=> s[5] < t[5] \/ (s[5] = t[5] /\ LessFrom(s, t, 6))
      /\ LessFrom(s, t, 6) <=> s[6] < t[6] \/ (s[6] = t[6] /\ LessFrom(s, t, 7))
  BY <1>1
<1> QED
  BY <1>2, Whole DEF HeadLess, SameHead

\* The fields of a fraction that is shown in g groups; the others are zero.
FractionIs(s, g1, g2, g3, g) ==
    /\ g = 0 => Len(s) = 7 /\ s[7] = Plus /\ g1 = 0 /\ g2 = 0 /\ g3 = 0
    /\ g = 1 => Len(s) = 9 /\ s[7] = Dot /\ s[8] = g1 /\ s[9] = Plus /\ g2 = 0 /\ g3 = 0
    /\ g = 2 => Len(s) = 10 /\ s[7] = Dot /\ s[8] = g1 /\ s[9] = g2 /\ s[10] = Plus /\ g3 = 0
    /\ g = 3 => Len(s) = 11 /\ s[7] = Dot /\ s[8] = g1 /\ s[9] = g2 /\ s[10] = g3 /\ s[11] = Plus
GroupsLess(a, b, c, x, y, z) == a < x \/ (a = x /\ (b < y \/ (b = y /\ c < z)))

\* A fraction of nine digits, or none, against one of any number.
LEMMA TailLess ==
    ASSUME NEW s \in Seq(Int), NEW t \in Seq(Int), NEW a \in Nat, NEW b \in Nat, NEW c \in Nat,
           NEW x \in Nat, NEW y \in Nat, NEW z \in Nat, NEW g \in {0, 3}, NEW h \in 0..3,
           FractionIs(s, a, b, c, g), FractionIs(t, x, y, z, h), g # 0 => ~(a = 0 /\ b = 0 /\ c = 0),
           h # 0 => ~(x = 0 /\ y = 0 /\ z = 0)
    PROVE  LessFrom(s, t, 7) <=> GroupsLess(a, b, c, x, y, z)
<1> DEFINE at(i) == LessFrom(s, t, i) <=> s[i] < t[i] \/ (s[i] = t[i] /\ LessFrom(s, t, i + 1))
<1>1. \A i \in Nat : 1 <= i /\ i <= Len(s) /\ i <= Len(t) => at(i)
  BY Peel
<1>2. Len(s) = Len(t) => ~LessFrom(s, t, Len(s) + 1)
  BY Ends
<1>3. CASE g = 0
  <2>1. Len(s) = 7 /\ s[7] = Plus /\ a = 0 /\ b = 0 /\ c = 0
    BY <1>3 DEF FractionIs
  <2>2. CASE h = 0
    <3>1. Len(t) = 7 /\ t[7] = Plus /\ x = 0 /\ y = 0 /\ z = 0
      BY <2>2 DEF FractionIs
    <3>2. at(7) /\ ~LessFrom(s, t, 8)
      BY <1>1, <1>2, <2>1, <3>1
    <3> QED
      BY <2>1, <3>1, <3>2 DEF Plus, GroupsLess
  <2>3. CASE h # 0
    <3>1. Len(t) >= 9 /\ t[7] = Dot
      BY <2>3 DEF FractionIs
    <3>2. at(7)
      <4>1. 7 <= Len(t)
        BY <3>1
      <4> QED
        BY <1>1, <2>1, <4>1
    <3>3. LessFrom(s, t, 7)
      BY <2>1, <3>1, <3>2 DEF Plus, Dot
    <3>4. GroupsLess(0, 0, 0, x, y, z)
      BY <2>3 DEF GroupsLess
    <3> QED
      BY <2>1, <3>3, <3>4
  <2> QED
    BY <2>2, <2>3
<1>4. CASE g = 3
  <2>1. Len(s) = 11 /\ s[7] = Dot /\ s[8] = a /\ s[9] = b /\ s[10] = c /\ s[11] = Plus
    BY <1>4 DEF FractionIs
  <2>2. CASE h = 0
    <3>1. Len(t) = 7 /\ t[7] = Plus /\ x = 0 /\ y = 0 /\ z = 0
      BY <2>2 DEF FractionIs
    <3>2. at(7)
      BY <1>1, <2>1, <3>1
    <3>3. ~LessFrom(s, t, 7)
      BY <2>1, <3>1, <3>2 DEF Plus, Dot
    <3> QED
      BY <3>1, <3>3 DEF GroupsLess
  <2>3. CASE h = 1
    <3>1. Len(t) = 9 /\ t[7] = Dot /\ t[8] = x /\ t[9] = Plus /\ y = 0 /\ z = 0
      BY <2>3 DEF FractionIs
    <3>2. at(7) /\ at(8) /\ at(9)
      BY <1>1, <2>1, <3>1
    <3>3. LessFrom(s, t, 7) <=> a < x
      BY <2>1, <3>1, <3>2 DEF Plus, Dot
    <3> QED
      BY <3>1, <3>3 DEF GroupsLess
  <2>4. CASE h = 2
    <3>1. Len(t) = 10 /\ t[7] = Dot /\ t[8] = x /\ t[9] = y /\ t[10] = Plus /\ z = 0
      BY <2>4 DEF FractionIs
    <3>2. at(7) /\ at(8) /\ at(9) /\ at(10)
      BY <1>1, <2>1, <3>1
    <3>3. LessFrom(s, t, 7) <=> a < x \/ (a = x /\ b < y)
      BY <2>1, <3>1, <3>2 DEF Plus, Dot
    <3> QED
      BY <3>1, <3>3 DEF GroupsLess
  <2>5. CASE h = 3
    <3>1. Len(t) = 11 /\ t[7] = Dot /\ t[8] = x /\ t[9] = y /\ t[10] = z /\ t[11] = Plus
      BY <2>5 DEF FractionIs
    <3>2. at(7) /\ at(8) /\ at(9) /\ at(10) /\ at(11) /\ ~LessFrom(s, t, 12)
      BY <1>1, <1>2, <2>1, <3>1
    <3> QED
      BY <2>1, <3>1, <3>2 DEF Plus, Dot, GroupsLess
  <2> QED
    BY <2>2, <2>3, <2>4, <2>5
<1> QED
  BY <1>3, <1>4

-----------------------------------------------------------------------------
\* The digits of a second of the day, and of a nanosecond.
ClockOf(p, a, b, c) ==
    /\ a \in Nat /\ b \in Nat /\ c \in Nat /\ b < 60 /\ c < 60
    /\ <<p \div 3600, (p % 3600) \div 60, p % 60>> = <<a, b, c>> /\ p = (a * 60 + b) * 60 + c
GroupsOf(p, a, b, c) ==
    /\ a \in Nat /\ b \in Nat /\ c \in Nat /\ b < 1000 /\ c < 1000
    /\ <<p \div 1000000, (p \div 1000) % 1000, p % 1000>> = <<a, b, c>>
    /\ p = (a * 1000 + b) * 1000 + c

LEMMA ClockDigits ==
    ASSUME NEW p \in Nat
    PROVE  \E a, b, c : ClockOf(p, a, b, c)
<1>1. PICK a \in Nat, b \in Nat, c \in Nat :
          a = p \div 3600 /\ b = (p % 3600) \div 60 /\ c = p % 60
  BY SMT
<1>2. b < 60 /\ c < 60 /\ p = (a * 60 + b) * 60 + c
  BY <1>1, SMT
<1>3. ClockOf(p, a, b, c)
  BY <1>1, <1>2, SMT DEF ClockOf
<1> QED
  BY <1>3

LEMMA GroupDigits ==
    ASSUME NEW p \in Nat
    PROVE  \E a, b, c : GroupsOf(p, a, b, c)
<1>1. PICK a \in Nat, b \in Nat, c \in Nat :
          a = p \div 1000000 /\ b = (p \div 1000) % 1000 /\ c = p % 1000
  BY SMT
<1>2. b < 1000 /\ c < 1000 /\ p = (a * 1000 + b) * 1000 + c
  BY <1>1, SMT
<1>3. GroupsOf(p, a, b, c)
  BY <1>1, <1>2, SMT DEF GroupsOf
<1> QED
  BY <1>3

\* Times of the day, and nanoseconds, compare as their digits do.
SameOrder(p, q, a, b, c, x, y, z) ==
    /\ p < q <=> GroupsLess(a, b, c, x, y, z)
    /\ p = q <=> a = x /\ b = y /\ c = z
AllZero(p, a, b, c) == p = 0 <=> a = 0 /\ b = 0 /\ c = 0

LEMMA ClockOrder ==
    ASSUME NEW p \in Nat, NEW q \in Nat, NEW a, NEW b, NEW c, NEW x, NEW y, NEW z,
           ClockOf(p, a, b, c), ClockOf(q, x, y, z)
    PROVE  SameOrder(p, q, a, b, c, x, y, z)
<1>1. /\ a \in Nat /\ b \in Nat /\ c \in Nat /\ b < 60 /\ c < 60 /\ p = (a * 60 + b) * 60 + c
      /\ x \in Nat /\ y \in Nat /\ z \in Nat /\ y < 60 /\ z < 60 /\ q = (x * 60 + y) * 60 + z
  BY SMT DEF ClockOf
<1> QED
  BY <1>1, SMT DEF GroupsLess, SameOrder

LEMMA GroupOrder ==
    ASSUME NEW p \in Nat, NEW q \in Nat, NEW a, NEW b, NEW c, NEW x, NEW y, NEW z,
           GroupsOf(p, a, b, c), GroupsOf(q, x, y, z)
    PROVE  SameOrder(p, q, a, b, c, x, y, z) /\ AllZero(p, a, b, c) /\ AllZero(q, x, y, z)
<1>1. /\ a \in Nat /\ b \in Nat /\ c \in Nat /\ b < 1000 /\ c < 1000 /\ p = (a * 1000 + b) * 1000 + c
      /\ x \in Nat /\ y \in Nat /\ z \in Nat /\ y < 1000 /\ z < 1000 /\ q = (x * 1000 + y) * 1000 + z
  BY SMT DEF GroupsOf
<1>2. SameOrder(p, q, a, b, c, x, y, z)
  BY <1>1, SMT DEF GroupsLess, SameOrder
<1>3. AllZero(p, a, b, c)
  BY <1>1, SMT DEF AllZero
<1>4. AllZero(q, x, y, z)
  BY <1>1, SMT DEF AllZero
<1> QED
  BY <1>2, <1>3, <1>4

-----------------------------------------------------------------------------
\* What a concatenation holds.
Joined(h, t, j) ==
    /\ j \in Seq(Int) /\ Len(j) = Len(h) + Len(t)
    /\ \A i \in 1..Len(h) : j[i] = h[i]
    /\ \A i \in 1..Len(t) : j[Len(h) + i] = t[i]

LEMMA Join ==
    ASSUME NEW h \in Seq(Int), NEW t \in Seq(Int)
    PROVE  Joined(h, t, h \o t)
<1>1. Len(h) \in Nat /\ Len(t) \in Nat
  OBVIOUS
<1>2. \A i \in 1..Len(t) : Len(h) + i \in 1..(Len(h) + Len(t)) /\ ~(Len(h) + i <= Len(h)) /\ (Len(h) + i) - Len(h) = i
  BY <1>1
<1>3. \A i \in 1..Len(h) : i \in 1..(Len(h) + Len(t)) /\ i <= Len(h)
  BY <1>1
<1> QED
  BY <1>2, <1>3, ConcatProperties DEF Joined

LEMMA Six ==
    ASSUME NEW a \in Int, NEW b \in Int, NEW c \in Int, NEW d \in Int, NEW e \in Int, NEW f \in Int,
           NEW j, j = <<a, b, c>> \o <<d, e, f>>
    PROVE  /\ j \in Seq(Int) /\ Len(j) = 6 /\ j[1] = a /\ j[2] = b /\ j[3] = c
           /\ j[4] = d /\ j[5] = e /\ j[6] = f
<1>1. PICK x, y : x = <<a, b, c>> /\ y = <<d, e, f>>
  OBVIOUS
<1>2. /\ x \in Seq(Int) /\ Len(x) = 3 /\ x[1] = a /\ x[2] = b /\ x[3] = c
      /\ y \in Seq(Int) /\ Len(y) = 3 /\ y[1] = d /\ y[2] = e /\ y[3] = f
  BY <1>1
<1>3. Joined(x, y, j)
  BY <1>1, <1>2, Join
<1> QED
  BY <1>2, <1>3 DEF Joined

Framed(h, t, p, j) ==
    /\ j \in Seq(Int) /\ Len(j) = 7 + Len(t) /\ j[7 + Len(t)] = p
    /\ \A i \in 1..6 : j[i] = h[i]
    /\ \A i \in 1..Len(t) : j[6 + i] = t[i]

LEMMA Frame ==
    ASSUME NEW h \in Seq(Int), Len(h) = 6, NEW t \in Seq(Int), NEW p \in Int
    PROVE  Framed(h, t, p, h \o t \o <<p>>)
<1>1. PICK x, y, j : x = h \o t /\ y = <<p>> /\ j = h \o t \o <<p>>
  OBVIOUS
<1>2. y \in Seq(Int) /\ Len(y) = 1 /\ y[1] = p /\ j = x \o y /\ Len(t) \in Nat
  BY <1>1
<1>3. Joined(h, t, x)
  BY <1>1, Join
<1>4. Joined(x, y, j)
  <2>1. x \in Seq(Int)
    BY <1>3 DEF Joined
  <2> QED
    BY <1>2, <2>1, Join
<1>5. Len(j) = 7 + Len(t) /\ j[7 + Len(t)] = p
  <2>1. 1 \in 1..Len(y) /\ Len(x) + 1 = 7 + Len(t)
    BY <1>2, <1>3 DEF Joined
  <2> QED
    BY <1>2, <1>3, <1>4, <2>1 DEF Joined
<1>6. \A i \in 1..6 : j[i] = h[i]
  <2>1. \A i \in 1..6 : i \in 1..Len(x)
    BY <1>2, <1>3 DEF Joined
  <2> QED
    BY <1>3, <1>4, <2>1 DEF Joined
<1>7. \A i \in 1..Len(t) : j[6 + i] = t[i]
  <2>1. \A i \in 1..Len(t) : 6 + i \in 1..Len(x)
    BY <1>2, <1>3 DEF Joined
  <2>2. \A i \in 1..Len(t) : x[6 + i] = t[i]
    BY <1>3 DEF Joined
  <2>3. \A i \in 1..Len(x) : j[i] = x[i]
    BY <1>4 DEF Joined
  <2> QED
    BY <2>1, <2>2, <2>3, Zenon
<1> QED
  BY <1>1, <1>4, <1>5, <1>6, <1>7 DEF Joined, Framed

LEMMA Dotted ==
    ASSUME NEW g \in Seq(Int), NEW p \in Int, NEW t, t = <<p>> \o g
    PROVE  t \in Seq(Int) /\ Len(t) = 1 + Len(g) /\ t[1] = p /\ \A i \in 1..Len(g) : t[1 + i] = g[i]
<1>1. PICK x : x = <<p>>
  OBVIOUS
<1>2. x \in Seq(Int) /\ Len(x) = 1 /\ x[1] = p /\ 1 \in 1..Len(x)
  BY <1>1
<1>3. Joined(x, g, t)
  BY <1>1, <1>2, Join
<1> QED
  BY <1>2, <1>3 DEF Joined

\* The fields of a printed time.
Prints(s, y, m, d, h, k, r, a, b, c, g) ==
    /\ s \in Seq(Int) /\ Len(s) >= 7 /\ s[1] = y /\ s[2] = m /\ s[3] = d
    /\ s[4] = h /\ s[5] = k /\ s[6] = r /\ FractionIs(s, a, b, c, g)

LEMMA FirstGroups ==
    ASSUME NEW a \in Nat, NEW b \in Nat, NEW c \in Nat, NEW f, f = <<a, b, c>>
    PROVE  SubSeq(f, 1, 1) = <<a>> /\ SubSeq(f, 1, 2) = <<a, b>> /\ SubSeq(f, 1, 3) = <<a, b, c>>
<1>1. f \in Seq(Nat) /\ Len(f) = 3 /\ f[1] = a /\ f[2] = b /\ f[3] = c
  OBVIOUS
<1>2. \A u \in Seq(Nat) : Len(u) = 1 /\ u[1] = a => u = <<a>>
  OBVIOUS
<1>3. \A u \in Seq(Nat) : Len(u) = 2 /\ u[1] = a /\ u[2] = b => u = <<a, b>>
  OBVIOUS
<1>4. \A u \in Seq(Nat) : Len(u) = 3 /\ u[1] = a /\ u[2] = b /\ u[3] = c => u = <<a, b, c>>
  OBVIOUS
<1>5. SubSeq(f, 1, 1) \in Seq(Nat) /\ Len(SubSeq(f, 1, 1)) = 1 /\ SubSeq(f, 1, 1)[1] = a
  BY <1>1
<1>6. /\ SubSeq(f, 1, 2) \in Seq(Nat) /\ Len(SubSeq(f, 1, 2)) = 2
      /\ SubSeq(f, 1, 2)[1] = a /\ SubSeq(f, 1, 2)[2] = b
  BY <1>1
<1>7. /\ SubSeq(f, 1, 3) \in Seq(Nat) /\ Len(SubSeq(f, 1, 3)) = 3
      /\ SubSeq(f, 1, 3)[1] = a /\ SubSeq(f, 1, 3)[2] = b /\ SubSeq(f, 1, 3)[3] = c
  BY <1>1
<1> QED
  BY <1>2, <1>3, <1>4, <1>5, <1>6, <1>7

\* A fraction that is shown in g groups; the others are zero.
Shows(t, a, b, c, g) ==
    /\ t \in Seq(Int)
    /\ g = 0 => Len(t) = 0 /\ a = 0 /\ b = 0 /\ c = 0
    /\ g = 1 => Len(t) = 2 /\ t[1] = Dot /\ t[2] = a /\ b = 0 /\ c = 0
    /\ g = 2 => Len(t) = 3 /\ t[1] = Dot /\ t[2] = a /\ t[3] = b /\ c = 0
    /\ g = 3 => Len(t) = 4 /\ t[1] = Dot /\ t[2] = a /\ t[3] = b /\ t[4] = c

LEMMA Shown ==
    ASSUME NEW a \in Nat, NEW b \in Nat, NEW c \in Nat
    PROVE  /\ a = 0 /\ b = 0 /\ c = 0 => Shows(<<>>, a, b, c, 0)
           /\ b = 0 /\ c = 0 => Shows(<<Dot>> \o <<a>>, a, b, c, 1)
           /\ c = 0 => Shows(<<Dot>> \o <<a, b>>, a, b, c, 2)
           /\ Shows(<<Dot>> \o <<a, b, c>>, a, b, c, 3)
<1>1. Dot \in Int
  BY DEF Dot
<1>2. a = 0 /\ b = 0 /\ c = 0 => Shows(<<>>, a, b, c, 0)
  BY DEF Shows
<1>3. b = 0 /\ c = 0 => Shows(<<Dot>> \o <<a>>, a, b, c, 1)
  <2>1. PICK e, t : e = <<a>> /\ t = <<Dot>> \o e
    OBVIOUS
  <2>2. e \in Seq(Int) /\ Len(e) = 1 /\ e[1] = a
    BY <2>1
  <2>3. t \in Seq(Int) /\ Len(t) = 1 + Len(e) /\ t[1] = Dot /\ \A i \in 1..Len(e) : t[1 + i] = e[i]
    BY <1>1, <2>1, <2>2, Dotted
  <2>4. Len(t) = 2 /\ t[2] = a
    BY <2>2, <2>3
  <2> QED
    BY <2>1, <2>3, <2>4 DEF Shows
<1>4. c = 0 => Shows(<<Dot>> \o <<a, b>>, a, b, c, 2)
  <2>1. PICK e, t : e = <<a, b>> /\ t = <<Dot>> \o e
    OBVIOUS
  <2>2. e \in Seq(Int) /\ Len(e) = 2 /\ e[1] = a /\ e[2] = b
    BY <2>1
  <2>3. t \in Seq(Int) /\ Len(t) = 1 + Len(e) /\ t[1] = Dot /\ \A i \in 1..Len(e) : t[1 + i] = e[i]
    BY <1>1, <2>1, <2>2, Dotted
  <2>4. Len(t) = 3 /\ t[2] = a /\ t[3] = b
    BY <2>2, <2>3
  <2> QED
    BY <2>1, <2>3, <2>4 DEF Shows
<1>5. Shows(<<Dot>> \o <<a, b, c>>, a, b, c, 3)
  <2>1. PICK e, t : e = <<a, b, c>> /\ t = <<Dot>> \o e
    OBVIOUS
  <2>2. e \in Seq(Int) /\ Len(e) = 3 /\ e[1] = a /\ e[2] = b /\ e[3] = c
    BY <2>1
  <2>3. t \in Seq(Int) /\ Len(t) = 1 + Len(e) /\ t[1] = Dot /\ \A i \in 1..Len(e) : t[1 + i] = e[i]
    BY <1>1, <2>1, <2>2, Dotted
  <2>4. Len(t) = 4 /\ t[2] = a /\ t[3] = b /\ t[4] = c
    BY <2>2, <2>3
  <2> QED
    BY <2>1, <2>3, <2>4 DEF Shows
<1> QED
  BY <1>2, <1>3, <1>4, <1>5

LEMMA FramedFraction ==
    ASSUME NEW f, NEW t, NEW s, Framed(f, t, Plus, s), NEW a, NEW b, NEW c, NEW g \in 0..3,
           Shows(t, a, b, c, g)
    PROVE  FractionIs(s, a, b, c, g) /\ Len(s) >= 7
<1>1. CASE g = 0
  <2>1. Len(t) = 0 /\ a = 0 /\ b = 0 /\ c = 0
    BY <1>1 DEF Shows
  <2>2. Len(s) = 7 /\ s[7] = Plus
    BY <2>1 DEF Framed
  <2> QED
    BY <1>1, <2>1, <2>2 DEF FractionIs
<1>2. CASE g = 1
  <2>1. Len(t) = 2 /\ t[1] = Dot /\ t[2] = a /\ b = 0 /\ c = 0
    BY <1>2 DEF Shows
  <2>2. Len(s) = 9 /\ s[7] = t[1] /\ s[8] = t[2] /\ s[9] = Plus
    BY <2>1 DEF Framed
  <2> QED
    BY <1>2, <2>1, <2>2 DEF FractionIs
<1>3. CASE g = 2
  <2>1. Len(t) = 3 /\ t[1] = Dot /\ t[2] = a /\ t[3] = b /\ c = 0
    BY <1>3 DEF Shows
  <2>2. Len(s) = 10 /\ s[7] = t[1] /\ s[8] = t[2] /\ s[9] = t[3] /\ s[10] = Plus
    BY <2>1 DEF Framed
  <2> QED
    BY <1>3, <2>1, <2>2 DEF FractionIs
<1>4. CASE g = 3
  <2>1. Len(t) = 4 /\ t[1] = Dot /\ t[2] = a /\ t[3] = b /\ t[4] = c
    BY <1>4 DEF Shows
  <2>2. Len(s) = 11 /\ s[7] = t[1] /\ s[8] = t[2] /\ s[9] = t[3] /\ s[10] = t[4] /\ s[11] = Plus
    BY <2>1 DEF Framed
  <2> QED
    BY <1>4, <2>1, <2>2 DEF FractionIs
<1> QED
  BY <1>1, <1>2, <1>3, <1>4

\* A time is printed as its six fields, the groups of its fraction that are shown, and the offset.
LEMMA Printed ==
    ASSUME NEW y \in Int, NEW m \in Int, NEW d \in Int, NEW h \in Int, NEW k \in Int, NEW r \in Int,
           NEW a, NEW b, NEW c, NEW g \in 0..3, NEW t, Shows(t, a, b, c, g)
    PROVE  Prints(<<y, m, d>> \o <<h, k, r>> \o t \o <<Plus>>, y, m, d, h, k, r, a, b, c, g)
<1>1. PICK f, s : f = <<y, m, d>> \o <<h, k, r>> /\ s = f \o t \o <<Plus>>
  OBVIOUS
<1>2. /\ f \in Seq(Int) /\ Len(f) = 6 /\ f[1] = y /\ f[2] = m /\ f[3] = d
      /\ f[4] = h /\ f[5] = k /\ f[6] = r
  BY <1>1, Six
<1>3. Plus \in Int /\ t \in Seq(Int)
  BY DEF Plus, Shows
<1>4. Framed(f, t, Plus, s)
  BY <1>1, <1>2, <1>3, Frame
<1>5. FractionIs(s, a, b, c, g) /\ Len(s) >= 7
  BY <1>4, FramedFraction
<1>6. s \in Seq(Int) /\ \A i \in 1..6 : s[i] = f[i]
  BY <1>4 DEF Framed
<1>7. s[1] = y /\ s[2] = m /\ s[3] = d /\ s[4] = h /\ s[5] = k /\ s[6] = r
  BY <1>2, <1>6
<1>8. Prints(s, y, m, d, h, k, r, a, b, c, g)
  BY <1>5, <1>6, <1>7 DEF Prints
<1> QED
  BY <1>1, <1>8

\* Days compare as their dates do.
LEMMA DateOrder ==
    ASSUME NEW p \in Nat, NEW q \in Nat, NEW y, NEW m, NEW d, NEW u, NEW k, NEW e,
           IsDate(y, m, d), IsDate(u, k, e),
           days_from_civil(y, m, d) = p, days_from_civil(u, k, e) = q
    PROVE  /\ p < q <=> GroupsLess(y, m, d, u, k, e)
           /\ p = q <=> y = u /\ m = k /\ d = e
<1>1. /\ y \in Nat /\ m \in Nat /\ d \in Nat /\ u \in Nat /\ k \in Nat /\ e \in Nat
  BY SMT DEF IsDate
<1>2. GroupsLess(y, m, d, u, k, e) => p < q
  BY DatesGrow, SMT DEF GroupsLess, DateBefore
<1>3. GroupsLess(u, k, e, y, m, d) => q < p
  BY DatesGrow, SMT DEF GroupsLess, DateBefore
<1>4. GroupsLess(y, m, d, u, k, e) \/ GroupsLess(u, k, e, y, m, d) \/ (y = u /\ m = k /\ d = e)
  BY <1>1, SMT DEF GroupsLess
<1>5. y = u /\ m = k /\ d = e => p = q
  OBVIOUS
<1> QED
  BY <1>2, <1>3, <1>4, <1>5

\* What the fields of a time are.
Digits(t, y, m, d, h, k, r, a, b, c) ==
    /\ IsDate(y, m, d) /\ civil_from_days(t.days) = <<y, m, d>> /\ days_from_civil(y, m, d) = t.days
    /\ ClockOf(t.second, h, k, r) /\ Clock(t) = <<h, k, r>>
    /\ GroupsOf(t.subsec, a, b, c) /\ Groups(t.subsec) = <<a, b, c>>

LEMMA HasDigits ==
    ASSUME NEW t \in Instants
    PROVE  \E y, m, d, h, k, r, a, b, c : Digits(t, y, m, d, h, k, r, a, b, c)
<1>1. t.days \in Nat /\ t.second \in Nat /\ t.subsec \in Nat
  BY InputsAssumption, SMT
<1>2. PICK y, m, d : /\ IsDate(y, m, d) /\ civil_from_days(t.days) = <<y, m, d>>
                     /\ days_from_civil(y, m, d) = t.days
  BY <1>1, EveryDay
<1>3. PICK h, k, r : ClockOf(t.second, h, k, r)
  BY <1>1, ClockDigits
<1>4. PICK a, b, c : GroupsOf(t.subsec, a, b, c)
  BY <1>1, GroupDigits
<1>5. Clock(t) = <<h, k, r>>
  BY <1>3, SMT DEF Clock, ClockOf
<1>6. Groups(t.subsec) = <<a, b, c>>
  <2>1. Group = 1000 /\ Group * Group = 1000000
    BY SMT DEF Group
  <2> QED
    BY <1>4, <2>1, SMT DEF Groups, GroupsOf
<1>7. Digits(t, y, m, d, h, k, r, a, b, c)
  BY <1>2, <1>3, <1>4, <1>5, <1>6 DEF Digits
<1> QED
  BY <1>7

LEMMA AgentPrints ==
    ASSUME NEW t \in Instants, NEW y, NEW m, NEW d, NEW h, NEW k, NEW r, NEW a, NEW b, NEW c,
           Digits(t, y, m, d, h, k, r, a, b, c)
    PROVE  \E g \in {0, 3} :
              /\ g = 0 <=> t.subsec = 0
              /\ Prints(unix_nanos_to_rfc3339(t), y, m, d, h, k, r, a, b, c, g)
<1>1. /\ y \in Int /\ m \in Int /\ d \in Int /\ h \in Int /\ k \in Int /\ r \in Int
      /\ a \in Nat /\ b \in Nat /\ c \in Nat
  BY SMT DEF Digits, IsDate, ClockOf, GroupsOf
<1>2. /\ civil_from_days(t.days) = <<y, m, d>> /\ Clock(t) = <<h, k, r>>
      /\ Groups(t.subsec) = <<a, b, c>> /\ GroupsOf(t.subsec, a, b, c)
  BY DEF Digits
<1>3. CASE t.subsec = 0
  <2>1. a = 0 /\ b = 0 /\ c = 0
    BY <1>2, <1>3, SMT DEF GroupsOf
  <2>2. unix_nanos_to_rfc3339(t) = <<y, m, d>> \o <<h, k, r>> \o <<>> \o <<Plus>>
    BY <1>2, <1>3 DEF unix_nanos_to_rfc3339
  <2>3. Shows(<<>>, a, b, c, 0)
    BY <1>1, <2>1, Shown
  <2>4. Prints(unix_nanos_to_rfc3339(t), y, m, d, h, k, r, a, b, c, 0)
    <3>1. 0 \in 0..3
      OBVIOUS
    <3>2. Prints(<<y, m, d>> \o <<h, k, r>> \o <<>> \o <<Plus>>, y, m, d, h, k, r, a, b, c, 0)
      BY <1>1, <2>3, <3>1, Printed, Zenon
    <3> QED
      BY <2>2, <3>2, Zenon
  <2> QED
    BY <1>3, <2>4
<1>4. CASE t.subsec # 0
  <2>1. unix_nanos_to_rfc3339(t) = <<y, m, d>> \o <<h, k, r>> \o (<<Dot>> \o <<a, b, c>>) \o <<Plus>>
    BY <1>2, <1>4 DEF unix_nanos_to_rfc3339
  <2>2. Shows(<<Dot>> \o <<a, b, c>>, a, b, c, 3)
    BY <1>1, Shown
  <2>3. Prints(unix_nanos_to_rfc3339(t), y, m, d, h, k, r, a, b, c, 3)
    <3>1. 3 \in 0..3
      OBVIOUS
    <3>2. Prints(<<y, m, d>> \o <<h, k, r>> \o (<<Dot>> \o <<a, b, c>>) \o <<Plus>>,
                 y, m, d, h, k, r, a, b, c, 3)
      BY <1>1, <2>2, <3>1, Printed, Zenon
    <3> QED
      BY <2>1, <3>2, Zenon
  <2> QED
    BY <1>4, <2>3
<1> QED
  BY <1>3, <1>4

LEMMA ChronoPrints ==
    ASSUME NEW t \in Instants, NEW y, NEW m, NEW d, NEW h, NEW k, NEW r, NEW a, NEW b, NEW c,
           Digits(t, y, m, d, h, k, r, a, b, c)
    PROVE  \E g \in 0..3 :
              /\ g = 0 <=> t.subsec = 0
              /\ Prints(to_rfc3339(t), y, m, d, h, k, r, a, b, c, g)
<1>1. /\ y \in Int /\ m \in Int /\ d \in Int /\ h \in Int /\ k \in Int /\ r \in Int
      /\ a \in Nat /\ b \in Nat /\ c \in Nat
  BY SMT DEF Digits, IsDate, ClockOf, GroupsOf
<1>2. /\ civil_from_days(t.days) = <<y, m, d>> /\ Clock(t) = <<h, k, r>>
      /\ Groups(t.subsec) = <<a, b, c>> /\ GroupsOf(t.subsec, a, b, c)
  BY DEF Digits
<1>3. PICK f, g : /\ f = <<a, b, c>>
                  /\ g = IF t.subsec = 0 THEN 0 ELSE IF c # 0 THEN 3 ELSE IF b # 0 THEN 2 ELSE 1
  OBVIOUS
<1>4. to_rfc3339(t) = <<y, m, d>> \o <<h, k, r>>
                        \o (IF g = 0 THEN <<>> ELSE <<Dot>> \o SubSeq(f, 1, g)) \o <<Plus>>
  <2>1. f[3] = c /\ f[2] = b /\ Groups(t.subsec) = f
    BY <1>2, <1>3
  <2> QED
    BY <1>2, <1>3, <2>1 DEF to_rfc3339
<1>5. PICK e : e = IF g = 0 THEN <<>> ELSE <<Dot>> \o SubSeq(f, 1, g)
  OBVIOUS
<1>6. Shows(e, a, b, c, g)
  <2>1. /\ SubSeq(f, 1, 1) = <<a>> /\ SubSeq(f, 1, 2) = <<a, b>> /\ SubSeq(f, 1, 3) = <<a, b, c>>
    BY <1>1, <1>3, FirstGroups
  <2>2. CASE g = 0
    <3>1. a = 0 /\ b = 0 /\ c = 0
      BY <1>2, <1>3, <2>2, SMT DEF GroupsOf
    <3> QED
      BY <1>1, <1>5, <2>2, <3>1, Shown
  <2>3. CASE g = 1
    <3>1. b = 0 /\ c = 0 /\ e = <<Dot>> \o <<a>>
      BY <1>3, <1>5, <2>1, <2>3
    <3> QED
      BY <1>1, <2>3, <3>1, Shown
  <2>4. CASE g = 2
    <3>1. c = 0 /\ e = <<Dot>> \o <<a, b>>
      BY <1>3, <1>5, <2>1, <2>4
    <3> QED
      BY <1>1, <2>4, <3>1, Shown
  <2>5. CASE g = 3
    <3>1. e = <<Dot>> \o <<a, b, c>>
      BY <1>3, <1>5, <2>1, <2>5
    <3> QED
      BY <1>1, <2>5, <3>1, Shown
  <2> QED
    BY <1>3, <2>2, <2>3, <2>4, <2>5
<1>7. g \in 0..3 /\ (g = 0 <=> t.subsec = 0)
  BY <1>3
<1>8. Prints(to_rfc3339(t), y, m, d, h, k, r, a, b, c, g)
  <2>1. Prints(<<y, m, d>> \o <<h, k, r>> \o e \o <<Plus>>, y, m, d, h, k, r, a, b, c, g)
    BY <1>1, <1>6, <1>7, Printed, Zenon
  <2>2. to_rfc3339(t) = <<y, m, d>> \o <<h, k, r>> \o e \o <<Plus>>
    BY <1>4, <1>5, Zenon
  <2> QED
    BY <2>1, <2>2, Zenon
<1> QED
  BY <1>7, <1>8

PrintedTime(s, t, shown) ==
    \E y, m, d, h, k, r, a, b, c, g :
        /\ g \in shown /\ (g = 0 <=> t.subsec = 0) /\ Digits(t, y, m, d, h, k, r, a, b, c)
        /\ Prints(s, y, m, d, h, k, r, a, b, c, g)

LEMMA AgentPrintedTime ==
    ASSUME NEW t \in Instants
    PROVE  /\ PrintedTime(unix_nanos_to_rfc3339(t), t, {0, 3})
           /\ PrintedTime(unix_nanos_to_rfc3339(t), t, 0..3)
<1>1. PICK y, m, d, h, k, r, a, b, c : Digits(t, y, m, d, h, k, r, a, b, c)
  BY HasDigits
<1>2. PICK g \in {0, 3} : /\ g = 0 <=> t.subsec = 0
                          /\ Prints(unix_nanos_to_rfc3339(t), y, m, d, h, k, r, a, b, c, g)
  BY <1>1, AgentPrints, Zenon
<1>3. g \in 0..3
  BY <1>2
<1> QED
  BY <1>1, <1>2, <1>3, Zenon DEF PrintedTime

LEMMA ChronoPrintedTime ==
    ASSUME NEW t \in Instants
    PROVE  PrintedTime(to_rfc3339(t), t, 0..3)
<1>1. PICK y, m, d, h, k, r, a, b, c : Digits(t, y, m, d, h, k, r, a, b, c)
  BY HasDigits
<1>2. PICK g \in 0..3 : /\ g = 0 <=> t.subsec = 0
                        /\ Prints(to_rfc3339(t), y, m, d, h, k, r, a, b, c, g)
  BY <1>1, ChronoPrints, Zenon
<1> QED
  BY <1>1, <1>2, Zenon DEF PrintedTime

\* Printed times compare as the times do, whatever the second one's groups are.
LEMMA PrintedOrder ==
    ASSUME NEW p \in Instants, NEW q \in Instants, NEW s, NEW t,
           PrintedTime(s, p, {0, 3}), PrintedTime(t, q, 0..3)
    PROVE  StringLess(s, t) <=> Before(p, q)
<1>a. PICK y, m, d, h, k, r, a, b, c, g :
          /\ g \in {0, 3} /\ (g = 0 <=> p.subsec = 0) /\ Digits(p, y, m, d, h, k, r, a, b, c)
          /\ Prints(s, y, m, d, h, k, r, a, b, c, g)
  BY DEF PrintedTime
<1>b. PICK y2, m2, d2, h2, k2, r2, a2, b2, c2, g2 :
          /\ g2 \in 0..3 /\ (g2 = 0 <=> q.subsec = 0)
          /\ Digits(q, y2, m2, d2, h2, k2, r2, a2, b2, c2)
          /\ Prints(t, y2, m2, d2, h2, k2, r2, a2, b2, c2, g2)
  BY DEF PrintedTime
<1> USE <1>a, <1>b
<1>1. /\ p.days \in Nat /\ p.second \in Nat /\ p.subsec \in Nat
      /\ q.days \in Nat /\ q.second \in Nat /\ q.subsec \in Nat
  BY InputsAssumption, SMT
<1>2. /\ p.days < q.days <=> GroupsLess(y, m, d, y2, m2, d2)
      /\ p.days = q.days <=> y = y2 /\ m = m2 /\ d = d2
  BY <1>1, DateOrder DEF Digits
<1>3. /\ p.second < q.second <=> GroupsLess(h, k, r, h2, k2, r2)
      /\ p.second = q.second <=> h = h2 /\ k = k2 /\ r = r2
  <2>1. ClockOf(p.second, h, k, r) /\ ClockOf(q.second, h2, k2, r2)
    BY DEF Digits
  <2>2. SameOrder(p.second, q.second, h, k, r, h2, k2, r2)
    BY <1>1, <2>1, ClockOrder
  <2> QED
    BY <2>2 DEF SameOrder
<1>4. /\ p.subsec < q.subsec <=> GroupsLess(a, b, c, a2, b2, c2)
      /\ p.subsec = 0 <=> a = 0 /\ b = 0 /\ c = 0
      /\ q.subsec = 0 <=> a2 = 0 /\ b2 = 0 /\ c2 = 0
  <2>1. GroupsOf(p.subsec, a, b, c) /\ GroupsOf(q.subsec, a2, b2, c2)
    BY DEF Digits
  <2>2. /\ SameOrder(p.subsec, q.subsec, a, b, c, a2, b2, c2)
        /\ AllZero(p.subsec, a, b, c) /\ AllZero(q.subsec, a2, b2, c2)
    BY <1>1, <2>1, GroupOrder
  <2> QED
    BY <2>2 DEF SameOrder, AllZero
<1>5. StringLess(s, t) <=> HeadLess(s, t) \/ (SameHead(s, t) /\ LessFrom(s, t, 7))
  BY HeadFirst DEF Prints
<1>6. LessFrom(s, t, 7) <=> GroupsLess(a, b, c, a2, b2, c2)
  <2>1. a \in Nat /\ b \in Nat /\ c \in Nat /\ a2 \in Nat /\ b2 \in Nat /\ c2 \in Nat
    BY SMT DEF Digits, GroupsOf
  <2>2. s \in Seq(Int) /\ t \in Seq(Int) /\ FractionIs(s, a, b, c, g) /\ FractionIs(t, a2, b2, c2, g2)
    BY DEF Prints
  <2>3. (g # 0 => ~(a = 0 /\ b = 0 /\ c = 0)) /\ (g2 # 0 => ~(a2 = 0 /\ b2 = 0 /\ c2 = 0))
    BY <1>4
  <2> QED
    BY <2>1, <2>2, <2>3, TailLess
<1>7. SameHead(s, t) <=> p.days = q.days /\ p.second = q.second
  BY <1>2, <1>3 DEF SameHead, Prints
<1>8. HeadLess(s, t) <=> \/ GroupsLess(y, m, d, y2, m2, d2)
                         \/ y = y2 /\ m = m2 /\ d = d2 /\ GroupsLess(h, k, r, h2, k2, r2)
  BY DEF HeadLess, Prints, GroupsLess
<1> QED
  BY <1>2, <1>3, <1>4, <1>5, <1>6, <1>7, <1>8 DEF Before

\* The controller sink reads the time back.
LEMMA ReadBack ==
    ASSUME NEW p \in Instants, NEW s, PrintedTime(s, p, {0, 3})
    PROVE  timestamp_to_unix_nanos(s) = p
<1>a. PICK y, m, d, h, k, r, a, b, c, g :
          /\ g \in {0, 3} /\ (g = 0 <=> p.subsec = 0) /\ Digits(p, y, m, d, h, k, r, a, b, c)
          /\ Prints(s, y, m, d, h, k, r, a, b, c, g)
  BY DEF PrintedTime
<1> USE <1>a
<1>1. /\ p.days \in Nat /\ p.second \in Nat /\ p.subsec \in Nat
      /\ p = [days |-> p.days, second |-> p.second, subsec |-> p.subsec]
  BY InputsAssumption
<1>2. s[1] = y /\ s[2] = m /\ s[3] = d /\ s[4] = h /\ s[5] = k /\ s[6] = r /\ s \in Seq(Int)
  BY DEF Prints
<1>3. days_from_civil(s[1], s[2], s[3]) = p.days
  BY <1>2 DEF Digits
<1>4. s[4] * 3600 + s[5] * 60 + s[6] = p.second
  <2>1. h \in Nat /\ k \in Nat /\ r \in Nat /\ p.second = (h * 60 + k) * 60 + r
    BY SMT DEF Digits, ClockOf
  <2>2. h * 3600 + k * 60 + r = (h * 60 + k) * 60 + r
    BY <2>1, SMT
  <2> QED
    BY <1>2, <2>1, <2>2
<1>5. (IF s[7] = Dot THEN fraction_nanos(SubSeq(s, 8, Len(s) - 1)) ELSE 0) = p.subsec
  <2>1. CASE g = 0
    <3>1. s[7] = Plus /\ Plus # Dot
      BY <2>1 DEF Prints, FractionIs, Plus, Dot
    <3> QED
      BY <2>1, <3>1
  <2>2. CASE g = 3
    <3>1. s[7] = Dot /\ Len(s) = 11 /\ s[8] = a /\ s[9] = b /\ s[10] = c
      BY <2>2 DEF Prints, FractionIs
    <3>2. PICK e : e = SubSeq(s, 8, Len(s) - 1)
      OBVIOUS
    <3>3. Len(e) = 3 /\ e[1] = s[8] /\ e[2] = s[9] /\ e[3] = s[10]
      <4>1. Len(s) - 1 = 10
        BY <3>1
      <4>2. e = SubSeq(s, 8, 10)
        BY <3>2, <4>1
      <4> QED
        BY <1>2, <3>1, <4>2
    <3>4. fraction_nanos(e) = (a * 1000 + b) * 1000 + c
      BY <3>1, <3>3 DEF fraction_nanos, Group
    <3>5. p.subsec = (a * 1000 + b) * 1000 + c
      BY SMT DEF Digits, GroupsOf
    <3> QED
      BY <3>1, <3>2, <3>4, <3>5
  <2> QED
    BY <2>1, <2>2
<1> QED
  BY <1>1, <1>3, <1>4, <1>5 DEF timestamp_to_unix_nanos, Instant

InstantsOK == \E p \in Instants, q \in Instants : work = [kind |-> "instants", a |-> p, b |-> q]

LEMMA InstantsHold == InstantsOK => CutoffExact
<1> SUFFICES ASSUME InstantsOK PROVE CutoffExact
  OBVIOUS
<1>1. PICK p \in Instants, q \in Instants : work = [kind |-> "instants", a |-> p, b |-> q]
  BY DEF InstantsOK
<1>2. work.a = p /\ work.b = q
  BY <1>1
<1>3. PrintedTime(unix_nanos_to_rfc3339(p), p, {0, 3})
  BY AgentPrintedTime
<1>4. PrintedTime(unix_nanos_to_rfc3339(q), q, 0..3) /\ PrintedTime(to_rfc3339(q), q, 0..3)
  BY AgentPrintedTime, ChronoPrintedTime
<1>5. StringLess(unix_nanos_to_rfc3339(p), to_rfc3339(q)) <=> Before(p, q)
  BY <1>3, <1>4, PrintedOrder
<1>6. StringLess(unix_nanos_to_rfc3339(p), unix_nanos_to_rfc3339(q)) <=> Before(p, q)
  BY <1>3, <1>4, PrintedOrder
<1>7. timestamp_to_unix_nanos(unix_nanos_to_rfc3339(p)) = p
  BY <1>3, ReadBack
<1> QED
  BY <1>2, <1>5, <1>6, <1>7, Zenon DEF CutoffExact, SinceCutoff

-----------------------------------------------------------------------------
(* Names and events.                                                       *)

IdentityOK == \E x \in Identities : work = [kind |-> "identity", with |-> x]

LEMMA Named ==
    ASSUME NEW env \in [TAPIO_NODE_NAME : EnvValues, HOSTNAME : EnvValues,
                        TAPIO_AGENT_ID : EnvValues],
           NEW file \in EnvValues, NEW applied
    PROVE  LET named == required(agent_id(env)) /\ required(node_name(env))
           IN /\ HelloValid(build_hello_request(env, file)) <=> named
              /\ HeartbeatValid(build_heartbeat(env, applied)) <=> named
              /\ ConfigQueryValid(agent_id(env), node_name(env)) <=> named
<1> DEFINE named == required(agent_id(env)) /\ required(node_name(env))
<1>1. HelloValid(build_hello_request(env, file)) <=> named
  <2>1. kernel_release(file) = Text
    BY DEF kernel_release, EnvValues
  <2>2. required(Text)
    BY DEF required, Text, Blank
  <2> QED
    BY <2>1, <2>2 DEF HelloValid, build_hello_request
<1>2. HeartbeatValid(build_heartbeat(env, applied)) <=> named
  <2>1. DOMAIN build_heartbeat(env, applied).observers # {}
    BY DEF build_heartbeat
  <2>2. required(Text)
    BY DEF required, Text, Blank
  <2> QED
    BY <2>1, <2>2 DEF HeartbeatValid, build_heartbeat
<1>3. ConfigQueryValid(agent_id(env), node_name(env)) <=> named
  BY DEF ConfigQueryValid
<1> QED
  BY <1>1, <1>2, <1>3

LEMMA TwoEvents ==
    ASSUME NEW agent, NEW node, NEW o, NEW p, NEW m,
           m = [wire_version |-> WIRE_VERSION, agent_id |-> agent, node_name |-> node,
                events |-> [i \in 1..2 |-> occurrence_to_wire_event(<<o, p>>[i])]]
    PROVE  EventBatchValid(m, 2) <=>
              /\ required(agent) /\ required(node)
              /\ WireEventValid(occurrence_to_wire_event(o))
              /\ WireEventValid(occurrence_to_wire_event(p))
<1>1. PICK e : e = [i \in 1..2 |-> occurrence_to_wire_event(<<o, p>>[i])]
  OBVIOUS
<1>2. e[1] = occurrence_to_wire_event(o) /\ e[2] = occurrence_to_wire_event(p)
  BY <1>1
<1>3. Len(e) = 2 /\ DOMAIN e = 1..2
  BY <1>1
<1>4. e # <<>>
  BY <1>3
<1>5. (\A i \in DOMAIN e : WireEventValid(e[i]))
          <=> WireEventValid(occurrence_to_wire_event(o)) /\ WireEventValid(occurrence_to_wire_event(p))
  <2>1. 1..2 = {1, 2}
    OBVIOUS
  <2> QED
    BY <1>2, <1>3, <2>1
<1>6. m.events = e /\ m.wire_version = WIRE_VERSION /\ m.agent_id = agent /\ m.node_name = node
  BY <1>1
<1> QED
  BY <1>3, <1>4, <1>5, <1>6 DEF EventBatchValid

LEMMA FactsDecide ==
    ASSUME NEW env, NEW type, EventTypeOk(type), NEW facts,
           \A path \in facts : path \in Seq(STRING)
    PROVE  LET named == required(agent_id(env)) /\ required(node_name(env))
               occ(t, f) == [type |-> t, data |-> f]
               Keys(path) == {path[i] : i \in DOMAIN path}
               batch == build_batch(env, <<occ(type, {}), occ(type, facts)>>)
               reasons == {path \in facts : Reasoning \in Keys(path)}
           IN /\ EventBatchValid(batch, 2) => named /\ \A path \in reasons : "[]" \in Keys(path)
              /\ named /\ reasons = {} => EventBatchValid(batch, 2)
<1> DEFINE named == required(agent_id(env)) /\ required(node_name(env))
           occ(t, f) == [type |-> t, data |-> f]
           Keys(path) == {path[i] : i \in DOMAIN path}
           batch == build_batch(env, <<occ(type, {}), occ(type, facts)>>)
           reasons == {path \in facts : Reasoning \in Keys(path)}
           event(f) == [type |-> type, observer |-> type[2], facts |-> f]
<1>1. batch = [wire_version |-> WIRE_VERSION, agent_id |-> agent_id(env), node_name |-> node_name(env),
               events |-> [i \in 1..2 |->
                   occurrence_to_wire_event(<<occ(type, {}), occ(type, facts)>>[i])]]
  BY DEF build_batch
<1>2. EventBatchValid(batch, 2) <=> named /\ WireEventValid(event({})) /\ WireEventValid(event(facts))
  <2>1. EventBatchValid(batch, 2) <=>
            /\ named /\ WireEventValid(occurrence_to_wire_event(occ(type, {})))
            /\ WireEventValid(occurrence_to_wire_event(occ(type, facts)))
    <3>1. PICK m, o, p : m = batch /\ o = occ(type, {}) /\ p = occ(type, facts)
      OBVIOUS
    <3>2. m = [wire_version |-> WIRE_VERSION, agent_id |-> agent_id(env), node_name |-> node_name(env),
               events |-> [i \in 1..2 |-> occurrence_to_wire_event(<<o, p>>[i])]]
      BY <1>1, <3>1
    <3> HIDE DEF batch, occ
    <3>3. EventBatchValid(m, 2) <=> /\ named /\ WireEventValid(occurrence_to_wire_event(o))
                                    /\ WireEventValid(occurrence_to_wire_event(p))
      BY <3>2, TwoEvents
    <3> QED
      BY <3>1, <3>3
  <2>2. \A f : occurrence_to_wire_event(occ(type, f)) = event(f)
    BY DEF occurrence_to_wire_event
  <2> QED
    BY <2>1, <2>2
<1>3. \A f : WireEventValid(event(f)) <=> ~reject_reasoning_fields(f)
  BY DEF WireEventValid, EventTypeOk, required
<1>4. ~reject_reasoning_fields({})
  BY DEF reject_reasoning_fields
<1>5. reasons = {} => ~reject_reasoning_fields(facts)
  BY DEF reject_reasoning_fields
<1>6. ASSUME ~reject_reasoning_fields(facts), NEW path \in reasons PROVE "[]" \in Keys(path)
  <2>1. PICK i \in DOMAIN path : path[i] = Reasoning
    OBVIOUS
  <2>2. PICK j \in 1..(i - 1) : path[j] = "[]"
    BY <1>6, <2>1 DEF reject_reasoning_fields
  <2>3. j \in DOMAIN path
    BY <2>1, <2>2
  <2> QED
    BY <2>2, <2>3
<1> QED
  BY <1>2, <1>3, <1>4, <1>5, <1>6

LEMMA IdentityHolds == IdentityOK => NamesDecide
<1> SUFFICES ASSUME IdentityOK PROVE NamesDecide
  OBVIOUS
<1>1. PICK x \in Identities : work = [kind |-> "identity", with |-> x]
  BY DEF IdentityOK
<1>2. /\ x.env \in [TAPIO_NODE_NAME : EnvValues, HOSTNAME : EnvValues, TAPIO_AGENT_ID : EnvValues]
      /\ x.file \in EnvValues
  BY InputsAssumption
<1>3. work.with = x
  BY <1>1
<1>4. \A facts \in Facts : \A path \in facts : path \in Seq(STRING)
  BY InputsAssumption
<1>5. LET named == required(agent_id(x.env)) /\ required(node_name(x.env))
      IN /\ HelloValid(build_hello_request(x.env, x.file)) <=> named
         /\ HeartbeatValid(build_heartbeat(x.env, x.applied)) <=> named
         /\ ConfigQueryValid(agent_id(x.env), node_name(x.env)) <=> named
  BY <1>2, Named
<1>6. ASSUME NEW type \in {t \in Types : EventTypeOk(t)}, NEW facts \in Facts
      PROVE  LET named == required(agent_id(x.env)) /\ required(node_name(x.env))
                 occ(t, f) == [type |-> t, data |-> f]
                 Keys(path) == {path[i] : i \in DOMAIN path}
                 batch == build_batch(x.env, <<occ(type, {}), occ(type, facts)>>)
                 reasons == {path \in facts : Reasoning \in Keys(path)}
             IN /\ EventBatchValid(batch, 2) => named /\ \A path \in reasons : "[]" \in Keys(path)
                /\ named /\ reasons = {} => EventBatchValid(batch, 2)
  BY <1>4, FactsDecide
<1> QED
  BY <1>3, <1>5, <1>6 DEF NamesDecide

-----------------------------------------------------------------------------
(* Splitting.                                                              *)

\* RequestLen and Fits, of a buffer and limits.
LenOf(b, x, y) == saturating_add(EmptyLen, b.total[y] - b.total[x] + (y - x - 1))
FitsIn(b, l, x, y) == y - x <= l.max_batch_events /\ LenOf(b, x, y) <= l.max_request_bytes

Start(cuts) == IF cuts = <<>> THEN 0 ELSE cuts[Len(cuts)]
BeginOf(cuts, k) == IF k = 1 THEN 0 ELSE cuts[k - 1]

\* A batch from the x-th event to the y-th is a greedy one.
Greedy(b, l, x, y, batch) ==
    /\ x < y /\ batch = SubSeq(b.events, x + 1, y)
    /\ \A z \in (x + 2)..y : FitsIn(b, l, x, z)

Closed(b, l, batches, cuts) ==
    \A k \in 1..Len(cuts) :
        /\ cuts[k] < Len(b.events) /\ Greedy(b, l, BeginOf(cuts, k), cuts[k], batches[k])
        /\ ~FitsIn(b, l, BeginOf(cuts, k), cuts[k] + 1)

\* The batch being filled, from the s-th event on.
Open(b, l, s, at, current, len) ==
    \/ s = 0 /\ at = 0 /\ current = <<>> /\ len = EmptyLen
    \/ Greedy(b, l, s, at, current) /\ len = LenOf(b, s, at)

SplitState(b, l, at, batches, current, len, cuts) ==
    /\ at \in 0..Len(b.events) /\ cuts \in Seq(Nat)
    /\ batches \in Seq(Seq(U64)) /\ Len(batches) = Len(cuts)
    /\ Start(cuts) \in Nat
    /\ Closed(b, l, batches, cuts) /\ Open(b, l, Start(cuts), at, current, len)

SplitOK ==
    \E b \in Buffers, l \in Limits : \E at, batches, current, len, cuts :
        /\ work = [kind |-> "split", buffer |-> b, limits |-> l, at |-> at,
                   acc |-> [batches |-> batches, current |-> current, current_len |-> len],
                   cuts |-> cuts]
        /\ SplitState(b, l, at, batches, current, len, cuts)

-----------------------------------------------------------------------------

LEMMA Saturates ==
    ASSUME NEW e \in U64, NEW x \in Int, NEW c \in Nat, NEW v \in U64
    PROVE  saturating_add(saturating_add(saturating_add(e, x), c), v) = saturating_add(e, x + c + v)
BY WidthAssumption, SMT DEF saturating_add, U64

LEMMA BufferFacts ==
    ASSUME NEW b \in Buffers, NEW at \in 0..(Len(b.events) - 1)
    PROVE  /\ b.events \in Seq(U64) /\ Len(b.events) \in Nat
           /\ at + 1 \in DOMAIN b.events /\ b.events[at + 1] \in U64
           /\ \A n \in 0..Len(b.events) : b.total[n] \in Nat
           /\ b.total[at + 1] = b.total[at] + b.events[at + 1]
<1>1. /\ b.events \in Seq(U64)
      /\ b.total \in [0..Len(b.events) -> Nat] /\ b.total[0] = 0
      /\ \A n \in 1..Len(b.events) : b.total[n] = b.total[n - 1] + b.events[n]
  BY BuffersAssumption
<1>2. at + 1 \in 1..Len(b.events) /\ (at + 1) - 1 = at
  BY <1>1
<1> QED
  BY <1>1, <1>2

LEMMA LenStep ==
    ASSUME NEW b \in Buffers, NEW at \in 0..(Len(b.events) - 1), NEW s \in Nat, s <= at
    PROVE  \E x \in Int, v \in U64 :
              /\ x = b.total[at] - b.total[s] + (at - s - 1) /\ v = b.events[at + 1]
              /\ LenOf(b, s, at) = saturating_add(EmptyLen, x)
              /\ LenOf(b, s, at + 1) = saturating_add(EmptyLen, x + 1 + v)
              /\ s = at => x = -1
<1>1. /\ Len(b.events) \in Nat /\ b.events[at + 1] \in U64
      /\ \A n \in 0..Len(b.events) : b.total[n] \in Nat
      /\ b.total[at + 1] = b.total[at] + b.events[at + 1]
  BY BufferFacts
<1>2. PICK v \in U64 : v = b.events[at + 1]
  BY <1>1
<1>3. PICK p \in Nat, q \in Nat, r \in Nat :
          p = b.total[s] /\ q = b.total[at] /\ r = b.total[at + 1] /\ r = q + v
  <2>1. s \in 0..Len(b.events) /\ at \in 0..Len(b.events) /\ at + 1 \in 0..Len(b.events)
    BY <1>1
  <2> QED
    BY <1>1, <1>2, <2>1
<1>4. PICK x \in Int : x = q - p + (at - s - 1)
  OBVIOUS
<1>5. r - p + (at + 1 - s - 1) = x + 1 + v
  <2>1. at \in Nat /\ v \in Int
    BY <1>1 DEF U64
  <2>2. r = q + v
    BY <1>3
  <2> QED
    BY <1>4, <2>1, <2>2
<1>6. s = at => x = -1
  <2>1. s = at => p = q
    BY <1>3
  <2> QED
    BY <1>4, <2>1
<1>7. /\ LenOf(b, s, at) = saturating_add(EmptyLen, x)
      /\ LenOf(b, s, at + 1) = saturating_add(EmptyLen, x + 1 + v)
  BY <1>3, <1>4, <1>5 DEF LenOf
<1> QED
  BY <1>2, <1>3, <1>4, <1>6, <1>7

\* The length after one more event.
LEMMA NextLen ==
    ASSUME NEW b \in Buffers, NEW l \in Limits, NEW at \in 0..(Len(b.events) - 1), NEW s \in Nat,
           NEW current, NEW len, Open(b, l, s, at, current, len)
    PROVE  /\ LenWith(len, current, b.events[at + 1]) = LenOf(b, s, at + 1)
           /\ current = <<>> <=> at = 0
           /\ current = SubSeq(b.events, s + 1, at)
           /\ current # <<>> => Len(current) = at - s
<1>1. b.events \in Seq(U64) /\ Len(b.events) \in Nat /\ EmptyLen \in U64
  BY BufferFacts, InputsAssumption
<1>2. s <= at
  BY DEF Open, Greedy
<1>3. PICK x \in Int, v \in U64 :
          /\ v = b.events[at + 1]
          /\ LenOf(b, s, at) = saturating_add(EmptyLen, x)
          /\ LenOf(b, s, at + 1) = saturating_add(EmptyLen, x + 1 + v)
          /\ s = at => x = -1
  BY <1>2, LenStep
<1>4. CASE s = 0 /\ at = 0 /\ current = <<>> /\ len = EmptyLen
  <2>1. LenWith(len, current, v) = saturating_add(saturating_add(EmptyLen, 0), v)
    BY <1>4 DEF LenWith
  <2>2. x + 1 + v = v
    BY <1>3, <1>4 DEF U64
  <2>3. saturating_add(saturating_add(EmptyLen, 0), v) = saturating_add(EmptyLen, v)
    BY <1>1, WidthAssumption DEF saturating_add, U64
  <2>4. SubSeq(b.events, 1, 0) = <<>>
    BY <1>1
  <2> QED
    BY <1>3, <1>4, <2>1, <2>2, <2>3, <2>4
<1>5. CASE Greedy(b, l, s, at, current) /\ len = LenOf(b, s, at)
  <2>1. s < at /\ current = SubSeq(b.events, s + 1, at)
    BY <1>5 DEF Greedy
  <2>2. Len(current) = at - s
    <3>1. PICK e \in Seq(U64) : e = b.events
      BY <1>1
    <3>2. s + 1 \in 1..Len(e) + 1 /\ at \in 0..Len(e) /\ s + 1 <= at + 1
      BY <1>1, <2>1, <3>1
    <3>3. Len(SubSeq(e, s + 1, at)) = at - (s + 1) + 1
      BY <2>1, <3>2, SubSeqProperties
    <3> QED
      BY <2>1, <3>1, <3>3
  <2>3. current # <<>>
    BY <2>1, <2>2
  <2>4. LenWith(len, current, v) = saturating_add(saturating_add(saturating_add(EmptyLen, x), 1), v)
    BY <1>3, <1>5, <2>3 DEF LenWith
  <2>5. LenWith(len, current, v) = saturating_add(EmptyLen, x + 1 + v)
    BY <1>1, <2>4, Saturates
  <2> QED
    BY <1>3, <2>1, <2>2, <2>3, <2>5
<1> QED
  BY <1>4, <1>5 DEF Open

\* The event opens a batch of its own.
LEMMA Opens ==
    ASSUME NEW b \in Buffers, NEW l \in Limits, NEW at \in 0..(Len(b.events) - 1)
    PROVE  /\ Greedy(b, l, at, at + 1, <<b.events[at + 1]>>)
           /\ LenWith(EmptyLen, <<>>, b.events[at + 1]) = LenOf(b, at, at + 1)
<1>1. /\ b.events \in Seq(U64) /\ Len(b.events) \in Nat /\ at + 1 \in DOMAIN b.events
      /\ EmptyLen \in U64
  BY BufferFacts, InputsAssumption
<1>2. PICK x \in Int, v \in U64 :
          /\ v = b.events[at + 1]
          /\ LenOf(b, at, at + 1) = saturating_add(EmptyLen, x + 1 + v)
          /\ at = at => x = -1
  BY LenStep
<1>3. SubSeq(b.events, at + 1, at + 1) = <<v>>
  <2>1. PICK e \in Seq(U64), n \in Nat : e = b.events /\ n = at + 1
    BY <1>1
  <2>2. n \in 1..Len(e)
    BY <1>1, <2>1
  <2>3. Len(SubSeq(e, n, n)) = 1 /\ SubSeq(e, n, n)[1] = e[n] /\ SubSeq(e, n, n) \in Seq(U64)
    BY <2>2
  <2>4. \A t \in Seq(U64) : Len(t) = 1 /\ t[1] = v => t = <<v>>
    OBVIOUS
  <2> QED
    BY <1>2, <2>1, <2>3, <2>4
<1>4. (at + 2)..(at + 1) = {}
  OBVIOUS
<1>5. LenWith(EmptyLen, <<>>, v) = saturating_add(EmptyLen, v)
  BY <1>1, WidthAssumption DEF saturating_add, U64, LenWith
<1>6. x + 1 + v = v
  BY <1>2 DEF U64
<1> QED
  BY <1>2, <1>3, <1>4, <1>5, <1>6 DEF Greedy

\* The event goes to the batch that is being filled.
LEMMA Fills ==
    ASSUME NEW b \in Buffers, NEW l \in Limits, NEW at \in 0..(Len(b.events) - 1), NEW s \in Nat,
           NEW current, NEW len, Open(b, l, s, at, current, len),
           current = <<>> \/ FitsIn(b, l, s, at + 1)
    PROVE  Open(b, l, s, at + 1, Append(current, b.events[at + 1]),
                LenWith(len, current, b.events[at + 1]))
<1>1. /\ LenWith(len, current, b.events[at + 1]) = LenOf(b, s, at + 1)
      /\ current = <<>> <=> at = 0
      /\ current = SubSeq(b.events, s + 1, at)
      /\ current # <<>> => Len(current) = at - s
  BY NextLen
<1>2. b.events \in Seq(U64) /\ Len(b.events) \in Nat /\ at + 1 \in DOMAIN b.events
  BY BufferFacts
<1>3. s <= at /\ (current # <<>> => s < at)
  BY <1>1 DEF Open, Greedy
<1>4. Append(current, b.events[at + 1]) = SubSeq(b.events, s + 1, at + 1)
  BY <1>1, <1>2, <1>3
<1>5. ASSUME NEW z \in (s + 2)..(at + 1) PROVE FitsIn(b, l, s, z)
  <2>1. CASE current = <<>>
    <3>1. (s = 0 /\ at = 0) \/ s < at
      BY DEF Open, Greedy
    <3> QED
      BY <1>1, <2>1, <3>1
  <2>2. CASE current # <<>>
    <3>1. \A y \in (s + 2)..at : FitsIn(b, l, s, y)
      BY <2>2 DEF Open, Greedy
    <3>2. z \in (s + 2)..at \/ z = at + 1
      OBVIOUS
    <3> QED
      BY <2>2, <3>1, <3>2, Zenon
  <2> QED
    BY <2>1, <2>2
<1> QED
  BY <1>1, <1>3, <1>4, <1>5 DEF Open, Greedy

\* A turn keeps the state.
LEMMA Turn ==
    ASSUME NEW b \in Buffers, NEW l \in Limits, NEW at, NEW batches, NEW current, NEW len, NEW cuts,
           SplitState(b, l, at, batches, current, len, cuts), at < Len(b.events),
           NEW full, full \in BOOLEAN,
           full <=> /\ current # <<>>
                    /\ \/ Len(current) >= l.max_batch_events
                       \/ LenWith(len, current, b.events[at + 1]) > l.max_request_bytes
    PROVE  /\ full => SplitState(b, l, at + 1, Append(batches, current), <<b.events[at + 1]>>,
                                 LenWith(EmptyLen, <<>>, b.events[at + 1]), Append(cuts, at))
           /\ full => Append(batches, current) # batches
           /\ ~full => SplitState(b, l, at + 1, batches, Append(current, b.events[at + 1]),
                                  LenWith(len, current, b.events[at + 1]), cuts)
<1> DEFINE v == b.events[at + 1]
           s == Start(cuts)
<1>1. at \in 0..(Len(b.events) - 1) /\ Len(b.events) \in Nat /\ b.events \in Seq(U64)
  BY BuffersAssumption DEF SplitState
<1>2. s \in Nat /\ Open(b, l, s, at, current, len)
  BY DEF SplitState
<1>3. /\ LenWith(len, current, v) = LenOf(b, s, at + 1)
      /\ current = <<>> <=> at = 0
      /\ current = SubSeq(b.events, s + 1, at)
      /\ current # <<>> => Len(current) = at - s
  BY <1>1, <1>2, NextLen
<1>4. l.max_batch_events \in Nat /\ l.max_request_bytes \in Int /\ LenOf(b, s, at + 1) \in Int
  <2>1. l.max_batch_events \in Nat /\ l.max_request_bytes \in Int
    BY InputsAssumption DEF U64
  <2>3. PICK x \in Int, w \in U64 : LenOf(b, s, at + 1) = saturating_add(EmptyLen, x + 1 + w)
    <3>1. s <= at
      BY <1>1, <1>2 DEF Open, Greedy
    <3> QED
      BY <1>1, <1>2, <3>1, LenStep
  <2>4. saturating_add(EmptyLen, x + 1 + w) \in Int
    BY InputsAssumption, WidthAssumption DEF saturating_add, U64
  <2> QED
    BY <2>1, <2>3, <2>4
<1>5. full <=> current # <<>> /\ ~FitsIn(b, l, s, at + 1)
  <2>1. PICK n \in Int, most \in Nat, bytes \in Int :
            n = LenOf(b, s, at + 1) /\ most = l.max_batch_events /\ bytes = l.max_request_bytes
    BY <1>4
  <2>2. current # <<>> => (Len(current) >= most <=> ~(at + 1 - s <= most))
    BY <1>1, <1>2, <1>3
  <2>3. FitsIn(b, l, s, at + 1) <=> at + 1 - s <= most /\ n <= bytes
    BY <1>1, <1>2, <2>1 DEF FitsIn
  <2>4. n > bytes <=> ~(n <= bytes)
    OBVIOUS
  <2> QED
    BY <1>3, <2>1, <2>2, <2>3, <2>4
<1>6. ASSUME ~full
      PROVE  SplitState(b, l, at + 1, batches, Append(current, v), LenWith(len, current, v), cuts)
  <2>1. Open(b, l, s, at + 1, Append(current, v), LenWith(len, current, v))
    BY <1>1, <1>2, <1>5, <1>6, Fills
  <2> QED
    BY <1>1, <2>1 DEF SplitState
<1>7. ASSUME full
      PROVE  SplitState(b, l, at + 1, Append(batches, current), <<v>>,
                        LenWith(EmptyLen, <<>>, v), Append(cuts, at))
  <2>1. /\ cuts \in Seq(Nat) /\ batches \in Seq(Seq(U64)) /\ Len(batches) = Len(cuts)
        /\ Closed(b, l, batches, cuts)
    BY DEF SplitState
  <2>2. current \in Seq(U64)
    <3>1. s + 1 \in 1..Len(b.events) + 1 /\ at \in 0..Len(b.events)
      BY <1>1, <1>2, <1>3, <1>5, <1>7 DEF Open, Greedy
    <3> QED
      BY <1>1, <1>3, <3>1
  <2>3. PICK c : c = Append(cuts, at)
    OBVIOUS
  <2>4. /\ c \in Seq(Nat) /\ Len(c) = Len(cuts) + 1 /\ c[Len(c)] = at
        /\ \A k \in 1..Len(cuts) : c[k] = cuts[k]
    BY <1>1, <2>1, <2>3
  <2>5. PICK bs : bs = Append(batches, current)
    OBVIOUS
  <2>6. /\ bs \in Seq(Seq(U64)) /\ Len(bs) = Len(c) /\ bs[Len(c)] = current
        /\ \A k \in 1..Len(cuts) : bs[k] = batches[k]
    BY <2>1, <2>2, <2>4, <2>5
  <2>7. Start(c) = at
    BY <2>1, <2>4 DEF Start
  <2>8. Open(b, l, at, at + 1, <<v>>, LenWith(EmptyLen, <<>>, v))
    BY <1>1, Opens DEF Open
  <2>9. Len(cuts) \in Nat
    BY <2>1
  <2>10. Closed(b, l, bs, c)
    <3>1. \A k \in 1..Len(cuts) : BeginOf(c, k) = BeginOf(cuts, k)
      <4>1. TAKE k \in 1..Len(cuts)
      <4>2. k = 1 \/ k - 1 \in 1..Len(cuts)
        BY <2>9
      <4>3. k = 1 \/ c[k - 1] = cuts[k - 1]
        BY <2>4, <4>2, Zenon
      <4> QED
        BY <4>3 DEF BeginOf
    <3>2. BeginOf(c, Len(c)) = s
      BY <2>1, <2>4, <2>9 DEF BeginOf, Start
    <3>3. /\ at < Len(b.events) /\ Greedy(b, l, s, at, current)
          /\ ~FitsIn(b, l, s, at + 1)
      BY <1>1, <1>2, <1>5, <1>7 DEF Open
    <3>4. \A k \in 1..Len(c) : k \in 1..Len(cuts) \/ k = Len(c)
      BY <2>4, <2>9
    <3> QED
      BY <2>1, <2>4, <2>6, <3>1, <3>2, <3>3, <3>4 DEF Closed
  <2>11. at + 1 \in 0..Len(b.events)
    BY <1>1
  <2>12. SplitState(b, l, at + 1, bs, <<v>>, LenWith(EmptyLen, <<>>, v), c)
    BY <1>1, <2>4, <2>6, <2>7, <2>8, <2>10, <2>11 DEF SplitState
  <2> QED
    BY <2>3, <2>5, <2>12
<1>8. Append(batches, current) # batches
  <2>1. batches \in Seq(Seq(U64))
    BY DEF SplitState
  <2>2. Len(Append(batches, current)) = Len(batches) + 1
    BY <2>1
  <2> QED
    BY <2>1, <2>2
<1> QED
  BY <1>6, <1>7, <1>8

LEMMA SplitStep == SplitOK /\ split_turn => SplitOK'
<1> SUFFICES ASSUME SplitOK, split_turn PROVE SplitOK'
  OBVIOUS
<1>1. PICK b \in Buffers, l \in Limits : \E at, batches, current, len, cuts :
        /\ work = [kind |-> "split", buffer |-> b, limits |-> l, at |-> at,
                   acc |-> [batches |-> batches, current |-> current, current_len |-> len],
                   cuts |-> cuts]
        /\ SplitState(b, l, at, batches, current, len, cuts)
  BY DEF SplitOK
<1>2. PICK at, batches, current, len, cuts :
        /\ work = [kind |-> "split", buffer |-> b, limits |-> l, at |-> at,
                   acc |-> [batches |-> batches, current |-> current, current_len |-> len],
                   cuts |-> cuts]
        /\ SplitState(b, l, at, batches, current, len, cuts)
  BY <1>1
<1>3. at < Len(b.events)
  BY <1>2 DEF split_turn
<1>4. PICK v : v = b.events[at + 1]
  OBVIOUS
<1>5. PICK full \in BOOLEAN :
        full <=> /\ current # <<>>
                 /\ \/ Len(current) >= l.max_batch_events
                    \/ LenWith(len, current, v) > l.max_request_bytes
  OBVIOUS
<1>6. PICK acc : acc = split_step(work.acc, work.buffer.events[work.at + 1], EmptyLen,
                                  work.limits.max_batch_events, work.limits.max_request_bytes)
  OBVIOUS
<1>7. acc = [batches |-> IF full THEN Append(batches, current) ELSE batches,
             current |-> IF full THEN <<v>> ELSE Append(current, v),
             current_len |-> IF full THEN LenWith(EmptyLen, <<>>, v)
                             ELSE LenWith(len, current, v)]
  BY <1>2, <1>4, <1>5, <1>6 DEF split_step
<1>8. work' = [work EXCEPT !.at = @ + 1, !.acc = acc,
                           !.cuts = IF acc.batches = work.acc.batches THEN @ ELSE Append(@, work.at)]
  BY <1>6 DEF split_turn
<1>9. /\ full => SplitState(b, l, at + 1, Append(batches, current), <<v>>,
                            LenWith(EmptyLen, <<>>, v), Append(cuts, at))
      /\ full => Append(batches, current) # batches
      /\ ~full => SplitState(b, l, at + 1, batches, Append(current, v),
                             LenWith(len, current, v), cuts)
  BY <1>2, <1>3, <1>4, <1>5, Turn
<1>10. CASE full
  <2>1. acc = [batches |-> Append(batches, current), current |-> <<v>>,
               current_len |-> LenWith(EmptyLen, <<>>, v)]
    BY <1>7, <1>10
  <2>2. work' = [kind |-> "split", buffer |-> b, limits |-> l, at |-> at + 1, acc |-> acc,
                 cuts |-> Append(cuts, at)]
    BY <1>2, <1>8, <1>9, <1>10, <2>1
  <2> QED
    BY <1>9, <1>10, <2>1, <2>2 DEF SplitOK
<1>11. CASE ~full
  <2>1. acc = [batches |-> batches, current |-> Append(current, v),
               current_len |-> LenWith(len, current, v)]
    BY <1>7, <1>11
  <2>2. work' = [kind |-> "split", buffer |-> b, limits |-> l, at |-> at + 1, acc |-> acc,
                 cuts |-> cuts]
    BY <1>2, <1>8, <2>1
  <2> QED
    BY <1>9, <1>11, <2>1, <2>2 DEF SplitOK
<1> QED
  BY <1>10, <1>11

LEMMA SplitInit == work \in SplitWork => SplitOK
<1> SUFFICES ASSUME work \in SplitWork PROVE SplitOK
  OBVIOUS
<1>1. PICK b \in Buffers, l \in Limits :
        work = [kind |-> "split", buffer |-> b, limits |-> l, at |-> 0,
                acc |-> split_start(EmptyLen), cuts |-> <<>>]
  BY DEF SplitWork
<1>2. b.events \in Seq(U64)
  BY BuffersAssumption
<1>3. <<>> \in Seq(Nat) /\ <<>> \in Seq(Seq(U64)) /\ Len(<<>>) = 0 /\ 0 \in 0..Len(b.events)
  BY <1>2
<1>4. Start(<<>>) = 0 /\ Closed(b, l, <<>>, <<>>) /\ Open(b, l, 0, 0, <<>>, EmptyLen)
  BY <1>3 DEF Start, Closed, Open
<1>5. SplitState(b, l, 0, <<>>, <<>>, EmptyLen, <<>>)
  BY <1>3, <1>4 DEF SplitState
<1> QED
  BY <1>1, <1>5 DEF SplitOK, split_start

LEMMA SplitHolds == SplitOK => SplitIsGreedy
<1> SUFFICES ASSUME SplitOK, work.kind = "split", work.at = Len(work.buffer.events)
             PROVE  SplitIsGreedy
  BY DEF SplitIsGreedy
<1>1. PICK b \in Buffers, l \in Limits : \E at, batches, current, len, cuts :
        /\ work = [kind |-> "split", buffer |-> b, limits |-> l, at |-> at,
                   acc |-> [batches |-> batches, current |-> current, current_len |-> len],
                   cuts |-> cuts]
        /\ SplitState(b, l, at, batches, current, len, cuts)
  BY DEF SplitOK
<1>2. PICK at, batches, current, len, cuts :
        /\ work = [kind |-> "split", buffer |-> b, limits |-> l, at |-> at,
                   acc |-> [batches |-> batches, current |-> current, current_len |-> len],
                   cuts |-> cuts]
        /\ SplitState(b, l, at, batches, current, len, cuts)
  BY <1>1
<1>3. /\ at = Len(b.events) /\ work.buffer = b /\ work.cuts = cuts
      /\ work.acc.batches = batches /\ work.acc.current = current
      /\ \A x, y : Fits(x, y) <=> FitsIn(b, l, x, y)
  BY <1>2 DEF Fits, FitsIn, RequestLen, LenOf
<1>4. at \in Nat /\ at # 0
  <2>1. b.events \in Seq(U64) /\ b.events # <<>>
    BY BuffersAssumption
  <2> QED
    BY <1>3, <2>1
<1>5. /\ cuts \in Seq(Nat) /\ Len(cuts) \in Nat /\ batches \in Seq(Seq(U64))
      /\ Len(batches) = Len(cuts)
      /\ Closed(b, l, batches, cuts) /\ Start(cuts) \in Nat
      /\ Greedy(b, l, Start(cuts), at, current)
  BY <1>2, <1>4 DEF SplitState, Open
<1>6. current # <<>> /\ current \in Seq(U64)
  <2>1. Start(cuts) < at /\ current = SubSeq(b.events, Start(cuts) + 1, at)
    BY <1>5 DEF Greedy
  <2>2. PICK e \in Seq(U64), s \in Nat : e = b.events /\ s = Start(cuts)
    BY <1>5, BuffersAssumption
  <2>3. s + 1 \in 1..Len(e) + 1 /\ at \in 0..Len(e) /\ s < at
    BY <1>3, <1>4, <2>1, <2>2
  <2>4. Len(SubSeq(e, s + 1, at)) = at - s /\ SubSeq(e, s + 1, at) \in Seq(U64)
    BY <2>3
  <2>5. current = SubSeq(e, s + 1, at)
    BY <2>1, <2>2
  <2>6. Len(current) = at - s /\ at - s # 0
    BY <1>4, <2>3, <2>4, <2>5
  <2> QED
    BY <2>4, <2>5, <2>6
<1>7. PICK ends, all : ends = Append(cuts, Len(b.events)) /\ all = Append(batches, current)
  OBVIOUS
<1>8. split_result(work.acc) = all
  BY <1>3, <1>6, <1>7 DEF split_result
<1>9. /\ Len(ends) = Len(cuts) + 1 /\ DOMAIN ends = 1..Len(cuts) + 1 /\ Len(all) = Len(cuts) + 1
      /\ ends[Len(cuts) + 1] = at /\ all[Len(cuts) + 1] = current
      /\ \A k \in 1..Len(cuts) : ends[k] = cuts[k] /\ all[k] = batches[k]
  BY <1>3, <1>4, <1>5, <1>6, <1>7
<1>10. ASSUME NEW k \in DOMAIN ends
       PROVE  LET from == IF k = 1 THEN 0 ELSE ends[k - 1]
              IN /\ Greedy(b, l, from, ends[k], all[k])
                 /\ ends[k] < Len(b.events) => ~FitsIn(b, l, from, ends[k] + 1)
  <2>1. CASE k \in 1..Len(cuts)
    <3>1. (IF k = 1 THEN 0 ELSE ends[k - 1]) = BeginOf(cuts, k)
      BY <1>5, <1>9, <2>1 DEF BeginOf
    <3> QED
      BY <1>5, <1>9, <2>1, <3>1 DEF Closed
  <2>2. CASE k = Len(cuts) + 1
    <3>1. (IF k = 1 THEN 0 ELSE ends[k - 1]) = Start(cuts)
      BY <1>5, <1>9, <2>2 DEF Start
    <3> QED
      BY <1>3, <1>4, <1>5, <1>9, <2>2, <3>1
  <2> QED
    BY <1>5, <1>9, <2>1, <2>2
<1> DEFINE from(k) == IF k = 1 THEN 0 ELSE ends[k - 1]
<1>11. ASSUME NEW k \in DOMAIN ends
       PROVE  /\ from(k) < ends[k] /\ all[k] = SubSeq(b.events, from(k) + 1, ends[k])
              /\ \A z \in (from(k) + 2)..ends[k] : Fits(from(k), z)
              /\ ends[k] < Len(b.events) => ~Fits(from(k), ends[k] + 1)
  <2>1. PICK f : f = from(k)
    OBVIOUS
  <2>2. /\ Greedy(b, l, f, ends[k], all[k])
        /\ ends[k] < Len(b.events) => ~FitsIn(b, l, f, ends[k] + 1)
    BY <1>10, <2>1
  <2> HIDE DEF from
  <2> QED
    BY <1>3, <2>1, <2>2 DEF Greedy
<1>12. /\ Len(split_result(work.acc)) = Len(Append(work.cuts, Len(work.buffer.events)))
       /\ Append(work.cuts, Len(work.buffer.events)) = ends /\ split_result(work.acc) = all
       /\ work.buffer.events = b.events
  BY <1>3, <1>7, <1>8, <1>9
<1> QED
  BY <1>11, <1>12 DEF SplitIsGreedy

-----------------------------------------------------------------------------
(* The checks and the repairs of a profile.                                *)

\* What the k-th check of validate lets through, in the order of FieldOrder.
Within(value, min, max) == value = Absent \/ (min <= value /\ value <= max)
Finite(value, max) == value # NotFinite /\ Within(value, 0, max)
Ordered(warning, critical, base_warning, base_critical) ==
    ~(/\ NotFinite \notin {warning, critical}
      /\ Or(critical, base_critical) < Or(warning, base_warning))
CodesGood(codes) ==
    /\ ~(Len(codes) > MAX_IGNORE_EXIT_CODES)
    /\ \A i \in DOMAIN codes : codes[i] \in 0..MAX_EXIT_CODE

Passes(p, k) ==
    LET n == p.overrides.network
        s == p.overrides.storage
        m == p.overrides.node_pmc
    IN
    /\ k = 1 => p.api_version
    /\ k = 2 => p.kind
    /\ k = 3 => p.base = "production-default"
    /\ k = 4 => Within(n.ratio, 1, MAX_RATIO)
    /\ k = 5 => Within(n.abs_ms, 1, MAX_RTT_ABS_MS)
    /\ k = 6 => Within(s.warning_ms, 1, MAX_WARNING_MS)
    /\ k = 7 => Within(s.critical_ms, 1, MAX_CRITICAL_MS)
    /\ k = 8 => Ordered(s.warning_ms, s.critical_ms, production_default.storage.warning_ms,
                        production_default.storage.critical_ms)
    /\ k = 9 => CodesGood(Codes(p.overrides.container))
    /\ k = 10 => Finite(m.warning, MAX_STALL)
    /\ k = 11 => Finite(m.critical, MAX_STALL)
    /\ k = 12 => Ordered(m.warning, m.critical, production_default.node_pmc.warning,
                         production_default.node_pmc.critical)
    /\ k = 13 => Finite(m.ipc, MAX_IPC)

\* A result is that of the checks from lo to hi: the first that fails, or none.
Fails(result, path) == result # Ok /\ result.path = path
Bad(result, p, lo, k) ==
    /\ Fails(result, FieldOrder[k]) /\ ~Passes(p, k)
    /\ \A j \in lo..(k - 1) : Passes(p, j)
First(result, p, lo, hi) ==
    \/ result = Ok /\ \A k \in lo..hi : Passes(p, k)
    \/ \E k \in lo..hi : Bad(result, p, lo, k)

LEMMA Chain ==
    ASSUME NEW p, NEW lo \in Int, NEW mid \in Int, NEW hi \in Int, lo <= mid + 1, mid <= hi,
           NEW r, NEW t, First(r, p, lo, mid), First(t, p, mid + 1, hi)
    PROVE  First(Then(r, t), p, lo, hi)
<1>1. CASE \E k \in lo..mid : Bad(r, p, lo, k)
  <2>1. PICK k \in lo..mid : Bad(r, p, lo, k)
    BY <1>1
  <2>2. Then(r, t) = r /\ k \in lo..hi
    BY <2>1 DEF Then, Bad, Fails
  <2> QED
    BY <2>1, <2>2 DEF First
<1>2. CASE r = Ok /\ \A k \in lo..mid : Passes(p, k)
  <2>1. Then(r, t) = t
    BY <1>2 DEF Then
  <2>2. CASE t = Ok /\ \A k \in (mid + 1)..hi : Passes(p, k)
    <3>1. \A k \in lo..hi : k \in lo..mid \/ k \in (mid + 1)..hi
      OBVIOUS
    <3> QED
      BY <1>2, <2>1, <2>2, <3>1 DEF First
  <2>3. CASE \E k \in (mid + 1)..hi : Bad(t, p, mid + 1, k)
    <3>1. PICK k \in (mid + 1)..hi : Bad(t, p, mid + 1, k)
      BY <2>3
    <3>2. k \in lo..hi /\ \A j \in lo..(k - 1) : j \in lo..mid \/ j \in (mid + 1)..(k - 1)
      OBVIOUS
    <3>3. Bad(t, p, lo, k)
      BY <1>2, <3>1, <3>2 DEF Bad
    <3> QED
      BY <2>1, <3>2, <3>3 DEF First
  <2> QED
    BY <2>2, <2>3 DEF First
<1> QED
  BY <1>1, <1>2 DEF First

\* One check.
LEMMA Single ==
    ASSUME NEW p, NEW k \in 1..13, NEW r,
           Passes(p, k) => r = Ok, ~Passes(p, k) => Fails(r, FieldOrder[k])
    PROVE  First(r, p, k, k)
<1>1. k..k = {k} /\ k..(k - 1) = {}
  OBVIOUS
<1> QED
  BY <1>1 DEF First, Bad

LEMMA Order ==
    /\ FieldOrder[1] = "apiVersion" /\ FieldOrder[2] = "kind" /\ FieldOrder[3] = "base"
    /\ FieldOrder[4] = "network.ratio" /\ FieldOrder[5] = "network.abs_ms"
    /\ FieldOrder[6] = "storage.warning_ms" /\ FieldOrder[7] = "storage.critical_ms"
    /\ FieldOrder[8] = "storage.slow_io" /\ FieldOrder[9] = "container.ignore_exit_codes"
    /\ FieldOrder[10] = "node_pmc.warning" /\ FieldOrder[11] = "node_pmc.critical"
    /\ FieldOrder[12] = "node_pmc.stall_pct" /\ FieldOrder[13] = "node_pmc.ipc"
    /\ FieldOrder[14] = "none" /\ DOMAIN FieldOrder = 1..14
BY DEF FieldOrder

LEMMA Errors ==
    ASSUME NEW error, NEW path, path # "none"
    PROVE  Fails(Err(error, path), path)
BY DEF Err, Ok, Fails

LEMMA RangeCheck ==
    ASSUME NEW path, path # "none", NEW value, NEW min, NEW max
    PROVE  /\ Within(value, min, max) => InRange(path, value, min, max) = Ok
           /\ ~Within(value, min, max) => Fails(InRange(path, value, min, max), path)
<1>1. Within(value, min, max) => InRange(path, value, min, max) = Ok
  BY Zenon DEF InRange, Within
<1>2. ~Within(value, min, max) => InRange(path, value, min, max) = Err("OutOfRange", path)
  BY Zenon DEF InRange, Within
<1>3. Fails(Err("OutOfRange", path), path)
  BY Errors, Zenon
<1> QED
  BY <1>1, <1>2, <1>3, Zenon

LEMMA FiniteCheck ==
    ASSUME NEW path, path # "none", NEW value, NEW max
    PROVE  /\ Finite(value, max) => validate_finite_range(path, value, max) = Ok
           /\ ~Finite(value, max) => Fails(validate_finite_range(path, value, max), path)
<1>1. CASE value = NotFinite
  <2>1. validate_finite_range(path, value, max) = Err("NotFinite", path)
    BY <1>1, Zenon DEF validate_finite_range
  <2>2. Fails(Err("NotFinite", path), path)
    BY Errors, Zenon
  <2> QED
    BY <1>1, <2>1, <2>2, Zenon DEF Finite
<1>2. CASE value # NotFinite
  <2>1. validate_finite_range(path, value, max) = InRange(path, value, 0, max)
    BY <1>2, Zenon DEF validate_finite_range
  <2> QED
    BY <1>2, <2>1, RangeCheck, Zenon DEF Finite
<1> QED
  BY <1>1, <1>2, Zenon

LEMMA OrderCheck ==
    ASSUME NEW path, path # "none", NEW w, NEW c, NEW bw, NEW bc
    PROVE  /\ Ordered(w, c, bw, bc) => ThresholdOrder(path, w, c, bw, bc) = Ok
           /\ ~Ordered(w, c, bw, bc) => Fails(ThresholdOrder(path, w, c, bw, bc), path)
<1>1. Ordered(w, c, bw, bc) => ThresholdOrder(path, w, c, bw, bc) = Ok
  BY Zenon DEF ThresholdOrder, Ordered
<1>2. ~Ordered(w, c, bw, bc) => ThresholdOrder(path, w, c, bw, bc) = Err("ThresholdOrder", path)
  BY Zenon DEF ThresholdOrder, Ordered
<1>3. Fails(Err("ThresholdOrder", path), path)
  BY Errors, Zenon
<1> QED
  BY <1>1, <1>2, <1>3, Zenon

LEMMA CodesCheck ==
    ASSUME NEW o
    PROVE  /\ CodesGood(Codes(o)) => apply_container(o) = Ok
           /\ ~CodesGood(Codes(o)) => Fails(apply_container(o), "container.ignore_exit_codes")
<1> DEFINE path == "container.ignore_exit_codes"
<1>1. Fails(Err("TooManyIgnoreExitCodes", path), path) /\ Fails(Err("OutOfRange", path), path)
  BY DEF Err, Ok, Fails
<1>2. PICK codes : codes = Codes(o)
  OBVIOUS
<1>3. apply_container(o) = IF Len(codes) > MAX_IGNORE_EXIT_CODES THEN Err("TooManyIgnoreExitCodes", path)
                           ELSE IF \E i \in DOMAIN codes : codes[i] \notin 0..MAX_EXIT_CODE
                             THEN Err("OutOfRange", path) ELSE Ok
  BY <1>2, Zenon DEF apply_container
<1>4. CodesGood(codes) => ~(Len(codes) > MAX_IGNORE_EXIT_CODES)
                          /\ ~(\E i \in DOMAIN codes : codes[i] \notin 0..MAX_EXIT_CODE)
  BY Zenon DEF CodesGood
<1>5. ~CodesGood(codes) => Len(codes) > MAX_IGNORE_EXIT_CODES
                           \/ \E i \in DOMAIN codes : codes[i] \notin 0..MAX_EXIT_CODE
  BY Zenon DEF CodesGood
<1> QED
  BY <1>1, <1>2, <1>3, <1>4, <1>5, Zenon

LEMMA Checks ==
    ASSUME NEW p \in EvidenceProfile
    PROVE  First(validate(p), p, 1, 13)
<1> DEFINE o == p.overrides
           b == production_default
<1>1. First(validate_envelope(p), p, 1, 2)
  <2>1. p.api_version \in BOOLEAN /\ p.kind \in BOOLEAN
    BY DEF EvidenceProfile
  <2>2. PICK e : e = IF ~p.api_version THEN Err("UnsupportedApiVersion", "apiVersion") ELSE Ok
    OBVIOUS
  <2>3. PICK r : r = IF ~p.kind THEN Err("UnsupportedKind", "kind") ELSE Ok
    OBVIOUS
  <2>4. First(e, p, 1, 1)
    <3>1. Fails(Err("UnsupportedApiVersion", "apiVersion"), FieldOrder[1])
      BY Order DEF Err, Ok, Fails
    <3>2. Passes(p, 1) <=> p.api_version
      BY DEF Passes
    <3> QED
      BY <2>2, <3>1, <3>2, Single
  <2>5. First(r, p, 2, 2)
    <3>1. Fails(Err("UnsupportedKind", "kind"), FieldOrder[2])
      BY Order DEF Err, Ok, Fails
    <3>2. Passes(p, 2) <=> p.kind
      BY DEF Passes
    <3> QED
      BY <2>3, <3>1, <3>2, Single
  <2>6. validate_envelope(p) = Then(e, r)
    <3>1. Err("UnsupportedApiVersion", "apiVersion") # Ok
      BY DEF Err, Ok
    <3> QED
      BY <2>2, <2>3, <3>1, Zenon DEF validate_envelope, Then
  <2> QED
    BY <2>4, <2>5, <2>6, Chain
<1>2. First(CheckBase(p), p, 3, 3)
  <2>1. p.base \in {"production-default", "unknown", "malformed", "missing"}
    BY DEF EvidenceProfile
  <2>2. Passes(p, 3) <=> p.base = "production-default"
    BY DEF Passes
  <2>3. p.base = "production-default" => CheckBase(p) = Ok
    BY DEF CheckBase
  <2>4. /\ p.base = "unknown" => CheckBase(p) = Err("UnknownBase", "base")
        /\ p.base = "malformed" => CheckBase(p) = Err("InvalidProfileName", "base")
        /\ p.base = "missing" => CheckBase(p) = Err("MissingBase", "base")
    BY DEF CheckBase
  <2>5. /\ Fails(Err("UnknownBase", "base"), FieldOrder[3])
        /\ Fails(Err("InvalidProfileName", "base"), FieldOrder[3])
        /\ Fails(Err("MissingBase", "base"), FieldOrder[3])
    BY Order DEF Err, Ok, Fails
  <2> QED
    BY <2>1, <2>2, <2>3, <2>4, <2>5, Single
<1>3. First(apply_network(o.network), p, 4, 5)
  <2>1. First(InRange("network.ratio", o.network.ratio, 1, MAX_RATIO), p, 4, 4)
    <3>1. Passes(p, 4) <=> Within(o.network.ratio, 1, MAX_RATIO)
      BY DEF Passes
    <3>2. "network.ratio" # "none" /\ FieldOrder[4] = "network.ratio" /\ 4 \in 1..13
      BY Order
    <3>3. PICK r : r = InRange("network.ratio", o.network.ratio, 1, MAX_RATIO)
      OBVIOUS
    <3>4. (Within(o.network.ratio, 1, MAX_RATIO) => r = Ok) /\ (~Within(o.network.ratio, 1, MAX_RATIO) => Fails(r, "network.ratio"))
      BY <3>2, <3>3, RangeCheck, Zenon
    <3>5. (Passes(p, 4) => r = Ok) /\ (~Passes(p, 4) => Fails(r, FieldOrder[4]))
      BY <3>1, <3>2, <3>4
    <3> QED
      BY <3>2, <3>3, <3>5, Single
  <2>2. First(InRange("network.abs_ms", o.network.abs_ms, 1, MAX_RTT_ABS_MS), p, 5, 5)
    <3>1. Passes(p, 5) <=> Within(o.network.abs_ms, 1, MAX_RTT_ABS_MS)
      BY DEF Passes
    <3>2. "network.abs_ms" # "none" /\ FieldOrder[5] = "network.abs_ms" /\ 5 \in 1..13
      BY Order
    <3>3. PICK r : r = InRange("network.abs_ms", o.network.abs_ms, 1, MAX_RTT_ABS_MS)
      OBVIOUS
    <3>4. (Within(o.network.abs_ms, 1, MAX_RTT_ABS_MS) => r = Ok) /\ (~Within(o.network.abs_ms, 1, MAX_RTT_ABS_MS) => Fails(r, "network.abs_ms"))
      BY <3>2, <3>3, RangeCheck, Zenon
    <3>5. (Passes(p, 5) => r = Ok) /\ (~Passes(p, 5) => Fails(r, FieldOrder[5]))
      BY <3>1, <3>2, <3>4
    <3> QED
      BY <3>2, <3>3, <3>5, Single
  <2> QED
    BY <2>1, <2>2, Chain DEF apply_network
<1>4. First(apply_storage(o.storage, b.storage), p, 6, 8)
  <2>1. First(InRange("storage.warning_ms", o.storage.warning_ms, 1, MAX_WARNING_MS), p, 6, 6)
    <3>1. Passes(p, 6) <=> Within(o.storage.warning_ms, 1, MAX_WARNING_MS)
      BY DEF Passes
    <3>2. "storage.warning_ms" # "none" /\ FieldOrder[6] = "storage.warning_ms" /\ 6 \in 1..13
      BY Order
    <3>3. PICK r : r = InRange("storage.warning_ms", o.storage.warning_ms, 1, MAX_WARNING_MS)
      OBVIOUS
    <3>4. (Within(o.storage.warning_ms, 1, MAX_WARNING_MS) => r = Ok) /\ (~Within(o.storage.warning_ms, 1, MAX_WARNING_MS) => Fails(r, "storage.warning_ms"))
      BY <3>2, <3>3, RangeCheck, Zenon
    <3>5. (Passes(p, 6) => r = Ok) /\ (~Passes(p, 6) => Fails(r, FieldOrder[6]))
      BY <3>1, <3>2, <3>4
    <3> QED
      BY <3>2, <3>3, <3>5, Single
  <2>2. First(InRange("storage.critical_ms", o.storage.critical_ms, 1, MAX_CRITICAL_MS), p, 7, 7)
    <3>1. Passes(p, 7) <=> Within(o.storage.critical_ms, 1, MAX_CRITICAL_MS)
      BY DEF Passes
    <3>2. "storage.critical_ms" # "none" /\ FieldOrder[7] = "storage.critical_ms" /\ 7 \in 1..13
      BY Order
    <3>3. PICK r : r = InRange("storage.critical_ms", o.storage.critical_ms, 1, MAX_CRITICAL_MS)
      OBVIOUS
    <3>4. (Within(o.storage.critical_ms, 1, MAX_CRITICAL_MS) => r = Ok) /\ (~Within(o.storage.critical_ms, 1, MAX_CRITICAL_MS) => Fails(r, "storage.critical_ms"))
      BY <3>2, <3>3, RangeCheck, Zenon
    <3>5. (Passes(p, 7) => r = Ok) /\ (~Passes(p, 7) => Fails(r, FieldOrder[7]))
      BY <3>1, <3>2, <3>4
    <3> QED
      BY <3>2, <3>3, <3>5, Single
  <2>3. First(ThresholdOrder("storage.slow_io", o.storage.warning_ms, o.storage.critical_ms,
                             b.storage.warning_ms, b.storage.critical_ms), p, 8, 8)
    <3>1. Passes(p, 8) <=> Ordered(o.storage.warning_ms, o.storage.critical_ms,
                                   b.storage.warning_ms, b.storage.critical_ms)
      BY DEF Passes
    <3>2. "storage.slow_io" # "none" /\ FieldOrder[8] = "storage.slow_io" /\ 8 \in 1..13
      BY Order
    <3>3. PICK r : r = ThresholdOrder("storage.slow_io", o.storage.warning_ms, o.storage.critical_ms,
                             b.storage.warning_ms, b.storage.critical_ms)
      OBVIOUS
    <3>4. (Ordered(o.storage.warning_ms, o.storage.critical_ms, b.storage.warning_ms, b.storage.critical_ms) => r = Ok) /\ (~Ordered(o.storage.warning_ms, o.storage.critical_ms, b.storage.warning_ms, b.storage.critical_ms) => Fails(r, "storage.slow_io"))
      BY <3>2, <3>3, OrderCheck, Zenon
    <3>5. (Passes(p, 8) => r = Ok) /\ (~Passes(p, 8) => Fails(r, FieldOrder[8]))
      BY <3>1, <3>2, <3>4
    <3> QED
      BY <3>2, <3>3, <3>5, Single
  <2> QED
    BY <2>1, <2>2, <2>3, Chain DEF apply_storage
<1>5. First(apply_container(o.container), p, 9, 9)
  <2>1. Passes(p, 9) <=> CodesGood(Codes(o.container))
    BY DEF Passes
  <2> QED
    BY <2>1, Single, CodesCheck, Order
<1>6. First(apply_node_pmc(o.node_pmc, b.node_pmc), p, 10, 13)
  <2>1. First(validate_finite_range("node_pmc.warning", o.node_pmc.warning, MAX_STALL), p, 10, 10)
    <3>1. Passes(p, 10) <=> Finite(o.node_pmc.warning, MAX_STALL)
      BY DEF Passes
    <3>2. "node_pmc.warning" # "none" /\ FieldOrder[10] = "node_pmc.warning" /\ 10 \in 1..13
      BY Order
    <3>3. PICK r : r = validate_finite_range("node_pmc.warning", o.node_pmc.warning, MAX_STALL)
      OBVIOUS
    <3>4. (Finite(o.node_pmc.warning, MAX_STALL) => r = Ok) /\ (~Finite(o.node_pmc.warning, MAX_STALL) => Fails(r, "node_pmc.warning"))
      BY <3>2, <3>3, FiniteCheck, Zenon
    <3>5. (Passes(p, 10) => r = Ok) /\ (~Passes(p, 10) => Fails(r, FieldOrder[10]))
      BY <3>1, <3>2, <3>4
    <3> QED
      BY <3>2, <3>3, <3>5, Single
  <2>2. First(validate_finite_range("node_pmc.critical", o.node_pmc.critical, MAX_STALL), p, 11, 11)
    <3>1. Passes(p, 11) <=> Finite(o.node_pmc.critical, MAX_STALL)
      BY DEF Passes
    <3>2. "node_pmc.critical" # "none" /\ FieldOrder[11] = "node_pmc.critical" /\ 11 \in 1..13
      BY Order
    <3>3. PICK r : r = validate_finite_range("node_pmc.critical", o.node_pmc.critical, MAX_STALL)
      OBVIOUS
    <3>4. (Finite(o.node_pmc.critical, MAX_STALL) => r = Ok) /\ (~Finite(o.node_pmc.critical, MAX_STALL) => Fails(r, "node_pmc.critical"))
      BY <3>2, <3>3, FiniteCheck, Zenon
    <3>5. (Passes(p, 11) => r = Ok) /\ (~Passes(p, 11) => Fails(r, FieldOrder[11]))
      BY <3>1, <3>2, <3>4
    <3> QED
      BY <3>2, <3>3, <3>5, Single
  <2>3. First(ThresholdOrder("node_pmc.stall_pct", o.node_pmc.warning, o.node_pmc.critical,
                             b.node_pmc.warning, b.node_pmc.critical), p, 12, 12)
    <3>1. Passes(p, 12) <=> Ordered(o.node_pmc.warning, o.node_pmc.critical,
                                    b.node_pmc.warning, b.node_pmc.critical)
      BY DEF Passes
    <3>2. "node_pmc.stall_pct" # "none" /\ FieldOrder[12] = "node_pmc.stall_pct" /\ 12 \in 1..13
      BY Order
    <3>3. PICK r : r = ThresholdOrder("node_pmc.stall_pct", o.node_pmc.warning, o.node_pmc.critical,
                             b.node_pmc.warning, b.node_pmc.critical)
      OBVIOUS
    <3>4. (Ordered(o.node_pmc.warning, o.node_pmc.critical, b.node_pmc.warning, b.node_pmc.critical) => r = Ok) /\ (~Ordered(o.node_pmc.warning, o.node_pmc.critical, b.node_pmc.warning, b.node_pmc.critical) => Fails(r, "node_pmc.stall_pct"))
      BY <3>2, <3>3, OrderCheck, Zenon
    <3>5. (Passes(p, 12) => r = Ok) /\ (~Passes(p, 12) => Fails(r, FieldOrder[12]))
      BY <3>1, <3>2, <3>4
    <3> QED
      BY <3>2, <3>3, <3>5, Single
  <2>4. First(validate_finite_range("node_pmc.ipc", o.node_pmc.ipc, MAX_IPC), p, 13, 13)
    <3>1. Passes(p, 13) <=> Finite(o.node_pmc.ipc, MAX_IPC)
      BY DEF Passes
    <3>2. "node_pmc.ipc" # "none" /\ FieldOrder[13] = "node_pmc.ipc" /\ 13 \in 1..13
      BY Order
    <3>3. PICK r : r = validate_finite_range("node_pmc.ipc", o.node_pmc.ipc, MAX_IPC)
      OBVIOUS
    <3>4. (Finite(o.node_pmc.ipc, MAX_IPC) => r = Ok) /\ (~Finite(o.node_pmc.ipc, MAX_IPC) => Fails(r, "node_pmc.ipc"))
      BY <3>2, <3>3, FiniteCheck, Zenon
    <3>5. (Passes(p, 13) => r = Ok) /\ (~Passes(p, 13) => Fails(r, FieldOrder[13]))
      BY <3>1, <3>2, <3>4
    <3> QED
      BY <3>2, <3>3, <3>5, Single
  <2> QED
    BY <2>1, <2>2, <2>3, <2>4, Chain DEF apply_node_pmc
<1> QED
  BY <1>1, <1>2, <1>3, <1>4, <1>5, <1>6, Chain DEF validate

-----------------------------------------------------------------------------

\* The fields of a document.
LEMMA Fields ==
    ASSUME NEW p \in EvidenceProfile
    PROVE  /\ p = [api_version |-> p.api_version, kind |-> p.kind, base |-> p.base,
                   overrides |-> p.overrides]
           /\ p.overrides \in ProfileOverrides
BY DEF EvidenceProfile

LEMMA Sections ==
    ASSUME NEW o \in ProfileOverrides
    PROVE  /\ o = [network |-> o.network, storage |-> o.storage, container |-> o.container,
                   node_pmc |-> o.node_pmc]
           /\ o.network = [enabled |-> o.network.enabled, ratio |-> o.network.ratio,
                           abs_ms |-> o.network.abs_ms]
           /\ o.storage = [enabled |-> o.storage.enabled, warning_ms |-> o.storage.warning_ms,
                           critical_ms |-> o.storage.critical_ms]
           /\ o.container = [enabled |-> o.container.enabled,
                             ignore_exit_codes |-> o.container.ignore_exit_codes]
           /\ o.node_pmc = [enabled |-> o.node_pmc.enabled, warning |-> o.node_pmc.warning,
                            critical |-> o.node_pmc.critical, ipc |-> o.node_pmc.ipc]
BY DEF ProfileOverrides

\* What a repair that unsets fields of a section leaves.
Cleared(p, section, fields) ==
    [p EXCEPT !.overrides[section] =
        [f \in DOMAIN @ |-> IF f \in fields THEN Absent ELSE @[f]]]
Clears(old, new, f, fields) == new[f] = IF f \in fields THEN Absent ELSE old[f]
SameHeader(p, q) == q.api_version = p.api_version /\ q.kind = p.kind /\ q.base = p.base

LEMMA ClearedNetwork ==
    ASSUME NEW p \in EvidenceProfile, NEW fields, NEW q, q = Cleared(p, "network", fields)
    PROVE  /\ q \in EvidenceProfile /\ SameHeader(p, q)
           /\ q.overrides.storage = p.overrides.storage /\ q.overrides.container = p.overrides.container /\ q.overrides.node_pmc = p.overrides.node_pmc
           /\ \A f \in {"enabled", "ratio", "abs_ms"} :
                 Clears(p.overrides.network, q.overrides.network, f, fields)
<1>1. PICK o : o = p.overrides
  OBVIOUS
<1>2. PICK t : t = [f \in DOMAIN o.network |-> IF f \in fields THEN Absent ELSE o.network[f]]
  OBVIOUS
<1>3. p = [api_version |-> p.api_version, kind |-> p.kind, base |-> p.base, overrides |-> o]
      /\ o \in ProfileOverrides
  BY <1>1, Fields
<1>4. q = [p EXCEPT !.overrides = [o EXCEPT !.network = t]]
  BY <1>1, <1>2 DEF Cleared
<1>5. o = [network |-> o.network, storage |-> o.storage, container |-> o.container,
           node_pmc |-> o.node_pmc]
  BY <1>3, Sections
<1>6. DOMAIN o.network = {"enabled", "ratio", "abs_ms"}
  BY <1>3 DEF ProfileOverrides
<1>7. t = [enabled |-> t.enabled, ratio |-> t.ratio, abs_ms |-> t.abs_ms]
  BY <1>2, <1>6
<1>8. Clears(o.network, t, "enabled", fields) /\ Clears(o.network, t, "ratio", fields) /\ Clears(o.network, t, "abs_ms", fields)
  BY <1>2, <1>6 DEF Clears
<1>9. [o EXCEPT !.network = t] = [network |-> t, storage |-> o.storage, container |-> o.container, node_pmc |-> o.node_pmc]
  BY <1>5
<1>10. q = [api_version |-> p.api_version, kind |-> p.kind, base |-> p.base,
            overrides |-> [network |-> t, storage |-> o.storage, container |-> o.container, node_pmc |-> o.node_pmc]]
  BY <1>3, <1>4, <1>9
<1>11. [network |-> t, storage |-> o.storage, container |-> o.container, node_pmc |-> o.node_pmc] \in ProfileOverrides
  BY <1>3, <1>7, <1>8 DEF ProfileOverrides, Clears, Option
<1>12. q \in EvidenceProfile
  BY <1>10, <1>11 DEF EvidenceProfile
<1> QED
  BY <1>1, <1>8, <1>10, <1>12 DEF SameHeader

LEMMA ClearedStorage ==
    ASSUME NEW p \in EvidenceProfile, NEW fields, NEW q, q = Cleared(p, "storage", fields)
    PROVE  /\ q \in EvidenceProfile /\ SameHeader(p, q)
           /\ q.overrides.network = p.overrides.network /\ q.overrides.container = p.overrides.container /\ q.overrides.node_pmc = p.overrides.node_pmc
           /\ \A f \in {"enabled", "warning_ms", "critical_ms"} :
                 Clears(p.overrides.storage, q.overrides.storage, f, fields)
<1>1. PICK o : o = p.overrides
  OBVIOUS
<1>2. PICK t : t = [f \in DOMAIN o.storage |-> IF f \in fields THEN Absent ELSE o.storage[f]]
  OBVIOUS
<1>3. p = [api_version |-> p.api_version, kind |-> p.kind, base |-> p.base, overrides |-> o]
      /\ o \in ProfileOverrides
  BY <1>1, Fields
<1>4. q = [p EXCEPT !.overrides = [o EXCEPT !.storage = t]]
  BY <1>1, <1>2 DEF Cleared
<1>5. o = [network |-> o.network, storage |-> o.storage, container |-> o.container,
           node_pmc |-> o.node_pmc]
  BY <1>3, Sections
<1>6. DOMAIN o.storage = {"enabled", "warning_ms", "critical_ms"}
  BY <1>3 DEF ProfileOverrides
<1>7. t = [enabled |-> t.enabled, warning_ms |-> t.warning_ms, critical_ms |-> t.critical_ms]
  BY <1>2, <1>6
<1>8. Clears(o.storage, t, "enabled", fields) /\ Clears(o.storage, t, "warning_ms", fields) /\ Clears(o.storage, t, "critical_ms", fields)
  BY <1>2, <1>6 DEF Clears
<1>9. [o EXCEPT !.storage = t] = [network |-> o.network, storage |-> t, container |-> o.container, node_pmc |-> o.node_pmc]
  BY <1>5
<1>10. q = [api_version |-> p.api_version, kind |-> p.kind, base |-> p.base,
            overrides |-> [network |-> o.network, storage |-> t, container |-> o.container, node_pmc |-> o.node_pmc]]
  BY <1>3, <1>4, <1>9
<1>11. [network |-> o.network, storage |-> t, container |-> o.container, node_pmc |-> o.node_pmc] \in ProfileOverrides
  BY <1>3, <1>7, <1>8 DEF ProfileOverrides, Clears, Option
<1>12. q \in EvidenceProfile
  BY <1>10, <1>11 DEF EvidenceProfile
<1> QED
  BY <1>1, <1>8, <1>10, <1>12 DEF SameHeader

LEMMA ClearedContainer ==
    ASSUME NEW p \in EvidenceProfile, NEW fields, NEW q, q = Cleared(p, "container", fields)
    PROVE  /\ q \in EvidenceProfile /\ SameHeader(p, q)
           /\ q.overrides.network = p.overrides.network /\ q.overrides.storage = p.overrides.storage /\ q.overrides.node_pmc = p.overrides.node_pmc
           /\ \A f \in {"enabled", "ignore_exit_codes"} :
                 Clears(p.overrides.container, q.overrides.container, f, fields)
<1>1. PICK o : o = p.overrides
  OBVIOUS
<1>2. PICK t : t = [f \in DOMAIN o.container |-> IF f \in fields THEN Absent ELSE o.container[f]]
  OBVIOUS
<1>3. p = [api_version |-> p.api_version, kind |-> p.kind, base |-> p.base, overrides |-> o]
      /\ o \in ProfileOverrides
  BY <1>1, Fields
<1>4. q = [p EXCEPT !.overrides = [o EXCEPT !.container = t]]
  BY <1>1, <1>2 DEF Cleared
<1>5. o = [network |-> o.network, storage |-> o.storage, container |-> o.container,
           node_pmc |-> o.node_pmc]
  BY <1>3, Sections
<1>6. DOMAIN o.container = {"enabled", "ignore_exit_codes"}
  BY <1>3 DEF ProfileOverrides
<1>7. t = [enabled |-> t.enabled, ignore_exit_codes |-> t.ignore_exit_codes]
  BY <1>2, <1>6
<1>8. Clears(o.container, t, "enabled", fields) /\ Clears(o.container, t, "ignore_exit_codes", fields)
  BY <1>2, <1>6 DEF Clears
<1>9. [o EXCEPT !.container = t] = [network |-> o.network, storage |-> o.storage, container |-> t, node_pmc |-> o.node_pmc]
  BY <1>5
<1>10. q = [api_version |-> p.api_version, kind |-> p.kind, base |-> p.base,
            overrides |-> [network |-> o.network, storage |-> o.storage, container |-> t, node_pmc |-> o.node_pmc]]
  BY <1>3, <1>4, <1>9
<1>11. [network |-> o.network, storage |-> o.storage, container |-> t, node_pmc |-> o.node_pmc] \in ProfileOverrides
  BY <1>3, <1>7, <1>8 DEF ProfileOverrides, Clears, Option
<1>12. q \in EvidenceProfile
  BY <1>10, <1>11 DEF EvidenceProfile
<1> QED
  BY <1>1, <1>8, <1>10, <1>12 DEF SameHeader

LEMMA ClearedNodePmc ==
    ASSUME NEW p \in EvidenceProfile, NEW fields, NEW q, q = Cleared(p, "node_pmc", fields)
    PROVE  /\ q \in EvidenceProfile /\ SameHeader(p, q)
           /\ q.overrides.network = p.overrides.network /\ q.overrides.storage = p.overrides.storage /\ q.overrides.container = p.overrides.container
           /\ \A f \in {"enabled", "warning", "critical", "ipc"} :
                 Clears(p.overrides.node_pmc, q.overrides.node_pmc, f, fields)
<1>1. PICK o : o = p.overrides
  OBVIOUS
<1>2. PICK t : t = [f \in DOMAIN o.node_pmc |-> IF f \in fields THEN Absent ELSE o.node_pmc[f]]
  OBVIOUS
<1>3. p = [api_version |-> p.api_version, kind |-> p.kind, base |-> p.base, overrides |-> o]
      /\ o \in ProfileOverrides
  BY <1>1, Fields
<1>4. q = [p EXCEPT !.overrides = [o EXCEPT !.node_pmc = t]]
  BY <1>1, <1>2 DEF Cleared
<1>5. o = [network |-> o.network, storage |-> o.storage, container |-> o.container,
           node_pmc |-> o.node_pmc]
  BY <1>3, Sections
<1>6. DOMAIN o.node_pmc = {"enabled", "warning", "critical", "ipc"}
  BY <1>3 DEF ProfileOverrides
<1>7. t = [enabled |-> t.enabled, warning |-> t.warning, critical |-> t.critical, ipc |-> t.ipc]
  BY <1>2, <1>6
<1>8. Clears(o.node_pmc, t, "enabled", fields) /\ Clears(o.node_pmc, t, "warning", fields) /\ Clears(o.node_pmc, t, "critical", fields) /\ Clears(o.node_pmc, t, "ipc", fields)
  BY <1>2, <1>6 DEF Clears
<1>9. [o EXCEPT !.node_pmc = t] = [network |-> o.network, storage |-> o.storage, container |-> o.container, node_pmc |-> t]
  BY <1>5
<1>10. q = [api_version |-> p.api_version, kind |-> p.kind, base |-> p.base,
            overrides |-> [network |-> o.network, storage |-> o.storage, container |-> o.container, node_pmc |-> t]]
  BY <1>3, <1>4, <1>9
<1>11. [network |-> o.network, storage |-> o.storage, container |-> o.container, node_pmc |-> t] \in ProfileOverrides
  BY <1>3, <1>7, <1>8 DEF ProfileOverrides, Clears, Option
<1>12. q \in EvidenceProfile
  BY <1>10, <1>11 DEF EvidenceProfile
<1> QED
  BY <1>1, <1>8, <1>10, <1>12 DEF SameHeader

\* The repairs, by name.
LEMMA Repairs ==
    ASSUME NEW p
    PROVE  /\ Repaired(p, "apiVersion") = [p EXCEPT !.api_version = TRUE]
           /\ Repaired(p, "kind") = [p EXCEPT !.kind = TRUE]
           /\ Repaired(p, "base") = [p EXCEPT !.base = "production-default"]
           /\ Repaired(p, "network.ratio") = Cleared(p, "network", {"ratio"})
           /\ Repaired(p, "network.abs_ms") = Cleared(p, "network", {"abs_ms"})
           /\ Repaired(p, "storage.warning_ms") = Cleared(p, "storage", {"warning_ms"})
           /\ Repaired(p, "storage.critical_ms") = Cleared(p, "storage", {"critical_ms"})
           /\ Repaired(p, "storage.slow_io") = Cleared(p, "storage", {"warning_ms", "critical_ms"})
           /\ Repaired(p, "container.ignore_exit_codes") = Cleared(p, "container", {"ignore_exit_codes"})
           /\ Repaired(p, "node_pmc.warning") = Cleared(p, "node_pmc", {"warning"})
           /\ Repaired(p, "node_pmc.critical") = Cleared(p, "node_pmc", {"critical"})
           /\ Repaired(p, "node_pmc.stall_pct") = Cleared(p, "node_pmc", {"warning", "critical"})
           /\ Repaired(p, "node_pmc.ipc") = Cleared(p, "node_pmc", {"ipc"})
BY DEF Repaired, Cleared

\* The repair of the k-th field makes the k-th check pass, and keeps those before it.
RepairWorks(p, k) ==
    /\ Repaired(p, FieldOrder[k]) \in EvidenceProfile
    /\ \A j \in 1..k : Passes(Repaired(p, FieldOrder[k]), j)

LEMMA NoValue ==
    /\ \A min, max : Within(Absent, min, max)
    /\ \A max : Finite(Absent, max)
    /\ Ordered(Absent, Absent, production_default.storage.warning_ms,
               production_default.storage.critical_ms)
    /\ Ordered(Absent, Absent, production_default.node_pmc.warning,
               production_default.node_pmc.critical)
    /\ CodesGood(<<>>)
<1>1. Absent # NotFinite /\ Fine \in Nat
  BY ProfileAssumption
<1>2. (\A min, max : Within(Absent, min, max)) /\ \A max : Finite(Absent, max)
  BY <1>1 DEF Within, Finite
<1>3. ~(200 < 50) /\ ~(400 * Fine < 200 * Fine)
  BY <1>1
<1>4. \A b, c : Or(Absent, b) = b
  BY DEF Or
<1>5. production_default.storage.warning_ms = 50 /\ production_default.storage.critical_ms = 200
      /\ production_default.node_pmc.warning = 200 * Fine
      /\ production_default.node_pmc.critical = 400 * Fine
  BY DEF production_default
<1>6. CodesGood(<<>>)
  BY DEF CodesGood, MAX_IGNORE_EXIT_CODES
<1> QED
  BY <1>2, <1>3, <1>4, <1>5, <1>6 DEF Ordered

LEMMA RepairsWork ==
    ASSUME NEW p \in EvidenceProfile, NEW k \in 1..13, \A j \in 1..(k - 1) : Passes(p, j)
    PROVE  RepairWorks(p, k)
<1>1. CASE k = 1
  <2>1. PICK q : q = Repaired(p, FieldOrder[1])
    OBVIOUS
  <2>2. q = [p EXCEPT !.api_version = TRUE]
    <3>1. FieldOrder[1] = "apiVersion"
      BY Order
    <3>2. Repaired(p, "apiVersion") = [p EXCEPT !.api_version = TRUE]
      BY Repairs, Zenon
    <3> QED
      BY <2>1, <3>1, <3>2, Zenon
  <2>3. q = [api_version |-> TRUE, kind |-> p.kind, base |-> p.base, overrides |-> p.overrides]
    <3>1. p = [api_version |-> p.api_version, kind |-> p.kind, base |-> p.base,
               overrides |-> p.overrides]
      BY Fields
    <3>2. \A a, b, c, d, e : [[api_version |-> a, kind |-> b, base |-> c, overrides |-> d] EXCEPT !.api_version = e]
                            = [api_version |-> e, kind |-> b, base |-> c, overrides |-> d]
      OBVIOUS
    <3> QED
      BY <2>2, <3>1, <3>2, Zenon
  <2>4. q \in EvidenceProfile
    BY <2>3 DEF EvidenceProfile
  <2>5. \A j \in 1..1 : Passes(q, j)
    BY <1>1, <2>3 DEF Passes
  <2> QED
    BY <1>1, <2>1, <2>4, <2>5 DEF RepairWorks
<1>2. CASE k = 2
  <2>1. PICK q : q = Repaired(p, FieldOrder[2])
    OBVIOUS
  <2>2. q = [p EXCEPT !.kind = TRUE]
    <3>1. FieldOrder[2] = "kind"
      BY Order
    <3>2. Repaired(p, "kind") = [p EXCEPT !.kind = TRUE]
      BY Repairs, Zenon
    <3> QED
      BY <2>1, <3>1, <3>2, Zenon
  <2>3. q = [api_version |-> p.api_version, kind |-> TRUE, base |-> p.base, overrides |-> p.overrides]
    <3>1. p = [api_version |-> p.api_version, kind |-> p.kind, base |-> p.base,
               overrides |-> p.overrides]
      BY Fields
    <3>2. \A a, b, c, d, e : [[api_version |-> a, kind |-> b, base |-> c, overrides |-> d] EXCEPT !.kind = e]
                            = [api_version |-> a, kind |-> e, base |-> c, overrides |-> d]
      OBVIOUS
    <3> QED
      BY <2>2, <3>1, <3>2, Zenon
  <2>4. q \in EvidenceProfile
    BY <2>3 DEF EvidenceProfile
  <2>5. \A j \in 1..2 : Passes(q, j)
    BY <1>2, <2>3 DEF Passes
  <2> QED
    BY <1>2, <2>1, <2>4, <2>5 DEF RepairWorks
<1>3. CASE k = 3
  <2>1. PICK q : q = Repaired(p, FieldOrder[3])
    OBVIOUS
  <2>2. q = [p EXCEPT !.base = "production-default"]
    <3>1. FieldOrder[3] = "base"
      BY Order
    <3>2. Repaired(p, "base") = [p EXCEPT !.base = "production-default"]
      BY Repairs, Zenon
    <3> QED
      BY <2>1, <3>1, <3>2, Zenon
  <2>3. q = [api_version |-> p.api_version, kind |-> p.kind, base |-> "production-default", overrides |-> p.overrides]
    <3>1. p = [api_version |-> p.api_version, kind |-> p.kind, base |-> p.base,
               overrides |-> p.overrides]
      BY Fields
    <3>2. \A a, b, c, d, e : [[api_version |-> a, kind |-> b, base |-> c, overrides |-> d] EXCEPT !.base = e]
                            = [api_version |-> a, kind |-> b, base |-> e, overrides |-> d]
      OBVIOUS
    <3> QED
      BY <2>2, <3>1, <3>2, Zenon
  <2>4. q \in EvidenceProfile
    BY <2>3 DEF EvidenceProfile
  <2>5. \A j \in 1..3 : Passes(q, j)
    BY <1>3, <2>3 DEF Passes
  <2> QED
    BY <1>3, <2>1, <2>4, <2>5 DEF RepairWorks
<1>4. CASE k = 4
  <2>1. PICK q : q = Repaired(p, FieldOrder[4])
    OBVIOUS
  <2>2. q = Cleared(p, "network", {"ratio"})
    BY <2>1, Repairs, Order
  <2>3. /\ q \in EvidenceProfile /\ SameHeader(p, q)
        /\ q.overrides.storage = p.overrides.storage /\ q.overrides.container = p.overrides.container /\ q.overrides.node_pmc = p.overrides.node_pmc
    BY <2>2, ClearedNetwork
  <2>4. q.overrides.network.ratio = Absent /\ q.overrides.network.abs_ms = p.overrides.network.abs_ms
    BY <2>2, ClearedNetwork DEF Clears
  <2>5. \A j \in 1..4 : Passes(q, j)
    BY <1>4, <2>3, <2>4, NoValue DEF Passes, SameHeader
  <2> QED
    BY <1>4, <2>1, <2>3, <2>5 DEF RepairWorks
<1>5. CASE k = 5
  <2>1. PICK q : q = Repaired(p, FieldOrder[5])
    OBVIOUS
  <2>2. q = Cleared(p, "network", {"abs_ms"})
    BY <2>1, Repairs, Order
  <2>3. /\ q \in EvidenceProfile /\ SameHeader(p, q)
        /\ q.overrides.storage = p.overrides.storage /\ q.overrides.container = p.overrides.container /\ q.overrides.node_pmc = p.overrides.node_pmc
    BY <2>2, ClearedNetwork
  <2>4. q.overrides.network.ratio = p.overrides.network.ratio /\ q.overrides.network.abs_ms = Absent
    BY <2>2, ClearedNetwork DEF Clears
  <2>5. \A j \in 1..5 : Passes(q, j)
    BY <1>5, <2>3, <2>4, NoValue DEF Passes, SameHeader
  <2> QED
    BY <1>5, <2>1, <2>3, <2>5 DEF RepairWorks
<1>6. CASE k = 6
  <2>1. PICK q : q = Repaired(p, FieldOrder[6])
    OBVIOUS
  <2>2. q = Cleared(p, "storage", {"warning_ms"})
    BY <2>1, Repairs, Order
  <2>3. /\ q \in EvidenceProfile /\ SameHeader(p, q)
        /\ q.overrides.network = p.overrides.network /\ q.overrides.container = p.overrides.container /\ q.overrides.node_pmc = p.overrides.node_pmc
    BY <2>2, ClearedStorage
  <2>4. q.overrides.storage.warning_ms = Absent /\ q.overrides.storage.critical_ms = p.overrides.storage.critical_ms
    BY <2>2, ClearedStorage DEF Clears
  <2>5. \A j \in 1..6 : Passes(q, j)
    BY <1>6, <2>3, <2>4, NoValue DEF Passes, SameHeader
  <2> QED
    BY <1>6, <2>1, <2>3, <2>5 DEF RepairWorks
<1>7. CASE k = 7
  <2>1. PICK q : q = Repaired(p, FieldOrder[7])
    OBVIOUS
  <2>2. q = Cleared(p, "storage", {"critical_ms"})
    BY <2>1, Repairs, Order
  <2>3. /\ q \in EvidenceProfile /\ SameHeader(p, q)
        /\ q.overrides.network = p.overrides.network /\ q.overrides.container = p.overrides.container /\ q.overrides.node_pmc = p.overrides.node_pmc
    BY <2>2, ClearedStorage
  <2>4. q.overrides.storage.warning_ms = p.overrides.storage.warning_ms /\ q.overrides.storage.critical_ms = Absent
    BY <2>2, ClearedStorage DEF Clears
  <2>5. \A j \in 1..7 : Passes(q, j)
    BY <1>7, <2>3, <2>4, NoValue DEF Passes, SameHeader
  <2> QED
    BY <1>7, <2>1, <2>3, <2>5 DEF RepairWorks
<1>8. CASE k = 8
  <2>1. PICK q : q = Repaired(p, FieldOrder[8])
    OBVIOUS
  <2>2. q = Cleared(p, "storage", {"warning_ms", "critical_ms"})
    BY <2>1, Repairs, Order
  <2>3. /\ q \in EvidenceProfile /\ SameHeader(p, q)
        /\ q.overrides.network = p.overrides.network /\ q.overrides.container = p.overrides.container /\ q.overrides.node_pmc = p.overrides.node_pmc
    BY <2>2, ClearedStorage
  <2>4. q.overrides.storage.warning_ms = Absent /\ q.overrides.storage.critical_ms = Absent
    BY <2>2, ClearedStorage DEF Clears
  <2>5. \A j \in 1..8 : Passes(q, j)
    BY <1>8, <2>3, <2>4, NoValue DEF Passes, SameHeader
  <2> QED
    BY <1>8, <2>1, <2>3, <2>5 DEF RepairWorks
<1>9. CASE k = 9
  <2>1. PICK q : q = Repaired(p, FieldOrder[9])
    OBVIOUS
  <2>2. q = Cleared(p, "container", {"ignore_exit_codes"})
    BY <2>1, Repairs, Order
  <2>3. /\ q \in EvidenceProfile /\ SameHeader(p, q)
        /\ q.overrides.network = p.overrides.network /\ q.overrides.storage = p.overrides.storage /\ q.overrides.node_pmc = p.overrides.node_pmc
    BY <2>2, ClearedContainer
  <2>4. q.overrides.container.ignore_exit_codes = Absent
    BY <2>2, ClearedContainer DEF Clears
  <2>5. Codes(q.overrides.container) = <<>>
    BY <2>4 DEF Codes, Or
  <2>6. \A j \in 1..9 : Passes(q, j)
    BY <1>9, <2>3, <2>5, NoValue DEF Passes, SameHeader
  <2> QED
    BY <1>9, <2>1, <2>3, <2>6 DEF RepairWorks
<1>10. CASE k = 10
  <2>1. PICK q : q = Repaired(p, FieldOrder[10])
    OBVIOUS
  <2>2. q = Cleared(p, "node_pmc", {"warning"})
    BY <2>1, Repairs, Order
  <2>3. /\ q \in EvidenceProfile /\ SameHeader(p, q)
        /\ q.overrides.network = p.overrides.network /\ q.overrides.storage = p.overrides.storage /\ q.overrides.container = p.overrides.container
    BY <2>2, ClearedNodePmc
  <2>4. q.overrides.node_pmc.warning = Absent /\ q.overrides.node_pmc.critical = p.overrides.node_pmc.critical /\ q.overrides.node_pmc.ipc = p.overrides.node_pmc.ipc
    BY <2>2, ClearedNodePmc DEF Clears
  <2>5. \A j \in 1..10 : Passes(q, j)
    BY <1>10, <2>3, <2>4, NoValue DEF Passes, SameHeader
  <2> QED
    BY <1>10, <2>1, <2>3, <2>5 DEF RepairWorks
<1>11. CASE k = 11
  <2>1. PICK q : q = Repaired(p, FieldOrder[11])
    OBVIOUS
  <2>2. q = Cleared(p, "node_pmc", {"critical"})
    BY <2>1, Repairs, Order
  <2>3. /\ q \in EvidenceProfile /\ SameHeader(p, q)
        /\ q.overrides.network = p.overrides.network /\ q.overrides.storage = p.overrides.storage /\ q.overrides.container = p.overrides.container
    BY <2>2, ClearedNodePmc
  <2>4. q.overrides.node_pmc.warning = p.overrides.node_pmc.warning /\ q.overrides.node_pmc.critical = Absent /\ q.overrides.node_pmc.ipc = p.overrides.node_pmc.ipc
    BY <2>2, ClearedNodePmc DEF Clears
  <2>5. \A j \in 1..11 : Passes(q, j)
    BY <1>11, <2>3, <2>4, NoValue DEF Passes, SameHeader
  <2> QED
    BY <1>11, <2>1, <2>3, <2>5 DEF RepairWorks
<1>12. CASE k = 12
  <2>1. PICK q : q = Repaired(p, FieldOrder[12])
    OBVIOUS
  <2>2. q = Cleared(p, "node_pmc", {"warning", "critical"})
    BY <2>1, Repairs, Order
  <2>3. /\ q \in EvidenceProfile /\ SameHeader(p, q)
        /\ q.overrides.network = p.overrides.network /\ q.overrides.storage = p.overrides.storage /\ q.overrides.container = p.overrides.container
    BY <2>2, ClearedNodePmc
  <2>4. q.overrides.node_pmc.warning = Absent /\ q.overrides.node_pmc.critical = Absent /\ q.overrides.node_pmc.ipc = p.overrides.node_pmc.ipc
    BY <2>2, ClearedNodePmc DEF Clears
  <2>5. \A j \in 1..12 : Passes(q, j)
    BY <1>12, <2>3, <2>4, NoValue DEF Passes, SameHeader
  <2> QED
    BY <1>12, <2>1, <2>3, <2>5 DEF RepairWorks
<1>13. CASE k = 13
  <2>1. PICK q : q = Repaired(p, FieldOrder[13])
    OBVIOUS
  <2>2. q = Cleared(p, "node_pmc", {"ipc"})
    BY <2>1, Repairs, Order
  <2>3. /\ q \in EvidenceProfile /\ SameHeader(p, q)
        /\ q.overrides.network = p.overrides.network /\ q.overrides.storage = p.overrides.storage /\ q.overrides.container = p.overrides.container
    BY <2>2, ClearedNodePmc
  <2>4. q.overrides.node_pmc.warning = p.overrides.node_pmc.warning /\ q.overrides.node_pmc.critical = p.overrides.node_pmc.critical /\ q.overrides.node_pmc.ipc = Absent
    BY <2>2, ClearedNodePmc DEF Clears
  <2>5. \A j \in 1..13 : Passes(q, j)
    BY <1>13, <2>3, <2>4, NoValue DEF Passes, SameHeader
  <2> QED
    BY <1>13, <2>1, <2>3, <2>5 DEF RepairWorks
<1> QED
  BY <1>1, <1>2, <1>3, <1>4, <1>5, <1>6, <1>7, <1>8, <1>9, <1>10, <1>11, <1>12, <1>13

LEMMA Distinct ==
    ASSUME NEW i \in 1..14, NEW j \in 1..14, FieldOrder[i] = FieldOrder[j]
    PROVE  i = j
BY Order

LEMMA RankIs ==
    ASSUME NEW p, NEW k \in 1..14, validate(p).path = FieldOrder[k]
    PROVE  Rank(p) = k
<1>1. DOMAIN FieldOrder = 1..14
  BY Order
<1>2. \A i \in DOMAIN FieldOrder : FieldOrder[i] = validate(p).path => i = k
  BY <1>1, Distinct
<1>3. k \in DOMAIN FieldOrder
  BY <1>1
<1> QED
  BY <1>2, <1>3, Zenon DEF Rank

\* An accepted document has the last rank, and one that is refused that of its first
\* failing check.
LEMMA Ranks ==
    ASSUME NEW p \in EvidenceProfile
    PROVE  \/ /\ validate(p) = Ok /\ Rank(p) = 14 /\ \A j \in 1..13 : Passes(p, j)
           \/ \E k \in 1..13 : /\ validate(p) # Ok /\ validate(p).path = FieldOrder[k]
                               /\ Rank(p) = k /\ ~Passes(p, k)
                               /\ \A j \in 1..(k - 1) : Passes(p, j)
<1>1. First(validate(p), p, 1, 13)
  BY Checks
<1>2. CASE validate(p) = Ok /\ \A k \in 1..13 : Passes(p, k)
  <2>1. validate(p).path = FieldOrder[14]
    BY <1>2, Order DEF Ok
  <2>2. 14 \in 1..14
    OBVIOUS
  <2>3. Rank(p) = 14
    BY <2>1, <2>2, RankIs
  <2> QED
    BY <1>2, <2>3
<1>3. CASE \E k \in 1..13 : Bad(validate(p), p, 1, k)
  <2>1. PICK k \in 1..13 : Bad(validate(p), p, 1, k)
    BY <1>3
  <2>2. /\ validate(p) # Ok /\ validate(p).path = FieldOrder[k] /\ ~Passes(p, k)
        /\ \A j \in 1..(k - 1) : Passes(p, j)
    BY <2>1 DEF Bad, Fails
  <2>3. k \in 1..14
    OBVIOUS
  <2>4. Rank(p) = k
    BY <2>2, <2>3, RankIs
  <2> QED
    BY <2>2, <2>4
<1> QED
  BY <1>1, <1>2, <1>3 DEF First

LEMMA RepairGrows ==
    ASSUME NEW p \in EvidenceProfile, validate(p) # Ok, NEW q, q = Repaired(p, validate(p).path)
    PROVE  q \in EvidenceProfile /\ Rank(q) > Rank(p)
<1>1. PICK k \in 1..13 : /\ validate(p).path = FieldOrder[k] /\ Rank(p) = k
                         /\ \A j \in 1..(k - 1) : Passes(p, j)
  BY Ranks
<1>2. RepairWorks(p, k)
  BY <1>1, RepairsWork
<1>3. q \in EvidenceProfile /\ \A j \in 1..k : Passes(q, j)
  BY <1>1, <1>2 DEF RepairWorks
<1>4. CASE Rank(q) = 14
  BY <1>1, <1>3, <1>4
<1>5. CASE \E i \in 1..13 : Rank(q) = i /\ ~Passes(q, i)
  BY <1>1, <1>3, <1>5
<1> QED
  BY <1>3, <1>4, <1>5, Ranks

-----------------------------------------------------------------------------

\* A document, and the loop over the codes of one that is accepted: the checked codes are
\* the codes seen, each once.
Listed(checked, codes, n) ==
    /\ checked \in Seq(Int) /\ Len(checked) <= n
    /\ \A i \in 1..n : \E j \in 1..Len(checked) : checked[j] = codes[i]
    /\ \A j \in 1..Len(checked) : \E i \in 1..n : checked[j] = codes[i]
ProfileState(d, at, checked) ==
    /\ d \in EvidenceProfile
    /\ at \in 0..Len(Codes(d.overrides.container))
    /\ Listed(checked, Codes(d.overrides.container), at)
    /\ validate(d) # Ok => at = 0 /\ checked = <<>>
ProfileOK ==
    \E d, at, checked :
        /\ work = [kind |-> "profile", doc |-> d, at |-> at, checked |-> checked]
        /\ ProfileState(d, at, checked)

LEMMA CodesType ==
    ASSUME NEW d \in EvidenceProfile
    PROVE  Codes(d.overrides.container) \in Seq(Int)
BY DEF EvidenceProfile, ProfileOverrides, Option, Codes, Or

LEMMA NothingListed ==
    ASSUME NEW codes
    PROVE  Listed(<<>>, codes, 0)
BY DEF Listed

LEMMA OneMore ==
    ASSUME NEW codes \in Seq(Int), NEW n \in 0..Len(codes), n < Len(codes), NEW checked,
           Listed(checked, codes, n), NEW more, more = check_code(checked, codes[n + 1])
    PROVE  Listed(more, codes, n + 1)
<1>1. PICK code \in Int : code = codes[n + 1]
  OBVIOUS
<1>2. checked \in Seq(Int) /\ Len(checked) <= n /\ DOMAIN checked = 1..Len(checked)
  BY DEF Listed
<1> DEFINE len == Len(checked)
<1>3. len \in Nat /\ n \in Nat
  BY <1>2
<1>4. \A i \in 1..n : \E j \in 1..len : checked[j] = codes[i]
  BY DEF Listed
<1>5. \A j \in 1..len : \E i \in 1..n : checked[j] = codes[i]
  BY DEF Listed
<1>6. /\ \A i \in 1..(n + 1) : i \in 1..n \/ i = n + 1
      /\ \A i \in 1..n : i \in 1..(n + 1)
      /\ n + 1 \in 1..(n + 1) /\ len + 1 \in 1..(len + 1)
      /\ \A j \in 1..len : j \in 1..(len + 1)
      /\ \A j \in 1..(len + 1) : j \in 1..len \/ j = len + 1
  BY <1>3
<1>7. CASE \E i \in 1..len : checked[i] = code
  <2>1. more = checked
    BY <1>1, <1>2, <1>7 DEF check_code
  <2>2. \A i \in 1..(n + 1) : \E j \in 1..len : checked[j] = codes[i]
    BY <1>1, <1>4, <1>6, <1>7, Zenon
  <2>3. \A j \in 1..len : \E i \in 1..(n + 1) : checked[j] = codes[i]
    BY <1>5, <1>6, Zenon
  <2>4. len <= n + 1
    BY <1>2, <1>3
  <2> QED
    BY <1>2, <2>1, <2>2, <2>3, <2>4, Zenon DEF Listed
<1>8. CASE ~\E i \in 1..len : checked[i] = code
  <2>1. more = Append(checked, code)
    BY <1>1, <1>2, <1>8 DEF check_code
  <2>2. /\ more \in Seq(Int) /\ Len(more) = len + 1 /\ more[len + 1] = code
        /\ \A i \in 1..len : more[i] = checked[i]
    BY <1>2, <2>1
  <2>3. \A i \in 1..(n + 1) : \E j \in 1..(len + 1) : more[j] = codes[i]
    BY <1>1, <1>4, <1>6, <2>2, Zenon
  <2>4. \A j \in 1..(len + 1) : \E i \in 1..(n + 1) : more[j] = codes[i]
    BY <1>1, <1>5, <1>6, <2>2, Zenon
  <2>5. len + 1 <= n + 1
    BY <1>2, <1>3
  <2> QED
    BY <2>2, <2>3, <2>4, <2>5, Zenon DEF Listed
<1> QED
  BY <1>7, <1>8

LEMMA ProfileInit ==
    ASSUME work \in ProfileWork
    PROVE  ProfileOK
<1>1. PICK d \in Documents : work = [kind |-> "profile", doc |-> d, at |-> 0, checked |-> <<>>]
  BY DEF ProfileWork
<1>2. d \in EvidenceProfile
  BY InputsAssumption
<1>3. Len(Codes(d.overrides.container)) \in Nat
  BY <1>2, CodesType
<1>4. Listed(<<>>, Codes(d.overrides.container), 0)
  BY NothingListed
<1>5. ProfileState(d, 0, <<>>)
  BY <1>2, <1>3, <1>4 DEF ProfileState
<1> QED
  BY <1>1, <1>5 DEF ProfileOK

LEMMA ProfileStep ==
    ASSUME ProfileOK, repair \/ check_turn
    PROVE  ProfileOK'
<1>1. PICK d, at, checked :
          /\ work = [kind |-> "profile", doc |-> d, at |-> at, checked |-> checked]
          /\ ProfileState(d, at, checked)
  BY DEF ProfileOK
<1>2. CASE repair
  <2>1. PICK q : q = Repaired(d, validate(d).path)
    OBVIOUS
  <2>2. validate(d) # Ok /\ work' = [work EXCEPT !.doc = q]
    BY <1>1, <1>2, <2>1 DEF repair
  <2>3. work' = [kind |-> "profile", doc |-> q, at |-> 0, checked |-> <<>>]
    BY <1>1, <2>2 DEF ProfileState
  <2>4. q \in EvidenceProfile
    BY <1>1, <2>1, <2>2, RepairGrows DEF ProfileState
  <2>5. Len(Codes(q.overrides.container)) \in Nat /\ Listed(<<>>, Codes(q.overrides.container), 0)
    BY <2>4, CodesType, NothingListed
  <2>6. ProfileState(q, 0, <<>>)
    BY <2>4, <2>5 DEF ProfileState
  <2> QED
    BY <2>3, <2>6 DEF ProfileOK
<1>3. CASE check_turn
  <2>1. PICK codes \in Seq(Int) : codes = Codes(d.overrides.container)
    BY <1>1, CodesType DEF ProfileState
  <2>2. WrittenCodes = codes
    BY <1>1, <2>1 DEF WrittenCodes
  <2>3. PICK more : more = check_code(checked, codes[at + 1])
    OBVIOUS
  <2>4. validate(d) = Ok /\ at < Len(codes)
        /\ work' = [work EXCEPT !.at = at + 1, !.checked = more]
    BY <1>1, <1>3, <2>2, <2>3 DEF check_turn
  <2>5. work' = [kind |-> "profile", doc |-> d, at |-> at + 1, checked |-> more]
    BY <1>1, <2>4
  <2>6. at \in 0..Len(codes) /\ Listed(checked, codes, at) /\ d \in EvidenceProfile
    BY <1>1, <2>1 DEF ProfileState
  <2>7. Listed(more, codes, at + 1)
    BY <2>3, <2>4, <2>6, OneMore
  <2>8. at + 1 \in 0..Len(codes)
    BY <2>4, <2>6
  <2>9. ProfileState(d, at + 1, more)
    BY <2>1, <2>4, <2>6, <2>7, <2>8 DEF ProfileState
  <2> QED
    BY <2>5, <2>9 DEF ProfileOK
<1> QED
  BY <1>2, <1>3

-----------------------------------------------------------------------------
(* The verdicts of a profile.                                              *)

\* The values an accepted document resolves to.
Sane(w) ==
    /\ w.network.enabled \in BOOLEAN /\ w.storage.enabled \in BOOLEAN
    /\ w.container.enabled \in BOOLEAN /\ w.node_pmc.enabled \in BOOLEAN
    /\ w.network.ratio \in Nat /\ 1 <= w.network.ratio /\ w.network.ratio <= 100
    /\ w.network.abs_ms \in Nat /\ 1 <= w.network.abs_ms /\ w.network.abs_ms <= 600000
    /\ w.storage.warning_ms \in Nat /\ 1 <= w.storage.warning_ms
    /\ w.storage.warning_ms <= 600000
    /\ w.storage.critical_ms \in Nat /\ 1 <= w.storage.critical_ms
    /\ w.storage.critical_ms <= 600000
    /\ w.node_pmc.warning \in Int /\ w.node_pmc.critical \in Int /\ w.node_pmc.ipc \in Int
    /\ w.node_pmc.warning <= w.node_pmc.critical

LEMMA Millis ==
    ASSUME NEW value \in Option(Nat), NEW base \in Nat, NEW max \in Nat, 1 <= base, base <= max,
           Within(value, 1, max)
    PROVE  Or(value, base) \in Nat /\ 1 <= Or(value, base) /\ Or(value, base) <= max
BY DEF Option, Or, Within

LEMMA Float ==
    ASSUME NEW value \in Option(Int \cup {NotFinite}), NEW base \in Int, NEW max, Finite(value, max)
    PROVE  Or(value, base) \in Int
BY DEF Option, Or, Finite

LEMMA Flag ==
    ASSUME NEW value \in Option(BOOLEAN)
    PROVE  Or(value, TRUE) \in BOOLEAN
<1>1. CASE value = Absent
  BY <1>1, Zenon DEF Or
<1>2. CASE value # Absent
  <2>1. value \in BOOLEAN
    BY <1>2, Zenon DEF Option
  <2> QED
    BY <1>2, <2>1, Zenon DEF Or
<1> QED
  BY <1>1, <1>2

LEMMA InOrder ==
    ASSUME NEW warning, NEW critical, NEW bw, NEW bc, Ordered(warning, critical, bw, bc),
           warning # NotFinite, critical # NotFinite,
           Or(warning, bw) \in Int, Or(critical, bc) \in Int
    PROVE  Or(warning, bw) <= Or(critical, bc)
<1>1. ~(Or(critical, bc) < Or(warning, bw))
  BY Zenon DEF Ordered
<1> QED
  BY <1>1

LEMMA ResolvedSane ==
    ASSUME NEW d \in EvidenceProfile, validate(d) = Ok, NEW checked
    PROVE  Sane(Resolved(d, checked))
<1>1. \A j \in 1..13 : Passes(d, j)
  BY Ranks
<1>2. PICK o \in ProfileOverrides : o = d.overrides
  BY Fields
<1>3. /\ o.network.enabled \in Option(BOOLEAN) /\ o.storage.enabled \in Option(BOOLEAN)
      /\ o.container.enabled \in Option(BOOLEAN) /\ o.node_pmc.enabled \in Option(BOOLEAN)
      /\ o.network.ratio \in Option(Nat) /\ o.network.abs_ms \in Option(Nat)
      /\ o.storage.warning_ms \in Option(Nat) /\ o.storage.critical_ms \in Option(Nat)
      /\ o.node_pmc.warning \in Option(Int \cup {NotFinite})
      /\ o.node_pmc.critical \in Option(Int \cup {NotFinite})
      /\ o.node_pmc.ipc \in Option(Int \cup {NotFinite})
  BY DEF ProfileOverrides
<1>4. Within(o.network.ratio, 1, 100) /\ Within(o.network.abs_ms, 1, 600000)
      /\ Within(o.storage.warning_ms, 1, 60000) /\ Within(o.storage.critical_ms, 1, 600000)
  <2>1. 4 \in 1..13 /\ 5 \in 1..13 /\ 6 \in 1..13 /\ 7 \in 1..13
    OBVIOUS
  <2>2. Passes(d, 4) /\ Passes(d, 5) /\ Passes(d, 6) /\ Passes(d, 7)
    BY <1>1, <2>1
  <2> QED
    BY <1>2, <2>2, SMT DEF Passes, MAX_RATIO, MAX_RTT_ABS_MS, MAX_WARNING_MS, MAX_CRITICAL_MS
<1>5. Finite(o.node_pmc.warning, MAX_STALL) /\ Finite(o.node_pmc.critical, MAX_STALL)
      /\ Finite(o.node_pmc.ipc, MAX_IPC)
  <2>1. 10 \in 1..13 /\ 11 \in 1..13 /\ 13 \in 1..13
    OBVIOUS
  <2>2. Passes(d, 10) /\ Passes(d, 11) /\ Passes(d, 13)
    BY <1>1, <2>1
  <2> QED
    BY <1>2, <2>2, SMT DEF Passes
<1>6. Ordered(o.node_pmc.warning, o.node_pmc.critical, 200 * Fine, 400 * Fine)
  <2>1. 12 \in 1..13
    OBVIOUS
  <2>2. Passes(d, 12)
    BY <1>1, <2>1
  <2> QED
    BY <1>2, <2>2, SMT DEF Passes, production_default
<1>7. /\ Or(o.network.ratio, 2) \in Nat /\ 1 <= Or(o.network.ratio, 2)
      /\ Or(o.network.ratio, 2) <= 100
  BY <1>3, <1>4, Millis, SMT
<1>8. /\ Or(o.network.abs_ms, 500) \in Nat /\ 1 <= Or(o.network.abs_ms, 500)
      /\ Or(o.network.abs_ms, 500) <= 600000
  BY <1>3, <1>4, Millis, SMT
<1>9. /\ Or(o.storage.warning_ms, 50) \in Nat /\ 1 <= Or(o.storage.warning_ms, 50)
      /\ Or(o.storage.warning_ms, 50) <= 60000
  BY <1>3, <1>4, Millis, SMT
<1>10. /\ Or(o.storage.critical_ms, 200) \in Nat /\ 1 <= Or(o.storage.critical_ms, 200)
       /\ Or(o.storage.critical_ms, 200) <= 600000
  BY <1>3, <1>4, Millis, SMT
<1>11. /\ Or(o.node_pmc.warning, 200 * Fine) \in Int /\ Or(o.node_pmc.critical, 400 * Fine) \in Int
       /\ Or(o.node_pmc.ipc, 1000 * Fine) \in Int
  <2>1. 200 * Fine \in Int /\ 400 * Fine \in Int /\ 1000 * Fine \in Int
    BY ProfileAssumption, SMT
  <2> QED
    BY <1>3, <1>5, <2>1, Float, SMT
<1>12. Or(o.node_pmc.warning, 200 * Fine) <= Or(o.node_pmc.critical, 400 * Fine)
  <2>1. o.node_pmc.warning # NotFinite /\ o.node_pmc.critical # NotFinite
    BY <1>5 DEF Finite
  <2> QED
    BY <1>6, <1>11, <2>1, InOrder, SMT
<1>13. /\ Or(o.network.enabled, TRUE) \in BOOLEAN /\ Or(o.storage.enabled, TRUE) \in BOOLEAN
       /\ Or(o.container.enabled, TRUE) \in BOOLEAN /\ Or(o.node_pmc.enabled, TRUE) \in BOOLEAN
  BY <1>3, Flag, Zenon
<1>14. PICK w : w = Resolved(d, checked)
  OBVIOUS
<1>15. /\ w.network.enabled = Or(o.network.enabled, TRUE)
       /\ w.storage.enabled = Or(o.storage.enabled, TRUE)
       /\ w.container.enabled = Or(o.container.enabled, TRUE)
       /\ w.node_pmc.enabled = Or(o.node_pmc.enabled, TRUE)
  BY <1>2, <1>14 DEF Resolved, production_default
<1>16. /\ w.network.ratio = Or(o.network.ratio, 2) /\ w.network.abs_ms = Or(o.network.abs_ms, 500)
       /\ w.storage.warning_ms = Or(o.storage.warning_ms, 50)
       /\ w.storage.critical_ms = Or(o.storage.critical_ms, 200)
       /\ w.node_pmc.warning = Or(o.node_pmc.warning, 200 * Fine)
       /\ w.node_pmc.critical = Or(o.node_pmc.critical, 400 * Fine)
       /\ w.node_pmc.ipc = Or(o.node_pmc.ipc, 1000 * Fine)
  BY <1>2, <1>14, SMT DEF Resolved, production_default
<1>17. /\ w.network.enabled \in BOOLEAN /\ w.storage.enabled \in BOOLEAN
       /\ w.container.enabled \in BOOLEAN /\ w.node_pmc.enabled \in BOOLEAN
  BY <1>13, <1>15, Zenon
<1>18. /\ w.network.ratio \in Nat /\ 1 <= w.network.ratio /\ w.network.ratio <= 100
       /\ w.network.abs_ms \in Nat /\ 1 <= w.network.abs_ms /\ w.network.abs_ms <= 600000
       /\ w.storage.warning_ms \in Nat /\ 1 <= w.storage.warning_ms
       /\ w.storage.warning_ms <= 600000
       /\ w.storage.critical_ms \in Nat /\ 1 <= w.storage.critical_ms
       /\ w.storage.critical_ms <= 600000
       /\ w.node_pmc.warning \in Int /\ w.node_pmc.critical \in Int /\ w.node_pmc.ipc \in Int
       /\ w.node_pmc.warning <= w.node_pmc.critical
  BY <1>7, <1>8, <1>9, <1>10, <1>11, <1>12, <1>16, SMT
<1> QED
  BY <1>14, <1>17, <1>18, SMT DEF Sane

-----------------------------------------------------------------------------

LEMMA NoWrap ==
    ASSUME NEW n \in Nat, NEW size \in Nat, n < size
    PROVE  n % size = n
OBVIOUS

LEMMA Scaled ==
    ASSUME NEW n \in Nat, NEW max \in Nat, n <= max, NEW unit \in Nat, NEW size \in Nat,
           max * unit < size
    PROVE  (n * unit) % size = n * unit
<1>1. n * unit \in Nat /\ n * unit <= max * unit
  OBVIOUS
<1>2. n * unit < size
  BY <1>1
<1> QED
  BY <1>1, <1>2, NoWrap

LEMMA Quotient ==
    ASSUME NEW a \in Int, NEW b \in Nat, b > 0
    PROVE  /\ a \div b \in Int /\ (a \div b) * b <= a /\ a < (a \div b) * b + b
OBVIOUS

\* A compiled float is off by at most half a unit.
LEMMA Nearest ==
    ASSUME NEW x \in Int
    PROVE  /\ Round(x) \in Int
           /\ 2 * (Round(x) * Fine - x) <= Fine /\ -Fine < 2 * (Round(x) * Fine - x)
<1>1. Fine \in Nat /\ Fine > 0 /\ Fine % 2 = 0
  BY ProfileAssumption
<1>2. PICK h \in Nat : Fine = 2 * h /\ Fine \div 2 = h
  BY <1>1
<1>3. PICK q \in Int : q = Round(x) /\ q * Fine <= x + h /\ x + h < q * Fine + Fine
  BY <1>1, <1>2, Quotient DEF Round
<1>4. PICK t \in Int : t = q * Fine
  BY <1>1
<1>5. 2 * (t - x) <= Fine /\ -Fine < 2 * (t - x)
  BY <1>1, <1>2, <1>3, <1>4
<1> QED
  BY <1>3, <1>4, <1>5

LEMMA RoundGrows ==
    ASSUME NEW x \in Int, NEW y \in Int, x <= y
    PROVE  Round(x) * Fine <= Round(y) * Fine
<1>1. Fine \in Nat /\ Fine > 0 /\ Fine % 2 = 0
  BY ProfileAssumption
<1>2. PICK h \in Nat : h = Fine \div 2
  BY <1>1
<1>3. PICK q \in Int : q = Round(x) /\ q * Fine <= x + h /\ x + h < q * Fine + Fine
  BY <1>1, <1>2, Quotient DEF Round
<1>4. PICK r \in Int : r = Round(y) /\ r * Fine <= y + h /\ y + h < r * Fine + Fine
  BY <1>1, <1>2, Quotient DEF Round
<1>5. q * Fine < (r + 1) * Fine
  BY <1>1, <1>3, <1>4
<1>6. q < r + 1
  BY <1>1, <1>5
<1>7. q <= r
  BY <1>6
<1>8. q * Fine <= r * Fine
  BY <1>1, <1>7
<1> QED
  BY <1>3, <1>4, <1>8

LEMMA RoundWhole ==
    ASSUME NEW n \in Nat
    PROVE  Round(n * Fine) = n
<1>1. Fine \in Nat /\ Fine > 0 /\ Fine % 2 = 0
  BY ProfileAssumption
<1>2. PICK h \in Nat : Fine = 2 * h /\ h = Fine \div 2 /\ h < Fine
  BY <1>1
<1>3. n * Fine \in Int
  BY <1>1
<1>4. PICK q \in Int : q = Round(n * Fine) /\ q * Fine <= n * Fine + h /\ n * Fine + h < q * Fine + Fine
  BY <1>1, <1>2, <1>3, Quotient DEF Round
<1>5. q * Fine < (n + 1) * Fine /\ n * Fine < (q + 1) * Fine
  BY <1>1, <1>2, <1>4
<1>6. q < n + 1 /\ n < q + 1
  BY <1>1, <1>5
<1>7. q = n
  BY <1>6
<1> QED
  BY <1>4, <1>7

-----------------------------------------------------------------------------

\* No product wraps, so the kernel's words k are the written values w in their units.
Exact(w, k) ==
    /\ k.slow_io_threshold_ns = w.storage.warning_ms * NsPerMs
    /\ k.io_latency_critical_ns = w.storage.critical_ms * NsPerMs
    /\ k.rtt_spike_multiplier = w.network.ratio
    /\ k.rtt_spike_abs_us = w.network.abs_ms * UsPerMs
Flagged(w, k) ==
    /\ "storage" \in k.flags <=> w.storage.enabled
    /\ "network" \in k.flags <=> w.network.enabled
    /\ "container" \in k.flags <=> w.container.enabled
Ignored(codes, k) ==
    /\ k.ignore_exit_count = AtMost(Len(codes), 16)
    /\ k.ignore_exit_codes = [i \in 1..16 |-> IF i <= Len(codes) THEN codes[i] ELSE 0]

LEMMA WordsExact ==
    ASSUME NEW w, Sane(w), NEW k, k = tapio_config_from_compiled(compile(w), 1)
    PROVE  Exact(w, k) /\ Flagged(w, k) /\ Ignored(w.container.ignore_exit_codes, k)
<1>1. PICK c : c = compile(w)
  OBVIOUS
<1>2. /\ c.network.rtt_spike_ratio = w.network.ratio
      /\ c.network.rtt_spike_abs_us = (w.network.abs_ms * UsPerMs) % TwoTo32
      /\ c.storage.slow_io_warning_ns = (w.storage.warning_ms * NsPerMs) % TwoTo64
      /\ c.storage.slow_io_critical_ns = (w.storage.critical_ms * NsPerMs) % TwoTo64
      /\ c.container = w.container
  BY <1>1 DEF compile
<1>3. /\ c["network"] = c.network /\ c["storage"] = c.storage /\ c["container"] = c.container
      /\ c.network.enabled = w.network.enabled /\ c.storage.enabled = w.storage.enabled
      /\ c.container.enabled = w.container.enabled
  BY <1>1 DEF compile
<1>4. /\ k.flags = {o \in Observers : c[o].enabled}
      /\ k.slow_io_threshold_ns = c.storage.slow_io_warning_ns
      /\ k.io_latency_critical_ns = c.storage.slow_io_critical_ns
      /\ k.rtt_spike_multiplier = c.network.rtt_spike_ratio
      /\ k.rtt_spike_abs_us = c.network.rtt_spike_abs_us
  BY <1>1 DEF tapio_config_from_compiled
<1>5. /\ k.ignore_exit_count = AtMost(Len(c.container.ignore_exit_codes), 16)
      /\ k.ignore_exit_codes = [i \in 1..16 |-> IF i <= Len(c.container.ignore_exit_codes)
                                  THEN c.container.ignore_exit_codes[i] ELSE 0]
  BY <1>1, SMT DEF tapio_config_from_compiled, MAX_IGNORE_EXIT_CODES
<1>6. /\ TwoTo32 \in Nat /\ 600000 * 1000 < TwoTo32 /\ TwoTo64 \in Nat /\ NsPerMs \in Nat
      /\ 600000 * NsPerMs < TwoTo64 /\ UsPerMs = 1000
  BY ProfileAssumption, SMT DEF MAX_RTT_ABS_MS, MAX_CRITICAL_MS, UsPerMs
<1>7. /\ w.network.abs_ms \in Nat /\ w.network.abs_ms <= 600000
      /\ w.storage.warning_ms \in Nat /\ w.storage.warning_ms <= 600000
      /\ w.storage.critical_ms \in Nat /\ w.storage.critical_ms <= 600000
  BY SMT DEF Sane
<1>8. (w.network.abs_ms * 1000) % TwoTo32 = w.network.abs_ms * 1000
  BY <1>6, <1>7, Scaled, SMT
<1>9. /\ (w.storage.warning_ms * NsPerMs) % TwoTo64 = w.storage.warning_ms * NsPerMs
      /\ (w.storage.critical_ms * NsPerMs) % TwoTo64 = w.storage.critical_ms * NsPerMs
  BY <1>6, <1>7, Scaled, SMT
<1>10. Exact(w, k)
  BY <1>2, <1>4, <1>6, <1>8, <1>9, SMT DEF Exact
<1>11. Flagged(w, k)
  BY <1>3, <1>4, Zenon DEF Flagged, Observers
<1>12. Ignored(w.container.ignore_exit_codes, k)
  BY <1>2, <1>5, SMT DEF Ignored
<1> QED
  BY <1>10, <1>11, <1>12

LEMMA StorageJudged ==
    ASSUME NEW w, NEW k, Sane(w), Exact(w, k), Flagged(w, k), NEW ns
    PROVE  StorageVerdict(k, ns) =
              IF ~w.storage.enabled THEN "none"
              ELSE IF ns >= w.storage.critical_ms * NsPerMs THEN "critical"
              ELSE IF ns >= w.storage.warning_ms * NsPerMs THEN "warning"
              ELSE "none"
<1>1. NsPerMs \in Nat /\ NsPerMs > 0
  BY ProfileAssumption
<1>2. w.storage.warning_ms * NsPerMs > 0 /\ w.storage.critical_ms * NsPerMs > 0
  BY <1>1, SMT DEF Sane
<1> QED
  BY <1>2, Zenon DEF StorageVerdict, Exact, Flagged

LEMMA RttJudged ==
    ASSUME NEW w, NEW k, Sane(w), Exact(w, k), Flagged(w, k), NEW us
    PROVE  RttSpike(k, 7, us) <=>
              /\ w.network.enabled
              /\ us > w.network.abs_ms * UsPerMs \/ us > 7 * w.network.ratio
<1>1. TwoTo32 \in Nat /\ 600000 * 1000 < TwoTo32
  BY ProfileAssumption, SMT DEF MAX_RTT_ABS_MS, UsPerMs
<1>2. (7 * w.network.ratio) % TwoTo32 = 7 * w.network.ratio
  <2>1. PICK r \in Nat : r = w.network.ratio /\ r <= 100
    BY DEF Sane
  <2>2. 7 * r \in Nat /\ 7 * r < TwoTo32
    BY <1>1, <2>1, SMT
  <2> QED
    BY <1>1, <2>1, <2>2, NoWrap, SMT
<1>3. w.network.ratio > 0 /\ w.network.abs_ms * UsPerMs > 0
  BY SMT DEF Sane, UsPerMs
<1> QED
  BY <1>2, <1>3, Zenon DEF RttSpike, Exact, Flagged

LEMMA ExitJudged ==
    ASSUME NEW w, NEW k, NEW codes \in Seq(Int), Len(codes) <= 16, NEW checked,
           Listed(checked, codes, Len(codes)), Flagged(w, k), Ignored(checked, k), NEW code
    PROVE  ExitReported(k, code) <=>
              w.container.enabled /\ \A i \in DOMAIN codes : codes[i] # code
<1>1. PICK n \in Nat : n = Len(checked) /\ n <= Len(codes)
  BY DEF Listed
<1>2. k.ignore_exit_count = n
  BY <1>1 DEF Ignored, AtMost
<1>3. \A i \in 1..16 : i <= n => k.ignore_exit_codes[i] = checked[i]
  BY <1>1 DEF Ignored
<1>4. \A i \in 1..n : i \in 1..16 /\ i <= n
  BY <1>1
<1>5. \A i \in 1..16 : i <= n => i \in 1..n
  BY <1>1
<1>6. (\A i \in 1..16 : i <= k.ignore_exit_count => k.ignore_exit_codes[i] # code)
      <=> \A i \in 1..n : checked[i] # code
  BY <1>2, <1>3, <1>4, <1>5, Zenon
<1>7. DOMAIN codes = 1..Len(codes)
  OBVIOUS
<1>8. (\A i \in 1..n : checked[i] # code) <=> \A i \in DOMAIN codes : codes[i] # code
  BY <1>1, <1>7, Zenon DEF Listed
<1> QED
  BY <1>6, <1>8, Zenon DEF ExitReported, Flagged, MAX_IGNORE_EXIT_CODES

\* The thresholds of node_pmc, back from the compiled ones.
LEMMA PmcBack ==
    ASSUME NEW w, NEW pmc, pmc = pmc_thresholds_from_compiled(compile(w))
    PROVE  /\ pmc.warning = Round(w.node_pmc.warning) * Fine
           /\ pmc.critical = Round(w.node_pmc.critical) * Fine
           /\ pmc.ipc = Round(w.node_pmc.ipc) * Fine
BY DEF pmc_thresholds_from_compiled, compile

\* A sample that is further from a threshold than the rounding is on the same side of both.
LEMMA SameSide ==
    ASSUME NEW t \in Int, NEW s \in Int, ~(2 * (s - t) \in (-Fine)..Fine)
    PROVE  s >= Round(t) * Fine <=> s >= t
<1>1. Fine \in Nat
  BY ProfileAssumption
<1>2. PICK r \in Int : r = Round(t) * Fine /\ 2 * (r - t) <= Fine /\ -Fine < 2 * (r - t)
  <2>1. Round(t) * Fine \in Int
    BY <1>1, Nearest
  <2> QED
    BY <2>1, Nearest
<1>3. 2 * (s - t) > Fine \/ 2 * (s - t) < -Fine
  BY <1>1
<1>4. s >= r <=> s >= t
  BY <1>1, <1>2, <1>3
<1> QED
  BY <1>2, <1>4

LEMMA IpcSide ==
    ASSUME NEW t \in Int, NEW ipc \in {t - Fine, t + Fine}
    PROVE  ipc < Round(t) * Fine <=> ipc < t
<1>1. Fine \in Nat /\ Fine > 0
  BY ProfileAssumption
<1>2. PICK r \in Int : r = Round(t) * Fine /\ 2 * (r - t) <= Fine /\ -Fine < 2 * (r - t)
  <2>1. Round(t) * Fine \in Int
    BY <1>1, Nearest
  <2> QED
    BY <2>1, Nearest
<1>3. ipc \in Int /\ (ipc = t - Fine \/ ipc = t + Fine)
  BY <1>1
<1>4. ipc < r <=> ipc < t
  BY <1>1, <1>2, <1>3
<1> QED
  BY <1>2, <1>4

LEMMA PmcJudged ==
    ASSUME NEW w, Sane(w), NEW pmc, pmc = pmc_thresholds_from_compiled(compile(w)),
           NEW stall \in Int, NEW ipc \in {w.node_pmc.ipc - Fine, w.node_pmc.ipc + Fine},
           PmcVerdict(pmc, stall, ipc) # PmcVerdict(w.node_pmc, stall, ipc)
    PROVE  \E t \in {w.node_pmc.warning, w.node_pmc.critical} : 2 * (stall - t) \in (-Fine)..Fine
<1> SUFFICES ASSUME ~\E t \in {w.node_pmc.warning, w.node_pmc.critical} :
                        2 * (stall - t) \in (-Fine)..Fine
             PROVE  FALSE
  OBVIOUS
<1>1. w.node_pmc.warning \in Int /\ w.node_pmc.critical \in Int /\ w.node_pmc.ipc \in Int
  BY DEF Sane
<1>2. /\ ~(2 * (stall - w.node_pmc.warning) \in (-Fine)..Fine)
      /\ ~(2 * (stall - w.node_pmc.critical) \in (-Fine)..Fine)
  BY Zenon
<1>3. /\ stall >= pmc.critical <=> stall >= w.node_pmc.critical
      /\ stall >= pmc.warning <=> stall >= w.node_pmc.warning
  <2>1. /\ pmc.warning = Round(w.node_pmc.warning) * Fine
        /\ pmc.critical = Round(w.node_pmc.critical) * Fine
    BY PmcBack, Zenon
  <2>2. stall >= Round(w.node_pmc.warning) * Fine <=> stall >= w.node_pmc.warning
    BY <1>1, <1>2, SameSide, Zenon
  <2>3. stall >= Round(w.node_pmc.critical) * Fine <=> stall >= w.node_pmc.critical
    BY <1>1, <1>2, SameSide, Zenon
  <2> QED
    BY <2>1, <2>2, <2>3, Zenon
<1>4. ipc < pmc.ipc <=> ipc < w.node_pmc.ipc
  BY <1>1, PmcBack, IpcSide, Zenon
<1> QED
  BY <1>3, <1>4, Zenon DEF PmcVerdict

\* The agent takes what the controller serves.
LEMMA AgentAccepts ==
    ASSUME NEW w, Sane(w)
    PROVE  ResponseValid(ConfigResponse(compile(w)))
<1>1. PICK k : k = tapio_config_from_compiled(compile(w), 1)
  OBVIOUS
<1>2. Exact(w, k)
  BY <1>1, WordsExact
<1>3. /\ k.slow_io_threshold_ns = compile(w).storage.slow_io_warning_ns
      /\ k.io_latency_critical_ns = compile(w).storage.slow_io_critical_ns
  BY <1>1 DEF tapio_config_from_compiled
<1>4. NsPerMs \in Nat /\ NsPerMs > 0
  BY ProfileAssumption
<1>5. w.storage.warning_ms * NsPerMs > 0 /\ w.storage.critical_ms * NsPerMs > 0
      /\ w.storage.warning_ms * NsPerMs \in Int /\ w.storage.critical_ms * NsPerMs \in Int
  BY <1>4, SMT DEF Sane
<1>6. compile(w).storage.slow_io_warning_ns # 0 /\ compile(w).storage.slow_io_critical_ns # 0
  BY <1>2, <1>3, <1>5, SMT DEF Exact
<1>7. PICK c : c = compile(w)
  OBVIOUS
<1> QED
  BY <1>6, <1>7, SMT DEF ResponseValid, ConfigResponse

LEMMA PmcOrdered ==
    ASSUME NEW w, Sane(w), NEW pmc, pmc = pmc_thresholds_from_compiled(compile(w))
    PROVE  pmc.critical >= pmc.warning
<1>1. w.node_pmc.warning \in Int /\ w.node_pmc.critical \in Int
      /\ w.node_pmc.warning <= w.node_pmc.critical
  BY DEF Sane
<1>2. Round(w.node_pmc.warning) * Fine <= Round(w.node_pmc.critical) * Fine
  BY <1>1, RoundGrows
<1> QED
  BY <1>2, PmcBack

-----------------------------------------------------------------------------

\* What the base resolves and compiles to.
LEMMA BaseResolved ==
    ASSUME NEW d, d.overrides = NoOverrides
    PROVE  Resolved(d, <<>>) = production_default
<1>1. PICK t : t = TRUE
  OBVIOUS
<1>2. \A b : Or(Absent, b) = b
  BY DEF Or
<1>3. /\ d.overrides.network.enabled = Absent /\ d.overrides.network.ratio = Absent
      /\ d.overrides.network.abs_ms = Absent
      /\ d.overrides.storage.enabled = Absent /\ d.overrides.storage.warning_ms = Absent
      /\ d.overrides.storage.critical_ms = Absent
      /\ d.overrides.container.enabled = Absent
      /\ d.overrides.node_pmc.enabled = Absent /\ d.overrides.node_pmc.warning = Absent
      /\ d.overrides.node_pmc.critical = Absent /\ d.overrides.node_pmc.ipc = Absent
  BY DEF NoOverrides
<1>4. PICK b : b = production_default
  OBVIOUS
<1>5. Resolved(d, <<>>) =
        [network   |-> [enabled |-> b.network.enabled, ratio |-> b.network.ratio,
                        abs_ms |-> b.network.abs_ms],
         storage   |-> [enabled |-> b.storage.enabled, warning_ms |-> b.storage.warning_ms,
                        critical_ms |-> b.storage.critical_ms],
         container |-> [enabled |-> b.container.enabled, ignore_exit_codes |-> <<>>],
         node_pmc  |-> [enabled |-> b.node_pmc.enabled, warning |-> b.node_pmc.warning,
                        critical |-> b.node_pmc.critical, ipc |-> b.node_pmc.ipc]]
  BY <1>2, <1>3, <1>4, SMT DEF Resolved
<1>6. b = [network   |-> [enabled |-> t, ratio |-> 2, abs_ms |-> 500],
           storage   |-> [enabled |-> t, warning_ms |-> 50, critical_ms |-> 200],
           container |-> [enabled |-> t, ignore_exit_codes |-> <<>>],
           node_pmc  |-> [enabled |-> t, warning |-> 200 * Fine, critical |-> 400 * Fine,
                          ipc |-> 1000 * Fine]]
  BY <1>1, <1>4 DEF production_default
<1> QED
  BY <1>4, <1>5, <1>6, SMT

LEMMA BaseCompiled == compile(production_default) = default_v1
<1>1. PICK t : t = TRUE
  OBVIOUS
<1>2. PICK b : b = production_default
  OBVIOUS
<1>3. b = [network   |-> [enabled |-> t, ratio |-> 2, abs_ms |-> 500],
           storage   |-> [enabled |-> t, warning_ms |-> 50, critical_ms |-> 200],
           container |-> [enabled |-> t, ignore_exit_codes |-> <<>>],
           node_pmc  |-> [enabled |-> t, warning |-> 200 * Fine, critical |-> 400 * Fine,
                          ipc |-> 1000 * Fine]]
  BY <1>1, <1>2 DEF production_default
<1>4. PICK e : e = default_v1
  OBVIOUS
<1>5. e = [network   |-> [enabled |-> t, rtt_spike_ratio |-> 2, rtt_spike_abs_us |-> 500000],
           storage   |-> [enabled |-> t, slow_io_warning_ns |-> 50 * NsPerMs,
                          slow_io_critical_ns |-> 200 * NsPerMs],
           container |-> [enabled |-> t, ignore_exit_codes |-> <<>>],
           node_pmc  |-> [enabled |-> t, stall_warning_permille |-> 200,
                          stall_critical_permille |-> 400, ipc_degradation_milli |-> 1000]]
  BY <1>1, <1>4, SMT DEF default_v1
<1>6. /\ TwoTo32 \in Nat /\ 600000 * 1000 < TwoTo32 /\ TwoTo64 \in Nat /\ NsPerMs \in Nat
      /\ 600000 * NsPerMs < TwoTo64 /\ UsPerMs = 1000
  BY ProfileAssumption, SMT DEF MAX_RTT_ABS_MS, MAX_CRITICAL_MS, UsPerMs
<1>7. (500 * UsPerMs) % TwoTo32 = 500000
  BY <1>6, SMT
<1>8. (50 * NsPerMs) % TwoTo64 = 50 * NsPerMs /\ (200 * NsPerMs) % TwoTo64 = 200 * NsPerMs
  BY <1>6, Scaled, SMT
<1>9. Round(200 * Fine) = 200 /\ Round(400 * Fine) = 400 /\ Round(1000 * Fine) = 1000
  BY RoundWhole, SMT
<1>10. /\ b.network = [enabled |-> t, ratio |-> 2, abs_ms |-> 500]
       /\ b.storage = [enabled |-> t, warning_ms |-> 50, critical_ms |-> 200]
       /\ b.container = [enabled |-> t, ignore_exit_codes |-> <<>>]
       /\ b.node_pmc = [enabled |-> t, warning |-> 200 * Fine, critical |-> 400 * Fine,
                        ipc |-> 1000 * Fine]
  BY <1>3, SMT
<1>11. PICK c : c = compile(b)
  OBVIOUS
<1>12. c = [network |-> c.network, storage |-> c.storage, container |-> c.container,
            node_pmc |-> c.node_pmc]
  BY <1>11 DEF compile
<1>13. c.network = [enabled |-> b.network.enabled, rtt_spike_ratio |-> b.network.ratio,
                    rtt_spike_abs_us |-> (b.network.abs_ms * UsPerMs) % TwoTo32]
  BY <1>11 DEF compile
<1>14. c.storage = [enabled |-> b.storage.enabled,
                    slow_io_warning_ns |-> (b.storage.warning_ms * NsPerMs) % TwoTo64,
                    slow_io_critical_ns |-> (b.storage.critical_ms * NsPerMs) % TwoTo64]
       /\ c.container = b.container
  BY <1>11 DEF compile
<1>15. c.node_pmc = [enabled |-> b.node_pmc.enabled,
                     stall_warning_permille |-> Round(b.node_pmc.warning),
                     stall_critical_permille |-> Round(b.node_pmc.critical),
                     ipc_degradation_milli |-> Round(b.node_pmc.ipc)]
  BY <1>11 DEF compile
<1>16. c.network = e.network
  BY <1>5, <1>7, <1>10, <1>13, SMT
<1>17. c.storage = e.storage /\ c.container = e.container
  BY <1>5, <1>8, <1>10, <1>14, SMT
<1>18. c.node_pmc = e.node_pmc
  BY <1>5, <1>9, <1>10, <1>15, SMT
<1>19. e = [network |-> e.network, storage |-> e.storage, container |-> e.container,
            node_pmc |-> e.node_pmc]
  BY <1>5, SMT
<1> QED
  BY <1>2, <1>4, <1>11, <1>12, <1>16, <1>17, <1>18, <1>19, Zenon

LEMMA BaseWords ==
    /\ tapio_config_from_compiled(default_v1, 1) = tapio_config(DefaultThresholds)
    /\ pmc_thresholds_from_compiled(default_v1) = DefaultThresholds.stall_pct
<1>1. PICK e : e = default_v1
  OBVIOUS
<1>2. /\ e.storage.slow_io_warning_ns = 50 * NsPerMs
      /\ e.storage.slow_io_critical_ns = 200 * NsPerMs
      /\ e.network.rtt_spike_ratio = 2 /\ e.network.rtt_spike_abs_us = 500000
      /\ e.container.ignore_exit_codes = <<>>
      /\ e.node_pmc.stall_warning_permille = 200 /\ e.node_pmc.stall_critical_permille = 400
      /\ e.node_pmc.ipc_degradation_milli = 1000
  BY <1>1, SMT DEF default_v1
<1>3. e["network"].enabled /\ e["storage"].enabled /\ e["container"].enabled
      /\ e["node_pmc"].enabled
  BY <1>1, SMT DEF default_v1
<1>4. {o \in Observers : e[o].enabled} = Observers
  BY <1>3, Zenon DEF Observers
<1>5. TwoTo32 \in Nat /\ 600000 * 1000 < TwoTo32
  BY ProfileAssumption, SMT DEF MAX_RTT_ABS_MS, UsPerMs
<1>6. AtMost(2, TwoTo32 - 1) = 2 /\ AtMost(500000, TwoTo32 - 1) = 500000
  BY <1>5, SMT DEF AtMost
<1>7. AtMost(Len(<<>>), MAX_IGNORE_EXIT_CODES) = 0
  BY SMT DEF AtMost, MAX_IGNORE_EXIT_CODES
<1>8. [i \in 1..MAX_IGNORE_EXIT_CODES |-> IF i <= Len(<<>>) THEN <<>>[i] ELSE 0]
      = [i \in 1..MAX_IGNORE_EXIT_CODES |-> 0]
  BY SMT DEF MAX_IGNORE_EXIT_CODES
<1> DEFINE none == [i \in 1..MAX_IGNORE_EXIT_CODES |-> 0]
<1>9. PICK k : k = tapio_config_from_compiled(e, 1)
  OBVIOUS
<1>10. k = [generation |-> k.generation, flags |-> k.flags,
            slow_io_threshold_ns |-> k.slow_io_threshold_ns,
            io_latency_critical_ns |-> k.io_latency_critical_ns,
            rtt_spike_multiplier |-> k.rtt_spike_multiplier,
            rtt_spike_abs_us |-> k.rtt_spike_abs_us,
            ignore_exit_count |-> k.ignore_exit_count,
            ignore_exit_codes |-> k.ignore_exit_codes]
  BY <1>9 DEF tapio_config_from_compiled
<1>11. /\ k.generation = 1 /\ k.flags = {o \in Observers : e[o].enabled}
       /\ k.slow_io_threshold_ns = e.storage.slow_io_warning_ns
       /\ k.io_latency_critical_ns = e.storage.slow_io_critical_ns
       /\ k.rtt_spike_multiplier = e.network.rtt_spike_ratio
       /\ k.rtt_spike_abs_us = e.network.rtt_spike_abs_us
  BY <1>9 DEF tapio_config_from_compiled
<1>12. PICK codes : codes = e.container.ignore_exit_codes
  OBVIOUS
<1>13. /\ k.ignore_exit_count = AtMost(Len(codes), MAX_IGNORE_EXIT_CODES)
       /\ k.ignore_exit_codes =
             [i \in 1..MAX_IGNORE_EXIT_CODES |-> IF i <= Len(codes) THEN codes[i] ELSE 0]
  BY <1>9, <1>12 DEF tapio_config_from_compiled
<1>14. k.ignore_exit_count = 0 /\ k.ignore_exit_codes = none
  BY <1>2, <1>7, <1>8, <1>12, <1>13
<1>15. PICK t : t = DefaultThresholds
  OBVIOUS
<1>16. /\ t.io_latency_warning_ns = 50 * NsPerMs /\ t.io_latency_critical_ns = 200 * NsPerMs
       /\ t.rtt_spike_ratio = 2 /\ t.rtt_spike_abs_us = 500000
       /\ t.stall_pct = [warning |-> 200 * Fine, critical |-> 400 * Fine, ipc |-> 1000 * Fine]
  BY <1>15, SMT DEF DefaultThresholds
<1>17. PICK m : m = tapio_config(t)
  OBVIOUS
<1>18. m = [generation |-> m.generation, flags |-> m.flags,
            slow_io_threshold_ns |-> m.slow_io_threshold_ns,
            io_latency_critical_ns |-> m.io_latency_critical_ns,
            rtt_spike_multiplier |-> m.rtt_spike_multiplier,
            rtt_spike_abs_us |-> m.rtt_spike_abs_us,
            ignore_exit_count |-> m.ignore_exit_count,
            ignore_exit_codes |-> m.ignore_exit_codes]
  BY <1>17 DEF tapio_config
<1>19. /\ m.generation = 1 /\ m.flags = Observers
       /\ m.slow_io_threshold_ns = t.io_latency_warning_ns
       /\ m.io_latency_critical_ns = t.io_latency_critical_ns
       /\ m.rtt_spike_multiplier = AtMost(t.rtt_spike_ratio, TwoTo32 - 1)
       /\ m.rtt_spike_abs_us = AtMost(t.rtt_spike_abs_us, TwoTo32 - 1)
       /\ m.ignore_exit_count = 0 /\ m.ignore_exit_codes = none
  BY <1>17 DEF tapio_config
<1>20. /\ m.generation = k.generation /\ m.flags = k.flags
       /\ m.slow_io_threshold_ns = k.slow_io_threshold_ns
       /\ m.io_latency_critical_ns = k.io_latency_critical_ns
       /\ m.rtt_spike_multiplier = k.rtt_spike_multiplier
       /\ m.rtt_spike_abs_us = k.rtt_spike_abs_us
       /\ m.ignore_exit_count = k.ignore_exit_count
       /\ m.ignore_exit_codes = k.ignore_exit_codes
  BY <1>2, <1>4, <1>6, <1>11, <1>14, <1>16, <1>19, SMT
<1>21. m = k
  BY <1>10, <1>18, <1>20, Zenon
<1>22. pmc_thresholds_from_compiled(e) = t.stall_pct
  BY <1>2, <1>16, SMT DEF pmc_thresholds_from_compiled
<1> QED
  BY <1>1, <1>9, <1>15, <1>17, <1>21, <1>22, Zenon

LEMMA NearInt ==
    ASSUME NEW limits \in SUBSET Int, NEW n \in Near(limits)
    PROVE  n \in Int
BY DEF Near

LEMMA ProfileHolds ==
    ASSUME ProfileOK
    PROVE  JudgesAsWritten
<1>1. PICK d, at, checked :
          /\ work = [kind |-> "profile", doc |-> d, at |-> at, checked |-> checked]
          /\ ProfileState(d, at, checked)
  BY DEF ProfileOK
<1>2. work.doc = d /\ work.at = at /\ work.checked = checked
  BY <1>1
<1> SUFFICES ASSUME Checked
             PROVE  JudgesAsWritten
  BY DEF JudgesAsWritten
<1>3. PICK codes \in Seq(Int) : codes = Codes(d.overrides.container)
  BY <1>1, CodesType DEF ProfileState
<1>4. WrittenCodes = codes
  BY <1>2, <1>3 DEF WrittenCodes
<1>5. validate(d) = Ok /\ at = Len(codes)
  BY <1>2, <1>4 DEF Checked
<1>6. d \in EvidenceProfile /\ Listed(checked, codes, Len(codes))
  BY <1>1, <1>3, <1>5 DEF ProfileState
<1>7. Len(codes) <= 16
  <2>1. 9 \in 1..13
    OBVIOUS
  <2>2. Passes(d, 9)
    BY <1>5, <1>6, <2>1, Ranks
  <2>3. CodesGood(codes)
    BY <1>3, <2>2 DEF Passes
  <2> QED
    BY <1>3, <2>3 DEF CodesGood, MAX_IGNORE_EXIT_CODES
<1>8. PICK w : w = Written
  OBVIOUS
<1>9. w = Resolved(d, checked)
  BY <1>2, <1>8 DEF Written
<1>10. Sane(w)
  BY <1>5, <1>6, <1>9, ResolvedSane
<1>11. w.container.ignore_exit_codes = checked
  BY <1>9 DEF Resolved
<1>12. Served = ConfigResponse(compile(w))
  BY <1>8 DEF Served
<1>13. Served.config = compile(w) /\ Served.version = 1
  BY <1>12 DEF ConfigResponse
<1>14. PICK k : k = KernelWords
  OBVIOUS
<1>15. k = tapio_config_from_compiled(compile(w), 1)
  BY <1>13, <1>14 DEF KernelWords
<1>16. PICK pmc : pmc = pmc_thresholds_from_compiled(Served.config)
  OBVIOUS
<1>17. pmc = pmc_thresholds_from_compiled(compile(w))
  BY <1>13, <1>16
<1>18. Exact(w, k) /\ Flagged(w, k) /\ Ignored(checked, k)
  BY <1>10, <1>11, <1>15, WordsExact, Zenon
<1>19. ResponseValid(Served)
  BY <1>10, <1>12, AgentAccepts, Zenon
<1>20. DefaultsAgree
  <2> SUFFICES ASSUME d.overrides = NoOverrides
               PROVE  DefaultsAgree
    BY <1>2 DEF DefaultsAgree
  <2>1. codes = <<>>
    BY <1>3 DEF NoOverrides, Codes, Or
  <2>2. checked = <<>>
    BY <1>6, <2>1 DEF Listed
  <2>3. compile(w) = default_v1
    BY <1>9, <2>2, BaseResolved, BaseCompiled, Zenon
  <2> QED
    BY <1>13, <1>14, <1>15, <2>3, BaseWords, Zenon DEF DefaultsAgree
<1>21. \A ns : StorageVerdict(k, ns) =
          IF ~w.storage.enabled THEN "none"
          ELSE IF ns >= w.storage.critical_ms * NsPerMs THEN "critical"
          ELSE IF ns >= w.storage.warning_ms * NsPerMs THEN "warning"
          ELSE "none"
  BY <1>10, <1>18, StorageJudged, Zenon
<1>22. \A us : RttSpike(k, 7, us) <=>
          /\ w.network.enabled
          /\ us > w.network.abs_ms * UsPerMs \/ us > 7 * w.network.ratio
  BY <1>10, <1>18, RttJudged, Zenon
<1>23. \A code : ExitReported(k, code) <=>
          w.container.enabled /\ \A i \in DOMAIN codes : codes[i] # code
  BY <1>6, <1>7, <1>18, ExitJudged, Zenon
<1>24. pmc.critical >= pmc.warning
  BY <1>10, <1>17, PmcOrdered, Zenon
<1>25. \A stall \in Int : \A ipc \in {w.node_pmc.ipc - Fine, w.node_pmc.ipc + Fine} :
          PmcVerdict(pmc, stall, ipc) # PmcVerdict(w.node_pmc, stall, ipc) =>
             \E t \in {w.node_pmc.warning, w.node_pmc.critical} :
                 2 * (stall - t) \in (-Fine)..Fine
  BY <1>10, <1>17, PmcJudged, Zenon
<1>26. \A stall \in Near({w.node_pmc.warning - Fine, w.node_pmc.warning + Fine,
                          w.node_pmc.critical - Fine, w.node_pmc.critical + Fine}) : stall \in Int
  <2>1. Fine \in Nat
    BY ProfileAssumption
  <2>2. w.node_pmc.warning \in Int /\ w.node_pmc.critical \in Int
    BY <1>10 DEF Sane
  <2>3. {w.node_pmc.warning - Fine, w.node_pmc.warning + Fine,
         w.node_pmc.critical - Fine, w.node_pmc.critical + Fine} \in SUBSET Int
    BY <2>1, <2>2
  <2> QED
    BY <2>3, NearInt, Zenon
<1> QED
  BY <1>4, <1>8, <1>14, <1>16, <1>19, <1>20, <1>21, <1>22, <1>23, <1>24, <1>25, <1>26, Zenon
     DEF JudgesAsWritten

-----------------------------------------------------------------------------
(* The theorems.                                                           *)

\* One piece of work, of whatever kind, in good order.
WorkOK == SplitOK \/ ProfileOK \/ CalendarOK \/ InstantsOK \/ IdentityOK

LEMMA Kinds ==
    /\ SplitOK => work.kind = "split"
    /\ ProfileOK => work.kind = "profile"
    /\ CalendarOK => work.kind = "day"
    /\ InstantsOK => work.kind = "instants"
    /\ IdentityOK => work.kind = "identity"
<1>1. SplitOK => work.kind = "split"
  BY DEF SplitOK
<1>2. ProfileOK => work.kind = "profile"
  BY DEF ProfileOK
<1>3. CalendarOK => work.kind = "day"
  BY DEF CalendarOK
<1>4. InstantsOK => work.kind = "instants"
  BY DEF InstantsOK
<1>5. IdentityOK => work.kind = "identity"
  BY DEF IdentityOK
<1> QED
  BY <1>1, <1>2, <1>3, <1>4, <1>5

LEMMA Different ==
    /\ "split" # "profile" /\ "split" # "day" /\ "split" # "instants" /\ "split" # "identity"
    /\ "profile" # "day" /\ "profile" # "instants" /\ "profile" # "identity"
    /\ "day" # "instants" /\ "day" # "identity" /\ "instants" # "identity"
OBVIOUS

LEMMA ActionKinds ==
    /\ split_turn => work.kind = "split"
    /\ repair => work.kind = "profile"
    /\ check_turn => work.kind = "profile"
    /\ next_day => work.kind = "day"
<1>1. split_turn => work.kind = "split"
  BY DEF split_turn
<1>2. repair => work.kind = "profile"
  BY DEF repair
<1>3. check_turn => work.kind = "profile"
  BY DEF check_turn
<1>4. next_day => work.kind = "day"
  BY DEF next_day
<1> QED
  BY <1>1, <1>2, <1>3, <1>4

LEMMA WorkInit == Init => WorkOK
<1> SUFFICES ASSUME Init PROVE WorkOK
  OBVIOUS
<1>1. CASE work \in SplitWork
  BY <1>1, SplitInit DEF WorkOK
<1>2. CASE work \in ProfileWork
  BY <1>2, ProfileInit DEF WorkOK
<1>3. CASE work = [kind |-> "day", day |-> 0, date |-> <<1970, 1, 1>>]
  <2>1. CalendarOK
    BY <1>3, CalendarInit, Zenon
  <2> QED
    BY <2>1 DEF WorkOK
<1>4. CASE work \in {[kind |-> "instants", a |-> a, b |-> b] : a \in Instants, b \in Instants}
  <2>1. InstantsOK
    BY <1>4 DEF InstantsOK
  <2> QED
    BY <2>1 DEF WorkOK
<1>5. CASE work \in {[kind |-> "identity", with |-> x] : x \in Identities}
  <2>1. IdentityOK
    BY <1>5, Zenon DEF IdentityOK
  <2> QED
    BY <2>1 DEF WorkOK
<1> QED
  BY <1>1, <1>2, <1>3, <1>4, <1>5 DEF Init

\* A step of one kind of work needs work of that kind.
LEMMA WorkNext == WorkOK /\ [Next]_work => WorkOK'
<1> SUFFICES ASSUME WorkOK, [Next]_work PROVE WorkOK'
  OBVIOUS
<1>1. CASE split_turn
  <2>1. SplitOK
    BY <1>1, Kinds, Different, ActionKinds, Zenon DEF WorkOK
  <2>2. SplitOK'
    BY <1>1, <2>1, SplitStep
  <2> QED
    BY <2>2 DEF WorkOK
<1>2. CASE repair \/ check_turn
  <2>1. ProfileOK
    BY <1>2, Kinds, Different, ActionKinds, Zenon DEF WorkOK
  <2>2. ProfileOK'
    BY <1>2, <2>1, ProfileStep
  <2> QED
    BY <2>2 DEF WorkOK
<1>3. CASE next_day
  <2>1. CalendarOK
    BY <1>3, Kinds, Different, ActionKinds, Zenon DEF WorkOK
  <2>2. CalendarOK'
    BY <1>3, <2>1, CalendarStep
  <2> QED
    BY <2>2 DEF WorkOK
<1>4. CASE UNCHANGED work
  BY <1>4 DEF WorkOK, SplitOK, ProfileOK, CalendarOK, InstantsOK, IdentityOK
<1> QED
  BY <1>1, <1>2, <1>3, <1>4 DEF Next

\* Whatever the piece of work, it stays in good order: the invariant all the theorems below
\* come from.
THEOREM WorkInductive == Spec => []WorkOK
BY WorkInit, WorkNext, PTL DEF Spec

\* Batch splitting: whatever the events, their lengths and the two limits,
\* split_events_by_size makes the greedy cut.
THEOREM SplitGreedy == Spec => []SplitIsGreedy
<1>1. WorkOK => SplitIsGreedy
  <2>1. ~SplitOK /\ WorkOK => work.kind # "split"
    BY Kinds, Different, Zenon DEF WorkOK
  <2>2. work.kind # "split" => SplitIsGreedy
    BY Zenon DEF SplitIsGreedy
  <2> QED
    BY <2>1, <2>2, SplitHolds
<1> QED
  BY <1>1, WorkInductive, PTL

\* Profile compiler: whatever document the controller accepts, the nodes it is served to
\* judge by what is written in it.
THEOREM JudgedAsWritten == Spec => []JudgesAsWritten
<1>1. WorkOK => JudgesAsWritten
  <2>1. ~ProfileOK /\ WorkOK => work.kind # "profile"
    BY Kinds, Different, Zenon DEF WorkOK
  <2>2. work.kind # "profile" => JudgesAsWritten
    BY Zenon DEF JudgesAsWritten
  <2> QED
    BY <2>1, <2>2, ProfileHolds
<1> QED
  BY <1>1, WorkInductive, PTL

\* Profile compiler: the field that validate names, once repaired, is not named again, nor is
\* an earlier one, so that an operator is done after at most thirteen repairs.
THEOREM RepairsMoveOn == Spec => RepairMovesOn
<1> DEFINE A == work.kind = "profile" /\ validate(work.doc) # Ok => Rank(work'.doc) > Rank(work.doc)
<1>1. WorkOK /\ [Next]_work => [A]_work
  <2> SUFFICES ASSUME WorkOK, Next, work.kind = "profile", validate(work.doc) # Ok
               PROVE  Rank(work'.doc) > Rank(work.doc)
    OBVIOUS
  <2>1. ProfileOK
    BY Kinds, Different, Zenon DEF WorkOK
  <2>2. repair
    <3>1. ~split_turn /\ ~next_day
      BY ActionKinds, Different, Zenon
    <3>2. ~check_turn
      BY Zenon DEF check_turn
    <3> QED
      BY <3>1, <3>2, Zenon DEF Next
  <2>3. PICK d, at, checked :
            /\ work = [kind |-> "profile", doc |-> d, at |-> at, checked |-> checked]
            /\ ProfileState(d, at, checked)
    BY <2>1 DEF ProfileOK
  <2>4. PICK q : q = Repaired(d, validate(d).path)
    OBVIOUS
  <2>5. work.doc = d /\ work' = [work EXCEPT !.doc = q]
    BY <2>2, <2>3, <2>4 DEF repair
  <2>6. work'.doc = q
    BY <2>3, <2>5
  <2>7. d \in EvidenceProfile
    BY <2>3 DEF ProfileState
  <2>8. Rank(q) > Rank(d)
    BY <2>4, <2>5, <2>7, RepairGrows
  <2> QED
    BY <2>5, <2>6, <2>8
<1> QED
  BY <1>1, WorkInductive, PTL DEF Spec, RepairMovesOn

\* Occurrence clock: on every day, however far, the agent prints the calendar's date and the
\* controller sink reads the day back.
THEOREM CalendarExact == Spec => []CalendarRight
<1>1. WorkOK => CalendarRight
  <2>1. ~CalendarOK /\ WorkOK => work.kind # "day"
    BY Kinds, Different, Zenon DEF WorkOK
  <2>2. work.kind # "day" => CalendarRight
    BY Zenon DEF CalendarRight
  <2> QED
    BY <2>1, <2>2, CalendarHolds
<1> QED
  BY <1>1, WorkInductive, PTL

\* Occurrence clock: for any two instants, the printed timestamps compare as the instants do,
\* and the nanosecond survives the way to the controller.
THEOREM TimestampsExact == Spec => []CutoffExact
<1>1. WorkOK => CutoffExact
  <2>1. ~InstantsOK /\ WorkOK => work.kind # "instants"
    BY Kinds, Different, Zenon DEF WorkOK
  <2>2. work.kind # "instants" => CutoffExact
    BY Zenon DEF CutoffExact
  <2> QED
    BY <2>1, <2>2, InstantsHold
<1> QED
  BY <1>1, WorkInductive, PTL

\* Wire types: whatever the environment, the kernel release and the facts of the events, the
\* names alone decide whether the controller hears of an agent.
THEOREM OnlyNamesDecide == Spec => []NamesDecide
<1>1. WorkOK => NamesDecide
  <2>1. ~IdentityOK /\ WorkOK => work.kind # "identity"
    BY Kinds, Different, Zenon DEF WorkOK
  <2>2. work.kind # "identity" => NamesDecide
    BY Zenon DEF NamesDecide
  <2> QED
    BY <2>1, <2>2, IdentityHolds
<1> QED
  BY <1>1, WorkInductive, PTL

=============================================================================
