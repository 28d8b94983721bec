---------------------------- MODULE ValueProofs ----------------------------
(***************************************************************************)
(* The value types whose arithmetic needs no recursion: civil_from_days is *)
(* right for every day there is, and an instant survives its conversions   *)
(* for every width of i64 and every fineness of a second.                  *)
(***************************************************************************)
EXTENDS ValueParts, TLAPS

-----------------------------------------------------------------------------
(* The part that was chosen moves alone *)

LEMMA KindsDiffer == "calendar" # "datetime"
  BY SMT

LEMMA CalendarPart ==
  ASSUME [Next]_vars
  PROVE  kind' = kind /\ (kind = "calendar" => [Cal!Next]_Cal!vars)
  <1>1. CASE Next
    BY Zenon, <1>1, KindsDiffer DEF Next
  <1>2. CASE UNCHANGED vars
    BY Zenon, <1>2 DEF vars, dateVars, Cal!vars
  <1> QED BY Zenon, <1>1, <1>2

LEMMA DatetimePart ==
  ASSUME [Next]_vars
  PROVE  kind' = kind /\ (kind = "datetime" => [Dt!Next]_Dt!vars)
  <1>1. CASE Next
    BY Zenon, <1>1, KindsDiffer DEF Next
  <1>2. CASE UNCHANGED vars
    BY Zenon, <1>2 DEF vars, instantVars, Dt!vars
  <1> QED BY Zenon, <1>1, <1>2

-----------------------------------------------------------------------------
(* Days of an era *)

\* A day of an era: s days into year i of the four-year group q of century c.
\* Only a leap year has a day 365.
Split(c, q, i, s) ==
  /\ c \in Nat /\ c <= 3
  /\ q \in Nat /\ q <= 24
  /\ i \in Nat /\ i <= 3
  /\ s \in Nat /\ s <= 365
  /\ s = 365 => i = 3 /\ (q = 24 => c = 3)

Joined(c, q, i, s) == 36524 * c + 1461 * q + 365 * i + s
LastIn(c, q, i) == IF i = 3 /\ (q = 24 => c = 3) THEN 365 ELSE 364
YearIn(era, c, q, i) == 400 * era + 100 * c + 4 * q + i

\* A number of a day of an era; day n lies there in that era.
InEra(doe) == doe \in Nat /\ doe <= 146096
Lies(n, era, c, q, i, s) ==
  /\ era \in Int
  /\ Split(c, q, i, s)
  /\ n + 719468 = 146097 * era + Joined(c, q, i, s)

\* The ways down from an era to a year.
InCentury(doe, c, r) == /\ c \in Nat /\ c <= 3
                        /\ r \in Nat /\ r <= 36524
                        /\ doe = 36524 * c + r
                        /\ r = 36524 => c = 3
InGroup(r, q, t) == q \in Nat /\ q <= 24 /\ t \in Nat /\ t <= 1460 /\ r = 1461 * q + t
InYear(t, i, s) == /\ i \in Nat /\ i <= 3
                   /\ s \in Nat /\ s <= 365
                   /\ t = 365 * i + s
                   /\ s = 365 => i = 3

LEMMA Century ==
  ASSUME NEW doe, InEra(doe)
  PROVE  \E c, r : InCentury(doe, c, r)
  <1>1. CASE doe = 146096
    <2> DEFINE r == 36524
    <2>1. InCentury(doe, 3, r)
      BY SMT, <1>1 DEF InCentury
    <2> HIDE DEF r
    <2> QED BY Zenon, <2>1
  <1>2. CASE doe # 146096
    <2> DEFINE c == doe \div 36524
               r == doe % 36524
    <2>1. InCentury(doe, c, r)
      BY SMT, <1>2 DEF InEra, InCentury
    <2> HIDE DEF c, r
    <2> QED BY Zenon, <2>1
  <1> QED BY SMT, <1>1, <1>2

LEMMA FourYears ==
  ASSUME NEW doe, NEW c, NEW r, InCentury(doe, c, r)
  PROVE  \E q, t : InGroup(r, q, t)
  <1> DEFINE q == r \div 1461
             t == r % 1461
  <1>1. InGroup(r, q, t)
    BY SMT DEF InCentury, InGroup
  <1> HIDE DEF q, t
  <1> QED BY Zenon, <1>1

LEMMA OneYear ==
  ASSUME NEW r, NEW q, NEW t, InGroup(r, q, t)
  PROVE  \E i, s : InYear(t, i, s)
  <1>1. CASE t = 1460
    <2>1. InYear(t, 3, 365)
      BY SMT, <1>1 DEF InYear
    <2> QED BY Zenon, <2>1
  <1>2. CASE t # 1460
    <2> DEFINE i == t \div 365
               s == t % 365
    <2>1. InYear(t, i, s)
      BY SMT, <1>2 DEF InGroup, InYear
    <2> HIDE DEF i, s
    <2> QED BY Zenon, <2>1
  <1> QED BY SMT, <1>1, <1>2

\* Every day of an era is some day of some year of it.
LEMMA DaySplits ==
  ASSUME NEW doe, InEra(doe)
  PROVE  \E c, q, i, s : Split(c, q, i, s) /\ doe = Joined(c, q, i, s)
  <1>1. PICK c, r : InCentury(doe, c, r)
    BY Zenon, Century
  <1>2. PICK q, t : InGroup(r, q, t)
    BY Zenon, <1>1, FourYears
  <1>3. PICK i, s : InYear(t, i, s)
    BY Zenon, <1>2, OneYear
  <1>4. Split(c, q, i, s)
    BY SMT, <1>1, <1>2, <1>3 DEF Split, InCentury, InGroup, InYear
  <1>5. doe = Joined(c, q, i, s)
    BY SMT, <1>1, <1>2, <1>3 DEF Joined, InCentury, InGroup, InYear
  <1> QED BY Zenon, <1>4, <1>5

\* The divisions of civil_from_days find that year.
LEMMA YearIsFound ==
  ASSUME NEW c, NEW q, NEW i, NEW s, Split(c, q, i, s)
  PROVE  /\ Cal!YearOfEra(Joined(c, q, i, s)) = 100 * c + 4 * q + i
         /\ Cal!DaysBefore(100 * c + 4 * q + i) = 36524 * c + 1461 * q + 365 * i
         /\ InEra(Joined(c, q, i, s))
  <1> DEFINE doe == 36524 * c + 1461 * q + 365 * i + s
  <1>0. /\ c \in Nat /\ c <= 3 /\ q \in Nat /\ q <= 24
        /\ i \in Nat /\ i <= 3 /\ s \in Nat /\ s <= 365
        /\ s = 365 => i = 3 /\ (q = 24 => c = 3)
    BY SMT DEF Split
  <1>1. doe \div 36524 - doe \div 146096 = c
    BY SMTT(30), <1>0
  <1>2. \E e \in Nat : /\ e <= 1
                       /\ doe \div 1460 = 25 * c + q + e
                       /\ e = 1 <=> 24 * c + q + 365 * i + s >= 1460
    BY SMTT(30), <1>0
  <1>3. PICK e \in Nat : /\ e <= 1
                         /\ doe \div 1460 = 25 * c + q + e
                         /\ e = 1 <=> 24 * c + q + 365 * i + s >= 1460
    BY SMT, <1>2
  <1>4. doe \in Nat /\ doe \div 1460 \in Int /\ doe \div 36524 \in Int /\ doe \div 146096 \in Int
    BY SMT, <1>0
  <1>5. doe - doe \div 1460 + doe \div 36524 - doe \div 146096 = 365 * (100 * c + 4 * q + i) + (s - e)
    BY SMT, <1>0, <1>1, <1>3, <1>4
  <1>6. s - e >= 0 /\ s - e <= 364
    BY SMT, <1>0, <1>3
  <1>7. Cal!YearOfEra(doe) = 100 * c + 4 * q + i
    BY SMTT(30), <1>0, <1>3, <1>5, <1>6 DEF Cal!YearOfEra
  <1>8. Cal!DaysBefore(100 * c + 4 * q + i) = 36524 * c + 1461 * q + 365 * i
    BY SMTT(30), <1>0 DEF Cal!DaysBefore
  <1>9. doe <= 146096
    BY SMT, <1>0
  <1> QED BY SMT, <1>4, <1>7, <1>8, <1>9 DEF Joined, InEra

\* What civil_from_days makes of day s of a year of an era.
LEMMA CivilOfSplit ==
  ASSUME NEW n \in Int, NEW era, NEW c, NEW q, NEW i, NEW s, Lies(n, era, c, q, i, s)
  PROVE  Cal!CivilFromDays(n) = Cal!DateInYear(YearIn(era, c, q, i), s)
  <1>1. /\ InEra(Joined(c, q, i, s))
        /\ Cal!YearOfEra(Joined(c, q, i, s)) = 100 * c + 4 * q + i
        /\ Cal!DaysBefore(100 * c + 4 * q + i) = 36524 * c + 1461 * q + 365 * i
    BY SMT, YearIsFound DEF Lies
  <1>2. (n + 719468) \div 146097 = era /\ (n + 719468) % 146097 = Joined(c, q, i, s)
    BY SMT, <1>1 DEF InEra, Lies
  <1>3. 100 * c + 4 * q + i + era * 400 = YearIn(era, c, q, i)
    BY SMT DEF Split, YearIn, Lies
  <1>4. Joined(c, q, i, s) - (36524 * c + 1461 * q + 365 * i) = s
    BY SMT DEF Split, Joined, Lies
  <1> QED BY SMT, <1>1, <1>2, <1>3, <1>4 DEF Cal!CivilFromDays

\* Every day is some day of some year.
LEMMA Located ==
  ASSUME NEW n \in Int
  PROVE  \E era, c, q, i, s : Lies(n, era, c, q, i, s)
  <1> DEFINE era == (n + 719468) \div 146097
             doe == (n + 719468) % 146097
  <1>1. era \in Int /\ doe \in Nat /\ InEra(doe) /\ n + 719468 = 146097 * era + doe
    BY SMT DEF InEra
  <1> HIDE DEF era, doe
  <1>2. InEra(doe)
    BY <1>1
  <1>3. PICK c, q, i, s : Split(c, q, i, s) /\ doe = Joined(c, q, i, s)
    BY Zenon, <1>2, DaySplits
  <1>4. Lies(n, era, c, q, i, s)
    BY SMT, <1>1, <1>3 DEF Lies
  <1> QED BY Zenon, <1>4

-----------------------------------------------------------------------------
(* Days of a year *)

Valid(d) == /\ d = [year |-> d.year, month |-> d.month, day |-> d.day]
            /\ d.year \in Int
            /\ d.month \in 1 .. 12
            /\ d.day \in 1 .. Cal!MonthLength(d.year, d.month)

\* The number of the first day of the mp-th month of a year that begins in March.
First(mp) == (153 * mp + 2) \div 5
InMonth(s, mp) == mp \in 0 .. 11 /\ First(mp) <= s /\ s < First(mp + 1)

\* Its date in the calendar.
MonthDate(y, mp, d) == [year |-> IF mp < 10 THEN y ELSE y + 1,
                        month |-> IF mp < 10 THEN mp + 3 ELSE mp - 9,
                        day |-> d]

\* The days of a year that begins in March of year y.
LastDay(y) == IF Cal!IsLeap(y + 1) THEN 365 ELSE 364
DayOf(y, s) == s \in Nat /\ s <= LastDay(y)

LEMMA SomeMonth ==
  ASSUME NEW y, NEW s, DayOf(y, s)
  PROVE  \E mp : InMonth(s, mp)
  <1> DEFINE mp == (5 * s + 2) \div 153
  <1>1. InMonth(s, mp)
    BY SMT DEF InMonth, First, DayOf, LastDay
  <1> HIDE DEF mp
  <1> QED BY Zenon, <1>1

LEMMA MonthIsFound ==
  ASSUME NEW y \in Int, NEW s \in Nat, NEW mp, InMonth(s, mp)
  PROVE  Cal!DateInYear(y, s) = MonthDate(y, mp, s - First(mp) + 1)
  <1>1. (5 * s + 2) \div 153 = mp /\ mp \in 0 .. 11
    BY SMT DEF InMonth, First
  <1> QED BY SMT, <1>1 DEF Cal!DateInYear, MonthDate, First

\* All months but the last have the length the calendar gives them.
LEMMA MonthLengths ==
  ASSUME NEW y \in Int, NEW mp \in 0 .. 10, NEW d
  PROVE  /\ First(mp + 1) - First(mp) = Cal!MonthLength(MonthDate(y, mp, d).year, MonthDate(y, mp, d).month)
         /\ First(mp) \in Nat /\ First(mp + 1) \in Nat
  BY SMT DEF Cal!MonthLength, MonthDate, First

\* The year after the one that begins in March is the leap year.
LEMMA LeapSplit ==
  ASSUME NEW era \in Int, NEW c, NEW q, NEW i, NEW s, Split(c, q, i, s)
  PROVE  Cal!IsLeap(YearIn(era, c, q, i) + 1) <=> i = 3 /\ (q = 24 => c = 3)
  <1>1. (YearIn(era, c, q, i) + 1) % 4 = 0 <=> i = 3
    BY SMT DEF Split, YearIn
  <1>2. (YearIn(era, c, q, i) + 1) % 100 = 0 <=> i = 3 /\ q = 24
    BY SMT DEF Split, YearIn
  <1>3. (YearIn(era, c, q, i) + 1) % 400 = 0 <=> i = 3 /\ q = 24 /\ c = 3
    BY SMT DEF Split, YearIn
  <1> QED BY Zenon, <1>1, <1>2, <1>3 DEF Cal!IsLeap

\* The three ways to the following day.
Date(y, m, d) == [year |-> y, month |-> m, day |-> d]

LEMMA FollowingDay ==
  ASSUME NEW y \in Int, NEW m \in Int, NEW d \in Int
  PROVE  /\ d < Cal!MonthLength(y, m) => Cal!Following(Date(y, m, d)) = Date(y, m, d + 1)
         /\ d = Cal!MonthLength(y, m) /\ m < 12 => Cal!Following(Date(y, m, d)) = Date(y, m + 1, 1)
         /\ d = Cal!MonthLength(y, m) /\ m = 12 => Cal!Following(Date(y, m, d)) = Date(y + 1, 1, 1)
  <1>0. Cal!MonthLength(y, m) \in Int
    BY SMT DEF Cal!MonthLength
  <1>1. d < Cal!MonthLength(y, m) => Cal!Following(Date(y, m, d)) = Date(y, m, d + 1)
    BY SMT, <1>0 DEF Cal!Following, Date
  <1>2. ASSUME d = Cal!MonthLength(y, m), m < 12 PROVE Cal!Following(Date(y, m, d)) = Date(y, m + 1, 1)
    <2>1. ~ (d < Cal!MonthLength(y, m))
      BY SMT, <1>0, <1>2
    <2>2. Date(y, m, d).year = y /\ Date(y, m, d).month = m /\ Date(y, m, d).day = d
      BY DEF Date
    <2>3. Cal!Following(Date(y, m, d)) = [year |-> Date(y, m, d).year, month |-> Date(y, m, d).month + 1, day |-> 1]
      BY Zenon, <1>2, <2>1, <2>2 DEF Cal!Following
    <2> QED BY Zenon, <2>2, <2>3 DEF Date
  <1>3. ASSUME d = Cal!MonthLength(y, m), m = 12 PROVE Cal!Following(Date(y, m, d)) = Date(y + 1, 1, 1)
    <2>1. ~ (d < Cal!MonthLength(y, m)) /\ ~ (m < 12)
      BY SMT, <1>0, <1>3
    <2>2. Date(y, m, d).year = y /\ Date(y, m, d).month = m /\ Date(y, m, d).day = d
      BY DEF Date
    <2>3. Cal!Following(Date(y, m, d)) = [year |-> Date(y, m, d).year + 1, month |-> 1, day |-> 1]
      BY Zenon, <2>1, <2>2 DEF Cal!Following
    <2> QED BY Zenon, <2>2, <2>3 DEF Date
  <1> QED BY <1>1, <1>2, <1>3

\* Day s, of month mp, is day d of the calendar's month m of year a: the last
\* of it just before another month begins and at the end of the year.
MonthDay(y, s, mp, a, m, d) ==
  /\ a \in Int /\ m \in Int /\ d \in Int
  /\ Cal!DateInYear(y, s) = Date(a, m, d)
  /\ a = IF mp < 10 THEN y ELSE y + 1
  /\ m = IF mp < 10 THEN mp + 3 ELSE mp - 9
  /\ d = s - First(mp) + 1
  /\ d >= 1 /\ d <= Cal!MonthLength(a, m)
  /\ d = Cal!MonthLength(a, m) <=> s + 1 = First(mp + 1) \/ s = LastDay(y)

LEMMA MonthFacts ==
  ASSUME NEW y \in Int, NEW s \in Nat, NEW mp, InMonth(s, mp), DayOf(y, s)
  PROVE  \E a, m, d : MonthDay(y, s, mp, a, m, d)
  <1>1. mp \in 0 .. 11 /\ First(mp) <= s /\ s < First(mp + 1)
    BY DEF InMonth
  <1> DEFINE a == IF mp < 10 THEN y ELSE y + 1
             m == IF mp < 10 THEN mp + 3 ELSE mp - 9
             d == s - First(mp) + 1
  <1>2. First(mp) \in Int /\ First(mp + 1) \in Int /\ a \in Int /\ m \in Int /\ d \in Int
    BY SMT, <1>1 DEF First
  <1>3. Cal!DateInYear(y, s) = Date(a, m, d)
    BY MonthIsFound DEF MonthDate, Date
  <1>4. /\ d >= 1 /\ d <= Cal!MonthLength(a, m)
        /\ d = Cal!MonthLength(a, m) <=> s + 1 = First(mp + 1) \/ s = LastDay(y)
    BY SMTT(30), <1>1, <1>2 DEF Cal!MonthLength, First, DayOf, LastDay
  <1>5. MonthDay(y, s, mp, a, m, d)
    BY Zenon, <1>2, <1>3, <1>4 DEF MonthDay
  <1> HIDE DEF a, m, d
  <1> QED BY Zenon, <1>5

LEMMA DateIsValid ==
  ASSUME NEW y \in Int, NEW s \in Nat, DayOf(y, s)
  PROVE  Valid(Cal!DateInYear(y, s))
  <1>1. PICK mp : InMonth(s, mp)
    BY Zenon, SomeMonth
  <1>2. mp \in 0 .. 11 /\ First(mp) \in Nat /\ First(mp) <= s /\ s < First(mp + 1)
    BY SMT, <1>1 DEF InMonth, First
  <1> DEFINE d == MonthDate(y, mp, s - First(mp) + 1)
  <1>3. Cal!DateInYear(y, s) = d
    BY Zenon, <1>1, MonthIsFound
  <1>4. /\ d.year \in Int /\ d.month \in 1 .. 12 /\ d.day = s - First(mp) + 1
        /\ d.year = (IF mp < 10 THEN y ELSE y + 1) /\ d.month = (IF mp < 10 THEN mp + 3 ELSE mp - 9)
        /\ d = [year |-> d.year, month |-> d.month, day |-> d.day]
    BY SMT, <1>2 DEF MonthDate
  <1>5. mp \in 0 .. 10 => /\ First(mp + 1) - First(mp) = Cal!MonthLength(d.year, d.month)
                          /\ First(mp + 1) \in Nat
    BY Zenon, MonthLengths
  <1>6. d.day \in 1 .. Cal!MonthLength(d.year, d.month)
    <2>1. CASE mp = 11
      <3>1. d.month = 2 /\ d.year = y + 1 /\ First(mp) = 337
        BY SMT, <1>4, <2>1 DEF First
      <3>2. Cal!MonthLength(d.year, d.month) = IF Cal!IsLeap(y + 1) THEN 29 ELSE 28
        BY SMT, <3>1 DEF Cal!MonthLength
      <3> HIDE DEF d
      <3> QED BY SMT, <1>2, <1>4, <3>1, <3>2 DEF DayOf, LastDay
    <2>2. CASE mp # 11
      <3> HIDE DEF d
      <3> QED BY SMT, <1>2, <1>4, <1>5, <2>2
    <2> QED BY <2>1, <2>2
  <1> HIDE DEF d
  <1> QED BY Zenon, <1>3, <1>4, <1>6 DEF Valid

LEMMA ThereAndBack ==
  ASSUME NEW y \in Int, NEW m \in 1 .. 12, NEW d \in Int, d >= 1, d <= Cal!MonthLength(y, m)
  PROVE  Cal!Preceding(Cal!Following(Date(y, m, d))) = Date(y, m, d)
  <1>0. Cal!MonthLength(y, m) \in Int /\ m \in Int
    BY SMT DEF Cal!MonthLength
  <1>1. CASE d < Cal!MonthLength(y, m)
    <2>1. Cal!Following(Date(y, m, d)) = Date(y, m, d + 1)
      BY <1>0, <1>1, FollowingDay
    <2>2. Cal!Preceding(Date(y, m, d + 1)) = Date(y, m, d)
      BY SMT DEF Cal!Preceding, Date
    <2> QED BY Zenon, <2>1, <2>2
  <1>2. CASE d = Cal!MonthLength(y, m) /\ m < 12
    <2>1. Cal!Following(Date(y, m, d)) = Date(y, m + 1, 1)
      BY <1>0, <1>2, FollowingDay
    <2>2. Cal!Preceding(Date(y, m + 1, 1)) = Date(y, m, d)
      <3> DEFINE next == Date(y, m + 1, 1)
      <3>1. next.year = y /\ next.month = m + 1 /\ next.day = 1
        BY DEF Date
      <3>2. m + 1 - 1 = m /\ m + 1 > 1 /\ ~ (1 > 1)
        BY SMT
      <3> HIDE DEF next
      <3>3. Cal!MonthLength(next.year, next.month - 1) = d
        BY SMT, <1>2, <3>1, <3>2
      <3>4. Cal!Preceding(next) = [year |-> next.year, month |-> next.month - 1,
                                   day |-> Cal!MonthLength(next.year, next.month - 1)]
        BY Zenon, <3>1, <3>2 DEF Cal!Preceding
      <3>5. Cal!Preceding(next) = Date(y, m, d)
        BY SMT, <3>1, <3>2, <3>3, <3>4 DEF Date
      <3> QED BY Zenon, <3>5 DEF next
    <2> QED BY Zenon, <2>1, <2>2
  <1>3. CASE d = Cal!MonthLength(y, m) /\ m = 12
    <2>1. Cal!Following(Date(y, m, d)) = Date(y + 1, 1, 1)
      BY <1>0, <1>3, FollowingDay
    <2>2. d = 31
      BY SMT, <1>3 DEF Cal!MonthLength
    <2>3. Cal!Preceding(Date(y + 1, 1, 1)) = Date(y, m, d)
      BY SMT, <1>3, <2>2 DEF Cal!Preceding, Date
    <2> QED BY Zenon, <2>1, <2>3
  <1> QED BY SMT, <1>0, <1>1, <1>2, <1>3

\* The day after a day that is not the last of a year.
LEMMA NextInYear ==
  ASSUME NEW y \in Int, NEW s \in Nat, NEW t \in Nat, t = s + 1, DayOf(y, t)
  PROVE  Cal!DateInYear(y, t) = Cal!Following(Cal!DateInYear(y, s))
  <1>0. DayOf(y, s) /\ s # LastDay(y)
    BY SMT DEF DayOf, LastDay
  <1>1. PICK mp : InMonth(s, mp)
    BY Zenon, <1>0, SomeMonth
  <1>2. PICK mq : InMonth(t, mq)
    BY Zenon, SomeMonth
  <1>3. PICK a, m, d : MonthDay(y, s, mp, a, m, d)
    BY Zenon, <1>0, <1>1, MonthFacts
  <1>4. PICK b, n, e : MonthDay(y, t, mq, b, n, e)
    BY Zenon, <1>2, MonthFacts
  <1>5. mp \in 0 .. 11 /\ mq \in 0 .. 11
    BY <1>1, <1>2 DEF InMonth
  <1>6. a \in Int /\ m \in Int /\ d \in Int /\ Cal!MonthLength(a, m) \in Int
    BY SMT, <1>3 DEF MonthDay, Cal!MonthLength
  <1>7. CASE t = First(mp + 1)
    <2>1. mq = mp + 1 /\ e = 1
      BY SMT, <1>1, <1>2, <1>4, <1>7 DEF InMonth, First, MonthDay
    <2>2. d = Cal!MonthLength(a, m)
      BY Zenon, <1>3, <1>7 DEF MonthDay
    <2>3. CASE mp = 9
      <3>1. m = 12 /\ a = y /\ b = y + 1 /\ n = 1
        BY SMT, <1>3, <1>4, <1>5, <2>1, <2>3 DEF MonthDay
      <3>2. Cal!Following(Date(a, m, d)) = Date(a + 1, 1, 1)
        BY <1>6, <2>2, <3>1, FollowingDay
      <3> QED BY Zenon, <1>3, <1>4, <2>1, <3>1, <3>2 DEF MonthDay
    <2>4. CASE mp # 9
      <3>1. m < 12 /\ a = b /\ n = m + 1
        BY SMT, <1>3, <1>4, <1>5, <2>1, <2>4 DEF MonthDay
      <3>2. Cal!Following(Date(a, m, d)) = Date(a, m + 1, 1)
        BY <1>6, <2>2, <3>1, FollowingDay
      <3> QED BY Zenon, <1>3, <1>4, <2>1, <3>1, <3>2 DEF MonthDay
    <2> QED BY Zenon, <2>3, <2>4
  <1>8. CASE t # First(mp + 1)
    <2>1. mq = mp
      BY SMT, <1>1, <1>2, <1>8 DEF InMonth, First
    <2>2. First(mp) \in Int
      BY SMT, <1>5 DEF First
    <2>3. e = d + 1 /\ b = a /\ n = m
      BY SMT, <1>3, <1>4, <2>1, <2>2 DEF MonthDay
    <2>4. d < Cal!MonthLength(a, m)
      <3>1. d # Cal!MonthLength(a, m)
        BY Zenon, <1>0, <1>3, <1>8 DEF MonthDay
      <3> QED BY SMT, <1>3, <1>6, <3>1 DEF MonthDay
    <2>5. Cal!Following(Date(a, m, d)) = Date(a, m, d + 1)
      BY ZenonT(40), <1>6, <2>4, FollowingDay
    <2> QED BY ZenonT(40), <1>3, <1>4, <2>3, <2>5 DEF MonthDay
  <1> QED BY Zenon, <1>7, <1>8

\* The day after the last of a year.
LEMMA NewYear ==
  ASSUME NEW y \in Int, NEW z \in Int, z = y + 1,
         NEW s \in Nat, s = LastDay(y)
  PROVE  Cal!DateInYear(z, 0) = Cal!Following(Cal!DateInYear(y, s))
  <1>0. DayOf(y, s) /\ InMonth(s, 11) /\ InMonth(0, 0) /\ First(0) = 0
    BY SMT DEF InMonth, First, DayOf, LastDay
  <1>1. PICK a, m, d : MonthDay(y, s, 11, a, m, d)
    BY Zenon, <1>0, MonthFacts
  <1>2. a = z /\ m = 2 /\ d = Cal!MonthLength(a, m)
    BY SMT, <1>1 DEF MonthDay
  <1>3. Cal!Following(Date(a, m, d)) = Date(a, m + 1, 1)
    <2>1. m < 12 /\ a \in Int /\ m \in Int /\ d \in Int
      BY SMT, <1>1, <1>2 DEF MonthDay
    <2> QED BY <1>2, <2>1, FollowingDay
  <1>4. Cal!DateInYear(z, 0) = MonthDate(z, 0, 0 - First(0) + 1)
    BY SMT, <1>0, MonthIsFound
  <1>5. MonthDate(z, 0, 0 - First(0) + 1) = Date(a, m + 1, 1)
    BY SMT, <1>0, <1>2 DEF MonthDate, Date
  <1> QED BY Zenon, <1>1, <1>3, <1>4, <1>5 DEF MonthDay

\* The day after a day lies in the same year, or it is the first of the next.
SameYear(k, era, c, q, i, s) == \E t : t = s + 1 /\ Lies(k, era, c, q, i, t)
YearAfter(k, era, c, q, i, s) ==
  \E f, e, r, j : /\ Lies(k, f, e, r, j, 0)
                  /\ YearIn(f, e, r, j) = YearIn(era, c, q, i) + 1
                  /\ s = LastIn(c, q, i)

LEMMA LiesNext ==
  ASSUME NEW n \in Int, NEW era, NEW c, NEW q, NEW i, NEW s, Lies(n, era, c, q, i, s),
         NEW k \in Int, k = n + 1
  PROVE  SameYear(k, era, c, q, i, s) \/ YearAfter(k, era, c, q, i, s)
  <1>0. era \in Int /\ Split(c, q, i, s)
    BY SMT DEF Lies
  <1>1. CASE s # LastIn(c, q, i)
    <2> DEFINE t == s + 1
    <2>1. Lies(k, era, c, q, i, t)
      BY SMT, <1>1 DEF Lies, Split, Joined, LastIn
    <2> HIDE DEF t
    <2> QED BY Zenon, <2>1 DEF t, SameYear
  <1>2. CASE s = LastIn(c, q, i)
    <2>2. CASE i < 3
      <3> DEFINE j == i + 1
      <3>1. Lies(k, era, c, q, j, 0) /\ YearIn(era, c, q, j) = YearIn(era, c, q, i) + 1
        BY SMT, <1>2, <2>2 DEF Lies, Split, Joined, YearIn, LastIn
      <3> HIDE DEF j
      <3> QED BY Zenon, <1>2, <3>1 DEF YearAfter
    <2>3. CASE i = 3 /\ q < 24
      <3> DEFINE r == q + 1
      <3>1. Lies(k, era, c, r, 0, 0) /\ YearIn(era, c, r, 0) = YearIn(era, c, q, i) + 1
        BY SMT, <1>2, <2>3 DEF Lies, Split, Joined, YearIn, LastIn
      <3> HIDE DEF r
      <3> QED BY Zenon, <1>2, <3>1 DEF YearAfter
    <2>4. CASE i = 3 /\ q = 24 /\ c < 3
      <3> DEFINE e == c + 1
      <3>1. Lies(k, era, e, 0, 0, 0) /\ YearIn(era, e, 0, 0) = YearIn(era, c, q, i) + 1
        BY SMT, <1>2, <2>4 DEF Lies, Split, Joined, YearIn, LastIn
      <3> HIDE DEF e
      <3> QED BY Zenon, <1>2, <3>1 DEF YearAfter
    <2>5. CASE i = 3 /\ q = 24 /\ c = 3
      <3> DEFINE f == era + 1
      <3>1. Lies(k, f, 0, 0, 0, 0) /\ YearIn(f, 0, 0, 0) = YearIn(era, c, q, i) + 1
        BY SMT, <1>2, <2>5 DEF Lies, Split, Joined, YearIn, LastIn
      <3> HIDE DEF f
      <3> QED BY Zenon, <1>2, <3>1 DEF YearAfter
    <2> QED BY SMT, <1>0, <2>2, <2>3, <2>4, <2>5 DEF Split
  <1> QED BY Zenon, <1>1, <1>2

-----------------------------------------------------------------------------
(* civil_from_days and a calendar walked day by day *)

\* Day n is day s of year y, whose last day is that.
Placed(n, y, s, last) == /\ y \in Int /\ s \in Nat
                         /\ DayOf(y, s)
                         /\ LastDay(y) = last
                         /\ Cal!CivilFromDays(n) = Cal!DateInYear(y, s)

LEMMA DayPlaced ==
  ASSUME NEW n \in Int, NEW era, NEW c, NEW q, NEW i, NEW s, Lies(n, era, c, q, i, s)
  PROVE  Placed(n, YearIn(era, c, q, i), s, LastIn(c, q, i))
  <1>1. era \in Int /\ Split(c, q, i, s)
    BY SMT DEF Lies
  <1>2. Cal!IsLeap(YearIn(era, c, q, i) + 1) <=> i = 3 /\ (q = 24 => c = 3)
    BY SMT, <1>1, LeapSplit
  <1>3. LastDay(YearIn(era, c, q, i)) = LastIn(c, q, i)
    BY SMT, <1>2 DEF LastDay, LastIn
  <1>4. s \in Nat /\ s <= LastIn(c, q, i)
    BY SMT, <1>1 DEF Split, LastIn
  <1>5. YearIn(era, c, q, i) \in Int
    BY SMT, <1>1 DEF Split, YearIn
  <1>6. Cal!CivilFromDays(n) = Cal!DateInYear(YearIn(era, c, q, i), s)
    BY Zenon, CivilOfSplit
  <1> QED BY Zenon, <1>3, <1>4, <1>5, <1>6 DEF DayOf, Placed

\* The date of the next day is the next date.
LEMMA NextDay ==
  ASSUME NEW n \in Int, NEW k \in Int, k = n + 1
  PROVE  Cal!CivilFromDays(k) = Cal!Following(Cal!CivilFromDays(n))
  <1>1. PICK era, c, q, i, s : Lies(n, era, c, q, i, s)
    BY Zenon, Located
  <1> DEFINE y == YearIn(era, c, q, i)
  <1>2. Placed(n, y, s, LastIn(c, q, i))
    BY Zenon, <1>1, DayPlaced
  <1>3. ASSUME NEW t, t = s + 1, Lies(k, era, c, q, i, t)
        PROVE  Cal!CivilFromDays(k) = Cal!Following(Cal!CivilFromDays(n))
    <2>1. Placed(k, y, t, LastIn(c, q, i))
      BY Zenon, <1>3, DayPlaced
    <2> HIDE DEF y
    <2>2. Cal!DateInYear(y, t) = Cal!Following(Cal!DateInYear(y, s))
      BY Zenon, <1>2, <1>3, <2>1, NextInYear DEF Placed
    <2> QED BY Zenon, <1>2, <2>1, <2>2 DEF Placed
  <1>4. ASSUME NEW f, NEW e, NEW r, NEW j, Lies(k, f, e, r, j, 0),
               YearIn(f, e, r, j) = YearIn(era, c, q, i) + 1, s = LastIn(c, q, i)
        PROVE  Cal!CivilFromDays(k) = Cal!Following(Cal!CivilFromDays(n))
    <2> DEFINE z == YearIn(f, e, r, j)
    <2>1. Placed(k, z, 0, LastIn(e, r, j))
      BY Zenon, <1>4, DayPlaced
    <2>2. z = y + 1
      BY <1>4
    <2> HIDE DEF y, z
    <2>3. s = LastDay(y) /\ y \in Int /\ z \in Int /\ s \in Nat
      BY Zenon, <1>2, <1>4, <2>1 DEF Placed
    <2>4. Cal!DateInYear(z, 0) = Cal!Following(Cal!DateInYear(y, s))
      BY Zenon, <2>2, <2>3, NewYear
    <2> QED BY Zenon, <1>2, <2>1, <2>4 DEF Placed
  <1>5. SameYear(k, era, c, q, i, s) \/ YearAfter(k, era, c, q, i, s)
    BY Zenon, <1>1, LiesNext
  <1> QED BY Zenon, <1>3, <1>4, <1>5 DEF SameYear, YearAfter

\* What civil_from_days returns is a date of the calendar.
LEMMA CivilIsValid ==
  ASSUME NEW n \in Int
  PROVE  Valid(Cal!CivilFromDays(n))
  <1>1. PICK era, c, q, i, s : Lies(n, era, c, q, i, s)
    BY Zenon, Located
  <1>2. Placed(n, YearIn(era, c, q, i), s, LastIn(c, q, i))
    BY Zenon, <1>1, DayPlaced
  <1> QED BY Zenon, <1>2, DateIsValid DEF Placed

\* The date of the day before is the date before.
LEMMA PreviousDay ==
  ASSUME NEW n \in Int, NEW k \in Int, k = n + 1
  PROVE  Cal!CivilFromDays(n) = Cal!Preceding(Cal!CivilFromDays(k))
  <1> DEFINE d == Cal!CivilFromDays(n)
  <1>1. Valid(d)
    BY Zenon, CivilIsValid
  <1>2. Cal!CivilFromDays(k) = Cal!Following(d)
    BY Zenon, NextDay
  <1> HIDE DEF d
  <1>3. /\ d = Date(d.year, d.month, d.day)
        /\ d.year \in Int /\ d.month \in 1 .. 12 /\ d.day \in Int
        /\ d.day >= 1 /\ d.day <= Cal!MonthLength(d.year, d.month)
    BY SMT, <1>1 DEF Valid, Date, Cal!MonthLength
  <1>4. Cal!Preceding(Cal!Following(Date(d.year, d.month, d.day))) = Date(d.year, d.month, d.day)
    BY Zenon, <1>3, ThereAndBack
  <1> QED BY Zenon, <1>2, <1>3, <1>4 DEF d

-----------------------------------------------------------------------------
(* The walk *)

\* The one date that has to be known: the epoch.
Epoch == [day |-> 0, date |-> [year |-> 1970, month |-> 1, day |-> 1]]

LEMMA EpochIsCivil == Cal!CivilFromDays(0) = [year |-> 1970, month |-> 1, day |-> 1]
  <1>1. Lies(0, 4, 3, 17, 1, 306)
    BY SMT DEF Lies, Split, Joined
  <1>2. Cal!CivilFromDays(0) = Cal!DateInYear(YearIn(4, 3, 17, 1), 306)
    BY SMT, <1>1, CivilOfSplit
  <1>3. YearIn(4, 3, 17, 1) = 1969
    BY SMT DEF YearIn
  <1>4. Cal!DateInYear(1969, 306) = [year |-> 1970, month |-> 1, day |-> 1]
    BY SMT DEF Cal!DateInYear
  <1> QED BY SMT, <1>2, <1>3, <1>4

\* A clock shows second s of a date.
Clock(shown, d, s) == /\ shown.date = d
                      /\ shown.hour * 3600 + shown.minute * 60 + shown.second = s
                      /\ shown.hour \in 0 .. 23 /\ shown.minute \in 0 .. 59 /\ shown.second \in 0 .. 59

\* What Display shows of second s of day n.
LEMMA ShownAt ==
  ASSUME NEW n \in Int, NEW offset \in Int, NEW s \in Nat, s < 86400
  PROVE  Clock(Cal!Shown(n * Cal!SecondsPerDay + s - offset * 60, offset), Cal!CivilFromDays(n), s)
  <1> DEFINE shown == Cal!Shown(n * Cal!SecondsPerDay + s - offset * 60, offset)
  <1> DEFINE instant == n * Cal!SecondsPerDay + s - offset * 60
             local == instant + offset * 60
             second == local % Cal!SecondsPerDay
  <1>1. local = n * 86400 + s
    BY SMT DEF Cal!SecondsPerDay
  <1>2. second = s /\ local \div Cal!SecondsPerDay = n
    BY SMT, <1>1 DEF Cal!SecondsPerDay
  <1>3. shown = [date |-> Cal!CivilFromDays(local \div Cal!SecondsPerDay), hour |-> second \div 3600,
                 minute |-> (second \div 60) % 60, second |-> second % 60]
    BY SMT DEF Cal!Shown
  <1> HIDE DEF shown, local, second
  <1>4. /\ shown.date = Cal!CivilFromDays(n) /\ shown.hour = s \div 3600
        /\ shown.minute = (s \div 60) % 60 /\ shown.second = s % 60
    BY SMT, <1>2, <1>3
  <1>5. (s \div 3600) * 3600 + ((s \div 60) % 60) * 60 + (s % 60) = s
    BY SMT
  <1>6. s \div 3600 \in 0 .. 23 /\ (s \div 60) % 60 \in 0 .. 59 /\ s % 60 \in 0 .. 59
    BY SMT
  <1>7. Clock(shown, Cal!CivilFromDays(n), s)
    BY SMT, <1>4, <1>5, <1>6 DEF Clock
  <1> QED BY SMT, <1>7 DEF shown

\* What the theorem supposes: the bounds, and the walk from the epoch.
FromEpoch == Cal!CalendarBounds /\ Anchors = {Epoch}

\* The inductive invariant: the walk's own date is what civil_from_days says.
Walk == /\ FromEpoch
        /\ anchor = Epoch
        /\ day \in Int /\ -Span <= day /\ day <= Span
        /\ date = Cal!CivilFromDays(day)

LEMMA WalkBegins == FromEpoch /\ Cal!Init => Walk
  <1> SUFFICES ASSUME FromEpoch, Cal!Init PROVE Walk
    OBVIOUS
  <1>1. anchor = Epoch /\ day = anchor.day /\ date = anchor.date
    BY DEF FromEpoch, Cal!Init
  <1>2. day = 0 /\ date = Cal!CivilFromDays(0)
    BY SMT, <1>1, EpochIsCivil DEF Epoch
  <1>3. Span \in Nat
    BY SMT DEF FromEpoch, Cal!CalendarBounds
  <1>4. -Span <= day /\ day <= Span /\ day \in Int
    BY SMT, <1>2, <1>3
  <1> QED BY Zenon, <1>1, <1>2, <1>4 DEF Walk

LEMMA WalkGoesOn == Walk /\ [Cal!Next]_Cal!vars => Walk'
  <1> SUFFICES ASSUME Walk, [Cal!Next]_Cal!vars PROVE Walk'
    OBVIOUS
  <1>1. /\ anchor = Epoch /\ day \in Int /\ -Span <= day /\ day <= Span
        /\ date = Cal!CivilFromDays(day) /\ FromEpoch
    BY Zenon DEF Walk
  <1>2. Span \in Nat /\ Epoch.day = 0
    BY SMT, <1>1 DEF FromEpoch, Cal!CalendarBounds, Epoch
  <1>3. CASE Cal!Tomorrow
    <2>1. day < Span /\ day' = day + 1 /\ date' = Cal!Following(date) /\ anchor' = anchor
      BY SMT, <1>1, <1>2, <1>3 DEF Cal!Tomorrow
    <2>2. day' \in Int /\ -Span <= day' /\ day' <= Span
      BY SMT, <1>1, <1>2, <2>1
    <2>3. date' = Cal!CivilFromDays(day')
      BY Zenon, <1>1, <2>1, <2>2, NextDay
    <2> QED BY Zenon, <1>1, <2>1, <2>2, <2>3 DEF Walk
  <1>4. CASE Cal!Yesterday
    <2>1. day > -Span /\ day' = day - 1 /\ date' = Cal!Preceding(date) /\ anchor' = anchor
      BY SMT, <1>1, <1>2, <1>4 DEF Cal!Yesterday
    <2>2. day' \in Int /\ -Span <= day' /\ day' <= Span /\ day = day' + 1
      BY SMT, <1>1, <1>2, <2>1
    <2>3. date' = Cal!CivilFromDays(day')
      BY Zenon, <1>1, <2>1, <2>2, PreviousDay
    <2> QED BY Zenon, <1>1, <2>1, <2>2, <2>3 DEF Walk
  <1>5. CASE UNCHANGED Cal!vars
    BY Zenon, <1>1, <1>5 DEF Walk, Cal!vars
  <1> QED BY Zenon, <1>3, <1>4, <1>5 DEF Cal!Next

LEMMA WalkIsCivil == Walk => Cal!DatesAreCivil
  <1> SUFFICES ASSUME Walk PROVE Cal!DatesAreCivil
    OBVIOUS
  <1>1. /\ anchor = Epoch /\ day \in Int /\ -Span <= day /\ day <= Span
        /\ date = Cal!CivilFromDays(day) /\ FromEpoch
    BY Zenon DEF Walk
  <1>2. /\ Span \in Nat /\ Epoch.day = 0 /\ Anchors = {Epoch}
        /\ \A offset \in Offsets : offset \in Int
        /\ \A second \in Seconds : second \in Nat /\ second < 86400
    <2>1. Anchors = {Epoch} /\ Cal!CalendarBounds
      BY Zenon, <1>1 DEF FromEpoch
    <2>2. Epoch.day = 0
      BY SMT DEF Epoch
    <2>3. Span \in Nat /\ (\A offset \in Offsets : offset \in Int)
          /\ \A second \in Seconds : second \in Nat /\ second < 86400
      BY SMT, <2>1 DEF Cal!CalendarBounds
    <2> QED BY SMT, <2>1, <2>2, <2>3
  <1>3. date.month \in 1 .. 12 /\ date.day \in 1 .. 31
    <2>1. Valid(date)
      BY Zenon, <1>1, CivilIsValid
    <2> QED BY SMT, <2>1 DEF Valid, Cal!MonthLength
  <1>4. Cal!TypeOK
    BY SMT, <1>1, <1>2, <1>3 DEF Cal!TypeOK
  <1>5. Cal!ShownLocally
    <2> SUFFICES ASSUME NEW offset \in Offsets, NEW second \in Seconds
                 PROVE  Clock(Cal!Shown(day * Cal!SecondsPerDay + second - offset * 60, offset), date, second)
      BY SMT DEF Cal!ShownLocally, Clock
    <2>1. offset \in Int /\ second \in Nat /\ second < 86400
      BY SMT, <1>2
    <2>2. Clock(Cal!Shown(day * Cal!SecondsPerDay + second - offset * 60, offset),
                Cal!CivilFromDays(day), second)
      BY SMT, <1>1, <2>1, ShownAt
    <2> QED BY Zenon, <1>1, <2>2
  <1> QED BY Zenon, <1>1, <1>4, <1>5 DEF Cal!DatesAreCivil, Cal!DateIsCivil

\* civil_from_days names, for every day however far from the epoch, the date that
\* the Gregorian rules reach from 1970-01-01 one day at a time, and Display shows
\* every second of it as a clock at the value's offset would.
THEOREM Dates == FromEpoch /\ Spec => []DatesAreCivil
  <1> DEFINE Chosen == kind = "calendar" => Walk
  <1>1. FromEpoch /\ Init => Chosen
    BY Zenon, WalkBegins, KindsDiffer DEF Init
  <1>2. Chosen /\ [Next]_vars => Chosen'
    BY Zenon, WalkGoesOn, CalendarPart
  <1>3. Chosen => DatesAreCivil
    BY Zenon, WalkIsCivil DEF DatesAreCivil
  <1> QED BY <1>1, <1>2, <1>3, PTL DEF Spec

-----------------------------------------------------------------------------
(* Seconds and nanoseconds *)

LEMMA Divides ==
  ASSUME NEW N \in Nat, N > 0, NEW t \in Int
  PROVE  /\ t \div N \in Int
         /\ t % N \in Int /\ 0 <= t % N /\ t % N < N
         /\ t = (t \div N) * N + (t % N)
  BY SMT

LEMMA Scale ==
  ASSUME NEW N \in Nat, NEW a \in Int, NEW b \in Int, a < b
  PROVE  a * N + N <= b * N
  <1>1. PICK k \in Nat : b = a + 1 + k
    <2>1. b - a - 1 \in Nat /\ b = a + 1 + (b - a - 1)
      BY SMT
    <2> QED BY SMT, <2>1
  <1>2. k * N \in Nat
    BY SMT, <1>1
  <1>3. b * N = a * N + N + k * N
    BY SMT, <1>1
  <1> QED BY SMT, <1>2, <1>3

\* Seconds and a fraction of a second are compared like the instants they are.
LEMMA Lexical ==
  ASSUME NEW N \in Nat, NEW a \in Int, NEW b \in Int, NEW r \in Int, NEW s \in Int,
         0 <= r, r < N, 0 <= s, s < N
  PROVE  a * N + r < b * N + s <=> a < b \/ (a = b /\ r < s)
  <1>1. a < b => a * N + N <= b * N
    BY SMT, Scale
  <1>2. b < a => b * N + N <= a * N
    BY SMT, Scale
  <1>3. a * N \in Int /\ b * N \in Int
    BY SMT
  <1> QED BY SMT, <1>1, <1>2, <1>3

-----------------------------------------------------------------------------
(* What the conversions of Datetime compute *)

\* A Datetime, with a zone, of the instant t.
Exact(m, t) == /\ m.epoch \in Int /\ -(I64Max + 1) <= m.epoch /\ m.epoch <= I64Max
               /\ m.nsec \in Int /\ 0 <= m.nsec /\ m.nsec < Nanos
               /\ t = m.epoch * Nanos + m.nsec
Zoned(m, offset, index) == m = [epoch |-> m.epoch, nsec |-> m.nsec, offset |-> offset, index |-> index]

LEMMA Numbers ==
  ASSUME Dt!DatetimeBounds
  PROVE  /\ I64Max \in Nat /\ Nanos \in Nat /\ Nanos > 0 /\ Minute \in Nat /\ Minute > 0
         /\ CrateMax \in Nat /\ CrateMax < I64Max
         /\ Indexes \subseteq Int /\ Zones \subseteq -ZoneMax .. ZoneMax
  BY SMT DEF Dt!DatetimeBounds

\* An instant has its seconds in i64 exactly when it is a SystemTime.
LEMMA InRange ==
  ASSUME Dt!DatetimeBounds, NEW e \in Int, NEW r \in Int, 0 <= r, r < Nanos
  PROVE  e * Nanos + r \in Dt!SystemTime <=> -(I64Max + 1) <= e /\ e <= I64Max
  <1>0. I64Max \in Nat /\ Nanos \in Nat /\ Nanos > 0
    BY Numbers
  <1> DEFINE top == I64Max * Nanos
             low == (-(I64Max + 1)) * Nanos
             at == e * Nanos
  <1>1. top \in Int /\ low \in Int /\ at \in Int
    BY SMT, <1>0
  <1>2. e > I64Max => top + Nanos <= at
    BY SMT, <1>0, Scale
  <1>3. e < -(I64Max + 1) => at + Nanos <= low
    BY SMT, <1>0, Scale
  <1>4. e < I64Max => at + Nanos <= top
    BY SMT, <1>0, Scale
  <1>5. e > -(I64Max + 1) => low + Nanos <= at
    BY SMT, <1>0, Scale
  <1>6. (e = I64Max => at = top) /\ (e = -(I64Max + 1) => at = low)
    BY SMT
  <1>7. at + r \in Dt!SystemTime <=> low <= at + r /\ at + r <= top + Nanos - 1
    BY SMT, <1>0, <1>1 DEF Dt!SystemTime, Dt!I64Min
  <1> HIDE DEF top, low, at
  <1>8. low <= at + r /\ at + r <= top + Nanos - 1 <=> -(I64Max + 1) <= e /\ e <= I64Max
    BY SMT, <1>0, <1>1, <1>2, <1>3, <1>4, <1>5, <1>6
  <1> QED BY SMT, <1>7, <1>8 DEF at

\* Whatever from_unix is given, it makes a Datetime.
LEMMA FromUnixMakes ==
  ASSUME Dt!DatetimeBounds, NEW s \in Int, NEW n \in Nat
  PROVE  LET m == Dt!FromUnix(s, n)
         IN Zoned(m, 0, 0) /\ Exact(m, m.epoch * Nanos + m.nsec)
  <1>0. I64Max \in Nat /\ Nanos \in Nat /\ Nanos > 0
    BY Numbers
  <1>1. n \div Nanos \in Int /\ n % Nanos \in Int /\ 0 <= n % Nanos /\ n % Nanos < Nanos
    BY SMT, <1>0, Divides
  <1> DEFINE e == Dt!Saturate(s + n \div Nanos)
             r == n % Nanos
  <1>2. e \in Int /\ -(I64Max + 1) <= e /\ e <= I64Max
    BY SMT, <1>0, <1>1 DEF Dt!Saturate, Dt!I64Min
  <1>3. Dt!FromUnix(s, n) = [epoch |-> e, nsec |-> r, offset |-> 0, index |-> 0]
    BY DEF Dt!FromUnix
  <1> HIDE DEF e
  <1> QED BY SMT, <1>1, <1>2, <1>3 DEF Exact, Zoned

\* from_unix of an instant in range is that instant: the carry moves seconds only.
LEMMA FromUnixExact ==
  ASSUME Dt!DatetimeBounds, NEW s \in Int, NEW n \in Nat, NEW t \in Dt!SystemTime, t = s * Nanos + n
  PROVE  Exact(Dt!FromUnix(s, n), t) /\ Zoned(Dt!FromUnix(s, n), 0, 0)
  <1>0. I64Max \in Nat /\ Nanos \in Nat /\ Nanos > 0
    BY Numbers
  <1> DEFINE c == n \div Nanos
             r == n % Nanos
             e == s + c
  <1>1. c \in Int /\ r \in Int /\ 0 <= r /\ r < Nanos /\ n = c * Nanos + r
    BY SMT, <1>0, Divides
  <1> HIDE DEF c, r
  <1>2. e \in Int /\ t = e * Nanos + r
    BY SMT, <1>0, <1>1
  <1>3. -(I64Max + 1) <= e /\ e <= I64Max
    BY SMT, <1>1, <1>2, InRange
  <1>4. Dt!Saturate(e) = e
    BY SMT, <1>0, <1>2, <1>3 DEF Dt!Saturate, Dt!I64Min
  <1>5. Dt!FromUnix(s, n) = [epoch |-> e, nsec |-> r, offset |-> 0, index |-> 0]
    BY Zenon, <1>4 DEF Dt!FromUnix, c, r
  <1> HIDE DEF e
  <1> QED BY SMT, <1>1, <1>2, <1>3, <1>5 DEF Exact, Zoned

\* Both ends of an instant before the epoch.
LEMMA TurnedAround ==
  ASSUME Dt!DatetimeBounds, NEW t \in Int, t < 0, NEW q, NEW r, q = (-t) \div Nanos, r = (-t) % Nanos
  PROVE  /\ q \in Nat /\ r \in Nat /\ r < Nanos
         /\ r = 0 => t = (-q) * Nanos
         /\ r # 0 => t = (-q - 1) * Nanos + (Nanos - r)
         /\ t + q * Nanos = 0 - r
  <1>0. Nanos \in Nat /\ Nanos > 0
    BY Numbers
  <1>1. q \in Int /\ r \in Int /\ 0 <= r /\ r < Nanos /\ -t = q * Nanos + r
    BY SMT, <1>0, Divides
  <1>2. q >= 0
    <2>1. q < 0 => q * Nanos + Nanos <= 0 * Nanos
      BY SMT, <1>0, <1>1, Scale
    <2> QED BY SMT, <1>0, <1>1, <2>1
  <1> QED BY SMT, <1>0, <1>1, <1>2

\* From<SystemTime> is exact for every SystemTime but the first.
LEMMA FromSystemTimeExact ==
  ASSUME Dt!DatetimeBounds, NEW t \in Dt!SystemTime, t # Dt!I64Min * Nanos
  PROVE  Exact(Dt!FromSystemTime(t), t) /\ Zoned(Dt!FromSystemTime(t), 0, 0)
  <1>0. I64Max \in Nat /\ Nanos \in Nat /\ Nanos > 0 /\ t \in Int
    BY SMT, Numbers DEF Dt!SystemTime, Dt!I64Min
  <1>1. CASE t >= 0
    <2> DEFINE q == t \div Nanos
               r == t % Nanos
    <2>1. q \in Int /\ r \in Nat /\ r < Nanos /\ t = q * Nanos + r
      BY SMT, <1>0, Divides
    <2>2. Dt!FromSystemTime(t) = Dt!FromUnix(Dt!Fit(q), r)
      BY SMT, <1>1 DEF Dt!FromSystemTime
    <2> HIDE DEF q, r
    <2>3. q <= I64Max
      BY SMT, <2>1, InRange
    <2>4. Dt!Fit(q) = q
      BY SMT, <1>0, <2>1, <2>3 DEF Dt!Fit
    <2> QED BY Zenon, <2>1, <2>2, <2>4, FromUnixExact
  <1>2. CASE t < 0
    <2> DEFINE q == (-t) \div Nanos
               r == (-t) % Nanos
    <2>1. /\ q \in Nat /\ r \in Nat /\ r < Nanos
          /\ r = 0 => t = (-q) * Nanos
          /\ r # 0 => t = (-q - 1) * Nanos + (Nanos - r)
      BY SMT, <1>0, <1>2, TurnedAround
    <2>2. Dt!FromSystemTime(t) = IF r = 0 THEN Dt!FromUnix(-Dt!Fit(q), 0)
                                 ELSE Dt!FromUnix(-Dt!Fit(q) - 1, Nanos - r)
      BY SMT, <1>0, <1>2 DEF Dt!FromSystemTime
    <2> HIDE DEF q, r
    <2>3. CASE r = 0
      <3> DEFINE e == -q
      <3>1. e \in Int /\ t = e * Nanos + 0 /\ t = e * Nanos
        BY SMT, <1>0, <2>1, <2>3
      <3>2. e # -(I64Max + 1)
        BY SMT, <3>1 DEF Dt!I64Min
      <3>3. -(I64Max + 1) <= e
        <4>1. 0 \in Int /\ 0 <= 0 /\ 0 < Nanos
          BY SMT, <1>0
        <4> HIDE DEF e
        <4>2. e * Nanos + 0 \in Dt!SystemTime
          BY Zenon, <3>1
        <4> QED BY Zenon, <3>1, <4>1, <4>2, InRange
      <3>4. Dt!Fit(q) = q
        BY SMT, <1>0, <2>1, <3>2, <3>3 DEF Dt!Fit
      <3>5. Dt!FromSystemTime(t) = Dt!FromUnix(e, 0)
        BY Zenon, <2>2, <2>3, <3>4
      <3>6. e \in Int /\ 0 \in Nat /\ t = e * Nanos + 0
        BY SMT, <3>1
      <3> HIDE DEF e
      <3> QED BY Zenon, <3>5, <3>6, FromUnixExact
    <2>4. CASE r # 0
      <3> DEFINE e == -q - 1
                 n == Nanos - r
      <3>1. e \in Int /\ n \in Nat /\ n < Nanos /\ t = e * Nanos + n
        BY SMT, <1>0, <2>1, <2>4
      <3>2. -(I64Max + 1) <= e
        <4>1. n \in Int /\ 0 <= n
          BY SMT, <3>1
        <4> HIDE DEF e, n
        <4>2. e * Nanos + n \in Dt!SystemTime
          BY Zenon, <3>1
        <4> QED BY Zenon, <3>1, <4>1, <4>2, InRange
      <3>3. Dt!Fit(q) = q
        BY SMT, <1>0, <2>1, <3>2 DEF Dt!Fit
      <3>4. Dt!FromSystemTime(t) = Dt!FromUnix(e, n)
        BY Zenon, <2>2, <2>4, <3>3
      <3> HIDE DEF e, n
      <3> QED BY Zenon, <3>1, <3>4, FromUnixExact
    <2> QED BY Zenon, <2>3, <2>4
  <1> QED BY SMT, <1>0, <1>1, <1>2

\* From<SystemTime> makes a Datetime of every SystemTime.
LEMMA FromSystemTimeMakes ==
  ASSUME Dt!DatetimeBounds, NEW t \in Dt!SystemTime
  PROVE  LET m == Dt!FromSystemTime(t)
         IN Zoned(m, 0, 0) /\ Exact(m, m.epoch * Nanos + m.nsec)
  <1>0. I64Max \in Nat /\ Nanos \in Nat /\ Nanos > 0 /\ t \in Int
    BY SMT, Numbers DEF Dt!SystemTime, Dt!I64Min
  <1>1. t \div Nanos \in Int /\ t % Nanos \in Nat /\ (-t) \div Nanos \in Int
        /\ (-t) % Nanos \in Nat /\ (-t) % Nanos < Nanos
    BY SMT, <1>0, Divides
  <1>2. \E s \in Int, n \in Nat : Dt!FromSystemTime(t) = Dt!FromUnix(s, n)
    <2>1. CASE t >= 0
      <3> DEFINE s == Dt!Fit(t \div Nanos)
                 n == t % Nanos
      <3>1. s \in Int /\ n \in Nat
        BY SMT, <1>0, <1>1 DEF Dt!Fit
      <3>2. Dt!FromSystemTime(t) = Dt!FromUnix(s, n)
        BY SMT, <2>1 DEF Dt!FromSystemTime
      <3> HIDE DEF s, n
      <3> QED BY Zenon, <3>1, <3>2
    <2>2. CASE t < 0
      <3> DEFINE q == (-t) \div Nanos
                 r == (-t) % Nanos
                 s == IF r = 0 THEN -Dt!Fit(q) ELSE -Dt!Fit(q) - 1
                 n == IF r = 0 THEN 0 ELSE Nanos - r
      <3>1. s \in Int /\ n \in Nat
        BY SMT, <1>0, <1>1 DEF Dt!Fit
      <3>2. Dt!FromSystemTime(t) = Dt!FromUnix(s, n)
        BY SMT, <1>0, <2>2 DEF Dt!FromSystemTime
      <3> HIDE DEF s, n
      <3> QED BY Zenon, <3>1, <3>2
    <2> QED BY SMT, <1>0, <2>1, <2>2
  <1> QED BY Zenon, <1>2, FromUnixMakes

\* The crates hold less than SystemTime.
LEMMA CrateInRange ==
  ASSUME Dt!DatetimeBounds, NEW t \in Dt!CrateTime
  PROVE  t \in Int /\ t \in Dt!SystemTime /\ t # Dt!I64Min * Nanos
  <1>0. I64Max \in Nat /\ Nanos \in Nat /\ Nanos > 0 /\ CrateMax \in Nat /\ CrateMax < I64Max
    BY Numbers
  <1>1. CrateMax * Nanos + Nanos <= I64Max * Nanos
    BY SMT, <1>0, Scale
  <1>2. (-(I64Max + 1)) * Nanos + Nanos <= (-CrateMax) * Nanos
    BY SMT, <1>0, Scale
  <1>3. (-CrateMax) * Nanos = -(CrateMax * Nanos) /\ CrateMax * Nanos \in Int /\ I64Max * Nanos \in Int
        /\ (-(I64Max + 1)) * Nanos \in Int
    BY SMT, <1>0
  <1>4. t \in Int /\ -(CrateMax * Nanos) <= t /\ t <= CrateMax * Nanos + Nanos - 1
    BY SMT, <1>0, <1>3 DEF Dt!CrateTime
  <1> QED BY SMT, <1>0, <1>1, <1>2, <1>3, <1>4 DEF Dt!SystemTime, Dt!I64Min

\* Division towards zero leaves less than the divisor.
LEMMA QuotientLeaves ==
  ASSUME NEW N \in Nat, N > 0, NEW z \in Int
  PROVE  /\ Dt!Quotient(z, N) \in Int
         /\ 1 - N <= z - Dt!Quotient(z, N) * N /\ z - Dt!Quotient(z, N) * N <= N - 1
  <1>1. z \div N \in Int /\ z = (z \div N) * N + (z % N) /\ 0 <= z % N /\ z % N < N /\ z % N \in Int
    BY SMT, Divides
  <1> DEFINE w == -z
             q == w \div N
             r == w % N
  <1>2. w \in Int
    BY SMT
  <1>3. q \in Int /\ w = q * N + r /\ 0 <= r /\ r < N /\ r \in Int
    BY SMT, <1>2, Divides
  <1>4. CASE z < 0
    <2>1. Dt!Quotient(z, N) = -q
      BY SMT, <1>4 DEF Dt!Quotient
    <2>2. z - (-q) * N = -r
      BY SMT, <1>3
    <2> QED BY SMT, <1>3, <2>1, <2>2
  <1>5. CASE z >= 0
    <2>1. Dt!Quotient(z, N) = z \div N
      BY SMT, <1>5 DEF Dt!Quotient
    <2> QED BY SMT, <1>1, <2>1
  <1> QED BY SMT, <1>4, <1>5

\* A value of a crate makes the Datetime of its instant, however its accessors
\* split it.
LEMMA FromCrateExact ==
  ASSUME Dt!DatetimeBounds, NEW crate \in Dt!Crate, NEW t \in Dt!CrateTime,
         NEW parts \in Dt!Parts(crate, t), NEW z
  PROVE  /\ Exact(Dt!FromCrate(parts, z), t)
         /\ Zoned(Dt!FromCrate(parts, z), Dt!Quotient(z, Minute), 0)
  <1>0. I64Max \in Nat /\ Nanos \in Nat /\ Nanos > 0 /\ t \in Int /\ t \in Dt!SystemTime
    BY SMT, Numbers, CrateInRange
  <1> DEFINE q == t \div Nanos
             r == t % Nanos
  <1>1. q \in Int /\ r \in Nat /\ r < Nanos /\ t = q * Nanos + r
    BY SMT, <1>0, Divides
  <1> HIDE DEF q, r
  <1>2. \E s \in Int, n \in Nat :
          /\ t = s * Nanos + n
          /\ Dt!FromCrate(parts, z) = Dt!WithTzOffset(Dt!FromUnix(s, n), Dt!Quotient(z, Minute))
    <2>1. CASE crate \in {"time", "chrono"} /\ parts = <<q, r>>
      <3>1. parts[1] = q /\ parts[2] = r /\ ~ (r < 0)
        BY SMT, <1>1, <2>1
      <3>2. Dt!FromCrate(parts, z) = Dt!WithTzOffset(Dt!FromUnix(q, r), Dt!Quotient(z, Minute))
        BY SMT, <3>1 DEF Dt!FromCrate
      <3> QED BY Zenon, <1>1, <3>2
    <2>2. CASE crate = "chrono" /\ parts = <<q - 1, r + Nanos>>
      <3> DEFINE s == q - 1
                 n == r + Nanos
      <3>1. parts[1] = s /\ parts[2] = n /\ ~ (n < 0) /\ s \in Int /\ n \in Nat /\ t = s * Nanos + n
        BY SMT, <1>0, <1>1, <2>2
      <3>2. Dt!FromCrate(parts, z) = Dt!WithTzOffset(Dt!FromUnix(s, n), Dt!Quotient(z, Minute))
        BY SMT, <3>1 DEF Dt!FromCrate
      <3> HIDE DEF s, n
      <3> QED BY Zenon, <3>1, <3>2
    <2>3. CASE crate = "jiff" /\ parts = <<Dt!Quotient(t, Nanos), t - Dt!Quotient(t, Nanos) * Nanos>>
      <3>1. CASE t >= 0
        <4>1. Dt!Quotient(t, Nanos) = q
          BY SMT, <1>0, <3>1 DEF Dt!Quotient, q
        <4>2. t - q * Nanos = r
          BY SMT, <1>0, <1>1
        <4>3. parts[1] = q /\ parts[2] = r /\ ~ (r < 0)
          BY SMT, <1>1, <2>3, <4>1, <4>2
        <4>4. Dt!FromCrate(parts, z) = Dt!WithTzOffset(Dt!FromUnix(q, r), Dt!Quotient(z, Minute))
          BY SMT, <4>3 DEF Dt!FromCrate
        <4> QED BY Zenon, <1>1, <4>4
      <3>2. CASE t < 0
        <4> DEFINE a == (-t) \div Nanos
                   b == (-t) % Nanos
        <4>1. /\ a \in Nat /\ b \in Nat /\ b < Nanos
              /\ b = 0 => t = (-a) * Nanos
              /\ b # 0 => t = (-a - 1) * Nanos + (Nanos - b)
              /\ t + a * Nanos = 0 - b
          BY SMT, <1>0, <3>2, TurnedAround
        <4>2. Dt!Quotient(t, Nanos) = -a
          BY SMT, <1>0, <3>2 DEF Dt!Quotient
        <4> HIDE DEF a, b
        <4>3. parts[1] = -a /\ parts[2] = 0 - b
          <5>1. t - (-a) * Nanos = 0 - b
            BY SMT, <1>0, <4>1
          <5> QED BY SMT, <2>3, <4>1, <4>2, <5>1
        <4> DEFINE s == IF b = 0 THEN -a ELSE -a - 1
                   n == IF b = 0 THEN 0 ELSE Nanos - b
        <4>4. s \in Int /\ n \in Nat
          BY SMT, <1>0, <4>1
        <4>5. t = s * Nanos + n
          BY SMT, <1>0, <4>1
        <4>6. Dt!FromCrate(parts, z) = Dt!WithTzOffset(Dt!FromUnix(s, n), Dt!Quotient(z, Minute))
          <5>1. CASE b = 0
            <6>1. s = -a /\ n = 0
              BY Zenon, <5>1
            <6>2. 0 - b = 0 /\ ~ (0 < 0)
              BY SMT, <5>1
            <6>3. parts[1] = s /\ parts[2] = n /\ ~ (n < 0)
              BY Zenon, <4>3, <6>1, <6>2
            <6> HIDE DEF s, n
            <6> QED BY SMT, <6>3 DEF Dt!FromCrate
          <5>2. CASE b # 0
            <6>1. parts[1] - 1 = s /\ parts[2] + Nanos = n /\ parts[2] < 0
              BY SMT, <1>0, <4>1, <4>3, <5>2
            <6> HIDE DEF s, n
            <6> QED BY SMT, <6>1 DEF Dt!FromCrate
          <5> QED BY <5>1, <5>2
        <4> HIDE DEF s, n
        <4> QED BY Zenon, <4>4, <4>5, <4>6
      <3> QED BY SMT, <1>0, <3>1, <3>2
    <2> QED BY Zenon, <2>1, <2>2, <2>3 DEF Dt!Crate, Dt!Parts, q, r
  <1>3. PICK s \in Int, n \in Nat :
          /\ t = s * Nanos + n
          /\ Dt!FromCrate(parts, z) = Dt!WithTzOffset(Dt!FromUnix(s, n), Dt!Quotient(z, Minute))
    BY <1>2
  <1>4. Exact(Dt!FromUnix(s, n), t) /\ Zoned(Dt!FromUnix(s, n), 0, 0)
    BY Zenon, <1>0, <1>3, FromUnixExact
  <1> DEFINE m == Dt!FromUnix(s, n)
  <1>5. /\ Dt!FromCrate(parts, z) = [epoch |-> m.epoch, nsec |-> m.nsec, offset |-> Dt!Quotient(z, Minute), index |-> m.index]
        /\ m.index = 0
    BY SMT, <1>3, <1>4 DEF Dt!WithTzOffset, Zoned
  <1> HIDE DEF m
  <1> QED BY SMT, <1>4, <1>5 DEF Exact, Zoned, m

-----------------------------------------------------------------------------
(* The wire *)

\* A Datetime, written out.
LEMMA MomentIs ==
  ASSUME Dt!DatetimeBounds, NEW m
  PROVE  m \in Dt!Moment <=> /\ m = [epoch |-> m.epoch, nsec |-> m.nsec, offset |-> m.offset, index |-> m.index]
                             /\ Exact(m, m.epoch * Nanos + m.nsec)
                             /\ m.offset \in Dt!Carried
                             /\ m.index \in Indexes \cup {0}
  <1>0. I64Max \in Nat /\ Nanos \in Nat /\ Nanos > 0
    BY Numbers
  <1>1. \A e : e \in Dt!I64 <=> e \in Int /\ -(I64Max + 1) <= e /\ e <= I64Max
    BY SMT, <1>0 DEF Dt!I64, Dt!I64Min
  <1>2. \A r : r \in 0 .. Nanos - 1 <=> r \in Int /\ 0 <= r /\ r < Nanos
    BY SMT, <1>0
  <1>3. m \in Dt!Moment <=> /\ m = [epoch |-> m.epoch, nsec |-> m.nsec, offset |-> m.offset, index |-> m.index]
                            /\ m.epoch \in Dt!I64 /\ m.nsec \in 0 .. Nanos - 1
                            /\ m.offset \in Dt!Carried
                            /\ m.index \in Indexes \cup {0}
    BY SMT DEF Dt!Moment
  <1> QED BY SMT, <1>1, <1>2, <1>3 DEF Exact

\* A Datetime with a zone.
LEMMA ZonedIsMoment ==
  ASSUME Dt!DatetimeBounds, NEW m, NEW t, Exact(m, t), NEW o \in Dt!Carried, NEW i \in Indexes \cup {0},
         Zoned(m, o, i)
  PROVE  m \in Dt!Moment /\ m.offset = o /\ m.index = i
  <1>1. m.offset = o /\ m.index = i
    BY SMT DEF Zoned
  <1>2. Exact(m, m.epoch * Nanos + m.nsec)
    BY Zenon DEF Exact
  <1>3. m = [epoch |-> m.epoch, nsec |-> m.nsec, offset |-> m.offset, index |-> m.index]
    BY SMT, <1>1 DEF Zoned
  <1> QED BY Zenon, <1>1, <1>2, <1>3, MomentIs

LEMMA CarriedIsInt ==
  ASSUME Dt!DatetimeBounds
  PROVE  Dt!Carried \subseteq Int /\ 0 \in Dt!Carried /\ Indexes \subseteq Dt!Carried
  <1>0. Minute \in Nat /\ Minute > 0 /\ Indexes \subseteq Int /\ Zones \subseteq -ZoneMax .. ZoneMax
    BY Numbers
  <1>1. \A z \in Zones : Dt!Quotient(z, Minute) \in Int
    <2> SUFFICES ASSUME NEW z \in Zones PROVE Dt!Quotient(z, Minute) \in Int
      OBVIOUS
    <2>1. z \in Int
      BY SMT, <1>0
    <2> QED BY Zenon, <1>0, <2>1, QuotientLeaves
  <1>2. 0 \in Int
    BY SMT
  <1>3. Dt!Carried \subseteq Int
    BY Zenon, <1>0, <1>1, <1>2 DEF Dt!Carried
  <1> QED BY Zenon, <1>3 DEF Dt!Carried

\* to_payload writes what from_payload reads back.
LEMMA WireInverts ==
  ASSUME Dt!DatetimeBounds, NEW m \in Dt!Moment
  PROVE  Dt!FromPayload(Dt!ToPayload(m)) = {m} /\ Dt!ToPayload(m) \in Dt!Payload
  <1>0. I64Max \in Nat /\ Nanos \in Nat /\ Nanos > 0
    BY Numbers
  <1>1. /\ m = [epoch |-> m.epoch, nsec |-> m.nsec, offset |-> m.offset, index |-> m.index]
        /\ Exact(m, m.epoch * Nanos + m.nsec) /\ m.offset \in Dt!Carried /\ m.index \in Indexes \cup {0}
    BY Zenon, MomentIs
  <1>2. m.epoch \in Dt!I64 /\ m.nsec \in 0 .. 2 * Nanos /\ m.nsec < Nanos /\ 0 \in 0 .. 2 * Nanos
    BY SMT, <1>0, <1>1 DEF Exact, Dt!I64, Dt!I64Min
  <1> DEFINE p == Dt!ToPayload(m)
  <1>3. CASE m.nsec # 0 \/ m.offset # 0 \/ m.index # 0
    <2>1. p = [size |-> 16, epoch |-> m.epoch, nsec |-> m.nsec, offset |-> m.offset, index |-> m.index]
      BY Zenon, <1>3 DEF Dt!ToPayload
    <2> HIDE DEF p
    <2>2. /\ p.size = 16 /\ p.size # 8 /\ p.epoch = m.epoch /\ p.nsec = m.nsec /\ p.offset = m.offset
          /\ p.index = m.index /\ p.nsec < Nanos
      BY SMT, <1>2, <2>1
    <2>3. Dt!FromPayload(p) = {[epoch |-> p.epoch, nsec |-> p.nsec, offset |-> p.offset, index |-> p.index]}
      BY Zenon, <2>2 DEF Dt!FromPayload
    <2>4. p \in Dt!Payload
      BY SMT, <1>1, <1>2, <2>1 DEF Dt!Payload
    <2> QED BY Zenon, <1>1, <2>2, <2>3, <2>4 DEF p
  <1>4. CASE m.nsec = 0 /\ m.offset = 0 /\ m.index = 0
    <2>1. p = [size |-> 8, epoch |-> m.epoch, nsec |-> 0, offset |-> 0, index |-> 0]
      BY Zenon, <1>4 DEF Dt!ToPayload
    <2> HIDE DEF p
    <2>2. p.size = 8 /\ p.epoch = m.epoch
      BY SMT, <2>1
    <2>3. Dt!FromPayload(p) = {Dt!FromUnix(m.epoch, 0)}
      BY SMT, <2>2 DEF Dt!FromPayload
    <2>4. 0 \div Nanos = 0 /\ 0 % Nanos = 0
      BY SMT, <1>0
    <2>5. Dt!Saturate(m.epoch + 0) = m.epoch
      BY SMT, <1>0, <1>1 DEF Exact, Dt!Saturate, Dt!I64Min
    <2>6. Dt!FromUnix(m.epoch, 0) = [epoch |-> m.epoch, nsec |-> 0, offset |-> 0, index |-> 0]
      BY Zenon, <2>4, <2>5 DEF Dt!FromUnix
    <2>7. Dt!FromUnix(m.epoch, 0) = m
      BY Zenon, <1>1, <1>4, <2>6
    <2>8. p \in Dt!Payload
      BY SMT, <1>1, <1>2, <1>4, <2>1 DEF Dt!Payload
    <2> QED BY Zenon, <2>3, <2>7, <2>8 DEF p
  <1> QED BY Zenon, <1>3, <1>4

\* from_payload makes a Datetime or refuses, whatever arrives.
LEMMA ReadIsMoment ==
  ASSUME Dt!DatetimeBounds, NEW p \in Dt!Payload, NEW m \in Dt!FromPayload(p)
  PROVE  m \in Dt!Moment
  <1>0. I64Max \in Nat /\ Nanos \in Nat /\ Nanos > 0
    BY Numbers
  <1>1. /\ p.size \in {8, 16, 12} /\ p.epoch \in Dt!I64 /\ p.nsec \in 0 .. 2 * Nanos
        /\ p.offset \in Dt!Carried /\ p.index \in Indexes \cup {0}
    BY SMT DEF Dt!Payload
  <1>2. p.epoch \in Int /\ 0 \in Nat /\ 0 \in Dt!Carried /\ 0 \in Indexes \cup {0}
    BY SMT, <1>0, <1>1, CarriedIsInt DEF Dt!I64, Dt!I64Min
  <1>3. CASE p.size = 8
    <2>1. m = Dt!FromUnix(p.epoch, 0)
      BY SMT, <1>3 DEF Dt!FromPayload
    <2>2. Zoned(m, 0, 0) /\ Exact(m, m.epoch * Nanos + m.nsec)
      BY Zenon, <1>2, <2>1, FromUnixMakes
    <2> QED BY Zenon, <1>2, <2>2, ZonedIsMoment
  <1>4. CASE p.size # 8
    <2>0. p.size = 16 /\ p.nsec < Nanos
      BY Zenon, <1>4 DEF Dt!FromPayload
    <2>1. m = [epoch |-> p.epoch, nsec |-> p.nsec, offset |-> p.offset, index |-> p.index]
      BY Zenon, <1>4, <2>0 DEF Dt!FromPayload
    <2>2. p.nsec \in 0 .. Nanos - 1
      BY SMT, <1>0, <1>1, <2>0
    <2> QED BY SMT, <1>1, <2>1, <2>2 DEF Dt!Moment
  <1> QED BY Zenon, <1>3, <1>4

-----------------------------------------------------------------------------
(* The way of an instant *)

Instant(m) == m.epoch * Nanos + m.nsec
Made == {"moment", "payload", "back", "again", "refused", "panic", "given"}
Passed == {"back", "again", "refused", "panic", "given"}

\* What CrateRoundTrip says of zones and of instants without a value.
ZoneKept ==
  /\ stage = "moment" => zone - moment.offset * Minute \in 1 - Minute .. Minute - 1 \/ zone = 0
  /\ stage = "given" => zone = moment.offset * Minute
  /\ stage = "refused" =>
       time \notin Dt!CrateTime \/ moment.offset * Minute \notin -ZoneMax .. ZoneMax
  /\ stage = "panic" /\ time # Dt!I64Min * Nanos =>
       /\ time \in Dt!CrateTime /\ moment.offset * Minute \in -ZoneMax .. ZoneMax
       /\ time + moment.offset * Minute * Nanos \notin Dt!CrateTime

\* The inductive invariant: the Datetime is the instant converted, on the wire it
\* is written as to_payload does, and what was read is what was written.
Passage == /\ Dt!DatetimeBounds
           /\ Dt!TypeOK
           /\ stage = "time" => zone = 0
           /\ stage \in Made /\ time # Dt!I64Min * Nanos => time = Instant(moment)
           /\ stage = "payload" => payload = Dt!ToPayload(moment)
           /\ stage \in Passed => back = moment
           /\ stage \in {"again", "given"} => again = Instant(moment)
           /\ ZoneKept

LEMMA MomentInstant ==
  ASSUME Dt!DatetimeBounds, NEW m \in Dt!Moment
  PROVE  /\ Exact(m, Instant(m)) /\ Instant(m) \in Dt!SystemTime
         /\ Dt!ToSystemTime(m) = Instant(m)
  <1>0. I64Max \in Nat /\ Nanos \in Nat /\ Nanos > 0
    BY Numbers
  <1>1. Exact(m, Instant(m))
    BY Zenon, MomentIs DEF Instant
  <1>2. m.epoch \in Int /\ m.nsec \in Int /\ 0 <= m.nsec /\ m.nsec < Nanos /\ -(I64Max + 1) <= m.epoch /\ m.epoch <= I64Max
    BY Zenon, <1>1 DEF Exact
  <1>3. Instant(m) \in Dt!SystemTime
    BY Zenon, <1>2, InRange DEF Instant
  <1>4. -((-m.epoch) * Nanos) = m.epoch * Nanos
    BY SMT, <1>0, <1>2
  <1>5. Dt!ToSystemTime(m) = Instant(m)
    BY SMT, <1>0, <1>2, <1>4 DEF Dt!ToSystemTime, Instant
  <1> QED BY Zenon, <1>1, <1>3, <1>5

LEMMA PassageBegins == Dt!DatetimeBounds /\ Dt!Init => Passage
  <1> SUFFICES ASSUME Dt!DatetimeBounds, Dt!Init PROVE Passage
    OBVIOUS
  <1>1. 0 \in Int /\ 0 \in Nat
    BY SMT
  <1> DEFINE m == Dt!FromUnix(0, 0)
  <1>2. Zoned(m, 0, 0) /\ Exact(m, m.epoch * Nanos + m.nsec)
    BY Zenon, <1>1, FromUnixMakes
  <1>3. 0 \in Dt!Carried /\ 0 \in Indexes \cup {0}
    BY Zenon, CarriedIsInt
  <1> HIDE DEF m
  <1>4. m \in Dt!Moment
    BY Zenon, <1>2, <1>3, ZonedIsMoment
  <1>5. Dt!ToPayload(m) \in Dt!Payload
    BY Zenon, <1>4, WireInverts
  <1>6. 0 \in Dt!SystemTime
    <2>1. I64Max \in Nat /\ Nanos \in Nat /\ Nanos > 0
      BY Numbers
    <2>2. I64Max * Nanos \in Nat /\ (I64Max + 1) * Nanos \in Nat /\ (-(I64Max + 1)) * Nanos = -((I64Max + 1) * Nanos)
      BY SMT, <2>1
    <2> QED BY SMT, <2>1, <2>2 DEF Dt!SystemTime, Dt!I64Min
  <1>7. /\ time \in Dt!SystemTime /\ stage = "time" /\ moment = m /\ payload = Dt!ToPayload(m) /\ back = m
        /\ again = 0 /\ zone = 0
    BY Zenon DEF Dt!Init, m
  <1>8. Dt!TypeOK
    BY Zenon, <1>1, <1>4, <1>5, <1>6, <1>7 DEF Dt!TypeOK
  <1> QED BY Zenon, <1>7, <1>8 DEF Passage, Made, Passed, ZoneKept

LEMMA ConvertKeeps == Passage /\ Dt!Convert => Passage'
  <1> SUFFICES ASSUME Passage, Dt!Convert PROVE Passage'
    OBVIOUS
  <1>0. Dt!DatetimeBounds /\ Dt!TypeOK /\ stage = "time" /\ zone = 0 /\ time \in Dt!SystemTime
    BY Zenon DEF Passage, Dt!Convert, Dt!TypeOK
  <1>1. PICK o \in Indexes, i \in Indexes :
          moment' = Dt!WithTzIndex(Dt!WithTzOffset(Dt!FromSystemTime(time), o), i)
    BY Zenon DEF Dt!Convert
  <1>2. stage' = "moment" /\ UNCHANGED <<time, payload, back, again, zone>>
    BY Zenon DEF Dt!Convert
  <1> DEFINE m == Dt!FromSystemTime(time)
  <1>3. Zoned(m, 0, 0) /\ Exact(m, m.epoch * Nanos + m.nsec)
    BY Zenon, <1>0, FromSystemTimeMakes
  <1>4. time # Dt!I64Min * Nanos => Exact(m, time)
    BY Zenon, <1>0, FromSystemTimeExact
  <1> HIDE DEF m
  <1>5. moment' = [epoch |-> m.epoch, nsec |-> m.nsec, offset |-> o, index |-> i]
    BY SMT, <1>1 DEF Dt!WithTzIndex, Dt!WithTzOffset, m
  <1>6. moment'.epoch = m.epoch /\ moment'.nsec = m.nsec /\ Zoned(moment', o, i)
    BY SMT, <1>5 DEF Zoned
  <1>7. Exact(moment', m.epoch * Nanos + m.nsec) /\ o \in Dt!Carried /\ i \in Indexes \cup {0}
    BY Zenon, <1>0, <1>1, <1>3, <1>6, CarriedIsInt DEF Exact
  <1>8. moment' \in Dt!Moment
    BY Zenon, <1>0, <1>6, <1>7, ZonedIsMoment
  <1>9. time' # Dt!I64Min * Nanos => time' = Instant(moment)'
    BY Zenon, <1>2, <1>4, <1>6 DEF Exact, Instant
  <1>10. Dt!TypeOK'
    BY Zenon, <1>0, <1>2, <1>8 DEF Dt!TypeOK
  <1> QED BY Zenon, <1>0, <1>2, <1>9, <1>10 DEF Passage, Made, Passed, ZoneKept

LEMMA BuildKeeps == Passage /\ Dt!Build => Passage'
  <1> SUFFICES ASSUME Passage, Dt!Build PROVE Passage'
    OBVIOUS
  <1>0. Dt!DatetimeBounds /\ Dt!TypeOK /\ stage = "time" /\ zone = 0
    BY Zenon DEF Passage, Dt!Build
  <1>1. PICK s \in Dt!I64, n \in 0 .. 2 * Nanos : /\ s * Nanos + n \in Dt!SystemTime
                                                 /\ time' = s * Nanos + n
                                                 /\ moment' = Dt!FromUnix(s, n)
    BY Zenon DEF Dt!Build
  <1>2. stage' = "moment" /\ UNCHANGED <<payload, back, again, zone>>
    BY Zenon DEF Dt!Build
  <1>3. s \in Int /\ n \in Nat
    BY SMT, <1>0, Numbers DEF Dt!I64, Dt!I64Min
  <1>4. Exact(moment', time') /\ Zoned(moment', 0, 0)
    BY Zenon, <1>0, <1>1, <1>3, FromUnixExact
  <1>5. 0 \in Dt!Carried /\ 0 \in Indexes \cup {0}
    BY Zenon, <1>0, CarriedIsInt
  <1>6. moment' \in Dt!Moment
    BY Zenon, <1>0, <1>4, <1>5, ZonedIsMoment
  <1>7. time' = Instant(moment)'
    BY Zenon, <1>4 DEF Exact, Instant
  <1>8. Dt!TypeOK'
    BY Zenon, <1>0, <1>1, <1>2, <1>6 DEF Dt!TypeOK
  <1> QED BY Zenon, <1>0, <1>2, <1>7, <1>8 DEF Passage, Made, Passed, ZoneKept

LEMMA ImportKeeps ==
  ASSUME NEW crate \in Dt!Crate, Passage, Dt!Import(crate)
  PROVE  Passage'
  <1>0. Dt!DatetimeBounds /\ Dt!TypeOK /\ time \in Dt!CrateTime
    BY Zenon DEF Passage, Dt!Import
  <1>1. PICK parts \in Dt!Parts(crate, time), z \in Zones : moment' = Dt!FromCrate(parts, z) /\ zone' = z
    BY Zenon DEF Dt!Import
  <1>2. stage' = "moment" /\ UNCHANGED <<time, payload, back, again>>
    BY Zenon DEF Dt!Import
  <1>3. Exact(moment', time) /\ Zoned(moment', Dt!Quotient(z, Minute), 0)
    BY Zenon, <1>0, <1>1, FromCrateExact
  <1>4. Dt!Quotient(z, Minute) \in Dt!Carried /\ 0 \in Indexes \cup {0}
    BY Zenon, <1>1 DEF Dt!Carried
  <1>5. moment' \in Dt!Moment /\ moment'.offset = Dt!Quotient(z, Minute)
    BY Zenon, <1>0, <1>3, <1>4, ZonedIsMoment
  <1>6. Minute \in Nat /\ Minute > 0 /\ z \in Int
    BY SMT, <1>0, <1>1, Numbers
  <1>7. zone' \in Int
    BY Zenon, <1>1, <1>6
  <1>8. zone' - moment'.offset * Minute \in 1 - Minute .. Minute - 1
    <2> DEFINE q == Dt!Quotient(z, Minute)
    <2>1. q \in Int /\ 1 - Minute <= z - q * Minute /\ z - q * Minute <= Minute - 1
      BY Zenon, <1>6, QuotientLeaves
    <2> HIDE DEF q
    <2>2. z - q * Minute \in 1 - Minute .. Minute - 1
      BY SMT, <1>6, <2>1
    <2> QED BY Zenon, <1>1, <1>5, <2>2 DEF q
  <1>9. time' = Instant(moment)'
    BY Zenon, <1>2, <1>3 DEF Exact, Instant
  <1>10. Dt!TypeOK'
    BY Zenon, <1>0, <1>2, <1>5, <1>7 DEF Dt!TypeOK
  <1> QED BY Zenon, <1>0, <1>2, <1>8, <1>9, <1>10 DEF Passage, Made, Passed, ZoneKept

LEMMA ArriveKeeps == Passage /\ Dt!Arrive => Passage'
  BY Zenon DEF Passage, Dt!Arrive, Dt!TypeOK, Made, Passed, ZoneKept

LEMMA SerializeKeeps == Passage /\ Dt!Serialize => Passage'
  <1> SUFFICES ASSUME Passage, Dt!Serialize PROVE Passage'
    OBVIOUS
  <1>1. Dt!DatetimeBounds /\ Dt!TypeOK /\ moment \in Dt!Moment
    BY Zenon DEF Passage, Dt!TypeOK
  <1>2. stage = "moment" /\ stage' = "payload" /\ payload' = Dt!ToPayload(moment)
        /\ UNCHANGED <<time, moment, back, again, zone>>
    BY Zenon DEF Dt!Serialize
  <1>3. payload' \in Dt!Payload
    BY Zenon, <1>1, <1>2, WireInverts
  <1>4. Dt!TypeOK'
    BY Zenon, <1>1, <1>2, <1>3 DEF Dt!TypeOK
  <1>5. time # Dt!I64Min * Nanos => time = Instant(moment)
    BY Zenon, <1>2 DEF Passage, Made
  <1>6. Instant(moment)' = Instant(moment)
    BY Zenon, <1>2 DEF Instant
  <1>7. payload' = Dt!ToPayload(moment)'
    BY Zenon, <1>2 DEF Dt!ToPayload
  <1> QED BY Zenon, <1>1, <1>2, <1>4, <1>5, <1>6, <1>7 DEF Passage, Made, Passed, ZoneKept

LEMMA DeserializeKeeps == Passage /\ Dt!Deserialize => Passage'
  <1> SUFFICES ASSUME Passage, Dt!Deserialize PROVE Passage'
    OBVIOUS
  <1>1. Dt!DatetimeBounds /\ Dt!TypeOK /\ moment \in Dt!Moment /\ payload \in Dt!Payload
    BY Zenon DEF Passage, Dt!TypeOK
  <1>2. /\ stage \in {"payload", "arrived"} /\ stage' = (IF stage = "payload" THEN "back" ELSE "read")
        /\ back' \in Dt!FromPayload(payload)
        /\ UNCHANGED <<time, moment, payload, again, zone>>
    BY Zenon DEF Dt!Deserialize
  <1>3. back' \in Dt!Moment
    BY Zenon, <1>1, <1>2, ReadIsMoment
  <1>4. stage = "payload" => back' = moment
    BY Zenon, <1>1, <1>2, WireInverts DEF Passage
  <1>5. Dt!TypeOK'
    BY Zenon, <1>1, <1>2, <1>3 DEF Dt!TypeOK
  <1>6. stage = "payload" => (time # Dt!I64Min * Nanos => time = Instant(moment))
    BY Zenon DEF Passage, Made
  <1>7. Instant(moment)' = Instant(moment)
    BY Zenon, <1>2 DEF Instant
  <1>8. CASE stage = "payload"
    BY Zenon, <1>1, <1>2, <1>4, <1>5, <1>6, <1>7, <1>8 DEF Passage, Made, Passed, ZoneKept
  <1>9. CASE stage # "payload"
    BY Zenon, <1>1, <1>2, <1>5, <1>9 DEF Passage, Made, Passed, ZoneKept
  <1> QED BY Zenon, <1>8, <1>9

LEMMA ReturnKeeps == Passage /\ Dt!Return => Passage'
  <1> SUFFICES ASSUME Passage, Dt!Return PROVE Passage'
    OBVIOUS
  <1>1. stage = "back" /\ stage' = "again" /\ again' = Dt!ToSystemTime(back)
        /\ UNCHANGED <<time, moment, payload, back, zone>>
    BY Zenon DEF Dt!Return
  <1>2. /\ Dt!DatetimeBounds /\ Dt!TypeOK /\ moment \in Dt!Moment /\ back = moment
        /\ time # Dt!I64Min * Nanos => time = Instant(moment)
    BY Zenon, <1>1 DEF Passage, Dt!TypeOK, Made, Passed
  <1>3. again' = Instant(moment) /\ again' \in Dt!SystemTime
    BY Zenon, <1>1, <1>2, MomentInstant
  <1>4. Instant(moment)' = Instant(moment)
    BY Zenon, <1>1 DEF Instant
  <1>5. Dt!TypeOK'
    BY Zenon, <1>1, <1>2, <1>3 DEF Dt!TypeOK
  <1> QED BY Zenon, <1>1, <1>2, <1>3, <1>4, <1>5 DEF Passage, Made, Passed, ZoneKept

\* Nothing is refused that the crate could hold, and a panic is a local time that
\* it could not.
LEMMA RefusedForRange ==
  ASSUME Dt!DatetimeBounds, NEW crate \in Dt!Crate, NEW m \in Dt!Moment, NEW t \in Dt!SystemTime,
         t # Dt!I64Min * Nanos => t = Instant(m)
  PROVE  /\ Dt!ToCrate(crate, m) = "refused" =>
              t \notin Dt!CrateTime \/ m.offset * Minute \notin -ZoneMax .. ZoneMax
         /\ Dt!ToCrate(crate, m) = "panic" /\ t # Dt!I64Min * Nanos =>
              /\ t \in Dt!CrateTime /\ m.offset * Minute \in -ZoneMax .. ZoneMax
              /\ t + m.offset * Minute * Nanos \notin Dt!CrateTime
  <1> DEFINE z == m.offset * Minute
             i == Instant(m)
  <1>1. /\ Dt!ToCrate(crate, m) = "refused" => i \notin Dt!CrateTime \/ z \notin -ZoneMax .. ZoneMax
        /\ Dt!ToCrate(crate, m) = "panic" =>
             i \in Dt!CrateTime /\ z \in -ZoneMax .. ZoneMax /\ i + z * Nanos \notin Dt!CrateTime
    BY Zenon DEF Dt!ToCrate, Instant
  <1>2. CASE t = Dt!I64Min * Nanos
    <2>1. t \notin Dt!CrateTime
      BY Zenon, <1>2, CrateInRange
    <2> QED BY Zenon, <1>2, <2>1
  <1>3. CASE t # Dt!I64Min * Nanos
    BY Zenon, <1>1, <1>3
  <1> QED BY Zenon, <1>2, <1>3

LEMMA ExportKeeps ==
  ASSUME NEW crate \in Dt!Crate, Passage, Dt!Export(crate)
  PROVE  Passage'
  <1>1. /\ stage = "back" /\ stage' = Dt!ToCrate(crate, back)
        /\ IF stage' = "given" THEN again' = Instant(back) /\ zone' = back.offset * Minute
           ELSE UNCHANGED <<again, zone>>
        /\ UNCHANGED <<time, moment, payload, back>>
    BY Zenon DEF Dt!Export, Instant
  <1>2. /\ Dt!DatetimeBounds /\ Dt!TypeOK /\ moment \in Dt!Moment /\ back = moment /\ time \in Dt!SystemTime
        /\ time # Dt!I64Min * Nanos => time = Instant(moment)
    BY Zenon, <1>1 DEF Passage, Dt!TypeOK, Made, Passed
  <1>3. stage' \in {"refused", "panic", "given"}
    BY Zenon, <1>1 DEF Dt!ToCrate
  <1>4. moment.offset \in Int /\ Minute \in Nat /\ Instant(moment) \in Dt!SystemTime
    <2>1. moment.offset \in Dt!Carried
      BY Zenon, <1>2, MomentIs
    <2> QED BY Zenon, <1>2, <2>1, CarriedIsInt, Numbers, MomentInstant
  <1>5. moment.offset * Minute \in Int
    BY SMT, <1>4
  <1>6. Instant(moment)' = Instant(moment)
    BY Zenon, <1>1 DEF Instant
  <1>7. CASE stage' = "given"
    <2>1. again' = Instant(moment) /\ zone' = moment.offset * Minute
      BY Zenon, <1>1, <1>2, <1>7
    <2>2. Dt!TypeOK'
      BY Zenon, <1>1, <1>2, <1>4, <1>5, <1>7, <2>1 DEF Dt!TypeOK
    <2> QED BY Zenon, <1>1, <1>2, <1>6, <1>7, <2>1, <2>2 DEF Passage, Made, Passed, ZoneKept
  <1>8. CASE stage' # "given"
    <2>1. UNCHANGED <<again, zone>>
      BY Zenon, <1>1, <1>8
    <2>2. Dt!TypeOK'
      BY Zenon, <1>1, <1>2, <1>3, <2>1 DEF Dt!TypeOK
    <2>3. /\ stage' = "refused" =>
               time \notin Dt!CrateTime \/ moment.offset * Minute \notin -ZoneMax .. ZoneMax
          /\ stage' = "panic" /\ time # Dt!I64Min * Nanos =>
               /\ time \in Dt!CrateTime /\ moment.offset * Minute \in -ZoneMax .. ZoneMax
               /\ time + moment.offset * Minute * Nanos \notin Dt!CrateTime
      BY Zenon, <1>1, <1>2, <1>8, RefusedForRange
    <2>4. ZoneKept'
      BY Zenon, <1>1, <1>3, <1>8, <2>3 DEF ZoneKept
    <2> QED BY Zenon, <1>1, <1>2, <1>3, <1>6, <1>8, <2>2, <2>4 DEF Passage, Made, Passed
  <1> QED BY Zenon, <1>7, <1>8

LEMMA PassageGoesOn == Passage /\ [Dt!Next]_Dt!vars => Passage'
  <1> SUFFICES ASSUME Passage, [Dt!Next]_Dt!vars PROVE Passage'
    OBVIOUS
  <1>1. CASE UNCHANGED Dt!vars
    BY Zenon, <1>1 DEF Passage, Dt!TypeOK, Dt!vars, Made, Passed, ZoneKept, Instant, Dt!ToPayload
  <1>2. ASSUME NEW crate \in Dt!Crate, Dt!Import(crate) \/ Dt!Export(crate) PROVE Passage'
    BY Zenon, <1>2, ImportKeeps, ExportKeeps
  <1> QED BY Zenon, <1>1, <1>2, ConvertKeeps, BuildKeeps, ArriveKeeps, SerializeKeeps, DeserializeKeeps,
             ReturnKeeps DEF Dt!Next

\* Datetimes are ordered as the instants they are.
LEMMA ExactOrder ==
  ASSUME Dt!DatetimeBounds, NEW m, NEW t, NEW n, NEW u, Exact(m, t), Exact(n, u)
  PROVE  (t < u <=> Dt!Before(m, n)) /\ (t < u <=> u > t)
  <1> DEFINE a == m.epoch
             r == m.nsec
             b == n.epoch
             s == n.nsec
  <1>1. /\ a \in Int /\ r \in Int /\ 0 <= r /\ r < Nanos /\ t = a * Nanos + r
        /\ b \in Int /\ s \in Int /\ 0 <= s /\ s < Nanos /\ u = b * Nanos + s
        /\ Nanos \in Nat
    BY Zenon, Numbers DEF Exact
  <1>2. Dt!Before(m, n) <=> a < b \/ (a = b /\ r < s)
    BY Zenon DEF Dt!Before
  <1> HIDE DEF a, r, b, s
  <1>3. a * Nanos + r < b * Nanos + s <=> a < b \/ (a = b /\ r < s)
    BY Zenon, <1>1, Lexical
  <1>4. t \in Int /\ u \in Int
    BY SMT, <1>1
  <1> QED BY SMT, <1>1, <1>2, <1>3, <1>4

LEMMA PassageKeepsOrder ==
  ASSUME Passage, stage = "moment", time # Dt!I64Min * Nanos,
         NEW t \in Dt!SystemTime, t # Dt!I64Min * Nanos
  PROVE  /\ t < time => Dt!Before(Dt!FromSystemTime(t), moment)
         /\ t > time => Dt!Before(moment, Dt!FromSystemTime(t))
  <1>0. Dt!DatetimeBounds /\ moment \in Dt!Moment /\ time = Instant(moment)
    BY Zenon DEF Passage, Dt!TypeOK, Made
  <1>1. Exact(Dt!FromSystemTime(t), t)
    BY Zenon, <1>0, FromSystemTimeExact
  <1>2. Exact(moment, time)
    BY Zenon, <1>0, MomentInstant
  <1> QED BY Zenon, <1>0, <1>1, <1>2, ExactOrder

LEMMA PassageSurvives == Passage => Dt!InstantsSurvive
  <1> SUFFICES ASSUME Passage PROVE Dt!InstantsSurvive
    OBVIOUS
  <1>1. Dt!DatetimeBounds /\ Dt!TypeOK /\ moment \in Dt!Moment
    BY Zenon DEF Passage, Dt!TypeOK
  <1>2. Dt!PayloadRoundTrip
    <2>1. stage = "payload" => Dt!FromPayload(payload) # {}
      BY Zenon, <1>1, WireInverts DEF Passage
    <2> QED BY Zenon, <2>1 DEF Passage, Passed, Dt!PayloadRoundTrip
  <1>3. Dt!SystemTimeRoundTrip
    BY Zenon DEF Passage, Made, Dt!SystemTimeRoundTrip
  <1>4. Dt!CrateRoundTrip
    BY Zenon DEF Passage, Made, ZoneKept, Dt!CrateRoundTrip
  <1>5. Dt!OrderKept
    BY Zenon, PassageKeepsOrder DEF Dt!OrderKept
  <1> QED BY Zenon, <1>1, <1>2, <1>3, <1>4, <1>5 DEF Dt!InstantsSurvive

\* A Datetime made of a SystemTime, of seconds and nanoseconds or of a value of
\* time, chrono or jiff gives that instant back after the wire, keeps its place
\* among other instants, and is refused only what is out of range: for an i64 of
\* any size, any fineness of a second and any range of the crates within it.
THEOREM Instants == Dt!DatetimeBounds /\ Spec => []InstantsSurvive
  <1> DEFINE Chosen == kind = "datetime" => Passage
  <1>1. Dt!DatetimeBounds /\ Init => Chosen
    BY Zenon, PassageBegins, KindsDiffer DEF Init
  <1>2. Chosen /\ [Next]_vars => Chosen'
    BY Zenon, PassageGoesOn, DatetimePart
  <1>3. Chosen => InstantsSurvive
    BY Zenon, PassageSurvives DEF InstantsSurvive
  <1> QED BY <1>1, <1>2, <1>3, PTL DEF Spec
=============================================================================
