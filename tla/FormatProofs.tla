---------------------------- MODULE FormatProofs ----------------------------
(***************************************************************************)
(* Theorems about the conversions of MCFormats: the timestamps of Clock go *)
(* on as Calendar does, the decoders of Onchain accept what they should of *)
(* any bytes, and the report of Simulate follows from the record it reads. *)
(***************************************************************************)
EXTENDS Onchain, Simulate, Clock, LineageProofs

-----------------------------------------------------------------------------
(***************************************************************************)
(* Clock: the dates follow each other as those of the calendar             *)
(***************************************************************************)

\* The days of an era before its year y, and of a year before its month m; years
\* begin with March, so that a leap day ends them.
YearStart(y) == 365 * y + y \div 4 - y \div 100 + y \div 400
MonthStart(m) == (153 * m + 2) \div 5

\* YearOfEra finds the year a day is in.
LEMMA YearFound ==
  ASSUME NEW day \in Int, 0 <= day, day <= 146096
  PROVE  /\ YearOfEra(day) \in Int /\ 0 <= YearOfEra(day) /\ YearOfEra(day) <= 399
         /\ YearStart(YearOfEra(day)) <= day /\ day < YearStart(YearOfEra(day) + 1)
<1>1. ASSUME NEW y \in Int,
             y = (day - day \div 1460 + day \div 36524 - day \div 146096) \div 365
      PROVE  /\ 0 <= y /\ y <= 399
             /\ 365 * y + y \div 4 - y \div 100 + y \div 400 <= day
             /\ day < 365 * (y + 1) + (y + 1) \div 4 - (y + 1) \div 100 + (y + 1) \div 400
  BY <1>1, SMTT(60)
<1>2. YearOfEra(day) \in Int
  BY DEF YearOfEra
<1> QED BY <1>1, <1>2 DEF YearOfEra, YearStart

\* A year of the era that holds a day is the one it finds.
LEMMA YearUnique ==
  ASSUME NEW day \in Int, NEW y \in Int, 0 <= y, y <= 399,
         YearStart(y) <= day, day < YearStart(y + 1)
  PROVE  0 <= day /\ day <= 146096 /\ YearOfEra(day) = y
<1>1. ASSUME NEW x \in Int,
             x = (day - day \div 1460 + day \div 36524 - day \div 146096) \div 365,
             365 * y + y \div 4 - y \div 100 + y \div 400 <= day,
             day < 365 * (y + 1) + (y + 1) \div 4 - (y + 1) \div 100 + (y + 1) \div 400
      PROVE  0 <= day /\ day <= 146096 /\ x = y
  BY <1>1, SMTT(100)
<1>2. YearOfEra(day) \in Int
  BY DEF YearOfEra
<1> QED BY <1>1, <1>2 DEF YearOfEra, YearStart

\* The month computed from a day of the year holds the day.
LEMMA MonthFound ==
  ASSUME NEW day \in Int, 0 <= day, day <= 365, NEW m \in Int, m = (5 * day + 2) \div 153
  PROVE  /\ 0 <= m /\ m <= 11 /\ MonthStart(m) <= day /\ day < MonthStart(m + 1)
BY DEF MonthStart

\* A month that holds a day of the year is the one computed.
LEMMA MonthUnique ==
  ASSUME NEW day \in Int, 0 <= day, day <= 365,
         NEW m \in Int, 0 <= m, m <= 11, MonthStart(m) <= day, day < MonthStart(m + 1)
  PROVE  (5 * day + 2) \div 153 = m
BY DEF MonthStart

\* Day number d is day k of month m of year y of an era.
Falls(d, era, y, m, k) ==
  /\ era \in Int /\ y \in Int /\ m \in Int /\ k \in Int
  /\ 0 <= y /\ y <= 399 /\ 0 <= m /\ m <= 11 /\ 0 <= k
  /\ MonthStart(m) + k < MonthStart(m + 1)
  /\ YearStart(y) + MonthStart(m) + k < YearStart(y + 1)
  /\ d = 146097 * era + YearStart(y) + MonthStart(m) + k - 719468

\* Every day number is a day of some era.
LEMMA EveryDayFalls ==
  ASSUME NEW d \in Int
  PROVE  \E era, y, m, k \in Int : Falls(d, era, y, m, k)
<1> DEFINE z == d + 719468
           era == z \div 146097
           day == z % 146097
           y == YearOfEra(day)
           doy == day - YearStart(y)
           m == (5 * doy + 2) \div 153
           k == doy - MonthStart(m)
<1>1. era \in Int /\ day \in Int /\ 0 <= day /\ day <= 146096 /\ d = 146097 * era + day - 719468
  OBVIOUS
<1> HIDE DEF era, day
<1>2. /\ y \in Int /\ 0 <= y /\ y <= 399 /\ YearStart(y) <= day /\ day < YearStart(y + 1)
  BY <1>1, YearFound
<1> HIDE DEF y
<1>3. YearStart(y) \in Int /\ YearStart(y + 1) \in Int /\ YearStart(y + 1) <= YearStart(y) + 366
  BY <1>2 DEF YearStart
<1>4. doy \in Int /\ 0 <= doy /\ doy <= 365 /\ day = YearStart(y) + doy
  BY <1>1, <1>2, <1>3
<1> HIDE DEF doy
<1>5. m \in Int
  BY <1>4
<1>6. 0 <= m /\ m <= 11 /\ MonthStart(m) <= doy /\ doy < MonthStart(m + 1)
  BY <1>4, <1>5, MonthFound
<1> HIDE DEF m
<1>7. MonthStart(m) \in Int /\ MonthStart(m + 1) \in Int
  BY <1>5 DEF MonthStart
<1>8. k \in Int /\ 0 <= k /\ MonthStart(m) + k = doy
  BY <1>4, <1>6, <1>7
<1> HIDE DEF k
<1>9. Falls(d, era, y, m, k)
  BY <1>1, <1>2, <1>3, <1>4, <1>5, <1>6, <1>7, <1>8 DEF Falls
<1> QED BY <1>1, <1>2, <1>5, <1>8, <1>9

\* Its date is the one computed.
DateOf(era, y, m, k) ==
  <<y + era * 400 + (IF m >= 10 THEN 1 ELSE 0), (IF m < 10 THEN m + 3 ELSE m - 9), k + 1>>

LEMMA DateFalls ==
  ASSUME NEW d \in Int, NEW era, NEW y, NEW m, NEW k, Falls(d, era, y, m, k)
  PROVE  CivilFromDays(d) = DateOf(era, y, m, k)
<1> DEFINE z == d + 719468
           day == YearStart(y) + MonthStart(m) + k
           doy == MonthStart(m) + k
<1>1. /\ era \in Int /\ y \in Int /\ m \in Int /\ k \in Int
      /\ 0 <= y /\ y <= 399 /\ 0 <= m /\ m <= 11 /\ 0 <= k
      /\ YearStart(y) \in Int /\ MonthStart(m) \in Int
      /\ YearStart(y + 1) \in Int /\ MonthStart(m + 1) \in Int
      /\ 0 <= MonthStart(m)
  BY DEF Falls, YearStart, MonthStart
<1>2. /\ day \in Int /\ YearStart(y) <= day /\ day < YearStart(y + 1)
      /\ z = 146097 * era + day
  BY <1>1 DEF Falls
<1> HIDE DEF z
<1>3. 0 <= day /\ day <= 146096 /\ YearOfEra(day) = y
  <2> HIDE DEF day
  <2> QED BY <1>1, <1>2, YearUnique
<1>4. z % 146097 = day /\ z \div 146097 = era
  <2> HIDE DEF day
  <2> QED BY <1>1, <1>2, <1>3
<1>5. YearStart(y) = 365 * y + y \div 4 - y \div 100
  <2>1. y \div 400 = 0
    BY <1>1
  <2> QED BY <1>1, <2>1 DEF YearStart
<1>6. day - (365 * y + y \div 4 - y \div 100) = doy
  BY <1>1, <1>5
<1>7. /\ doy \in Int /\ 0 <= doy /\ doy <= 365
      /\ MonthStart(m) <= doy /\ doy < MonthStart(m + 1)
  <2>1. YearStart(y + 1) <= YearStart(y) + 366
    BY <1>1 DEF YearStart
  <2> QED BY <1>1, <2>1 DEF Falls
<1>8. (5 * doy + 2) \div 153 = m
  <2> HIDE DEF doy
  <2> QED BY <1>1, <1>7, MonthUnique
<1>9. doy - (153 * m + 2) \div 5 + 1 = k + 1
  BY <1>1 DEF MonthStart
<1>10. Month(m) = (IF m < 10 THEN m + 3 ELSE m - 9) /\ (Month(m) <= 2 <=> m >= 10)
  BY <1>1 DEF Month
<1> HIDE DEF day, doy
<1>11. CivilFromDays(d)
         = <<y + era * 400 + (IF Month(m) <= 2 THEN 1 ELSE 0), Month(m), k + 1>>
  BY <1>3, <1>4, <1>6, <1>8, <1>9 DEF CivilFromDays, z
<1> QED BY <1>10, <1>11 DEF DateOf

\* The next day is the next of the month, the first of the next month, or the
\* first of March of the next year, which may begin an era.
LEMMA NextFalls ==
  ASSUME NEW d \in Int, NEW era, NEW y, NEW m, NEW k, Falls(d, era, y, m, k)
  PROVE  \/ /\ YearStart(y) + MonthStart(m) + k + 1 = YearStart(y + 1) /\ m = 11
            /\ IF y < 399 THEN Falls(d + 1, era, y + 1, 0, 0) ELSE Falls(d + 1, era + 1, 0, 0, 0)
         \/ /\ YearStart(y) + MonthStart(m) + k + 1 < YearStart(y + 1)
            /\ MonthStart(m) + k + 1 = MonthStart(m + 1) /\ m < 11
            /\ Falls(d + 1, era, y, m + 1, 0)
         \/ /\ YearStart(y) + MonthStart(m) + k + 1 < YearStart(y + 1)
            /\ MonthStart(m) + k + 1 < MonthStart(m + 1)
            /\ Falls(d + 1, era, y, m, k + 1)
<1>1. /\ era \in Int /\ y \in Int /\ m \in Int /\ k \in Int
      /\ 0 <= y /\ y <= 399 /\ 0 <= m /\ m <= 11 /\ 0 <= k
      /\ MonthStart(m) + k < MonthStart(m + 1)
      /\ YearStart(y) + MonthStart(m) + k < YearStart(y + 1)
      /\ d = 146097 * era + YearStart(y) + MonthStart(m) + k - 719468
  BY DEF Falls
<1>2. /\ YearStart(y) \in Int /\ YearStart(y + 1) \in Int /\ YearStart(y + 2) \in Int
      /\ YearStart(y + 1) >= YearStart(y) + 365 /\ YearStart(y + 2) >= YearStart(y + 1) + 365
      /\ (y = 399 => YearStart(y + 1) = 146097)
  BY <1>1 DEF YearStart
<1>3. /\ MonthStart(m) \in Int /\ MonthStart(m + 1) \in Int /\ MonthStart(m + 2) \in Int
      /\ MonthStart(m + 1) < MonthStart(m + 2)
      /\ (m < 11 => MonthStart(m + 1) <= 337) /\ (m = 11 => MonthStart(m + 1) = 367)
  BY <1>1 DEF MonthStart
<1>4. MonthStart(0) = 0 /\ MonthStart(1) = 31 /\ YearStart(0) = 0 /\ YearStart(1) = 365
  BY DEF MonthStart, YearStart
<1>5. CASE YearStart(y) + MonthStart(m) + k + 1 = YearStart(y + 1)
  <2>1. m = 11
    BY <1>1, <1>2, <1>3, <1>5
  <2>2. CASE y < 399
    <3>1. d + 1 = 146097 * era + YearStart(y + 1) + 0 + 0 - 719468
      BY <1>1, <1>2, <1>3, <1>5
    <3>2. YearStart(y + 1) + 0 + 0 < YearStart((y + 1) + 1) /\ 0 + 0 < MonthStart(0 + 1)
      <4>1. (y + 1) + 1 = y + 2
        BY <1>1
      <4> QED BY <1>2, <1>4, <4>1
    <3>3. Falls(d + 1, era, y + 1, 0, 0)
      BY <1>1, <1>4, <2>2, <3>1, <3>2 DEF Falls
    <3> QED BY <1>5, <2>1, <2>2, <3>3
  <2>3. CASE y = 399
    <3>1. d + 1 = 146097 * (era + 1) + 0 + 0 + 0 - 719468
      BY <1>1, <1>2, <1>3, <1>5, <2>3
    <3>2. Falls(d + 1, era + 1, 0, 0, 0)
      BY <1>1, <1>4, <3>1 DEF Falls
    <3> QED BY <1>5, <2>1, <2>3, <3>2
  <2> QED BY <1>1, <2>2, <2>3
<1>6. CASE YearStart(y) + MonthStart(m) + k + 1 < YearStart(y + 1)
           /\ MonthStart(m) + k + 1 = MonthStart(m + 1)
  <2>1. m < 11
    BY <1>1, <1>2, <1>3, <1>6 DEF YearStart
  <2>2. d + 1 = 146097 * era + YearStart(y) + MonthStart(m + 1) + 0 - 719468
    BY <1>1, <1>2, <1>3, <1>6
  <2>3. MonthStart(m + 1) + 0 < MonthStart((m + 1) + 1)
    <3>1. (m + 1) + 1 = m + 2
      BY <1>1
    <3> QED BY <1>3, <3>1
  <2>4. YearStart(y) + MonthStart(m + 1) + 0 < YearStart(y + 1)
    BY <1>1, <1>2, <1>3, <1>6
  <2>5. Falls(d + 1, era, y, m + 1, 0)
    BY <1>1, <2>1, <2>2, <2>3, <2>4 DEF Falls
  <2> QED BY <1>6, <2>1, <2>5
<1>7. CASE YearStart(y) + MonthStart(m) + k + 1 < YearStart(y + 1)
           /\ MonthStart(m) + k + 1 < MonthStart(m + 1)
  <2>1. /\ d + 1 = 146097 * era + YearStart(y) + MonthStart(m) + (k + 1) - 719468
        /\ MonthStart(m) + (k + 1) < MonthStart(m + 1)
        /\ YearStart(y) + MonthStart(m) + (k + 1) < YearStart(y + 1)
    BY <1>1, <1>2, <1>3, <1>7
  <2>2. Falls(d + 1, era, y, m, k + 1)
    BY <1>1, <2>1 DEF Falls
  <2> QED BY <1>7, <2>2
<1> QED BY <1>1, <1>2, <1>3, <1>5, <1>6, <1>7

\* The calendar's months are as long as those of the era, its Februaries too.
LEMMA MonthsAgree ==
  ASSUME NEW era \in Int, NEW y \in Int, 0 <= y, y <= 399, NEW m \in Int, 0 <= m, m <= 11
  PROVE  LET date == DateOf(era, y, m, 0) IN
         Civil!DaysIn(date[1], date[2]) =
           IF m = 11 THEN YearStart(y + 1) - YearStart(y) - MonthStart(11)
                     ELSE MonthStart(m + 1) - MonthStart(m)
<1> DEFINE Y == DateOf(era, y, m, 0)[1]
           M == DateOf(era, y, m, 0)[2]
<1>1. /\ Y = y + era * 400 + (IF m >= 10 THEN 1 ELSE 0)
      /\ M = (IF m < 10 THEN m + 3 ELSE m - 9)
  BY DEF DateOf
<1> HIDE DEF Y, M
<1>2. CASE m = 11
  <2>1. M = 2 /\ Y = (y + 1) + era * 400
    BY <1>1, <1>2
  <2>2. Civil!Leap(Y) <=> YearStart(y + 1) = YearStart(y) + 366
    <3>1. /\ Y % 4 = (y + 1) % 4 /\ Y % 100 = (y + 1) % 100 /\ Y % 400 = (y + 1) % 400
      BY <2>1
    <3>2. (YearStart(y + 1) = YearStart(y) + 366)
            <=> ((y + 1) % 4 = 0 /\ ((y + 1) % 100 = 0 => (y + 1) % 400 = 0))
      BY DEF YearStart
    <3> QED BY <3>1, <3>2 DEF Civil!Leap
  <2>3. YearStart(y + 1) = YearStart(y) + 366 \/ YearStart(y + 1) = YearStart(y) + 365
    BY DEF YearStart
  <2>4. MonthStart(11) = 337
    BY DEF MonthStart
  <2>5. Civil!DaysIn(Y, M) = IF Civil!Leap(Y) THEN 29 ELSE 28
    BY <2>1 DEF Civil!DaysIn
  <2>6. YearStart(y) \in Int
    BY DEF YearStart
  <2> QED BY <1>2, <2>2, <2>3, <2>4, <2>5, <2>6 DEF Y, M
<1>3. CASE m # 11
  <2>1. M \in {1, 3, 4, 5, 6, 7, 8, 9, 10, 11, 12}
    BY <1>1, <1>3
  <2>2. /\ M \in {4, 6, 9, 11} => Civil!DaysIn(Y, M) = 30
        /\ M \in {1, 3, 5, 7, 8, 10, 12} => Civil!DaysIn(Y, M) = 31
    BY <2>1 DEF Civil!DaysIn
  <2>3. m \in {1, 3, 6, 8} <=> M \in {4, 6, 9, 11}
    BY <1>1, <1>3
  <2>4. MonthStart(m + 1) - MonthStart(m) = IF m \in {1, 3, 6, 8} THEN 30 ELSE 31
    <3>1. m \in {0, 1, 2, 3, 4, 5, 6, 7, 8, 9, 10}
      BY <1>3
    <3> QED BY <3>1 DEF MonthStart
  <2> QED BY <1>3, <2>1, <2>2, <2>3, <2>4 DEF Y, M
<1> QED BY <1>2, <1>3

\* The date of the next day is the calendar's next date.
LEMMA DateGoesOn ==
  ASSUME NEW d \in Int
  PROVE  CivilFromDays(d + 1) = Civil!NextDay(CivilFromDays(d))
<1>1. PICK era, y, m, k \in Int : Falls(d, era, y, m, k)
  BY EveryDayFalls
<1> DEFINE Y == y + era * 400 + (IF m >= 10 THEN 1 ELSE 0)
           M == IF m < 10 THEN m + 3 ELSE m - 9
           last == Civil!DaysIn(Y, M)
<1>2. /\ 0 <= y /\ y <= 399 /\ 0 <= m /\ m <= 11 /\ 0 <= k
      /\ YearStart(y) \in Int /\ YearStart(y + 1) \in Int
      /\ MonthStart(m) \in Int /\ MonthStart(m + 1) \in Int /\ MonthStart(11) = 337
      /\ MonthStart(12) = 367 /\ YearStart(y + 1) <= YearStart(y) + 366
  BY <1>1 DEF Falls, YearStart, MonthStart
<1>3. CivilFromDays(d) = <<Y, M, k + 1>>
  BY <1>1, DateFalls DEF DateOf
<1>4. last = IF m = 11 THEN YearStart(y + 1) - YearStart(y) - MonthStart(11)
             ELSE MonthStart(m + 1) - MonthStart(m)
  <2>1. DateOf(era, y, m, 0)[1] = Y /\ DateOf(era, y, m, 0)[2] = M
    BY DEF DateOf
  <2> QED BY <1>2, <2>1, MonthsAgree
<1> HIDE DEF last
<1>5. Civil!NextDay(CivilFromDays(d)) =
        IF k + 1 < last THEN <<Y, M, (k + 1) + 1>>
        ELSE IF M < 12 THEN <<Y, M + 1, 1>> ELSE <<Y + 1, 1, 1>>
  BY <1>3 DEF Civil!NextDay, last
<1>6. CASE YearStart(y) + MonthStart(m) + k + 1 = YearStart(y + 1) /\ m = 11
           /\ IF y < 399 THEN Falls(d + 1, era, y + 1, 0, 0) ELSE Falls(d + 1, era + 1, 0, 0, 0)
  <2>1. ~(k + 1 < last) /\ M = 2 /\ Y = y + era * 400 + 1
    BY <1>2, <1>4, <1>6
  <2>2. CivilFromDays(d + 1) = <<Y, 3, 1>>
    <3>1. CASE y < 399
      <4>1. CivilFromDays(d + 1) = DateOf(era, y + 1, 0, 0)
        BY <1>6, <3>1, DateFalls
      <4> QED BY <1>2, <2>1, <4>1 DEF DateOf
    <3>2. CASE y = 399
      <4>1. CivilFromDays(d + 1) = DateOf(era + 1, 0, 0, 0)
        BY <1>6, <3>2, DateFalls
      <4> QED BY <1>2, <2>1, <3>2, <4>1 DEF DateOf
    <3> QED BY <1>2, <3>1, <3>2
  <2> QED BY <1>5, <2>1, <2>2
<1>7. CASE YearStart(y) + MonthStart(m) + k + 1 < YearStart(y + 1)
           /\ MonthStart(m) + k + 1 = MonthStart(m + 1) /\ m < 11
           /\ Falls(d + 1, era, y, m + 1, 0)
  <2>1. ~(k + 1 < last)
    BY <1>2, <1>4, <1>7
  <2>2. CivilFromDays(d + 1) = DateOf(era, y, m + 1, 0)
    BY <1>2, <1>7, DateFalls
  <2>3. DateOf(era, y, m + 1, 0) = IF M < 12 THEN <<Y, M + 1, 1>> ELSE <<Y + 1, 1, 1>>
    <3>1. CASE m < 9
      BY <1>2, <3>1 DEF DateOf
    <3>2. CASE m = 9
      BY <1>2, <3>2 DEF DateOf
    <3>3. CASE m = 10
      BY <1>2, <3>3 DEF DateOf
    <3> QED BY <1>2, <1>7, <3>1, <3>2, <3>3
  <2> QED BY <1>5, <2>1, <2>2, <2>3
<1>8. CASE YearStart(y) + MonthStart(m) + k + 1 < YearStart(y + 1)
           /\ MonthStart(m) + k + 1 < MonthStart(m + 1)
           /\ Falls(d + 1, era, y, m, k + 1)
  <2>1. k + 1 < last
    BY <1>2, <1>4, <1>8
  <2>2. CivilFromDays(d + 1) = DateOf(era, y, m, k + 1)
    BY <1>2, <1>8, DateFalls
  <2> QED BY <1>5, <2>1, <2>2 DEF DateOf
<1> QED BY <1>1, <1>6, <1>7, <1>8, NextFalls

\* The columns of a time of day, and the number of seconds they stand for.
LEMMA Columns ==
  ASSUME NEW h \in Int, 0 <= h, h <= 23, NEW m \in Int, 0 <= m, m <= 59,
         NEW x \in Int, 0 <= x, x <= 59, NEW u \in Int, u = 3600 * h + 60 * m + x
  PROVE  u \div 3600 = h /\ (u \div 60) % 60 = m /\ u % 60 = x /\ 0 <= u /\ u < 86400
<1>1. u \div 60 = 60 * h + m /\ u % 60 = x
  OBVIOUS
<1>2. (60 * h + m) % 60 = m
  OBVIOUS
<1>3. u \div 3600 = h
  OBVIOUS
<1> QED BY <1>1, <1>2, <1>3

\* Second u of a day shows as h hours, m minutes and x seconds.
Shows(u, h, m, x) ==
  /\ 0 <= h /\ h <= 23 /\ 0 <= m /\ m <= 59 /\ 0 <= x /\ x <= 59
  /\ u = 3600 * h + 60 * m + x

\* Every second of a day shows as some.
LEMMA ColumnsOf ==
  ASSUME NEW u \in Int, 0 <= u, u < 86400
  PROVE  \E h, m, x \in Int : Shows(u, h, m, x)
<1> DEFINE h == u \div 3600
           v == u % 3600
           m == v \div 60
           x == v % 60
<1>1. h \in Int /\ v \in Int /\ 0 <= h /\ h <= 23 /\ 0 <= v /\ v <= 3599 /\ u = 3600 * h + v
  OBVIOUS
<1> HIDE DEF h, v
<1>2. m \in Int /\ x \in Int /\ 0 <= m /\ m <= 59 /\ 0 <= x /\ x <= 59 /\ v = 60 * m + x
  BY <1>1
<1> HIDE DEF m, x
<1>3. Shows(u, h, m, x)
  BY <1>1, <1>2 DEF Shows
<1> QED BY <1>1, <1>2, <1>3

\* The columns x seconds, m minutes and h hours after second s of a day.
SecondsAt(s, x) == (s % 60) + x
MinutesAt(s, m, x) == ((s \div 60) % 60) + m + (SecondsAt(s, x) \div 60)
HoursAt(s, h, m, x) == (s \div 3600) + h + (MinutesAt(s, m, x) \div 60)

LEMMA Carry ==
  ASSUME NEW v \in Int, 0 <= v, v <= 119
  PROVE  /\ v \div 60 \in Int /\ v % 60 \in Int /\ v = 60 * (v \div 60) + (v % 60)
         /\ 0 <= v \div 60 /\ v \div 60 <= 1 /\ 0 <= v % 60 /\ v % 60 <= 59
OBVIOUS

\* Second t, counted from the day of second s, h hours, m minutes and x
\* seconds later, is the one the columns give with their carries.
GoesOn(s, h, m, x, t) ==
  /\ (t % 86400) \div 3600 = HoursAt(s, h, m, x) % 24
  /\ ((t % 86400) \div 60) % 60 = MinutesAt(s, m, x) % 60
  /\ (t % 86400) % 60 = SecondsAt(s, x) % 60
  /\ t \div 86400 = (IF HoursAt(s, h, m, x) < 24 THEN 0 ELSE 1)
  /\ t % 86400 \in Int /\ 0 <= t % 86400 /\ t % 86400 < 86400

\* Adding seconds adds them column by column.
LEMMA TimeGoesOn ==
  ASSUME NEW s \in Int, 0 <= s, s < 86400, NEW h \in Int, 0 <= h, h <= 23,
         NEW m \in Int, 0 <= m, m <= 59, NEW x \in Int, 0 <= x, x <= 59,
         NEW t \in Int, t = s + 3600 * h + 60 * m + x
  PROVE  GoesOn(s, h, m, x, t)
<1>0. PICK S \in Int, P \in Int, Q \in Int : Shows(s, S, P, Q)
  BY ColumnsOf
<1>1. /\ 0 <= S /\ S <= 23 /\ 0 <= P /\ P <= 59 /\ 0 <= Q /\ Q <= 59
      /\ s = 3600 * S + 60 * P + Q
  BY <1>0 DEF Shows
<1>2. s \div 3600 = S /\ (s \div 60) % 60 = P /\ s % 60 = Q
  BY <1>1, Columns
<1> DEFINE x1 == SecondsAt(s, x)
           xq == x1 \div 60
           xr == x1 % 60
           m1 == MinutesAt(s, m, x)
           mq == m1 \div 60
           mr == m1 % 60
           h1 == HoursAt(s, h, m, x)
           hr == h1 % 24
           u == t % 86400
<1>3. x1 = Q + x /\ m1 = P + m + xq /\ h1 = S + h + mq
  BY <1>2 DEF SecondsAt, MinutesAt, HoursAt
<1> HIDE DEF x1, m1, h1
<1>4. /\ x1 \in Int /\ xq \in Int /\ xr \in Int /\ x1 = 60 * xq + xr
      /\ 0 <= xq /\ xq <= 1 /\ 0 <= xr /\ xr <= 59
  <2>1. x1 \in Int /\ 0 <= x1 /\ x1 <= 119
    BY <1>1, <1>3
  <2> QED BY <2>1, Carry
<1> HIDE DEF xq, xr
<1>5. /\ m1 \in Int /\ mq \in Int /\ mr \in Int /\ m1 = 60 * mq + mr
      /\ 0 <= mq /\ mq <= 1 /\ 0 <= mr /\ mr <= 59
  <2>1. m1 \in Int /\ 0 <= m1 /\ m1 <= 119
    BY <1>1, <1>3, <1>4
  <2> QED BY <2>1, Carry
<1> HIDE DEF mq, mr
<1>6. h1 \in Int /\ 0 <= h1 /\ h1 <= 47 /\ t = 3600 * h1 + 60 * mr + xr
  BY <1>1, <1>3, <1>4, <1>5
<1>7. /\ hr \in Int /\ 0 <= hr /\ hr <= 23 /\ u \in Int /\ u = 3600 * hr + 60 * mr + xr
      /\ t \div 86400 = (IF h1 < 24 THEN 0 ELSE 1)
  <2>1. CASE h1 < 24
    <3>1. hr = h1
      BY <1>6, <2>1
    <3>2. 0 <= t /\ t < 86400
      BY <1>4, <1>5, <1>6, <2>1
    <3>3. u = t /\ t \div 86400 = 0
      BY <3>2
    <3> HIDE DEF hr, u
    <3> QED BY <1>6, <2>1, <3>1, <3>3
  <2>2. CASE h1 >= 24
    <3>1. hr = h1 - 24
      BY <1>6, <2>2
    <3>2. 86400 <= t /\ t < 2 * 86400
      BY <1>4, <1>5, <1>6, <2>2
    <3>3. u = t - 86400 /\ t \div 86400 = 1
      BY <3>2
    <3> HIDE DEF hr, u
    <3>4. hr \in Int /\ 0 <= hr /\ hr <= 23
      BY <1>6, <2>2, <3>1
    <3>5. u \in Int /\ u = 3600 * hr + 60 * mr + xr
      BY <1>4, <1>5, <1>6, <3>1, <3>3
    <3>6. ~(h1 < 24)
      BY <1>6, <2>2
    <3> QED BY <3>3, <3>4, <3>5, <3>6
  <2> QED BY <1>6, <2>1, <2>2
<1> HIDE DEF hr, u
<1>8. u \div 3600 = hr /\ (u \div 60) % 60 = mr /\ u % 60 = xr /\ 0 <= u /\ u < 86400
  BY <1>4, <1>5, <1>7, Columns
<1>9. /\ u \div 3600 = h1 % 24 /\ (u \div 60) % 60 = m1 % 60 /\ u % 60 = x1 % 60
      /\ t \div 86400 = (IF h1 < 24 THEN 0 ELSE 1)
      /\ u \in Int /\ 0 <= u /\ u < 86400
  BY <1>7, <1>8 DEF hr, mr, xr
<1> QED BY <1>9 DEF GoesOn, u, h1, m1, x1

\* The clock shows a second of a day.
ClockInv == days \in Nat /\ secsOfDay \in Int /\ 0 <= secsOfDay /\ secsOfDay < Day

\* The timestamps go on as the calendar does (clock.rs:14-53), on every day
\* there will ever be and whenever the clock is read.
THEOREM ClockFollowsCalendar == ClockSpec => FollowsCalendar
<1>1. ClockInit => ClockInv
  BY DEF ClockInit, ClockInv, Day
<1>2. ASSUME ClockInv, NEW by \in Delays, Wait(by)
      PROVE  ClockInv' /\ Civil!Later(by)
  <2> DEFINE s == secsOfDay
             t == s + 3600 * by[1] + 60 * by[2] + by[3]
             x1 == SecondsAt(s, by[3])
             m1 == MinutesAt(s, by[2], by[3])
             h1 == HoursAt(s, by[1], by[2], by[3])
  <2>1. by[1] \in 0..23 /\ by[2] \in 0..59 /\ by[3] \in 0..59
    BY ClockAssumption
  <2>2. /\ by[1] \in Int /\ 0 <= by[1] /\ by[1] <= 23
        /\ by[2] \in Int /\ 0 <= by[2] /\ by[2] <= 59
        /\ by[3] \in Int /\ 0 <= by[3] /\ by[3] <= 59
    BY <2>1
  <2>3. s \in Int /\ 0 <= s /\ s < 86400 /\ days \in Nat
    BY <1>2 DEF ClockInv, Day
  <2>4. days' = days + (t \div 86400) /\ secsOfDay' = t % 86400
    BY <1>2 DEF Wait, Day
  <2>5. GoesOn(s, by[1], by[2], by[3], t)
    <3>1. \A h, m, x \in Int : s + 3600 * h + 60 * m + x \in Int
      BY <2>3
    <3>2. t \in Int
      BY <2>2, <3>1
    <3> DEFINE h == by[1]
               m == by[2]
               x == by[3]
    <3>3. /\ h \in Int /\ 0 <= h /\ h <= 23 /\ m \in Int /\ 0 <= m /\ m <= 59
          /\ x \in Int /\ 0 <= x /\ x <= 59
      BY <2>2
    <3>4. t = s + 3600 * h + 60 * m + x
      OBVIOUS
    <3> HIDE DEF s, t, h, m, x
    <3>5. GoesOn(s, h, m, x, t)
      BY <2>3, <3>2, <3>3, <3>4, TimeGoesOn
    <3> QED BY <3>5 DEF h, m, x
  <2> DEFINE u == t % 86400
             n == t \div 86400
  <2>6. /\ u \div 3600 = h1 % 24 /\ (u \div 60) % 60 = m1 % 60 /\ u % 60 = x1 % 60
         /\ n = (IF h1 < 24 THEN 0 ELSE 1)
         /\ u \in Int /\ 0 <= u /\ u < 86400
    BY <2>5 DEF GoesOn
  <2>7. days' = days + n /\ secsOfDay' = u
    BY <2>4
  <2>8. secsOfDay' \in Int /\ 0 <= secsOfDay' /\ secsOfDay' < 86400
    <3> HIDE DEF u
    <3>1. u \in Int /\ 0 <= u /\ u < 86400
      BY <2>6
    <3> QED BY <2>7, <3>1
  <2> HIDE DEF u, n
  <2> HIDE DEF t, h1, m1, x1
  <2>9. Time' = <<h1 % 24, m1 % 60, x1 % 60>>
    BY <2>7, <2>6 DEF Time
  <2>10. Date' = IF h1 < 24 THEN Date ELSE Civil!NextDay(Date)
    <3>1. CASE h1 < 24
      <4>1. days' = days
        BY <2>3, <2>7, <2>6, <3>1
      <4> QED BY <3>1, <4>1 DEF Date
    <3>2. CASE ~(h1 < 24)
      <4>1. days' = days + 1 /\ days \in Int
        BY <2>3, <2>7, <2>6, <3>2
      <4>2. CivilFromDays(days + 1) = Civil!NextDay(CivilFromDays(days))
        BY <4>1, DateGoesOn
      <4> QED BY <3>2, <4>1, <4>2 DEF Date
    <3> QED BY <3>1, <3>2
  <2>11. ClockInv'
    <3>1. days' \in Nat
      BY <2>3, <2>7, <2>6
    <3> QED BY <2>8, <3>1 DEF ClockInv, Day
  <2>12. Civil!Later(by)
    <3>1. Time[1] = s \div 3600 /\ Time[2] = (s \div 60) % 60 /\ Time[3] = s % 60
      BY DEF Time
    <3>2. x1 = Time[3] + by[3]
      BY <3>1 DEF x1, SecondsAt
    <3>3. m1 = Time[2] + by[2] + (x1 \div 60)
      BY <3>1 DEF x1, m1, MinutesAt
    <3>4. h1 = Time[1] + by[1] + (m1 \div 60)
      BY <3>1 DEF h1, m1, HoursAt
    <3> QED BY <2>9, <2>10, <3>2, <3>3, <3>4 DEF Civil!Later
  <2> QED BY <2>11, <2>12
<1>3. ClockInv /\ [ClockNext]_clockVars => ClockInv' /\ [Civil!Next]_<<Date, Time>>
  <2> SUFFICES ASSUME ClockInv, [ClockNext]_clockVars
               PROVE  ClockInv' /\ [Civil!Next]_<<Date, Time>>
    OBVIOUS
  <2>1. CASE ClockNext
    BY <1>2, <2>1 DEF ClockNext, Civil!Next
  <2>2. CASE UNCHANGED clockVars
    BY <2>2 DEF clockVars, ClockInv, Date, Time
  <2> QED BY <2>1, <2>2
<1>4. ClockInit => Civil!Init
  BY DEF ClockInit, Civil!Init, Date, Time, CivilFromDays, YearOfEra, Month
<1> QED BY <1>1, <1>3, <1>4, PTL DEF ClockSpec, FollowsCalendar, Civil!Spec
-----------------------------------------------------------------------------
(***************************************************************************)
(* Onchain: positions of encoded and decoded sequences                     *)
(***************************************************************************)

\* A sequence that agrees with a longer one at its positions is its prefix.
LEMMA PrefixByPositions ==
  ASSUME NEW S, NEW s \in Seq(S), NEW t \in Seq(S), Len(s) <= Len(t),
         \A k \in 1..Len(s) : s[k] = t[k]
  PROVE  IsPrefix(s, t)
<1> DEFINE n == Len(s)
           p == SubSeq(s, 1, n)
           q == SubSeq(t, 1, n)
<1>1. n \in Nat /\ Len(t) \in Nat /\ (\A k \in 1..n : s[k] \in S /\ t[k] \in S)
  BY LenProperties, ElementOfSeq
<1>2. p \in Seq(S) /\ Len(p) = n /\ (\A k \in 1..n : p[k] = s[k])
  BY <1>1, SubSeqProperties
<1>3. q \in Seq(S) /\ Len(q) = n /\ (\A k \in 1..n : q[k] = t[k])
  BY <1>1, SubSeqProperties
<1>4. p = q
  <2> HIDE DEF p, q
  <2> QED BY <1>2, <1>3, SeqEqual
<1> QED BY <1>4 DEF IsPrefix

\* Bytes are sequences of numbers.
LEMMA SeqOfTokens ==
  ASSUME NEW b \in Seq(Tokens)
  PROVE  b \in Seq(Nat) /\ Len(b) \in Nat
BY OnchainAssumption, SeqMonotonic, LenProperties

\* A hash is a sequence of HashLen tokens, and not one of the other answers.
LEMMA HashIsSeq ==
  ASSUME NEW w \in Hashes
  PROVE  w \in Seq(Nat) /\ w \in Seq(Tokens) /\ Len(w) = HashLen
         /\ w # Error /\ w # None
<1>1. w \in [1..HashLen -> Tokens] /\ HashLen \in Nat
  BY OnchainAssumption DEF Hashes
<1>2. w \in Seq(Tokens)
  BY <1>1, SeqDef
<1>3. Len(w) = HashLen
  BY <1>1, <1>2, LenProperties
<1>4. w # Error /\ w # None
  BY OnchainAssumption
<1> QED BY <1>2, <1>3, <1>4, SeqOfTokens

\* The hash at position n + 1 of a sequence that is long enough.
LEMMA TakeIsHash ==
  ASSUME NEW S, NEW b \in Seq(S), NEW n \in Nat, n + HashLen <= Len(b)
  PROVE  /\ Take(b, n) \in Seq(S) /\ Len(Take(b, n)) = HashLen
         /\ \A k \in 1..HashLen : Take(b, n)[k] = b[n + k]
         /\ Take(b, n) = SubSeq(b, n + 1, n + HashLen)
         /\ S = Tokens => Take(b, n) \in Hashes
<1> DEFINE w == SubSeq(b, n + 1, n + HashLen)
<1>1. HashLen \in Nat /\ Len(b) \in Nat
  BY OnchainAssumption
<1>2. \A k \in (n + 1)..(n + HashLen) : b[k] \in S
  BY <1>1
<1>3. w \in Seq(S) /\ Len(w) = HashLen
  BY <1>1, <1>2, SubSeqProperties
<1>4. \A k \in 1..HashLen : w[k] = b[n + k]
  BY <1>1, <1>2, SubSeqProperties
<1>5. w \in [1..HashLen -> S]
  <2> HIDE DEF w
  <2> QED BY <1>3, LenProperties
<1> HIDE DEF w
<1>6. Take(b, n) = w
  BY DEF Take, w
<1> QED BY <1>3, <1>4, <1>5, <1>6 DEF Hashes, w

\* Bytes that are read past a head begin with it and the hash that is taken.
LEMMA HeadRead ==
  ASSUME NEW head \in Seq(Nat), NEW b \in Seq(Tokens), Reads(b, head),
         Len(head) + HashLen <= Len(b)
  PROVE  IsPrefix(head \o Take(b, Len(head)), b)
<1> DEFINE n == Len(head)
           w == Take(b, n)
           p == head \o w
<1>1. n \in Nat /\ HashLen \in Nat /\ Len(b) \in Nat /\ b \in Seq(Nat)
  <2> QED BY OnchainAssumption, SeqOfTokens, LenProperties
<1>2. w \in Seq(Nat) /\ Len(w) = HashLen /\ (\A k \in 1..HashLen : w[k] = b[n + k])
  <2>1. n + HashLen <= Len(b)
    OBVIOUS
  <2> HIDE DEF n
  <2> QED BY <1>1, <2>1, TakeIsHash
<1>3. ASSUME NEW k \in 1..n PROVE head[k] = b[k]
  <2>1. head[k] \in Nat
    BY ElementOfSeq
  <2>2. k \in DOMAIN head
    BY LenProperties
  <2> QED BY <2>1, <2>2 DEF Reads, Free
<1> HIDE DEF w, n
<1>4. /\ p \in Seq(Nat) /\ Len(p) = n + HashLen
      /\ \A k \in 1..(n + HashLen) : p[k] = IF k <= n THEN head[k] ELSE w[k - n]
  BY <1>2, ConcatProperties DEF n
<1>5. \A k \in 1..(n + HashLen) : p[k] = b[k]
  <2> SUFFICES ASSUME NEW k \in 1..(n + HashLen) PROVE p[k] = b[k]
    OBVIOUS
  <2> HIDE DEF p
  <2>1. CASE k <= n
    <3>1. k \in 1..n
      BY <1>1, <2>1
    <3> QED BY <1>3, <1>4, <2>1, <3>1
  <2>2. CASE ~(k <= n)
    <3>1. k - n \in 1..HashLen /\ n + (k - n) = k
      BY <1>1, <2>2
    <3> QED BY <1>2, <1>4, <2>2, <3>1
  <2> QED BY <2>1, <2>2
<1> HIDE DEF p
<1>6. IsPrefix(p, b)
  BY <1>1, <1>4, <1>5, PrefixByPositions DEF n
<1> QED BY <1>6 DEF p, w, n

\* What is written as a head and a hash is read past the head as the hash.
LEMMA HeadWritten ==
  ASSUME NEW head \in Seq(Nat), NEW w \in Hashes
  PROVE  /\ Reads(head \o w, head) /\ Take(head \o w, Len(head)) = w
         /\ head \o w \in Seq(Nat) /\ Len(head \o w) = Len(head) + HashLen
<1> DEFINE n == Len(head)
           b == head \o w
           v == Take(b, n)
<1>1. n \in Nat /\ HashLen \in Nat /\ w \in Seq(Nat) /\ Len(w) = HashLen
  BY OnchainAssumption, HashIsSeq
<1>2. /\ b \in Seq(Nat) /\ Len(b) = n + HashLen
      /\ \A k \in 1..(n + HashLen) : b[k] = IF k <= n THEN head[k] ELSE w[k - n]
  BY <1>1, ConcatProperties
<1> HIDE DEF b
<1>3. Reads(b, head)
  BY <1>1, <1>2 DEF Reads
<1> HIDE DEF n
<1>4. v \in Seq(Nat) /\ Len(v) = HashLen /\ (\A k \in 1..HashLen : v[k] = b[n + k])
  <2>1. n \in Nat /\ b \in Seq(Nat) /\ n + HashLen <= Len(b)
    BY <1>1, <1>2
  <2> QED BY <2>1, TakeIsHash
<1>5. \A k \in 1..HashLen : v[k] = w[k]
  <2> SUFFICES ASSUME NEW k \in 1..HashLen PROVE v[k] = w[k]
    OBVIOUS
  <2> DEFINE i == n + k
  <2>1. i \in 1..(n + HashLen) /\ ~(i <= n) /\ i - n = k
    BY <1>1
  <2>2. v[k] = b[i]
    BY <1>4
  <2> HIDE DEF i
  <2>3. b[i] = w[i - n]
    BY <1>2, <2>1
  <2> QED BY <2>1, <2>2, <2>3
<1> HIDE DEF v
<1>6. v = w
  BY <1>1, <1>4, <1>5, SeqEqual
<1> QED BY <1>2, <1>3, <1>6 DEF b, n, v

\* The head of the topic of a wasm has no free positions.
LEMMA WasmHeadIsSeq == WasmHead \in Seq(Nat) /\ Len(WasmHead) \in Nat
<1> DEFINE a == <<Vec, Present, 2, Symbol, Len(Wasm)>>
           c == <<Bytes, HashLen>>
<1>1. Wasm \in Seq(Nat)
  BY OnchainAssumption, SeqOfTokens
<1>2. a \in Seq(Nat) /\ c \in Seq(Nat)
  BY <1>1, OnchainAssumption DEF Vec, Present, Symbol, Bytes
<1> HIDE DEF a, c
<1>3. a \o Wasm \in Seq(Nat)
  BY <1>1, <1>2, ConcatProperties
<1>4. (a \o Wasm) \o c \in Seq(Nat)
  BY <1>2, <1>3, ConcatProperties
<1> QED BY <1>4, LenProperties DEF WasmHead, a, c

\* A topic decoded to a hash begins with the encoding of that hash.
LEMMA WasmRead ==
  ASSUME NEW b \in Seq(Tokens), DecodeWasmExecutable(b) # Error
  PROVE  /\ DecodeWasmExecutable(b) \in Hashes
         /\ IsPrefix(WasmTopic(DecodeWasmExecutable(b)), b)
<1> DEFINE n == Len(WasmHead)
<1>1. Reads(b, WasmHead) /\ n + HashLen <= Len(b) /\ DecodeWasmExecutable(b) = Take(b, n)
  BY DEF DecodeWasmExecutable, Take
<1>2. Take(b, n) \in Hashes
  <2> HIDE DEF n
  <2> QED BY <1>1, WasmHeadIsSeq, TakeIsHash DEF n
<1>3. IsPrefix(WasmHead \o Take(b, n), b)
  BY <1>1, WasmHeadIsSeq, HeadRead
<1>4. WasmHead \o Take(b, n) = WasmTopic(Take(b, n))
  BY DEF WasmHead, WasmTopic
<1> QED BY <1>1, <1>2, <1>3, <1>4

\* The encoding of a hash is decoded to it.
LEMMA WasmWritten ==
  ASSUME NEW w \in Hashes
  PROVE  DecodeWasmExecutable(WasmTopic(w)) = w
<1>1. WasmTopic(w) = WasmHead \o w
  BY DEF WasmHead, WasmTopic
<1>2. Reads(WasmHead \o w, WasmHead) /\ Take(WasmHead \o w, Len(WasmHead)) = w
  BY WasmHeadIsSeq, HeadWritten
<1> QED BY <1>1, <1>2 DEF DecodeWasmExecutable

\* A topic taken for the symbol executable_update begins with its encoding.
LEMMA UpdateRead ==
  ASSUME NEW b \in Seq(Tokens), IsExecutableUpdate(b)
  PROVE  IsPrefix(<<Symbol, Len(Update)>> \o Update, b)
<1> DEFINE n == b[2]
           u == SubSeq(b, 3, 2 + n)
           h == <<Symbol, Len(Update)>>
           p == h \o Update
<1>1. Len(b) \in Nat /\ 2 <= Len(b) /\ b[1] = Symbol /\ 2 + n <= Len(b) /\ u = Update
  <2>1. Len(<<Free, Free>>) = 2
    OBVIOUS
  <2> QED BY <2>1, SeqOfTokens DEF IsExecutableUpdate, Reads
<1>2. n \in Nat /\ b \in Seq(Nat) /\ (\A k \in 1..Len(b) : b[k] \in Nat)
  <2>1. b \in Seq(Nat)
    BY SeqOfTokens
  <2>2. \A k \in 1..Len(b) : b[k] \in Nat
    BY <2>1, ElementOfSeq
  <2>3. 2 \in 1..Len(b)
    BY <1>1
  <2> QED BY <2>1, <2>2, <2>3
<1> HIDE DEF n
<1>3. \A k \in 3..(2 + n) : b[k] \in Nat
  <2> SUFFICES ASSUME NEW k \in 3..(2 + n) PROVE b[k] \in Nat
    OBVIOUS
  <2>1. k \in 1..Len(b)
    BY <1>1, <1>2
  <2> QED BY <1>2, <2>1
<1>4. /\ u \in Seq(Nat) /\ Len(u) = n
      /\ \A k \in 1..n : u[k] = b[k + 2]
  <2>1. u \in Seq(Nat) /\ Len(u) = (IF 3 <= 2 + n THEN 2 + n - 3 + 1 ELSE 0)
        /\ \A k \in 1..(2 + n - 3 + 1) : u[k] = b[3 + k - 1]
    BY <1>2, <1>3, SubSeqProperties
  <2> HIDE DEF u
  <2>2. 2 + n - 3 + 1 = n
    BY <1>2
  <2>3. Len(u) = n
    BY <1>2, <2>1
  <2>4. ASSUME NEW k \in 1..n PROVE u[k] = b[k + 2]
    <3>1. 3 + k - 1 = k + 2
      BY <1>2
    <3> QED BY <2>1, <2>2, <3>1
  <2> QED BY <2>1, <2>3, <2>4
<1> HIDE DEF u
<1>5. /\ Update \in Seq(Nat) /\ Len(Update) = n
      /\ \A k \in 1..n : Update[k] = b[k + 2]
  BY <1>1, <1>4
<1>6. h \in Seq(Nat) /\ Len(h) = 2 /\ h[1] = b[1] /\ h[2] = b[2]
  BY <1>1, <1>2, <1>5 DEF Symbol, n
<1> HIDE DEF h
<1>7. /\ p \in Seq(Nat) /\ Len(p) = 2 + n
      /\ \A k \in 1..(2 + n) : p[k] = IF k <= 2 THEN h[k] ELSE Update[k - 2]
  <2>1. /\ p \in Seq(Nat) /\ Len(p) = Len(h) + Len(Update)
        /\ \A k \in 1..(Len(h) + Len(Update)) :
             p[k] = IF k <= Len(h) THEN h[k] ELSE Update[k - Len(h)]
    <3>1. h \in Seq(Nat) /\ Update \in Seq(Nat)
      BY <1>5, <1>6
    <3> QED BY <3>1, ConcatProperties
  <2> HIDE DEF p
  <2> QED BY <2>1, <1>5, <1>6
<1> HIDE DEF p
<1>8. ASSUME NEW k \in 1..(2 + n) PROVE p[k] = b[k]
  <2>1. CASE k <= 2
    <3>1. k = 1 \/ k = 2
      BY <1>2, <2>1
    <3> QED BY <1>6, <1>7, <2>1, <3>1
  <2>2. CASE ~(k <= 2)
    <3> DEFINE i == k - 2
    <3>1. i \in 1..n /\ i + 2 = k
      BY <1>2, <2>2
    <3>2. p[k] = Update[i]
      BY <1>7, <2>2
    <3> HIDE DEF i
    <3> QED BY <1>5, <3>1, <3>2
  <2> QED BY <2>1, <2>2
<1>9. IsPrefix(p, b)
  BY <1>1, <1>2, <1>7, <1>8, PrefixByPositions
<1> QED BY <1>9 DEF p, h

\* The encoding of the symbol is taken for it.
LEMMA UpdateWritten == IsExecutableUpdate(SymbolTopic)
<1> DEFINE n == Len(Update)
           h == <<Symbol, n>>
           z == Zeroes(Padding)
           p == h \o Update
           b == p \o z
           u == SubSeq(b, 3, 2 + n)
<1>1. Update \in Seq(Nat) /\ n \in Nat /\ Padding \in Nat
  BY OnchainAssumption, SeqOfTokens
<1>2. z \in Seq(Nat) /\ Len(z) \in Nat
  <2>1. z \in [1..Padding -> Nat]
    BY DEF Zeroes
  <2>2. z \in Seq(Nat)
    BY <1>1, <2>1, SeqDef
  <2> QED BY <2>2, LenProperties
<1> HIDE DEF z
<1>3. h \in Seq(Nat) /\ Len(h) = 2 /\ h[1] = Symbol /\ h[2] = n
  BY <1>1 DEF Symbol
<1> HIDE DEF h, n
<1>4. /\ p \in Seq(Nat) /\ Len(p) = 2 + n
      /\ \A k \in 1..(2 + n) : p[k] = IF k <= 2 THEN h[k] ELSE Update[k - 2]
  <2>1. /\ p \in Seq(Nat) /\ Len(p) = Len(h) + Len(Update)
        /\ \A k \in 1..(Len(h) + Len(Update)) :
             p[k] = IF k <= Len(h) THEN h[k] ELSE Update[k - Len(h)]
    BY <1>1, <1>3, ConcatProperties
  <2> HIDE DEF p
  <2> QED BY <2>1, <1>1, <1>3 DEF n
<1> HIDE DEF p
<1>5. /\ b \in Seq(Nat) /\ Len(b) = 2 + n + Len(z)
      /\ \A k \in 1..(2 + n + Len(z)) : b[k] = IF k <= 2 + n THEN p[k] ELSE z[k - (2 + n)]
  BY <1>2, <1>4, ConcatProperties
<1> HIDE DEF b
<1>6. ASSUME NEW k \in 1..(2 + n) PROVE b[k] = IF k <= 2 THEN h[k] ELSE Update[k - 2]
  <2>1. k \in 1..(2 + n + Len(z)) /\ k <= 2 + n
    BY <1>1, <1>2
  <2>2. b[k] = p[k] /\ k \in 1..(2 + n)
    BY <1>5, <2>1
  <2> QED BY <1>4, <2>2
<1>7. b[1] = Symbol /\ b[2] = n
  <2>1. 1 \in 1..(2 + n) /\ 2 \in 1..(2 + n)
    BY <1>1
  <2> QED BY <1>3, <1>6, <2>1
<1>8. ASSUME NEW k \in 3..(2 + n) PROVE b[k] \in Nat /\ b[k] = Update[k - 2]
  <2>1. k \in 1..(2 + n) /\ ~(k <= 2) /\ k - 2 \in 1..n
    BY <1>1
  <2>2. Update[k - 2] \in Nat
    BY <1>1, <2>1, ElementOfSeq DEF n
  <2> QED BY <1>6, <2>1, <2>2
<1>9. u \in Seq(Nat) /\ Len(u) = n /\ (\A k \in 1..n : u[k] = Update[k])
  <2>1. u \in Seq(Nat) /\ Len(u) = (IF 3 <= 2 + n THEN 2 + n - 3 + 1 ELSE 0)
        /\ \A k \in 1..(2 + n - 3 + 1) : u[k] = b[3 + k - 1]
    BY <1>1, <1>8, SubSeqProperties
  <2> HIDE DEF u
  <2>2. 2 + n - 3 + 1 = n
    BY <1>1
  <2>3. Len(u) = n
    BY <1>1, <2>1
  <2>4. ASSUME NEW k \in 1..n PROVE u[k] = Update[k]
    <3> DEFINE i == 3 + k - 1
    <3>1. i \in 3..(2 + n) /\ i - 2 = k
      BY <1>1
    <3>2. u[k] = b[i]
      BY <2>1, <2>2
    <3> HIDE DEF i
    <3> QED BY <1>8, <3>1, <3>2
  <2> QED BY <2>1, <2>3, <2>4
<1> HIDE DEF u
<1>10. u = Update
  BY <1>1, <1>9, SeqEqual DEF n
<1>11. Reads(b, <<Free, Free>>)
  <2>1. Len(<<Free, Free>>) = 2 /\ \A k \in DOMAIN <<Free, Free>> : <<Free, Free>>[k] = Free
    OBVIOUS
  <2>2. 2 <= Len(b)
    BY <1>1, <1>2, <1>5
  <2> QED BY <2>1, <2>2 DEF Reads
<1>12. 2 + b[2] <= Len(b) /\ SubSeq(b, 3, 2 + b[2]) = Update
  BY <1>1, <1>2, <1>5, <1>7, <1>10 DEF u
<1>13. b = SymbolTopic
  BY DEF SymbolTopic, b, p, h, z, n
<1> QED BY <1>7, <1>11, <1>12, <1>13 DEF IsExecutableUpdate

\* Sequence p is a, the hash f and c, one after the other.
Frames(p, a, f, c) ==
  /\ p \in Seq(Int) /\ Len(p) = 3 + HashLen + Len(c)
  /\ \A k \in 1..3 : p[k] = a[k]
  /\ \A k \in 1..HashLen : p[3 + k] = f[k]
  /\ \A k \in 1..Len(c) : p[3 + HashLen + k] = c[k]

\* Such a sequence is found by its positions.
LEMMA Framed ==
  ASSUME NEW a \in Seq(Int), NEW f \in Seq(Int), NEW c \in Seq(Int),
         Len(a) = 3, Len(f) = HashLen
  PROVE  Frames((a \o f) \o c, a, f, c)
<1> DEFINE g == a \o f
           p == g \o c
<1>1. HashLen \in Nat /\ Len(c) \in Nat
  BY OnchainAssumption, LenProperties
<1>2. /\ g \in Seq(Int) /\ Len(g) = Len(a) + Len(f)
      /\ \A k \in 1..(Len(a) + Len(f)) : g[k] = IF k <= Len(a) THEN a[k] ELSE f[k - Len(a)]
  BY ConcatProperties
<1> HIDE DEF g
<1>3. /\ g \in Seq(Int) /\ Len(g) = 3 + HashLen
      /\ \A k \in 1..(3 + HashLen) : g[k] = IF k <= 3 THEN a[k] ELSE f[k - 3]
  BY <1>2
<1>4. /\ p \in Seq(Int) /\ Len(p) = Len(g) + Len(c)
      /\ \A k \in 1..(Len(g) + Len(c)) : p[k] = IF k <= Len(g) THEN g[k] ELSE c[k - Len(g)]
  <2>1. g \in Seq(Int)
    BY <1>2
  <2> QED BY <2>1, ConcatProperties
<1> HIDE DEF p
<1>5. /\ p \in Seq(Int) /\ Len(p) = 3 + HashLen + Len(c)
      /\ \A k \in 1..(3 + HashLen + Len(c)) :
           p[k] = IF k <= 3 + HashLen THEN g[k] ELSE c[k - (3 + HashLen)]
  BY <1>3, <1>4
<1>6. ASSUME NEW k \in 1..3 PROVE p[k] = a[k]
  <2>1. k \in 1..(3 + HashLen) /\ k \in 1..(3 + HashLen + Len(c)) /\ k <= 3 + HashLen /\ k <= 3
    BY <1>1
  <2> QED BY <1>3, <1>5, <2>1
<1>7. ASSUME NEW k \in 1..HashLen PROVE p[3 + k] = f[k]
  <2> DEFINE i == 3 + k
  <2>1. i \in 1..(3 + HashLen) /\ i \in 1..(3 + HashLen + Len(c)) /\ i <= 3 + HashLen
        /\ ~(i <= 3) /\ i - 3 = k
    BY <1>1
  <2> HIDE DEF i
  <2>2. p[i] = f[k]
    BY <1>3, <1>5, <2>1
  <2> QED BY <2>2 DEF i
<1>8. ASSUME NEW k \in 1..Len(c) PROVE p[3 + HashLen + k] = c[k]
  <2> DEFINE i == 3 + HashLen + k
  <2>1. i \in 1..(3 + HashLen + Len(c)) /\ ~(i <= 3 + HashLen) /\ i - (3 + HashLen) = k
    BY <1>1
  <2> HIDE DEF i
  <2>2. p[i] = c[k]
    BY <1>5, <2>1
  <2> QED BY <2>2 DEF i
<1>9. Frames(p, a, f, c)
  BY <1>5, <1>6, <1>7, <1>8 DEF Frames
<1> QED BY <1>9 DEF p, g

\* What the layout of an entry asks of each position.
LEMMA EntryLayout ==
  /\ Len(EntryHead) = 6 + HashLen /\ Len(EntryHead \o <<IsWasm>>) = 7 + HashLen
  /\ EntryHead \o <<IsWasm>> \in Seq(Int)
  /\ LET l == EntryHead \o <<IsWasm>> IN
       /\ l[1] = ContractData /\ l[2] = Free /\ l[3] = Address
       /\ \A k \in 1..HashLen : l[3 + k] = Free
       /\ l[3 + HashLen + 1] = InstanceKey /\ l[3 + HashLen + 2] = Persistent
       /\ l[3 + HashLen + 3] = Instance /\ l[3 + HashLen + 4] = IsWasm
<1> DEFINE a == <<ContractData, Free, Address>>
           f == Frees(HashLen)
           c == <<InstanceKey, Persistent, Instance>>
           e == <<IsWasm>>
<1>1. HashLen \in Nat
  BY OnchainAssumption
<1>2. /\ a \in Seq(Int) /\ Len(a) = 3 /\ a[1] = ContractData /\ a[2] = Free /\ a[3] = Address
  BY DEF ContractData, Free, Address
<1>3. f \in Seq(Int) /\ Len(f) = HashLen /\ (\A k \in 1..HashLen : f[k] = Free)
  <2>1. f \in [1..HashLen -> Int]
    BY DEF Frees, Free
  <2>2. f \in Seq(Int)
    BY <1>1, <2>1, SeqDef
  <2>3. Len(f) = HashLen
    BY <1>1, <2>1, <2>2, LenProperties
  <2> QED BY <2>2, <2>3 DEF Frees
<1>4. /\ c \in Seq(Int) /\ Len(c) = 3
      /\ c[1] = InstanceKey /\ c[2] = Persistent /\ c[3] = Instance
  BY DEF InstanceKey, Persistent, Instance
<1>5. e \in Seq(Int) /\ Len(e) = 1 /\ e[1] = IsWasm
  BY DEF IsWasm
<1> DEFINE h == EntryHead
           l == h \o e
<1>6. h = (a \o f) \o c
  BY DEF EntryHead
<1> HIDE DEF a, f, c, e, h
<1>7. Frames(h, a, f, c)
  BY <1>2, <1>3, <1>4, <1>6, Framed
<1>8. /\ h \in Seq(Int) /\ Len(h) = 6 + HashLen
      /\ h[1] = ContractData /\ h[2] = Free /\ h[3] = Address
      /\ \A k \in 1..HashLen : h[3 + k] = Free
      /\ h[3 + HashLen + 1] = InstanceKey /\ h[3 + HashLen + 2] = Persistent
      /\ h[3 + HashLen + 3] = Instance
  <2>1. /\ h \in Seq(Int) /\ Len(h) = 3 + HashLen + Len(c)
        /\ \A k \in 1..3 : h[k] = a[k]
        /\ \A k \in 1..HashLen : h[3 + k] = f[k]
        /\ \A k \in 1..Len(c) : h[3 + HashLen + k] = c[k]
    BY <1>7 DEF Frames
  <2>2. Len(h) = 6 + HashLen
    BY <1>1, <1>4, <2>1
  <2>3. h[1] = ContractData /\ h[2] = Free /\ h[3] = Address
    BY <1>2, <2>1
  <2>4. \A k \in 1..HashLen : h[3 + k] = Free
    BY <1>3, <2>1
  <2>5. /\ h[3 + HashLen + 1] = InstanceKey /\ h[3 + HashLen + 2] = Persistent
        /\ h[3 + HashLen + 3] = Instance
    BY <1>4, <2>1
  <2> QED BY <2>1, <2>2, <2>3, <2>4, <2>5
<1>9. /\ l \in Seq(Int) /\ Len(l) = Len(h) + Len(e)
      /\ \A k \in 1..(Len(h) + Len(e)) : l[k] = IF k <= Len(h) THEN h[k] ELSE e[k - Len(h)]
  <2>1. h \in Seq(Int) /\ e \in Seq(Int)
    BY <1>5, <1>8
  <2> QED BY <2>1, ConcatProperties
<1> HIDE DEF l
<1>10. /\ l \in Seq(Int) /\ Len(l) = 7 + HashLen
       /\ \A k \in 1..(7 + HashLen) : l[k] = IF k <= 6 + HashLen THEN h[k] ELSE e[k - (6 + HashLen)]
  <2>1. Len(h) = 6 + HashLen /\ Len(e) = 1 /\ Len(h) + Len(e) = 7 + HashLen
    BY <1>1, <1>5, <1>8
  <2> QED BY <1>9, <2>1
<1>11. ASSUME NEW k \in 1..(6 + HashLen) PROVE l[k] = h[k]
  <2>1. k \in 1..(7 + HashLen) /\ k <= 6 + HashLen
    BY <1>1
  <2> QED BY <1>10, <2>1
<1>12. l[1] = ContractData /\ l[2] = Free /\ l[3] = Address
  <2>1. 1 \in 1..(6 + HashLen) /\ 2 \in 1..(6 + HashLen) /\ 3 \in 1..(6 + HashLen)
    BY <1>1
  <2> QED BY <1>8, <1>11, <2>1
<1>13. \A k \in 1..HashLen : l[3 + k] = Free
  <2>1. \A k \in 1..HashLen : 3 + k \in 1..(6 + HashLen)
    BY <1>1
  <2> QED BY <1>8, <1>11, <2>1
<1>14. /\ l[3 + HashLen + 1] = InstanceKey /\ l[3 + HashLen + 2] = Persistent
       /\ l[3 + HashLen + 3] = Instance
  <2>1. /\ 3 + HashLen + 1 \in 1..(6 + HashLen) /\ 3 + HashLen + 2 \in 1..(6 + HashLen)
        /\ 3 + HashLen + 3 \in 1..(6 + HashLen)
    BY <1>1
  <2> QED BY <1>8, <1>11, <2>1
<1>15. l[3 + HashLen + 4] = IsWasm
  <2> DEFINE i == 3 + HashLen + 4
  <2>1. i \in 1..(7 + HashLen) /\ ~(i <= 6 + HashLen) /\ i - (6 + HashLen) = 1
    BY <1>1
  <2> HIDE DEF i
  <2>2. l[i] = IsWasm
    BY <1>5, <1>10, <2>1
  <2> QED BY <2>2 DEF i
<1>16. EntryHead \o <<IsWasm>> = l /\ EntryHead = h
  BY DEF l, h, e
<1> QED BY <1>8, <1>10, <1>12, <1>13, <1>14, <1>15, <1>16

\* The head of the entry sim.rs encodes, position by position.
LEMMA EntryLaid ==
  ASSUME NEW id \in Seq(Nat), Len(id) = HashLen, NEW w \in Seq(Nat), Len(w) = HashLen
  PROVE  \E head \in Seq(Nat) :
           /\ ContractEntry(id, w) = head \o w
           /\ Len(head) = 7 + HashLen
           /\ head[1] = ContractData /\ head[2] = 0 /\ head[3] = Address
           /\ \A k \in 1..HashLen : head[3 + k] = id[k]
           /\ head[3 + HashLen + 1] = InstanceKey /\ head[3 + HashLen + 2] = Persistent
           /\ head[3 + HashLen + 3] = Instance /\ head[3 + HashLen + 4] = IsWasm
<1> DEFINE a == <<ContractData, 0, Address>>
           e == <<InstanceKey, Persistent, Instance, IsWasm>>
           p == (a \o id) \o e
<1>1. HashLen \in Nat
  BY OnchainAssumption
<1>2. /\ a \in Seq(Nat) /\ Len(a) = 3 /\ a[1] = ContractData /\ a[2] = 0 /\ a[3] = Address
  BY DEF ContractData, Address
<1>3. /\ e \in Seq(Nat) /\ Len(e) = 4
      /\ e[1] = InstanceKey /\ e[2] = Persistent /\ e[3] = Instance /\ e[4] = IsWasm
  BY DEF InstanceKey, Persistent, Instance, IsWasm
<1>4. ContractEntry(id, w) = p \o w
  BY DEF ContractEntry
<1> HIDE DEF a, e
<1>5. Frames(p, a, id, e)
  <2>1. Nat \subseteq Int
    OBVIOUS
  <2>2. a \in Seq(Int) /\ id \in Seq(Int) /\ e \in Seq(Int)
    BY <1>2, <1>3, <2>1, SeqMonotonic
  <2> QED BY <1>2, <2>2, Framed
<1>6. p \in Seq(Nat)
  <2>1. a \o id \in Seq(Nat)
    BY <1>2, ConcatProperties
  <2> QED BY <1>3, <2>1, ConcatProperties
<1> HIDE DEF p
<1>7. /\ Len(p) = 3 + HashLen + Len(e)
      /\ \A k \in 1..3 : p[k] = a[k]
      /\ \A k \in 1..HashLen : p[3 + k] = id[k]
      /\ \A k \in 1..Len(e) : p[3 + HashLen + k] = e[k]
  BY <1>5 DEF Frames
<1>8. p[1] = ContractData /\ p[2] = 0 /\ p[3] = Address
  BY <1>2, <1>7
<1>9. /\ p[3 + HashLen + 1] = InstanceKey /\ p[3 + HashLen + 2] = Persistent
      /\ p[3 + HashLen + 3] = Instance /\ p[3 + HashLen + 4] = IsWasm
  BY <1>3, <1>7
<1>10. Len(p) = 7 + HashLen
  BY <1>1, <1>3, <1>7
<1> QED BY <1>4, <1>6, <1>7, <1>8, <1>9, <1>10

\* The positions of a layout that is 7 + HashLen long.
LEMMA LayoutPositions ==
  ASSUME NEW k \in 1..(7 + HashLen)
  PROVE  \/ k = 1 \/ k = 2 \/ k = 3
         \/ \E i \in 1..HashLen : k = 3 + i
         \/ k = 3 + HashLen + 1 \/ k = 3 + HashLen + 2
         \/ k = 3 + HashLen + 3 \/ k = 3 + HashLen + 4
<1>1. HashLen \in Nat
  BY OnchainAssumption
<1>2. CASE k <= 3
  BY <1>1, <1>2
<1>3. CASE 3 < k /\ k <= 3 + HashLen
  <2>1. k - 3 \in 1..HashLen /\ k = 3 + (k - 3)
    BY <1>1, <1>3
  <2> QED BY <2>1
<1>4. CASE 3 + HashLen < k
  BY <1>1, <1>4
<1> QED BY <1>1, <1>2, <1>3, <1>4

\* The hash in the entry that sim.rs encodes is the one decoded.
LEMMA EntryWritten ==
  ASSUME NEW id \in Hashes, NEW w \in Hashes
  PROVE  WasmHashFromEntry(ContractEntry(id, w)) = w
<1> DEFINE l == EntryHead \o <<IsWasm>>
           b == ContractEntry(id, w)
<1>1. /\ HashLen \in Nat /\ id \in Seq(Nat) /\ Len(id) = HashLen
      /\ w \in Seq(Nat) /\ Len(w) = HashLen
  BY OnchainAssumption, HashIsSeq
<1>2. PICK head \in Seq(Nat) :
           /\ b = head \o w
           /\ Len(head) = 7 + HashLen
           /\ head[1] = ContractData /\ head[2] = 0 /\ head[3] = Address
           /\ \A k \in 1..HashLen : head[3 + k] = id[k]
           /\ head[3 + HashLen + 1] = InstanceKey /\ head[3 + HashLen + 2] = Persistent
           /\ head[3 + HashLen + 3] = Instance /\ head[3 + HashLen + 4] = IsWasm
  BY <1>1, EntryLaid
<1>3. /\ Reads(b, head) /\ Take(b, Len(head)) = w
      /\ b \in Seq(Nat) /\ Len(b) = Len(head) + HashLen
  BY <1>2, HeadWritten
<1> HIDE DEF b
<1>4. \A k \in 1..(7 + HashLen) : b[k] = head[k]
  <2>1. \A k \in 1..(7 + HashLen) : head[k] \in Nat
    BY <1>2, ElementOfSeq
  <2>2. DOMAIN head = 1..(7 + HashLen)
    BY <1>2, LenProperties
  <2>3. DOMAIN head = 1..(7 + HashLen) /\ \A k \in DOMAIN head : head[k] \in {Free, b[k]}
    BY <1>3, <2>2 DEF Reads
  <2>4. \A k \in 1..(7 + HashLen) : head[k] # Free
    BY <2>1 DEF Free
  <2> QED BY <2>3, <2>4
<1>5. /\ l \in Seq(Int) /\ Len(l) = 7 + HashLen
      /\ l[1] = ContractData /\ l[2] = Free /\ l[3] = Address
      /\ \A k \in 1..HashLen : l[3 + k] = Free
      /\ l[3 + HashLen + 1] = InstanceKey /\ l[3 + HashLen + 2] = Persistent
      /\ l[3 + HashLen + 3] = Instance /\ l[3 + HashLen + 4] = IsWasm
  BY EntryLayout
<1> HIDE DEF l
<1>6. ASSUME NEW k \in 1..(7 + HashLen) PROVE l[k] \in {Free, b[k]}
  <2>1. l[k] \in {Free, head[k]}
    <3>1. CASE \E i \in 1..HashLen : k = 3 + i
      BY <1>5, <3>1
    <3> QED BY <1>2, <1>5, <3>1, LayoutPositions
  <2> QED BY <1>4, <2>1
<1>7. Reads(b, l)
  <2>1. DOMAIN l = 1..(7 + HashLen)
    BY <1>5, LenProperties
  <2>2. Len(l) <= Len(b)
    BY <1>1, <1>2, <1>3, <1>5
  <2> QED BY <1>6, <2>1, <2>2 DEF Reads
<1>8. Len(EntryHead) + 1 = Len(head)
  BY <1>1, <1>2, EntryLayout
<1> QED BY <1>3, <1>7, <1>8 DEF WasmHashFromEntry, b, l

\* An entry decoded to a hash is the encoding of that hash in a Wasm contract,
\* whatever its contract's id and its position 2, with bytes after it or not.
LEMMA EntryRead ==
  ASSUME NEW b \in Seq(Tokens), WasmHashFromEntry(b) \notin {None, Error}
  PROVE  /\ WasmHashFromEntry(b) \in Hashes
         /\ LET plain == ContractEntry(SubSeq(b, 4, 3 + HashLen), WasmHashFromEntry(b))
            IN  IsPrefix([plain EXCEPT ![2] = b[2]], b)
<1> DEFINE l == EntryHead \o <<IsWasm>>
           n == 7 + HashLen
           w == Take(b, n)
           id == Take(b, 3)
<1>1. HashLen \in Nat /\ n \in Nat /\ Len(EntryHead) + 1 = n /\ b \in Seq(Nat) /\ Len(b) \in Nat
  <2>1. HashLen \in Nat /\ n \in Nat
    BY OnchainAssumption
  <2>2. Len(EntryHead) + 1 = n
    BY <2>1, EntryLayout
  <2> QED BY <2>1, <2>2, SeqOfTokens
<1>2. Reads(b, l) /\ WasmHashFromEntry(b) = w /\ n + HashLen <= Len(b)
  <2>1. Reads(b, l) /\ WasmHashFromEntry(b) = w
    BY <1>1 DEF WasmHashFromEntry
  <2> QED BY <2>1 DEF Take
<1>3. /\ w \in Hashes /\ w \in Seq(Nat) /\ Len(w) = HashLen
      /\ \A k \in 1..HashLen : w[k] = b[n + k]
  <2> HIDE DEF n
  <2>1. w \in Hashes /\ \A k \in 1..HashLen : w[k] = b[n + k]
    BY <1>1, <1>2, TakeIsHash
  <2> QED BY <2>1, HashIsSeq
<1>4. /\ id \in Seq(Nat) /\ Len(id) = HashLen /\ id = SubSeq(b, 4, 3 + HashLen)
      /\ \A k \in 1..HashLen : id[k] = b[3 + k]
  <2>1. 3 + HashLen <= Len(b) /\ 3 + 1 = 4
    BY <1>1, <1>2
  <2>2. /\ Take(b, 3) \in Seq(Nat) /\ Len(Take(b, 3)) = HashLen
        /\ Take(b, 3) = SubSeq(b, 3 + 1, 3 + HashLen)
        /\ \A k \in 1..HashLen : Take(b, 3)[k] = b[3 + k]
    BY <1>1, <2>1, TakeIsHash
  <2> QED BY <2>1, <2>2
<1> HIDE DEF w, id
<1>5. PICK head \in Seq(Nat) :
           /\ ContractEntry(id, w) = head \o w
           /\ Len(head) = 7 + HashLen
           /\ head[1] = ContractData /\ head[2] = 0 /\ head[3] = Address
           /\ \A k \in 1..HashLen : head[3 + k] = id[k]
           /\ head[3 + HashLen + 1] = InstanceKey /\ head[3 + HashLen + 2] = Persistent
           /\ head[3 + HashLen + 3] = Instance /\ head[3 + HashLen + 4] = IsWasm
  BY <1>3, <1>4, EntryLaid
<1> DEFINE p == head \o w
           q == [p EXCEPT ![2] = b[2]]
<1>6. /\ p \in Seq(Nat) /\ Len(p) = Len(head) + Len(w)
      /\ \A k \in 1..(Len(head) + Len(w)) :
           p[k] = IF k <= Len(head) THEN head[k] ELSE w[k - Len(head)]
  BY <1>3, ConcatProperties
<1> HIDE DEF p
<1>7. /\ p \in Seq(Nat) /\ Len(p) = n + HashLen
      /\ \A k \in 1..(n + HashLen) : p[k] = IF k <= n THEN head[k] ELSE w[k - n]
  BY <1>3, <1>5, <1>6
<1>8. /\ l \in Seq(Int) /\ Len(l) = n
      /\ l[1] = ContractData /\ l[2] = Free /\ l[3] = Address
      /\ \A k \in 1..HashLen : l[3 + k] = Free
      /\ l[3 + HashLen + 1] = InstanceKey /\ l[3 + HashLen + 2] = Persistent
      /\ l[3 + HashLen + 3] = Instance /\ l[3 + HashLen + 4] = IsWasm
  BY EntryLayout
<1> HIDE DEF l
<1>9. \A k \in 1..n : l[k] \in {Free, b[k]}
  <2>1. DOMAIN l = 1..n
    BY <1>8, LenProperties
  <2> QED BY <1>2, <2>1 DEF Reads
<1>10. ASSUME NEW k \in 1..n, k # 2 PROVE head[k] = b[k]
  <2>1. CASE \E i \in 1..HashLen : k = 3 + i
    BY <1>4, <1>5, <2>1
  <2>2. CASE l[k] = head[k] /\ l[k] # Free
    BY <1>9, <2>2
  <2>3. /\ l[1] = head[1] /\ l[3] = head[3]
        /\ l[3 + HashLen + 1] = head[3 + HashLen + 1] /\ l[3 + HashLen + 2] = head[3 + HashLen + 2]
        /\ l[3 + HashLen + 3] = head[3 + HashLen + 3] /\ l[3 + HashLen + 4] = head[3 + HashLen + 4]
    BY <1>5, <1>8
  <2>4. head[k] # Free
    <3>1. head[k] \in Nat
      BY <1>5, ElementOfSeq
    <3> QED BY <3>1 DEF Free
  <2>5. \/ k = 1 \/ k = 2 \/ k = 3
        \/ \E i \in 1..HashLen : k = 3 + i
        \/ k = 3 + HashLen + 1 \/ k = 3 + HashLen + 2
        \/ k = 3 + HashLen + 3 \/ k = 3 + HashLen + 4
    BY LayoutPositions
  <2> HIDE DEF n
  <2> QED BY <1>10, <2>1, <2>2, <2>3, <2>4, <2>5
<1>11. 2 \in 1..Len(p) /\ 2 \in 1..Len(b) /\ b[2] \in Nat
  <2>1. 2 \in 1..Len(p) /\ 2 \in 1..Len(b)
    <3>1. n \in Nat /\ HashLen \in Nat /\ 2 <= n
      BY <1>1
    <3> HIDE DEF n, p
    <3>2. Len(p) = n + HashLen
      BY <1>7
    <3>3. n + HashLen <= Len(b) /\ Len(b) \in Nat
      BY <1>1, <1>2
    <3>4. Len(p) \in Int /\ Len(b) \in Int /\ 2 <= Len(p) /\ 2 <= Len(b)
      BY <3>1, <3>2, <3>3
    <3> QED BY <3>4
  <2> QED BY <1>1, <2>1, ElementOfSeq
<1>12. /\ q \in Seq(Nat) /\ Len(q) = n + HashLen /\ q[2] = b[2]
       /\ \A k \in 1..(n + HashLen) : k # 2 => q[k] = p[k]
  <2>1. q \in Seq(Nat) /\ Len(q) = Len(p)
    BY <1>7, <1>11, ExceptSeq
  <2>2. DOMAIN p = 1..(n + HashLen)
    BY <1>7, LenProperties
  <2> HIDE DEF n
  <2> QED BY <1>7, <1>11, <2>1, <2>2
<1> HIDE DEF q, n
<1>13. ASSUME NEW k \in 1..(n + HashLen) PROVE q[k] = b[k]
  <2>1. CASE k = 2
    BY <1>12, <2>1
  <2>2. CASE k # 2 /\ k <= n
    <3>1. k \in 1..n
      BY <1>1, <2>2
    <3> QED BY <1>7, <1>10, <1>12, <2>2, <3>1
  <2>3. CASE k # 2 /\ ~(k <= n)
    <3> DEFINE i == k - n
    <3>1. i \in 1..HashLen /\ n + i = k
      BY <1>1, <2>3
    <3>2. q[k] = w[i]
      BY <1>7, <1>12, <2>3
    <3> HIDE DEF i
    <3> QED BY <1>3, <3>1, <3>2
  <2> QED BY <2>1, <2>2, <2>3
<1>14. IsPrefix(q, b)
  BY <1>1, <1>2, <1>12, <1>13, PrefixByPositions
<1>15. q = [ContractEntry(SubSeq(b, 4, 3 + HashLen), WasmHashFromEntry(b)) EXCEPT ![2] = b[2]]
  BY <1>2, <1>4, <1>5 DEF q, p
<1> QED BY <1>2, <1>3, <1>14, <1>15

-----------------------------------------------------------------------------
(***************************************************************************)
(* Onchain: the invariant                                                  *)
(***************************************************************************)

\* What each step has read: the node's answer decodes, and the sealed hash is
\* that of the artifact asked for.
OnchainInv ==
  /\ TypeOK
  /\ answer \in Answers
  /\ pc = "select" => sealed = None
  /\ pc \in {"select", "fetch"} => deployed = None /\ events = None
  /\ pc \in {"fetch", "compare", "pass", "fail"} =>
       Positions # {} /\ sealed = record[Min(Positions)].wasm
  /\ pc \in {"compare", "pass", "fail"} =>
       /\ deployed = WasmHashFromEntry(answer.entry) /\ deployed \notin {None, Error}
       /\ events = DecodeUpgradeEvent(answer.topics)
  /\ pc = "pass" => deployed = sealed
  /\ pc = "error" =>
       /\ deployed = None /\ events = None
       /\ sealed # None =>
            \/ NormalizeContractId(text) = Error
            \/ WasmHashFromEntry(answer.entry) \in {None, Error}

\* The position chosen is one of the record's, and the first.
LEMMA Chosen ==
  ASSUME record \in Records, Positions # {}
  PROVE  /\ Min(Positions) \in Positions /\ Min(Positions) \in 1..Len(record)
         /\ record[Min(Positions)] \in [id : Artifacts, wasm : Hashes]
         /\ choice = None => Min(Positions) = 1
<1>1. record \in Seq([id : Artifacts, wasm : Hashes])
  BY OnchainAssumption
<1>2. Len(record) \in Nat /\ DOMAIN record = 1..Len(record)
  BY <1>1, LenProperties
<1>3. Positions \subseteq 1..Len(record) /\ Positions \subseteq Int
  BY <1>2 DEF Positions
<1>5. Min(Positions) \in Positions /\ \A i \in Positions : Min(Positions) <= i
  BY <1>2, <1>3, PositionsHaveMin
<1>6. ASSUME choice = None PROVE Min(Positions) = 1
  <2>1. 1 \in Positions
    <3>1. 1 \in DOMAIN record
      <4>1. PICK k \in Positions : TRUE
        OBVIOUS
      <4>2. k \in 1..Len(record)
        BY <1>3
      <4> QED BY <1>2, <4>2
    <3> QED BY <1>6, <3>1 DEF Positions
  <2>2. Min(Positions) <= 1
    BY <1>5, <2>1
  <2>3. Min(Positions) \in 1..Len(record)
    BY <1>3, <1>5
  <2> QED BY <1>2, <2>2, <2>3
<1>7. Min(Positions) \in 1..Len(record)
  BY <1>3, <1>5
<1>8. record[Min(Positions)] \in [id : Artifacts, wasm : Hashes]
  BY <1>1, <1>7, ElementOfSeq
<1> QED BY <1>5, <1>6, <1>7, <1>8

\* What the decoder of events answers.
LEMMA EventRead ==
  ASSUME NEW topics \in Seq(Seq(Tokens)), DecodeUpgradeEvent(topics) # Error
  PROVE  /\ Len(topics) = 3
         /\ IsPrefix(<<Symbol, Len(Update)>> \o Update, topics[1])
         /\ DecodeUpgradeEvent(topics) \in Hashes \X Hashes
         /\ \A k \in 1..2 : IsPrefix(WasmTopic(DecodeUpgradeEvent(topics)[k]), topics[k + 1])
<1>1. /\ Len(topics) = 3 /\ IsExecutableUpdate(topics[1])
      /\ DecodeWasmExecutable(topics[2]) # Error /\ DecodeWasmExecutable(topics[3]) # Error
      /\ DecodeUpgradeEvent(topics) =
           <<DecodeWasmExecutable(topics[2]), DecodeWasmExecutable(topics[3])>>
  BY DEF DecodeUpgradeEvent
<1>2. topics[1] \in Seq(Tokens) /\ topics[2] \in Seq(Tokens) /\ topics[3] \in Seq(Tokens)
  <2>1. \A k \in 1..3 : topics[k] \in Seq(Tokens)
    BY <1>1, ElementOfSeq
  <2> QED BY <2>1
<1>3. IsPrefix(<<Symbol, Len(Update)>> \o Update, topics[1])
  BY <1>1, <1>2, UpdateRead
<1> DEFINE w == DecodeWasmExecutable(topics[2])
           v == DecodeWasmExecutable(topics[3])
<1>4. /\ w \in Hashes /\ v \in Hashes
      /\ IsPrefix(WasmTopic(w), topics[2]) /\ IsPrefix(WasmTopic(v), topics[3])
  BY <1>1, <1>2, WasmRead
<1> HIDE DEF w, v
<1>5. DecodeUpgradeEvent(topics) = <<w, v>>
  BY <1>1 DEF w, v
<1>6. \A k \in 1..2 : IsPrefix(WasmTopic(<<w, v>>[k]), topics[k + 1])
  <2> SUFFICES ASSUME NEW k \in 1..2 PROVE IsPrefix(WasmTopic(<<w, v>>[k]), topics[k + 1])
    OBVIOUS
  <2>1. CASE k = 1
    <3>1. <<w, v>>[k] = w /\ k + 1 = 2
      BY <2>1
    <3> QED BY <1>4, <3>1
  <2>2. CASE k = 2
    <3>1. <<w, v>>[k] = v /\ k + 1 = 3
      BY <2>2
    <3> QED BY <1>4, <3>1
  <2> QED BY <2>1, <2>2
<1> QED BY <1>1, <1>3, <1>4, <1>5, <1>6

\* The topics of an upgrade are decoded to its two hashes.
LEMMA EventWritten ==
  ASSUME NEW w \in Hashes, NEW v \in Hashes
  PROVE  DecodeUpgradeEvent(<<SymbolTopic, WasmTopic(w), WasmTopic(v)>>) = <<w, v>>
<1> DEFINE t == <<SymbolTopic, WasmTopic(w), WasmTopic(v)>>
<1>1. Len(t) = 3 /\ t[1] = SymbolTopic /\ t[2] = WasmTopic(w) /\ t[3] = WasmTopic(v)
  OBVIOUS
<1> HIDE DEF t
<1>2. DecodeWasmExecutable(t[2]) = w /\ DecodeWasmExecutable(t[3]) = v /\ w # Error /\ v # Error
  BY <1>1, WasmWritten, HashIsSeq
<1>3. IsExecutableUpdate(t[1])
  BY <1>1, UpdateWritten
<1>4. \A k \in {2, 3} : DecodeWasmExecutable(t[k]) # Error
  BY <1>2
<1> QED BY <1>1, <1>2, <1>3, <1>4 DEF DecodeUpgradeEvent, t

\* Every step keeps the invariant.
LEMMA OnchainInvStep ==
  ASSUME OnchainInv, [Next]_vars
  PROVE  OnchainInv'
<1> USE DEF inputs
<1>1. CASE Select
  <2>1. pc = "select" /\ UNCHANGED inputs /\ Positions' = Positions /\ TypeOK /\ answer \in Answers
        /\ deployed = None /\ events = None /\ sealed = None
    BY <1>1 DEF Select, Positions, OnchainInv
  <2>2. CASE /\ Positions # {} /\ sealed' = record[Min(Positions)].wasm
             /\ pc' = "fetch" /\ UNCHANGED <<deployed, events>>
    <3>1. record[Min(Positions)] \in [id : Artifacts, wasm : Hashes]
      BY <2>1, <2>2, Chosen DEF TypeOK
    <3>2. sealed' \in Hashes
      BY <2>2, <3>1
    <3> HIDE DEF Positions
    <3> QED BY <2>1, <2>2, <3>2 DEF OnchainInv, TypeOK
  <2>3. CASE Positions = {} /\ Fails
    BY <2>1, <2>3 DEF OnchainInv, TypeOK, Fails
  <2> QED BY <1>1, <2>2, <2>3 DEF Select
<1>2. CASE Fetch
  <2> DEFINE wasm == WasmHashFromEntry(answer.entry)
             ev == DecodeUpgradeEvent(answer.topics)
  <2>1. /\ pc = "fetch" /\ UNCHANGED inputs /\ Positions' = Positions
        /\ TypeOK /\ answer \in Answers
        /\ deployed = None /\ events = None
        /\ Positions # {} /\ sealed = record[Min(Positions)].wasm
    BY <1>2 DEF Fetch, Positions, OnchainInv
  <2>2. answer.entry \in Seq(Tokens) /\ answer.topics \in Seq(Seq(Tokens))
    BY <2>1, OnchainAssumption
  <2>3. CASE /\ NormalizeContractId(text) # Error /\ wasm \notin {None, Error}
             /\ deployed' = wasm /\ events' = ev
             /\ pc' = "compare" /\ UNCHANGED sealed
    <3>1. wasm \in Hashes
      BY <2>2, <2>3, EntryRead
    <3>2. ev \in (Hashes \X Hashes) \cup {Error}
      BY <2>2, EventRead
    <3>3. WasmHashFromEntry(answer.entry)' = wasm /\ DecodeUpgradeEvent(answer.topics)' = ev
      BY <2>1
    <3> HIDE DEF Positions, wasm, ev
    <3> QED BY <2>1, <2>3, <3>1, <3>2, <3>3 DEF OnchainInv, TypeOK, wasm, ev
  <2>4. CASE (NormalizeContractId(text) = Error \/ wasm \in {None, Error}) /\ Fails
    BY <2>1, <2>4 DEF OnchainInv, TypeOK, Fails
  <2> QED BY <1>2, <2>3, <2>4 DEF Fetch
<1>3. CASE Compare
  <2>1. Positions' = Positions /\ UNCHANGED <<inputs, sealed, deployed, events>> /\ pc = "compare"
        /\ pc' = (IF deployed = sealed THEN "pass" ELSE "fail")
    BY <1>3 DEF Compare, Positions
  <2> QED BY <2>1 DEF OnchainInv, TypeOK
<1>4. CASE UNCHANGED vars
  BY <1>4 DEF vars, OnchainInv, TypeOK, Positions
<1> QED BY <1>1, <1>2, <1>3, <1>4 DEF Next

\* The invariant says what the decoders and the verdict should be.
LEMMA DecodersCorrectIn ==
  ASSUME OnchainInv
  PROVE  DecodersCorrect
<1>1. answer.entry \in Seq(Tokens) /\ answer.topics \in Seq(Seq(Tokens)) /\ TypeOK
  BY OnchainAssumption DEF OnchainInv
<1>2. EntryHashIsEncoded
  BY <1>1, EntryRead DEF OnchainInv, EntryHashIsEncoded
<1>3. EventIsEncoded
  <2> SUFFICES ASSUME events \notin {None, Error}
               PROVE  /\ Len(answer.topics) = 3
                      /\ IsPrefix(<<Symbol, Len(Update)>> \o Update, answer.topics[1])
                      /\ \A k \in 1..2 : IsPrefix(WasmTopic(events[k]), answer.topics[k + 1])
    BY DEF EventIsEncoded
  <2>1. events = DecodeUpgradeEvent(answer.topics)
    BY <1>1 DEF OnchainInv, TypeOK
  <2> QED BY <1>1, <2>1, EventRead
<1>4. SimulatedIsRead
  <2> SUFFICES ASSUME NEW id \in Served, NEW w \in Served, NEW v \in Served,
                      answer.entry = ContractEntry(id, w), sealed # None
               PROVE  /\ pc = "error" => NormalizeContractId(text) = Error
                      /\ pc \in {"compare", "pass", "fail"} =>
                           /\ deployed = w
                           /\ answer.topics = <<SymbolTopic, WasmTopic(w), WasmTopic(v)>> => events = <<w, v>>
    BY DEF SimulatedIsRead
  <2>1. id \in Hashes /\ w \in Hashes /\ v \in Hashes
    BY OnchainAssumption
  <2>2. WasmHashFromEntry(answer.entry) = w /\ w \notin {None, Error}
    BY <2>1, EntryWritten, HashIsSeq
  <2>3. answer.topics = <<SymbolTopic, WasmTopic(w), WasmTopic(v)>> =>
          DecodeUpgradeEvent(answer.topics) = <<w, v>>
    BY <2>1, EventWritten
  <2> QED BY <2>2, <2>3 DEF OnchainInv
<1>5. PassMeansChosen
  <2> SUFFICES ASSUME pc = "pass"
               PROVE  /\ choice # None =>
                           \E k \in DOMAIN record : record[k] = [id |-> choice, wasm |-> deployed]
                      /\ choice = None => record[1].wasm = deployed
    BY DEF PassMeansChosen
  <2> DEFINE m == Min(Positions)
  <2>1. Positions # {} /\ deployed = record[m].wasm /\ record \in Records
    BY DEF OnchainInv, TypeOK
  <2>2. /\ m \in Positions /\ record[m] \in [id : Artifacts, wasm : Hashes]
        /\ choice = None => m = 1
    BY <2>1, Chosen
  <2> HIDE DEF m
  <2>3. m \in DOMAIN record /\ choice \in {None, record[m].id}
    BY <2>2 DEF Positions
  <2>4. choice # None => record[m] = [id |-> choice, wasm |-> deployed]
    BY <2>1, <2>2, <2>3
  <2> QED BY <2>1, <2>2, <2>3, <2>4
<1> QED BY <1>1, <1>2, <1>3, <1>4, <1>5 DEF DecodersCorrect

\* The decoders of onchain.rs read from any bytes a node answers with what they
\* encode, those of sim.rs included, and onchain-verify passes on the artifact
\* asked for and no other.
THEOREM DecodersAgree == Spec => []DecodersCorrect
<1>1. Init => OnchainInv
  BY DEF Init, OnchainInv, TypeOK
<1>2. OnchainInv /\ [Next]_vars => OnchainInv'
  BY OnchainInvStep
<1>3. OnchainInv => DecodersCorrect
  BY DecodersCorrectIn
<1> QED BY <1>1, <1>2, <1>3, PTL DEF Spec
-----------------------------------------------------------------------------
(***************************************************************************)
(* Simulate                                                                *)
(***************************************************************************)

\* The upgrades simulated, between wasms of the record.
Upgrade == [ledger : Nat, old : Wasms, new : Wasms]

\* The members of an interval from 1 are its positions.
LEMMA AscendingAll ==
  ASSUME NEW n \in Nat
  PROVE  Ascending(1..n) = [k \in 1..n |-> k]
<1> DEFINE S == 1..n
           f == [k \in 1..n |-> k]
<1>1. f \in [1..n -> S] /\ \A k \in 1..n : f[k] = k
  OBVIOUS
<1>2. S \subseteq 1..n /\ S = 1..n
  OBVIOUS
<1> HIDE DEF f, S
<1>3. \A k, l \in 1..n : k < l => f[k] < f[l]
  BY <1>1
<1>4. \A i \in S : \E k \in 1..n : f[k] = i
  BY <1>1, <1>2
<1>5. Cardinality(S) = n /\ Ascending(S) = f
  BY <1>1, <1>2, <1>3, <1>4, AscendingUnique
<1> QED BY <1>5 DEF f, S

\* The artifacts gone through are the first of the record's, at least one.
LEMMA ChainFacts ==
  ASSUME prov \in Seq(Wasms), prov # <<>>, upgrades \in Nat \cup {Default}
  PROVE  /\ Chain \in Seq(Wasms) /\ Len(Chain) \in 1..Len(prov)
         /\ \A i \in 1..Len(Chain) : Chain[i] = prov[i]
         /\ upgrades = Default => Chain = prov
<1> DEFINE n == Len(prov)
           m == Min({upgrades + 1, n})
<1>1. n \in Nat /\ 1 <= n
  BY EmptySeq, LenProperties
<1>2. CASE upgrades = Default
  BY <1>1, <1>2 DEF Chain
<1>3. CASE upgrades \in Nat /\ upgrades # Default
  <2>1. Chain = SubSeq(prov, 1, m)
    BY <1>3 DEF Chain
  <2>2. m \in Int /\ 1 <= m /\ m <= n
    <3>1. \E x \in {upgrades + 1, n} : \A y \in {upgrades + 1, n} : x <= y
      BY <1>1, <1>3
    <3>2. m \in {upgrades + 1, n} /\ \A y \in {upgrades + 1, n} : m <= y
      BY <3>1 DEF Min
    <3> HIDE DEF m
    <3> QED BY <1>1, <1>3, <3>2
  <2> HIDE DEF m
  <2>3. \A i \in 1..m : prov[i] \in Wasms
    BY <1>1, <2>2, ElementOfSeq
  <2>4. /\ SubSeq(prov, 1, m) \in Seq(Wasms)
        /\ Len(SubSeq(prov, 1, m)) = (IF 1 <= m THEN m - 1 + 1 ELSE 0)
        /\ \A i \in 1..(m - 1 + 1) : SubSeq(prov, 1, m)[i] = prov[1 + i - 1]
    BY <2>2, <2>3, SubSeqProperties
  <2>5. Len(Chain) = m
    BY <2>1, <2>2, <2>4
  <2>6. ASSUME NEW i \in 1..m PROVE Chain[i] = prov[i]
    <3>1. m - 1 + 1 = m /\ 1 + i - 1 = i
      BY <2>2
    <3> QED BY <2>1, <2>4, <3>1
  <2>7. m \in 1..n
    BY <1>1, <2>2
  <2> QED BY <1>3, <2>1, <2>4, <2>5, <2>6, <2>7
<1> QED BY <1>2, <1>3

\* There is an upgrade between each two of them.
LEMMA EventsFacts ==
  ASSUME Chain \in Seq(Wasms), Chain # <<>>
  PROVE  /\ Events \in Seq(Upgrade) /\ Len(Events) = Len(Chain) - 1
         /\ Len(Chain) \in Nat /\ 1 <= Len(Chain)
         /\ \A i \in 1..(Len(Chain) - 1) : Events[i] = Event(i)
         /\ \A i \in 1..(Len(Chain) - 1) : Event(i).old = Chain[i] /\ Event(i).new = Chain[i + 1]
                                            /\ Event(i).ledger = 1000 + i * 1000
<1> DEFINE n == Len(Chain)
<1>1. n \in Nat /\ 1 <= n /\ n - 1 \in Nat
  BY EmptySeq, LenProperties
<1>2. ASSUME NEW i \in 1..(n - 1)
      PROVE  /\ Event(i).old = Chain[i] /\ Event(i).new = Chain[i + 1]
             /\ Event(i).ledger = 1000 + i * 1000 /\ Event(i) \in Upgrade
  <2>1. i \in 1..n /\ i + 1 \in 1..n /\ 1000 + i * 1000 \in Nat
    BY <1>1
  <2>2. Chain[i] \in Wasms /\ Chain[i + 1] \in Wasms
    BY <2>1, ElementOfSeq
  <2> QED BY <2>1, <2>2 DEF Event, Upgrade
<1>3. Events = [i \in 1..(n - 1) |-> Event(i)]
  BY DEF Events
<1>4. Events \in [1..(n - 1) -> Upgrade]
  BY <1>2, <1>3
<1>5. Events \in Seq(Upgrade)
  BY <1>1, <1>4, SeqDef
<1>6. Len(Events) = n - 1
  BY <1>1, <1>4, <1>5, LenProperties
<1> QED BY <1>1, <1>2, <1>3, <1>5, <1>6

\* A scan of the whole window finds every upgrade.
LEMMA ScanFindsAll ==
  ASSUME Chain \in Seq(Wasms), Chain # <<>>
  PROVE  Scan(Oldest, Latest) = Events
<1> DEFINE n == Len(Events)
           all == [k \in 1..n |-> k]
           A == {i \in 1..Len(Answer(Oldest)) : Answer(Oldest)[i].ledger <= Latest}
<1>1. Answer(Oldest) = Events
  BY DEF Answer, Oldest
<1>2. n \in Nat /\ Len(Chain) \in Nat /\ n = Len(Chain) - 1 /\ Events \in Seq(Upgrade)
  BY EventsFacts, LenProperties
<1>3. ASSUME NEW i \in 1..n PROVE Events[i].ledger <= Latest
  <2>1. Events[i].ledger = 1000 + i * 1000
    BY <1>2, EventsFacts
  <2>2. i \in Int /\ i <= Len(Chain) /\ Latest = 1000 + Len(Chain) * 1000
    BY <1>2 DEF Latest
  <2> QED BY <1>2, <2>1, <2>2
<1>4. A = 1..n
  BY <1>1, <1>3
<1>5. Ascending(1..n) = all
  BY <1>2, AscendingAll
<1>6. Ascending(A) = all
  <2> HIDE DEF A
  <2> QED BY <1>4, <1>5
<1>7. all \in Seq(1..n) /\ Len(all) = n /\ \A k \in 1..n : all[k] = k
  <2>1. all \in [1..n -> 1..n] /\ \A k \in 1..n : all[k] = k
    OBVIOUS
  <2> HIDE DEF all, n
  <2>2. all \in Seq(1..n)
    BY <1>2, <2>1, SeqDef
  <2> QED BY <1>2, <2>1, <2>2, LenProperties
<1>8. Scan(Oldest, Latest) = [k \in 1..Len(Ascending(A)) |-> Answer(Oldest)[Ascending(A)[k]]]
  BY DEF Scan
<1> HIDE DEF A, all, n
<1>9. Scan(Oldest, Latest) = [k \in 1..n |-> Events[k]]
  BY <1>1, <1>6, <1>7, <1>8
<1>10. Events = [k \in 1..n |-> Events[k]]
  BY <1>2, LenProperties DEF n
<1> QED BY <1>9, <1>10

\* Where the runs of equal members of a sequence begin: at the start, and after
\* each change.
FirstsAfter(F, T) ==
  /\ Cardinality(T) \in Nat
  /\ Cardinality(F) = Cardinality(T) + 1
  /\ Ascending(F) = [k \in 1..(Cardinality(T) + 1) |->
                       IF k = 1 THEN 1 ELSE Ascending(T)[k - 1] + 1]

\* The first positions of the runs of a sequence are those after its changes.
LEMMA FirstsOfRuns ==
  ASSUME NEW s, NEW n \in Nat, 1 <= n
  PROVE  LET T == {i \in 1..(n - 1) : s[i] # s[i + 1]}
             F == {i \in 1..n : i > 1 => s[i] # s[i - 1]}
         IN  FirstsAfter(F, T)
<1> DEFINE T == {i \in 1..(n - 1) : s[i] # s[i + 1]}
           F == {i \in 1..n : i > 1 => s[i] # s[i - 1]}
           c == Cardinality(T)
           A == Ascending(T)
           f == [k \in 1..(c + 1) |-> IF k = 1 THEN 1 ELSE A[k - 1] + 1]
<1>1. T \subseteq 1..(n - 1) /\ F \subseteq 1..n /\ n - 1 \in Nat
  OBVIOUS
<1>2. 1 \in F /\ \A i \in T : i + 1 \in F
  <2>1. 1 \in F
    OBVIOUS
  <2>2. ASSUME NEW i \in T PROVE i + 1 \in F
    <3>1. i + 1 \in 1..n /\ i + 1 - 1 = i /\ s[i] # s[i + 1]
      OBVIOUS
    <3> QED BY <3>1
  <2> QED BY <2>1, <2>2
<1>3. \A i \in F : i = 1 \/ i - 1 \in T
  <2> SUFFICES ASSUME NEW i \in F, i # 1 PROVE i - 1 \in T
    OBVIOUS
  <2>1. i > 1 /\ i - 1 \in 1..(n - 1) /\ (i - 1) + 1 = i
    OBVIOUS
  <2>2. s[i] # s[i - 1]
    BY <2>1
  <2> QED BY <2>1, <2>2
<1> HIDE DEF T, F
<1>4. /\ c \in Nat /\ A \in [1..c -> T]
      /\ \A i \in T : UpTo(T, i) \in 1..c /\ A[UpTo(T, i)] = i
      /\ \A k, l \in 1..c : k < l => A[k] < A[l]
  BY <1>1, AscendingProperties
<1> HIDE DEF c, A
<1>5. ASSUME NEW k \in 1..c PROVE A[k] \in T /\ A[k] \in Int /\ 1 <= A[k] /\ A[k] + 1 \in F
  <2>1. A[k] \in T
    BY <1>4
  <2>2. A[k] \in 1..(n - 1)
    BY <1>1, <2>1
  <2>3. A[k] \in Int /\ 1 <= A[k]
    BY <2>2
  <2> QED BY <1>2, <2>1, <2>3
<1>6. f[1] = 1 /\ \A k \in 1..c : f[k + 1] = A[k] + 1
  <2>1. 1 \in 1..(c + 1)
    BY <1>4
  <2>2. ASSUME NEW k \in 1..c PROVE f[k + 1] = A[k] + 1
    <3>1. k + 1 \in 1..(c + 1) /\ k + 1 # 1 /\ (k + 1) - 1 = k
      BY <1>4
    <3> QED BY <3>1
  <2> QED BY <2>1, <2>2
<1>7. \A k \in 1..(c + 1) : k = 1 \/ (k - 1 \in 1..c /\ (k - 1) + 1 = k)
  BY <1>4
<1>8. f \in [1..(c + 1) -> F]
  <2>1. f = [k \in 1..(c + 1) |-> f[k]]
    OBVIOUS
  <2> HIDE DEF f
  <2>2. \A k \in 1..(c + 1) : f[k] \in F
    BY <1>2, <1>5, <1>6, <1>7
  <2> QED BY <2>1, <2>2
<1> HIDE DEF f
<1>9. ASSUME NEW k \in 1..(c + 1), NEW l \in 1..(c + 1), k < l PROVE f[k] < f[l]
  <2>1. l # 1 /\ l - 1 \in 1..c /\ (l - 1) + 1 = l
    BY <1>4, <1>9
  <2>2. f[l] = A[l - 1] + 1 /\ A[l - 1] \in Int /\ 1 <= A[l - 1]
    BY <1>5, <1>6, <2>1
  <2>3. CASE k = 1
    BY <1>6, <2>2, <2>3
  <2>4. CASE k # 1
    <3>1. k - 1 \in 1..c /\ k - 1 < l - 1
      BY <1>4, <1>7, <1>9, <2>4
    <3>2. f[k] = A[k - 1] + 1 /\ A[k - 1] \in Int
      BY <1>5, <1>6, <1>7, <2>4
    <3>3. A[k - 1] < A[l - 1]
      BY <1>4, <2>1, <3>1
    <3> QED BY <2>2, <3>2, <3>3
  <2> QED BY <2>3, <2>4
<1>10. ASSUME NEW i \in F PROVE \E k \in 1..(c + 1) : f[k] = i
  <2>1. CASE i = 1
    BY <1>4, <1>6, <2>1
  <2>2. CASE i - 1 \in T
    <3> DEFINE k == UpTo(T, i - 1)
    <3>1. k \in 1..c /\ A[k] = i - 1
      BY <1>4, <2>2
    <3> HIDE DEF k
    <3>2. k + 1 \in 1..(c + 1) /\ f[k + 1] = (i - 1) + 1 /\ i \in Int
      BY <1>1, <1>4, <1>6, <3>1
    <3>3. (i - 1) + 1 = i
      BY <3>2
    <3> QED BY <3>2, <3>3
  <2> QED BY <1>3, <2>1, <2>2
<1>11. Cardinality(F) = c + 1 /\ Ascending(F) = f
  <2>1. c + 1 \in Nat
    BY <1>4
  <2> DEFINE d == c + 1
  <2> HIDE DEF d
  <2>2. d \in Nat /\ f \in [1..d -> F]
        /\ (\A k, l \in 1..d : k < l => f[k] < f[l])
        /\ (\A i \in F : \E k \in 1..d : f[k] = i)
    BY <1>8, <1>9, <1>10, <2>1 DEF d
  <2>3. Cardinality(F) = d /\ Ascending(F) = f
    BY <1>1, <2>2, AscendingUnique
  <2> QED BY <2>3 DEF d
<1> QED BY <1>4, <1>11 DEF FirstsAfter, f, A, c, T, F

\* A deployed wasm no event knows is the last version, and the only current one.
LEMMA UnseenIsLast ==
  ASSUME NEW W, NEW cur \in W, NEW E, NEW evs \in Seq(E),
         \A e \in E : EventOf(e, W),
         \A i \in 1..Len(evs) : evs[i].old # cur /\ evs[i].new # cur
  PROVE  LET v == Versions(evs, cur)
         IN  /\ v \in Seq(RowsOf(W)) /\ Len(v) \in Nat \ {0}
             /\ \A k \in 1..Len(v) : v[k].current <=> k = Len(v)
             /\ v[Len(v)].wasm = cur
<1> DEFINE rows == Rows(evs, cur)
           L == Len(rows)
           n == Len(evs)
           c == Merging(rows)[L - 1]
           l == Len(c)
           v == Versions(evs, cur)
           own == Row(cur, 0, 0, TRUE)
<1>0. own.wasm = cur /\ own.current = TRUE
  BY DEF Row
<1> HIDE DEF own
<1>1. n \in Nat
  BY LenProperties
<1>2. /\ rows \in Seq(RowsOf(W)) /\ L \in Nat \ {0}
      /\ rows[L] = own
      /\ \A r \in 1..(L - 1) : rows[r].wasm # cur /\ rows[r].current = FALSE
  <2>1. CASE evs = <<>>
    <3>1. rows = <<own>> /\ rows \in Seq(RowsOf(W))
      BY <2>1, RowsOfNoEvents DEF own
    <3>2. L = 1 /\ rows[1] = own
      BY <3>1
    <3> HIDE DEF rows
    <3> HIDE DEF L
    <3>3. 1..(L - 1) = {} /\ L \in Nat \ {0}
      BY <3>2
    <3> QED BY <3>1, <3>2, <3>3
  <2>2. CASE evs # <<>>
    <3>1. RowPerEvent(rows, evs, cur, W)
      BY <2>2, RowsOfEvents
    <3>2. n \in 1..n /\ 1 \in 1..n
      BY <2>2, EmptySeq, LenProperties
    <3> DEFINE same == evs[n].new = cur
    <3>6. ~same
      BY <3>2
    <3> HIDE DEF rows, n
    <3>3. /\ rows \in Seq(RowsOf(W)) /\ L = n + 2
          /\ rows[1] = Row(evs[1].old, 0, evs[1].ledger, FALSE)
          /\ \A i \in 1..n : /\ rows[i + 1].wasm = evs[i].new
                            /\ (rows[i + 1].current <=> (i = n /\ same))
          /\ rows[n + 2] = own
      BY <3>1, <3>6 DEF RowPerEvent, n, own
    <3> HIDE DEF same
    <3>4. ASSUME NEW r \in 1..(L - 1) PROVE rows[r].wasm # cur /\ rows[r].current = FALSE
      <4>1. CASE r = 1
        BY <3>2, <3>3, <4>1 DEF Row, n
      <4>2. CASE r # 1
        <5> DEFINE i == r - 1
        <5>1. i \in 1..n /\ i + 1 = r /\ r \in 1..L
          BY <1>1, <3>3, <4>2
        <5> HIDE DEF i
        <5>2. evs[i].new # cur
          BY <5>1 DEF n
        <5>3. rows[r] \in RowsOf(W)
          BY <3>3, <5>1, ElementOfSeq
        <5>4. rows[r].current \in BOOLEAN
          BY <5>3 DEF RowsOf
        <5>5. rows[i + 1].wasm = evs[i].new /\ (rows[i + 1].current <=> (i = n /\ same))
          BY <3>3, <5>1
        <5>6. ~rows[r].current
          BY <3>6, <5>1, <5>5
        <5> QED BY <5>1, <5>2, <5>4, <5>5, <5>6
      <4> QED BY <4>1, <4>2
    <3>5. L \in Nat \ {0}
      BY <1>1, <3>3
    <3> QED BY <3>3, <3>4, <3>5
  <2> QED BY <2>1, <2>2
<1> HIDE DEF rows
<1>3. v = Merge(c, rows[L])
  <2>1. Merging(rows)[L] = Merge(Merging(rows)[L - 1], rows[L])
    BY <1>2, MergingDef
  <2> QED BY <2>1 DEF Versions, CollapseNoops, rows
<1>4. Condenses(c, rows, L - 1, W)
  BY <1>2, MergingCondenses
<1> HIDE DEF c, v
<1>5. /\ c \in Seq(RowsOf(W)) /\ l \in Nat
      /\ \A k \in 1..l : c[k].wasm # cur /\ c[k].current = FALSE
  <2>1. c \in Seq(RowsOf(W)) /\ l \in Nat
    BY <1>4, LenProperties DEF Condenses
  <2>2. PICK g \in [1..l -> 1..(L - 1)] : \A k \in 1..l : c[k].wasm = rows[g[k]].wasm
    BY <1>4 DEF Condenses
  <2>3. ASSUME NEW k \in 1..l PROVE c[k].wasm # cur /\ c[k].current = FALSE
    <3>1. g[k] \in 1..(L - 1)
      BY <2>2
    <3>2. c[k].current \in BOOLEAN
      <4>1. c[k] \in RowsOf(W)
        BY <2>1, ElementOfSeq
      <4> QED BY <4>1 DEF RowsOf
    <3>3. ~c[k].current
      BY <1>2, <1>4 DEF Condenses
    <3> QED BY <1>2, <2>2, <3>1, <3>2, <3>3
  <2> QED BY <2>1, <2>3
<1>6. rows[L].wasm = cur /\ rows[L].current = TRUE /\ rows[L] \in RowsOf(W)
  <2>1. L \in 1..Len(rows)
    BY <1>2
  <2>2. rows[L] \in RowsOf(W)
    BY <1>2, <2>1, ElementOfSeq
  <2>3. rows[L] = own
    BY <1>2
  <2> QED BY <1>0, <2>2, <2>3
<1>7. c = <<>> \/ c[l].wasm # rows[L].wasm
  <2>1. CASE c # <<>>
    <3>1. l \in 1..l
      BY <1>5, <2>1, EmptySeq
    <3> QED BY <1>5, <1>6, <3>1
  <2> QED BY <2>1
<1>8. /\ v \in Seq(RowsOf(W)) /\ Len(v) = l + 1
      /\ \A k \in 1..l : v[k] = c[k]
      /\ v[l + 1] = rows[L]
  BY <1>3, <1>5, <1>6, <1>7, MergeAppends
<1>9. ASSUME NEW k \in 1..Len(v) PROVE v[k].current <=> k = Len(v)
  <2>1. k \in 1..l \/ k = l + 1
    BY <1>5, <1>8
  <2>2. l + 1 \notin 1..l
    BY <1>5
  <2> QED BY <1>5, <1>6, <1>8, <2>1, <2>2
<1> QED BY <1>5, <1>6, <1>8, <1>9 DEF v

\* What the command reports of the record and the options.
SimResult ==
  LET found == Scan(Oldest, Latest)
  IN  IF prov = <<>> THEN [failed |-> TRUE]
      ELSE [match |-> Matches,
            attested |-> CurrentAttested(found, Current, ToSet(prov)),
            consistent |-> ChainConsistent(found, Current),
            rows |-> Versions(found, Current)]

\* The invariant: the report is that of the arguments.
SimInv ==
  /\ prov \in BoundedSeq(Wasms, MaxLen)
  /\ named \in Firsts(prov)
  /\ upgrades \in (0..MaxLen) \cup {Default}
  /\ deploy \in Wasms \cup {Default}
  /\ out \in {<<>>, SimResult}

\* What is the case whatever was deployed.
LEMMA SimFacts ==
  ASSUME SimInv, prov # <<>>
  PROVE  /\ prov \in Seq(Wasms) /\ Len(prov) \in 1..Len(prov)
         /\ Chain \in Seq(Wasms) /\ Chain # <<>>
         /\ Len(Chain) \in 1..Len(prov) /\ Len(Chain) \in Nat \ {0}
         /\ \A i \in 1..Len(Chain) : Chain[i] \in ToSet(prov)
         /\ upgrades = Default => Chain = prov
         /\ named \in 1..Len(prov) /\ prov[named] \in ToSet(prov)
         /\ ToSet(prov) \subseteq Wasms
         /\ Current = (IF deploy = Default THEN Chain[Len(Chain)] ELSE deploy)
         /\ Current \in Wasms
<1>1. prov \in Seq(Wasms) /\ Len(prov) \in 1..Len(prov) /\ DOMAIN prov = 1..Len(prov)
  <2>1. PICK n \in 0..MaxLen : prov \in [1..n -> Wasms]
    BY DEF SimInv, BoundedSeq, SeqOf
  <2>2. prov \in Seq(Wasms)
    <3>1. n \in Nat
      BY <2>1, ConstantsAssumption
    <3> QED BY <2>1, <3>1, SeqDef
  <2> QED BY <2>2, EmptySeq, LenProperties
<1>2. upgrades \in Nat \cup {Default}
  BY ConstantsAssumption DEF SimInv
<1>3. /\ Chain \in Seq(Wasms) /\ Len(Chain) \in 1..Len(prov)
      /\ \A i \in 1..Len(Chain) : Chain[i] = prov[i]
      /\ upgrades = Default => Chain = prov
  BY <1>1, <1>2, ChainFacts
<1>4. Len(Chain) \in Nat \ {0} /\ Chain # <<>>
  BY <1>1, <1>3
<1>5. \A i \in 1..Len(prov) : prov[i] \in ToSet(prov)
  BY <1>1 DEF ToSet
<1>6. \A i \in 1..Len(Chain) : i \in 1..Len(prov)
  BY <1>1, <1>3
<1>7. ToSet(prov) \subseteq Wasms
  BY <1>1, ElementOfSeq DEF ToSet
<1>8. Current = (IF deploy = Default THEN Chain[Len(Chain)] ELSE deploy)
  BY DEF Current, Last
<1>9. Len(Chain) \in 1..Len(Chain) /\ Chain[Len(Chain)] \in ToSet(prov)
  BY <1>3, <1>4, <1>5, <1>6
<1>10. Current \in Wasms
  BY <1>7, <1>8, <1>9 DEF SimInv
<1>11. named \in 1..Len(prov)
  BY DEF SimInv, Firsts
<1> QED BY <1>1, <1>3, <1>4, <1>5, <1>6, <1>7, <1>8, <1>10, <1>11

\* The checks of the report, in terms of the artifacts gone through.
LEMMA SimUpgrades ==
  ASSUME SimInv, prov # <<>>
  PROVE  /\ Events \in Seq(Upgrade) /\ Len(Events) = Len(Chain) - 1
         /\ \A e \in Upgrade : EventOf(e, Wasms)
         /\ \A i \in 1..(Len(Chain) - 1) : Events[i].old = Chain[i] /\ Events[i].new = Chain[i + 1]
         /\ Events = <<>> <=> Len(Chain) = 1
         /\ ChainConsistent(Events, Current) <=> (Len(Chain) = 1 \/ Current = Chain[Len(Chain)])
         /\ CurrentAttested(Events, Current, ToSet(prov)) <=> Current \in ToSet(prov)
<1> DEFINE n == Len(Chain)
<1>1. Chain \in Seq(Wasms) /\ Chain # <<>> /\ n \in Nat \ {0} /\ Current \in Wasms
  BY SimFacts
<1>2. /\ Events \in Seq(Upgrade) /\ Len(Events) = n - 1
      /\ \A i \in 1..(n - 1) : Events[i].old = Chain[i] /\ Events[i].new = Chain[i + 1]
  BY <1>1, EventsFacts
<1>3. \A e \in Upgrade : EventOf(e, Wasms)
  BY DEF Upgrade, EventOf
<1>4. Events = <<>> <=> n = 1
  BY <1>1, <1>2, EmptySeq
<1>5. ChainConsistent(Events, Current) <=> (n = 1 \/ Current = Chain[n])
  <2> HIDE DEF n
  <2>1. ASSUME NEW i \in 1..(Len(Events) - 1) PROVE Events[i].new = Events[i + 1].old
    <3>1. i \in 1..(n - 1) /\ i + 1 \in 1..(n - 1)
      BY <1>1, <1>2
    <3> QED BY <1>2, <3>1
  <2>2. Events # <<>> => Last(Events).new = Chain[n]
    <3> SUFFICES ASSUME Events # <<>> PROVE Last(Events).new = Chain[n]
      OBVIOUS
    <3>1. n - 1 \in 1..(n - 1) /\ (n - 1) + 1 = n
      BY <1>1, <1>4
    <3>2. Last(Events) = Events[n - 1]
      BY <1>2 DEF Last
    <3> QED BY <1>2, <3>1, <3>2
  <2> QED BY <1>4, <2>1, <2>2 DEF ChainConsistent
<1>6. CurrentAttested(Events, Current, ToSet(prov)) <=> Current \in ToSet(prov)
  BY <1>1, <1>2, <1>3, CurrentIsDeployed
<1> QED BY <1>2, <1>3, <1>4, <1>5, <1>6

\* The wasms of the versions of a consistent report.
LEMMA ShownIsDistinct ==
  ASSUME SimInv, prov # <<>>, deploy = Default
  PROVE  LET v == Versions(Events, Current)
         IN  [k \in 1..Len(v) |-> v[k].wasm] = Distinct(Chain)
<1> DEFINE n == Len(Chain)
           T == {i \in 1..(n - 1) : Chain[i] # Chain[i + 1]}
           F == {i \in 1..n : i > 1 => Chain[i] # Chain[i - 1]}
           v == Versions(Events, Current)
           c == Cardinality(T)
<1>1. Chain \in Seq(Wasms) /\ n \in Nat \ {0} /\ Current \in Wasms /\ Current = Chain[n]
  BY SimFacts
<1>2. /\ Events \in Seq(Upgrade) /\ Len(Events) = n - 1
      /\ \A i \in 1..(n - 1) : Events[i].old = Chain[i] /\ Events[i].new = Chain[i + 1]
      /\ Events = <<>> <=> n = 1
      /\ \A e \in Upgrade : EventOf(e, Wasms)
      /\ ChainConsistent(Events, Current)
  BY <1>1, SimUpgrades
<1>3. Turns(Events) = T
  BY <1>2 DEF Turns
<1>4. /\ c \in Nat /\ Cardinality(F) = c + 1
      /\ Ascending(F) = [k \in 1..(c + 1) |-> IF k = 1 THEN 1 ELSE Ascending(T)[k - 1] + 1]
  <2>1. n \in Nat /\ 1 <= n
    BY <1>1
  <2> HIDE DEF n
  <2>2. FirstsAfter(F, T)
    BY <2>1, FirstsOfRuns
  <2> HIDE DEF F, T
  <2> QED BY <2>2 DEF FirstsAfter
<1>5. v = OneVersionPerTurn(Events, Current)
  BY <1>1, <1>2, ConsistentLineage
<1>6. Ascending(T) \in [1..c -> T] /\ T \subseteq 1..(n - 1)
  <2>1. T \subseteq 1..(n - 1) /\ n - 1 \in Nat
    BY <1>1
  <2> QED BY <2>1, AscendingProperties
<1>7. Distinct(Chain) = [k \in 1..Len(Ascending(F)) |-> Chain[Ascending(F)[k]]]
  BY DEF Distinct
<1> HIDE DEF T, F, c, v
<1>8. Ascending(F) \in Seq(Int) /\ Len(Ascending(F)) = c + 1
  <2>1. \A k \in 1..(c + 1) : (IF k = 1 THEN 1 ELSE Ascending(T)[k - 1] + 1) \in Int
    <3> SUFFICES ASSUME NEW k \in 1..(c + 1), k # 1 PROVE Ascending(T)[k - 1] + 1 \in Int
      OBVIOUS
    <3>1. k - 1 \in 1..c
      BY <1>4
    <3>2. Ascending(T)[k - 1] \in 1..(n - 1)
      BY <1>6, <3>1
    <3> QED BY <3>2
  <2>2. Ascending(F) \in [1..(c + 1) -> Int]
    BY <1>4, <2>1
  <2>3. Ascending(F) \in Seq(Int)
    BY <1>4, <2>2, SeqDef
  <2> QED BY <1>4, <2>2, <2>3, LenProperties
<1>9. v = [k \in 1..(c + 1) |->
             Row(TurnWasm(Events, Current, k), TurnFrom(Events, k),
                 IF k = c + 1 THEN 0 ELSE Events[Ascending(T)[k]].ledger, k = c + 1)]
  BY <1>3, <1>5 DEF OneVersionPerTurn, c
<1>10. Len(v) = c + 1
  BY <1>4, <1>9
<1>11. ASSUME NEW k \in 1..(c + 1) PROVE v[k].wasm = Chain[Ascending(F)[k]]
  <2>1. v[k].wasm = TurnWasm(Events, Current, k)
    BY <1>9, <1>11, RowFields
  <2>2. CASE k = 1
    <3>1. Ascending(F)[k] = 1
      BY <1>4, <2>2
    <3>2. TurnWasm(Events, Current, k) = IF Events = <<>> THEN Current ELSE Events[1].old
      BY <2>2 DEF TurnWasm
    <3>3. CASE Events = <<>>
      BY <1>1, <1>2, <2>1, <3>1, <3>2, <3>3
    <3>4. CASE Events # <<>>
      <4>1. 1 \in 1..(n - 1)
        BY <1>1, <1>2, <3>4
      <4> QED BY <1>2, <2>1, <3>1, <3>2, <3>4, <4>1
    <3> QED BY <3>3, <3>4
  <2>3. CASE k # 1
    <3> DEFINE i == Ascending(T)[k - 1]
    <3>1. k - 1 \in 1..c
      BY <1>4, <2>3
    <3>2. i \in 1..(n - 1)
      BY <1>6, <3>1
    <3>3. Ascending(F)[k] = i + 1
      BY <1>4, <2>3
    <3>4. TurnWasm(Events, Current, k) = Events[i].new
      BY <1>3, <2>3 DEF TurnWasm
    <3> HIDE DEF i
    <3> QED BY <1>2, <2>1, <3>2, <3>3, <3>4
  <2> QED BY <2>2, <2>3
<1>12. [k \in 1..Len(v) |-> v[k].wasm] = [k \in 1..Len(Ascending(F)) |-> Chain[Ascending(F)[k]]]
  BY <1>8, <1>10, <1>11
<1> QED BY <1>7, <1>12 DEF v

\* The report is the one SimulationCorrect describes.
LEMMA SimCorrect ==
  ASSUME SimInv
  PROVE  SimulationCorrect
<1>1. prov # <<>> => SimResult = [match |-> Matches,
                                  attested |-> CurrentAttested(Events, Current, ToSet(prov)),
                                  consistent |-> ChainConsistent(Events, Current),
                                  rows |-> Versions(Events, Current)]
  <2> SUFFICES ASSUME prov # <<>>
               PROVE  SimResult = [match |-> Matches,
                                  attested |-> CurrentAttested(Events, Current, ToSet(prov)),
                                  consistent |-> ChainConsistent(Events, Current),
                                  rows |-> Versions(Events, Current)]
    OBVIOUS
  <2>1. Scan(Oldest, Latest) = Events
    BY SimFacts, ScanFindsAll
  <2> QED BY <2>1 DEF SimResult
<1>2. Reported => /\ out.match = Matches
                  /\ out.attested = CurrentAttested(Events, Current, ToSet(prov))
                  /\ out.consistent = ChainConsistent(Events, Current)
                  /\ out.rows = Versions(Events, Current)
  BY <1>1 DEF Reported, SimInv
<1>3. Matches <=> Current = prov[named]
  BY DEF Matches
<1>4. SimTypeOK
  <2>1. CASE prov = <<>>
    <3>1. SimResult = [failed |-> TRUE]
      BY <2>1 DEF SimResult
    <3>2. SimResult \in [failed : {TRUE}]
      BY <3>1
    <3> QED BY <3>2 DEF SimInv, SimTypeOK
  <2>2. CASE prov # <<>>
    <3>1. Matches \in BOOLEAN /\ CurrentAttested(Events, Current, ToSet(prov)) \in BOOLEAN
          /\ ChainConsistent(Events, Current) \in BOOLEAN
      BY DEF Matches, CurrentAttested, ChainConsistent
    <3>2. Versions(Events, Current)
            \in Seq([wasm : Wasms, from : Nat, until : Nat, current : BOOLEAN])
      <4>1. Condenses(Versions(Events, Current), Rows(Events, Current),
                      Len(Rows(Events, Current)), Wasms)
        <5>1. Rows(Events, Current) \in Seq(RowsOf(Wasms))
          BY <2>2, SimFacts, SimUpgrades, RowsNameCurrent
        <5> QED BY <5>1, CollapseCondenses DEF Versions
      <4> QED BY <4>1 DEF Condenses, RowsOf
    <3>3. SimResult \in [match : BOOLEAN, attested : BOOLEAN, consistent : BOOLEAN,
                         rows : Seq([wasm : Wasms, from : Nat, until : Nat, current : BOOLEAN])]
      <4> DEFINE a == CurrentAttested(Events, Current, ToSet(prov))
                 b == ChainConsistent(Events, Current)
                 v == Versions(Events, Current)
                 S == Seq([wasm : Wasms, from : Nat, until : Nat, current : BOOLEAN])
      <4>1. /\ SimResult = [match |-> Matches, attested |-> a, consistent |-> b, rows |-> v]
            /\ Matches \in BOOLEAN /\ a \in BOOLEAN /\ b \in BOOLEAN /\ v \in S
        BY <1>1, <2>2, <3>1, <3>2
      <4> HIDE DEF a, b, v, S
      <4>2. SimResult \in [match : BOOLEAN, attested : BOOLEAN, consistent : BOOLEAN, rows : S]
        BY <4>1
      <4> QED BY <4>2 DEF S
    <3> QED BY <3>3 DEF SimInv, SimTypeOK
  <2> QED BY <2>1, <2>2
<1>5. SealedLedgerPasses
  <2> SUFFICES ASSUME Reported, deploy = Default
               PROVE  /\ out.attested /\ out.consistent
                      /\ Shown = Distinct(Chain)
                      /\ upgrades = Default /\ named = Len(prov) => out.match
    BY DEF SealedLedgerPasses
  <2>1. prov # <<>>
    BY DEF Reported
  <2>2. /\ Current = Chain[Len(Chain)] /\ Current \in ToSet(prov)
        /\ upgrades = Default => Chain = prov
    <3>1. Len(Chain) \in 1..Len(Chain)
      BY <2>1, SimFacts
    <3> QED BY <2>1, <3>1, SimFacts
  <2>3. out.attested /\ out.consistent
    BY <1>2, <2>1, <2>2, SimUpgrades
  <2>4. Shown = Distinct(Chain)
    BY <1>2, <2>1, ShownIsDistinct DEF Shown
  <2> QED BY <1>2, <1>3, <2>2, <2>3, <2>4
<1>6. UnsealedLedgerFails
  <2> SUFFICES ASSUME Reported, deploy \notin ToSet(prov) \cup {Default}
               PROVE  /\ ~out.attested /\ ~out.match
                      /\ \A i \in 1..Len(out.rows) : out.rows[i].current <=> i = Len(out.rows)
                      /\ Last(Shown) = deploy
                      /\ out.consistent <=> Len(Chain) = 1
    BY DEF UnsealedLedgerFails
  <2> DEFINE v == Versions(Events, Current)
  <2>1. prov # <<>>
    BY DEF Reported
  <2>2. /\ Current = deploy /\ Current \notin ToSet(prov) /\ Current \in Wasms
        /\ \A i \in 1..Len(Chain) : Chain[i] # Current
        /\ prov[named] # Current
    BY <2>1, SimFacts
  <2>3. ~out.attested /\ ~out.match
    BY <1>2, <1>3, <2>1, <2>2, SimUpgrades
  <2>4. out.consistent <=> Len(Chain) = 1
    <3>1. Len(Chain) \in 1..Len(Chain)
      BY <2>1, SimFacts
    <3> QED BY <1>2, <2>1, <2>2, <3>1, SimUpgrades
  <2>5. \A i \in 1..Len(Events) : Events[i].old # Current /\ Events[i].new # Current
    <3> SUFFICES ASSUME NEW i \in 1..Len(Events)
                 PROVE  Events[i].old # Current /\ Events[i].new # Current
      OBVIOUS
    <3>1. Len(Events) = Len(Chain) - 1 /\ Len(Chain) \in Nat \ {0}
      BY <2>1, SimFacts, SimUpgrades
    <3>2. i \in 1..(Len(Chain) - 1) /\ i \in 1..Len(Chain) /\ i + 1 \in 1..Len(Chain)
      BY <3>1
    <3> QED BY <2>1, <2>2, <3>2, SimUpgrades
  <2>6. /\ v \in Seq(RowsOf(Wasms)) /\ Len(v) \in Nat \ {0}
        /\ \A k \in 1..Len(v) : v[k].current <=> k = Len(v)
        /\ v[Len(v)].wasm = Current
    BY <2>1, <2>2, <2>5, SimUpgrades, UnseenIsLast
  <2> HIDE DEF v
  <2>7. out.rows = v
    BY <1>2 DEF v
  <2>8. Last(Shown) = deploy
    <3> DEFINE s == [i \in 1..Len(v) |-> v[i].wasm]
    <3>1. Shown = s
      BY <2>7 DEF Shown
    <3>2. Len(s) = Len(v) /\ s[Len(v)] = Current
      BY <2>6
    <3> HIDE DEF s
    <3> QED BY <2>2, <3>1, <3>2 DEF Last
  <2> QED BY <2>3, <2>4, <2>6, <2>7, <2>8
<1> QED BY <1>4, <1>5, <1>6 DEF SimulationCorrect

\* simulate-onchain reports what follows from the record (sim.rs, main.rs:527-588):
\* the versions are the artifacts gone through and both checks pass, and a wasm
\* no artifact seals is shown as the current version and fails them.
THEOREM SimulationIsCorrect == SimSpec => []SimulationCorrect
<1>1. SimInit => SimInv
  BY DEF SimInit, SimInv
<1>2. SimInv /\ [SimNext]_simVars => SimInv'
  <2> SUFFICES ASSUME SimInv, [SimNext]_simVars PROVE SimInv'
    OBVIOUS
  <2>1. CASE Simulate
    <3>1. UNCHANGED <<prov, named, upgrades, deploy>> /\ out' = SimResult
      BY <2>1 DEF Simulate, SimResult
    <3>2. prov' = prov /\ named' = named /\ upgrades' = upgrades /\ deploy' = deploy
      BY <3>1
    <3>3. SimResult' = SimResult
      BY <3>2 DEF SimResult, Scan, Answer, Oldest, Latest, Events, Event, Current, Chain, Matches
    <3> QED BY <3>1, <3>2, <3>3 DEF SimInv
  <2>2. CASE UNCHANGED simVars
    <3>1. SimResult' = SimResult
      BY <2>2 DEF simVars, SimResult, Scan, Answer, Oldest, Latest, Events, Event, Current,
                  Chain, Matches
    <3> QED BY <2>2, <3>1 DEF SimInv, simVars
  <2> QED BY <2>1, <2>2 DEF SimNext
<1>3. SimInv => SimulationCorrect
  BY SimCorrect
<1> QED BY <1>1, <1>2, <1>3, PTL DEF SimSpec
=============================================================================
