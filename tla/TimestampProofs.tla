--------------------------- MODULE TimestampProofs --------------------------
(***************************************************************************)
(* Proof that timestamp() of the logger gives the civil date and time: a   *)
(* day, or a second, later it gives what the calendar has next.            *)
(***************************************************************************)
EXTENDS Timestamp, TLAPS

-----------------------------------------------------------------------------
(* The days of an era before its year y, leap days included. The last term  *)
(* is 0 for the years of an era and 1 where the next era starts.            *)
YearStart(y) == 365 * y + y \div 4 - y \div 100 + y \div 400

(* A day later is the next day of the era or the first day of the next era. *)
LEMMA EraSplit ==
    ASSUME NEW n \in Nat
    PROVE  /\ Era(n) \in Nat
           /\ DayOfEra(n) \in Nat /\ DayOfEra(n) < 146097
           /\ DayOfEra(n) < 146096 =>
                Era(n + 1) = Era(n) /\ DayOfEra(n + 1) = DayOfEra(n) + 1
           /\ DayOfEra(n) = 146096 =>
                Era(n + 1) = Era(n) + 1 /\ DayOfEra(n + 1) = 0
BY SMT DEF Era, DayOfEra, DAYS_IN_ERA

(* The quotients of timestamp() that correct a day of the era for the leap  *)
(* days before it find the year that contains the day.                      *)
LEMMA YearOfEraBounds ==
    ASSUME NEW doe \in Nat, doe < 146097
    PROVE  /\ YearOfEra(doe) \in Nat /\ YearOfEra(doe) < 400
           /\ YearStart(YearOfEra(doe)) <= doe
           /\ doe < YearStart(YearOfEra(doe) + 1)
BY SMTT(60) DEF YearOfEra, YearStart

(* Only one year contains a day.                                            *)
LEMMA YearUnique ==
    ASSUME NEW y \in Nat, NEW z \in Nat, NEW doe \in Nat,
           YearStart(y) <= doe, doe < YearStart(y + 1),
           YearStart(z) <= doe, doe < YearStart(z + 1)
    PROVE  y = z
BY SMTT(60) DEF YearStart

(* A year that ends with a leap February has 366 days, any other 365.       *)
LEMMA YearLength ==
    ASSUME NEW y \in Nat
    PROVE  YearStart(y + 1) = YearStart(y) + (IF IsLeap(y + 1) THEN 366 ELSE 365)
BY SMTT(60) DEF YearStart, IsLeap

(* The days of a year before its month mp: March is 0.                      *)
MonthStart(mp) == (153 * mp + 2) \div 5

(* MonthNonCivil finds the month that contains a day of the year.           *)
LEMMA MonthOfYear ==
    ASSUME NEW doy \in Nat, doy < 366
    PROVE  /\ MonthNonCivil(doy) \in Nat /\ MonthNonCivil(doy) < 12
           /\ MonthStart(MonthNonCivil(doy)) <= doy
           /\ doy < MonthStart(MonthNonCivil(doy) + 1)
BY SMTT(60) DEF MonthStart, MonthNonCivil

(* The number a month has in the calendar, and the date that timestamp()    *)
(* makes of an era, a year, a day of the year and its month.                *)
MonthOf(mp) == IF mp < 10 THEN mp + 3 ELSE mp - 9

DateInMonth(era, yoe, doy, mp) ==
    [year  |-> yoe + era * 400 + (IF MonthOf(mp) <= 2 THEN 1 ELSE 0),
     month |-> MonthOf(mp),
     day   |-> doy - MonthStart(mp) + 1]

DateOf(era, yoe, doy) ==
    DateInMonth(era, yoe, doy, MonthNonCivil(doy))

(* The calendar repeats after an era.                                       *)
LEMMA LeapInEra ==
    ASSUME NEW y \in Nat, NEW era \in Nat
    PROVE  IsLeap(y + era * 400) <=> IsLeap(y)
BY SMTT(60) DEF IsLeap

(* The months start as far apart as the calendar's months are long; the     *)
(* last of a year is February.                                              *)
LEMMA MonthLength ==
    ASSUME NEW mp \in Nat, mp < 12, NEW y \in Nat
    PROVE  /\ MonthOf(mp) \in Nat /\ 1 <= MonthOf(mp) /\ MonthOf(mp) <= 12
           /\ MonthOf(mp) <= 2 <=> mp >= 10
           /\ mp < 11 => DaysOf(y, MonthOf(mp)) = MonthStart(mp + 1) - MonthStart(mp)
           /\ mp = 11 => DaysOf(y, MonthOf(mp)) = IF IsLeap(y) THEN 29 ELSE 28
BY SMTT(60) DEF MonthOf, MonthStart, DaysOf

(* The day after a day in the calendar, by cases.                           *)
LEMMA NextDateOf ==
    ASSUME NEW d, NEW y \in Int, NEW m \in Int, NEW k \in Int,
           d = [year |-> y, month |-> m, day |-> k]
    PROVE  /\ k < DaysOf(y, m) =>
                NextDate(d) = [year |-> y, month |-> m, day |-> k + 1]
           /\ ~ (k < DaysOf(y, m)) /\ m < 12 =>
                NextDate(d) = [year |-> y, month |-> m + 1, day |-> 1]
           /\ ~ (k < DaysOf(y, m)) /\ ~ (m < 12) =>
                NextDate(d) = [year |-> y + 1, month |-> 1, day |-> 1]
<1>1. d.year = y /\ d.month = m /\ d.day = k
  OBVIOUS
<1>2. [d EXCEPT !.day = @ + 1] = [year |-> y, month |-> m, day |-> k + 1]
  OBVIOUS
<1> QED BY ONLY <1>1, <1>2 DEF NextDate

(* The day after any day of a year but its last.                            *)
LEMMA DayInYear ==
    ASSUME NEW era \in Nat, NEW yoe \in Nat, NEW doy \in Nat, doy + 1 < 366,
           doy = 364 => IsLeap(yoe + 1)
    PROVE  NextDate(DateOf(era, yoe, doy)) = DateOf(era, yoe, doy + 1)
<1> DEFINE mp == MonthNonCivil(doy)
           mq == MonthNonCivil(doy + 1)
           y == yoe + era * 400 + (IF MonthOf(mp) <= 2 THEN 1 ELSE 0)
           day == doy - MonthStart(mp) + 1
<1>1. /\ mp \in Nat /\ mp < 12 /\ MonthStart(mp) <= doy /\ doy < MonthStart(mp + 1)
      /\ mq \in Nat /\ mq < 12 /\ MonthStart(mq) <= doy + 1 /\ doy + 1 < MonthStart(mq + 1)
  BY MonthOfYear
<1>2. y \in Nat
  BY <1>1, MonthLength, SMT
<1> HIDE DEF mp, mq
<1>3. DateOf(era, yoe, doy) = [year |-> y, month |-> MonthOf(mp), day |-> day]
  BY DEF DateOf, DateInMonth, mp
<1>4. CASE doy + 1 < MonthStart(mp + 1)
  <2>1. mq = mp
    BY <1>1, <1>4, SMT DEF MonthStart
  <2>2. day < DaysOf(y, MonthOf(mp))
    <3>1. CASE mp < 11
      BY <1>1, <1>2, <1>4, <3>1, MonthLength, SMT DEF MonthStart
    <3>2. CASE mp = 11
      <4>1. MonthOf(mp) <= 2 /\ y = yoe + 1 + era * 400
        BY <3>2, SMT DEF MonthOf
      <4>2. IsLeap(y) <=> IsLeap(yoe + 1)
        BY <4>1, LeapInEra
      <4>3. DaysOf(y, MonthOf(mp)) = IF IsLeap(yoe + 1) THEN 29 ELSE 28
        BY <1>1, <1>2, <3>2, <4>2, MonthLength
      <4>4. day = doy - 336
        BY <3>2, SMT DEF MonthStart
      <4> HIDE DEF day, y
      <4> QED BY <4>3, <4>4, SMT
    <3> QED BY <1>1, <3>1, <3>2, SMT
  <2>3. NextDate(DateOf(era, yoe, doy))
            = [year |-> y, month |-> MonthOf(mp), day |-> day + 1]
    <3> HIDE DEF y, day
    <3> QED BY <1>3, <2>2, SMT DEF NextDate
  <2>4. day + 1 = (doy + 1) - MonthStart(mp) + 1
    BY <1>1, SMT DEF MonthStart
  <2>5. DateOf(era, yoe, doy + 1)
            = [year |-> y, month |-> MonthOf(mp), day |-> (doy + 1) - MonthStart(mp) + 1]
    BY <2>1 DEF DateOf, DateInMonth, mq
  <2> QED BY <2>3, <2>4, <2>5
<1>5. CASE ~ (doy + 1 < MonthStart(mp + 1))
  <2>1. doy + 1 = MonthStart(mp + 1) /\ mp < 11
    BY <1>1, <1>5, SMT DEF MonthStart
  <2>2. mq = mp + 1
    BY <1>1, <2>1, SMT DEF MonthStart
  <2>3. day = DaysOf(y, MonthOf(mp))
    BY <1>1, <1>2, <2>1, MonthLength, SMT DEF MonthStart
  <2> DEFINE yq == yoe + era * 400 + (IF MonthOf(mq) <= 2 THEN 1 ELSE 0)
  <2>4. NextDate(DateOf(era, yoe, doy))
            = IF MonthOf(mp) < 12
              THEN [year |-> y, month |-> MonthOf(mp) + 1, day |-> 1]
              ELSE [year |-> y + 1, month |-> 1, day |-> 1]
    <3>1. ~ (day < DaysOf(y, MonthOf(mp)))
      BY <1>1, <2>3, SMT DEF MonthStart
    <3>2. day \in Int /\ MonthOf(mp) \in Int
      BY <1>1, <1>2, SMT DEF MonthStart, MonthOf
    <3> HIDE DEF y, day
    <3>3. /\ MonthOf(mp) < 12 => NextDate(DateOf(era, yoe, doy))
                = [year |-> y, month |-> MonthOf(mp) + 1, day |-> 1]
          /\ ~ (MonthOf(mp) < 12) => NextDate(DateOf(era, yoe, doy))
                = [year |-> y + 1, month |-> 1, day |-> 1]
      BY <1>2, <1>3, <3>1, <3>2, NextDateOf
    <3> QED BY ONLY <3>3
  <2>5. IF MonthOf(mp) < 12
        THEN MonthOf(mq) = MonthOf(mp) + 1 /\ yq = y
        ELSE MonthOf(mq) = 1 /\ yq = y + 1
    BY <1>1, <2>1, <2>2, SMT DEF MonthOf
  <2>6. doy + 1 - MonthStart(mq) + 1 = 1
    BY <1>1, <2>1, <2>2, SMT DEF MonthStart
  <2>7. DateOf(era, yoe, doy + 1) = [year |-> yq, month |-> MonthOf(mq), day |-> 1]
    <3>1. DateOf(era, yoe, doy + 1) = DateInMonth(era, yoe, doy + 1, mq)
      BY DEF DateOf, mq
    <3>2. DateInMonth(era, yoe, doy + 1, mq)
            = [year |-> yq, month |-> MonthOf(mq), day |-> doy + 1 - MonthStart(mq) + 1]
      <4>1. MonthStart(mq) \in Int /\ MonthOf(mq) \in Int
        BY <1>1, SMT DEF MonthStart, MonthOf
      <4> QED BY <4>1 DEF DateInMonth
    <3> HIDE DEF yq
    <3> QED BY <2>6, <3>1, <3>2
  <2> HIDE DEF y, yq
  <2> QED BY <2>4, <2>5, <2>7
<1> QED BY <1>4, <1>5

(* A year of an era starts on the first of March.                           *)
FirstOfMarch(era, yoe) == [year |-> yoe + era * 400, month |-> 3, day |-> 1]

(* The day after the last day of a year, which is the 28th or the 29th of   *)
(* February.                                                                *)
LEMMA LastDayOfYear ==
    ASSUME NEW era \in Nat, NEW yoe \in Nat, NEW doy \in Nat,
           IsLeap(yoe + 1) => doy = 365, ~ IsLeap(yoe + 1) => doy = 364
    PROVE  NextDate(DateOf(era, yoe, doy)) = FirstOfMarch(era, yoe + 1)
<1>1. MonthNonCivil(doy) = 11
  BY SMT DEF MonthNonCivil
<1> DEFINE y == yoe + 1 + era * 400
<1>2. DateOf(era, yoe, doy) = [year |-> y, month |-> 2, day |-> doy - 336]
  <2>1. MonthOf(11) = 2 /\ MonthStart(11) = 337
    BY SMT DEF MonthOf, MonthStart
  <2>2. doy - 337 + 1 = doy - 336 /\ yoe + era * 400 + 1 = y
    BY SMT
  <2> HIDE DEF y
  <2> QED BY <1>1, <2>1, <2>2 DEF DateOf, DateInMonth
<1>3. DaysOf(y, 2) = doy - 336
  <2>1. IsLeap(y) <=> IsLeap(yoe + 1)
    BY LeapInEra
  <2>2. DaysOf(y, 2) = IF IsLeap(yoe + 1) THEN 29 ELSE 28
    BY <2>1, SMT DEF DaysOf
  <2> HIDE DEF y
  <2> QED BY <2>2, SMT
<1> HIDE DEF y
<1>4. NextDate(DateOf(era, yoe, doy)) = [year |-> y, month |-> 2 + 1, day |-> 1]
  <2>1. y \in Int /\ doy - 336 \in Int /\ ~ (doy - 336 < DaysOf(y, 2))
    BY <1>3, SMT DEF y
  <2>2. 2 < 12
    BY SMT
  <2> QED BY <1>2, <2>1, <2>2, NextDateOf
<1> QED BY <1>4 DEF y, FirstOfMarch

(* The first day of a year.                                                 *)
LEMMA FirstDayOfYear ==
    ASSUME NEW era \in Nat, NEW yoe \in Nat
    PROVE  DateOf(era, yoe, 0) = FirstOfMarch(era, yoe)
<1>1. MonthNonCivil(0) = 0 /\ MonthOf(0) = 3 /\ MonthStart(0) = 0
  BY SMT DEF MonthNonCivil, MonthOf, MonthStart
<1> QED BY <1>1, SMT DEF DateOf, DateInMonth, FirstOfMarch

(* Date in terms of the era, the year and the day of the year.              *)
LEMMA DateIsDateOf ==
    ASSUME NEW n \in Nat
    PROVE  LET days == n + 719468
               doe == DayOfEra(days)
               yoe == YearOfEra(doe)
           IN  Date(n) = DateOf(Era(days), yoe, doe - YearStart(yoe))
<1> DEFINE days == n + 719468
           doe == DayOfEra(days)
           yoe == YearOfEra(doe)
<1>1. days \in Nat
  BY SMT
<1>2. doe \in Nat /\ doe < 146097
  BY <1>1, EraSplit
<1>3. yoe \in Nat /\ yoe < 400
  BY <1>2, YearOfEraBounds
<1>4. DayOfYear(doe) = doe - YearStart(yoe)
  <2> HIDE DEF doe
  <2>1. DayOfYear(doe) = doe - (365 * yoe + yoe \div 4 - yoe \div 100)
    BY DEF DayOfYear
  <2> HIDE DEF yoe
  <2> QED BY <1>2, <1>3, <2>1, SMT DEF YearStart
<1>5. Date(n) = DateOf(Era(days), yoe, DayOfYear(doe))
  BY DEF Date, DateOf, DateInMonth, MonthOf, MonthStart
<1> QED BY <1>4, <1>5

(* A day later, the algorithm gives the calendar's next date.               *)
LEMMA NextDay ==
    ASSUME NEW n \in Nat
    PROVE  Date(n + 1) = NextDate(Date(n))
<1> DEFINE days == n + 719468
           era == Era(days)
           doe == DayOfEra(days)
           yoe == YearOfEra(doe)
           doy == doe - YearStart(yoe)
           more == n + 1 + 719468
           nera == Era(more)
           ndoe == DayOfEra(more)
           nyoe == YearOfEra(ndoe)
<1>1. days \in Nat /\ more = days + 1
  BY SMT
<1>2. /\ era \in Nat /\ doe \in Nat /\ doe < 146097
      /\ doe < 146096 => nera = era /\ ndoe = doe + 1
      /\ doe = 146096 => nera = era + 1 /\ ndoe = 0
  <2> HIDE DEF days, more
  <2> QED BY <1>1, EraSplit
<1>3. Date(n) = DateOf(era, yoe, doy)
  BY DateIsDateOf
<1>4. Date(n + 1) = DateOf(nera, nyoe, ndoe - YearStart(nyoe))
  <2>1. n + 1 \in Nat
    BY SMT
  <2> QED BY <2>1, DateIsDateOf
<1> HIDE DEF days, more, era, doe, nera, ndoe
<1>5. /\ yoe \in Nat /\ yoe < 400
      /\ YearStart(yoe) <= doe /\ doe < YearStart(yoe + 1)
  BY <1>2, YearOfEraBounds
<1>6. ndoe \in Nat /\ ndoe < 146097
  BY <1>2, SMT
<1>7. /\ nyoe \in Nat /\ nyoe < 400
      /\ YearStart(nyoe) <= ndoe /\ ndoe < YearStart(nyoe + 1)
  BY <1>6, YearOfEraBounds
<1> HIDE DEF yoe, nyoe
<1>8. /\ YearStart(yoe) \in Nat
      /\ YearStart(yoe + 1) = YearStart(yoe) + (IF IsLeap(yoe + 1) THEN 366 ELSE 365)
  BY <1>5, YearLength, SMT DEF YearStart
<1>9. doy \in Nat /\ doy < 366
  BY <1>2, <1>5, <1>8, SMT
<1>10. CASE doe < 146096 /\ doe + 1 < YearStart(yoe + 1)
  <2>1. nyoe = yoe
    BY <1>2, <1>5, <1>7, <1>10, YearUnique, SMT DEF YearStart
  <2>2. ndoe - YearStart(nyoe) = doy + 1
    BY <1>2, <1>8, <1>10, <2>1, SMT
  <2>3. doy + 1 < 366 /\ (doy = 364 => IsLeap(yoe + 1))
    BY <1>2, <1>8, <1>10, SMT
  <2> HIDE DEF doy
  <2>4. NextDate(DateOf(era, yoe, doy)) = DateOf(era, yoe, doy + 1)
    BY <1>2, <1>5, <1>9, <2>3, DayInYear
  <2> QED BY <1>2, <1>3, <1>4, <1>10, <2>1, <2>2, <2>4
<1>11. CASE ~ (doe < 146096 /\ doe + 1 < YearStart(yoe + 1))
  <2>1. doe + 1 = YearStart(yoe + 1)
    BY <1>2, <1>5, <1>8, <1>11, SMT DEF YearStart
  <2>2. doy = IF IsLeap(yoe + 1) THEN 365 ELSE 364
    BY <1>2, <1>8, <2>1, SMT
  <2>3. NextDate(Date(n)) = FirstOfMarch(era, yoe + 1)
    <3> HIDE DEF doy
    <3>1. PICK e \in Nat, y \in Nat, d \in Nat : e = era /\ y = yoe /\ d = doy
      BY <1>2, <1>5, <1>9
    <3>2. (IsLeap(y + 1) => d = 365) /\ (~ IsLeap(y + 1) => d = 364)
      BY <2>2, <3>1
    <3>3. NextDate(DateOf(e, y, d)) = FirstOfMarch(e, y + 1)
      BY <3>2, LastDayOfYear
    <3> QED BY <1>3, <3>1, <3>3
  <2>4. Date(n + 1) = FirstOfMarch(nera, nyoe)
    <3>1. ndoe = YearStart(nyoe)
      BY <1>2, <1>5, <1>7, <2>1, SMT DEF YearStart
    <3>2. ndoe - YearStart(nyoe) = 0
      BY <1>6, <3>1, SMT
    <3>3. nera \in Nat
      BY <1>2, SMT
    <3> QED BY <1>4, <1>7, <3>2, <3>3, FirstDayOfYear
  <2>5. nyoe + nera * 400 = yoe + 1 + era * 400
    BY <1>2, <1>5, <1>7, <2>1, SMT DEF YearStart
  <2> QED BY <2>3, <2>4, <2>5 DEF FirstOfMarch
<1> QED BY <1>10, <1>11

-----------------------------------------------------------------------------
(* What a clock shows, and the second of the day at which it does.          *)
Clock(h, m, s) == [hour |-> h, minute |-> m, second |-> s]

Shows(secs, h, m, s) ==
    /\ h < 24 /\ m < 60 /\ s < 60
    /\ secs = 3600 * h + 60 * m + s

(* Every second of a day is shown by a clock.                               *)
LEMMA SplitOfDay ==
    ASSUME NEW secs \in Nat, secs < 86400
    PROVE  \E h \in Nat, m \in Nat, s \in Nat : Shows(secs, h, m, s)
<1>1. PICK h \in Nat : h = secs \div 3600
  BY SMT
<1>2. PICK r \in Nat : r = secs - 3600 * h
  BY <1>1, SMT
<1>3. PICK m \in Nat : m = r \div 60
  BY SMT
<1>4. PICK s \in Nat : s = r - 60 * m
  BY <1>3, SMT
<1>5. h < 24 /\ r < 3600
  BY <1>1, <1>2, SMT
<1>6. m < 60 /\ s < 60
  BY <1>3, <1>4, <1>5, SMT
<1>7. secs = 3600 * h + 60 * m + s
  BY <1>2, <1>4, SMT
<1>8. Shows(secs, h, m, s)
  BY <1>5, <1>6, <1>7, SMT DEF Shows
<1> QED BY <1>8, SMT

(* TimeOfDay computes what the clock shows.                                 *)
LEMMA TimeIsClock ==
    ASSUME NEW h \in Nat, NEW m \in Nat, NEW s \in Nat, NEW secs \in Nat,
           h < 24, m < 60, s < 60, secs = 3600 * h + 60 * m + s
    PROVE  TimeOfDay(secs) = Clock(h, m, s)
<1>1. secs \div 3600 = h
  BY SMT
<1>2. (secs - h * 3600) \div 60 = m
  BY SMT
<1>3. secs - h * 3600 - m * 60 = s
  BY SMT
<1> QED BY <1>1, <1>2, <1>3 DEF TimeOfDay, Clock

(* The second after a second on a clock, by cases.                          *)
LEMMA NextTimeOf ==
    ASSUME NEW h \in Nat, NEW m \in Nat, NEW s \in Nat
    PROVE  /\ s < 59 => NextTime(Clock(h, m, s)) = Clock(h, m, s + 1)
           /\ s = 59 /\ m < 59 => NextTime(Clock(h, m, s)) = Clock(h, m + 1, 0)
           /\ s = 59 /\ m = 59 => NextTime(Clock(h, m, s)) = Clock((h + 1) % 24, 0, 0)
           /\ Clock(h, m, s) = LastSecond <=> h = 23 /\ m = 59 /\ s = 59
<1> DEFINE t == Clock(h, m, s)
<1>1. t.hour = h /\ t.minute = m /\ t.second = s
  BY DEF Clock
<1>2. [t EXCEPT !.second = @ + 1] = Clock(h, m, s + 1)
  BY DEF Clock
<1>3. t = LastSecond <=> h = 23 /\ m = 59 /\ s = 59
  BY DEF Clock, LastSecond
<1> HIDE DEF t
<1>4. s < 59 => NextTime(t) = Clock(h, m, s + 1)
  BY <1>1, <1>2 DEF NextTime
<1>5. s = 59 /\ m < 59 => NextTime(t) = Clock(h, m + 1, 0)
  BY <1>1 DEF NextTime, Clock
<1>6. s = 59 /\ m = 59 => NextTime(t) = Clock((h + 1) % 24, 0, 0)
  BY <1>1 DEF NextTime, Clock
<1> QED BY <1>3, <1>4, <1>5, <1>6 DEF t

(* A second later, the algorithm gives what the clock shows next.           *)
LEMMA NextSecond ==
    ASSUME NEW secs \in Nat, secs < 86400
    PROVE  /\ secs + 1 < 86400 => /\ TimeOfDay(secs + 1) = NextTime(TimeOfDay(secs))
                                  /\ TimeOfDay(secs) # LastSecond
           /\ secs + 1 = 86400 => /\ TimeOfDay(0) = NextTime(TimeOfDay(secs))
                                  /\ TimeOfDay(secs) = LastSecond
<1>0. PICK h \in Nat, m \in Nat, s \in Nat : Shows(secs, h, m, s)
  BY SplitOfDay
<1>1. h < 24 /\ m < 60 /\ s < 60 /\ secs = 3600 * h + 60 * m + s
  BY <1>0, SMT DEF Shows
<1>2. TimeOfDay(secs) = Clock(h, m, s)
  BY <1>1, TimeIsClock
<1>3. CASE s < 59
  <2>1. NextTime(Clock(h, m, s)) = Clock(h, m, s + 1)
    BY <1>3, NextTimeOf
  <2>2. s + 1 \in Nat /\ s + 1 < 60 /\ secs + 1 \in Nat /\ secs + 1 = 3600 * h + 60 * m + (s + 1)
    BY <1>1, <1>3, SMT
  <2>3. TimeOfDay(secs + 1) = Clock(h, m, s + 1)
    BY <1>1, <2>2, TimeIsClock
  <2>4. secs + 1 # 86400 /\ Clock(h, m, s) # LastSecond
    BY <1>1, <1>3, NextTimeOf, SMT
  <2> QED BY <1>2, <2>1, <2>3, <2>4
<1>4. CASE s = 59 /\ m < 59
  <2>1. NextTime(Clock(h, m, s)) = Clock(h, m + 1, 0)
    BY <1>4, NextTimeOf
  <2>2. m + 1 \in Nat /\ m + 1 < 60 /\ secs + 1 \in Nat /\ secs + 1 = 3600 * h + 60 * (m + 1) + 0
    BY <1>1, <1>4, SMT
  <2>3. TimeOfDay(secs + 1) = Clock(h, m + 1, 0)
    BY <1>1, <2>2, TimeIsClock
  <2>4. secs + 1 # 86400 /\ Clock(h, m, s) # LastSecond
    BY <1>1, <1>4, NextTimeOf, SMT
  <2> QED BY <1>2, <2>1, <2>3, <2>4
<1>5. CASE s = 59 /\ m = 59 /\ h < 23
  <2>1. NextTime(Clock(h, m, s)) = Clock(h + 1, 0, 0)
    <3>1. (h + 1) % 24 = h + 1
      BY <1>5, SMT
    <3> QED BY <1>5, <3>1, NextTimeOf
  <2>2. h + 1 \in Nat /\ h + 1 < 24 /\ secs + 1 \in Nat /\ secs + 1 = 3600 * (h + 1) + 60 * 0 + 0
    BY <1>1, <1>5, SMT
  <2>3. TimeOfDay(secs + 1) = Clock(h + 1, 0, 0)
    BY <2>2, TimeIsClock
  <2>4. secs + 1 # 86400 /\ Clock(h, m, s) # LastSecond
    BY <1>1, <1>5, NextTimeOf, SMT
  <2> QED BY <1>2, <2>1, <2>3, <2>4
<1>6. CASE s = 59 /\ m = 59 /\ h = 23
  <2>1. NextTime(Clock(h, m, s)) = Clock(0, 0, 0)
    <3>1. (h + 1) % 24 = 0
      BY <1>6, SMT
    <3> QED BY <1>6, <3>1, NextTimeOf
  <2>2. TimeOfDay(0) = Clock(0, 0, 0)
    BY SMT DEF TimeOfDay, Clock
  <2>3. secs + 1 = 86400 /\ Clock(h, m, s) = LastSecond
    BY <1>1, <1>6, NextTimeOf, SMT
  <2> QED BY <1>2, <2>1, <2>2, <2>3
<1> QED BY <1>1, <1>3, <1>4, <1>5, <1>6, SMT

-----------------------------------------------------------------------------
(* The inductive invariant: the algorithm and the calendar agree, and the   *)
(* seconds are those of a day.                                              *)
ClockInv ==
    /\ now \in [days : Nat, secs : Nat]
    /\ now.secs < SECS_IN_DAY
    /\ TimestampIsCivil

(* The epoch is midnight of the first of January 1970.                      *)
LEMMA InitClock == Init => ClockInv
<1> SUFFICES ASSUME Init PROVE ClockInv
  OBVIOUS
<1>1. /\ now = [days |-> 0, secs |-> 0]
      /\ date = [year |-> 1970, month |-> 1, day |-> 1]
      /\ time = Midnight
  BY DEF Init
<1>2. TimeOfDay(0) = Midnight
  BY SMT DEF TimeOfDay, Midnight
<1>3. Date(0) = [year |-> 1970, month |-> 1, day |-> 1]
  <2>1. DayOfEra(0 + 719468) = 135080 /\ Era(0 + 719468) = 4
    BY SMT DEF DayOfEra, Era, DAYS_IN_ERA
  <2>2. YearOfEra(135080) = 369 /\ DayOfYear(135080) = 306
    BY SMT DEF YearOfEra, DayOfYear
  <2>3. MonthNonCivil(306) = 10
    BY SMT DEF MonthNonCivil
  <2> QED BY <2>1, <2>2, <2>3, SMT DEF Date
<1> QED BY <1>1, <1>2, <1>3, SMT DEF ClockInv, TimestampIsCivil, SECS_IN_DAY

(* A day passes.                                                            *)
LEMMA DayClock == ASSUME ClockInv, Day PROVE ClockInv'
<1>1. /\ now \in [days : Nat, secs : Nat] /\ now.secs < SECS_IN_DAY
      /\ Date(now.days) = date /\ TimeOfDay(now.secs) = time
  BY DEF ClockInv, TimestampIsCivil
<1>2. /\ now' = [now EXCEPT !.days = @ + 1]
      /\ date' = NextDate(date) /\ time' = time
  BY DEF Day
<1>3. now' \in [days : Nat, secs : Nat] /\ now'.days = now.days + 1 /\ now'.secs = now.secs
  BY <1>1, <1>2
<1>4. Date(now.days + 1) = NextDate(Date(now.days))
  BY <1>1, NextDay
<1>5. Date(now'.days) = date' /\ TimeOfDay(now'.secs) = time'
  BY <1>1, <1>2, <1>3, <1>4, Zenon
<1> QED BY <1>1, <1>3, <1>5 DEF ClockInv, TimestampIsCivil

(* A second passes.                                                         *)
LEMMA SecondClock == ASSUME ClockInv, Second PROVE ClockInv'
<1>1. /\ now \in [days : Nat, secs : Nat] /\ now.secs < 86400
      /\ now.days \in Nat /\ now.secs \in Nat
      /\ Date(now.days) = date /\ TimeOfDay(now.secs) = time
  BY DEF ClockInv, TimestampIsCivil, SECS_IN_DAY
<1>2. /\ now' = IF now.secs + 1 < 86400
                THEN [now EXCEPT !.secs = @ + 1]
                ELSE [days |-> now.days + 1, secs |-> 0]
      /\ time' = NextTime(time)
      /\ date' = IF time = LastSecond THEN NextDate(date) ELSE date
  BY DEF Second, SECS_IN_DAY
<1>3. CASE now.secs + 1 < 86400
  <2>1. /\ now' \in [days : Nat, secs : Nat]
        /\ now'.days = now.days /\ now'.secs = now.secs + 1
    BY <1>1, <1>2, <1>3
  <2>2. TimeOfDay(now.secs + 1) = NextTime(time) /\ time # LastSecond
    BY <1>1, <1>3, NextSecond
  <2>3. TimeOfDay(now'.secs) = time' /\ Date(now'.days) = date'
    <3>1. date' = date
      BY <1>2, <2>2
    <3> QED BY <1>1, <1>2, <2>1, <2>2, <3>1
  <2> QED BY <1>3, <2>1, <2>3 DEF ClockInv, TimestampIsCivil, SECS_IN_DAY
<1>4. CASE ~ (now.secs + 1 < 86400)
  <2>1. now.secs + 1 = 86400
    BY <1>1, <1>4, SMT
  <2>2. /\ now' \in [days : Nat, secs : Nat]
        /\ now'.days = now.days + 1 /\ now'.secs = 0
    BY <1>1, <1>2, <1>4
  <2>3. TimeOfDay(0) = NextTime(time) /\ time = LastSecond
    BY <1>1, <2>1, NextSecond
  <2>4. Date(now.days + 1) = NextDate(date)
    BY <1>1, NextDay
  <2>5. date' = NextDate(date)
    BY <1>2, <2>3
  <2>6. TimeOfDay(now'.secs) = time' /\ Date(now'.days) = date'
    BY <1>2, <2>2, <2>3, <2>4, <2>5
  <2> QED BY <2>2, <2>6, SMT DEF ClockInv, TimestampIsCivil, SECS_IN_DAY
<1> QED BY <1>3, <1>4

(* The text of a log line and of a status shows the date and the time of    *)
(* the Gregorian calendar, on every day from the epoch on, not only in the  *)
(* first era, and at every second of a day (timestamp of                    *)
(* logger/src/lib.rs).                                                      *)
THEOREM TimestampsAreCivil == Spec => []TimestampIsCivil
<1>1. ClockInv /\ [Next]_vars => ClockInv'
  <2> SUFFICES ASSUME ClockInv, [Next]_vars PROVE ClockInv'
    OBVIOUS
  <2>1. CASE Second
    BY <2>1, SecondClock
  <2>2. CASE Day
    BY <2>2, DayClock
  <2>3. CASE UNCHANGED vars
    BY <2>3 DEF ClockInv, TimestampIsCivil, vars
  <2> QED BY <2>1, <2>2, <2>3 DEF Next
<1>2. ClockInv => TimestampIsCivil
  BY DEF ClockInv
<1> QED BY <1>1, <1>2, InitClock, PTL DEF Spec

-----------------------------------------------------------------------------
(* Every subtraction of timestamp() takes a number from one that is not     *)
(* smaller. It computes in u64, where anything else wraps around or panics; *)
(* the operators of Timestamp compute in the integers.                      *)
Unsigned(sinceEpoch, secondsToday) ==
    LET days == sinceEpoch + 719468
        doe == DayOfEra(days)
        yoe == YearOfEra(doe)
        doy == DayOfYear(doe)
        mp == MonthNonCivil(doy)
        hour == secondsToday \div 3600
        minute == (secondsToday - hour * 3600) \div 60
    IN  /\ Era(days) * DAYS_IN_ERA <= days
        /\ doe \div 1460 <= doe
        /\ doe \div 146096 <= doe - doe \div 1460 + doe \div 36524
        /\ yoe \div 100 <= 365 * yoe + yoe \div 4
        /\ 365 * yoe + yoe \div 4 - yoe \div 100 <= doe
        /\ (153 * mp + 2) \div 5 <= doy
        /\ mp < 10 \/ 9 <= mp
        /\ hour * 3600 <= secondsToday
        /\ minute * 60 <= secondsToday - hour * 3600

(* timestamp() never leaves the unsigned numbers, for any moment after the  *)
(* epoch (logger/src/lib.rs:142): that its operators are integers hides     *)
(* nothing.                                                                 *)
THEOREM TimestampIsUnsigned ==
    ASSUME NEW n \in Nat, NEW secs \in Nat
    PROVE  Unsigned(n, secs)
<1> DEFINE days == n + 719468
           doe == DayOfEra(days)
           yoe == YearOfEra(doe)
           doy == DayOfYear(doe)
           mp == MonthNonCivil(doy)
           hour == secs \div 3600
           minute == (secs - hour * 3600) \div 60
<1>1. days \in Nat
  BY SMT
<1>2. Era(days) * DAYS_IN_ERA <= days
  BY SMT DEF Era, DAYS_IN_ERA
<1>3. doe \in Nat /\ doe < 146097
  BY <1>1, EraSplit
<1>4. doy = doe - YearStart(yoe) /\ yoe \in Nat /\ yoe < 400
      /\ YearStart(yoe) <= doe /\ doe < YearStart(yoe + 1)
  <2>1. yoe \in Nat /\ yoe < 400 /\ YearStart(yoe) <= doe /\ doe < YearStart(yoe + 1)
    BY <1>3, YearOfEraBounds
  <2> HIDE DEF doe
  <2>2. doy = doe - (365 * yoe + yoe \div 4 - yoe \div 100)
    BY DEF DayOfYear
  <2> HIDE DEF yoe
  <2> QED BY <1>3, <2>1, <2>2, SMT DEF YearStart
<1> HIDE DEF days, doe
<1>5. doe \div 1460 <= doe /\ doe \div 146096 <= doe - doe \div 1460 + doe \div 36524
  BY <1>3, SMT
<1> HIDE DEF yoe, doy
<1>6. /\ yoe \div 100 <= 365 * yoe + yoe \div 4
      /\ 365 * yoe + yoe \div 4 - yoe \div 100 <= doe
  BY <1>3, <1>4, SMT DEF YearStart
<1>7. doy \in Nat /\ doy < 366
  BY <1>3, <1>4, SMT DEF YearStart
<1>8. mp \in Nat /\ (153 * mp + 2) \div 5 <= doy
  BY <1>7, MonthOfYear DEF MonthStart
<1> HIDE DEF mp
<1>9. mp < 10 \/ 9 <= mp
  BY <1>8, SMT
<1>10. hour * 3600 <= secs /\ minute * 60 <= secs - hour * 3600
  BY SMT
<1> QED BY <1>2, <1>5, <1>6, <1>8, <1>9, <1>10, SMT
        DEF Unsigned, days, doe, yoe, doy, mp
=============================================================================
