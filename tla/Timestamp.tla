----------------------------- MODULE Timestamp -----------------------------
(***************************************************************************)
(* timestamp() of the logger, src/logger/src/lib.rs: the civil date and    *)
(* time of a moment, by Howard Hinnant's algorithm; and a clock with a     *)
(* calendar to compare it with.  The clock starts at the epoch.            *)
(*                                                                         *)
(* now.as_secs() is the pair of its quotient and its remainder by          *)
(* SECS_IN_DAY, all that the code uses of it.                              *)
(***************************************************************************)
EXTENDS Integers

CONSTANTS
    MaxDays,    \* bound: days since the epoch
    BySeconds   \* bound: days that pass second by second

ASSUME TimestampAssumption == MaxDays \in Nat /\ BySeconds \in Nat

SECS_IN_DAY == 86400
DAYS_IN_ERA == 146097   \* 400 years

VARIABLES
    now,    \* time since the epoch: days, and seconds of the day
    date,   \* the calendar: year, month, day
    time    \* hour, minute, second

vars == <<now, date, time>>

-----------------------------------------------------------------------------
(* An era begins on the first of March of a year that 400 divides; month 0  *)
(* is March.                                                                *)
Era(days) == days \div DAYS_IN_ERA
DayOfEra(days) == days - Era(days) * DAYS_IN_ERA

(* Variant of YearOfEra: the last day of an era starts a year. *)
YearOfEraEarly(doe) ==
    (doe - doe \div 1460 + doe \div 36524) \div 365

YearOfEra(doe) ==
    (doe - doe \div 1460 + doe \div 36524 - doe \div 146096) \div 365

DayOfYear(doe) ==
    LET yoe == YearOfEra(doe)
    IN doe - (365 * yoe + yoe \div 4 - yoe \div 100)

MonthNonCivil(doy) == (5 * doy + 2) \div 153

Date(sinceEpoch) ==
    LET days == sinceEpoch + 719468
        doe == DayOfEra(days)
        doy == DayOfYear(doe)
        mp == MonthNonCivil(doy)
        month == IF mp < 10 THEN mp + 3 ELSE mp - 9
    IN [year |-> YearOfEra(doe) + Era(days) * 400
                     + (IF month <= 2 THEN 1 ELSE 0),
        month |-> month,
        day |-> doy - (153 * mp + 2) \div 5 + 1]

TimeOfDay(secondsToday) ==
    LET hour == secondsToday \div 3600
        minute == (secondsToday - hour * 3600) \div 60
    IN [hour |-> hour, minute |-> minute,
        second |-> secondsToday - hour * 3600 - minute * 60]

-----------------------------------------------------------------------------
(* The Gregorian calendar *)

IsLeap(y) == y % 4 = 0 /\ (y % 100 # 0 \/ y % 400 = 0)

DaysOf(y, m) ==
    CASE m \in {4, 6, 9, 11} -> 30
      [] m = 2 -> IF IsLeap(y) THEN 29 ELSE 28
      [] OTHER -> 31

NextDate(d) ==
    IF d.day < DaysOf(d.year, d.month) THEN [d EXCEPT !.day = @ + 1]
    ELSE IF d.month < 12
         THEN [year |-> d.year, month |-> d.month + 1, day |-> 1]
    ELSE [year |-> d.year + 1, month |-> 1, day |-> 1]

Midnight == [hour |-> 0, minute |-> 0, second |-> 0]
LastSecond == [hour |-> 23, minute |-> 59, second |-> 59]

NextTime(t) ==
    IF t.second < 59 THEN [t EXCEPT !.second = @ + 1]
    ELSE IF t.minute < 59
         THEN [hour |-> t.hour, minute |-> t.minute + 1, second |-> 0]
    ELSE [hour |-> (t.hour + 1) % 24, minute |-> 0, second |-> 0]

-----------------------------------------------------------------------------
Init ==
    /\ now = [days |-> 0, secs |-> 0]
    /\ date = [year |-> 1970, month |-> 1, day |-> 1]
    /\ time = Midnight

Second ==
    /\ now.days < BySeconds
    /\ now' = IF now.secs + 1 < SECS_IN_DAY
              THEN [now EXCEPT !.secs = @ + 1]
              ELSE [days |-> now.days + 1, secs |-> 0]
    /\ time' = NextTime(time)
    /\ date' = IF time = LastSecond THEN NextDate(date) ELSE date

Day ==
    /\ BySeconds <= now.days /\ now.days < MaxDays
    /\ now' = [now EXCEPT !.days = @ + 1]
    /\ date' = NextDate(date)
    /\ UNCHANGED time

Next == Second \/ Day

Spec == Init /\ [][Next]_vars

-----------------------------------------------------------------------------
(* The text of a log line and of a status shows the civil date and time, on *)
(* every day of an era (leap days, centuries and the 400th year included)   *)
(* and every second of a day (logger/src/lib.rs:130).                       *)
TimestampIsCivil ==
    Date(now.days) = date /\ TimeOfDay(now.secs) = time
=============================================================================
