------------------------------ MODULE HttpDate ------------------------------
(***************************************************************************)
(* The dates of HTTP (http_date, parse_http_date and the calendar          *)
(* functions of src/http.rs), beside a calendar that is simply counted:    *)
(* the day after the last of a month is the first of the next.             *)
(*                                                                         *)
(* A time is [days |-> n, second |-> s], the seconds of the code divided   *)
(* by 86400.  A date header is the record of its fields: the text has a    *)
(* fixed width, so it has these fields exactly if it is 29 bytes long,     *)
(* that is if the year has four digits.  Years are below 2^31 (i32).       *)
(* x \div y rounds down, which is what the code's case distinctions on     *)
(* negative x are for.                                                     *)
(*                                                                         *)
(* An operator named Bad... is a mutant of the one after it.               *)
(***************************************************************************)
EXTENDS Integers

CONSTANTS
  LastYear,    \* bound: the calendar ends with this year
  FullYears,   \* bound: the years counted day by day; of others the first day
  Seconds      \* the seconds of a day that are looked at

ASSUME DateAssumption ==
  /\ LastYear \in Nat
  /\ FullYears \subseteq Nat
  /\ \A s \in Seconds : s \in Nat /\ s < 86400

VARIABLES
  days,        \* days since 1970-01-01
  civil,       \* the date of that day
  weekday      \* 0 is Sunday

calendarVars == <<days, civil, weekday>>

IsLeapYear(y) == (y % 4 = 0 /\ y % 100 # 0) \/ y % 400 = 0

DaysInMonth(y, m) ==
  CASE m \in {1, 3, 5, 7, 8, 10, 12} -> 31
    [] m \in {4, 6, 9, 11} -> 30
    [] m = 2 -> IF IsLeapYear(y) THEN 29 ELSE 28
    [] OTHER -> 0

-----------------------------------------------------------------------------
(* The conversions.  Both count eras of 400 years from the first of March. *)

EraYears == 400

EraDays == 146097      \* days of those years

EpochDay == 719468     \* from 0000-03-01 to 1970-01-01

YearOfEra(doe) ==
  (doe - doe \div 1460 + doe \div 36524 - doe \div 146096) \div 365

\* Days of the first yoe years of an era.
DaysOfYears(yoe) == yoe * 365 + yoe \div 4 - yoe \div 100

\* The date after y years, with the first of March as day 0 of a year.
FromMarch(y, doy) ==
  LET mp    == (5 * doy + 2) \div 153
      month == IF mp < 10 THEN mp + 3 ELSE mp - 9
  IN [year |-> IF month <= 2 THEN y + 1 ELSE y, month |-> month,
      day |-> doy - (153 * mp + 2) \div 5 + 1]

CivilFromDays(n) ==
  LET z   == n + EpochDay
      era == z \div EraDays
      doe == z - era * EraDays
      yoe == YearOfEra(doe)
  IN FromMarch(yoe + era * EraYears, doe - DaysOfYears(yoe))

DayOfYear(m, d) == (153 * (IF m > 2 THEN m - 3 ELSE m + 9) + 2) \div 5 + d - 1

BadMarchYear(y, m) == y    \* January and February belong to the year before

MarchYear(y, m) == IF m <= 2 THEN y - 1 ELSE y

DaysFromCivil(y, m, d) ==
  LET my  == MarchYear(y, m)
      era == my \div EraYears
  IN era * EraDays + DaysOfYears(my - era * EraYears) + DayOfYear(m, d) - EpochDay

Weekday(n) == (n + 4) % 7

Epoch == [days |-> 0, second |-> 0]

NoTime == [days |-> 0, second |-> -1]

HourOf(s) == s \div 3600

MinuteOf(s) == (s % 3600) \div 60

SecondOf(s) == s % 60

\* http_date: times before the epoch are printed as the epoch.
HttpDate(t) ==
  LET u == IF t.days < 0 THEN Epoch ELSE t
      c == CivilFromDays(u.days)
  IN [weekday |-> Weekday(u.days), year |-> c.year, month |-> c.month, day |-> c.day,
      hour |-> HourOf(u.second), minute |-> MinuteOf(u.second), second |-> SecondOf(u.second)]

BadDayExists(y, m, d) == m \in 1..12 /\ d \in 1..31

DayExists(y, m, d) == m \in 1..12 /\ d # 0 /\ d <= DaysInMonth(y, m)

\* parse_http_date: a leap second is the second before it; the weekday is ignored.
ParseHttpDate(h) ==
  IF \/ h.year < 1970 \/ h.year > 9999
     \/ ~DayExists(h.year, h.month, h.day)
     \/ h.hour > 23 \/ h.minute > 59 \/ h.second > 60
  THEN NoTime
  ELSE [days   |-> DaysFromCivil(h.year, h.month, h.day),
        second |-> h.hour * 3600 + h.minute * 60 + (IF h.second > 59 THEN 59 ELSE h.second)]

NotLater(t, u) == t.days < u.days \/ (t.days = u.days /\ t.second <= u.second)

BadNotModifiedSince(mtime, since) == since # NoTime /\ NotLater(mtime, since)

\* is_not_modified, for a request with If-Modified-Since alone.
NotModifiedSince(mtime, since) ==
  since # NoTime /\ mtime.days >= 0 /\ NotLater(mtime, since)

-----------------------------------------------------------------------------
(* The calendar. *)

CalendarInit ==
  /\ days = -731
  /\ civil = [year |-> 1968, month |-> 1, day |-> 1]
  /\ weekday = 1

TomorrowOf(c) ==
  IF c.day < DaysInMonth(c.year, c.month) THEN [c EXCEPT !.day = @ + 1]
  ELSE IF c.month < 12 THEN [c EXCEPT !.month = @ + 1, !.day = 1]
  ELSE [year |-> c.year + 1, month |-> 1, day |-> 1]

NextDay ==
  /\ civil.year \in FullYears
  /\ TomorrowOf(civil).year <= LastYear
  /\ days' = days + 1
  /\ civil' = TomorrowOf(civil)
  /\ weekday' = (weekday + 1) % 7

YearLength(y) == IF IsLeapYear(y) THEN 366 ELSE 365

NextYear ==
  /\ civil.month = 1 /\ civil.day = 1
  /\ civil.year < LastYear
  /\ days' = days + YearLength(civil.year)
  /\ civil' = [civil EXCEPT !.year = @ + 1]
  /\ weekday' = (weekday + YearLength(civil.year)) % 7

CalendarNext == NextDay \/ NextYear

CalendarSpec == CalendarInit /\ [][CalendarNext]_calendarVars

-----------------------------------------------------------------------------
(* Properties. *)

CalendarTypeOK ==
  /\ days \in Int /\ days >= -731
  /\ civil \in [year : Nat, month : 1..12, day : 1..31]
  /\ civil.month = 2 => civil.day <= 29
  /\ civil.month \in {4, 6, 9, 11} => civil.day <= 30
  /\ weekday \in 0..6

\* days_from_civil counts the days of the calendar, over leap days and the
\* century years without one.
DaysAreCounted == DaysFromCivil(civil.year, civil.month, civil.day) = days

\* civil_from_days names the day it is, before 1970 as well, and the weekday
\* formula of http_date its weekday.
DateIsRight == CivilFromDays(days) = civil /\ Weekday(days) = weekday

\* Both ways the closed formulas, with their shifted years and eras, are the
\* calendar that is counted.
CalendarAgrees == DaysAreCounted /\ DateIsRight

\* A client that sends the Last-Modified it got back sends the time of the
\* file, to the second, as long as the year has four digits.
RoundTrip ==
  \A s \in Seconds :
    LET t == [days |-> days, second |-> s]
    IN days >= 0 /\ civil.year <= 9999 => ParseHttpDate(HttpDate(t)) = t

\* ... and gets a 304 for it.  A file older than the epoch is printed as the
\* epoch, which is not its time: it is never said not to be modified.
EchoedDateIsHonest ==
  \A s \in Seconds :
    LET mtime == [days |-> days, second |-> s]
        since == ParseHttpDate(HttpDate(mtime))
    IN NotModifiedSince(mtime, since) <=> days >= 0 /\ since = mtime

\* A client that echoes Last-Modified is told the truth about the file.
LastModifiedEchoes == RoundTrip /\ EchoedDateIsHonest

\* A date that does not exist is refused: what is accepted is printed again as
\* it was, so no two dates are the same time, save the leap second.
AcceptedDateExists ==
  \A d \in 0..32 :
    LET h == [weekday |-> 0, year |-> civil.year, month |-> civil.month, day |-> d,
              hour |-> 23, minute |-> 59, second |-> 60]
        t == ParseHttpDate(h)
        p == HttpDate(t)
    IN t # NoTime => /\ p.year = h.year /\ p.month = h.month /\ p.day = h.day
                     /\ p.hour = h.hour /\ p.minute = h.minute /\ p.second = 59
=============================================================================
