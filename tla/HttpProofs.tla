------------------------------ MODULE HttpProofs ------------------------------
(***************************************************************************)
(* The theorems about what src/http.rs reads and computes outside of a     *)
(* request's lines: HttpDate and RequestReader.                            *)
(***************************************************************************)
EXTENDS HttpDate, RequestReader, DataInduction, TLAPS

(***************************************************************************)
(* The closed formulas of the code agree with counting days one by one,    *)
(* for every day from 1968 on, without a bound.                            *)
(***************************************************************************)

\* What counting adds to CalendarTypeOK: the day exists in that year.
DateExists ==
  civil.year >= 1968 /\ civil.day <= DaysInMonth(civil.year, civil.month)

CalendarInv ==
  CalendarTypeOK /\ DateExists /\ DaysAreCounted /\ weekday = Weekday(days)

-----------------------------------------------------------------------------
(* The years: days_from_civil without its era. *)

\* Days before the first of March of year y, counted from March of year 0.
DaysBefore(y) == 365 * y + y \div 4 - y \div 100 + y \div 400

LEMMA DaysSplit ==
  ASSUME NEW y \in Nat, NEW m \in 1..12, NEW d \in 1..31
  PROVE  DaysFromCivil(y, m, d)
           = DaysBefore(MarchYear(y, m)) + DayOfYear(m, d) - EpochDay
<1>1. PICK my \in Int : my = MarchYear(y, m)
  BY DEF MarchYear
<1>2. (my \div 400) * EraDays + DaysOfYears(my - (my \div 400) * 400) = DaysBefore(my)
  BY DEF DaysBefore, DaysOfYears, EraDays
<1>3. DayOfYear(m, d) \in Int /\ DaysBefore(my) \in Int
  BY DEF DayOfYear, DaysBefore
<1>4. DaysOfYears(my - (my \div 400) * 400) \in Int
  BY DEF DaysOfYears
<1> QED BY <1>1, <1>2, <1>3, <1>4 DEF DaysFromCivil, EraYears, EraDays, EpochDay

LEMMA NextMarch ==
  ASSUME NEW y \in Nat \ {0}
  PROVE  DaysBefore(y) = DaysBefore(y - 1) + (IF IsLeapYear(y) THEN 366 ELSE 365)
<1>1. y \div 4 - (y - 1) \div 4 = IF y % 4 = 0 THEN 1 ELSE 0
  OBVIOUS
<1>2. y \div 100 - (y - 1) \div 100 = IF y % 100 = 0 THEN 1 ELSE 0
  OBVIOUS
<1>3. y \div 400 - (y - 1) \div 400 = IF y % 400 = 0 THEN 1 ELSE 0
  OBVIOUS
<1>4. (y % 400 = 0 => y % 100 = 0) /\ (y % 100 = 0 => y % 4 = 0)
  OBVIOUS
<1> QED BY <1>1, <1>2, <1>3, <1>4 DEF DaysBefore, IsLeapYear

\* A day later, and a year later from the first of January on.
IsDate(y, m, d) ==
  y \in Nat \ {0} /\ m \in 1..12 /\ d \in 1..31 /\ d <= DaysInMonth(y, m)

LEMMA DayLater ==
  ASSUME NEW y, NEW m, NEW d, IsDate(y, m, d)
  PROVE  LET c == TomorrowOf([year |-> y, month |-> m, day |-> d])
         IN DaysFromCivil(c.year, c.month, c.day) = DaysFromCivil(y, m, d) + 1
<1> USE DEF IsDate
<1>1. CASE d < DaysInMonth(y, m)
  <2>1. d + 1 \in 1..31
    BY <1>1 DEF DaysInMonth
  <2>2. DayOfYear(m, d + 1) = DayOfYear(m, d) + 1
    BY DEF DayOfYear
  <2>3. DaysBefore(MarchYear(y, m)) \in Int /\ DayOfYear(m, d) \in Int
    BY DEF MarchYear, DaysBefore, DayOfYear
  <2>4. DaysFromCivil(y, m, d + 1) = DaysFromCivil(y, m, d) + 1
    BY <2>1, <2>2, <2>3, DaysSplit DEF EpochDay
  <2> QED BY <1>1, <2>4 DEF TomorrowOf
<1>2. CASE d = DaysInMonth(y, m) /\ m < 12
  <2>1. CASE m = 2
    <3>1. DayOfYear(2, d) = IF IsLeapYear(y) THEN 365 ELSE 364
      BY <1>2, <2>1 DEF DayOfYear, DaysInMonth
    <3>2. DayOfYear(3, 1) = 0 /\ MarchYear(y, 2) = y - 1 /\ MarchYear(y, 3) = y
      BY DEF DayOfYear, MarchYear
    <3>3. DaysBefore(y) \in Int /\ DaysBefore(y - 1) \in Int
      BY DEF DaysBefore
    <3>4. /\ DaysFromCivil(y, 3, 1) = DaysBefore(y) + 0 - EpochDay
          /\ DaysFromCivil(y, 2, d) = DaysBefore(y - 1) + DayOfYear(2, d) - EpochDay
      BY <3>2, DaysSplit
    <3>5. DaysFromCivil(y, 3, 1) = DaysFromCivil(y, 2, d) + 1
      BY <3>1, <3>3, <3>4, NextMarch DEF EpochDay
    <3> QED BY <1>2, <2>1, <3>5 DEF TomorrowOf
  <2>2. CASE m # 2
    <3>1. m + 1 \in 1..12 /\ MarchYear(y, m + 1) = MarchYear(y, m)
      BY <1>2, <2>2 DEF MarchYear
    <3>2. DayOfYear(m + 1, 1) = DayOfYear(m, d) + 1
      BY <1>2, <2>2 DEF DayOfYear, DaysInMonth
    <3>3. DaysBefore(MarchYear(y, m)) \in Int /\ DayOfYear(m, d) \in Int
      BY DEF MarchYear, DaysBefore, DayOfYear
    <3>4. DaysFromCivil(y, m + 1, 1) = DaysFromCivil(y, m, d) + 1
      BY <3>1, <3>2, <3>3, DaysSplit DEF EpochDay
    <3> QED BY <1>2, <3>4 DEF TomorrowOf
  <2> QED BY <2>1, <2>2
<1>3. CASE d = DaysInMonth(y, m) /\ m = 12
  <2>1. d = 31 /\ MarchYear(y + 1, 1) = y /\ MarchYear(y, 12) = y
    BY <1>3 DEF DaysInMonth, MarchYear
  <2>2. DayOfYear(1, 1) = DayOfYear(12, 31) + 1
    BY DEF DayOfYear
  <2>3. DaysFromCivil(y + 1, 1, 1) = DaysFromCivil(y, 12, 31) + 1
    BY <2>1, <2>2, DaysSplit DEF DaysBefore, DayOfYear, EpochDay
  <2> QED BY <1>3, <2>1, <2>3 DEF TomorrowOf
<1>4. DaysInMonth(y, m) \in Nat
  BY DEF DaysInMonth
<1> QED BY <1>1, <1>2, <1>3, <1>4

LEMMA YearLater ==
  ASSUME NEW y \in Nat \ {0}
  PROVE  DaysFromCivil(y + 1, 1, 1) = DaysFromCivil(y, 1, 1) + YearLength(y)
<1>1. MarchYear(y + 1, 1) = y /\ MarchYear(y, 1) = y - 1
  BY DEF MarchYear
<1>2. /\ DaysFromCivil(y + 1, 1, 1) = DaysBefore(y) + DayOfYear(1, 1) - EpochDay
      /\ DaysFromCivil(y, 1, 1) = DaysBefore(y - 1) + DayOfYear(1, 1) - EpochDay
  BY <1>1, DaysSplit
<1>3. DaysBefore(y) \in Int /\ DaysBefore(y - 1) \in Int /\ DayOfYear(1, 1) \in Int
  BY DEF DaysBefore, DayOfYear
<1> QED BY <1>2, <1>3, NextMarch DEF YearLength, EpochDay

-----------------------------------------------------------------------------
(* civil_from_days undoes days_from_civil. *)

\* The number of the month from March on: what the formula of FromMarch inverts.
LEMMA MonthFound ==
  ASSUME NEW m \in 1..12, NEW d \in 1..31,
         m = 2 => d <= 29, m \in {4, 6, 9, 11} => d <= 30
  PROVE  LET mp == (5 * DayOfYear(m, d) + 2) \div 153
         IN /\ mp = IF m > 2 THEN m - 3 ELSE m + 9
            /\ DayOfYear(m, d) - (153 * mp + 2) \div 5 + 1 = d
<1>1. CASE m > 2
  BY <1>1 DEF DayOfYear
<1>2. CASE m <= 2
  BY <1>2 DEF DayOfYear
<1> QED BY <1>1, <1>2

\* A day of an era, by the year r of the era and the day of that year; a year
\* begins in March, so that it has a day 365 if the next one is a leap year.
EraDate(r, doy) ==
  /\ r \in Nat /\ r < 400
  /\ doy \in Nat /\ doy <= 365
  /\ doy = 365 => (r + 1) % 4 = 0 /\ ((r + 1) % 100 # 0 \/ r + 1 = 400)

EraDay(r, doy) == DaysOfYears(r) + doy

LEMMA YearFound ==
  ASSUME NEW r, NEW doy, EraDate(r, doy)
  PROVE  /\ EraDay(r, doy) \in Nat /\ EraDay(r, doy) < EraDays
         /\ YearOfEra(EraDay(r, doy)) = r
BY SMTT(60) DEF EraDate, EraDay, DaysOfYears, YearOfEra, EraDays

LEMMA EraFound ==
  ASSUME NEW r, NEW doy, EraDate(r, doy), NEW e \in Nat, NEW n \in Int,
         n + EpochDay = e * EraDays + EraDay(r, doy)
  PROVE  CivilFromDays(n) = FromMarch(r + e * EraYears, doy)
<1>1. PICK doe \in Nat : doe = EraDay(r, doy)
  BY YearFound, Zenon
<1>2. YearOfEra(doe) = r /\ doe < EraDays
  BY ONLY EraDate(r, doy), <1>1, YearFound, Zenon
<1>3. (n + EpochDay) - e * EraDays = doe
  BY <1>1, SMT DEF EraDays, EpochDay
<1>4. (n + EpochDay) \div EraDays = e
  <2>1. n + EpochDay = e * 146097 + doe
    BY <1>3, SMT DEF EraDays, EpochDay
  <2>2. (e * 146097 + doe) \div 146097 = e
    BY <1>2, SMT DEF EraDays
  <2> QED BY <2>1, <2>2, SMT DEF EraDays
<1>5. doe - DaysOfYears(r) = doy
  BY <1>1, SMT DEF EraDay, EraDate, DaysOfYears
<1>6. CivilFromDays(n)
        = FromMarch(YearOfEra(doe) + e * EraYears, doe - DaysOfYears(YearOfEra(doe)))
  BY ONLY <1>3, <1>4, Zenon DEF CivilFromDays
<1>7. YearOfEra(doe) = r
  BY <1>2
<1> QED BY ONLY <1>5, <1>6, <1>7, Zenon

\* Leap years repeat with the eras.
LEMMA LeapInEra ==
  ASSUME NEW e \in Nat, NEW r \in Nat, r < 400, IsLeapYear(400 * e + r + 1)
  PROVE  (r + 1) % 4 = 0 /\ ((r + 1) % 100 # 0 \/ r + 1 = 400)
<1>1. (400 * e + r + 1) % 4 = 0 => (r + 1) % 4 = 0
  OBVIOUS
<1>2. (400 * e + r + 1) % 100 # 0 => (r + 1) % 100 # 0
  OBVIOUS
<1>3. (400 * e + r + 1) % 400 = 0 => r + 1 = 400
  OBVIOUS
<1> QED BY <1>1, <1>2, <1>3 DEF IsLeapYear

LEMMA DateFound ==
  ASSUME NEW y, NEW m, NEW d, IsDate(y, m, d)
  PROVE  CivilFromDays(DaysFromCivil(y, m, d)) = [year |-> y, month |-> m, day |-> d]
<1> USE DEF IsDate
<1>1. PICK my \in Nat : my = MarchYear(y, m)
  BY DEF MarchYear
<1>2. PICK e \in Nat, r \in Nat : r < 400 /\ my = 400 * e + r /\ my \div 400 = e
  <2>1. /\ my \div 400 \in Nat /\ my - 400 * (my \div 400) \in Nat
        /\ my - 400 * (my \div 400) < 400
    OBVIOUS
  <2> QED BY <2>1
<1>3. (m = 2 => d <= 29) /\ (m \in {4, 6, 9, 11} => d <= 30)
  BY DEF DaysInMonth
<1>4. PICK doy \in Nat : doy <= 365 /\ doy = DayOfYear(m, d)
  BY <1>3 DEF DayOfYear
<1>5. doy = 365 => (r + 1) % 4 = 0 /\ ((r + 1) % 100 # 0 \/ r + 1 = 400)
  <2> SUFFICES ASSUME doy = 365 PROVE IsLeapYear(400 * e + r + 1)
    BY <1>2, LeapInEra
  <2>1. m = 2 /\ d = 29
    BY <1>3, <1>4 DEF DayOfYear
  <2>2. y = 400 * e + r + 1
    BY <1>1, <1>2, <2>1 DEF MarchYear
  <2> QED BY <2>1, <2>2 DEF DaysInMonth
<1>6. PICK n \in Int : n = DaysFromCivil(y, m, d)
  BY <1>1, <1>4 DEF DaysFromCivil, DaysOfYears, EraYears, EraDays, EpochDay
<1>7. n + EpochDay = e * EraDays + EraDay(r, doy)
  <2>1. my - e * 400 = r
    BY <1>2
  <2>2. DaysFromCivil(y, m, d) = e * EraDays + DaysOfYears(r) + doy - EpochDay
    BY <1>1, <1>2, <1>4, <2>1 DEF DaysFromCivil, EraYears
  <2>3. n = e * EraDays + DaysOfYears(r) + doy - EpochDay
    BY <1>6, <2>2
  <2> QED BY ONLY r \in Nat, doy \in Nat, e \in Nat, n \in Int, <2>3, SMT
          DEF EpochDay, EraDays, EraDay, DaysOfYears
<1>8. CivilFromDays(n) = FromMarch(r + e * EraYears, doy)
  <2>1. EraDate(r, doy)
    BY <1>2, <1>4, <1>5 DEF EraDate
  <2> QED BY <1>7, <2>1, EraFound, Zenon
<1>9. r + e * EraYears = my
  BY <1>2 DEF EraYears
<1>10. FromMarch(my, doy) = [year |-> y, month |-> m, day |-> d]
  BY <1>1, <1>3, <1>4, MonthFound DEF FromMarch, MarchYear
<1> QED BY <1>6, <1>8, <1>9, <1>10

-----------------------------------------------------------------------------
(* The calendar. *)

\* Only the two years before it are before the epoch.
LEMMA AfterEpoch ==
  ASSUME NEW y, NEW m, NEW d, IsDate(y, m, d), y >= 1968
  PROVE  /\ DaysFromCivil(y, m, d) \in Int
         /\ DaysFromCivil(y, m, d) >= -731
         /\ DaysFromCivil(y, m, d) >= 0 <=> y >= 1970
BY DEF IsDate, DaysFromCivil, DaysOfYears, MarchYear, DayOfYear, EraYears, EraDays, EpochDay

LEMMA CalendarStart == CalendarInit => CalendarInv
<1>1. DaysFromCivil(1968, 1, 1) = -731
  BY DEF DaysFromCivil, DaysOfYears, MarchYear, DayOfYear, EraYears, EraDays, EpochDay
<1>2. Weekday(-731) = 1
  <2>1. \A k \in Int : (7 * k + 1) % 7 = 1
    OBVIOUS
  <2>2. -731 + 4 = 7 * (-104) + 1 /\ -104 \in Int
    OBVIOUS
  <2>3. (7 * (-104) + 1) % 7 = 1
    BY <2>1, <2>2
  <2> QED BY <2>2, <2>3 DEF Weekday
<1>3. 1 <= DaysInMonth(1968, 1)
  BY DEF DaysInMonth
<1> QED BY <1>1, <1>2, <1>3
        DEF CalendarInit, CalendarInv, CalendarTypeOK, DateExists, DaysAreCounted

\* What CalendarInv says of the date, and what a state needs for it to hold.
LEMMA DateKnown ==
  ASSUME CalendarInv
  PROVE  \E y, m, d :
           /\ IsDate(y, m, d) /\ y >= 1968
           /\ civil = [year |-> y, month |-> m, day |-> d]
           /\ days \in Int /\ days = DaysFromCivil(y, m, d)
BY DEF CalendarInv, CalendarTypeOK, DateExists, DaysAreCounted, IsDate

LEMMA DateKept ==
  ASSUME NEW y, NEW m, NEW d, IsDate(y, m, d), y >= 1968,
         civil' = [year |-> y, month |-> m, day |-> d],
         days' = DaysFromCivil(y, m, d), weekday' = Weekday(days')
  PROVE  CalendarInv'
<1>1. days' \in Int /\ days' >= -731
  BY AfterEpoch
<1>2. weekday' \in 0..6
  BY <1>1 DEF Weekday
<1>3. (m = 2 => d <= 29) /\ (m \in {4, 6, 9, 11} => d <= 30)
  BY DEF DaysInMonth, IsDate
<1> QED BY <1>1, <1>2, <1>3
        DEF IsDate, CalendarInv, CalendarTypeOK, DateExists, DaysAreCounted

LEMMA TomorrowExists ==
  ASSUME NEW y, NEW m, NEW d, IsDate(y, m, d)
  PROVE  \E y1, m1, d1 :
           /\ TomorrowOf([year |-> y, month |-> m, day |-> d])
                = [year |-> y1, month |-> m1, day |-> d1]
           /\ IsDate(y1, m1, d1) /\ y1 >= y
<1> USE DEF IsDate
<1>1. CASE d < DaysInMonth(y, m)
  <2>1. IsDate(y, m, d + 1)
    BY <1>1 DEF DaysInMonth
  <2>2. TomorrowOf([year |-> y, month |-> m, day |-> d])
          = [year |-> y, month |-> m, day |-> d + 1]
    BY <1>1 DEF TomorrowOf
  <2>3. y >= y
    OBVIOUS
  <2> QED BY ONLY <2>1, <2>2, <2>3, Zenon
<1>2. CASE ~(d < DaysInMonth(y, m)) /\ m < 12
  <2>1. IsDate(y, m + 1, 1)
    BY <1>2 DEF DaysInMonth
  <2>2. TomorrowOf([year |-> y, month |-> m, day |-> d])
          = [year |-> y, month |-> m + 1, day |-> 1]
    BY <1>2 DEF TomorrowOf
  <2>3. y >= y
    OBVIOUS
  <2> QED BY ONLY <2>1, <2>2, <2>3, Zenon
<1>3. CASE ~(d < DaysInMonth(y, m)) /\ ~(m < 12)
  <2>1. IsDate(y + 1, 1, 1)
    BY DEF DaysInMonth
  <2>2. TomorrowOf([year |-> y, month |-> m, day |-> d])
          = [year |-> y + 1, month |-> 1, day |-> 1]
    BY <1>3 DEF TomorrowOf
  <2>3. y + 1 >= y
    OBVIOUS
  <2> QED BY ONLY <2>1, <2>2, <2>3, Zenon
<1> QED BY <1>1, <1>2, <1>3

LEMMA CalendarStep == CalendarInv /\ [CalendarNext]_calendarVars => CalendarInv'
<1> SUFFICES ASSUME CalendarInv, [CalendarNext]_calendarVars PROVE CalendarInv'
  OBVIOUS
<1>1. PICK y, m, d :
        /\ IsDate(y, m, d) /\ y >= 1968
        /\ civil = [year |-> y, month |-> m, day |-> d]
        /\ days \in Int /\ days = DaysFromCivil(y, m, d)
  BY DateKnown
<1>2. weekday \in 0..6 /\ weekday = Weekday(days)
  BY DEF CalendarInv, CalendarTypeOK
<1>3. CASE NextDay
  <2>1. IsDate(y, m, d)
    BY <1>1
  <2>2. PICK y1, m1, d1 :
          /\ TomorrowOf([year |-> y, month |-> m, day |-> d])
               = [year |-> y1, month |-> m1, day |-> d1]
          /\ IsDate(y1, m1, d1) /\ y1 >= y
    BY <2>1, TomorrowExists, Zenon
  <2>3. DaysFromCivil(y1, m1, d1) = DaysFromCivil(y, m, d) + 1
    <3> DEFINE c == TomorrowOf([year |-> y, month |-> m, day |-> d])
    <3>1. DaysFromCivil(c.year, c.month, c.day) = DaysFromCivil(y, m, d) + 1
      BY <2>1, DayLater, Zenon
    <3>2. c.year = y1 /\ c.month = m1 /\ c.day = d1
      BY <2>2
    <3> QED BY <3>1, <3>2, Zenon
  <2>4. days' = days + 1 /\ civil' = TomorrowOf(civil) /\ weekday' = (weekday + 1) % 7
    BY <1>3 DEF NextDay
  <2>5. days' = DaysFromCivil(y1, m1, d1)
    BY <1>1, <2>3, <2>4
  <2>6. weekday' = Weekday(days')
    BY <1>1, <1>2, <2>4 DEF Weekday
  <2>7. civil' = [year |-> y1, month |-> m1, day |-> d1] /\ IsDate(y1, m1, d1)
    BY <1>1, <2>2, <2>4
  <2>8. y1 >= 1968
    BY <1>1, <2>2 DEF IsDate
  <2> QED BY <2>5, <2>6, <2>7, <2>8, DateKept
<1>4. CASE NextYear
  <2>1. /\ m = 1 /\ d = 1
        /\ days' = days + YearLength(y)
        /\ civil' = [year |-> y + 1, month |-> 1, day |-> 1]
        /\ weekday' = (weekday + YearLength(y)) % 7
    BY <1>1, <1>4 DEF NextYear
  <2>2. YearLength(y) \in {365, 366}
    BY DEF YearLength
  <2>3. days' = DaysFromCivil(y + 1, 1, 1)
    BY <1>1, <2>1, YearLater DEF IsDate
  <2>4. IsDate(y + 1, 1, 1) /\ y + 1 >= 1968
    BY <1>1 DEF DaysInMonth, IsDate
  <2>5. weekday' = Weekday(days')
    BY <1>1, <1>2, <2>1, <2>2 DEF Weekday
  <2> QED BY <2>1, <2>3, <2>4, <2>5, DateKept
<1>5. CASE UNCHANGED calendarVars
  BY <1>5 DEF CalendarInv, CalendarTypeOK, DateExists, calendarVars, DaysAreCounted
<1> QED BY <1>3, <1>4, <1>5 DEF CalendarNext

LEMMA CalendarInvariant == CalendarSpec => []CalendarInv
BY CalendarStart, CalendarStep, PTL DEF CalendarSpec

\* days_from_civil is the number of days one counts from the epoch, in every
\* year from 1968 on.
THEOREM DaysCounted == CalendarSpec => []DaysAreCounted
<1>1. CalendarInv => DaysAreCounted
  BY DEF CalendarInv
<1> QED BY <1>1, CalendarInvariant, PTL

LEMMA CivilKnown ==
  ASSUME CalendarInv
  PROVE  /\ CivilFromDays(days) = civil
         /\ days = DaysFromCivil(civil.year, civil.month, civil.day)
         /\ days \in Int /\ civil.year \in Nat
         /\ days >= 0 <=> civil.year >= 1970
         /\ DayExists(civil.year, civil.month, civil.day)
<1>1. PICK y, m, d :
        /\ IsDate(y, m, d) /\ y >= 1968
        /\ civil = [year |-> y, month |-> m, day |-> d]
        /\ days \in Int /\ days = DaysFromCivil(y, m, d)
  BY DateKnown
<1>2. IsDate(y, m, d)
  BY <1>1
<1>3. CivilFromDays(DaysFromCivil(y, m, d)) = [year |-> y, month |-> m, day |-> d]
  BY <1>2, DateFound, Zenon
<1>4. days >= 0 <=> y >= 1970
  BY <1>1, AfterEpoch
<1> QED BY <1>1, <1>3, <1>4 DEF DayExists, IsDate

\* civil_from_days names the day it is, for every day from 1968 on and not only the
\* days of the runs, and the weekday formula of http_date its weekday.
THEOREM DateAlwaysRight == CalendarSpec => []DateIsRight
<1>1. CalendarInv => DateIsRight
  BY CivilKnown DEF CalendarInv, DateIsRight
<1> QED BY <1>1, CalendarInvariant, PTL

\* The closed formulas under http_date and parse_http_date are the calendar.
THEOREM CalendarAlwaysAgrees == CalendarSpec => []CalendarAgrees
BY DaysCounted, DateAlwaysRight, PTL DEF CalendarAgrees

LEMMA Rest ==
  ASSUME NEW k \in Nat, NEW e \in Nat, e < 60
  PROVE  (60 * k + e) % 60 = e
  OBVIOUS

LEMMA SecondsSplit ==
  ASSUME NEW s \in Nat, s < 86400
  PROVE  /\ HourOf(s) \in Nat /\ HourOf(s) <= 23
         /\ MinuteOf(s) \in Nat /\ MinuteOf(s) <= 59
         /\ SecondOf(s) \in Nat /\ SecondOf(s) <= 59
         /\ HourOf(s) * 3600 + MinuteOf(s) * 60 + SecondOf(s) = s
<1>1. PICK a \in Nat, q \in Nat : /\ a = s \div 3600 /\ q = s % 3600 /\ q < 3600
                                  /\ s = a * 3600 + q /\ a <= 23
  OBVIOUS
<1>2. PICK c \in Nat, e \in Nat : c = q \div 60 /\ e < 60 /\ q = c * 60 + e /\ c <= 59
  <2>1. q \div 60 \in Nat /\ q % 60 \in Nat /\ q % 60 < 60
    BY ONLY q \in Nat, SMT
  <2>3. q = (q \div 60) * 60 + (q % 60)
    BY ONLY q \in Nat, SMT
  <2>2. q \div 60 <= 59
    BY ONLY q \in Nat, <1>1, SMT
  <2> QED BY <2>1, <2>2, <2>3
<1>3. s = 60 * (60 * a + c) + e
  BY ONLY a \in Nat, c \in Nat, e \in Nat, q \in Nat, s \in Nat, <1>1, <1>2, SMT
<1>4. SecondOf(s) = e
  BY <1>3, <1>2, Rest DEF SecondOf
<1>5. MinuteOf(s) = c
  <2>1. s % 3600 = q /\ q \div 60 = c
    BY <1>1, <1>2
  <2> QED BY ONLY <2>1 DEF MinuteOf
<1>6. a * 3600 + c * 60 + e = s
  BY ONLY a \in Nat, c \in Nat, e \in Nat, s \in Nat, <1>3, SMT
<1>7. HourOf(s) = a /\ a \in Nat /\ a <= 23 /\ c \in Nat /\ c <= 59 /\ e \in Nat /\ e <= 59
  BY <1>1, <1>2 DEF HourOf
<1> QED BY ONLY <1>4, <1>5, <1>6, <1>7

\* The time that a Last-Modified names is the time of the file, to the second.
LEMMA HeaderRead ==
  ASSUME CalendarInv, NEW s \in Nat, s < 86400, days >= 0
  PROVE  LET t == [days |-> days, second |-> s]
         IN ParseHttpDate(HttpDate(t)) = IF civil.year <= 9999 THEN t ELSE NoTime
<1>1. HttpDate([days |-> days, second |-> s])
        = [weekday |-> Weekday(days), year |-> civil.year, month |-> civil.month,
           day |-> civil.day, hour |-> HourOf(s), minute |-> MinuteOf(s),
           second |-> SecondOf(s)]
  BY CivilKnown DEF HttpDate
<1>2. /\ civil.year \in Nat /\ civil.year >= 1970
      /\ DayExists(civil.year, civil.month, civil.day)
      /\ DaysFromCivil(civil.year, civil.month, civil.day) = days
  BY CivilKnown
<1>3. CASE civil.year <= 9999
  <2>1. ~(civil.year < 1970 \/ civil.year > 9999)
    BY <1>2, <1>3
  <2>2. ~(HourOf(s) > 23 \/ MinuteOf(s) > 59 \/ SecondOf(s) > 60) /\ ~(SecondOf(s) > 59)
    <3>1. /\ HourOf(s) \in Nat /\ HourOf(s) <= 23 /\ MinuteOf(s) \in Nat /\ MinuteOf(s) <= 59
          /\ SecondOf(s) \in Nat /\ SecondOf(s) <= 59
      BY SecondsSplit
    <3> QED BY ONLY <3>1
  <2>3. HourOf(s) * 3600 + MinuteOf(s) * 60 + SecondOf(s) = s
    BY SecondsSplit
  <2>4. ParseHttpDate(HttpDate([days |-> days, second |-> s]))
          = [days |-> days, second |-> HourOf(s) * 3600 + MinuteOf(s) * 60 + SecondOf(s)]
    BY ONLY <1>1, <1>2, <2>1, <2>2 DEF ParseHttpDate
  <2> QED BY ONLY <1>3, <2>3, <2>4
<1>4. CASE ~(civil.year <= 9999)
  <2>1. civil.year > 9999
    BY <1>2, <1>4
  <2> QED BY ONLY <1>1, <1>4, <2>1 DEF ParseHttpDate
<1> QED BY <1>3, <1>4

\* Last-Modified, read back as an If-Modified-Since, loses nothing.
THEOREM RoundTripKeepsTime == CalendarSpec => []RoundTrip
<1>1. ASSUME CalendarInv PROVE RoundTrip
  <2> SUFFICES ASSUME NEW s \in Seconds, days >= 0, civil.year <= 9999
               PROVE  ParseHttpDate(HttpDate([days |-> days, second |-> s]))
                        = [days |-> days, second |-> s]
    BY DEF RoundTrip
  <2>1. s \in Nat /\ s < 86400
    BY DateAssumption
  <2> QED BY <1>1, <2>1, HeaderRead
<1> QED BY <1>1, CalendarInvariant, PTL

\* A file is said not to be modified for its own Last-Modified only if that is
\* its time: a file older than the epoch, or of a year too long to print, is not.
THEOREM EchoIsHonest == CalendarSpec => []EchoedDateIsHonest
<1>1. ASSUME CalendarInv PROVE EchoedDateIsHonest
  <2> SUFFICES ASSUME NEW s \in Seconds
               PROVE  LET mtime == [days |-> days, second |-> s]
                          since == ParseHttpDate(HttpDate(mtime))
                      IN NotModifiedSince(mtime, since) <=> days >= 0 /\ since = mtime
    BY DEF EchoedDateIsHonest
  <2> DEFINE mtime == [days |-> days, second |-> s]
  <2>1. s \in Nat /\ s < 86400
    BY DateAssumption
  <2>2. CASE days >= 0
    <3>1. ParseHttpDate(HttpDate(mtime)) = IF civil.year <= 9999 THEN mtime ELSE NoTime
      BY <1>1, <2>1, <2>2, HeaderRead
    <3>2. mtime # NoTime
      BY <2>1 DEF NoTime
    <3> QED BY <2>1, <2>2, <3>1, <3>2, CivilKnown, <1>1 DEF NotModifiedSince, NotLater
  <2>3. CASE ~(days >= 0)
    BY <1>1, <2>3 DEF NotModifiedSince, CalendarInv, CalendarTypeOK
  <2> QED BY <2>2, <2>3
<1> QED BY <1>1, CalendarInvariant, PTL

\* A client that echoes a Last-Modified is answered the truth, whatever file
\* and time it was for.
THEOREM LastModifiedAlwaysEchoes == CalendarSpec => []LastModifiedEchoes
BY RoundTripKeepsTime, EchoIsHonest, PTL DEF LastModifiedEchoes

\* A date that the server accepts exists: it is printed again as it was sent.
THEOREM AcceptedExists == CalendarSpec => []AcceptedDateExists
<1>1. ASSUME CalendarInv PROVE AcceptedDateExists
  <2> SUFFICES ASSUME NEW d \in 0..32,
                      ParseHttpDate([weekday |-> 0, year |-> civil.year, month |-> civil.month,
                                     day |-> d, hour |-> 23, minute |-> 59, second |-> 60])
                        # NoTime
               PROVE  LET p == HttpDate(ParseHttpDate(
                                 [weekday |-> 0, year |-> civil.year, month |-> civil.month,
                                  day |-> d, hour |-> 23, minute |-> 59, second |-> 60]))
                      IN /\ p.year = civil.year /\ p.month = civil.month /\ p.day = d
                         /\ p.hour = 23 /\ p.minute = 59 /\ p.second = 59
    BY DEF AcceptedDateExists
  <2> DEFINE y == civil.year
             m == civil.month
             n == DaysFromCivil(y, m, d)
  <2>1. ~(y < 1970 \/ y > 9999) /\ DayExists(y, m, d) /\ y \in Nat
    BY <1>1 DEF ParseHttpDate, CalendarInv, CalendarTypeOK
  <2>2. IsDate(y, m, d) /\ y >= 1968 /\ y >= 1970
    BY <2>1 DEF DayExists, DaysInMonth, IsDate
  <2>3. n \in Int /\ n >= 0
    BY <2>2, AfterEpoch
  <2>4. CivilFromDays(n) = [year |-> y, month |-> m, day |-> d]
    <3>1. IsDate(y, m, d)
      BY <2>2
    <3> QED BY <3>1, DateFound, Zenon
  <2>5. ParseHttpDate([weekday |-> 0, year |-> y, month |-> m,
                       day |-> d, hour |-> 23, minute |-> 59, second |-> 60])
          = [days |-> n, second |-> 86399]
    BY <2>1 DEF ParseHttpDate
  <2>6. HourOf(86399) = 23 /\ MinuteOf(86399) = 59 /\ SecondOf(86399) = 59
    BY DEF HourOf, MinuteOf, SecondOf
  <2>7. HttpDate([days |-> n, second |-> 86399])
          = [weekday |-> Weekday(n), year |-> y, month |-> m, day |-> d,
             hour |-> 23, minute |-> 59, second |-> 59]
    BY <2>3, <2>4, <2>6 DEF HttpDate
  <2>8. HttpDate(ParseHttpDate([weekday |-> 0, year |-> y, month |-> m,
                                day |-> d, hour |-> 23, minute |-> 59, second |-> 60]))
          = [weekday |-> Weekday(n), year |-> y, month |-> m, day |-> d,
             hour |-> 23, minute |-> 59, second |-> 59]
    BY ONLY <2>5, <2>7, SMT
  <2> HIDE DEF n
  <2> QED BY <2>8
<1> QED BY <1>1, CalendarInvariant, PTL

-----------------------------------------------------------------------------
(***************************************************************************)
(* Reading a header, for every limit, every size of a read and every way   *)
(* in which the peer splits what it sends.                                 *)
(***************************************************************************)

USE ReaderAssumption

\* The header that is parsed is the shortest one: not a byte of what follows it
\* belongs to the request.
HeaderIsFirst ==
  pc \in {"found", "accepted"} =>
    /\ end \in HeaderEnds(request)
    /\ HeaderEnds(SubSeq(request, 1, end - 1)) = {}

ReaderInv ==
  /\ ReaderTypeOK
  /\ HeaderIsFirst
  /\ CompleteIsParsed
  /\ TooLargeIsTrue
  /\ LinesAreTheHeader

\* Where a header ends does not depend on what follows it.
LEMMA EndsOfPrefix ==
  ASSUME NEW s \in Seq({"CR", "LF", "x"}), NEW n \in 0..Len(s)
  PROVE  HeaderEnds(SubSeq(s, 1, n)) = {i \in HeaderEnds(s) : i <= n}
<1>1. SubSeq(s, 1, n) \in Seq({"CR", "LF", "x"}) /\ Len(SubSeq(s, 1, n)) = n
  OBVIOUS
<1>2. \A i \in 1..n : SubSeq(s, 1, n)[i] = s[i]
  OBVIOUS
<1> QED BY <1>1, <1>2 DEF HeaderEnds

-----------------------------------------------------------------------------
(* The lines. *)

\* Every LF ends a line: the LF before it, or the beginning, starts it.
LEMMA LineOf ==
  ASSUME NEW h \in Seq({"CR", "LF", "x"}), NEW a \in 1..Len(h), h[a] = "LF"
  PROVE  \E s \in 0..a-1 : <<s, a>> \in Lines(h)
<1> DEFINE T == {n \in 0..a-1 : a - 1 - n = 0 \/ h[a - 1 - n] = "LF"}
<1>1. T \subseteq Nat /\ a - 1 \in T
  OBVIOUS
<1>2. PICK n \in T : \A k \in T : n <= k
  BY <1>1, NatMin
<1>3. PICK s \in 0..a-1 : s = a - 1 - n /\ (s = 0 \/ h[s] = "LF")
  BY <1>2
<1>4. ASSUME NEW i \in s+1 .. a-1, h[i] = "LF" PROVE FALSE
  <2>1. a - 1 - i \in T /\ a - 1 - i < n
    BY <1>3, <1>4
  <2> QED BY <1>2, <2>1
<1>5. \A i \in s+1 .. a-1 : h[i] # "LF"
  BY <1>4
<1>6. s \in 0..Len(h) /\ s < a
  OBVIOUS
<1> DEFINE l == <<s, a>>
<1>7. l \in (0..Len(h)) \X (1..Len(h)) /\ l[1] = s /\ l[2] = a
  BY <1>6
<1> HIDE DEF l
<1>8. l \in Lines(h)
  BY <1>3, <1>5, <1>6, <1>7 DEF Lines
<1> QED BY <1>8 DEF l

\* The first LF after a byte: the byte is in the line it ends.
LEMMA NextLF ==
  ASSUME NEW h \in Seq({"CR", "LF", "x"}), NEW i \in 1..Len(h), h[Len(h)] = "LF"
  PROVE  \E j \in i..Len(h) : h[j] = "LF" /\ \A k \in i..j-1 : h[k] # "LF"
<1> DEFINE T == {j \in i..Len(h) : h[j] = "LF"}
<1>1. T \subseteq Nat /\ Len(h) \in T
  OBVIOUS
<1>2. PICK j \in T : \A k \in T : j <= k
  BY <1>1, NatMin
<1>3. ASSUME NEW k \in i..j-1, h[k] = "LF" PROVE FALSE
  <2>1. k \in T /\ k < j
    BY <1>3
  <2> QED BY <1>2, <2>1
<1> QED BY <1>2, <1>3

\* A header that ends where the first empty line does.
WholeHeader(h) ==
  h \in Seq({"CR", "LF", "x"}) /\ HeaderEnds(h) = {Len(h)}

LEMMA WholeEnd ==
  ASSUME NEW h, WholeHeader(h)
  PROVE  /\ h \in Seq({"CR", "LF", "x"}) /\ Len(h) \in Nat /\ Len(h) >= 4
         /\ h[Len(h)] = "LF" /\ h[Len(h) - 1] = "CR"
         /\ h[Len(h) - 2] = "LF" /\ h[Len(h) - 3] = "CR"
<1>1. Len(h) \in HeaderEnds(h) /\ h \in Seq({"CR", "LF", "x"})
  BY DEF WholeHeader
<1> QED BY <1>1 DEF HeaderEnds

\* No header line is empty but the last.
LEMMA OneEmptyLine ==
  ASSUME NEW h, WholeHeader(h), WellCut(h), NEW m \in Lines(h), IsEmptyLine(h, m)
  PROVE  m[2] >= Len(h)
<1> DEFINE T == {n \in 1..Len(h) : \E l \in Lines(h) : IsEmptyLine(h, l) /\ l[2] = n}
<1>1. h \in Seq({"CR", "LF", "x"})
  BY DEF WholeHeader
<1>2. T \subseteq Nat /\ m[2] \in T
  BY <1>1 DEF Lines
<1>3. PICK c \in T : \A n \in T : c <= n
  BY <1>2, NatMin
<1>4. PICK l \in Lines(h) : IsEmptyLine(h, l) /\ l[2] = c
  BY <1>3
<1>5. PICK a \in 1..Len(h) : l[1] = a /\ c = a + 2 /\ h[a] = "LF" /\ h[a+1] = "CR" /\ h[a+2] = "LF"
  BY <1>1, <1>4 DEF Lines, IsEmptyLine
<1>6. PICK s \in 0..a-1 : <<s, a>> \in Lines(h)
  BY <1>1, <1>5, LineOf
<1>7. <<s, a>> \in LinesRead(h)
  <2>1. ASSUME NEW k \in Lines(h), IsEmptyLine(h, k) PROVE a <= k[2]
    <3>1. k[2] \in T
      BY <1>1, <2>1 DEF Lines
    <3> QED BY <1>3, <1>5, <3>1
  <2> QED BY <1>6, <2>1 DEF LinesRead
<1>8. s + 1 < a /\ h[a-1] = "CR"
  BY <1>7 DEF WellCut, StripsCR
<1>9. c \in HeaderEnds(h)
  BY <1>1, <1>3, <1>5, <1>8 DEF HeaderEnds
<1>10. c = Len(h)
  BY <1>9 DEF WholeHeader
<1> QED BY <1>2, <1>3, <1>10

LEMMA LinesOfWhole ==
  ASSUME NEW h, WholeHeader(h), WellCut(h)
  PROVE  /\ h[1] = "x"
         /\ \A i \in 1..Len(h) : h[i] = "CR" <=> i < Len(h) /\ h[i+1] = "LF"
         /\ LinesRead(h) = Lines(h)
<1>1. h \in Seq({"CR", "LF", "x"}) /\ Len(h) \in Nat /\ Len(h) >= 4 /\ h[Len(h)] = "LF"
  BY WholeEnd
<1>2. LinesRead(h) = Lines(h)
  <2>1. ASSUME NEW l \in Lines(h), NEW m \in Lines(h), IsEmptyLine(h, m) PROVE l[2] <= m[2]
    <3>1. m[2] >= Len(h)
      BY <2>1, OneEmptyLine
    <3> QED BY <1>1, <3>1 DEF Lines
  <2> QED BY <2>1 DEF LinesRead
<1>3. ASSUME NEW l \in Lines(h)
      PROVE  StripsCR(h, l) /\ NoControl(h, l) /\ (l[1] = 0 => l[2] > 2)
  BY <1>2 DEF WellCut
<1>4. ASSUME NEW i \in 1..Len(h), i < Len(h), h[i+1] = "LF" PROVE h[i] = "CR"
  <2>1. PICK s \in 0..i : <<s, i+1>> \in Lines(h)
    <3>1. i + 1 \in 1..Len(h) /\ (i + 1) - 1 = i
      BY <1>1, <1>4
    <3> QED BY <1>1, <1>4, <3>1, LineOf
  <2> QED BY <1>1, <1>3, <2>1 DEF StripsCR
<1>5. ASSUME NEW i \in 1..Len(h), h[i] = "CR" PROVE i < Len(h) /\ h[i+1] = "LF"
  <2>1. PICK j \in i..Len(h) : h[j] = "LF" /\ \A k \in i..j-1 : h[k] # "LF"
    BY <1>1, NextLF
  <2>2. j \in 1..Len(h) /\ i < j
    BY <1>1, <1>5, <2>1
  <2>3. PICK s \in 0..j-1 : <<s, j>> \in Lines(h)
    BY <1>1, <2>1, <2>2, LineOf
  <2>4. s < i
    BY <1>1, <1>5, <2>1, <2>2, <2>3 DEF Lines
  <2>5. NoControl(h, <<s, j>>)
    BY <1>3, <2>3
  <2>6. i = j - 1
    BY <1>1, <1>5, <2>2, <2>4, <2>5 DEF NoControl
  <2> QED BY <1>1, <2>1, <2>2, <2>6
<1>6. h[1] = "x"
  <2>1. PICK j \in 1..Len(h) : h[j] = "LF" /\ \A k \in 1..j-1 : h[k] # "LF"
    BY <1>1, NextLF
  <2>2. <<0, j>> \in Lines(h)
    BY <1>1, <2>1 DEF Lines
  <2>3. j > 2
    BY <1>3, <2>2
  <2>4. h[1] # "LF" /\ h[2] # "LF"
    BY <2>1, <2>3
  <2>5. h[1] # "CR"
    <3>1. 1 \in 1..Len(h) /\ 1 + 1 = 2
      BY <1>1
    <3> QED BY <1>5, <2>4, <3>1
  <2> QED BY <1>1, <2>4, <2>5
<1> QED BY <1>2, <1>4, <1>5, <1>6

-----------------------------------------------------------------------------
(* The invariant. *)

LEMMA ReaderStart == ReaderInit => ReaderInv
BY DEF ReaderInit, ReaderInv, ReaderTypeOK, HeaderIsFirst, CompleteIsParsed, TooLargeIsTrue,
       LinesAreTheHeader, HeaderEnds, Reading, Refusals

LEMMA ReaderStepsKeep == ReaderInv /\ [ReaderNext]_readerVars => ReaderInv'
<1> SUFFICES ASSUME ReaderInv, [ReaderNext]_readerVars PROVE ReaderInv'
  OBVIOUS
<1> USE DEF ReaderInv, ReaderTypeOK, HeaderIsFirst, CompleteIsParsed, TooLargeIsTrue,
            LinesAreTheHeader, Reading, Refusals
<1>1. CASE FindEnd
  <2>1. PICK i \in HeaderEnds(request) : IsFirst(i) /\ end' = i
    BY <1>1 DEF FindEnd
  <2>2. i \in 4..Len(request) /\ request' = request /\ pc' = "found"
    BY <1>1, <2>1 DEF FindEnd, HeaderEnds
  <2>3. i - 1 \in 0..Len(request)
    BY <2>2
  <2>4. HeaderEnds(SubSeq(request, 1, i - 1)) = {j \in HeaderEnds(request) : j <= i - 1}
    BY <2>3, EndsOfPrefix
  <2>5. \A j \in HeaderEnds(request) : j \in Int /\ i <= j
    BY <2>1 DEF IsFirst, HeaderEnds
  <2>6. HeaderEnds(SubSeq(request, 1, i - 1)) = {}
    <3>1. \A j \in HeaderEnds(request) : ~(j <= i - 1)
      BY <2>2, <2>5
    <3> QED BY <2>4, <3>1, Zenon
  <2> QED BY <1>1, <2>1, <2>2, <2>6 DEF FindEnd
<1>2. CASE ReachLimit
  BY <1>2 DEF ReachLimit, AtLimit
<1>3. CASE StartRead
  BY <1>3 DEF StartRead, MustRead
<1>4. ASSUME NEW chunk \in Chunks, ReadSome(chunk) PROVE ReaderInv'
  <2>1. chunk \in Seq({"CR", "LF", "x"}) /\ Len(chunk) \in Nat
    OBVIOUS
  <2>2. CASE Fits(Len(chunk)) /\ request' = request \o chunk /\ pc' = "check" /\ UNCHANGED dropped
    <3>1. request' \in Seq({"CR", "LF", "x"}) /\ Len(request') = Len(request) + Len(chunk)
      BY <2>1, <2>2
    <3>2. Len(request') <= MaxHeader /\ end' \in 0..Len(request')
      BY <1>4, <2>1, <2>2, <3>1 DEF Fits, ReadSome
    <3> QED BY <1>4, <2>2, <3>1, <3>2 DEF ReadSome
  <2>3. CASE ~Fits(Len(chunk)) /\ dropped' = Len(chunk) /\ pc' = "HeaderTooLarge" /\ UNCHANGED request
    BY <1>4, <2>1, <2>3 DEF ReadSome, Fits
  <2> QED BY <1>4, <2>2, <2>3 DEF ReadSome
<1>5. CASE ReadNone
  BY <1>5 DEF ReadNone
<1>6. CASE WaitStarts
  BY <1>6 DEF WaitStarts
<1>7. CASE PollReturns
  BY <1>7 DEF PollReturns
<1>8. CASE PollTimesOut
  BY <1>8 DEF PollTimesOut
<1>9. CASE Parse
  <2>1. pc = "found" /\ pc' \in {"BadRequest", "MethodNotAllowed", "accepted"}
        /\ UNCHANGED <<request, dropped, end, left>>
    BY <1>9 DEF Parse
  <2>2. pc' = "accepted" => WellCut(Header)
    BY <1>9 DEF Parse
  <2>3. WholeHeader(Header) /\ Len(Header) = end
    <3>1. end \in 4..Len(request) /\ end \in HeaderEnds(request)
      BY <2>1 DEF HeaderEnds
    <3>2. Header \in Seq({"CR", "LF", "x"}) /\ Len(Header) = end
      BY <3>1 DEF Header
    <3>3. HeaderEnds(Header) = {i \in HeaderEnds(request) : i <= end}
      BY <3>1, EndsOfPrefix DEF Header
    <3>4. HeaderEnds(SubSeq(request, 1, end - 1)) = {i \in HeaderEnds(request) : i <= end - 1}
      <4>1. end - 1 \in 0..Len(request)
        BY <3>1
      <4> QED BY <4>1, EndsOfPrefix
    <3>5. HeaderEnds(SubSeq(request, 1, end - 1)) = {}
      BY <2>1
    <3>6. \A i \in HeaderEnds(request) : i \in Int /\ ~(i <= end - 1)
      <4>1. \A i \in HeaderEnds(request) : i \in Int
        BY DEF HeaderEnds
      <4>2. \A i \in HeaderEnds(request) : ~(i <= end - 1)
        BY ONLY <3>4, <3>5, Zenon
      <4> QED BY ONLY <4>1, <4>2, Zenon
    <3>7. \A i \in HeaderEnds(request) : i <= end <=> i = end
      <4>1. end \in Int
        BY <3>1
      <4> QED BY ONLY <4>1, <3>6, SMT
    <3>8. HeaderEnds(Header) = {end}
      BY <3>1, <3>3, <3>7
    <3> QED BY <3>2, <3>8 DEF WholeHeader
  <2>4. Header' = Header
    BY <2>1 DEF Header
  <2>5. LinesAreTheHeader'
    <3>1. CASE pc' = "accepted"
      BY <2>1, <2>2, <2>3, <2>4, <3>1, LinesOfWhole
    <3>2. CASE pc' # "accepted"
      BY <3>2
    <3> QED BY <3>1, <3>2
  <2> QED BY <2>1, <2>5
<1>10. CASE Tick
  <2>1. left' \in 0..Lifetime /\ UNCHANGED <<pc, request, dropped, end>>
    BY <1>10 DEF Tick
  <2> QED BY <2>1 DEF Header
<1>11. CASE UNCHANGED readerVars
  BY <1>11 DEF readerVars, Header
<1> QED BY <1>1, <1>2, <1>3, <1>4, <1>5, <1>6, <1>7, <1>8, <1>9, <1>10, <1>11
        DEF ReaderNext, ReaderStep, Ended

LEMMA ReaderInvariant == ReaderSpec => []ReaderInv
BY ReaderStart, ReaderStepsKeep, PTL DEF ReaderSpec

\* The limit is kept, whatever the size of the reads.
THEOREM ReaderTypeCorrect == ReaderSpec => []ReaderTypeOK
<1>1. ReaderInv => ReaderTypeOK
  BY DEF ReaderInv
<1> QED BY <1>1, ReaderInvariant, PTL

\* A header of which every byte was kept is parsed, and nothing waited for.
THEOREM CompleteIsAlwaysParsed == ReaderSpec => []CompleteIsParsed
<1>1. ReaderInv => CompleteIsParsed
  BY DEF ReaderInv
<1> QED BY <1>1, ReaderInvariant, PTL

\* A 431 means that too many bytes came, or as many as may be kept without an end.
THEOREM TooLargeIsAlwaysTrue == ReaderSpec => []TooLargeIsTrue
<1>1. ReaderInv => TooLargeIsTrue
  BY DEF ReaderInv
<1> QED BY <1>1, ReaderInvariant, PTL

\* Both: what is kept is exact at the limit of read_request.
THEOREM LimitAlwaysExact == ReaderSpec => []LimitIsExact
BY CompleteIsAlwaysParsed, TooLargeIsAlwaysTrue, PTL DEF LimitIsExact

\* The lines that are read are the lines of the header, all of them.
THEOREM LinesAlwaysTheHeader == ReaderSpec => []LinesAreTheHeader
<1>1. ReaderInv => LinesAreTheHeader
  BY DEF ReaderInv
<1> QED BY <1>1, ReaderInvariant, PTL
=============================================================================
