------------------------------- MODULE Temporal --------------------------------
(***************************************************************************)
(* Dates and times: src/src/types/datetime.rs turns the server's day and   *)
(* microsecond counts into texts, src/src/types/temporal.rs reads the      *)
(* texts back.  Calendar arithmetic is done without a library, with the    *)
(* divisions of Rust, which round towards zero.                            *)
(*                                                                         *)
(* A text is the record of the numbers printed in it.  A second has        *)
(* TicksPerSecond ticks for the code's million microseconds.               *)
(***************************************************************************)
EXTENDS Integers, Sequences

CONSTANTS
  FirstDays,       \* days since 1970-01-01 the walk through the calendar starts at
  MaxDays,         \* bound: days walked from each
  TicksPerSecond,
  Clocks,          \* times of day, in ticks
  Zones            \* zone offsets, in seconds

VARIABLES
  day,     \* days since 1970-01-01
  walked

vars == <<day, walked>>

\* Rust's / and % of integers.
Quot(a, b) == IF a >= 0 THEN a \div b ELSE -((-a) \div b)
Rem(a, b) == a - b * Quot(a, b)

EpochDays == 10957   \* POSTGRES_EPOCH_DAYS: 2000-01-01
TicksPerDay == 86400 * TicksPerSecond

--------------------------------------------------------------------------------
(* datetime.rs: the calendar *)


CivilFromDays(n) ==
  LET z == n + 719468
      era == Quot(IF z >= 0 THEN z ELSE z - 146096, 146097)
      doe == z - era * 146097
      yoe == (doe - doe \div 1460 + doe \div 36524 - doe \div 146096) \div 365
      doy == doe - (365 * yoe + yoe \div 4 - yoe \div 100)
      mp == (5 * doy + 2) \div 153
      m == IF mp < 10 THEN mp + 3 ELSE mp - 9
      y == yoe + era * 400
  IN <<IF m <= 2 THEN y + 1 ELSE y, m, doy - (153 * mp + 2) \div 5 + 1>>

DaysFromCivil(year, m, d) ==
  LET y == IF m <= 2 THEN year - 1 ELSE year
      era == Quot(IF y >= 0 THEN y ELSE y - 399, 400)
      yoe == y - era * 400
      mp == IF m > 2 THEN m - 3 ELSE m + 9
      doy == (153 * mp + 2) \div 5 + d - 1
      doe == yoe * 365 + yoe \div 4 - yoe \div 100 + doy
  IN era * 146097 + doe - 719468

(* datetime.rs: texts *)

\* append_time_from_8bytes: sign, hours, minutes, seconds and the fraction.
ShowTime(ticks) ==
  LET magnitude == IF ticks < 0 THEN -ticks ELSE ticks
      secs == magnitude \div TicksPerSecond
  IN [neg |-> ticks < 0, h |-> secs \div 3600, m |-> (secs % 3600) \div 60, s |-> secs % 60,
      frac |-> magnitude % TicksPerSecond]

\* timestamp_from_8bytes_into: Euclidean division, so the time of day is never negative.
ShowTimestamp(ticks) ==
  [date |-> CivilFromDays(ticks \div TicksPerDay + EpochDays), time |-> ShowTime(ticks % TicksPerDay)]

\* timetz_from_bytes_into: the server's zone counts westwards.  Minutes and
\* seconds are printed when they are not zero.
ShowTimetz(ticks, zone) ==
  LET abs == IF zone < 0 THEN -zone ELSE zone
      h == abs \div 3600  m == (abs % 3600) \div 60  s == abs % 60
  IN [time |-> ShowTime(ticks), sign |-> IF zone < 0 THEN "+" ELSE "-",
      zone |-> IF s # 0 THEN <<h, m, s>> ELSE IF m # 0 THEN <<h, m>> ELSE <<h>>]

\* interval_from_12bytes_into.
ShowInterval(ticks, months) ==
  LET years == Quot(months, 12)
      mons == Rem(months, 12)
  IN (IF years # 0 THEN <<[n |-> years, unit |-> "years"]>> ELSE <<>>)
     \o (IF months # 0 THEN <<[n |-> mons, unit |-> "mons"]>> ELSE <<>>)
     \o <<[n |-> ShowTime(ticks), unit |-> "clock"]>>

--------------------------------------------------------------------------------
(* temporal.rs.  Invalid is the error of every parser. *)

Invalid == <<>>

MaxYear == 6000000
MaxDate == 2147483647  \* the largest i32

\* parse_date, to days since 2000-01-01: a day the calendar does not have is
\* refused, and one whose year or number of days is out of range.
ParseDate(date) ==
  IF date[1] \notin -MaxYear .. MaxYear \/ date[2] \notin 1 .. 12 \/ date[3] \notin 1 .. 31
  THEN Invalid
  ELSE LET days == DaysFromCivil(date[1], date[2], date[3])
       IN IF CivilFromDays(days) # date \/ days - EpochDays \notin -MaxDate - 1 .. MaxDate
          THEN Invalid ELSE <<days - EpochDays>>

\* parse_clock.
ParseClock(t) ==
  IF t.m \notin 0 .. 59 \/ t.s \notin 0 .. 59 \/ t.h < 0 THEN Invalid
  ELSE LET ticks == (t.h * 3600 + t.m * 60 + t.s) * TicksPerSecond + t.frac
       IN <<IF t.neg THEN -ticks ELSE ticks>>

\* NzTime::new.
TimeOfDay(clock) ==
  IF clock = Invalid THEN Invalid ELSE IF clock[1] \notin 0 .. TicksPerDay - 1 THEN Invalid ELSE clock

\* FromSql for NzTimestamp.
ParseTimestamp(t) ==
  LET time == TimeOfDay(ParseClock(t.time))
      date == ParseDate(t.date)
  IN IF Invalid \in {time, date} THEN Invalid ELSE <<date[1] * TicksPerDay + time[1]>>

\* FromSql for NzInterval.
ParseInterval(tokens) ==
  LET sum[k \in 0 .. Len(tokens)] ==
        IF k = 0 THEN <<0, 0>>
        ELSE LET s == sum[k - 1]
                 t == tokens[k]
             IN IF t.unit = "clock" THEN <<s[1] + ParseClock(t.n)[1], s[2]>>
                ELSE IF t.unit = "years" THEN <<s[1], s[2] + 12 * t.n>>
                ELSE <<s[1], s[2] + t.n>>
  IN sum[Len(tokens)]

\* NzTimetz: Display negates the offset the server's way, FromSql reads the sign.
DisplayTimetz(ticks, offset) == ShowTimetz(ticks, -offset)

ParseTimetz(t) ==
  LET part(k) == IF k \in DOMAIN t.zone THEN t.zone[k] ELSE 0
      offset == part(1) * 3600 + part(2) * 60 + part(3)
  IN IF \/ TimeOfDay(ParseClock(t.time)) = Invalid
        \/ part(1) \notin 0 .. 23 \/ part(2) \notin 0 .. 59 \/ part(3) \notin 0 .. 59
        \/ offset \notin 0 .. 86399  \* NzTimetz::new
     THEN Invalid
     ELSE <<ParseClock(t.time)[1], IF t.sign = "-" THEN -offset ELSE offset>>

--------------------------------------------------------------------------------
Init == day \in FirstDays /\ walked = 0

Tomorrow == walked < MaxDays /\ day' = day + 1 /\ walked' = walked + 1

Next == Tomorrow

Spec == Init /\ [][Next]_vars

--------------------------------------------------------------------------------
(* Properties *)

\* The Gregorian calendar.
Leap(y) == y % 4 = 0 /\ (y % 100 # 0 \/ y % 400 = 0)

MonthLength(y, m) ==
  IF m = 2 THEN IF Leap(y) THEN 29 ELSE 28 ELSE IF m \in {4, 6, 9, 11} THEN 30 ELSE 31

DayAfter(date) ==
  IF date[3] < MonthLength(date[1], date[2]) THEN <<date[1], date[2], date[3] + 1>>
  ELSE IF date[2] < 12 THEN <<date[1], date[2] + 1, 1>> ELSE <<date[1] + 1, 1, 1>>

\* Day by day civil_from_days follows the Gregorian calendar, through leap years,
\* centuries and the years before 1.
DayFollowsDay == [][CivilFromDays(day') = DayAfter(CivilFromDays(day))]_vars

\* days_from_civil undoes civil_from_days, and parse_date refuses the day after
\* the last one of a month.
DatesRoundTrip ==
  LET date == CivilFromDays(day)
  IN /\ DaysFromCivil(date[1], date[2], date[3]) = day
     /\ ParseDate(date) = <<day - EpochDays>>
     /\ ParseDate(<<date[1], date[2], MonthLength(date[1], date[2]) + 1>>) = Invalid

\* What a typed getter reads from the text of a timestamp, a time with a zone or
\* an interval is what the server sent, before the epoch and west of Greenwich
\* as well, and with months and time of different sign.
TimesRoundTrip ==
  /\ (day - EpochDays) \in -2000 .. 2000 =>
       \A t \in Clocks :
         LET at == (day - EpochDays) * TicksPerDay + t
         IN ParseTimestamp(ShowTimestamp(at)) = <<at>>
  /\ walked = 0 =>
       \A t \in Clocks, z \in Zones :
         /\ ParseTimetz(DisplayTimetz(t, z)) = <<t, z>>
         /\ ParseInterval(ShowInterval(-t, z)) = <<-t, z>>
         /\ ParseInterval(ShowInterval(t, z % 30)) = <<t, z % 30>>
================================================================================
