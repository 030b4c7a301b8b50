------------------------------- MODULE Clock --------------------------------
(***************************************************************************)
(* The timestamps of src/src/clock.rs, as the system clock goes on.  The   *)
(* seconds since 1970 are kept as their two quotients by the length of a   *)
(* day, the first thing utc_rfc3339 makes of them, so that centuries of    *)
(* them stay within TLC's integers.                                        *)
(***************************************************************************)
EXTENDS Integers

CONSTANTS
  Delays,   \* how much later the clock is read again: hours, minutes, seconds
  LastDay   \* bound: the day the clock stops

ASSUME ClockAssumption ==
  /\ Delays \subseteq (0 .. 23) \X (0 .. 59) \X (0 .. 59)
  /\ LastDay \in Nat

VARIABLES days, secsOfDay

clockVars == <<days, secsOfDay>>

Day == 86400

\* Definitions whose names end in Fault are the definition after them with a
\* plausible bug in it; the model never uses them.
-----------------------------------------------------------------------------
\* Of a day of the era, in years that begin on the first of March.
YearOfEraFault(doe) == (doe - doe \div 1460 + doe \div 36524) \div 365
YearOfEra(doe) == (doe - doe \div 1460 + doe \div 36524 - doe \div 146096) \div 365

Month(mp) == IF mp < 10 THEN mp + 3 ELSE mp - 9

CivilFromDays(d) ==
  LET z == d + 719468
      doe == z % 146097
      yoe == YearOfEra(doe)
      doy == doe - (365 * yoe + yoe \div 4 - yoe \div 100)
      mp == (5 * doy + 2) \div 153
      m == Month(mp)
  IN  << yoe + (z \div 146097) * 400 + (IF m <= 2 THEN 1 ELSE 0),
         m,
         doy - (153 * mp + 2) \div 5 + 1 >>

Date == CivilFromDays(days)
Time == <<secsOfDay \div 3600, (secsOfDay \div 60) % 60, secsOfDay % 60>>

\* Every timestamp is one RFC 3339 can write.
ClockTypeOK ==
  /\ days \in 0 .. LastDay + 1 /\ secsOfDay \in 0 .. Day - 1
  /\ Date \in Nat \X (1 .. 12) \X (1 .. 31)
  /\ Time \in (0 .. 23) \X (0 .. 59) \X (0 .. 59)

ClockInit == days = 0 /\ secsOfDay = 0

Wait(by) ==
  LET s == secsOfDay + 3600 * by[1] + 60 * by[2] + by[3] IN
  /\ days' = days + s \div Day
  /\ secsOfDay' = s % Day

ClockNext == days <= LastDay /\ \E by \in Delays : Wait(by)

ClockSpec == ClockInit /\ [][ClockNext]_clockVars
-----------------------------------------------------------------------------
(***************************************************************************)
(* Properties                                                              *)
(***************************************************************************)
Civil == INSTANCE Calendar WITH date <- Date, time <- Time

\* The timestamps go on as the calendar does, over every leap day, turn of a
\* month, of a century and of four of them.
FollowsCalendar == Civil!Spec
=============================================================================
