------------------------------ MODULE Calendar ------------------------------
(***************************************************************************)
(* The Gregorian calendar in UTC, counted by hand: what a timestamp of     *)
(* utc_rfc3339 (src/src/clock.rs) promises to say.                         *)
(***************************************************************************)
EXTENDS Integers

CONSTANTS Delays  \* how much later a step may be: hours, minutes, seconds

VARIABLES date, time  \* <<year, month, day>>, <<hour, minute, second>>

Leap(y) == y % 4 = 0 /\ (y % 100 = 0 => y % 400 = 0)

DaysIn(y, m) ==
  CASE m = 2 /\ Leap(y) -> 29
    [] m = 2 /\ ~Leap(y) -> 28
    [] m \in {4, 6, 9, 11} -> 30
    [] m \in {1, 3, 5, 7, 8, 10, 12} -> 31

NextDay(d) ==
  LET y == d[1] m == d[2] IN
  IF d[3] < DaysIn(y, m) THEN <<y, m, d[3] + 1>>
  ELSE IF m < 12 THEN <<y, m + 1, 1>> ELSE <<y + 1, 1, 1>>

Init == date = <<1970, 1, 1>> /\ time = <<0, 0, 0>>

\* By columns, with their carries.
Later(by) ==
  LET s == time[3] + by[3]
      m == time[2] + by[2] + s \div 60
      h == time[1] + by[1] + m \div 60
  IN  /\ time' = <<h % 24, m % 60, s % 60>>
      /\ date' = IF h < 24 THEN date ELSE NextDay(date)

Next == \E by \in Delays : Later(by)

Spec == Init /\ [][Next]_<<date, time>>
=============================================================================
