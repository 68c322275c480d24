------------------------------ MODULE Rfc3339 ------------------------------
(* src/src/util/rfc3339.c.  A stamp is the record of its fields: well says   *)
(* that the digits, separators and the length are as tamga_rfc3339_parse     *)
(* wants them, point and fraction whether there is a '.' and digits after    *)
(* it, zone whether an offset or a Z ends the text.                          *)
EXTENDS Integers, Sequences

IsLeapYear(year) == (year % 4 = 0 /\ year % 100 # 0) \/ year % 400 = 0

DaysInMonth(year, month) ==
  IF month = 2 /\ IsLeapYear(year) THEN 29
  ELSE <<31, 28, 31, 30, 31, 30, 31, 31, 30, 31, 30, 31>>[month]

\* C's division truncates; \div rounds down.
Truncated(a, b) == IF a >= 0 THEN a \div b ELSE -((-a) \div b)

\* A bug to be caught: the year is taken to start in January.
DaysFromJanuary(year, month, day) ==
  LET era == year \div 400
      yoe == year - era * 400
  IN era * 146097 + yoe * 365 + yoe \div 4 - yoe \div 100
       + (153 * (month + 9) + 2) \div 5 + day - 1 - 719468

\* tamga_days_from_civil: the year starts in March, so that a leap day ends it.
DaysFromCivil(year, month, day) ==
  LET y == IF month <= 2 THEN year - 1 ELSE year
      era == Truncated(IF y >= 0 THEN y ELSE y - 399, 400)
      yoe == y - era * 400
      doy == (153 * (IF month > 2 THEN month - 3 ELSE month + 9) + 2) \div 5 + day - 1
      doe == yoe * 365 + yoe \div 4 - yoe \div 100 + doy
  IN era * 146097 + doe - 719468

\* The last lines of tamga_rfc3339_parse, with the product by 86400 left to
\* the reader: the instant is `second` seconds after the start of `day`.
Instant(s) ==
  [day |-> DaysFromCivil(s.year, s.month, s.day),
   second |-> s.hour * 3600 + s.minute * 60 + (IF s.second = 60 THEN 59 ELSE s.second)
                - s.sign * (s.offHour * 3600 + s.offMinute * 60)]

\* The conditions under which a stamp is accepted.
Accepted(s) ==
  /\ s.well /\ s.zone /\ (s.point => s.fraction)
  /\ s.offHour <= 23 /\ s.offMinute <= 59
  /\ s.month \in 1..12 /\ s.day >= 1 /\ s.day <= DaysInMonth(s.year, s.month)
  /\ s.hour <= 23 /\ s.minute <= 59 /\ s.second <= 60
=============================================================================
