---------------------------- MODULE ParquetValues ----------------------------
(***************************************************************************)
(* The conversions of fill_row() that compute: DATE32, DATE64, TIMESTAMP   *)
(* and HALF_FLOAT cells.  One cell at a time is read, converted and handed *)
(* to the field.  64-bit values are quotients and remainders, so that they *)
(* fit the model checker's integers.                                       *)
(***************************************************************************)
EXTENDS Integers

CONSTANTS
  Days,      \* DATE32 cells
  Millis,    \* DATE64 cells <<epoch, day, ms>>, for the number of milliseconds
             \* (epoch * 2^32 + day) * 86400000 + ms
  Stamps,    \* TIMESTAMP cells <<unit, sec, ticks>>: sec * unit + ticks
  Halfs,     \* HALF_FLOAT cells, their 16 bits
  Wrapped,   \* an unsigned field that was given a negative number
  NoCell     \* no cell is converted

MaxInt32 == 2147483647
MinInt32 == -MaxInt32 - 1
MaxUint16 == 65535
DayMillis == 86400000

Units == {1, 1000, 1000000, 1000000000}

\* days + 719468 fits an int32_t: the last 719468 days of the type, for which
\* the addition is undefined behaviour, are left out.
GoodDays == MinInt32 .. (MaxInt32 - 719468)

ASSUME DaysAssumption == \A d \in Days : d \in GoodDays
ASSUME MillisAssumption ==
  \A v \in Millis :
    v[1] \in Int /\ v[2] \in GoodDays /\ v[2] + 1 \in GoodDays /\ v[3] \in 0 .. (DayMillis - 1)
ASSUME StampsAssumption ==
  \A v \in Stamps : v[1] \in Units /\ v[2] \in Int /\ v[3] \in 0 .. (v[1] - 1)
ASSUME HalfsAssumption == Halfs \subseteq 0 .. MaxUint16
ASSUME WrappedAssumption == Wrapped \notin Int

VARIABLES
  cell,    \* the cell that was converted, <<type, value>>
  field    \* what the field was given: a MYSQL_TIME, or the bits of a float

valueVars == <<cell, field>>

Uint(n) == IF n < 0 THEN Wrapped ELSE n

\* Division of C++, which cuts towards zero, of sec * unit + ticks by unit.
Quotient(sec, ticks) == IF sec < 0 /\ ticks > 0 THEN sec + 1 ELSE sec
Remainder(unit, sec, ticks) == IF sec < 0 /\ ticks > 0 THEN ticks - unit ELSE ticks
CutDiv(n, k) == IF n < 0 THEN - ((- n) \div k) ELSE n \div k

(***************************************************************************)
(* days_to_mysql_date.                                                     *)
(***************************************************************************)
Era(z) == z \div 146097
DayOfEra(z) == z - Era(z) * 146097
YearOfEra(doe) == (doe - doe \div 1460 + doe \div 36524 - doe \div 146096) \div 365
DayOfYear(doe) ==
  LET yoe == YearOfEra(doe) IN doe - (365 * yoe + yoe \div 4 - yoe \div 100)
MonthPart(doy) == (5 * doy + 2) \div 153
Month(mp) == IF mp < 10 THEN mp + 3 ELSE mp - 9

\* Mutant: the year is that of the March before.
MarchYearDate(days) ==
  LET doe == DayOfEra(days + 719468)
      mp == MonthPart(DayOfYear(doe))
  IN [year |-> YearOfEra(doe) + Era(days + 719468) * 400,
      month |-> Month(mp),
      day |-> DayOfYear(doe) - (153 * mp + 2) \div 5 + 1]

\* The date before its year is stored in an unsigned field.
CivilDate(days) ==
  LET doe == DayOfEra(days + 719468)
      mp == MonthPart(DayOfYear(doe))
  IN [year |-> YearOfEra(doe) + Era(days + 719468) * 400 + (IF Month(mp) <= 2 THEN 1 ELSE 0),
      month |-> Month(mp),
      day |-> DayOfYear(doe) - (153 * mp + 2) \div 5 + 1]

\* A MYSQL_TIME of the date, with the time of day s in seconds and microseconds.
MysqlTime(days, s, usecs) ==
  LET date == CivilDate(days) IN
  [year |-> Uint(date.year), month |-> date.month, day |-> date.day,
   hour |-> s \div 3600, minute |-> (s \div 60) % 60, second |-> s % 60,
   second_part |-> Uint(usecs)]

(***************************************************************************)
(* TIMESTAMP and HALF_FLOAT.                                               *)
(***************************************************************************)

\* Mutant: nanoseconds are taken for microseconds.
NanosAsMicros(unit, sec, ticks) ==
  LET rest == Remainder(unit, sec, ticks) IN
  IF unit = 1000 THEN rest * 1000 ELSE rest

Usecs(unit, sec, ticks) ==
  LET rest == Remainder(unit, sec, ticks) IN
  CASE unit = 1 -> 0
    [] unit = 1000 -> rest * 1000
    [] unit = 1000000 -> rest
    [] OTHER -> CutDiv(rest, 1000)

\* gmtime_r(secs), external: the date is CivilDate's, which DateIsTheDay says
\* is the calendar's.
GmTime(secs, usecs) == MysqlTime(secs \div 86400, secs % 86400, usecs)

Exponent(hf) == (hf \div 1024) % 32
Mantissa(hf) == hf % 1024
Sign(hf) == hf \div 32768

\* Mutant: the bias of a float, not the difference of the two.
Float32Bias127(hf) ==
  [sign |-> Sign(hf), frac |-> Mantissa(hf) * 8192,
   exp |-> IF Exponent(hf) = 0 THEN 0
           ELSE IF Exponent(hf) = 31 THEN 255 ELSE Exponent(hf) + 127]

\* The fields of f32, which do not overlap.
Float32(hf) ==
  [sign |-> Sign(hf), frac |-> Mantissa(hf) * 8192,
   exp |-> IF Exponent(hf) = 0 THEN 0
           ELSE IF Exponent(hf) = 31 THEN 255 ELSE Exponent(hf) + 112]

(***************************************************************************)
(* The cells.                                                              *)
(***************************************************************************)
ValueInit == cell = NoCell /\ field = NoCell

Store(type, v, value) ==
  /\ cell = NoCell
  /\ cell' = <<type, v>>
  /\ field' = value

\* Is the DATE64 before 1970?
Negative(v) == v[1] < 0 \/ (v[1] = 0 /\ v[2] < 0)

\* static_cast<int32_t> of the milliseconds divided by 86400000: the division
\* cuts towards zero, the cast drops the multiple of 2^32.
Int32Days(v) == IF Negative(v) /\ v[3] > 0 THEN v[2] + 1 ELSE v[2]

StoreDate32 == \E d \in Days : Store("DATE32", d, MysqlTime(d, 0, 0))

StoreDate64 == \E v \in Millis : Store("DATE64", v, MysqlTime(Int32Days(v), 0, 0))

StoreTimestamp ==
  \E v \in Stamps :
    Store("TIMESTAMP", v, GmTime(Quotient(v[2], v[3]), Usecs(v[1], v[2], v[3])))

StoreHalf == \E hf \in Halfs : Store("HALF_FLOAT", hf, Float32(hf))

NextCell == cell # NoCell /\ cell' = NoCell /\ field' = NoCell

ValueNext == StoreDate32 \/ StoreDate64 \/ StoreTimestamp \/ StoreHalf \/ NextCell

ValueSpec == ValueInit /\ [][ValueNext]_valueVars

(***************************************************************************)
(* What the values mean: the Gregorian calendar, and binary floating point.*)
(***************************************************************************)
IsLeap(y) == (y % 4 = 0 /\ y % 100 # 0) \/ y % 400 = 0

DaysIn(y, m) ==
  CASE m \in {4, 6, 9, 11} -> 30
    [] m = 2 -> IF IsLeap(y) THEN 29 ELSE 28
    [] OTHER -> 31

\* Days of a common year before month m.
MonthStart(m) == <<0, 31, 59, 90, 120, 151, 181, 212, 243, 273, 304, 334>>[m]

Leaps(y) == y \div 4 - y \div 100 + y \div 400

\* Days from 1970-01-01 to the date.
DayNumber(y, m, d) ==
  365 * (y - 1970) + Leaps(y - 1) - Leaps(1969)
    + MonthStart(m) + (IF m > 2 /\ IsLeap(y) THEN 1 ELSE 0) + d - 1

IsDate(t) == t.month \in 1 .. 12 /\ t.day \in 1 .. DaysIn(t.year, t.month)

DayOf(t) == DayNumber(t.year, t.month, t.day)

\* Does a DATE64 start its day, as Arrow asks, or fall in the day it is cut to?
HasDay(v) == v[3] = 0 \/ ~ Negative(v)

\* A date whose year is not negative is a date of the calendar, and the day that
\* many days from 1970-01-01 (days_to_mysql_date).  For a DATE64 that holds for
\* the days an int32_t counts (epoch 0) and, before 1970, for whole days; what
\* is beyond an int32_t becomes the date of its days modulo 2^32, another day.
DateIsTheDay ==
  /\ cell # NoCell /\ cell[1] \in {"DATE32", "DATE64"} /\ field.year # Wrapped
  => /\ IsDate(field)
     /\ cell[1] = "DATE32" => DayOf(field) = cell[2]
     /\ cell[1] = "DATE64" /\ HasDay(cell[2]) => DayOf(field) = cell[2][2]

\* From 1970 on, and for whole seconds before, a TIMESTAMP of any unit becomes
\* the date, time of day and microsecond it stands for.
TimestampIsTheTime ==
  /\ cell # NoCell /\ cell[1] = "TIMESTAMP" /\ field.year # Wrapped
  /\ cell[2][2] >= 0 \/ cell[2][3] = 0
  => LET unit == cell[2][1]  sec == cell[2][2]  ticks == cell[2][3] IN
     /\ IsDate(field) /\ field.hour \in 0 .. 23
     /\ field.minute \in 0 .. 59 /\ field.second \in 0 .. 59
     /\ DayOf(field) = sec \div 86400
     /\ field.hour * 3600 + field.minute * 60 + field.second = sec % 86400
     /\ field.second_part = IF unit <= 1000000 THEN ticks * (1000000 \div unit)
                            ELSE ticks \div (unit \div 1000000)

\* The value of a half is Significand * 2^Scale, that of a float likewise.
HalfSignificand(hf) == IF Exponent(hf) = 0 THEN Mantissa(hf) ELSE 1024 + Mantissa(hf)
HalfScale(hf) == IF Exponent(hf) = 0 THEN -24 ELSE Exponent(hf) - 25
FloatSignificand(f) == IF f.exp = 0 THEN f.frac ELSE 8388608 + f.frac
FloatScale(f) == IF f.exp = 0 THEN -149 ELSE f.exp - 150

\* 13 more bits of fraction, and a scale lower by 13: the same value.
SameValue(hf, f) ==
  /\ f.sign = Sign(hf)
  /\ IF Exponent(hf) = 31
     THEN f.exp = 255 /\ (f.frac = 0 <=> Mantissa(hf) = 0)
     ELSE /\ f.exp # 255
          /\ FloatSignificand(f) = HalfSignificand(hf) * 8192
          /\ FloatSignificand(f) = 0 \/ FloatScale(f) + 13 = HalfScale(hf)

IsSubnormal(hf) == Exponent(hf) = 0 /\ Mantissa(hf) # 0

\* Zeros, normal numbers, infinities and NaNs keep their value.
HalfIsItsValue ==
  cell # NoCell /\ cell[1] = "HALF_FLOAT" /\ ~ IsSubnormal(cell[2]) => SameValue(cell[2], field)

\* "Convert manually to float32 then to double" (ha_parquet.cc:409), of every
\* half.  Not so: the mantissa of a subnormal half is put into a subnormal
\* float, whose scale is lower by 112.
AnyHalfIsItsValue ==
  cell # NoCell /\ cell[1] = "HALF_FLOAT" => SameValue(cell[2], field)
=============================================================================
