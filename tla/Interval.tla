------------------------------ MODULE Interval ------------------------------
(***************************************************************************)
(* pkg/pgtypex: a PostgreSQL interval (months, days, microseconds) written *)
(* as an ISO 8601 duration and read back.  A duration is the components    *)
(* before and after the T; a component is                                  *)
(*   minus    the number of - signs (two come from a sign before a negative*)
(*            number)                                                      *)
(*   whole    the digits before the point, -1 if there are none            *)
(*   digits, num   the fraction: num written with that many digits         *)
(*   unit     the letter, ? for one that no component has                  *)
(* Integers are -W .. W-1 and wrap; the widths and the units are           *)
(* parameters, so that TLC reaches the ends of the ranges.                 *)
(***************************************************************************)
EXTENDS Integers, Sequences

CONSTANTS
    W32, W64,               \* 2^31 and 2^63
    Second, Minute, Hour,   \* in microseconds
    Digits,                 \* of a fraction of a second: 6
    Intervals,              \* the intervals to write
    Texts                   \* the durations a client sends: [p, date, time]

Pow10[k \in Nat] == IF k = 0 THEN 1 ELSE 10 * Pow10[k - 1]

\* The components; num is 0 where there is no fraction.
Component ==
    {c \in [minus : Nat, whole : Nat \cup {-1}, digits : Nat, num : Nat,
            unit : {"Y", "M", "D", "H", "S", "?"}] :
        c.digits = 0 => c.num = 0}

ASSUME UnitsAssumption ==
    /\ {W32, W64, Second, Minute, Hour, Digits} \subseteq Nat \ {0}
    /\ Second = Pow10[Digits] /\ Minute % Second = 0 /\ Hour % Minute = 0
    /\ Hour <= W64
    /\ Texts \subseteq [p : BOOLEAN, date : Seq(Component), time : Seq(Component)]
    /\ Intervals \subseteq [months : -W32 .. W32 - 1, days : -W32 .. W32 - 1,
                            us : -W64 .. W64 - 1]

VARIABLES
    stage,              \* format, parse, date, time, valid or invalid
    given,              \* the intervals written: one or none
    text,               \* the duration
    at,                 \* the component to scan next
    months, days, us    \* the accumulators

vars == <<stage, given, text, at, months, days, us>>

Wrap(x, w) == ((x + w) % (2 * w)) - w

\* Go's division rounds towards zero.
Quot(a, b) == IF a >= 0 THEN a \div b ELSE -((-a) \div b)
Rem(a, b) == a - b * Quot(a, b)
Abs(a) == IF a >= 0 THEN a ELSE -a

-----------------------------------------------------------------------------
(* Writing.                                                                *)

Comp(minus, whole, digits, num, unit) ==
    [minus |-> minus, whole |-> whole, digits |-> digits, num |-> num, unit |-> unit]

\* strconv.FormatInt, after minus signs, as a component unless it is zero.
Number(minus, n, unit) ==
    IF n = 0 THEN <<>>
    ELSE <<Comp(minus + (IF n < 0 THEN 1 ELSE 0), Abs(n), 0, 0, unit)>>

\* Padded on the left to Digits, cut after the last digit that is not zero.
formatIntervalFrac(x) ==
    IF x = 0 THEN [digits |-> 0, num |-> 0]
    ELSE LET cut == CHOOSE k \in 0 .. Digits :
                        x % Pow10[k] = 0 /\ \A j \in k + 1 .. Digits : x % Pow10[j] # 0
         IN  [digits |-> Digits - cut, num |-> x \div Pow10[cut]]

\* Mutant: the sign is written before the first component only.
timeComponentsOneSign(u) ==
    LET neg == IF u < 0 THEN 1 ELSE 0
        m == IF u < 0 THEN Wrap(-u, W64) ELSE u
        hours == Quot(m, Hour)
        minutes == Quot(Rem(m, Hour), Minute)
        seconds == Quot(Rem(Rem(m, Hour), Minute), Second)
        frac == formatIntervalFrac(Rem(Rem(Rem(m, Hour), Minute), Second))
    IN  Number(neg, hours, "H") \o Number(IF hours = 0 THEN neg ELSE 0, minutes, "M")
        \o (IF seconds = 0 /\ frac.digits = 0 /\ ~(hours = 0 /\ minutes = 0) THEN <<>>
            ELSE <<Comp(IF hours = 0 /\ minutes = 0 THEN neg ELSE 0, Abs(seconds),
                        frac.digits, frac.num, "S")>>)

\* The sign is taken off, which leaves -W64 as it is, and written before every
\* component.
timeComponents(u) ==
    LET neg == IF u < 0 THEN 1 ELSE 0
        m == IF u < 0 THEN Wrap(-u, W64) ELSE u
        hours == Quot(m, Hour)
        minutes == Quot(Rem(m, Hour), Minute)
        seconds == Quot(Rem(Rem(m, Hour), Minute), Second)
        frac == formatIntervalFrac(Rem(Rem(Rem(m, Hour), Minute), Second))
    IN  Number(neg, hours, "H") \o Number(neg, minutes, "M")
        \o (IF seconds = 0 /\ frac.digits = 0 /\ ~(hours = 0 /\ minutes = 0) THEN <<>>
            ELSE <<Comp(neg + (IF seconds < 0 THEN 1 ELSE 0), Abs(seconds),
                        frac.digits, frac.num, "S")>>)

formatIntervalISO(v) ==
    [p |-> TRUE,
     date |-> Number(0, Quot(v.months, 12), "Y") \o Number(0, Rem(v.months, 12), "M")
              \o Number(0, v.days, "D"),
     time |-> IF v.us # 0 THEN timeComponents(v.us)
              ELSE IF v.months = 0 /\ v.days = 0 THEN <<Comp(0, 0, 0, 0, "S")>> ELSE <<>>]

-----------------------------------------------------------------------------
(* Reading.                                                                *)

Signed(c) == IF c.minus = 1 THEN -c.whole ELSE c.whole
IsNumber(c) == c.minus <= 1 /\ c.whole >= 0

\* parseSignedInt32 and parseSignedInt64: no fraction, in range.
ParseInt(c, w) == IsNumber(c) /\ c.digits = 0 /\ Signed(c) \in -w .. w - 1

\* The fraction padded or cut to Digits.
FracMicros(c) ==
    IF c.digits <= Digits THEN c.num * Pow10[Digits - c.digits]
    ELSE c.num \div Pow10[c.digits - Digits]

ParseSeconds(c) == IsNumber(c) /\ c.whole <= W64 - 1

\* Mutant: the fraction of a negative number is added.
parseSecondsToMicrosUnsigned(c) ==
    Wrap((IF c.minus = 1 THEN -1 ELSE 1) * Wrap(c.whole * Second, W64) + FracMicros(c), W64)

parseSecondsToMicros(c) ==
    LET micros == Wrap(Wrap(c.whole * Second, W64) + FracMicros(c), W64) IN
    IF c.minus = 1 THEN Wrap(-micros, W64) ELSE micros

DateOK(c) == c.unit \in {"Y", "M", "D"} /\ ParseInt(c, W32)
TimeOK(c) == IF c.unit = "S" THEN ParseSeconds(c) ELSE c.unit \in {"H", "M"} /\ ParseInt(c, W64)

Init ==
    /\ \/ \E v \in Intervals : stage = "format" /\ given = {v} /\ text = <<>>
       \/ \E t \in Texts : stage = "parse" /\ given = {} /\ text = t
    /\ at = 1 /\ months = 0 /\ days = 0 /\ us = 0

\* FromPgInterval
Format ==
    /\ stage = "format"
    /\ \E v \in given : text' = formatIntervalISO(v)
    /\ stage' = "parse"
    /\ UNCHANGED <<given, at, months, days, us>>

\* ToPgInterval: parseIntervalISO, and an error is Valid: false.
Invalid == stage' = "invalid" /\ UNCHANGED <<given, text, at, months, days, us>>

ParseFails ==
    /\ stage = "parse" /\ (~text.p \/ (text.date = <<>> /\ text.time = <<>>))
    /\ Invalid

Parse ==
    /\ stage = "parse" /\ text.p /\ ~(text.date = <<>> /\ text.time = <<>>)
    /\ stage' = "date"
    /\ UNCHANGED <<given, text, at, months, days, us>>

ScanDate ==
    /\ stage = "date" /\ at <= Len(text.date) /\ DateOK(text.date[at])
    /\ LET c == text.date[at] n == Signed(c) IN
       /\ months' = CASE c.unit = "Y" -> Wrap(months + Wrap(n * 12, W32), W32)
                      [] c.unit = "M" -> Wrap(months + n, W32)
                      [] c.unit = "D" -> months
       /\ days' = IF c.unit = "D" THEN Wrap(days + n, W32) ELSE days
    /\ at' = at + 1
    /\ UNCHANGED <<stage, given, text, us>>

EndDate ==
    /\ stage = "date" /\ at > Len(text.date)
    /\ stage' = "time" /\ at' = 1
    /\ UNCHANGED <<given, text, months, days, us>>

ScanTime ==
    /\ stage = "time" /\ at <= Len(text.time) /\ TimeOK(text.time[at])
    /\ LET c == text.time[at] n == Signed(c) IN
       us' = Wrap(us + (CASE c.unit = "H" -> Wrap(n * Hour, W64)
                          [] c.unit = "M" -> Wrap(n * Minute, W64)
                          [] c.unit = "S" -> parseSecondsToMicros(c)), W64)
    /\ at' = at + 1
    /\ UNCHANGED <<stage, given, text, months, days>>

ScanFails ==
    /\ \/ stage = "date" /\ at <= Len(text.date) /\ ~DateOK(text.date[at])
       \/ stage = "time" /\ at <= Len(text.time) /\ ~TimeOK(text.time[at])
    /\ Invalid

EndTime ==
    /\ stage = "time" /\ at > Len(text.time)
    /\ stage' = "valid"
    /\ UNCHANGED <<given, text, at, months, days, us>>

Ended == stage \in {"valid", "invalid"} /\ UNCHANGED vars

Next ==
    \/ Format \/ ParseFails \/ Parse \/ ScanDate \/ EndDate \/ ScanTime \/ ScanFails
    \/ EndTime \/ Ended

Spec == Init /\ [][Next]_vars

-----------------------------------------------------------------------------
\* SAFETY.  ToPgInterval of FromPgInterval is the interval itself for every
\* value of the three integers but one: -2^63 microseconds, whose sign cannot
\* be taken off, is written with two signs and read as NULL.
RoundTrip ==
    \A v \in given :
        /\ stage = "valid" => months = v.months /\ days = v.days /\ us = v.us
        /\ stage = "invalid" => v.us = -W64

\* What a component is worth, in exact arithmetic.
Worth(c, unit, size) ==
    IF c.unit # unit THEN 0
    ELSE (IF c.minus = 1 THEN -1 ELSE 1) * (c.whole * size + FracMicros(c))
Months(c) == Worth(c, "Y", 12) + Worth(c, "M", 1)
Micros(c) == Worth(c, "H", Hour) + Worth(c, "M", Minute) + Worth(c, "S", Second)
Total(q) ==
    LET sum[k \in 0 .. Len(q)] == IF k = 0 THEN 0 ELSE sum[k - 1] + q[k]
    IN  sum[Len(q)]
TotalMonths == Total([k \in DOMAIN text.date |-> Months(text.date[k])])
TotalDays == Total([k \in DOMAIN text.date |-> Worth(text.date[k], "D", 1)])
TotalMicros == Total([k \in DOMAIN text.time |-> Micros(text.time[k])])

\* SAFETY.  A duration that is accepted is read as the sum of its components,
\* in any order and however often they occur; products and sums that leave the
\* range on the way do not matter if the total is in it, and a total outside
\* the range is accepted too, as another value (scanIntervalComponents checks
\* each number and no product or sum).
ReadsTotal ==
    stage = "valid" =>
        /\ months = Wrap(TotalMonths, W32) /\ days = Wrap(TotalDays, W32)
        /\ us = Wrap(TotalMicros, W64)
        /\ TotalMicros \in -W64 .. W64 - 1 => us = TotalMicros
=============================================================================
