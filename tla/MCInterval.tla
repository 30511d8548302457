----------------------------- MODULE MCInterval -----------------------------
(* An instance of Interval for TLC: 5- and 11-bit integers, a second of 100*)
(* microseconds, a minute of two seconds, an hour of two minutes.          *)
EXTENDS Interval

SomeIntervals ==
    [months : {-16, -13, -12, -1, 0, 1, 11, 12, 15}, days : {-16, 0, 1},
     us : -1024 .. 1023]

Dates ==
    {Comp(m, w, 0, 0, u) : m \in {0, 1}, w \in {1, 2, 15, 16}, u \in {"Y", "M", "D"}}
    \cup {Comp(0, 1, 1, 5, "Y"), Comp(0, -1, 0, 0, "D"), Comp(0, 1, 0, 0, "?")}
Times ==
    {Comp(m, w, 0, 0, u) : m \in {0, 1}, w \in {0, 3, 1023, 1024}, u \in {"H", "M", "S"}}
    \cup {Comp(m, w, d, 25, "S") : m \in {0, 1}, w \in {0, 10}, d \in {2, 3}}
    \cup {Comp(0, 1, 1, 5, "H"), Comp(2, 1, 0, 0, "S"), Comp(0, -1, 1, 5, "S"), Comp(0, 1, 0, 0, "Y")}

Upto(S, n) == UNION {[1 .. k -> S] : k \in 0 .. n}
SomeTexts ==
    {[p |-> TRUE, date |-> d, time |-> t] : d \in Upto(Dates, 1), t \in Upto(Times, 2)}
    \cup {[p |-> TRUE, date |-> d, time |-> <<>>] : d \in Upto(Dates, 2)}
    \cup {[p |-> FALSE, date |-> <<>>, time |-> <<>>]}
=============================================================================
