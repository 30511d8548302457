------------------------------ MODULE MCParser ------------------------------
(* Instances of Parser for TLC: every file of up to MaxLines comment lines *)
(* and two declarations.                                                   *)
EXTENDS Parser

CONSTANT MaxLines   \* bound: comment lines in a file

L(k, colon, bang) == [kind |-> k, colon |-> colon, bang |-> bang]

\* The lines whose colon or ! makes a difference come with and without.
Alphabet ==
    {L("text", x, FALSE) : x \in BOOLEAN} \cup {L("open", FALSE, x) : x \in BOOLEAN}
    \cup {L("tag", x, FALSE) : x \in BOOLEAN} \cup {L("tag", TRUE, TRUE)}
    \cup {L("close", FALSE, FALSE), L("subscribe", FALSE, FALSE),
          L("unknown", FALSE, FALSE), L("bad", TRUE, FALSE)}

AllFiles ==
    {g \in [lines : UNION {[1 .. k -> Alphabet] : k \in 0 .. MaxLines},
            funcs : UNION {[1 .. k -> 0 .. MaxLines] : k \in 1 .. 2}] :
        /\ \A m \in DOMAIN g.funcs : g.funcs[m] <= Len(g.lines)
        /\ \A m, k \in DOMAIN g.funcs : m < k => g.funcs[m] <= g.funcs[k]}
=============================================================================
