---------------------------- MODULE ServiceCall ----------------------------
(***************************************************************************)
(* What a generated handler promises its caller and the database: the      *)
(* writes of a call are stored all together or not at all, an error means  *)
(* not at all, success means all, and there is one answer.                 *)
(***************************************************************************)
VARIABLES
    writes,         \* the writes of the call, fixed when it begins
    answer,         \* pending, ok, error or lost (the process died)
    stored          \* the writes the database keeps

vars == <<writes, answer, stored>>

Init == answer = "pending" /\ stored = {}

Store ==
    /\ answer = "pending" /\ stored = {}
    /\ stored' = writes
    /\ UNCHANGED <<writes, answer>>

Succeed ==
    /\ answer = "pending" /\ stored = writes
    /\ answer' = "ok"
    /\ UNCHANGED <<writes, stored>>

Fail ==
    /\ answer = "pending" /\ stored = {}
    /\ answer' = "error"
    /\ UNCHANGED <<writes, stored>>

Lose ==
    /\ answer = "pending"
    /\ answer' = "lost"
    /\ UNCHANGED <<writes, stored>>

Next == Store \/ Succeed \/ Fail \/ Lose
Spec == Init /\ [][Next]_vars
=============================================================================
