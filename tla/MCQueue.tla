------------------------------ MODULE MCQueue ------------------------------
(* Instances of Queue for TLC.                                             *)
EXTENDS Queue, TLC

CONSTANTS main, pub, run1, run2, stop1, stop2, t1, h1, h2

OneTopic == {t1}
OneHandler == {h1}
TwoHandlers == {h1, h2}

\* A server: one goroutine sets the queue up, one publishes, one runs the
\* loop, two may shut it down.
ServerProcs == {main, pub, run1, stop1, stop2}
ServerRole == [p \in ServerProcs |->
    CASE p = main -> {"Init", "SetBackend", "Subscribe"}
      [] p = pub -> {"Publish"}
      [] p = run1 -> {"Start"}
      [] OTHER -> {"Close"}]

\* One shutdown and a second goroutine that runs a loop.
FreeProcs == {main, pub, run1, run2, stop1}
FreeRole == [p \in FreeProcs |-> IF p = run2 THEN {"Start"} ELSE ServerRole[p]]
Alike == Permutations({run1, run2})

\* The smallest cast for a Start and a Close that meet.
PairProcs == {main, run1, stop1}
PairRole == [p \in PairProcs |->
    CASE p = main -> {"Init", "SetBackend"}
      [] p = run1 -> {"Start"}
      [] OTHER -> {"Close"}]
=============================================================================
