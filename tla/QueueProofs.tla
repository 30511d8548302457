---------------------------- MODULE QueueProofs ----------------------------
(* Proofs about Queue, for any goroutines, roles, topics and bounds.       *)
EXTENDS Queue, TLAPS

\* The empty handler table is a handler table.
LEMMA NoHandlersType == NoHandlers \in [Topics -> Seq(Handlers)]
  BY DEF NoHandlers

\* The elements of a sequence over S are in S.
LEMMA RangeType ==
  ASSUME NEW S, NEW s \in Seq(S)
  PROVE  RangeOf(s) \in SUBSET S
  BY DEF RangeOf

\* Append and Tail stay within the sequences over S.
LEMMA SeqOps ==
  ASSUME NEW S, NEW s \in Seq(S)
  PROVE  /\ <<>> \in Seq(S)
         /\ \A e \in S : Append(s, e) \in Seq(S)
         /\ s # <<>> => Tail(s) \in Seq(S)
  OBVIOUS

\* The package variables start in their types.
LEMMA InitType == Init => TypeOK
  <1> SUFFICES ASSUME Init PROVE TypeOK
    OBVIOUS
  <1>1. handlers \in [Topics -> Seq(Handlers)]
    BY NoHandlersType DEF Init
  <1>2. topic \in [Procs -> Topics]
    <2>1. (CHOOSE t \in Topics : TRUE) \in Topics
      BY QueueAssumption
    <2> QED
      BY <2>1 DEF Init
  <1>3. /\ todo \in [Procs -> Seq(Handlers)] /\ owed \in [Procs -> SUBSET Handlers]
        /\ seen \in [Procs -> SUBSET Gens]
    BY DEF Init
  <1>4. /\ cancel \in Gens /\ done \in Gens /\ started \in Gens
        /\ own \in [Procs -> Gens] /\ chan \in [Procs -> Gens]
    BY QueueAssumption DEF Init, Gens
  <1> QED
    BY <1>1, <1>2, <1>3, <1>4 DEF Init, TypeOK, Backends, PC

\* Each action keeps the variables in their types.
LEMMA NextType == TypeOK /\ [Next]_vars => TypeOK'
  <1> SUFFICES ASSUME TypeOK, [Next]_vars PROVE TypeOK'
    OBVIOUS
  <1> USE QueueAssumption DEF TypeOK, table, loop, startLocals, pubLocals,
                              Goto, Calls, At, Backends, PC, Gens
  <1>1. CASE UNCHANGED vars
    BY <1>1 DEF vars
  <1>2. CASE Next
    <2> SUFFICES ASSUME NEW p \in Procs,
                        \/ InitQueue(p) \/ SetBackend(p)
                        \/ \E t \in Topics, h \in Handlers : Subscribe(p, t, h)
                        \/ \E t \in Topics : PublishAccept(p, t)
                        \/ PublishStep(p)
                        \/ StartRead(p) \/ StartStep(p) \/ CancelParent(p)
                        \/ CloseSnapshot(p) \/ CloseStep(p)
                 PROVE TypeOK'
      BY <1>2 DEF Next
    <2>1. CASE InitQueue(p)
      BY <2>1, NoHandlersType DEF InitQueue
    <2>2. CASE SetBackend(p)
      BY <2>2 DEF SetBackend
    <2>3. ASSUME NEW t \in Topics, NEW h \in Handlers, Subscribe(p, t, h)
          PROVE TypeOK'
      <3>1. Append(handlers[t], h) \in Seq(Handlers)
        BY SeqOps
      <3> QED
        BY <2>3, <3>1 DEF Subscribe
    <2>4. ASSUME NEW t \in Topics, PublishAccept(p, t) PROVE TypeOK'
      <3>1. RangeOf(handlers[t]) \in SUBSET Handlers
        BY RangeType
      <3> QED
        BY <2>4, <3>1 DEF PublishAccept
    <2>5. CASE MemoryLookup(p)
      BY <2>5 DEF MemoryLookup
    <2>6. CASE RunHandler(p)
      <3>1. todo[p] \in Seq(Handlers) /\ todo[p] # <<>>
        BY <2>6 DEF RunHandler
      <3>2. Tail(todo[p]) \in Seq(Handlers)
        BY <3>1, SeqOps
      <3>3. todo' \in [Procs -> Seq(Handlers)]
        <4>1. <<>> \in Seq(Handlers)
          BY <3>1, SeqOps
        <4>2. \E s \in Seq(Handlers) : todo' = [todo EXCEPT ![p] = s]
          BY <2>6, <3>2, <4>1 DEF RunHandler
        <4> QED
          BY <4>2
      <3> QED
        BY <2>6, <3>3 DEF RunHandler
    <2>7. CASE PublishReturn(p)
      BY <2>7 DEF PublishReturn
    <2>8. CASE BackendPublish(p)
      BY <2>8 DEF BackendPublish
    <2>9. CASE StartRead(p)
      BY <2>9 DEF StartRead
    <2>10. CASE StartRegister(p)
      BY <2>10 DEF StartRegister
    <2>11. CASE StartDefer(p)
      BY <2>11 DEF StartDefer
    <2>12. CASE StartReturn(p)
      BY <2>12 DEF StartReturn
    <2>13. CASE CancelParent(p)
      BY <2>13 DEF CancelParent, Registered
    <2>14. CASE CloseSnapshot(p)
      BY <2>14 DEF CloseSnapshot
    <2>15. CASE CloseCancel(p)
      BY <2>15 DEF CloseCancel
    <2>16. CASE CloseReset(p)
      <3>1. /\ handlers' \in [Topics -> Seq(Handlers)]
            /\ cancel' \in Gens /\ done' \in Gens
        BY <2>16, NoHandlersType DEF CloseReset
      <3> QED
        BY <2>16, <3>1 DEF CloseReset
    <2>17. CASE PublishFails(p)
      BY <2>17 DEF PublishFails
    <2> QED
      BY <2>1, <2>2, <2>3, <2>4, <2>5, <2>6, <2>7, <2>8, <2>9, <2>10, <2>11,
         <2>12, <2>13, <2>14, <2>15, <2>16, <2>17
      DEF PublishStep, StartStep, CloseStep
  <1> QED
    BY <1>1, <1>2

\* The package variables and the locals of each call keep their types
\* (init_queue.go:20-27), whoever calls what.
THEOREM TypeCorrect == Spec => []TypeOK
  BY InitType, NextType, PTL DEF Spec

-----------------------------------------------------------------------------
\* inited, backend and handlers are set and cleared together, so a copy of
\* backend taken while inited holds is never nil.
TableInv ==
    /\ inited => backend # "nil"
    /\ PublishHasBackend

\* Every step keeps TableInv.
LEMMA TableStep == TableInv /\ TypeOK /\ [Next]_vars => TableInv'
  <1> SUFFICES ASSUME TableInv, TypeOK, [Next]_vars PROVE TableInv'
    OBVIOUS
  <1>0. /\ pc \in [Procs -> PC] /\ b \in [Procs -> Backends]
        /\ inited \in BOOLEAN /\ inited' \in BOOLEAN
    BY NextType DEF TypeOK
  <1> USE <1>0 DEF TableInv, PublishHasBackend, table, loop, startLocals,
              pubLocals, Goto, Calls, At
  <1>1. CASE UNCHANGED vars
    BY <1>1 DEF vars
  <1>2. CASE Next
    <2> SUFFICES ASSUME NEW p \in Procs,
                        \/ InitQueue(p) \/ SetBackend(p)
                        \/ \E t \in Topics, h \in Handlers : Subscribe(p, t, h)
                        \/ \E t \in Topics : PublishAccept(p, t)
                        \/ PublishStep(p)
                        \/ StartRead(p) \/ StartStep(p) \/ CancelParent(p)
                        \/ CloseSnapshot(p) \/ CloseStep(p)
                 PROVE TableInv'
      BY <1>2 DEF Next
    <2>1. CASE InitQueue(p) \/ SetBackend(p)
      BY <2>1 DEF InitQueue, SetBackend
    <2>2. CASE \E t \in Topics, h \in Handlers : Subscribe(p, t, h)
      <3>1. UNCHANGED <<inited, backend, pc, b>> /\ crashed' # "nil backend"
        BY <2>2 DEF Subscribe
      <3> QED
        BY <3>1
    <2>3. CASE \E t \in Topics : PublishAccept(p, t)
      BY <2>3 DEF PublishAccept
    <2>4. CASE PublishStep(p)
      BY <2>4 DEF PublishStep, PublishFails, MemoryLookup, RunHandler, PublishReturn,
               BackendPublish
    <2>5. CASE StartRead(p) \/ StartStep(p) \/ CancelParent(p)
      BY <2>5 DEF StartRead, StartStep, StartRegister, StartDefer, StartReturn,
                  CancelParent
    <2>6. CASE CloseSnapshot(p) \/ CloseStep(p)
      BY <2>6 DEF CloseSnapshot, CloseStep, CloseCancel, CloseReset
    <2> QED
      BY <2>1, <2>2, <2>3, <2>4, <2>5, <2>6
  <1> QED
    BY <1>1, <1>2

\* publish.go:14-19: whatever the other goroutines do between the inited check
\* and the call, Publish never calls through a nil backend.
THEOREM PublishSafe == Spec => []PublishHasBackend
  <1>1. Init => TableInv
    BY DEF Init, TableInv, PublishHasBackend
  <1>2. TableInv => PublishHasBackend
    BY DEF TableInv
  <1> QED
    BY <1>1, <1>2, TableStep, TypeCorrect, PTL DEF Spec

-----------------------------------------------------------------------------
(***************************************************************************)
(* The loop under the application's discipline.  While a Start is          *)
(* registered it is the latest one, `done` is its channel and that channel *)
(* is open; a Close that meets a Start is waiting for that channel.  The   *)
(* last conjunct is what makes the others inductive: without it a Close    *)
(* that found `done` nil could reset it under a running Start.             *)
(***************************************************************************)
LoopInv ==
    /\ crashed # "bad close"
    /\ cancel = done
    /\ done <= started
    /\ \A g \in closed : g <= started
    /\ \A p, q \in Procs : InStart(p) /\ InStart(q) => p = q
    /\ \A p \in Procs : Registered(p) =>
          own[p] = started /\ started # 0 /\ started \notin closed /\ done = started
    /\ \A p \in Procs : pc[p] = "looping" => chan[p] = started
    /\ \A c, p \in Procs : InClose(c) /\ InStart(p) =>
          pc[p] = "looping" /\ chan[c] = started

\* It holds at first.
LEMMA LoopInit == Init => LoopInv
  BY DEF Init, LoopInv, InStart, Registered, InClose

\* Every step keeps it.
LEMMA LoopStep ==
  ASSUME Orderly
  PROVE  LoopInv /\ TypeOK /\ [Next]_vars => LoopInv'
  <1> SUFFICES ASSUME LoopInv, TypeOK, [Next]_vars PROVE LoopInv'
    OBVIOUS
  <1> USE DEF LoopInv, TypeOK, table, loop, startLocals, pubLocals, Goto, Calls, At,
              InStart, Registered, InClose, Gens
  <1>1. CASE UNCHANGED vars
    BY <1>1 DEF vars
  <1>2. CASE Next
    <2> SUFFICES ASSUME NEW p \in Procs,
                        \/ InitQueue(p) \/ SetBackend(p)
                        \/ \E t \in Topics, h \in Handlers : Subscribe(p, t, h)
                        \/ \E t \in Topics : PublishAccept(p, t)
                        \/ PublishStep(p)
                        \/ StartRead(p) \/ StartStep(p) \/ CancelParent(p)
                        \/ CloseSnapshot(p) \/ CloseStep(p)
                 PROVE LoopInv'
      BY <1>2 DEF Next
    <2>1. CASE InitQueue(p) \/ SetBackend(p)
      BY <2>1 DEF InitQueue, SetBackend
    <2>2. CASE \E t \in Topics, h \in Handlers : Subscribe(p, t, h)
      BY <2>2 DEF Subscribe
    <2>3. CASE \E t \in Topics : PublishAccept(p, t)
      BY <2>3 DEF PublishAccept
    <2>4. CASE PublishStep(p)
      <3>1. UNCHANGED <<cancel, done, closed, started, own, chan>>
        BY <2>4 DEF PublishStep, PublishFails, MemoryLookup, RunHandler, PublishReturn,
               BackendPublish
      <3>2. crashed' # "bad close"
        BY <2>4 DEF PublishStep, PublishFails, MemoryLookup, RunHandler, PublishReturn,
               BackendPublish
      <3>3. /\ \E l \in {"idle", "accepted", "delivering"} : pc' = [pc EXCEPT ![p] = l]
            /\ pc[p] \in {"accepted", "delivering"}
        <4>1. CASE MemoryLookup(p)
          BY <4>1 DEF MemoryLookup
        <4>2. CASE RunHandler(p)
          BY <4>2 DEF RunHandler
        <4>3. CASE PublishReturn(p)
          BY <4>3 DEF PublishReturn
        <4>4. CASE BackendPublish(p)
          BY <4>4 DEF BackendPublish
        <4>5. CASE PublishFails(p)
          BY <4>5 DEF PublishFails
        <4> QED
          BY <2>4, <4>1, <4>2, <4>3, <4>4, <4>5 DEF PublishStep
      <3>4. \A q \in Procs :
              \/ pc'[q] = pc[q]
              \/ /\ ~InStart(q) /\ ~Registered(q) /\ ~InClose(q) /\ pc[q] # "looping"
                 /\ ~InStart(q)' /\ ~Registered(q)' /\ ~InClose(q)' /\ pc'[q] # "looping"
        BY <3>3
      <3> QED
        BY <3>1, <3>2, <3>4
    <2>5. CASE StartRead(p)
      BY <2>5 DEF StartRead, NoStart, NoClose
    <2>6. CASE StartRegister(p)
      BY <2>6, QueueAssumption DEF StartRegister
    <2>7. CASE StartDefer(p)
      BY <2>7 DEF StartDefer
    <2>8. CASE StartReturn(p)
      BY <2>8 DEF StartReturn
    <2>9. CASE CancelParent(p)
      BY <2>9 DEF CancelParent
    <2>10. CASE CloseSnapshot(p)
      BY <2>10 DEF CloseSnapshot, StartsLooping
    <2>11. CASE CloseCancel(p)
      BY <2>11 DEF CloseCancel
    <2>12. CASE CloseReset(p)
      BY <2>12 DEF CloseReset
    <2> QED
      BY <2>1, <2>2, <2>3, <2>4, <2>5, <2>6, <2>7, <2>8, <2>9, <2>10, <2>11, <2>12
      DEF StartStep, CloseStep
  <1> QED
    BY <1>1, <1>2

\* start.go:28: under the discipline the deferred close of a Start never panics.
THEOREM OrderlyStartEnds ==
  ASSUME Orderly
  PROVE  Spec => []StartEndsNormally
  <1>1. LoopInv => StartEndsNormally
    BY DEF LoopInv, StartEndsNormally
  <1> QED
    BY <1>1, LoopInit, LoopStep, TypeCorrect, PTL DEF Spec

\* close_queue.go:16: under the discipline a Close returns only after every
\* Start that was running when it began.
THEOREM OrderlyCloseStops ==
  ASSUME Orderly
  PROVE  Spec => CloseStopsLoop
  <1>1. LoopInv /\ TypeOK /\ [Next]_vars =>
          [\A p, q \in Procs :
             InClose(p) /\ ~InClose(p)' /\ Registered(q) => own[q] \notin seen[p]]_vars
    <2> SUFFICES ASSUME LoopInv, TypeOK, Next, NEW p \in Procs, NEW q \in Procs,
                        InClose(p), ~InClose(p)', Registered(q)
                 PROVE  FALSE
      OBVIOUS
    <2>1. chan[p] = started /\ started \notin closed /\ started # 0
      BY DEF LoopInv, InStart, Registered
    <2>2. ~CloseReset(p)
      BY <2>1 DEF CloseReset
    <2>3. pc[p] = "closeSnap" \/ pc[p] = "closeWait"
      BY DEF InClose
    <2>4. PICK r \in Procs :
            \/ InitQueue(r) \/ SetBackend(r)
            \/ \E t \in Topics, h \in Handlers : Subscribe(r, t, h)
            \/ \E t \in Topics : PublishAccept(r, t)
            \/ PublishStep(r)
            \/ StartRead(r) \/ StartStep(r) \/ CancelParent(r)
            \/ CloseSnapshot(r) \/ CloseStep(r)
      BY DEF Next
    <2>5. pc'[p] = pc[p] \/ CloseCancel(p)
      BY <2>2, <2>3, <2>4
      DEF TypeOK, InitQueue, SetBackend, Subscribe, PublishAccept, PublishStep,
          PublishFails, MemoryLookup, RunHandler, PublishReturn, BackendPublish, StartRead,
          StartStep, StartRegister, StartDefer, StartReturn, CancelParent,
          CloseSnapshot, CloseStep, CloseCancel, CloseReset, Goto, Calls, At
    <2> QED
      BY <2>3, <2>5 DEF InClose, CloseCancel, Goto, TypeOK
  <1> QED
    BY <1>1, LoopInit, LoopStep, TypeCorrect, PTL DEF Spec, CloseStopsLoop

-----------------------------------------------------------------------------
(***************************************************************************)
(* A Publish under the application's discipline.  The callbacks it owes    *)
(* are in the table until it looks them up and in its own list after; no   *)
(* Close runs beside it, which is why the table cannot be emptied between  *)
(* the two.                                                                *)
(***************************************************************************)
DeliverInv ==
    /\ \A p, c \in Procs : ~(InPublish(p) /\ InClose(c))
    /\ \A p \in Procs : pc[p] = "accepted" => owed[p] \subseteq RangeOf(handlers[topic[p]])
    /\ \A p \in Procs : pc[p] = "delivering" => owed[p] \subseteq RangeOf(todo[p])

\* Appending keeps the elements of a sequence.
LEMMA RangeAppend ==
  ASSUME NEW S, NEW s \in Seq(S), NEW e \in S
  PROVE  RangeOf(s) \subseteq RangeOf(Append(s, e))
  <1> SUFFICES ASSUME NEW i \in DOMAIN s PROVE s[i] \in RangeOf(Append(s, e))
    BY DEF RangeOf
  <1>1. i \in DOMAIN Append(s, e) /\ Append(s, e)[i] = s[i]
    OBVIOUS
  <1> QED
    BY <1>1 DEF RangeOf

\* An element of a sequence is its head or in its tail.
LEMMA RangeTail ==
  ASSUME NEW S, NEW s \in Seq(S), s # <<>>
  PROVE  RangeOf(s) \ {Head(s)} \subseteq RangeOf(Tail(s))
  <1> SUFFICES ASSUME NEW i \in DOMAIN s, s[i] # Head(s)
               PROVE  s[i] \in RangeOf(Tail(s))
    BY DEF RangeOf
  <1>1. i \in 1 .. Len(s) /\ i # 1
    OBVIOUS
  <1>2. i - 1 \in DOMAIN Tail(s) /\ Tail(s)[i - 1] = s[i]
    BY <1>1
  <1> QED
    BY <1>2 DEF RangeOf

\* It holds at first.
LEMMA DeliverInit == Init => DeliverInv
  BY DEF Init, DeliverInv, InPublish

\* Every step keeps it.
LEMMA DeliverStep ==
  ASSUME Orderly
  PROVE  DeliverInv /\ TypeOK /\ [Next]_vars => DeliverInv'
  <1> SUFFICES ASSUME DeliverInv, TypeOK, [Next]_vars PROVE DeliverInv'
    OBVIOUS
  <1>0. /\ pc \in [Procs -> PC] /\ handlers \in [Topics -> Seq(Handlers)]
        /\ topic \in [Procs -> Topics]
        /\ todo \in [Procs -> Seq(Handlers)] /\ owed \in [Procs -> SUBSET Handlers]
    BY DEF TypeOK
  <1> USE <1>0 DEF DeliverInv, table, loop, startLocals, pubLocals, Goto, Calls, At,
              InPublish, InClose
  <1>1. CASE UNCHANGED vars
    BY <1>1 DEF vars
  <1>2. CASE Next
    <2> SUFFICES ASSUME NEW p \in Procs,
                        \/ InitQueue(p) \/ SetBackend(p)
                        \/ \E t \in Topics, h \in Handlers : Subscribe(p, t, h)
                        \/ \E t \in Topics : PublishAccept(p, t)
                        \/ PublishStep(p)
                        \/ StartRead(p) \/ StartStep(p) \/ CancelParent(p)
                        \/ CloseSnapshot(p) \/ CloseStep(p)
                 PROVE DeliverInv'
      BY <1>2 DEF Next
    <2>1. CASE InitQueue(p)
      BY <2>1 DEF InitQueue, NoPublish
    <2>2. CASE SetBackend(p)
      BY <2>2 DEF SetBackend
    <2>3. ASSUME NEW t \in Topics, NEW h \in Handlers, Subscribe(p, t, h)
          PROVE  DeliverInv'
      <3>1. \A u \in Topics : RangeOf(handlers[u]) \subseteq RangeOf(handlers'[u])
        <4>1. RangeOf(handlers[t]) \subseteq RangeOf(Append(handlers[t], h))
          BY RangeAppend
        <4>2. \/ handlers' = [handlers EXCEPT ![t] = Append(@, h)]
              \/ handlers' = handlers
          BY <2>3 DEF Subscribe
        <4> QED
          BY <4>1, <4>2
      <3>2. UNCHANGED <<pc, topic, todo, owed>>
        BY <2>3 DEF Subscribe
      <3> QED
        BY <3>1, <3>2
    <2>4. ASSUME NEW t \in Topics, PublishAccept(p, t) PROVE DeliverInv'
      BY <2>4 DEF PublishAccept, NoClose
    <2>5. CASE MemoryLookup(p)
      BY <2>5 DEF MemoryLookup
    <2>6. CASE RunHandler(p)
      <3>1. RangeOf(todo[p]) \ {Head(todo[p])} \subseteq RangeOf(Tail(todo[p]))
        BY <2>6, RangeTail DEF RunHandler
      <3>2. CASE /\ todo' = [todo EXCEPT ![p] = Tail(@)]
                 /\ owed' = [owed EXCEPT ![p] = @ \ {Head(todo[p])}]
                 /\ UNCHANGED pc
        BY <2>6, <3>1, <3>2 DEF RunHandler
      <3>3. CASE /\ todo' = [todo EXCEPT ![p] = <<>>]
                 /\ owed' = [owed EXCEPT ![p] = {}]
                 /\ Goto(p, "idle")
        BY <2>6, <3>3 DEF RunHandler
      <3> QED
        BY <2>6, <3>2, <3>3 DEF RunHandler
    <2>7. CASE PublishReturn(p) \/ PublishFails(p) \/ BackendPublish(p)
      BY <2>7 DEF PublishReturn, PublishFails, BackendPublish
    <2>8. CASE StartRead(p) \/ StartStep(p) \/ CancelParent(p)
      BY <2>8 DEF StartRead, StartStep, StartRegister, StartDefer, StartReturn, CancelParent
    <2>9. CASE CloseSnapshot(p)
      BY <2>9 DEF CloseSnapshot, NoPublish
    <2>10. CASE CloseCancel(p)
      BY <2>10 DEF CloseCancel
    <2>11. CASE CloseReset(p)
      <3>1. \A q \in Procs : ~InPublish(q)
        BY <2>11 DEF CloseReset
      <3> QED
        BY <2>11, <3>1 DEF CloseReset
    <2> QED
      BY <2>1, <2>2, <2>3, <2>4, <2>5, <2>6, <2>7, <2>8, <2>9, <2>10, <2>11
      DEF PublishStep, CloseStep
  <1> QED
    BY <1>1, <1>2

\* memory_backend.go:21: under the discipline a Publish that returns nil has run
\* every callback that was on its topic when it was accepted, although it looks
\* them up in a later section under the lock.
THEOREM OrderlyReachesAll ==
  ASSUME Orderly
  PROVE  Spec => AcceptedReachesAll
  <1>1. DeliverInv => \A p \in Procs : PublishReturn(p) => owed[p] = {}
    BY DEF DeliverInv, PublishReturn, At, RangeOf
  <1>2. DeliverInv /\ [Next]_vars =>
          [\A p \in Procs : PublishReturn(p) => owed[p] = {}]_vars
    BY <1>1
  <1> QED
    BY <1>2, DeliverInit, DeliverStep, TypeCorrect, PTL DEF Spec, AcceptedReachesAll
=============================================================================
