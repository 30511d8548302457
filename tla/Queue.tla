------------------------------- MODULE Queue -------------------------------
(***************************************************************************)
(* pkg/queue: the process-wide message queue behind @publish/@subscribe.   *)
(* Six package variables guarded by one RWMutex, and the goroutines that   *)
(* call Init, SetBackend, Subscribe, Publish, Start and Close.  A section  *)
(* under the mutex is one action; between two sections every other         *)
(* goroutine may run.  `done` is also read without the mutex               *)
(* (start.go:28), so that read is an action of its own.                    *)
(***************************************************************************)
EXTENDS Naturals, Sequences

CONSTANTS
    Procs,      \* goroutines
    Role,       \* Role[p]: the package functions goroutine p calls
    Topics,     \* topic names
    Handlers,   \* subscriber callbacks
    MaxStart,   \* bound: calls of Start that reach the registration
    MaxSubs,    \* bound: subscribers of one topic
    Orderly     \* TRUE: the application serialises its lifecycle calls

Ops == {"Init", "SetBackend", "Subscribe", "Publish", "Start", "Close"}

ASSUME QueueAssumption ==
    /\ Role \in [Procs -> SUBSET Ops]
    /\ Topics # {}
    /\ MaxStart \in Nat
    /\ MaxSubs \in Nat
    /\ Orderly \in BOOLEAN

VARIABLES
    inited,     \* inited bool
    mapMade,    \* handlers # nil (a nil map reads as empty and panics on write)
    handlers,   \* handlers: the callbacks of each topic, in order
    backend,    \* backend Backend
    cancel,     \* cancel: number of the Start whose context it ends, 0 = nil
    done,       \* done: number of the Start that made the channel, 0 = nil
    cancelled,  \* contexts that have ended
    closed,     \* channels that are closed
    started,    \* Starts registered so far; numbers contexts and channels
    crashed,    \* the panic that ended the process, "no" while none has
    pc,         \* where each goroutine is
    b,          \* its local copy of backend
    own,        \* Start: number of its own context
    chan,       \* Start: channel its defer closes; Close: channel it waits on
    seen,       \* history: Starts that were running when a Close began
    topic,      \* Publish: its topic
    todo,       \* Publish: callbacks it still has to run
    owed        \* history: callbacks registered when the Publish was accepted
                \* that it has not run yet

table == <<inited, mapMade, handlers, backend>>
loop == <<cancel, done, cancelled, closed, started>>
startLocals == <<own, chan, seen>>
pubLocals == <<topic, todo, owed>>
vars == <<table, loop, crashed, pc, b, startLocals, pubLocals>>

Backends == {"nil", "memory", "poller"}
NoHandlers == [t \in Topics |-> <<>>]
PC == {"idle", "accepted", "delivering", "startRead", "registered", "looping",
       "closeSnap", "closeWait"}
Gens == 0 .. MaxStart
RangeOf(s) == {s[i] : i \in DOMAIN s}

InStart(p) == pc[p] \in {"startRead", "registered", "looping"}
Registered(p) == pc[p] \in {"registered", "looping"}
InClose(p) == pc[p] \in {"closeSnap", "closeWait"}
InPublish(p) == pc[p] \in {"accepted", "delivering"}

Goto(p, l) == pc' = [pc EXCEPT ![p] = l]
Calls(p, op) == crashed = "no" /\ pc[p] = "idle" /\ op \in Role[p]
At(p, l) == crashed = "no" /\ pc[p] = l

(***************************************************************************)
(* The application's discipline when Orderly: it waits for its publishers  *)
(* before it calls Init or Close, calls Start when no Start and no Close   *)
(* is running, and Close only once a Start it made is in its loop.  The    *)
(* package itself enforces none of this.                                   *)
(***************************************************************************)
NoPublish == \A q \in Procs : ~InPublish(q)
NoClose == \A q \in Procs : ~InClose(q)
NoStart == \A q \in Procs : ~InStart(q)
StartsLooping == \A q \in Procs : InStart(q) => pc[q] = "looping"

Init ==
    /\ inited = FALSE /\ mapMade = FALSE
    /\ handlers = NoHandlers /\ backend = "nil"
    /\ cancel = 0 /\ done = 0
    /\ cancelled = {} /\ closed = {} /\ started = 0
    /\ crashed = "no"
    /\ pc = [p \in Procs |-> "idle"]
    /\ b = [p \in Procs |-> "nil"]
    /\ own = [p \in Procs |-> 0] /\ chan = [p \in Procs |-> 0]
    /\ seen = [p \in Procs |-> {}]
    /\ topic = [p \in Procs |-> CHOOSE t \in Topics : TRUE]
    /\ todo = [p \in Procs |-> <<>>] /\ owed = [p \in Procs |-> {}]

-----------------------------------------------------------------------------
(* init_queue.go, subscribe.go: one section under the lock each.           *)

\* Init(ctx, "memory"); any other name returns an error and changes nothing.
InitQueue(p) ==
    /\ Calls(p, "Init")
    /\ Orderly => NoPublish /\ NoClose
    /\ backend' = "memory"
    /\ handlers' = NoHandlers /\ mapMade' = TRUE
    /\ inited' = TRUE
    /\ UNCHANGED <<loop, crashed, pc, b, startLocals, pubLocals>>

\* SetBackend(poller): an external Backend that implements Starter.
SetBackend(p) ==
    /\ Calls(p, "SetBackend")
    /\ Orderly => NoClose
    /\ backend' = "poller"
    /\ mapMade' = TRUE /\ handlers' = handlers
    /\ inited' = TRUE
    /\ UNCHANGED <<loop, crashed, pc, b, startLocals, pubLocals>>

\* Mutant: handlers[topic] = []Handler{h}.
SubscribeOverwrites(p, t, h) ==
    /\ Calls(p, "Subscribe") /\ mapMade
    /\ handlers' = [handlers EXCEPT ![t] = <<h>>]
    /\ UNCHANGED <<inited, mapMade, backend, loop, crashed, pc, b, startLocals, pubLocals>>

\* append to handlers[topic]; assignment to an entry of a nil map panics.
Subscribe(p, t, h) ==
    /\ Calls(p, "Subscribe")
    /\ Orderly => mapMade /\ NoClose
    /\ Len(handlers[t]) < MaxSubs
    /\ \/ /\ mapMade
          /\ handlers' = [handlers EXCEPT ![t] = Append(@, h)]
          /\ UNCHANGED crashed
       \/ /\ ~mapMade
          /\ crashed' = "nil map"
          /\ UNCHANGED handlers
    /\ UNCHANGED <<inited, mapMade, backend, loop, pc, b, startLocals, pubLocals>>

-----------------------------------------------------------------------------
(* publish.go and memory_backend.go.                                       *)

\* First section of Publish and of PublishTx; without Init they return
\* ErrNotInitialized.
PublishAccept(p, t) ==
    /\ Calls(p, "Publish")
    /\ Orderly => NoClose
    /\ inited
    /\ b' = [b EXCEPT ![p] = backend]
    /\ topic' = [topic EXCEPT ![p] = t]
    /\ owed' = [owed EXCEPT ![p] = RangeOf(handlers[t])]
    /\ Goto(p, "accepted")
    /\ UNCHANGED <<table, loop, crashed, startLocals, todo>>

\* The payload does not marshal, or the call is a PublishTx on the memory
\* backend: an error, nothing is delivered.
PublishFails(p) ==
    /\ At(p, "accepted")
    /\ owed' = [owed EXCEPT ![p] = {}]
    /\ Goto(p, "idle")
    /\ UNCHANGED <<table, loop, crashed, b, startLocals, topic, todo>>

\* memoryBackend.Publish looks the callbacks up, in a section of its own.
MemoryLookup(p) ==
    /\ At(p, "accepted") /\ b[p] = "memory"
    /\ todo' = [todo EXCEPT ![p] = handlers[topic[p]]]
    /\ Goto(p, "delivering")
    /\ UNCHANGED <<table, loop, crashed, b, startLocals, topic, owed>>

\* It runs them in order; the first error ends the Publish.
RunHandler(p) ==
    /\ At(p, "delivering") /\ todo[p] # <<>>
    /\ \/ /\ todo' = [todo EXCEPT ![p] = Tail(@)]
          /\ owed' = [owed EXCEPT ![p] = @ \ {Head(todo[p])}]
          /\ UNCHANGED pc
       \/ /\ todo' = [todo EXCEPT ![p] = <<>>]
          /\ owed' = [owed EXCEPT ![p] = {}]
          /\ Goto(p, "idle")
    /\ UNCHANGED <<table, loop, crashed, b, startLocals, topic>>

\* Publish returns nil: every callback it looked up has run.
PublishReturn(p) ==
    /\ At(p, "delivering") /\ todo[p] = <<>>
    /\ owed' = [owed EXCEPT ![p] = {}]
    /\ Goto(p, "idle")
    /\ UNCHANGED <<table, loop, crashed, b, startLocals, topic, todo>>

\* b.Publish of an external backend enqueues; through a nil backend it panics.
BackendPublish(p) ==
    /\ At(p, "accepted") /\ b[p] # "memory"
    /\ crashed' = IF b[p] = "nil" THEN "nil backend" ELSE crashed
    /\ owed' = [owed EXCEPT ![p] = {}]
    /\ Goto(p, "idle")
    /\ UNCHANGED <<table, loop, b, startLocals, topic, todo>>

-----------------------------------------------------------------------------
(* start.go                                                                *)

\* b := backend under RLock.  inited is not looked at.
StartRead(p) ==
    /\ Calls(p, "Start")
    /\ Orderly => NoStart /\ NoClose
    /\ b' = [b EXCEPT ![p] = backend]
    /\ Goto(p, "startRead")
    /\ UNCHANGED <<table, loop, crashed, startLocals, pubLocals>>

\* Mutant: done is made only when it is nil.
StartRegisterReusesDone(p) ==
    /\ At(p, "startRead") /\ started < MaxStart
    /\ started' = started + 1 /\ cancel' = started + 1
    /\ done' = IF done = 0 THEN started + 1 ELSE done
    /\ own' = [own EXCEPT ![p] = started + 1]
    /\ Goto(p, "registered")
    /\ UNCHANGED <<table, cancelled, closed, crashed, b, chan, seen, pubLocals>>

\* cancel = c; done = make(chan struct{}) under Lock.
StartRegister(p) ==
    /\ At(p, "startRead") /\ started < MaxStart
    /\ started' = started + 1
    /\ cancel' = started + 1 /\ done' = started + 1
    /\ own' = [own EXCEPT ![p] = started + 1]
    /\ Goto(p, "registered")
    /\ UNCHANGED <<table, cancelled, closed, crashed, b, chan, seen, pubLocals>>

\* defer close(done): the argument is evaluated here, without the mutex.
StartDefer(p) ==
    /\ At(p, "registered")
    /\ chan' = [chan EXCEPT ![p] = done]
    /\ Goto(p, "looping")
    /\ UNCHANGED <<table, loop, crashed, b, own, seen, pubLocals>>

\* The caller of Start may cancel the context it passed.
CancelParent(p) ==
    /\ crashed = "no" /\ Registered(p)
    /\ own[p] \notin cancelled
    /\ cancelled' = cancelled \cup {own[p]}
    /\ UNCHANGED <<table, cancel, done, closed, started, crashed, pc, b,
                   startLocals, pubLocals>>

\* The wait ends with the context, and a poller may also give up by itself;
\* then the deferred close runs, and panics on a nil or closed channel.
StartReturn(p) ==
    /\ At(p, "looping")
    /\ own[p] \in cancelled \/ b[p] = "poller"
    /\ \/ /\ chan[p] \notin closed \cup {0}
          /\ closed' = closed \cup {chan[p]}
          /\ UNCHANGED crashed
       \/ /\ chan[p] \in closed \cup {0}
          /\ crashed' = "bad close"
          /\ UNCHANGED closed
    /\ Goto(p, "idle")
    /\ UNCHANGED <<table, cancel, done, cancelled, started, b, startLocals, pubLocals>>

-----------------------------------------------------------------------------
(* close_queue.go                                                          *)

\* c, d := cancel, done under Lock.  cancel and done always belong to the
\* same Start, so one local stands for both.
CloseSnapshot(p) ==
    /\ Calls(p, "Close")
    /\ Orderly => StartsLooping /\ NoPublish
    /\ own' = [own EXCEPT ![p] = cancel]
    /\ chan' = [chan EXCEPT ![p] = done]
    /\ seen' = [seen EXCEPT ![p] = {own[q] : q \in {r \in Procs : Registered(r)}}]
    /\ Goto(p, "closeSnap")
    /\ UNCHANGED <<table, loop, crashed, b, pubLocals>>

\* Mutant: Close waits without calling c().
CloseCancelForgets(p) ==
    /\ At(p, "closeSnap")
    /\ Goto(p, "closeWait")
    /\ UNCHANGED <<table, loop, crashed, b, startLocals, pubLocals>>

\* if c != nil { c() }
CloseCancel(p) ==
    /\ At(p, "closeSnap")
    /\ cancelled' = cancelled \cup ({own[p]} \ {0})
    /\ Goto(p, "closeWait")
    /\ UNCHANGED <<table, cancel, done, closed, started, crashed, b, startLocals,
                   pubLocals>>

\* Mutants: the reset forgets inited; it does not wait for d; it removes the
\* topics for good.
CloseResetKeepsInited(p) ==
    /\ At(p, "closeWait") /\ chan[p] \in closed \cup {0}
    /\ handlers' = NoHandlers /\ mapMade' = FALSE /\ backend' = "nil"
    /\ cancel' = 0 /\ done' = 0
    /\ Goto(p, "idle")
    /\ UNCHANGED <<inited, cancelled, closed, started, crashed, b, startLocals, pubLocals>>
CloseResetNoWait(p) ==
    /\ At(p, "closeWait")
    /\ inited' = FALSE /\ backend' = "nil"
    /\ handlers' = NoHandlers /\ mapMade' = FALSE
    /\ cancel' = 0 /\ done' = 0
    /\ Goto(p, "idle")
    /\ UNCHANGED <<cancelled, closed, started, crashed, b, startLocals, pubLocals>>
CloseResetDropsTopics(p) ==
    /\ At(p, "closeWait") /\ chan[p] \in closed \cup {0}
    /\ handlers' = <<>>
    /\ Goto(p, "idle")
    /\ UNCHANGED <<inited, mapMade, backend, loop, crashed, b, startLocals, pubLocals>>

\* <-d, then the reset under Lock.  A closed channel stays closed, so waiting
\* and resetting in one action loses no interleaving.
CloseReset(p) ==
    /\ At(p, "closeWait")
    /\ chan[p] \in closed \cup {0}
    /\ inited' = FALSE
    /\ handlers' = NoHandlers /\ mapMade' = FALSE
    /\ backend' = "nil"
    /\ cancel' = 0 /\ done' = 0
    /\ Goto(p, "idle")
    /\ UNCHANGED <<cancelled, closed, started, crashed, b, startLocals, pubLocals>>

-----------------------------------------------------------------------------
StartStep(p) == StartRegister(p) \/ StartDefer(p) \/ StartReturn(p)
CloseStep(p) == CloseCancel(p) \/ CloseReset(p)
PublishStep(p) ==
    \/ PublishFails(p) \/ MemoryLookup(p) \/ RunHandler(p) \/ PublishReturn(p)
    \/ BackendPublish(p)

Next ==
    \E p \in Procs :
        \/ InitQueue(p) \/ SetBackend(p)
        \/ \E t \in Topics, h \in Handlers : Subscribe(p, t, h)
        \/ \E t \in Topics : PublishAccept(p, t)
        \/ PublishStep(p)
        \/ StartRead(p) \/ StartStep(p) \/ CancelParent(p)
        \/ CloseSnapshot(p) \/ CloseStep(p)

\* A goroutine inside Publish, Start or Close is not suspended for ever by the
\* Go scheduler, and a loop whose context ended returns.  Nothing makes the
\* application call a function or cancel a context.
Fairness ==
    \A p \in Procs : /\ WF_vars(StartRegister(p)) /\ WF_vars(StartDefer(p))
                     /\ WF_vars(own[p] \in cancelled /\ StartReturn(p))
                     /\ WF_vars(CloseStep(p)) /\ WF_vars(PublishStep(p))

Spec == Init /\ [][Next]_vars
FairSpec == Spec /\ Fairness

-----------------------------------------------------------------------------
\* Values the package variables and each call's locals can hold.
TypeOK ==
    /\ inited \in BOOLEAN /\ mapMade \in BOOLEAN
    /\ handlers \in [Topics -> Seq(Handlers)]
    /\ backend \in Backends
    /\ cancel \in Gens /\ done \in Gens
    /\ cancelled \in SUBSET Gens /\ closed \in SUBSET Gens
    /\ started \in Gens
    /\ crashed \in {"no", "nil map", "nil backend", "bad close"}
    /\ pc \in [Procs -> PC]
    /\ b \in [Procs -> Backends]
    /\ own \in [Procs -> Gens] /\ chan \in [Procs -> Gens]
    /\ seen \in [Procs -> SUBSET Gens]
    /\ topic \in [Procs -> Topics]
    /\ todo \in [Procs -> Seq(Handlers)] /\ owed \in [Procs -> SUBSET Handlers]

\* A Publish that passed the inited check (publish.go:14) never calls through
\* a nil backend, whatever Init, SetBackend and Close do in between.
PublishHasBackend ==
    /\ \A p \in Procs : pc[p] = "accepted" => b[p] # "nil"
    /\ crashed # "nil backend"

\* "ctx 취소 시 정상 종료" (pkg/queue/README.md): the end of a Start never
\* panics, that is, the channel its defer closes (start.go:28) is neither nil
\* nor closed already.
StartEndsNormally == crashed # "bad close"

\* "Start가 반환할 때까지 대기" (pkg/queue/README.md) and "stops the polling
\* loop" (close_queue.go:5): when a Close returns, every Start that was running
\* when it began has returned.
CloseStopsLoop ==
    [][\A p, q \in Procs :
          InClose(p) /\ ~InClose(p)' /\ Registered(q) => own[q] \notin seen[p]]_vars

\* memory_backend.go:21: a Publish that returns nil ran every callback that
\* was registered on its topic when it was accepted.
AcceptedReachesAll ==
    [][\A p \in Procs : PublishReturn(p) => owed[p] = {}]_vars

\* close_queue.go:16: the wait for the loop ends, so every Close returns.
CloseReturns == \A p \in Procs : InClose(p) ~> (crashed # "no" \/ ~InClose(p))
=============================================================================
