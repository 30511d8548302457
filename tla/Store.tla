------------------------------- MODULE Store -------------------------------
(***************************************************************************)
(* pkg/session and pkg/cache: a key-value store with a lifetime per entry, *)
(* the same code in both packages.  Requests call Set, Get and Delete; the *)
(* map is guarded by a RWMutex, and Get looks at the clock only after it   *)
(* has given the lock back.                                                *)
(***************************************************************************)
EXTENDS Integers

CONSTANTS
    Procs,      \* request goroutines
    Keys, Values,
    TTLs,       \* the TTL of a SetRequest, in seconds
    Second,     \* clock ticks per second
    W,          \* a time.Duration is -W .. W - 1 ticks
    MaxNow      \* bound: the clock

ASSUME ClockAssumption ==
    /\ TTLs \subseteq Int
    /\ Second \in Nat \ {0} /\ W \in Nat \ {0} /\ MaxNow \in Nat

VARIABLES
    now,        \* time.Now(), in ticks
    store,      \* the map of the default model
    pc,         \* idle, read or got
    key,        \* Get: its key
    entry,      \* Get: the entry it read
    result,     \* Get: what it returns
    could,      \* history: what a Get in one step would have returned at some
                \* moment since this one read the map
    reset       \* history: the key was set or deleted since then

locals == <<pc, key, entry, result>>
vars == <<now, store, locals, could, reset>>

Miss == "miss"      \* the empty string
Absent == [value |-> Miss, expiresAt |-> 0]

\* A value is stored as JSON, which is never empty.
ASSUME ValuesAssumption == Miss \notin Values

Answers == Values \cup {Miss}
Entries == [value : Answers, expiresAt : -W .. MaxNow + W]

\* What is stored under k at time t.
Live(s, k, t) == IF s[k] = Absent \/ t > s[k].expiresAt THEN Miss ELSE s[k].value

\* Mutant: a product that cannot overflow.
LifetimeExact(ttl) == ttl * Second

\* time.Duration(req.TTL)*time.Second
Lifetime(ttl) == ((ttl * Second + W) % (2 * W)) - W

Init ==
    /\ now = 0 /\ store = [k \in Keys |-> Absent]
    /\ pc = [p \in Procs |-> "idle"] /\ key \in [Procs -> Keys]
    /\ entry = [p \in Procs |-> Absent] /\ result = [p \in Procs |-> Miss]
    /\ could = [p \in Procs |-> {}] /\ reset = [p \in Procs |-> FALSE]

\* The history of the Gets under way, after a step that changed K.
Observe(K) ==
    /\ could' = [p \in Procs |->
          IF pc[p] = "read" THEN could[p] \cup {Live(store', key[p], now')} ELSE could[p]]
    /\ reset' = [p \in Procs |-> reset[p] \/ (pc[p] = "read" /\ key[p] \in K)]

Tick ==
    /\ now < MaxNow
    /\ now' = now + 1
    /\ UNCHANGED <<store, locals>>
    /\ Observe({})

\* A value that does not marshal is an error before the lock is taken.
Set(p, k, v, ttl) ==
    /\ pc[p] = "idle"
    /\ store' = [store EXCEPT ![k] = [value |-> v, expiresAt |-> now + Lifetime(ttl)]]
    /\ UNCHANGED <<now, locals>>
    /\ Observe({k})

Delete(p, k) ==
    /\ pc[p] = "idle"
    /\ store' = [store EXCEPT ![k] = Absent]
    /\ UNCHANGED <<now, locals>>
    /\ Observe({k})

\* The read under RLock.
GetRead(p, k) ==
    /\ pc[p] = "idle"
    /\ pc' = [pc EXCEPT ![p] = "read"] /\ key' = [key EXCEPT ![p] = k]
    /\ entry' = [entry EXCEPT ![p] = store[k]]
    /\ could' = [could EXCEPT ![p] = {Live(store, k, now)}]
    /\ reset' = [reset EXCEPT ![p] = FALSE]
    /\ UNCHANGED <<now, store, result>>

\* Mutant: an entry that is there is returned.
GetCheckPresent(p) ==
    /\ pc[p] = "read"
    /\ pc' = [pc EXCEPT ![p] = "got"]
    /\ result' = [result EXCEPT ![p] = entry[p].value]
    /\ UNCHANGED <<now, store, key, entry, could, reset>>

\* !ok || time.Now().After(entry.expiresAt), without the lock.
GetCheck(p) ==
    /\ pc[p] = "read"
    /\ pc' = [pc EXCEPT ![p] = "got"]
    /\ result' = [result EXCEPT ![p] =
          IF entry[p] = Absent \/ now > entry[p].expiresAt THEN Miss ELSE entry[p].value]
    /\ UNCHANGED <<now, store, key, entry, could, reset>>

\* The request goes on.
GetReturn(p) ==
    /\ pc[p] = "got"
    /\ pc' = [pc EXCEPT ![p] = "idle"] /\ entry' = [entry EXCEPT ![p] = Absent]
    /\ result' = [result EXCEPT ![p] = Miss] /\ could' = [could EXCEPT ![p] = {}]
    /\ reset' = [reset EXCEPT ![p] = FALSE]
    /\ UNCHANGED <<now, store, key>>

\* Init(NewMemorySession()) again, after the one the process began with and
\* while requests run: the entries are gone, a Get keeps the one it read.
InitModel ==
    /\ store' = [k \in Keys |-> Absent]
    /\ UNCHANGED <<now, locals>>
    /\ Observe(Keys)

Next ==
    \/ Tick \/ InitModel
    \/ \E p \in Procs :
        \/ \E k \in Keys : \/ Delete(p, k) \/ GetRead(p, k)
                           \/ \E v \in Values, ttl \in TTLs : Set(p, k, v, ttl)
        \/ GetCheck(p) \/ GetReturn(p)

Spec == Init /\ [][Next]_vars

-----------------------------------------------------------------------------
\* Values of the map, the clock and each Get's locals.
TypeOK ==
    /\ now \in 0 .. MaxNow /\ store \in [Keys -> Entries]
    /\ pc \in [Procs -> {"idle", "read", "got"}] /\ key \in [Procs -> Keys]
    /\ entry \in [Procs -> Entries] /\ result \in [Procs -> Answers]
    /\ could \in [Procs -> SUBSET Answers] /\ reset \in [Procs -> BOOLEAN]

\* SAFETY.  Although Get reads the map and the clock apart, it returns what a
\* Get in one step would have returned at some moment of the call
\* (memory_session_get.go:11-17), never a value that had expired, or had been
\* deleted or replaced, before the call began.  The one exception is a miss: an
\* entry that was renewed while the Get held the old one is reported as expired
\* once the old one is, although the key was live all the time.
GetAtomic ==
    \A p \in Procs : pc[p] = "got" =>
        \/ result[p] \in could[p]
        \/ result[p] = Miss /\ reset[p] /\ entry[p] # Absent /\ now > entry[p].expiresAt
=============================================================================
