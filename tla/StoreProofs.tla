---------------------------- MODULE StoreProofs ----------------------------
(* Proofs about Store, for any requests, keys, lifetimes and clock.        *)
EXTENDS Store, TLAPS

\* time.Duration(ttl)*time.Second is a time.Duration again, wrapped.
LEMMA LifetimeType ==
    ASSUME NEW ttl \in TTLs
    PROVE  Lifetime(ttl) \in -W .. W - 1
<1> DEFINE x == ttl * Second + W
<1>1. ttl \in Int /\ Second \in Nat /\ W \in Nat \ {0}
  BY ClockAssumption
<1>2. x \in Int /\ 2 * W \in Nat \ {0}
  BY <1>1
<1>3. x % (2 * W) \in 0 .. 2 * W - 1
  <2> HIDE DEF x
  <2>1. \A a \in Int, b \in Nat \ {0} : a % b \in 0 .. b - 1
    OBVIOUS
  <2> QED BY <1>2, <2>1
<1>4. Lifetime(ttl) = (x % (2 * W)) - W
  BY DEF Lifetime
<1> HIDE DEF x
<1> QED BY <1>1, <1>3, <1>4

\* What Get may return.
LEMMA AnswersType == Miss \in Answers /\ Values \subseteq Answers
  BY DEF Answers

\* The entry of a key that is not in the map.
LEMMA AbsentType == Absent \in Entries
  BY ClockAssumption, AnswersType DEF Absent, Entries

\* The map, the clock and the locals of every Get keep their types.
THEOREM TypeCorrect == Spec => []TypeOK
<1>1. Init => TypeOK
  BY ClockAssumption, AnswersType, AbsentType DEF Init, TypeOK
<1>2. TypeOK /\ [Next]_vars => TypeOK'
  <2> SUFFICES ASSUME TypeOK, [Next]_vars PROVE TypeOK'
    OBVIOUS
  <2> USE DEF TypeOK
  <2>a. W \in Nat \ {0} /\ MaxNow \in Nat
    BY ClockAssumption
  <2>b. Absent \in Entries
    BY AbsentType
  <2>c. ASSUME NEW K, store' \in [Keys -> Entries], UNCHANGED key, Observe(K)
        PROVE  could' \in [Procs -> SUBSET Answers] /\ reset' \in [Procs -> BOOLEAN]
    <3>1. \A p \in Procs : Live(store', key[p], now') \in Answers
      BY <2>c, AnswersType DEF Live, Entries
    <3> QED BY <2>c, <3>1 DEF Observe
  <2>1. CASE Tick
    BY <2>1, <2>c, <2>a DEF Tick, locals
  <2>2. CASE InitModel
    BY <2>2, <2>b, <2>c DEF InitModel, locals
  <2>3. ASSUME NEW p \in Procs, NEW k \in Keys, Delete(p, k) PROVE TypeOK'
    BY <2>3, <2>b, <2>c DEF Delete, locals
  <2>4. ASSUME NEW p \in Procs, NEW k \in Keys, NEW v \in Values, NEW ttl \in TTLs,
               Set(p, k, v, ttl)
        PROVE  TypeOK'
    <3>1. now + Lifetime(ttl) \in -W .. MaxNow + W
      BY LifetimeType, <2>a
    <3>2. [value |-> v, expiresAt |-> now + Lifetime(ttl)] \in Entries
      BY <3>1, AnswersType DEF Entries
    <3> QED BY <2>4, <3>2, <2>c DEF Set, locals
  <2>5. ASSUME NEW p \in Procs, NEW k \in Keys, GetRead(p, k) PROVE TypeOK'
    <3>1. Live(store, k, now) \in Answers
      BY AnswersType DEF Live, Entries
    <3> QED BY <2>5, <3>1 DEF GetRead
  <2>6. ASSUME NEW p \in Procs, GetCheck(p) PROVE TypeOK'
    BY <2>6, AnswersType DEF GetCheck, Entries
  <2>7. ASSUME NEW p \in Procs, GetReturn(p) PROVE TypeOK'
    BY <2>7, <2>b, AnswersType DEF GetReturn
  <2>8. CASE UNCHANGED vars
    BY <2>8 DEF vars, locals
  <2> QED BY <2>1, <2>2, <2>3, <2>4, <2>5, <2>6, <2>7, <2>8 DEF Next
<1> QED BY <1>1, <1>2, PTL DEF Spec

-----------------------------------------------------------------------------
\* What a Get between its two reads knows of the past: it holds the current
\* entry unless the key was changed; what it would return now, if the key was
\* not changed, and what its entry would have been worth when it was read, are
\* among the answers of one-step Gets.
ReadInv ==
    \A p \in Procs : pc[p] = "read" =>
        /\ Live(store, key[p], now) \in could[p]
        /\ ~reset[p] => store[key[p]] = entry[p]
        /\ entry[p] = Absent => Miss \in could[p]
        /\ entry[p] # Absent /\ now <= entry[p].expiresAt => entry[p].value \in could[p]

\* A step that changes nothing but the clock or entries of K keeps ReadInv.
LEMMA ObserveReads ==
    ASSUME TypeOK, ReadInv, NEW K \in SUBSET Keys, Observe(K), UNCHANGED locals,
           now' \in Int, now <= now', store' \in [Keys -> Entries],
           \A k \in Keys \ K : store'[k] = store[k]
    PROVE  ReadInv'
<1> SUFFICES ASSUME NEW p \in Procs, pc[p] = "read"
             PROVE  /\ Live(store', key[p], now') \in could'[p]
                    /\ ~reset'[p] => store'[key[p]] = entry[p]
                    /\ entry[p] = Absent => Miss \in could'[p]
                    /\ entry[p] # Absent /\ now' <= entry[p].expiresAt
                          => entry[p].value \in could'[p]
  BY DEF ReadInv, locals, Live, Absent
<1>1. could'[p] = could[p] \cup {Live(store', key[p], now')}
  BY DEF Observe
<1>2. reset'[p] = (reset[p] \/ key[p] \in K)
  BY DEF Observe
<1>3. key[p] \in Keys /\ now \in Int /\ entry[p].expiresAt \in Int
  BY ClockAssumption DEF TypeOK, Entries
<1>4. now' <= entry[p].expiresAt => now <= entry[p].expiresAt
  BY <1>3
<1> QED BY <1>1, <1>2, <1>3, <1>4 DEF ReadInv

\* memory_session_get.go: a Get returns what a Get in one step would have
\* returned at some moment of the call, or a miss for an entry that was renewed
\* meanwhile, however many requests interleave.
THEOREM GetsAtomic == Spec => []GetAtomic
<1> DEFINE Inv == TypeOK /\ ReadInv /\ GetAtomic
<1>1. Init => ReadInv /\ GetAtomic
  BY DEF Init, ReadInv, GetAtomic
<1>2. TypeOK /\ TypeOK' /\ ReadInv /\ GetAtomic /\ [Next]_vars => ReadInv' /\ GetAtomic'
  <2> SUFFICES ASSUME TypeOK, TypeOK', ReadInv, GetAtomic, [Next]_vars
               PROVE  ReadInv' /\ GetAtomic'
    OBVIOUS
  <2>a. now \in Int /\ now' \in Int
    BY ClockAssumption DEF TypeOK
  <2>b. ASSUME NEW K, Observe(K), UNCHANGED locals, now <= now' PROVE GetAtomic'
    <3> SUFFICES ASSUME NEW p \in Procs, pc[p] = "got"
                 PROVE  \/ result[p] \in could'[p]
                        \/ /\ result[p] = Miss /\ reset'[p]
                           /\ entry[p] # Absent /\ now' > entry[p].expiresAt
      BY <2>b DEF GetAtomic, locals, Absent
    <3>1. could'[p] = could[p] /\ reset'[p] = reset[p]
      BY <2>b DEF Observe, TypeOK
    <3>2. entry[p].expiresAt \in Int
      BY ClockAssumption DEF TypeOK, Entries
    <3> QED BY <2>a, <2>b, <3>1, <3>2 DEF GetAtomic
  <2>1. CASE Tick
    <3>1. now <= now'
      BY <2>1, <2>a DEF Tick
    <3> QED BY <2>1, <2>a, <2>b, <3>1, ObserveReads DEF Tick, TypeOK
  <2>2. CASE InitModel
    BY <2>2, <2>a, <2>b, ObserveReads DEF InitModel, TypeOK
  <2>3. ASSUME NEW p \in Procs, NEW k \in Keys,
               Delete(p, k) \/ \E v \in Values, ttl \in TTLs : Set(p, k, v, ttl)
        PROVE  ReadInv' /\ GetAtomic'
    <3>1. /\ Observe({k}) /\ UNCHANGED <<now, locals>>
          /\ \A x \in Keys \ {k} : store'[x] = store[x]
      BY <2>3 DEF Delete, Set, TypeOK
    <3> QED BY <2>a, <2>b, <3>1, ObserveReads DEF TypeOK
  <2>4. ASSUME NEW p \in Procs, NEW k \in Keys, GetRead(p, k) PROVE ReadInv' /\ GetAtomic'
    <3>1. GetAtomic'
      BY <2>4 DEF GetRead, GetAtomic, TypeOK, Absent
    <3>2. ASSUME NEW q \in Procs, pc'[q] = "read"
          PROVE  /\ Live(store', key'[q], now') \in could'[q]
                 /\ ~reset'[q] => store'[key'[q]] = entry'[q]
                 /\ entry'[q] = Absent => Miss \in could'[q]
                 /\ entry'[q] # Absent /\ now' <= entry'[q].expiresAt
                       => entry'[q].value \in could'[q]
      <4>1. CASE q = p
        <5>1. /\ key'[p] = k /\ entry'[p] = store[k] /\ could'[p] = {Live(store, k, now)}
              /\ store' = store /\ now' = now
          BY <2>4 DEF GetRead, TypeOK
        <5>2. store[k].expiresAt \in Int
          BY ClockAssumption DEF TypeOK, Entries
        <5> QED BY <4>1, <5>1, <5>2, <2>a DEF Live
      <4>2. CASE q # p
        <5>1. /\ key'[q] = key[q] /\ entry'[q] = entry[q] /\ could'[q] = could[q]
              /\ reset'[q] = reset[q] /\ store' = store /\ now' = now /\ pc[q] = "read"
          BY <2>4, <3>2, <4>2 DEF GetRead, TypeOK
        <5> QED BY <5>1 DEF ReadInv
      <4> QED BY <4>1, <4>2
    <3> QED BY <3>1, <3>2 DEF ReadInv, Live, Absent
  <2>5. ASSUME NEW p \in Procs, GetCheck(p) PROVE ReadInv' /\ GetAtomic'
    <3>1. ReadInv'
      BY <2>5 DEF GetCheck, ReadInv, TypeOK, Live, Absent
    <3>2. ASSUME NEW q \in Procs, pc'[q] = "got"
          PROVE  \/ result'[q] \in could'[q]
                 \/ /\ result'[q] = Miss /\ reset'[q]
                    /\ entry'[q] # Absent /\ now' > entry'[q].expiresAt
      <4>0. UNCHANGED <<entry, could, reset, now, store>>
        BY <2>5 DEF GetCheck
      <4>1. CASE q = p
        <5>1. pc[p] = "read"
          BY <2>5 DEF GetCheck
        <5>2. result'[p] = IF entry[p] = Absent \/ now > entry[p].expiresAt THEN Miss
                           ELSE entry[p].value
          BY <2>5 DEF GetCheck, TypeOK
        <5>3. entry[p].expiresAt \in Int
          BY ClockAssumption DEF TypeOK, Entries
        <5>4. ~reset[p] /\ entry[p] # Absent /\ now > entry[p].expiresAt => Miss \in could[p]
          BY <5>1 DEF ReadInv, Live
        <5> QED BY <4>0, <4>1, <5>1, <5>2, <5>3, <5>4, <2>a DEF ReadInv
      <4>2. CASE q # p
        <5>1. pc[q] = "got" /\ result'[q] = result[q]
          BY <2>5, <3>2, <4>2 DEF GetCheck, TypeOK
        <5> QED BY <4>0, <5>1 DEF GetAtomic
      <4> QED BY <4>1, <4>2
    <3> QED BY <3>1, <3>2 DEF GetAtomic, Absent
  <2>6. ASSUME NEW p \in Procs, GetReturn(p) PROVE ReadInv' /\ GetAtomic'
    BY <2>6 DEF GetReturn, ReadInv, GetAtomic, TypeOK, Live, Absent
  <2>7. CASE UNCHANGED vars
    BY <2>7 DEF vars, locals, ReadInv, GetAtomic, Live, Absent
  <2> QED BY <2>1, <2>2, <2>3, <2>4, <2>5, <2>6, <2>7 DEF Next
<1> QED BY <1>1, <1>2, TypeCorrect, PTL DEF Spec
=============================================================================
