--------------------------- MODULE RefreshProofs ---------------------------
(* Proofs about Refresh, for any requests, claims, clock and lifetimes.    *)
EXTENDS Refresh, Integers, FiniteSetTheorems, TLAPS

\* Rounding an expiry down to seconds does not make it later.
LEMMA DivBound ==
  ASSUME NEW n \in Nat, NEW r \in Nat \ {0}
  PROVE  n \div r \in 0 .. n
  <1>1. n \div r \in Int /\ n \div r >= 0
    OBVIOUS
  <1>2. n \div r <= n
    OBVIOUS
  <1> QED
    BY <1>1, <1>2

\* A signed token is a token of the model.
LEMMA SignedType ==
  ASSUME TypeOK, NEW c \in Subjects
  PROVE  Signed(c) \in Tokens /\ now + TTL \in Times
  <1>1. now + TTL \in Nat /\ now + TTL <= MaxNow + TTL
    BY RefreshAssumption DEF TypeOK
  <1>2. (now + TTL) \div Res \in 0 .. now + TTL
    BY <1>1, RefreshAssumption, DivBound
  <1> QED
    BY <1>1, <1>2, RefreshAssumption DEF Signed, Tokens, Times

\* Initial states have the types.
LEMMA InitType == Init => TypeOK
  BY RefreshAssumption DEF Init, TypeOK, PC, States, Times

\* Every step keeps the types.
LEMMA NextType == TypeOK /\ [Next]_vars => TypeOK'
  <1> SUFFICES ASSUME TypeOK, [Next]_vars PROVE TypeOK'
    OBVIOUS
  <1>0. 0 \in Times /\ now + 1 \in Nat
    BY RefreshAssumption DEF Times, TypeOK
  <1> USE <1>0, RefreshAssumption DEF TypeOK, store, locals, history, Goto, Return,
                                      PC, States
  <1>1. CASE UNCHANGED vars
    BY <1>1 DEF vars
  <1>2. CASE Tick
    BY <1>2 DEF Tick
  <1>3. CASE Restart
    BY <1>3 DEF Restart
  <1>4. ASSUME NEW p \in Procs, NEW c \in Subjects, Login(p, c) PROVE TypeOK'
    BY <1>4, SignedType DEF Login, RefreshToken
  <1>5. ASSUME NEW p \in Procs, NEW t \in held, VerifyToken(p, t) PROVE TypeOK'
    BY <1>5 DEF VerifyToken
  <1>6. ASSUME NEW p \in Procs, NEW t \in held, Logout(p, t) PROVE TypeOK'
    BY <1>6 DEF Logout
  <1>7. ASSUME NEW p \in Procs, ConsumeActive(p) PROVE TypeOK'
    BY <1>7 DEF ConsumeActive
  <1>8. ASSUME NEW p \in Procs, ConsumeReused(p) PROVE TypeOK'
    BY <1>8 DEF ConsumeReused
  <1>9. ASSUME NEW p \in Procs, ConsumeNotFound(p) PROVE TypeOK'
    BY <1>9 DEF ConsumeNotFound
  <1>10. ASSUME NEW p \in Procs, RevokeAll(p) PROVE TypeOK'
    BY <1>10 DEF RevokeAll, Tokens
  <1>11. ASSUME NEW p \in Procs, Sign(p) PROVE TypeOK'
    <2>1. tok[p].claims \in Subjects
      BY <1>11 DEF Sign, Tokens
    <2>2. Signed(tok[p].claims) \in Tokens /\ now + TTL \in Times
      BY <2>1, SignedType
    <2> QED
      BY <1>11, <2>2 DEF Sign, RefreshToken
  <1>12. ASSUME NEW p \in Procs, SignFails(p) PROVE TypeOK'
    BY <1>12 DEF SignFails
  <1>13. ASSUME NEW p \in Procs, Create(p) PROVE TypeOK'
    BY <1>13 DEF Create
  <1>14. ASSUME NEW p \in Procs, CreateFails(p) PROVE TypeOK'
    BY <1>14 DEF CreateFails
  <1>15. ASSUME NEW p \in Procs, RevokeAllFails(p) PROVE TypeOK'
    BY <1>15 DEF RevokeAllFails
  <1> QED
    BY <1>1, <1>2, <1>3, <1>4, <1>5, <1>6, <1>7, <1>8, <1>9, <1>10, <1>11, <1>12,
       <1>13, <1>14, <1>15 DEF Next

\* The store, the clock and the locals of each request keep their types.
THEOREM TypeCorrect == Spec => []TypeOK
  BY InitType, NextType, PTL DEF Spec

-----------------------------------------------------------------------------
(***************************************************************************)
(* Why a token signed once is used once: while it waits for its Create it  *)
(* has no row and no other request waits for it too, and once consumed it  *)
(* is not active.                                                          *)
(***************************************************************************)
FreshInv ==
    /\ respent \subseteq resigned
    /\ \A t \in Tokens : rows[t] # "absent" => t \in signed
    /\ \A t \in spent : t \in signed /\ (t \notin resigned => rows[t] # "active")
    /\ \A p \in Procs : pc[p] = "create" => new[p] \in signed
    /\ \A p \in Procs : pc[p] = "create" /\ new[p] \notin resigned =>
          new[p] \notin spent /\ rows[new[p]] = "absent"
    /\ \A p, q \in Procs :
          pc[p] = "create" /\ pc[q] = "create" /\ new[p] = new[q]
          /\ new[p] \notin resigned => p = q

\* It holds at first.
LEMMA FreshInit == Init => FreshInv
  BY DEF Init, FreshInv

\* Every step keeps it.
LEMMA FreshStep == FreshInv /\ TypeOK /\ [Next]_vars => FreshInv'
  <1> SUFFICES ASSUME FreshInv, TypeOK, [Next]_vars PROVE FreshInv'
    OBVIOUS
  <1> USE DEF FreshInv, TypeOK, store, locals, history, Goto, Return
  <1>1. CASE UNCHANGED vars
    BY <1>1 DEF vars
  <1>2. CASE Tick
    BY <1>2 DEF Tick
  <1>3. CASE Restart
    BY <1>3 DEF Restart
  <1>4. ASSUME NEW p \in Procs, NEW c \in Subjects, Login(p, c) PROVE FreshInv'
    BY <1>4, SignedType DEF Login, RefreshToken
  <1>5. ASSUME NEW p \in Procs, NEW t \in held, VerifyToken(p, t) PROVE FreshInv'
    BY <1>5 DEF VerifyToken
  <1>6. ASSUME NEW p \in Procs, NEW t \in held, Logout(p, t) PROVE FreshInv'
    BY <1>6 DEF Logout
  <1>7. ASSUME NEW p \in Procs, ConsumeActive(p) PROVE FreshInv'
    BY <1>7 DEF ConsumeActive
  <1>8. ASSUME NEW p \in Procs, ConsumeReused(p) PROVE FreshInv'
    BY <1>8 DEF ConsumeReused
  <1>9. ASSUME NEW p \in Procs, ConsumeNotFound(p) PROVE FreshInv'
    BY <1>9 DEF ConsumeNotFound
  <1>10. ASSUME NEW p \in Procs, RevokeAll(p) PROVE FreshInv'
    BY <1>10 DEF RevokeAll
  <1>11. ASSUME NEW p \in Procs, Sign(p) PROVE FreshInv'
    <2>1. tok[p].claims \in Subjects
      BY <1>11 DEF Sign, Tokens
    <2>2. Signed(tok[p].claims) \in Tokens
      BY <2>1, SignedType
    <2> QED
      BY <1>11, <2>2 DEF Sign, RefreshToken
  <1>12. ASSUME NEW p \in Procs, SignFails(p) PROVE FreshInv'
    BY <1>12 DEF SignFails
  <1>13. ASSUME NEW p \in Procs, Create(p) PROVE FreshInv'
    BY <1>13 DEF Create
  <1>14. ASSUME NEW p \in Procs, CreateFails(p) PROVE FreshInv'
    BY <1>14 DEF CreateFails
  <1>15. ASSUME NEW p \in Procs, RevokeAllFails(p) PROVE FreshInv'
    BY <1>15 DEF RevokeAllFails
  <1> QED
    BY <1>1, <1>2, <1>3, <1>4, <1>5, <1>6, <1>7, <1>8, <1>9, <1>10, <1>11, <1>12,
       <1>13, <1>14, <1>15 DEF Next

\* refresh_store.go:37: a token that was signed once is accepted by Consume
\* at most once, for any number of concurrent requests, failures and restarts.
THEOREM UsedOnce == Spec => []ReuseOnlyIfResigned
  <1>1. FreshInv => ReuseOnlyIfResigned
    BY DEF FreshInv, ReuseOnlyIfResigned
  <1> QED
    BY <1>1, FreshInit, FreshStep, TypeCorrect, PTL DEF Spec

\* memory_refresh_store.go:38: a Create brings a revoked token back only if
\* that token was signed twice.
THEOREM RevokedStays == Spec => RevokedForever
  <1>1. FreshInv /\ TypeOK /\ [Next]_vars =>
          [\A t \in Tokens : rows[t] = "revoked" /\ rows'[t] = "active"
                            => t \in resigned]_vars
    <2> SUFFICES ASSUME FreshInv, TypeOK, Next, NEW t \in Tokens, rows[t] = "revoked",
                        t \notin resigned
                 PROVE  rows'[t] # "active"
      OBVIOUS
    <2>1. ASSUME NEW p \in Procs, Create(p) PROVE rows'[t] # "active"
      <3>1. new[p] # t
        BY <2>1 DEF FreshInv, Create
      <3> QED
        BY <2>1, <3>1 DEF Create, TypeOK
    <2>2. ASSUME NEW p \in Procs, ConsumeActive(p) \/ RevokeAll(p)
          PROVE rows'[t] # "active"
      BY <2>2 DEF ConsumeActive, RevokeAll, TypeOK
    <2>3. ASSUME NEW p \in Procs, NEW u \in held, Logout(p, u)
          PROVE rows'[t] # "active"
      BY <2>3 DEF Logout, TypeOK
    <2>4. CASE Restart
      BY <2>4 DEF Restart
    <2>5. CASE UNCHANGED rows
      BY <2>5
    <2> QED
      BY <2>1, <2>2, <2>3, <2>4, <2>5
      DEF Next, Tick, Login, RefreshToken, VerifyToken, ConsumeReused,
          ConsumeNotFound, RevokeAllFails, Sign, SignFails, CreateFails, store
  <1> QED
    BY <1>1, FreshInit, FreshStep, TypeCorrect, PTL DEF Spec, RevokedForever

-----------------------------------------------------------------------------
\* Seconds round down.
LEMMA DivBracket ==
  ASSUME NEW n \in Nat, NEW r \in Nat \ {0}
  PROVE  (n \div r) * r <= n /\ n < (n \div r + 1) * r
  OBVIOUS

Bracketed(t, e) == t.exp * Res <= e /\ e < (t.exp + 1) * Res

\* The bracket holds from the moment a token is signed.
ExpiryInv ==
    /\ \A t \in Tokens : rows[t] # "absent" => Bracketed(t, expiresAt[t])
    /\ \A p \in Procs : pc[p] = "create" => Bracketed(new[p], newExp[p])

\* A token signed now expires in the second of its deadline.
LEMMA SignedBracket ==
  ASSUME TypeOK, NEW c \in Subjects
  PROVE  Bracketed(Signed(c), now + TTL)
  <1>1. now + TTL \in Nat
    BY RefreshAssumption DEF TypeOK
  <1>2. Signed(c).exp = (now + TTL) \div Res
    BY DEF Signed
  <1> QED
    BY <1>1, <1>2, DivBracket, RefreshAssumption DEF Bracketed

\* Every step keeps it.
LEMMA ExpiryStep == ExpiryInv /\ TypeOK /\ [Next]_vars => ExpiryInv'
  <1> SUFFICES ASSUME ExpiryInv, TypeOK, [Next]_vars PROVE ExpiryInv'
    OBVIOUS
  <1> USE DEF ExpiryInv, TypeOK, store, locals, history, Goto, Return
  <1>1. CASE UNCHANGED vars
    BY <1>1 DEF vars
  <1>2. CASE Tick \/ Restart
    BY <1>2 DEF Tick, Restart
  <1>3. ASSUME NEW p \in Procs, NEW c \in Subjects, RefreshToken(p, c),
               UNCHANGED <<rows, expiresAt>>
        PROVE ExpiryInv'
    BY <1>3, SignedBracket DEF RefreshToken
  <1>4. ASSUME NEW p \in Procs, NEW t \in held, VerifyToken(p, t) \/ Logout(p, t)
        PROVE ExpiryInv'
    BY <1>4 DEF VerifyToken, Logout
  <1>5. ASSUME NEW p \in Procs,
               ConsumeActive(p) \/ ConsumeReused(p) \/ ConsumeNotFound(p)
        PROVE ExpiryInv'
    BY <1>5 DEF ConsumeActive, ConsumeReused, ConsumeNotFound
  <1>6. ASSUME NEW p \in Procs,
               RevokeAll(p) \/ RevokeAllFails(p) \/ SignFails(p) \/ CreateFails(p)
        PROVE ExpiryInv'
    BY <1>6 DEF RevokeAll, RevokeAllFails, SignFails, CreateFails
  <1>7. ASSUME NEW p \in Procs, Create(p) PROVE ExpiryInv'
    BY <1>7 DEF Create
  <1>8. ASSUME NEW p \in Procs, NEW c \in Subjects, Login(p, c) PROVE ExpiryInv'
    BY <1>3, <1>8 DEF Login
  <1>9. ASSUME NEW p \in Procs, Sign(p) PROVE ExpiryInv'
    <2>1. tok[p].claims \in Subjects
      BY <1>9 DEF Sign, Tokens
    <2> QED
      BY <1>3, <1>9, <2>1 DEF Sign
  <1> QED
    BY <1>1, <1>2, <1>4, <1>5, <1>6, <1>7, <1>8, <1>9 DEF Next

\* refresh_token.go:35-36: for every clock resolution and lifetime, a JWT's
\* expiry and its row's differ by less than a second and the JWT's is first.
THEOREM JwtFirst == Spec => []JwtExpiresFirst
  <1>1. Init => ExpiryInv
    BY DEF Init, ExpiryInv
  <1>2. ExpiryInv => JwtExpiresFirst
    BY DEF ExpiryInv, Bracketed, JwtExpiresFirst
  <1> QED
    BY <1>1, <1>2, ExpiryStep, TypeCorrect, PTL DEF Spec
-----------------------------------------------------------------------------
(***************************************************************************)
(* Rotation conserves sessions.  A session is an active row or a request   *)
(* that will create one; a step either loses sessions, or moves one from   *)
(* one of the two sets to the other, or is a login.  The sets are finite   *)
(* because they grow by one element a step, however many requests and      *)
(* tokens there are.                                                       *)
(***************************************************************************)
ActiveOf(c) == {t \in Tokens : t.claims = c /\ rows[t] = "active"}
WorkOf(c) == {p \in Procs : \/ pc[p] = "sign" /\ tok[p].claims = c
                            \/ pc[p] = "create" /\ new[p].claims = c}

\* The sessions of a client: its active tokens and the refreshes at work on one.
LEMMA SessionsAre == \A c : Sessions(c) = Cardinality(ActiveOf(c)) + Cardinality(WorkOf(c))
  BY DEF Sessions, ActiveOf, WorkOf

Loses(c) == ActiveOf(c)' \subseteq ActiveOf(c) /\ WorkOf(c)' \subseteq WorkOf(c)
Consumes(c) ==
    \E t \in ActiveOf(c), p \in Procs : /\ ActiveOf(c)' = ActiveOf(c) \ {t}
                                        /\ WorkOf(c)' = WorkOf(c) \cup {p}
Creates(c) ==
    \E p \in WorkOf(c), t \in Tokens : /\ ActiveOf(c)' = ActiveOf(c) \cup {t}
                                       /\ WorkOf(c)' = WorkOf(c) \ {p}
LogsIn(c) ==
    /\ ActiveOf(c)' = ActiveOf(c)
    /\ \E p \in Procs : WorkOf(c)' = WorkOf(c) \cup {p}
    /\ logins'[c] = logins[c] + 1 /\ c \notin shut'

\* What a step does to the sessions of one claim set.
LEMMA SessionSteps ==
    ASSUME TypeOK, [Next]_vars, NEW c \in Subjects
    PROVE  \/ logins'[c] = logins[c] /\ (Loses(c) \/ Consumes(c) \/ Creates(c))
           \/ LogsIn(c)
  <1> USE DEF ActiveOf, WorkOf
  <1>1. CASE UNCHANGED vars
    BY <1>1 DEF vars, store, locals, history, Loses
  <1>2. CASE Tick \/ Restart
    BY <1>2 DEF Tick, Restart, store, locals, history, Loses
  <1>3. ASSUME NEW p \in Procs, NEW d \in Subjects, Login(p, d)
        PROVE  (logins'[c] = logins[c] /\ Loses(c)) \/ LogsIn(c)
    <2>1. /\ rows' = rows /\ pc[p] = "idle" /\ pc' = [pc EXCEPT ![p] = "create"]
          /\ new' = [new EXCEPT ![p] = Signed(d)] /\ tok' = tok /\ Signed(d).claims = d
          /\ logins' = [logins EXCEPT ![d] = @ + 1] /\ shut' = shut \ {d}
      BY <1>3 DEF Login, RefreshToken, Goto, store, Signed
    <2>2. ActiveOf(c)' = ActiveOf(c)
      BY <2>1
    <2>3. CASE c = d
      <3>1. WorkOf(c)' = WorkOf(c) \cup {p}
        BY <2>1, <2>3 DEF TypeOK
      <3> QED
        BY <2>1, <2>2, <2>3, <3>1 DEF LogsIn, TypeOK
    <2>4. CASE c # d
      <3>1. WorkOf(c)' = WorkOf(c)
        BY <2>1, <2>4 DEF TypeOK
      <3> QED
        BY <2>1, <2>2, <2>4, <3>1 DEF Loses, TypeOK
    <2> QED
      BY <2>3, <2>4
  <1>4. ASSUME NEW p \in Procs, NEW t \in held, VerifyToken(p, t) \/ Logout(p, t)
        PROVE  logins'[c] = logins[c] /\ Loses(c)
    BY <1>4 DEF VerifyToken, Logout, Goto, store, locals, history, Loses, TypeOK
  <1>5. ASSUME NEW p \in Procs, ConsumeActive(p)
        PROVE  logins'[c] = logins[c] /\ (Loses(c) \/ Consumes(c))
    <2>1. /\ pc[p] = "consume" /\ tok[p] \in Tokens /\ rows[tok[p]] = "active"
          /\ rows' = [rows EXCEPT ![tok[p]] = "revoked"] /\ pc' = [pc EXCEPT ![p] = "sign"]
          /\ tok' = tok /\ new' = new /\ logins' = logins
      BY <1>5 DEF ConsumeActive, Goto, locals, TypeOK
    <2>2. CASE tok[p].claims = c
      <3>1. ActiveOf(c)' = ActiveOf(c) \ {tok[p]} /\ tok[p] \in ActiveOf(c)
        BY <2>1, <2>2 DEF TypeOK
      <3>2. WorkOf(c)' = WorkOf(c) \cup {p}
        BY <2>1, <2>2 DEF TypeOK
      <3> QED
        BY <2>1, <3>1, <3>2 DEF Consumes
    <2>3. CASE tok[p].claims # c
      BY <2>1, <2>3 DEF TypeOK, Loses
    <2> QED
      BY <2>2, <2>3
  <1>6. ASSUME NEW p \in Procs, ConsumeReused(p) \/ ConsumeNotFound(p)
        PROVE  logins'[c] = logins[c] /\ Loses(c)
    BY <1>6 DEF ConsumeReused, ConsumeNotFound, Return, Goto, store, locals, history, Loses,
                TypeOK
  <1>7. ASSUME NEW p \in Procs, RevokeAll(p) PROVE logins'[c] = logins[c] /\ Loses(c)
    BY <1>7 DEF RevokeAll, Return, Goto, Loses, TypeOK
  <1>8. ASSUME NEW p \in Procs, Sign(p) PROVE logins'[c] = logins[c] /\ Loses(c)
    <2>1. /\ pc[p] = "sign" /\ rows' = rows /\ pc' = [pc EXCEPT ![p] = "create"]
          /\ new' = [new EXCEPT ![p] = Signed(tok[p].claims)] /\ tok' = tok
          /\ Signed(tok[p].claims).claims = tok[p].claims /\ logins' = logins
      BY <1>8 DEF Sign, RefreshToken, Goto, store, Signed
    <2> QED
      BY <2>1 DEF Loses, TypeOK
  <1>9. ASSUME NEW p \in Procs, RevokeAllFails(p) \/ SignFails(p) \/ CreateFails(p)
        PROVE  logins'[c] = logins[c] /\ Loses(c)
    BY <1>9 DEF RevokeAllFails, SignFails, CreateFails, Return, Goto, store, history, Loses,
                TypeOK
  <1>10. ASSUME NEW p \in Procs, Create(p)
         PROVE  logins'[c] = logins[c] /\ (Loses(c) \/ Creates(c))
    <2>1. /\ pc[p] = "create" /\ new[p] \in Tokens /\ logins' = logins
          /\ rows' = [rows EXCEPT ![new[p]] = "active"] /\ pc' = [pc EXCEPT ![p] = "idle"]
          /\ tok' = [tok EXCEPT ![p] = NoToken] /\ new' = [new EXCEPT ![p] = NoToken]
      BY <1>10 DEF Create, Return, Goto, history, TypeOK
    <2>2. CASE new[p].claims = c
      <3>1. ActiveOf(c)' = ActiveOf(c) \cup {new[p]}
        BY <2>1, <2>2 DEF TypeOK
      <3>2. WorkOf(c)' = WorkOf(c) \ {p} /\ p \in WorkOf(c)
        BY <2>1, <2>2 DEF TypeOK
      <3> QED
        BY <2>1, <3>1, <3>2 DEF Creates
    <2>3. CASE new[p].claims # c
      BY <2>1, <2>3 DEF TypeOK, Loses
    <2> QED
      BY <2>2, <2>3
  <1> QED
    BY <1>1, <1>2, <1>3, <1>4, <1>5, <1>6, <1>7, <1>8, <1>9, <1>10 DEF Next

\* Each of these steps counted: only a login adds a session.
LEMMA SessionCount ==
    ASSUME TypeOK, [Next]_vars, NEW c \in Subjects,
           IsFiniteSet(ActiveOf(c)), IsFiniteSet(WorkOf(c))
    PROVE  /\ IsFiniteSet(ActiveOf(c)') /\ IsFiniteSet(WorkOf(c)')
           /\ Sessions(c) \in Nat /\ Sessions(c)' \in Nat
           /\ \/ logins'[c] = logins[c] /\ Sessions(c)' <= Sessions(c)
              \/ /\ logins'[c] = logins[c] + 1 /\ Sessions(c)' <= Sessions(c) + 1
                 /\ c \notin shut'
  <1> DEFINE A == ActiveOf(c)
             W == WorkOf(c)
             B == ActiveOf(c)'
             V == WorkOf(c)'
  <1>1. Sessions(c) = Cardinality(A) + Cardinality(W) /\ Sessions(c)' = Cardinality(B) + Cardinality(V)
    BY DEF Sessions, ActiveOf, WorkOf
  <1>2. Cardinality(A) \in Nat /\ Cardinality(W) \in Nat
    BY FS_CardinalityType
  <1> SUFFICES /\ IsFiniteSet(B) /\ IsFiniteSet(V)
               /\ Cardinality(B) \in Nat /\ Cardinality(V) \in Nat
               /\ \/ /\ logins'[c] = logins[c]
                     /\ Cardinality(B) + Cardinality(V) <= Cardinality(A) + Cardinality(W)
                  \/ /\ logins'[c] = logins[c] + 1 /\ c \notin shut'
                     /\ Cardinality(B) + Cardinality(V) <= Cardinality(A) + Cardinality(W) + 1
    BY <1>1, <1>2
  <1>3. CASE logins'[c] = logins[c] /\ Loses(c)
    <2>1. B \in SUBSET A /\ V \in SUBSET W
      BY <1>3 DEF Loses
    <2>2. /\ IsFiniteSet(B) /\ IsFiniteSet(V)
          /\ Cardinality(B) <= Cardinality(A) /\ Cardinality(V) <= Cardinality(W)
      BY <2>1, FS_Subset
    <2>3. Cardinality(B) \in Nat /\ Cardinality(V) \in Nat
      BY <2>2, FS_CardinalityType
    <2> QED
      BY <1>2, <1>3, <2>2, <2>3
  <1>4. CASE logins'[c] = logins[c] /\ Consumes(c)
    <2>1. PICK t \in A, p \in Procs : B = A \ {t} /\ V = W \cup {p}
      BY <1>4 DEF Consumes
    <2>2. IsFiniteSet(B) /\ Cardinality(B) = Cardinality(A) - 1
      BY <2>1, FS_RemoveElement
    <2>3. /\ IsFiniteSet(V)
          /\ Cardinality(V) = IF p \in W THEN Cardinality(W) ELSE Cardinality(W) + 1
      BY <2>1, FS_AddElement
    <2>4. Cardinality(B) \in Nat /\ Cardinality(V) \in Nat
      BY <2>2, <2>3, FS_CardinalityType
    <2> QED
      BY <1>2, <1>4, <2>2, <2>3, <2>4
  <1>5. CASE logins'[c] = logins[c] /\ Creates(c)
    <2>1. PICK p \in W, t \in Tokens : B = A \cup {t} /\ V = W \ {p}
      BY <1>5 DEF Creates
    <2>2. IsFiniteSet(V) /\ Cardinality(V) = Cardinality(W) - 1
      BY <2>1, FS_RemoveElement
    <2>3. /\ IsFiniteSet(B)
          /\ Cardinality(B) = IF t \in A THEN Cardinality(A) ELSE Cardinality(A) + 1
      BY <2>1, FS_AddElement
    <2>4. Cardinality(B) \in Nat /\ Cardinality(V) \in Nat
      BY <2>2, <2>3, FS_CardinalityType
    <2> QED
      BY <1>2, <1>5, <2>2, <2>3, <2>4
  <1>6. CASE LogsIn(c)
    <2>1. PICK p \in Procs : B = A /\ V = W \cup {p}
      BY <1>6 DEF LogsIn
    <2>2. IsFiniteSet(B) /\ Cardinality(B) = Cardinality(A)
      BY <2>1
    <2>3. /\ IsFiniteSet(V)
          /\ Cardinality(V) = IF p \in W THEN Cardinality(W) ELSE Cardinality(W) + 1
      BY <2>1, FS_AddElement
    <2>4. Cardinality(B) \in Nat /\ Cardinality(V) \in Nat
      BY <2>2, <2>3, FS_CardinalityType
    <2> QED
      BY <1>2, <1>6, <2>2, <2>3, <2>4 DEF LogsIn
  <1> QED
    BY <1>3, <1>4, <1>5, <1>6, SessionSteps

SessionInv ==
    \A c \in Subjects : /\ IsFiniteSet(ActiveOf(c)) /\ IsFiniteSet(WorkOf(c))
                        /\ Sessions(c) \in Nat /\ Sessions(c) <= logins[c]

\* It holds at first.
LEMMA SessionInit == Init => SessionInv
  <1> SUFFICES ASSUME Init, NEW c \in Subjects
               PROVE  /\ IsFiniteSet(ActiveOf(c)) /\ IsFiniteSet(WorkOf(c))
                      /\ Sessions(c) \in Nat /\ Sessions(c) <= logins[c]
    BY DEF SessionInv
  <1>1. ActiveOf(c) = {} /\ WorkOf(c) = {} /\ logins[c] = 0
    BY DEF Init, ActiveOf, WorkOf
  <1>2. Sessions(c) = 0
    BY <1>1, FS_EmptySet, SessionsAre
  <1> QED
    BY <1>1, <1>2, FS_EmptySet

\* Every step keeps it.
LEMMA SessionStep == SessionInv /\ TypeOK /\ [Next]_vars => SessionInv'
  <1> SUFFICES ASSUME SessionInv, TypeOK, [Next]_vars, NEW c \in Subjects
               PROVE  /\ IsFiniteSet(ActiveOf(c)') /\ IsFiniteSet(WorkOf(c)')
                      /\ Sessions(c)' \in Nat /\ Sessions(c)' <= logins'[c]
    BY DEF SessionInv
  <1>1. /\ IsFiniteSet(ActiveOf(c)) /\ IsFiniteSet(WorkOf(c))
        /\ Sessions(c) <= logins[c] /\ logins[c] \in Nat
    BY DEF SessionInv, TypeOK
  <1>2. /\ IsFiniteSet(ActiveOf(c)') /\ IsFiniteSet(WorkOf(c)')
        /\ Sessions(c) \in Nat /\ Sessions(c)' \in Nat
        /\ \/ logins'[c] = logins[c] /\ Sessions(c)' <= Sessions(c)
           \/ logins'[c] = logins[c] + 1 /\ Sessions(c)' <= Sessions(c) + 1
    BY <1>1, SessionCount
  <1> QED
    BY <1>1, <1>2

\* refresh_rotate.go: for any number of requests and tokens, the sessions of a
\* claim set never outnumber its logins; no interleaving of the separate store
\* calls of a rotation turns one session into two.
THEOREM SessionsConserved == Spec => []SessionsBounded
  <1>1. SessionInv => SessionsBounded
    BY DEF SessionInv, SessionsBounded
  <1> QED
    BY <1>1, SessionInit, SessionStep, TypeCorrect, PTL DEF Spec

\* refresh_rotate.go:16-25: a lockout leaves no active row that its claims
\* match, and until the next login the sessions of the claim set only become
\* fewer, whatever requests were under way.
THEOREM LockoutHolds == Spec => LockoutBounded
  <1>1. SessionInv /\ TypeOK /\ [Next]_vars =>
          [\A c \in shut' :
             /\ c \notin shut => \A t \in Tokens : c \subseteq t.claims => rows'[t] # "active"
             /\ Sessions(c)' <= Sessions(c)]_vars
    <2> SUFFICES ASSUME SessionInv, TypeOK, Next, NEW c \in shut'
                 PROVE  /\ c \notin shut =>
                              \A t \in Tokens : c \subseteq t.claims => rows'[t] # "active"
                        /\ Sessions(c)' <= Sessions(c)
      OBVIOUS
    <2>1. c \in Subjects
      BY NextType DEF TypeOK
    <2>2. Sessions(c)' <= Sessions(c)
      BY <2>1, SessionCount DEF SessionInv
    <2>3. ASSUME c \notin shut, NEW t \in Tokens, c \subseteq t.claims
          PROVE  rows'[t] # "active"
      <3>1. PICK p \in Procs : RevokeAll(p)
        BY <2>3 DEF Next, Tick, Restart, Login, VerifyToken, Logout, ConsumeActive,
                    ConsumeReused, ConsumeNotFound, RevokeAllFails, Sign, SignFails, Create,
                    CreateFails, history
      <3>2. c = tok[p].claims
        BY <2>3, <3>1 DEF RevokeAll
      <3> QED
        BY <2>3, <3>1, <3>2 DEF RevokeAll, TypeOK
    <2> QED
      BY <2>2, <2>3
  <1> QED
    BY <1>1, SessionInit, SessionStep, TypeCorrect, PTL DEF Spec, LockoutBounded
=============================================================================
