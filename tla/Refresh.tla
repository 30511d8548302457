------------------------------ MODULE Refresh ------------------------------
(***************************************************************************)
(* pkg/auth: one-time-use refresh tokens.  Request goroutines log in,      *)
(* rotate and log out against one RefreshStore; the store's methods are    *)
(* atomic (memory_refresh_store.go holds its mutex), RefreshRotate is a    *)
(* sequence of them.  Time is a clock with Res ticks to the second: a JWT  *)
(* carries its expiry in whole seconds (refresh_token.go:36) and HS256     *)
(* signing is deterministic, so a token IS its claims and that second.     *)
(***************************************************************************)
EXTENDS Naturals, FiniteSets

CONSTANTS
    Procs,      \* request goroutines
    Subjects,   \* claim sets, each a set of key/value pairs
    Res,        \* clock ticks per second
    TTL,        \* Config.RefreshTTL in ticks
    MaxNow,     \* bound: the clock
    MaxLogins   \* bound: logins of one claim set

ASSUME RefreshAssumption ==
    /\ Res \in Nat \ {0} /\ TTL \in Nat \ {0}
    /\ MaxNow \in Nat /\ MaxLogins \in Nat

Times == 0 .. MaxNow + TTL
Tokens == [claims : Subjects, exp : Times]
NoToken == [claims |-> {}, exp |-> 0]
States == {"absent", "active", "revoked"}
PC == {"idle", "consume", "lockout", "sign", "create"}

VARIABLES
    now,        \* time.Now(), in ticks
    rows,       \* memoryRefreshStore.rows: state of each token's row
    expiresAt,  \* expires_at of each row, in ticks
    held,       \* tokens that were returned to a client
    pc,         \* where each request is
    tok,        \* RefreshRotate: the token presented
    new,        \* the token just signed
    newExp,     \* and its ExpiresAt
    signed,     \* history: tokens ever signed
    resigned,   \* history: tokens signed more than once
    spent,      \* history: tokens Consume accepted
    respent,    \* history: tokens Consume accepted more than once
    logins,     \* history: logins so far, per claim set
    shut        \* history: claim sets locked out since their last login

store == <<rows, expiresAt>>
locals == <<tok, new, newExp>>
history == <<signed, resigned, spent, respent, logins, shut>>
vars == <<now, store, held, pc, locals, history>>

Goto(p, l) == pc' = [pc EXCEPT ![p] = l]

\* The request returns and its locals are gone.
Return(p) ==
    /\ Goto(p, "idle")
    /\ tok' = [tok EXCEPT ![p] = NoToken]
    /\ new' = [new EXCEPT ![p] = NoToken]
    /\ newExp' = [newExp EXCEPT ![p] = 0]

Init ==
    /\ now = 0
    /\ rows = [t \in Tokens |-> "absent"] /\ expiresAt = [t \in Tokens |-> 0]
    /\ held = {}
    /\ pc = [p \in Procs |-> "idle"]
    /\ tok = [p \in Procs |-> NoToken] /\ new = [p \in Procs |-> NoToken]
    /\ newExp = [p \in Procs |-> 0]
    /\ signed = {} /\ resigned = {} /\ spent = {} /\ respent = {} /\ shut = {}
    /\ logins = [c \in Subjects |-> 0]

Tick ==
    /\ now < MaxNow
    /\ now' = now + 1
    /\ UNCHANGED <<store, held, pc, locals, history>>

-----------------------------------------------------------------------------
(* refresh_token.go: exp := time.Now().Add(RefreshTTL), claims["exp"] in   *)
(* seconds, the response's ExpiresAt at full precision.                    *)
\* Mutant: the second is rounded up.
SignedRoundsUp(c) == [claims |-> c, exp |-> (now + TTL + Res - 1) \div Res]

Signed(c) == [claims |-> c, exp |-> (now + TTL) \div Res]

RefreshToken(p, c) ==
    /\ new' = [new EXCEPT ![p] = Signed(c)]
    /\ newExp' = [newExp EXCEPT ![p] = now + TTL]
    /\ signed' = signed \cup {Signed(c)}
    /\ resigned' = resigned \cup ({Signed(c)} \cap signed)
    /\ Goto(p, "create")

\* A login handler: auth.RefreshToken, then auth.CreateRefresh.
Login(p, c) ==
    /\ pc[p] = "idle"
    /\ logins[c] < MaxLogins
    /\ RefreshToken(p, c)
    /\ logins' = [logins EXCEPT ![c] = @ + 1]
    /\ shut' = shut \ {c}
    /\ UNCHANGED <<now, store, held, tok, spent, respent>>

\* RefreshRotate step 1, VerifyToken: a JWT is valid before its exp second.
\* Empty and invalid tokens return an error and change nothing.
VerifyToken(p, t) ==
    /\ pc[p] = "idle"
    /\ now < t.exp * Res
    /\ tok' = [tok EXCEPT ![p] = t]
    /\ Goto(p, "consume")
    /\ UNCHANGED <<now, store, held, new, newExp, history>>

\* Mutants: Consume leaves the row active; the rotation goes on without a new
\* token.
ConsumeActiveKeepsRow(p) ==
    LET t == tok[p] IN
    /\ pc[p] = "consume" /\ rows[t] = "active" /\ now <= expiresAt[t]
    /\ spent' = spent \cup {t}
    /\ respent' = respent \cup ({t} \cap spent)
    /\ Goto(p, "sign")
    /\ UNCHANGED <<now, store, held, locals, signed, resigned, logins, shut>>
ConsumeActiveSkipsSign(p) ==
    /\ pc[p] = "consume" /\ rows[tok[p]] = "active"
    /\ Goto(p, "create")
    /\ UNCHANGED <<now, store, held, locals, history>>

\* Step 2, store.Consume: revoke an active, unexpired row.
ConsumeActive(p) ==
    LET t == tok[p] IN
    /\ pc[p] = "consume"
    /\ rows[t] = "active" /\ now <= expiresAt[t]
    /\ rows' = [rows EXCEPT ![t] = "revoked"]
    /\ spent' = spent \cup {t}
    /\ respent' = respent \cup ({t} \cap spent)
    /\ Goto(p, "sign")
    /\ UNCHANGED <<now, expiresAt, held, locals, signed, resigned, logins, shut>>

\* ErrRefreshTokenReused: with detectReuseLogoutAll, an argument of the call,
\* and claims, lock out.
ConsumeReused(p) ==
    LET t == tok[p] IN
    /\ pc[p] = "consume"
    /\ rows[t] = "revoked"
    /\ \E detectReuseLogoutAll \in BOOLEAN :
          IF detectReuseLogoutAll /\ t.claims # {}
          THEN Goto(p, "lockout") /\ UNCHANGED locals
          ELSE Return(p)
    /\ UNCHANGED <<now, store, held, history>>

\* ErrRefreshTokenNotFound: no row, or an expired one.
ConsumeNotFound(p) ==
    LET t == tok[p] IN
    /\ pc[p] = "consume"
    /\ rows[t] = "absent" \/ (rows[t] = "active" /\ now > expiresAt[t])
    /\ Return(p)
    /\ UNCHANGED <<now, store, held, history>>

\* Mutant: the token's exp is matched as if it were a claim.
RevokeAllWithExp(p) ==
    LET matcher == tok[p].claims IN
    /\ pc[p] = "lockout"
    /\ rows' = [t \in Tokens |->
          IF rows[t] = "active" /\ matcher \subseteq t.claims /\ t.exp = tok[p].exp
          THEN "revoked" ELSE rows[t]]
    /\ shut' = shut \cup {matcher}
    /\ Return(p)
    /\ UNCHANGED <<now, expiresAt, held, signed, resigned, spent, respent, logins>>

\* store.RevokeAll(claims): every active row whose claims contain the matcher;
\* then RefreshRotate returns the reuse error.
RevokeAll(p) ==
    LET matcher == tok[p].claims IN
    /\ pc[p] = "lockout"
    /\ rows' = [t \in Tokens |->
          IF rows[t] = "active" /\ matcher \subseteq t.claims
          THEN "revoked" ELSE rows[t]]
    /\ shut' = shut \cup {matcher}
    /\ Return(p)
    /\ UNCHANGED <<now, expiresAt, held, signed, resigned, spent, respent, logins>>

\* store.RevokeAll returns an error, which is dropped (refresh_rotate.go:58):
\* the reuse error goes out, and the family stays active.
RevokeAllFails(p) ==
    /\ pc[p] = "lockout"
    /\ Return(p)
    /\ UNCHANGED <<now, store, held, history>>

\* Step 3, IssueToken and RefreshToken with the consumed row's claims; an
\* unset secret or TTL ends the rotation with the old token already consumed.
Sign(p) ==
    /\ pc[p] = "sign"
    /\ RefreshToken(p, tok[p].claims)
    /\ UNCHANGED <<now, store, held, tok, spent, respent, logins, shut>>

\* Mutant: the failed rotation gives the old token back.
SignFailsRestores(p) ==
    /\ pc[p] = "sign"
    /\ rows' = [rows EXCEPT ![tok[p]] = "active"]
    /\ Return(p)
    /\ UNCHANGED <<now, expiresAt, held, history>>

SignFails(p) ==
    /\ pc[p] = "sign"
    /\ Return(p)
    /\ UNCHANGED <<now, store, held, history>>

\* Step 4 and CreateRefresh, store.Create: the row is written whole, active,
\* over whatever row the token had; the token goes to the client.
Create(p) ==
    /\ pc[p] = "create"
    /\ rows' = [rows EXCEPT ![new[p]] = "active"]
    /\ expiresAt' = [expiresAt EXCEPT ![new[p]] = newExp[p]]
    /\ held' = held \cup {new[p]}
    /\ Return(p)
    /\ UNCHANGED <<now, history>>

\* store.Create returns an error.
CreateFails(p) ==
    /\ pc[p] = "create"
    /\ Return(p)
    /\ UNCHANGED <<now, store, held, history>>

\* logout.go: store.Revoke, a no-op on a row that is not active.
Logout(p, t) ==
    /\ pc[p] = "idle"
    /\ rows[t] = "active"
    /\ rows' = [rows EXCEPT ![t] = "revoked"]
    /\ UNCHANGED <<now, expiresAt, held, pc, locals, history>>

\* The process restarts: the memory store and every request in flight are
\* gone, the clients keep their tokens.
Restart ==
    /\ rows' = [t \in Tokens |-> "absent"] /\ expiresAt' = [t \in Tokens |-> 0]
    /\ pc' = [p \in Procs |-> "idle"]
    /\ tok' = [p \in Procs |-> NoToken] /\ new' = [p \in Procs |-> NoToken]
    /\ newExp' = [p \in Procs |-> 0]
    /\ UNCHANGED <<now, held, history>>

Next ==
    \/ Tick \/ Restart
    \/ \E p \in Procs :
        \/ \E c \in Subjects : Login(p, c)
        \/ \E t \in held : VerifyToken(p, t) \/ Logout(p, t)
        \/ ConsumeActive(p) \/ ConsumeReused(p) \/ ConsumeNotFound(p)
        \/ RevokeAll(p) \/ RevokeAllFails(p)
        \/ Sign(p) \/ SignFails(p) \/ Create(p) \/ CreateFails(p)

Spec == Init /\ [][Next]_vars

-----------------------------------------------------------------------------
\* Values of the store, the clock and each request's locals.
TypeOK ==
    /\ now \in 0 .. MaxNow
    /\ rows \in [Tokens -> States] /\ expiresAt \in [Tokens -> Times]
    /\ held \in SUBSET Tokens
    /\ pc \in [Procs -> PC]
    /\ tok \in [Procs -> Tokens \cup {NoToken}]
    /\ new \in [Procs -> Tokens \cup {NoToken}]
    /\ newExp \in [Procs -> Times]
    /\ \A p \in Procs :
          /\ pc[p] \in {"consume", "lockout", "sign"} => tok[p] \in Tokens
          /\ pc[p] = "create" => new[p] \in Tokens
    /\ signed \in SUBSET Tokens /\ resigned \in SUBSET Tokens
    /\ spent \in SUBSET Tokens /\ respent \in SUBSET Tokens
    /\ logins \in [Subjects -> Nat] /\ shut \in SUBSET Subjects

\* Only a token that was signed twice, that is, for equal claims within one
\* second, can be accepted by Consume twice, whatever requests, failures and
\* restarts interleave ...
ReuseOnlyIfResigned == respent \subseteq resigned

\* ... and only such a token's row, once Consume, Logout or RevokeAll revoked
\* it, becomes active again: no other Create (memory_refresh_store.go:38)
\* lands on a revoked row.
RevokedForever ==
    [][\A t \in Tokens :
          rows[t] = "revoked" /\ rows'[t] = "active" => t \in resigned]_vars

\* The sessions of a claim set: its active tokens, and the requests that will
\* create one.
Sessions(c) ==
    Cardinality({t \in Tokens : t.claims = c /\ rows[t] = "active"})
    + Cardinality({p \in Procs : \/ pc[p] = "sign" /\ tok[p].claims = c
                                 \/ pc[p] = "create" /\ new[p].claims = c})

\* Rotation conserves sessions: they never outnumber the logins, so no
\* interleaving of Consume and Create turns one login into two sessions.
SessionsBounded == \A c \in Subjects : Sessions(c) <= logins[c]

\* The JWT of a token expires no later than its row and less than a second
\* before it (seconds against full precision, refresh_token.go:35-36), so a
\* token that verifies is refused as expired by Consume (line 56) only if
\* time passed in between.
JwtExpiresFirst ==
    \A t \in Tokens : rows[t] # "absent" =>
        t.exp * Res <= expiresAt[t] /\ expiresAt[t] < (t.exp + 1) * Res

\* "every active token sharing the same claim set is revoked before the error
\* propagates" (refresh_rotate.go:16-25), as far as separate store calls allow:
\* a lockout leaves no active row that its claims match, and until the next
\* login the sessions of the claim set only become fewer.  So the ones that are
\* active after it are the rotations and logins that were between their Consume
\* or signature and their Create when it happened, at most one each.  A
\* lockout whose RevokeAll failed is none: its error is dropped (line 58).
LockoutBounded ==
    [][\A c \in shut' :
          /\ c \notin shut => \A t \in Tokens : c \subseteq t.claims => rows'[t] # "active"
          /\ Sessions(c)' <= Sessions(c)]_vars
=============================================================================
