------------------------------ MODULE Handler ------------------------------
(***************************************************************************)
(* One call of a generated function: a function that compiled runs the     *)
(* body Codegen emitted, statement by statement, against a database        *)
(* transaction, other services and a client.  Every call may fail, a read  *)
(* may find no row, and the process may die between two statements.        *)
(***************************************************************************)
EXTENDS Codegen

VARIABLES
    run,        \* off, on or over
    ip,         \* next statement of body
    tx,         \* none, open, committed or aborted
    env,        \* result variables: nil or row
    pending,    \* writes made in the open transaction, by sequence index
    durable,    \* writes the database keeps
    replies,    \* what the client got, or what a subscriber returned
    outcome,    \* none, ok, error, panic or crash
    source,     \* history: model that the @get of each variable read,
    stale,      \*   whether a put or delete of it came later,
    published   \*   and the @publish sequences whose message is out

db == <<tx, pending, durable>>
history == <<source, stale, published>>
callVars == <<run, ip, db, env, replies, outcome, history>>
vars == <<genVars, callVars>>

HandlerInit ==
    /\ Init
    /\ run = "off" /\ ip = 1 /\ tx = "none"
    /\ env = [v \in Vars |-> "nil"]
    /\ pending = {} /\ durable = {}
    /\ replies = <<>> /\ outcome = "none"
    /\ source = [v \in Vars |-> None] /\ stale = {} /\ published = {}

Start ==
    /\ stage = "done" /\ faults = {} /\ run = "off"
    /\ run' = "on"
    /\ UNCHANGED <<genVars, ip, db, env, replies, outcome, history>>

\* The next statement, and the sequence it came from.
Executing(ops) == run = "on" /\ ip <= Len(body) /\ body[ip].op \in ops
Seqn == f.seqs[body[ip].seq]

\* A reference that takes a field panics through a nil result: an input, the
\* target of a guard or of a response, a field of a response.  A reserved
\* source (currentUser, message) is a variable of the handler's, never nil.
Derefs == Seqn.members \cap (Vars \ reservedSources)
NilDeref == \E v \in Derefs : env[v] = "nil"

\* The function returns; defer tx.Rollback() undoes an open transaction.
Return(how) ==
    /\ run' = "over" /\ outcome' = how
    /\ tx' = IF tx = "open" THEN "aborted" ELSE tx
    /\ pending' = {}
    /\ UNCHANGED <<genVars, ip, durable, env, history>>

\* Mutant: the template forgets the return.
ReturnErrorFallsThrough ==
    /\ replies' = Append(replies, "error")
    /\ ip' = ip + 1
    /\ UNCHANGED <<genVars, run, outcome, db, env, history>>

\* c.JSON(status, error) and return, or return an error.
ReturnError ==
    /\ Return("error")
    /\ replies' = Append(replies, "error")

Step ==
    /\ ip' = ip + 1
    /\ UNCHANGED <<genVars, run, outcome>>

-----------------------------------------------------------------------------
\* Path parameter conversion, ShouldBindJSON or query parsing.
Bind ==
    /\ Executing({"bind"})
    /\ \/ Step /\ UNCHANGED <<db, env, replies, history>>
       \/ ReturnError

BeginTx ==
    /\ Executing({"begin"})
    /\ \/ Step /\ tx' = "open" /\ UNCHANGED <<pending, durable, env, replies, history>>
       \/ ReturnError

\* A statement that calls out: its arguments are evaluated, it may fail, and
\* a model call on a transaction that is over always fails.
CallOut(ops, effect) ==
    /\ Executing(ops) /\ ~NilDeref
    /\ \/ /\ body[ip].op \in ModelTypes => tx \in {"none", "open"}
          /\ effect
          /\ Step /\ UNCHANGED <<tx, durable, replies>>
       \/ ReturnError

\* Mutant: a missing row is not turned into nil.
BindResultNoRows(v, found) ==
    /\ env' = [env EXCEPT ![v] = IF found THEN "row" ELSE "no rows"]
    /\ UNCHANGED <<source, stale>>

BindResult(v, found) ==
    /\ env' = [env EXCEPT ![v] = IF found THEN "row" ELSE "nil"]
    /\ source' = [source EXCEPT ![v] = IF Seqn.type = "get" THEN Seqn.model ELSE None]
    /\ stale' = stale \ {v}

\* A single row may be missing; a list or a page is never nil.
Get ==
    CallOut({"get"}, /\ \E found \in BOOLEAN :
                           /\ Seqn.shape # "one" => found
                           /\ BindResult(Seqn.result, found)
                     /\ UNCHANGED <<pending, published>>)

Post ==
    CallOut({"post"}, /\ BindResult(Seqn.result, TRUE)
                      /\ pending' = pending \cup {body[ip].seq}
                      /\ UNCHANGED published)

PutOrDelete ==
    CallOut({"put", "delete"}, /\ pending' = pending \cup {body[ip].seq}
                               /\ stale' = stale \cup {v \in Vars : source[v] = Seqn.model}
                               /\ UNCHANGED <<env, source, published>>)

\* Mutant: the template of @publish drops the error.
OtherDropsError ==
    \/ CallOut({"call", "auth", "state", "publish"},
               /\ IF Seqn.result # None THEN BindResult(Seqn.result, TRUE)
                                        ELSE UNCHANGED <<env, source, stale>>
               /\ published' = published \cup If(body[ip].op = "publish", {body[ip].seq})
               /\ UNCHANGED pending)
    \/ Executing({"publish"}) /\ Step /\ UNCHANGED <<db, env, replies, history>>

\* @call outside the transaction, @auth, @state; @publish, which is not part of
\* the transaction either: queue.Publish hands the message over at once.
Other ==
    CallOut({"call", "auth", "state", "publish"},
            /\ IF Seqn.result # None THEN BindResult(Seqn.result, TRUE)
                                     ELSE UNCHANGED <<env, source, stale>>
            /\ published' = published \cup If(body[ip].op = "publish", {body[ip].seq})
            /\ UNCHANGED pending)

\* Any statement, after Commit too; gin's recovery answers 500.
Panic ==
    /\ Executing(SeqTypes) /\ NilDeref
    /\ Return("panic")
    /\ replies' = Append(replies, "error")

\* What the guard finds: the variable is nil or not; a field of a row that is
\* there may have either value.  currentUser and message are never nil.
TargetNil ==
    IF Seqn.target \in Seqn.members THEN BOOLEAN
    ELSE {Seqn.target \in Vars \ reservedSources /\ env[Seqn.target] = "nil"}

\* Mutant: the checks of zeroValueChecks the wrong way round.
GuardSwapped ==
    /\ Executing({"empty", "exists"}) /\ ~NilDeref
    /\ \E isNil \in TargetNil :
          \/ isNil # (body[ip].op = "empty") /\ ReturnError
          \/ /\ isNil = (body[ip].op = "empty")
             /\ Step /\ UNCHANGED <<db, env, replies, history>>

Guard ==
    /\ Executing({"empty", "exists"}) /\ ~NilDeref
    /\ \E isNil \in TargetNil :
          \/ isNil = (body[ip].op = "empty") /\ ReturnError
          \/ /\ isNil # (body[ip].op = "empty")
             /\ Step /\ UNCHANGED <<db, env, replies, history>>

CommitTx ==
    /\ Executing({"commit"})
    /\ \/ /\ tx' = "committed" /\ durable' = durable \cup pending /\ pending' = {}
          /\ Step /\ UNCHANGED <<env, replies, history>>
       \/ ReturnError

\* c.JSON(200, ...) does not return: the statements after it still run.
Respond ==
    /\ Executing({"response"}) /\ ~NilDeref
    /\ replies' = Append(replies, "ok")
    /\ Step /\ UNCHANGED <<db, env, history>>

\* The end of the body: a subscriber returns nil.
Finish ==
    /\ run = "on" /\ ip > Len(body)
    /\ Return("ok")
    /\ replies' = IF f.subscribe THEN Append(replies, "ok") ELSE replies

\* The process dies; the database drops an open transaction.
Crash ==
    /\ run = "on"
    /\ Return("crash")
    /\ UNCHANGED replies

Execute ==
    \/ Bind \/ BeginTx \/ Get \/ Post \/ PutOrDelete \/ Other \/ Panic \/ Guard
    \/ CommitTx \/ Respond \/ Finish \/ Crash

\* The call is over, or the function was rejected or did not compile.
HandlerDone ==
    /\ run = "over" \/ stage = "rejected" \/ (stage = "done" /\ faults # {})
    /\ UNCHANGED vars

HandlerNext ==
    \/ GenNext /\ UNCHANGED callVars
    \/ Start \/ Execute \/ HandlerDone

HandlerSpec == HandlerInit /\ [][HandlerNext]_vars

-----------------------------------------------------------------------------
\* Values of the call's variables.
HandlerTypeOK ==
    /\ run \in {"off", "on", "over"}
    /\ ip \in 1 .. Len(body) + 1
    /\ tx \in {"none", "open", "committed", "aborted"}
    /\ env \in [Vars -> {"nil", "row"}]
    /\ pending \cup durable \cup published \subseteq DOMAIN f.seqs
    /\ replies \in Seq({"ok", "error"})
    /\ outcome \in {"none", "ok", "error", "panic", "crash"}
    /\ source \in [Vars -> Models \cup {None}] /\ stale \subseteq Vars

WriteSeqs == {k \in DOMAIN f.seqs : f.seqs[k].type \in WriteTypes}

\* "자동 트랜잭션 래핑" (Phase032): with the response last, the writes of a
\* call are durable all together or not at all, whatever fails or crashes; a
\* call that returns an error left none of them, one that answers ok left all.
\* A panic leaves none of them, except in the response itself, which comes
\* after Commit: the client then gets a 500 for a call whose writes all stay.
AllOrNothing ==
    ResponseLast(f) =>
        /\ durable \in {{}, WriteSeqs}
        /\ outcome = "error" => durable = {}
        /\ outcome = "ok" => durable = WriteSeqs
        /\ outcome = "panic" =>
              durable = IF body[ip].op = "response" THEN WriteSeqs ELSE {}

PublishSeqs == {k \in DOMAIN f.seqs : f.seqs[k].type = "publish"}

\* @publish and the writes (pkg/queue/README.md:128 calls them atomic, of code
\* that uses PublishTx; go_templates.go:86 uses Publish): with the response
\* last, no write stays and no call answers ok without every message of the
\* function being out.  The other direction does not hold: a message is out
\* before Commit and stays out when the writes are undone.
MessagesKept ==
    ResponseLast(f) /\ (durable # {} \/ outcome = "ok") => published = PublishSeqs

\* With the response last a client never gets two bodies, and a call of a
\* function with a response that was not cut off gets exactly one.
OneReply ==
    ResponseLast(f) =>
        /\ Len(replies) <= 1
        /\ run = "over" /\ outcome # "crash" /\ Has(f, {"response"}) => Len(replies) = 1

\* For every accepted function: nothing becomes durable after the client has
\* been answered, and nothing is made durable in two parts.
DurableBeforeReply ==
    [][durable' # durable => replies = <<>> /\ durable = {}]_vars

Binds(j, v) == f.seqs[j].result = v
\* Between the last binding of v before k and k stands an @empty on v, or a
\* statement that takes a field of v itself.
CheckedAt(k, v) ==
    \E j \in 1 .. k - 1 : /\ \/ f.seqs[j].type = "empty" /\ f.seqs[j].target = v
                             \/ v \in f.seqs[j].members
                          /\ \A n \in j .. k - 1 : ~Binds(n, v)
\* An @exists on v does, which lets the call go on only without a row.
AbsentAt(k, v) ==
    \E j \in 1 .. k - 1 : /\ f.seqs[j].type = "exists" /\ f.seqs[j].target = v
                          /\ v \notin f.seqs[j].members
                          /\ \A n \in j + 1 .. k - 1 : ~Binds(n, v)
\* The last binding of v before k is an @get of one row.
MayBeNil(k, v) ==
    \E j \in 1 .. k - 1 : /\ Binds(j, v) /\ f.seqs[j].type = "get" /\ f.seqs[j].shape = "one"
                          /\ \A n \in j + 1 .. k - 1 : ~Binds(n, v)

\* "nil pointer dereference 방지를 위해 @empty 가드가 필요하다" (validator.go:282),
\* and where it is: a statement, be it a call, a guard or the response, panics
\* only if it takes a field of a row that an @get bound and that neither an
\* @empty nor another field has tested since, whatever guards
\* validateFKReferenceGuard asked for elsewhere; and after an @exists on the
\* row itself such a statement has no way but to panic.
NilExact ==
    /\ outcome = "panic" =>
          \E v \in Derefs : MayBeNil(body[ip].seq, v) /\ ~CheckedAt(body[ip].seq, v)
    /\ Executing(SeqTypes) =>
          \A v \in Derefs : /\ CheckedAt(body[ip].seq, v) => env[v] = "row"
                            /\ AbsentAt(body[ip].seq, v) => env[v] = "nil"

CarriesStale(s) == (s.fields \cup {s.target}) \cap stale # {}

\* Where the warning is exact: a variable is bound by @get alone and of one
\* model, each model is read into one variable, the response lists fields.
OneReader(g) ==
    \A j, k \in DOMAIN g.seqs : LET s == g.seqs[j] t == g.seqs[k] IN
        /\ s.result # None => s.type = "get"
        /\ s.type = "get" /\ t.type = "get" =>
              ((s.result = t.result) <=> (s.model = t.model))
        /\ s.type = "response" => s.target = None
\* "Stale data warning: put/delete followed by response without re-fetch"
\* (README.md:114): validateStaleResponse warns exactly when the running
\* handler would answer with a row older than a write to its model.
StaleExact ==
    OneReader(f) /\ Executing({"response"}) /\ ~Seqn.suppress =>
        (CarriesStale(Seqn) <=> StaleWarning(f, body[ip].seq))

-----------------------------------------------------------------------------
\* The call as its caller sees it.
AnswerOf(got, how) ==
    IF got # <<>> THEN Head(got)
    ELSE CASE how = "crash" -> "lost"
           [] how = "ok" -> "ok"
           [] OTHER -> "pending"
Answer == AnswerOf(replies, outcome)

\* The response takes fields only of rows that are known to be there.
ResponseSafe ==
    \A k \in DOMAIN f.seqs : f.seqs[k].type = "response" =>
        \A v \in f.seqs[k].members \cap (Vars \ reservedSources) :
            MayBeNil(k, v) => CheckedAt(k, v)

\* A function whose response is last and safe is mapped to its abstract call,
\* another one, of which less is promised, to a call that never begins.
Promised == ResponseLast(f) /\ ResponseSafe
Abstract == INSTANCE ServiceCall
    WITH answer <- IF Promised THEN Answer ELSE "pending",
         stored <- IF Promised THEN durable ELSE {},
         writes <- WriteSeqs

\* Phase032's promise as a specification: a generated function whose response
\* is its last sequence, and cannot panic after the Commit before it,
\* implements ServiceCall.
ImplementsServiceCall == Abstract!Spec
=============================================================================
