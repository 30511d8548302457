------------------------------ MODULE Codegen ------------------------------
(***************************************************************************)
(* generator/: `ssac gen` on one service function, with a symbol table.    *)
(* The validator accepts or rejects it, then the generator emits a Go      *)
(* function: a prolog, one statement for each sequence, an epilog.  What   *)
(* the generator tracks (errDeclared, declaredVars, funcHasTotal,          *)
(* committed) decides between := and =, a name and _, and where Commit     *)
(* goes.  Beside it runs the part of the Go compiler that the decisions    *)
(* must satisfy: the names in function scope and the faults it reports.    *)
(***************************************************************************)
EXTENDS Ssac

CONSTANT Funcs      \* the service functions to generate

ASSUME FuncsAssumption == Funcs \subseteq ServiceFunc

VARIABLES
    f,              \* sf: the function
    stage,          \* validate, sequences, done or rejected
    i,              \* index of the next sequence
    errDeclared, declaredVars, funcHasTotal, committed,
    body,           \* the statements emitted
    scope,          \* Go: names declared in function scope
    reads,          \* Go: names read by some statement
    faults          \* Go: compile errors

tracking == <<errDeclared, declaredVars, funcHasTotal, committed>>
go == <<scope, reads, faults>>
genVars == <<f, stage, i, tracking, body, go>>

-----------------------------------------------------------------------------
(* Analyses of the whole function, made before the first statement.        *)

Has(g, types) == \E k \in DOMAIN g.seqs : g.seqs[k].type \in types
useTx(g) == Has(g, WriteTypes)
hasQueryInput(s) == "query" \in s.inputs \cup s.masked
needsQueryOpts(g) == \E k \in DOMAIN g.seqs : hasQueryInput(g.seqs[k])
needsCurrentUser(g) ==
    \/ Has(g, {"auth"})
    \/ \E k \in DOMAIN g.seqs : "currentUser" \in g.seqs[k].inputs \cup g.seqs[k].masked

\* Variables named by some target, input or field.
Mentions(s) == {s.target} \cup s.inputs \cup s.masked \cup s.fields
collectUsedVars(g) ==
    (UNION {Mentions(g.seqs[k]) : k \in DOMAIN g.seqs}) \ {None, "literal"}

Requested(g) == UNION {g.seqs[k].request : k \in DOMAIN g.seqs}
requestParams(g) == Requested(g) \ g.path
jsonBody(g) ==
    \/ Cardinality(requestParams(g)) >= 2
    \/ requestParams(g) # {} /\ Has(g, {"post", "put"})
PathConverts(g) == \E p \in g.path : GoType[p] = "int64"
QueryConverts(g) == ~jsonBody(g) /\ \E p \in requestParams(g) : GoType[p] # "string"

\* A JSON body is listed with one more entry when it has a time.Time.
hasConversionErr(g) ==
    QueryConverts(g) \/ (jsonBody(g) /\ \E p \in requestParams(g) : GoType[p] = "time.Time")

-----------------------------------------------------------------------------
(* The Go rules (external): := must introduce a name, = and every read     *)
(* need declared ones; "if := " and "if =" are the init statement of an    *)
(* if, whose := declares in the scope of the if alone.                     *)
If(cond, S) == IF cond THEN S ELSE {}

Faults(st) ==
    If(st.assign = ":=" /\ st.defs \subseteq scope, {"no new variable"})
    \cup If(st.assign \in {"=", "if ="} /\ ~(st.defs \subseteq scope), {"undeclared target"})
    \cup If(~(st.uses \subseteq scope), {"undeclared read"})

Stmt(op, k, defs, assign, uses) ==
    [op |-> op, seq |-> k, defs |-> defs, assign |-> assign, uses |-> uses]

Commit == Stmt("commit", 0, {"err"}, "if =", {"tx"})
Committing(now) == IF now THEN <<Commit>> ELSE <<>>

\* Write st, after the Commit block if it is due.
Emit(commitNow, st) ==
    /\ body' = body \o Committing(commitNow) \o <<st>>
    /\ scope' = scope \cup If(st.assign = ":=", st.defs)
    /\ reads' = reads \cup st.uses \cup If(commitNow, Commit.uses)
    /\ faults' = faults \cup Faults(st) \cup If(commitNow, Faults(Commit))

-----------------------------------------------------------------------------
Init ==
    /\ f \in Funcs
    /\ stage = "validate"
    /\ i = 1
    /\ errDeclared = FALSE /\ declaredVars = {}
    /\ funcHasTotal = FALSE /\ committed = FALSE
    /\ body = <<>>
    /\ scope = {} /\ reads = {} /\ faults = {}

\* cmd/ssac gen stops at a validation ERROR.
Reject ==
    /\ stage = "validate" /\ ~Accepted(f)
    /\ stage' = "rejected"
    /\ UNCHANGED <<f, i, tracking, body, go>>

\* Signature, path parameters, currentUser, request parameters, QueryOpts and
\* BeginTx.  Each of their := introduces a name of its own.
PrologScope(g) ==
    If(useTx(g), {"tx", "err"}) \cup
    (IF g.subscribe THEN {"message"}
     ELSE g.path \cup requestParams(g)
          \cup If(needsCurrentUser(g), {"currentUser"})
          \cup If(needsQueryOpts(g), {"opts"})
          \cup If(PathConverts(g) \/ QueryConverts(g), {"err"}))

Prolog ==
    /\ stage = "validate" /\ Accepted(f)
    /\ stage' = "sequences"
    /\ body' = (IF ~f.subscribe /\ (PathConverts(f) \/ QueryConverts(f) \/ jsonBody(f))
                THEN <<Stmt("bind", 0, {}, "none", {})>> ELSE <<>>)
               \o (IF useTx(f) THEN <<Stmt("begin", 0, {"tx", "err"}, ":=", {})>> ELSE <<>>)
    /\ scope' = PrologScope(f)
    /\ errDeclared' = (useTx(f) \/ (~f.subscribe /\ hasConversionErr(f)))
    /\ UNCHANGED <<f, i, declaredVars, funcHasTotal, committed, reads, faults>>

-----------------------------------------------------------------------------
(* One iteration of the loop over sf.Sequences: buildTemplateData, the     *)
(* Unused override, and the template of the sequence's type.               *)

\* Names an Inputs value puts in the emitted code; an @auth drops the ones
\* under UserID and Role, and always reads currentUser.
InputNames(s) ==
    (s.inputs \ {"query", "literal"}) \cup s.request
    \cup If("query" \in s.inputs, {"opts"})
    \cup If(s.type = "auth", {"currentUser"})
    \cup If(useTx(f) /\ s.type \in ModelTypes, {"tx"})

HasTotal(s) == hasQueryInput(s) /\ s.result # None /\ s.shape = "list"
Unused(s) == s.result \notin collectUsedVars(f)
\* Mutant: the Unused override of go_handler.go:94 is missing.
ReAssignIgnoresUnused(s) == s.result \in declaredVars
ReAssign(s) == s.result \in declaredVars \/ (Unused(s) /\ errDeclared)

Current(s) == stage = "sequences" /\ i <= Len(f.seqs) /\ s = f.seqs[i]
Advance ==
    /\ i' = i + 1
    /\ UNCHANGED <<f, stage>>

\* get, post, call_with_result: v, [total,] err := or =
GenResult(s) ==
    /\ Current(s) /\ s.result # None
    /\ Emit(FALSE, Stmt(s.type, i,
           {"err"} \cup If(~Unused(s), {s.result})
                   \cup If(s.type = "get" /\ HasTotal(s), {"total"}),
           IF ReAssign(s) THEN "=" ELSE ":=",
           InputNames(s)))
    /\ declaredVars' = declaredVars \cup {s.result}
    /\ errDeclared' = TRUE
    /\ funcHasTotal' = (funcHasTotal \/ HasTotal(s))
    /\ UNCHANGED committed
    /\ Advance

\* Mutant: declaredVars is updated without a test for a result.
GenExecDeclares(s) ==
    /\ Current(s) /\ s.type \in {"put", "delete", "publish"}
    /\ Emit(FALSE, Stmt(s.type, i, {"err"}, IF errDeclared THEN "=" ELSE ":=",
                       InputNames(s)))
    /\ errDeclared' = TRUE /\ declaredVars' = declaredVars \cup {s.result}
    /\ UNCHANGED <<funcHasTotal, committed>>
    /\ Advance

\* put, delete, publish: err := or =
GenExec(s) ==
    /\ Current(s) /\ s.type \in {"put", "delete", "publish"}
    /\ Emit(FALSE, Stmt(s.type, i, {"err"}, IF errDeclared THEN "=" ELSE ":=",
                       InputNames(s)))
    /\ errDeclared' = TRUE
    /\ UNCHANGED <<declaredVars, funcHasTotal, committed>>
    /\ Advance

\* auth, call_no_result: if _, err := or =
GenInline(s) ==
    /\ Current(s) /\ s.type \in {"auth", "call"} /\ s.result = None
    /\ Emit(FALSE, Stmt(s.type, i, {"err"}, IF errDeclared THEN "if =" ELSE "if :=",
                       InputNames(s)))
    /\ errDeclared' = TRUE
    /\ UNCHANGED <<declaredVars, funcHasTotal, committed>>
    /\ Advance

\* state: if err := always; empty, exists: a test of the target.
GenGuard(s) ==
    /\ Current(s) /\ s.type \in {"state", "empty", "exists"}
    /\ Emit(FALSE, IF s.type = "state"
                   THEN Stmt("state", i, {"err"}, "if :=", InputNames(s))
                   ELSE Stmt(s.type, i, {}, "none", {s.target}))
    /\ UNCHANGED tracking
    /\ Advance

\* response_direct writes the target alone, response its fields and, after a
\* list, total.
ResponseNames(s) ==
    IF s.target # None THEN {s.target}
    ELSE (s.fields \ {"literal"}) \cup If(funcHasTotal, {"total"})

\* Mutant: Commit is left to the end of the function.
GenResponseUncommitted(s) ==
    /\ Current(s) /\ s.type = "response"
    /\ Emit(FALSE, Stmt("response", i, {}, "none", ResponseNames(s)))
    /\ UNCHANGED tracking
    /\ Advance

\* The first response of a transaction is preceded by Commit.
GenResponse(s) ==
    /\ Current(s) /\ s.type = "response"
    /\ Emit(useTx(f) /\ ~committed, Stmt("response", i, {}, "none", ResponseNames(s)))
    /\ committed' = (committed \/ useTx(f))
    /\ UNCHANGED <<errDeclared, declaredVars, funcHasTotal>>
    /\ Advance

\* Mutant: a function without a response is never committed.
EpilogUncommitted ==
    /\ stage = "sequences" /\ i > Len(f.seqs)
    /\ stage' = "done"
    /\ UNCHANGED <<f, i, tracking, body, go>>

\* The last Commit, and what Go says of the names nobody read.  Every emitted
\* assignment to err is followed by a test of it; message is a parameter.
Epilog ==
    LET commitNow == useTx(f) /\ ~committed
        tested == {"err", "message"} \cup If(commitNow, Commit.uses)
    IN
    /\ stage = "sequences" /\ i > Len(f.seqs)
    /\ stage' = "done"
    /\ body' = body \o Committing(commitNow)
    /\ faults' = faults \cup If(commitNow, Faults(Commit))
                        \cup If(~(scope \subseteq reads \cup tested), {"unused"})
    /\ UNCHANGED <<f, i, tracking, scope, reads>>

GenSequence ==
    \E s \in {f.seqs[k] : k \in DOMAIN f.seqs} :
        GenResult(s) \/ GenExec(s) \/ GenInline(s) \/ GenGuard(s) \/ GenResponse(s)

GenNext == Reject \/ Prolog \/ GenSequence \/ Epilog

\* The tool ends with the function rejected or written.
GenDone == stage \in {"rejected", "done"} /\ UNCHANGED genVars

Next == GenNext \/ GenDone
Spec == Init /\ [][Next]_genVars

-----------------------------------------------------------------------------
\* Values of the generator's variables.
TypeOK ==
    /\ f \in Funcs
    /\ stage \in {"validate", "sequences", "done", "rejected"}
    /\ i \in 1 .. Len(f.seqs) + 1
    /\ errDeclared \in BOOLEAN /\ funcHasTotal \in BOOLEAN /\ committed \in BOOLEAN
    /\ declaredVars \subseteq AllResults(f)
    /\ scope \subseteq Vars \cup Params \cup GeneratorNames \cup reservedSources
    /\ faults \subseteq {"no new variable", "undeclared target", "undeclared read", "unused"}

\* The functions on which the tracking is exact:
\* - err: BeginTx declares it; or errDeclared starts as the prolog left err,
\*   or a statement that repairs the difference comes before any other use of
\*   err; and an @auth or @call without result, whose := declares err for its
\*   own if alone, is preceded by a declaration of err or repaired likewise;
\* - total: a list read with query is bound to a new, used variable, and a
\*   response with fields follows;
\* - names: no result is called like a parameter or a name of the generator's,
\*   every path parameter is requested, @auth hides no variable under UserID
\*   or Role, and currentUser is read only where the prolog binds it.
Guards == {"state", "empty", "exists", "response"}
Inline(s) == s.type \in {"auth", "call"} /\ s.result = None
\* After sequence k, nothing touches err before a := with a new result.
Repaired(g, k) ==
    \A m \in k + 1 .. Len(g.seqs) :
        \/ g.seqs[m].type \in Guards
        \/ \E j \in k + 1 .. m : g.seqs[j].result \in collectUsedVars(g)
ErrTracked(g) ==
    LET counted == ~g.subscribe /\ hasConversionErr(g)
        bound == ~g.subscribe /\ (PathConverts(g) \/ QueryConverts(g))
    IN
    \/ useTx(g)
    \/ counted /\ bound
    \/ counted /\ ~bound /\ Repaired(g, 0)
    \/ /\ ~counted /\ bound
       /\ \A m \in DOMAIN g.seqs :
             \/ g.seqs[m].type \in Guards
             \/ \E j \in 1 .. m :
                   Inline(g.seqs[j]) \/ g.seqs[j].result \in collectUsedVars(g)
    \/ /\ ~counted /\ ~bound
       /\ \A k \in DOMAIN g.seqs : Inline(g.seqs[k]) =>
             \/ \E j \in 1 .. k - 1 :
                   g.seqs[j].type \notin Guards /\ ~Inline(g.seqs[j])
             \/ Repaired(g, k)

TotalTracked(g) ==
    \A k \in DOMAIN g.seqs : HasTotal(g.seqs[k]) =>
        /\ g.seqs[k].type = "get"
        /\ g.seqs[k].result \in collectUsedVars(g)
        /\ g.seqs[k].result \notin Results(g, k - 1)
        /\ \E j \in k + 1 .. Len(g.seqs) :
              g.seqs[j].type = "response" /\ g.seqs[j].target = None

NamesTracked(g) ==
    /\ AllResults(g) \cap (Requested(g) \cup GeneratorNames) = {}
    /\ g.path \subseteq Requested(g)
    /\ \A k \in DOMAIN g.seqs : LET s == g.seqs[k] IN
          /\ s.masked \subseteq {"currentUser", "literal"}
          /\ "currentUser" \in s.fields \cup {s.target} => needsCurrentUser(g)
          /\ g.subscribe => s.type # "auth" /\
                            "currentUser" \notin s.inputs \cup s.fields \cup {s.target}

Tracked(g) == ErrTracked(g) /\ TotalTracked(g) /\ NamesTracked(g)

\* README "`:=` vs `=` tracking" and "Unused variable `_` handling", where the
\* tracking is exact: the generated function compiles.
Compiles == Tracked(f) => faults = {}

\* README "`:=` vs `=` tracking" for every function the validator accepts: each
\* := of go_templates.go introduces a name, each = finds its names declared.
AssignsLegal == faults \cap {"no new variable", "undeclared target"} = {}

\* go_handler.go:86-134: a finished function has exactly one Commit if it
\* writes, else none; no response precedes it; and if the only response is the
\* last sequence, every model call lies between BeginTx and Commit.
ResponseLast(g) ==
    \A k \in DOMAIN g.seqs : g.seqs[k].type = "response" => k = Len(g.seqs)
At(op) == {k \in DOMAIN body : body[k].op = op}
CommitPlaced ==
    stage = "done" =>
        /\ Cardinality(At("commit")) = IF useTx(f) THEN 1 ELSE 0
        /\ \A c \in At("commit") :
              /\ \A r \in At("response") : c < r
              /\ ResponseLast(f) =>
                    \A k \in DOMAIN body : body[k].op \in ModelTypes =>
                        k < c /\ \E b \in At("begin") : b < k
=============================================================================
