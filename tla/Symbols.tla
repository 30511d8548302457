------------------------------ MODULE Symbols ------------------------------
(***************************************************************************)
(* validator/symbol.go: LoadSymbolTable and LoadPackageInterfaces.  The    *)
(* schema (Schema), the sqlc queries, the OpenAPI operations and the Go    *)
(* declarations of model/ are read in this order into one table, later     *)
(* entries over earlier ones; then the Go packages the services import.    *)
(* A model is known by <<package, name>>, package "" for the project's     *)
(* own.  Items of a query file:                                            *)
(*   file    the file <stem><suffix>.sql, stem being the singular          *)
(*   header  -- name: <prefix><name> :<card>, name None when it is missing *)
(*   sql     an SQL line: insert, cols the first parenthesised list, vals  *)
(*           the bare placeholders ($n), binds the col = $n pairs          *)
(***************************************************************************)
EXTENDS Schema

CONSTANTS
    QueryItems,     \* what a query file may consist of
    Operations,     \* OpenAPI operations
    GoDecls,        \* declarations of model/*.go
    Packages,       \* imported packages: sequences of declarations
    Pascal,         \* strcase.ToGoPascal on the columns
    MaxItems        \* bound: lines, operations and declarations read

ASSUME MaxItemsAssumption == MaxItems \in Nat
ASSUME QueryItemsAssumption ==
    \A it \in QueryItems : it.kind = "sql" =>
        it.cols \in Seq(STRING) /\ it.binds \in Seq([col : STRING, n : Nat])
ASSUME PackagesAssumption == \A p \in Packages : Len(p) \in Nat

VARIABLES
    phase,          \* the loader that runs: ddl, sqlc, openapi, model, package, done, failed
    queries,        \* the query items read so far
    model,          \* modelName of the open query file
    Methods,        \* ms.Methods of that file
    currentMethod, currentCardinality, currentSQL,
    Models, Ops, Funcs, DTOs,
    goDecls,        \* the declarations of model/*.go read so far
    requestStructs, pkg     \* the open package

queryVars == <<model, Methods, currentMethod, currentCardinality, currentSQL>>
tableVars == <<Models, Ops, Funcs, DTOs>>
goVars == <<goDecls, requestStructs, pkg>>
symbolVars == <<schemaVars, phase, queries, queryVars, tableVars, goVars>>

Size == Len(ddl) + Len(queries) + Len(goDecls) + Len(pkg)
        + (IF Ops = <<>> THEN 0 ELSE 1)

MethodInfo(card, params, types, errStatus) ==
    [card |-> card, params |-> params, types |-> types, errStatus |-> errStatus]

NoName == <<None, None>>     \* the empty currentMethod, and no open file

With(f, k, v) == [x \in DOMAIN f \cup {k} |-> IF x = k THEN v ELSE f[x]]

-----------------------------------------------------------------------------
(* sqlc queries.                                                           *)

\* "reservations.sql", "boxes.sql" and "categories.sql" are made singular.
sqlFileToModel(file) == <<"", file.stem>>

\* A name that begins with the model's loses it.
stripModelPrefix(w, m) ==
    IF w.prefix = m[2] THEN <<"", w.name>> ELSE <<w.prefix, w.name>>

Binds(sql) == FlattenSeq([n \in DOMAIN sql |-> sql[n].binds])
Vals(sql) == FlattenSeq([n \in DOMAIN sql |-> sql[n].vals])

\* The first parenthesised list, whatever statement it belongs to.
extractInsertParams(sql) ==
    LET lists == {n \in DOMAIN sql : sql[n].cols # <<>>}
        cols == sql[CHOOSE n \in lists : \A k \in lists : n <= k].cols
    IN  IF lists = {} THEN <<>> ELSE [n \in DOMAIN cols |-> Pascal[cols[n]]]

\* Mutant: the pairs stay in the order of the text.
extractWhereSetParamsUnsorted(sql) ==
    [n \in DOMAIN Binds(sql) |-> Pascal[Binds(sql)[n].col]]

\* The pairs, sorted by placeholder number (sort.Slice keeps equal ones in
\* order up to twelve pairs).
extractWhereSetParams(sql) ==
    LET b == Binds(sql)
        before(j) == {i \in DOMAIN b : b[i].n < b[j].n \/ (b[i].n = b[j].n /\ i < j)}
        at(n) == CHOOSE j \in DOMAIN b : Cardinality(before(j)) = n - 1
    IN  [n \in DOMAIN b |-> Pascal[b[at(n)].col]]

extractSqlcParams(sql) ==
    LET ins == extractInsertParams(sql) IN
    IF Binds(sql) = <<>> /\ Vals(sql) = <<>> THEN <<>>
    ELSE IF (\E n \in DOMAIN sql : sql[n].insert) /\ ins # <<>> THEN ins
    ELSE extractWhereSetParams(sql)

\* The methods with the one being read, if any.
Flushed ==
    IF currentMethod = NoName THEN Methods
    ELSE With(Methods, currentMethod,
              MethodInfo(currentCardinality, extractSqlcParams(currentSQL), <<>>, 0))

ReadItem(it) == queries' = Append(queries, it)

OpenQueryFile(it) ==
    /\ it.kind = "file" /\ model = NoName
    /\ ReadItem(it)
    /\ model' = sqlFileToModel(it)
    /\ Methods' = <<>> /\ currentMethod' = NoName
    /\ currentCardinality' = "" /\ currentSQL' = <<>>
    /\ UNCHANGED tableVars

NameLine(it) ==
    /\ it.kind = "header" /\ model # NoName
    /\ ReadItem(it)
    /\ Methods' = Flushed
    /\ currentMethod' = IF it.name = None THEN NoName ELSE stripModelPrefix(it, model)
    /\ currentCardinality' = IF it.name = None THEN "" ELSE it.card
    /\ currentSQL' = <<>>
    /\ UNCHANGED <<model, tableVars>>

SqlLine(it) ==
    /\ it.kind = "sql" /\ model # NoName
    /\ ReadItem(it)
    /\ currentSQL' = IF currentMethod = NoName THEN currentSQL ELSE Append(currentSQL, it)
    /\ UNCHANGED <<model, Methods, currentMethod, currentCardinality, tableVars>>

\* Mutant: the last method of a file is forgotten.
CloseQueryFileNoFlush ==
    /\ model # NoName
    /\ Models' = IF Methods = <<>> THEN Models ELSE With(Models, model, Methods)
    /\ model' = NoName
    /\ UNCHANGED <<queries, Methods, currentMethod, currentCardinality, currentSQL,
                   Ops, Funcs, DTOs>>

\* A later file of the same model replaces the earlier one.
CloseQueryFile ==
    /\ model # NoName
    /\ Models' = IF Flushed = <<>> THEN Models ELSE With(Models, model, Flushed)
    /\ model' = NoName
    /\ UNCHANGED <<queries, Methods, currentMethod, currentCardinality, currentSQL,
                   Ops, Funcs, DTOs>>

QueryStep == \E it \in QueryItems : OpenQueryFile(it) \/ NameLine(it) \/ SqlLine(it)

-----------------------------------------------------------------------------
(* OpenAPI and model/*.go.                                                 *)

\* One level of $ref is followed.
collectSchemaFields(op) == op.props \cup op.refProps

LoadOperation(op) ==
    /\ op.id # ""
    /\ Ops' = With(Ops, op.id,
          [RequestFields |-> op.path \cup op.query \cup collectSchemaFields(op),
           PathParams |-> op.path, style |-> op.style, opts |-> op.opts])
    /\ UNCHANGED <<Models, Funcs, DTOs>>

\* A type with methods becomes a model, with names only, over whatever sqlc
\* gave it.
LoadGoDecl(d) ==
    /\ goDecls' = Append(goDecls, d)
    /\ DTOs' = IF d.dto THEN DTOs \cup {d.name} ELSE DTOs
    /\ Funcs' = IF d.kind = "func" THEN Funcs \cup {d.name} ELSE Funcs
    /\ Models' = IF d.kind = "interface" /\ d.methods # {}
                 THEN With(Models, <<"", d.name>>,
                           [x \in d.methods |-> MethodInfo("", <<>>, <<>>, 0)])
                 ELSE Models
    /\ UNCHANGED <<Ops, requestStructs, pkg>>

-----------------------------------------------------------------------------
(* A package directory, read in three passes; a file that does not parse   *)
(* is left out of all of them.  A struct <name>Request is the declaration  *)
(* [kind |-> "request", name |-> <name>, ...].                             *)

Types(reqs, name) == IF name \in DOMAIN reqs THEN reqs[name] ELSE <<>>

collectRequest(reqs, d) ==
    IF d.kind = "request" /\ d.fields # <<>> THEN With(reqs, d.name, d.fields) ELSE reqs

\* The interface of a package model: SessionModel is the model Session.
PackageInterface(reqs, ms, d) ==
    IF d.kind = "interface" /\ d.methods # {}
    THEN With(ms, <<"pkg", d.name>>,
              [x \in d.methods |-> MethodInfo("", d.params, Types(reqs, x[2]), 0)])
    ELSE ms

\* A function without a request struct is not registered.
PackageFunc(reqs, ms, d) ==
    LET key == <<"pkg", "_func">> IN
    IF d.kind = "func" /\ d.name \in DOMAIN reqs
    THEN With(ms, key, With(IF key \in DOMAIN ms THEN ms[key] ELSE <<>>, <<"", d.name>>,
                            MethodInfo("", <<>>, reqs[d.name], d.errStatus)))
    ELSE ms

\* What a pass adds to its table for one declaration.
Declare(pass, reqs, table, d) ==
    CASE pass = "requests" -> collectRequest(table, d)
      [] pass = "interfaces" -> PackageInterface(reqs, table, d)
      [] pass = "functions" -> PackageFunc(reqs, table, d)

Pass(pass, reqs, table, p) ==
    LET T[n \in 0 .. Len(p)] ==
            IF n = 0 THEN table ELSE Declare(pass, reqs, T[n - 1], p[n])
    IN  T[Len(p)]

OpenPackage(p) ==
    /\ pkg = <<>> /\ p # <<>>
    /\ pkg' = p
    /\ requestStructs' = Pass("requests", <<>>, <<>>, p)
    /\ UNCHANGED <<goDecls, tableVars>>

\* Mutant: interfaces and structs in one pass.
LoadPackageOnePass ==
    /\ LET seen(n) == Pass("requests", <<>>, <<>>, SubSeq(pkg, 1, n)) IN
       Models' = FoldLeftDomain(
           LAMBDA ms, n : PackageFunc(seen(n), PackageInterface(seen(n), ms, pkg[n]), pkg[n]),
           Models, pkg)
    /\ UNCHANGED <<Ops, Funcs, DTOs, goVars>>

\* The second and third pass.
LoadPackage ==
    /\ Models' = Pass("functions", requestStructs,
                      Pass("interfaces", requestStructs, Models, pkg), pkg)
    /\ UNCHANGED <<Ops, Funcs, DTOs, goVars>>

-----------------------------------------------------------------------------
Init ==
    /\ SchemaInit /\ phase = "ddl"
    /\ queries = <<>> /\ goDecls = <<>>
    /\ model = NoName /\ Methods = <<>> /\ currentMethod = NoName
    /\ currentCardinality = "" /\ currentSQL = <<>>
    /\ Models = <<>> /\ Ops = <<>> /\ Funcs = {} /\ DTOs = {}
    /\ requestStructs = <<>> /\ pkg = <<>>

In(p) == phase = p /\ Size < MaxItems /\ phase' = p

Order == <<"ddl", "sqlc", "openapi", "model", "package">>

\* The next loader; a missing directory is an empty one.
NextLoader ==
    \E n \in 1 .. Len(Order) - 1 :
        /\ phase = Order[n] /\ phase' = Order[n + 1] /\ model = NoName
        /\ UNCHANGED <<schemaVars, queries, queryVars, tableVars, goVars>>

\* Any other error of a loader: no table is returned.
LoadFails ==
    /\ phase \in {"ddl", "sqlc", "openapi", "model"}
    /\ phase' = "failed"
    /\ tables' = <<>> /\ currentTable' = "" /\ ddl' = <<>>
    /\ queries' = <<>> /\ goDecls' = <<>>
    /\ model' = NoName /\ Methods' = <<>> /\ currentMethod' = NoName
    /\ currentCardinality' = "" /\ currentSQL' = <<>>
    /\ Models' = <<>> /\ Ops' = <<>> /\ Funcs' = {} /\ DTOs' = {}
    /\ UNCHANGED <<requestStructs, pkg>>

Done ==
    /\ phase \in {"failed", "done"}
    /\ UNCHANGED symbolVars

Next ==
    \/ In("ddl") /\ DDLStep /\ UNCHANGED <<queries, queryVars, tableVars, goVars>>
    \/ In("sqlc") /\ QueryStep /\ UNCHANGED <<schemaVars, goVars>>
    \/ phase = "sqlc" /\ phase' = "sqlc" /\ CloseQueryFile /\ UNCHANGED <<schemaVars, goVars>>
    \/ In("openapi") /\ (\E op \in Operations : LoadOperation(op))
       /\ UNCHANGED <<schemaVars, queries, queryVars, goVars>>
    \/ In("model") /\ (\E d \in GoDecls : LoadGoDecl(d))
       /\ UNCHANGED <<schemaVars, queries, queryVars>>
    \/ In("package") /\ (\E p \in Packages : Size + Len(p) <= MaxItems /\ OpenPackage(p))
       /\ UNCHANGED <<schemaVars, queries, queryVars>>
    \/ phase = "package" /\ phase' = "done" /\ LoadPackage
       /\ UNCHANGED <<schemaVars, queries, queryVars>>
    \/ NextLoader \/ LoadFails \/ Done

Spec == Init /\ [][Next]_symbolVars

-----------------------------------------------------------------------------
(* The queries that the items q hold, read without a scanner.              *)

\* The SQL lines under the header at h.
Under(q, h) == {j \in h + 1 .. Len(q) : \A k \in h + 1 .. j : q[k].kind = "sql"}
Statement(q, h) == Lines(q, Under(q, h))

FileOf(q, h) == Latest({k \in 1 .. h : q[k].kind = "file"})
ModelAt(q, h) == sqlFileToModel(q[FileOf(q, h)])
MethodAt(q, h) == stripModelPrefix(q[h], ModelAt(q, h))
Named(q) == {h \in 1 .. Len(q) : q[h].kind = "header" /\ q[h].name # None}

\* The methods that the headers H name, the last header of a name.
MethodsAt(q, H) ==
    [x \in {MethodAt(q, h) : h \in H} |->
        LET h == Latest({k \in H : MethodAt(q, k) = x}) IN
        MethodInfo(q[h].card, extractSqlcParams(Statement(q, h)), <<>>, 0)]

\* The methods of the last file of m that has any.
QueryMethods(q, m) ==
    LET file == Latest({FileOf(q, h) : h \in {k \in Named(q) : ModelAt(q, k) = m}})
    IN  MethodsAt(q, {h \in Named(q) : FileOf(q, h) = file})

\* SAFETY.  When loadSqlcQueries is done, and before model/*.go is read, every
\* model has the methods of its last query file with their own cardinality and
\* parameters: none lost at a malformed header or at the end of a file, none
\* mixed with another's SQL.
QueriesLoaded ==
    phase = "openapi" =>
        /\ DOMAIN Models = {ModelAt(queries, h) : h \in Named(queries)}
        /\ \A m \in DOMAIN Models : Models[m] = QueryMethods(queries, m)

\* Each of $1 .. $k is compared with one column, or the statement inserts $1
\* .. $k into as many columns.
Plain(sql) ==
    LET b == Binds(sql) v == Vals(sql) IN
    \/ /\ v = <<>> /\ \A n \in DOMAIN sql : ~sql[n].insert
       /\ {b[i].n : i \in DOMAIN b} = 1 .. Len(b)
    \/ /\ b = <<>> /\ Len(sql) = 1 /\ sql[1].insert
       /\ v = [n \in DOMAIN sql[1].cols |-> n]

\* SAFETY.  Of such a statement extractSqlcParams names the columns in the
\* order of the placeholders, which is the order of sqlc's own parameters,
\* wherever they stand in the text.
ParamsPositional ==
    \A h \in Named(queries) : LET sql == Statement(queries, h) params == extractSqlcParams(sql) IN
        Plain(sql) =>
            /\ Len(params) = Len(Binds(sql)) + Len(Vals(sql))
            /\ \A i \in DOMAIN Binds(sql) :
                  params[Binds(sql)[i].n] = Pascal[Binds(sql)[i].col]

\* The table ms knows the declarations of the package p; of two declarations
\* the last one counts.
Registered(p, ms) ==
    LET At(kind, name) == {n \in 1 .. Len(p) : p[n].kind = kind /\ p[n].name = name}
        Fields(name) == {n \in At("request", name) : p[n].fields # <<>>}
        TypesOf(name) == IF Fields(name) = {} THEN <<>> ELSE p[Latest(Fields(name))].fields
        Knows(key, x, mi) == key \in DOMAIN ms /\ x \in DOMAIN ms[key] /\ ms[key][x] = mi
    IN  \A n \in 1 .. Len(p) : LET d == p[n] IN n = Latest(At(d.kind, d.name)) =>
          /\ d.kind = "func" /\ Fields(d.name) # {} =>
                Knows(<<"pkg", "_func">>, <<"", d.name>>,
                      MethodInfo("", <<>>, TypesOf(d.name), d.errStatus))
          /\ d.kind = "interface" /\ d.name # "_func" => \A x \in d.methods :
                Knows(<<"pkg", d.name>>, x, MethodInfo("", d.params, TypesOf(x[2]), 0))

\* SAFETY.  A package's function or method knows the fields of its Request
\* struct, and a function its @error status, whichever of them is declared
\* first (loadPackageGoInterfaces).  The code keeps the functions under _func,
\* which no interface may be called.
PackageComplete == phase = "done" => Registered(pkg, Models)
=============================================================================
