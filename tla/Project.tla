------------------------------ MODULE Project ------------------------------
(***************************************************************************)
(* `ssac gen` on a whole project (cmd/ssac runGen): ParseDir, the symbol   *)
(* table, ValidateWithSymbols, one Go file per service function and the    *)
(* model interfaces; and what a caller of the library does besides,        *)
(* LoadPackageInterfaces (a symbol table with package models) and          *)
(* GenerateHandlerStruct.  The steps agree on names, orders and counts:    *)
(* an Inputs value is [src, field], a symbol table has the shape Symbols   *)
(* gives it, and a Go function is the key order and the number of results  *)
(* of its model calls.  Ranging over a Go map is a free choice of order.   *)
(***************************************************************************)
EXTENDS Integers, FiniteSets, SequencesExt

CONSTANTS
    Trees,      \* the service files, in the order of WalkDir
    Symtabs,    \* the symbol tables that may be loaded
    KeyOrder,   \* the input keys, sorted
    Reserved,   \* the keys that toLowerFirst makes a Go keyword (the validator)
    Keywords,   \* the keys that ToGoCamel makes a Go keyword (the generator)
    Pascal,     \* ToGoPascal on the models
    Snake,      \* toSnakeCase on the fields
    TableOf,    \* toSnakeCase and a plural s, on models and variables
    IdTable     \* the table that a field <Model>ID leads to, or None

None == "none"
GoTypes == {"string", "int64", "bool", "time.Time", "float64"}
IsSeq(q) == q \in Seq(ToSet(q))
AtMostOne(S) == \A x, y \in S : x = y

\* Files, functions, sequences and parameters are lists; KeyOrder lists every
\* input key once.  @put and @delete take no result, so they have no wrapper.
SequenceOK(s) ==
    /\ DOMAIN s.inputs \subseteq ToSet(KeyOrder)
    /\ s.shape \in {"one", "list", "page", "cursor"}
    /\ s.model # None /\ s.type # "call" => s.type \in {"get", "post", "put", "delete"}
    /\ s.type \in {"put", "delete"} => s.shape = "one"
FuncOK(g) == IsSeq(g.seqs) /\ \A i \in DOMAIN g.seqs : SequenceOK(g.seqs[i])

ASSUME ProjectAssumption ==
    /\ IsSeq(KeyOrder) /\ \A i, j \in DOMAIN KeyOrder : KeyOrder[i] = KeyOrder[j] => i = j
    /\ \A t \in Trees : IsSeq(t) /\ \A n \in DOMAIN t :
          IsSeq(t[n].funcs) /\ \A i \in DOMAIN t[n].funcs : FuncOK(t[n].funcs[i])
    /\ \A t \in Symtabs : \A k \in DOMAIN t.models : \A f \in DOMAIN t.models[k] :
          IsSeq(t.models[k][f].params)
    /\ \A t \in Symtabs : \A x \in DOMAIN t.tables : \A c \in DOMAIN t.tables[x] :
          t.tables[x][c] \in GoTypes

VARIABLES
    stage,      \* parse, load, validate, generate, interfaces, handlers, done, failed
    tree,       \* the files not parsed yet
    funcs,      \* the service functions, in parse order
    st,         \* the symbol table, or NoTable
    next,       \* the function to generate next
    files,      \* the output: path -> content
    ifaces,     \* models_gen.go: <<model, method>> -> signature
    queryOpts,  \* models_gen.go declares the type QueryOpts
    fields,     \* handler.go: domain -> models
    pending     \* domains without a handler.go

vars == <<stage, tree, funcs, st, next, files, ifaces, queryOpts, fields, pending>>

NoTable == [models |-> <<>>, tables |-> <<>>, ops |-> <<>>, loaded |-> FALSE]

With(f, k, v) == [x \in DOMAIN f \cup {k} |-> IF x = k THEN v ELSE f[x]]

-----------------------------------------------------------------------------
(* ParseDir                                                                *)

\* A function takes the first directory as its domain, however deep it is.
ParseFile ==
    /\ stage = "parse" /\ tree # <<>> /\ Head(tree).dir # <<>>
    /\ LET g == Head(tree) IN
       funcs' = funcs \o [n \in DOMAIN g.funcs |->
           [name |-> g.funcs[n].name, seqs |-> g.funcs[n].seqs,
            domain |-> g.dir[1], file |-> g.file]]
    /\ tree' = Tail(tree)
    /\ UNCHANGED <<stage, st, next, files, ifaces, queryOpts, fields, pending>>

\* A file in service/ itself, or one that does not parse.
ParseFails ==
    /\ stage = "parse" /\ tree # <<>>
    /\ stage' = "failed"
    /\ UNCHANGED <<tree, funcs, st, next, files, ifaces, queryOpts, fields, pending>>

Parsed ==
    /\ stage = "parse" /\ tree = <<>>
    /\ stage' = "load"
    /\ UNCHANGED <<tree, funcs, st, next, files, ifaces, queryOpts, fields, pending>>

\* A table that cannot be loaded is done without.
Load ==
    /\ stage = "load" /\ stage' = "validate"
    /\ st' \in Symtabs \cup {NoTable}
    /\ UNCHANGED <<tree, funcs, next, files, ifaces, queryOpts, fields, pending>>

-----------------------------------------------------------------------------
(* ValidateWithSymbols, on top of the rules of Ssac, which are taken as    *)
(* satisfied: the checks that make an ERROR.                               *)

Seqs(g) == {g.seqs[n] : n \in DOMAIN g.seqs}
Values(s) == {s.inputs[k] : k \in DOMAIN s.inputs}
IsCall(s) == s.type = "call"
HasQuery(s) == \E v \in Values(s) : v.src = "query"
ModelKey(s) == <<s.pkg, s.model>>
Method(t, s) == t.models[ModelKey(s)][s.method]
Known(t, s) == ModelKey(s) \in DOMAIN t.models
HasMethod(t, s) == Known(t, s) /\ s.method \in DOMAIN t.models[ModelKey(s)]

\* validateModel: a package model that was not loaded is a WARNING.
ModelOK(t, s) ==
    s.model # None /\ ~IsCall(s) /\ (s.pkg = "" \/ Known(t, s)) =>
        /\ HasMethod(t, s)
        /\ s.pkg # "" /\ Method(t, s).params # <<>> =>
              ToSet(Method(t, s).params) = DOMAIN s.inputs

RequestOK(t, g) ==
    g.name \in DOMAIN t.ops =>
        \A s \in Seqs(g) : \A v \in Values(s) :
            v.src = "request" => v.field \in t.ops[g.name].fields

\* Mutant: only an operation that exists is looked at.
QueryUsageOKMissing(t, g) ==
    (\E s \in Seqs(g) : HasQuery(s)) /\ g.name \in DOMAIN t.ops => t.ops[g.name].opts

QueryUsageOK(t, g) ==
    (\E s \in Seqs(g) : HasQuery(s)) => g.name \in DOMAIN t.ops /\ t.ops[g.name].opts

PaginationOK(t, g) ==
    g.name \in DOMAIN t.ops =>
        \A s \in Seqs(g) : s.shape # "one" =>
            CASE t.ops[g.name].style = "offset" -> s.shape = "page"
              [] t.ops[g.name].style = "cursor" -> s.shape = "cursor"
              [] t.ops[g.name].style = None -> s.shape = "list"
              [] OTHER -> TRUE

\* The types that ranging over the tables may give a column.
AnyTable(t, col) == {t.tables[x][col] : x \in {y \in DOMAIN t.tables : col \in DOMAIN t.tables[y]}}
ColumnOf(t, table, col) ==
    IF table \in DOMAIN t.tables /\ col \in DOMAIN t.tables[table]
    THEN {t.tables[table][col]} ELSE {}
Or(S, T) == IF S # {} THEN S ELSE T

\* The model that the last binding of a variable reads from.
resultModels(g, var) ==
    LET at == {n \in DOMAIN g.seqs : g.seqs[n].result = var /\ g.seqs[n].model # None} IN
    IF at = {} THEN None ELSE g.seqs[CHOOSE n \in at : \A k \in at : k <= n].model

\* {} stands for an unknown type, which is not compared.
resolveCallInputType(t, g, v) ==
    CASE v.src = "literal" -> {"string"}
      [] v.field = None \/ v.src = "currentUser" -> {}
      [] v.src = "request" -> AnyTable(t, Snake[v.field])
      [] OTHER ->
            LET m == resultModels(g, v.src) IN
            IF m = None THEN {}
            ELSE Or(ColumnOf(t, TableOf[m], Snake[v.field]),
                    ColumnOf(t, IdTable[v.field], "id"))

\* The Request structs that ranging over the models may find for a call.
CallTypes(t, s) ==
    {x \in {t.models[k][s.method].types :
               k \in {j \in DOMAIN t.models :
                         j[1] = s.pkg /\ j[1] # "" /\ s.method \in DOMAIN t.models[j]}} : x # <<>>}

\* The types an input may be given, if the struct has a field of its name.
Given(t, g, s, types, k) ==
    IF k \in DOMAIN types THEN resolveCallInputType(t, g, s.inputs[k]) ELSE {}

\* validateCallInputTypes may, or must, report the call.
MayClash(t, g, s) ==
    IsCall(s) /\ \E types \in CallTypes(t, s) : \E k \in DOMAIN s.inputs :
        \E a \in Given(t, g, s, types, k) : a # types[k]
MustClash(t, g, s) ==
    IsCall(s) /\ CallTypes(t, s) # {} /\ \A types \in CallTypes(t, s) : \E k \in DOMAIN s.inputs :
        LET G == Given(t, g, s, types, k) IN G # {} /\ \A a \in G : a # types[k]

\* validateGoReservedWords
ReservedWordsOK(s) == s.pkg = "" /\ ~IsCall(s) => DOMAIN s.inputs \cap Reserved = {}

DefiniteOK(t, g) ==
    /\ RequestOK(t, g) /\ QueryUsageOK(t, g) /\ PaginationOK(t, g)
    /\ \A s \in Seqs(g) : ModelOK(t, s) /\ ReservedWordsOK(s)

MayAccept ==
    ~st.loaded \/ \A n \in DOMAIN funcs :
        DefiniteOK(st, funcs[n]) /\ \A s \in Seqs(funcs[n]) : ~MustClash(st, funcs[n], s)
MayReject ==
    st.loaded /\ \E n \in DOMAIN funcs :
        ~DefiniteOK(st, funcs[n]) \/ \E s \in Seqs(funcs[n]) : MayClash(st, funcs[n], s)

Accept ==
    /\ stage = "validate" /\ MayAccept
    /\ stage' = "generate"
    /\ UNCHANGED <<tree, funcs, st, next, files, ifaces, queryOpts, fields, pending>>

Reject ==
    /\ stage = "validate" /\ MayReject
    /\ stage' = "failed"
    /\ UNCHANGED <<tree, funcs, st, next, files, ifaces, queryOpts, fields, pending>>

-----------------------------------------------------------------------------
(* The handlers.                                                           *)

\* The elements of q that are in S, in the order of q.
Keep(q, S) ==
    LET K[n \in 0 .. Len(q)] ==
            IF n = 0 THEN <<>>
            ELSE IF q[n] \in S THEN Append(K[n - 1], q[n]) ELSE K[n - 1]
    IN  K[Len(q)]
Sorted(S) == Keep(KeyOrder, S)
QueryKeys(s) == {k \in DOMAIN s.inputs : s.inputs[k].src = "query"}
Listed(s, params) == Keep(params, DOMAIN s.inputs)
Extra(s, params) == DOMAIN s.inputs \ ToSet(params)
Opts(s, keys) == [n \in DOMAIN keys |-> IF keys[n] \in QueryKeys(s) THEN "opts" ELSE keys[n]]

\* Under lookupParamOrder's order; it looks the model up without its package.
paramOrder(t, s) ==
    IF <<"", s.model>> \in DOMAIN t.models /\ s.method \in DOMAIN t.models[<<"", s.model>>]
    THEN t.models[<<"", s.model>>][s.method].params ELSE <<>>

\* Mutant: every key sorted, the query among them.
CallArgsAlphabetical(t, s) == Opts(s, Sorted(DOMAIN s.inputs))

\* buildArgsCodeFromInputs: the arguments of the call, by key.
CallArgs(t, s) ==
    LET params == paramOrder(t, s) IN
    IF params # <<>> THEN Opts(s, Listed(s, params) \o Sorted(Extra(s, params)))
    ELSE Sorted(DOMAIN s.inputs \ QueryKeys(s))
         \o (IF QueryKeys(s) = {} THEN <<>> ELSE <<"opts">>)

\* The results the call's statement takes.
HasTotal(s) == HasQuery(s) /\ s.shape = "list"
CallResults(s) ==
    CASE s.type = "get" -> IF HasTotal(s) THEN 3 ELSE 2
      [] s.type = "post" -> 2
      [] OTHER -> 1

Path(g) == <<g.domain, g.file>>

\* Mutant: the domain directory is forgotten.
GenerateFuncFlat ==
    /\ stage = "generate" /\ next <= Len(funcs)
    /\ files' = With(files, <<"", funcs[next].file>>, <<"func", next>>)
    /\ next' = next + 1
    /\ UNCHANGED <<stage, tree, funcs, st, ifaces, queryOpts, fields, pending>>

\* GenerateWith: the file is named after the .ssac file.
GenerateFunc ==
    /\ stage = "generate" /\ next <= Len(funcs)
    /\ files' = With(files, Path(funcs[next]), <<"func", next>>)
    /\ next' = next + 1
    /\ UNCHANGED <<stage, tree, funcs, st, ifaces, queryOpts, fields, pending>>

Generated ==
    /\ stage = "generate" /\ next > Len(funcs)
    /\ stage' = IF st.loaded THEN "interfaces" ELSE "handlers"
    /\ pending' = {funcs[n].domain : n \in DOMAIN funcs}
    /\ UNCHANGED <<tree, funcs, st, next, files, ifaces, queryOpts, fields>>

-----------------------------------------------------------------------------
(* models_gen.go                                                           *)

\* The sequences of the project by place, and the order they are visited in.
Places == UNION {{<<n, i>> : i \in DOMAIN funcs[n].seqs} : n \in DOMAIN funcs}
SeqAt(x) == funcs[x[1]].seqs[x[2]]
Before(x, y) == x[1] < y[1] \/ (x[1] = y[1] /\ x[2] < y[2])

\* collectModelUsages
Usages == {x \in Places : LET s == SeqAt(x) IN s.model # None /\ ~IsCall(s) /\ s.pkg = ""}
UseOf(s) == <<s.model, s.method>>

\* deriveInterfaces keeps the first usage of a method.
FirstUse(m) ==
    SeqAt(CHOOSE x \in Usages :
              /\ UseOf(SeqAt(x)) = m
              /\ \A y \in Usages : Before(y, x) => UseOf(SeqAt(y)) # m)
UsedMethods ==
    {UseOf(SeqAt(x)) : x \in {y \in Usages : <<"", SeqAt(y).model>> \in DOMAIN st.models}}
Info(m) ==
    LET ms == st.models[<<"", m[1]>>] IN
    IF m[2] \in DOMAIN ms THEN ms[m[2]] ELSE [card |-> "", params |-> <<>>, types |-> <<>>]

\* resolveInputParamType
ParamTypes(v, m) ==
    IF v.field = None THEN {"string"}      \* a literal, or a bare variable
    ELSE LET own == IF v.src \in {"request", "currentUser"} THEN {}
                    ELSE ColumnOf(st, TableOf[v.src], Snake[v.field])
         IN  Or(own, Or(ColumnOf(st, TableOf[m], Snake[v.field]),
                 Or(ColumnOf(st, IdTable[v.field], "id"),
                    Or(AnyTable(st, Snake[v.field]), {"string"}))))

\* Mutant: without the sort of the keys.
InputKeysUnsorted(u, params) ==
    {Listed(u, params) \o x : x \in SetToSeqs(Extra(u, params))}

\* The orders deriveInterfaces may give the inputs: the extra ones are ranged
\* over as a map.
InputKeys(u, params) ==
    IF params = <<>> THEN {Sorted(DOMAIN u.inputs)}
    ELSE {Listed(u, params) \o x : x \in SetToSeqs(Extra(u, params))}

deriveReturnType(u, card) ==
    CASE u.shape \in {"page", "cursor"} -> 2
      [] u.shape \notin {"page", "cursor"} /\ card = "exec" -> 1
      [] u.shape \notin {"page", "cursor"} /\ card = "many" -> IF HasQuery(u) THEN 3 ELSE 2
      [] OTHER -> 2

\* The parameters beside the query, and the types they may be given.
Plain(u, keys) == Keep(keys, DOMAIN u.inputs \ QueryKeys(u))
Typed(u, model, p) ==
    {types \in [DOMAIN p -> GoTypes] : \A n \in DOMAIN p : types[n] \in ParamTypes(u.inputs[p[n]], model)}

\* The signatures a method may be given.
Signatures(m) ==
    LET u == FirstUse(m) IN
    UNION {{[params |-> p, types |-> types, opts |-> HasQuery(u),
             results |-> deriveReturnType(u, Info(m).card)] : types \in Typed(u, m[1], p)} :
           p \in {Plain(u, keys) : keys \in InputKeys(u, Info(m).params)}}

\* Without a keyword for a parameter's name models_gen.go is Go, and format.Source
\* takes it.
Formats(sig) == ToSet(sig.params) \cap Keywords = {}

hasQueryOpts(t) == \E o \in DOMAIN t.ops : t.ops[o].opts

GenerateModelInterfaces ==
    /\ stage = "interfaces"
    /\ ifaces' \in {f \in [UsedMethods -> UNION {Signatures(m) : m \in UsedMethods}] :
                       \A m \in UsedMethods : f[m] \in Signatures(m) /\ Formats(f[m])}
    /\ queryOpts' = hasQueryOpts(st)
    /\ files' = IF UsedMethods = {} THEN files
                ELSE With(files, <<"model", "models_gen">>, <<"models_gen", 0>>)
    /\ stage' = "handlers"
    /\ UNCHANGED <<tree, funcs, st, next, fields, pending>>

-----------------------------------------------------------------------------
(* handler.go                                                              *)

\* collectDomainModels takes package models too; a field is named, and its
\* type is, by ToGoPascal of the model, as is the field that a model call uses.
\* The interface of models_gen.go has the model's name as it is.
DomainCalls(d) ==
    {s \in UNION {Seqs(funcs[n]) : n \in {k \in DOMAIN funcs : funcs[k].domain = d}} :
        s.model # None /\ ~IsCall(s)}
DomainModels(d) == {Pascal[s.model] : s \in DomainCalls(d)}

GenerateHandler(d) ==
    /\ stage = "handlers" /\ d \in pending
    /\ pending' = pending \ {d}
    /\ fields' = With(fields, d, DomainModels(d))
    /\ files' = IF DomainModels(d) = {} THEN files ELSE With(files, <<d, "handler">>, <<"handler", 0>>)
    /\ UNCHANGED <<stage, tree, funcs, st, next, ifaces, queryOpts>>

\* The files that the stage writes next.
Writing ==
    CASE stage = "generate" -> {Path(funcs[n]) : n \in {next} \cap DOMAIN funcs}
      [] stage = "interfaces" -> IF UsedMethods = {} THEN {} ELSE {<<"model", "models_gen">>}
      [] stage = "handlers" -> {<<d, "handler">> : d \in {e \in pending : DomainModels(e) # {}}}

\* The first error ends the run, at whatever it has written.  One of
\* os.WriteFile leaves the file as it was or cut short, whosever it was.
WriteFails ==
    /\ stage \in {"generate", "interfaces", "handlers"}
    /\ stage' = "failed"
    /\ UNCHANGED files \/ \E p \in Writing : files' = With(files, p, <<"cut", 0>>)
    /\ UNCHANGED <<tree, funcs, st, next, ifaces, queryOpts, fields, pending>>

Finish ==
    /\ stage = "handlers" /\ pending = {}
    /\ stage' = "done"
    /\ UNCHANGED <<tree, funcs, st, next, files, ifaces, queryOpts, fields, pending>>

Ended == stage \in {"done", "failed"} /\ UNCHANGED vars

Init ==
    /\ stage = "parse" /\ tree \in Trees /\ funcs = <<>>
    /\ st = NoTable /\ next = 1 /\ files = <<>>
    /\ ifaces = <<>> /\ queryOpts = FALSE /\ fields = <<>> /\ pending = {}

Next ==
    \/ ParseFile \/ ParseFails \/ Parsed \/ Load \/ Accept \/ Reject
    \/ GenerateFunc \/ WriteFails \/ Generated \/ GenerateModelInterfaces
    \/ (\E d \in pending : GenerateHandler(d)) \/ Finish \/ Ended

Spec == Init /\ [][Next]_vars

-----------------------------------------------------------------------------
\* SAFETY.  At every moment of a run, one that fails included, the code of a
\* generated function is in its file unless something named alike took it: a
\* later function of the same domain and file name (GenerateWith: another
\* function of the same .ssac file, or a file of that name in another
\* subdirectory), models_gen.go or handler.go.  A write that fails may take it
\* too, but only one that was about to replace it.
KeptUnlessShadowed ==
    \A k \in 1 .. next - 1 :
        LET g == funcs[k]
            shadowed ==
                \/ \E j \in k + 1 .. next - 1 : funcs[j].domain = g.domain /\ funcs[j].file = g.file
                \/ g.domain = "model" /\ g.file = "models_gen" /\ ifaces # <<>>
                \/ g.file = "handler" /\ g.domain \in DOMAIN fields /\ fields[g.domain] # {}
            threatened ==
                \/ next \in DOMAIN funcs /\ Path(funcs[next]) = Path(g)
                \/ g.domain = "model" /\ g.file = "models_gen" /\ UsedMethods # {}
                \/ g.file = "handler" /\ g.domain \in pending
            kept == <<g.domain, g.file>> \in DOMAIN files
                    /\ files[<<g.domain, g.file>>] = <<"func", k>>
        IN  /\ kept => ~shadowed
            /\ kept \/ shadowed \/ (stage = "failed" /\ threatened)

AfterInterfaces == st.loaded /\ stage \in {"handlers", "done"}
ModelCalls == {SeqAt(x) : x \in Usages}

\* SAFETY.  What ValidateWithSymbols accepts gives a complete models_gen.go.
\* It can be formatted, as no parameter is a Go keyword, where toLowerFirst and
\* ToGoCamel find the same keywords; every method a handler calls on a model of
\* the project is declared, and the QueryOpts type if a method takes one; and a
\* model call goes through a field of its domain's Handler whose type declares
\* the method, except for a model with a package, which collectDomainModels
\* takes and collectModelUsages does not, and for a model that ToGoPascal
\* respells.
ModelsGenComplete ==
    /\ st.loaded /\ stage = "interfaces" =>
          \A m \in UsedMethods : DOMAIN FirstUse(m).inputs \cap Keywords \subseteq Reserved =>
              \A sig \in Signatures(m) : Formats(sig)
    /\ AfterInterfaces =>
          /\ \A s \in ModelCalls : UseOf(s) \in DOMAIN ifaces
          /\ (\E m \in DOMAIN ifaces : ifaces[m].opts) => queryOpts
          /\ \A d \in DOMAIN fields : \A s \in DomainCalls(d) :
                /\ Pascal[s.model] \in fields[d]
                /\ s.pkg = "" /\ Pascal[s.model] = s.model =>
                      <<Pascal[s.model], s.method>> \in DOMAIN ifaces

\* What neither the validator nor the generator looks at.  The usages of a
\* method have the same inputs and the same wrapper;
SameUse(s, u) ==
    /\ DOMAIN s.inputs = DOMAIN u.inputs /\ QueryKeys(s) = QueryKeys(u)
    /\ (s.shape \in {"page", "cursor"}) <=> (u.shape \in {"page", "cursor"})
\* beside the known parameters there is at most one other input, and the
\* query after it;
Orderable(s, params) ==
    params # <<>> =>
        LET other == Extra(s, params) \ QueryKeys(s) IN
        /\ AtMostOne(other) /\ AtMostOne(QueryKeys(s))
        /\ QueryKeys(s) \cap ToSet(params) = {}
        /\ \A q \in QueryKeys(s) : Sorted(other \cup {q}) = Sorted(other) \o <<q>>
\* and the sqlc cardinality fits the sequence.
Conventional(s, card) ==
    CASE s.type \in {"put", "delete"} -> card = "exec"
      [] s.type \in {"get", "post"} /\ s.shape \in {"page", "cursor"} -> TRUE
      [] s.type = "get" /\ s.shape \in {"one", "list"} ->
            card # "exec" /\ (HasQuery(s) => (s.shape = "list" <=> card = "many"))
      [] s.type = "post" /\ s.shape \in {"one", "list"} ->
            card # "exec" /\ ~(card = "many" /\ HasQuery(s))

\* SAFETY.  Where this is so, and only the first usage of a method is looked
\* at, every call in a handler has the arguments in the order of the interface
\* and takes as many results as it declares (buildArgsCodeFromInputs and
\* deriveInterfaces order the inputs each on its own).
CallsFit ==
    AfterInterfaces =>
        \A s \in ModelCalls : LET m == UseOf(s) sig == ifaces[m] IN
            m \in DOMAIN ifaces /\ SameUse(s, FirstUse(m)) /\ Orderable(s, Info(m).params)
            /\ Conventional(s, Info(m).card)
            => /\ CallArgs(st, s) = sig.params \o (IF sig.opts THEN <<"opts">> ELSE <<>>)
               /\ CallResults(s) = sig.results

\* No column has two types, no call two Request structs.
Unambiguous ==
    /\ \A x, y \in DOMAIN st.tables :
          \A c \in DOMAIN st.tables[x] \cap DOMAIN st.tables[y] : st.tables[x][c] = st.tables[y][c]
    /\ \A x \in Places : IsCall(SeqAt(x)) => AtMostOne(CallTypes(st, SeqAt(x)))

\* SAFETY.  Where that holds the order of Go's maps shows neither in the
\* verdict of ValidateWithSymbols nor, with one input beside the known ones,
\* in the interfaces: two runs on one project agree.
Deterministic ==
    Unambiguous =>
        /\ stage = "validate" => ~(MayAccept /\ MayReject)
        /\ stage = "interfaces" =>
              \A m \in UsedMethods :
                  Info(m).params = <<>> \/ AtMostOne(Extra(FirstUse(m), Info(m).params))
                  => \E sig \in Signatures(m) : Signatures(m) = {sig}
=============================================================================
