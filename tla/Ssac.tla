-------------------------------- MODULE Ssac --------------------------------
(***************************************************************************)
(* The specification language and its validator (parser/types.go,          *)
(* validator/validator.go).  A service function is the list of sequences   *)
(* of its comment block.  A reference such as "course.ID" is abstracted to *)
(* its root variable, which is all that the validator and the generator    *)
(* look at, and to whether it takes a field, which the running code does.  *)
(***************************************************************************)
EXTENDS Naturals, Sequences, FiniteSets

CONSTANTS
    Vars,       \* result variable names
    Params,     \* request parameter names
    GoType,     \* their Go types; int64 stands for float64, and for bool outside a path
    Models      \* model names

None == "none"

\* Names the generator itself declares in a function.
GeneratorNames == {"c", "h", "tx", "err", "req", "opts", "total"}
reservedSources == {"request", "currentUser", "config", "query", "message"}

ASSUME NamesAssumption ==
    /\ Vars \cap {None, "literal"} = {}
    /\ Params \cap (GeneratorNames \cup reservedSources \cup {None, "literal"}) = {}
    /\ GoType \in [Params -> {"string", "int64", "time.Time"}]

WriteTypes == {"post", "put", "delete"}
ModelTypes == WriteTypes \cup {"get"}
SeqTypes == ModelTypes \cup
    {"empty", "exists", "state", "auth", "call", "publish", "response"}

\* What an Inputs value can be besides request.*: a variable, a reserved
\* source or a literal.
Sources == Vars \cup {"currentUser", "query", "message", "literal"}

Sequence ==
    [type : SeqTypes,
     model : Models \cup {None},
     result : Vars \cup {None},
     shape : {"one", "list", "page"},   \* T, []T, Page[T] or Cursor[T]
     inputs : SUBSET Sources,           \* Inputs, except
     request : SUBSET Params,           \*   the ones from request.*, and
     masked : SUBSET Sources,           \*   @auth's UserID and Role keys
     target : Vars \cup {None, "currentUser", "message"},
     fields : SUBSET Sources,
     members : SUBSET Sources,          \* the ones of which a field is taken
     suppress : BOOLEAN]                \* @type!

\* Which fields the parser can fill for each type.
ParsedSequence ==
    {s \in Sequence :
        /\ s.result # None => s.type \in {"get", "post", "call"}
        /\ s.target # None => s.type \in {"empty", "exists", "response"}
        /\ s.target # None => s.fields = {}
        /\ s.fields # {} => s.type = "response"
        /\ s.masked # {} => s.type = "auth"
        /\ s.inputs \cup s.request # {} =>
              s.type \notin {"empty", "exists", "response"}
        /\ s.members \subseteq s.inputs \cup s.fields \cup {s.target}
        /\ (s.model # None) <=> (s.type \in ModelTypes)}

\* path: the parameters in the operation's OpenAPI path.
ServiceFunc ==
    {g \in [subscribe : BOOLEAN, path : SUBSET Params, seqs : Seq(ParsedSequence)] :
        g.subscribe => g.path = {}}

-----------------------------------------------------------------------------
\* Result variables bound by the first n sequences.
Results(g, n) == {g.seqs[k].result : k \in 1 .. n} \ {None}
AllResults(g) == Results(g, Len(g.seqs))

RequiredFieldsOK(g) ==
    \A k \in DOMAIN g.seqs : LET s == g.seqs[k] IN
        /\ s.type \in {"get", "post"} => s.result # None
        /\ s.type \in {"post", "put", "state", "publish"} =>
              s.inputs \cup s.request # {}
        /\ s.type \in {"empty", "exists"} => s.target # None

Declared(g, k) ==
    Results(g, k - 1) \cup {"currentUser"} \cup
    (IF g.subscribe THEN {"message"} ELSE {})

VariableFlowOK(g) ==
    \A k \in DOMAIN g.seqs : LET s == g.seqs[k] IN
        /\ s.target \in Declared(g, k) \cup {None}
        /\ (s.inputs \cup s.masked) \ {"literal", "query"} \subseteq Declared(g, k)
        /\ s.fields \ {"literal"} \subseteq Declared(g, k)
        /\ s.type = "publish" => "query" \notin s.inputs

ReservedSourceOK(g) == AllResults(g) \cap reservedSources = {}

SubscribeRulesOK(g) ==
    \A k \in DOMAIN g.seqs : LET s == g.seqs[k] IN
        IF g.subscribe
        THEN /\ s.type # "response"
             /\ s.request = {}
             /\ "query" \notin s.inputs \cup s.masked
        ELSE "message" \notin s.inputs \cup s.masked

\* A single-row @get whose input comes from an earlier result needs an @empty
\* on its own result somewhere later.
FKReferenceGuardOK(g) ==
    \A k \in DOMAIN g.seqs : LET s == g.seqs[k] IN
        s.type = "get" /\ s.shape = "one"
        /\ (s.inputs \ (reservedSources \cup {"literal"})) \cap Results(g, k - 1) # {}
        => \E j \in k + 1 .. Len(g.seqs) :
              g.seqs[j].type = "empty" /\ g.seqs[j].target = s.result

\* validateFunc without an ERROR.
Accepted(g) ==
    /\ RequiredFieldsOK(g) /\ VariableFlowOK(g) /\ ReservedSourceOK(g)
    /\ SubscribeRulesOK(g) /\ FKReferenceGuardOK(g)

\* Mutant: a second @get of the model does not clear the warning.
StaleWarningKept(g, k) ==
    /\ g.seqs[k].type = "response" /\ ~g.seqs[k].suppress
    /\ \E j \in 1 .. k - 1, w \in 1 .. k - 1 :
          /\ g.seqs[j].type = "get" /\ g.seqs[j].result \in g.seqs[k].fields
          /\ g.seqs[w].type \in {"put", "delete"} /\ g.seqs[w].model = g.seqs[j].model

\* validateStaleResponse warns about the response at k: one of its fields was
\* last read by an @get of a model that a later @put or @delete changed, with
\* no @get of that model, into any variable, in between.
StaleWarning(g, k) ==
    /\ g.seqs[k].type = "response" /\ ~g.seqs[k].suppress
    /\ \E j \in 1 .. k - 1, w \in 1 .. k - 1 :
          /\ g.seqs[j].type = "get" /\ g.seqs[j].result \in g.seqs[k].fields
          /\ \A n \in j + 1 .. k - 1 :
                ~(g.seqs[n].type = "get" /\ g.seqs[n].result = g.seqs[j].result)
          /\ g.seqs[w].type \in {"put", "delete"}
          /\ g.seqs[w].model = g.seqs[j].model
          /\ \A n \in w + 1 .. k - 1 :
                ~(g.seqs[n].type = "get" /\ g.seqs[n].model = g.seqs[j].model)
=============================================================================
