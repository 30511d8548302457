----------------------------- MODULE MCHandler -----------------------------
(* Instances of Codegen and Handler for TLC: the generator on every        *)
(* service function of a few sequences, and the code that it writes.       *)
EXTENDS Handler

CONSTANTS MaxGen,   \* bound: sequences in a function of the generator's alphabet
          MaxLen    \* bound: sequences in a function of the handler's

TwoVars == {"v", "w"}
ThreeParams == {"p", "q", "r"}
ParamTypes == [p |-> "int64", q |-> "time.Time", r |-> "string"]
TwoModels == {"M", "N"}

Of(t) ==
    [type |-> t, model |-> IF t \in ModelTypes THEN "M" ELSE None,
     result |-> None, shape |-> "one", inputs |-> {}, request |-> {},
     masked |-> {}, target |-> None, fields |-> {}, members |-> {},
     suppress |-> FALSE]

-----------------------------------------------------------------------------
(* For the generator: reads, writes, calls, guards and responses with     *)
(* every way to refer to a variable, a parameter or a reserved source.     *)
GenAlphabet ==
    {[Of("get") EXCEPT !.result = v, !.request = x] : v \in Vars, x \in {{}, {"p"}, {"q"}}}
    \cup {[Of("get") EXCEPT !.result = v, !.inputs = {w}, !.shape = "list"]
             : v \in Vars, w \in Vars \cup {"query"}}
    \cup {[Of("call") EXCEPT !.result = v, !.inputs = {w}]
             : v \in Vars, w \in {"literal", "query"}}
    \cup {[Of("post") EXCEPT !.result = v, !.inputs = {"currentUser"}] : v \in Vars}
    \cup {[Of("put") EXCEPT !.request = {"q"}], Of("delete")}
    \cup {[Of("publish") EXCEPT !.inputs = {x}] : x \in {"literal", "message"}}
    \cup {[Of("auth") EXCEPT !.inputs = x, !.masked = y]
             : x \in {{}, {"currentUser"}}, y \in {{}} \cup {{v} : v \in Vars}}
    \cup {[Of(t) EXCEPT !.inputs = {v}] : t \in {"call", "state"}, v \in Vars}
    \cup {[Of(t) EXCEPT !.target = v] : t \in {"empty", "exists", "response"}, v \in Vars}
    \cup {[Of("response") EXCEPT !.fields = x]
             : x \in {{}, {"literal"}, {"currentUser"}} \cup {{v} : v \in Vars}}

GenPrograms == UNION {[1 .. n -> GenAlphabet] : n \in 1 .. MaxGen}
GenFuncs ==
    [subscribe : {FALSE}, path : {{}, {"p"}}, seqs : GenPrograms]
    \cup [subscribe : {TRUE}, path : {{}}, seqs : GenPrograms]

-----------------------------------------------------------------------------
(* For the running code: sequences over the variables V and the models Ms, *)
(* with references to a variable and to a field of it.                     *)
WholeOrField(v) == {{}, {v}}
Gets(V, Ms) ==
    {[Of("get") EXCEPT !.result = v, !.model = m, !.request = {"r"}]
        : v \in V, m \in Ms}
    \cup {[Of("get") EXCEPT !.result = v, !.inputs = {w}, !.members = {w}, !.shape = sh]
             : v \in V, w \in V, sh \in {"one", "list"}}
Puts(Ms) == {[Of("put") EXCEPT !.model = m, !.inputs = {"literal"}] : m \in Ms}
Deletes(V) == {[Of("delete") EXCEPT !.inputs = {v}, !.members = {v}] : v \in V}
Others(V) ==
    {[Of("post") EXCEPT !.result = v, !.request = {"r"}] : v \in V}
    \cup UNION {{[Of("publish") EXCEPT !.inputs = {v}, !.members = x]
                    : x \in WholeOrField(v)} : v \in V}
    \cup {[Of("call") EXCEPT !.inputs = {"literal"}, !.result = r] : r \in V \cup {None}}
    \cup {Of("auth")}
    \cup {[Of("state") EXCEPT !.inputs = {v}, !.members = {v}] : v \in V}
    \cup UNION {{[Of(t) EXCEPT !.target = v, !.members = x]
                    : t \in {"empty", "exists"}, x \in WholeOrField(v)} : v \in V}
Responses(V) ==
    {[Of("response") EXCEPT !.suppress = b] : b \in BOOLEAN}
    \cup UNION {{[Of("response") EXCEPT !.fields = {v}, !.members = x, !.suppress = b]
                    : x \in WholeOrField(v), b \in BOOLEAN} : v \in V}
    \cup {[Of("response") EXCEPT !.target = v] : v \in V}

ReadsAndWrites(V, Ms) == Gets(V, Ms) \cup Puts(Ms) \cup Deletes(V) \cup Responses(V)

FuncsOver(Alphabet, Kinds) ==
    {g \in [subscribe : Kinds, path : {{}},
            seqs : UNION {[1 .. n -> Alphabet] : n \in 1 .. MaxLen}] : Accepted(g)}

\* Every kind of sequence over one variable and one model; reads, writes and
\* responses over two, for the stale-response warning.
CallFuncs ==
    FuncsOver(ReadsAndWrites({"v"}, {"M"}) \cup Others({"v"}), BOOLEAN)
    \cup FuncsOver(ReadsAndWrites(TwoVars, TwoModels), {FALSE})

AllFuncs == GenFuncs \cup CallFuncs
=============================================================================
