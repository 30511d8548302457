--------------------------- MODULE HandlerProofs ---------------------------
(***************************************************************************)
(* The generator and what it generates, for every set of functions of any  *)
(* length.  First the generator: its variables keep their types, a         *)
(* function on which its tracking is exact compiles, and Commit is where   *)
(* it has to be.  Then the calls of the generated functions, with every    *)
(* failure and a crash between any two statements.                         *)
(***************************************************************************)
EXTENDS Handler, Integers, FiniteSetTheorems, TLAPS

-----------------------------------------------------------------------------
(* What the parser guarantees of one sequence.                             *)

\* The fields of a parsed sequence (parser/types.go) and which types fill them.
LEMMA SeqFacts ==
    ASSUME NEW g \in Funcs, NEW k \in 1 .. Len(g.seqs)
    PROVE  /\ g.seqs[k].type \in SeqTypes
           /\ g.seqs[k].result \in Vars \cup {None}
           /\ g.seqs[k].inputs \subseteq Sources /\ g.seqs[k].masked \subseteq Sources
           /\ g.seqs[k].fields \subseteq Sources /\ g.seqs[k].request \subseteq Params
           /\ g.seqs[k].result # None => g.seqs[k].type \in {"get", "post", "call"}
           /\ g.seqs[k].target # None =>
                 g.seqs[k].type \in {"empty", "exists", "response"}
           /\ g.seqs[k].target # None => g.seqs[k].fields = {}
           /\ g.seqs[k].fields # {} => g.seqs[k].type = "response"
           /\ g.seqs[k].masked # {} => g.seqs[k].type = "auth"
           /\ g.seqs[k].inputs \cup g.seqs[k].request # {} =>
                 g.seqs[k].type \notin {"empty", "exists", "response"}
  <1>1. g \in ServiceFunc
    BY FuncsAssumption
  <1>2. g.seqs \in Seq(ParsedSequence)
    BY <1>1 DEF ServiceFunc
  <1>3. g.seqs[k] \in ParsedSequence
    BY <1>2
  <1> HIDE <1>1
  <1> DEFINE s == g.seqs[k]
  <1>4. s \in ParsedSequence
    BY <1>3
  <1> HIDE DEF s
  <1>5. /\ s.type \in SeqTypes /\ s.result \in Vars \cup {None}
        /\ s.inputs \subseteq Sources /\ s.masked \subseteq Sources
        /\ s.fields \subseteq Sources /\ s.request \subseteq Params
    BY <1>4 DEF ParsedSequence, Sequence
  <1>6. /\ s.result # None => s.type \in {"get", "post", "call"}
        /\ s.target # None => s.type \in {"empty", "exists", "response"}
        /\ s.target # None => s.fields = {}
        /\ s.fields # {} => s.type = "response"
        /\ s.masked # {} => s.type = "auth"
        /\ s.inputs \cup s.request # {} => s.type \notin {"empty", "exists", "response"}
    BY <1>4 DEF ParsedSequence
  <1>7. QED
    BY <1>5, <1>6 DEF s

\* The list of sequences is a sequence, and a subscriber has no path.
LEMMA FuncFacts ==
    ASSUME NEW g \in Funcs
    PROVE  /\ Len(g.seqs) \in Nat /\ DOMAIN g.seqs = 1 .. Len(g.seqs)
           /\ g.path \subseteq Params
  <1>1. g \in ServiceFunc
    BY FuncsAssumption
  <1>2. g.seqs \in Seq(ParsedSequence) /\ g.path \subseteq Params
    BY <1>1 DEF ServiceFunc
  <1>3. QED
    BY <1>2

-----------------------------------------------------------------------------
(* Types.                                                                  *)

Names == Vars \cup Params \cup GeneratorNames \cup reservedSources
FaultNames == {"no new variable", "undeclared target", "undeclared read", "unused"}

\* Every fault Go can report of a statement is one of the names.
LEMMA FaultsTyped == ASSUME NEW st PROVE Faults(st) \subseteq FaultNames
  BY DEF Faults, If, FaultNames

\* An emitted statement keeps the scope typed if its names are.
LEMMA EmitTyped ==
    ASSUME NEW now, NEW st, Emit(now, st),
           scope \subseteq Names, faults \subseteq FaultNames, st.defs \subseteq Names
    PROVE  scope' \subseteq Names /\ faults' \subseteq FaultNames
  <1>1. scope' \subseteq Names
    BY DEF Emit, If
  <1>2. Faults(st) \subseteq FaultNames /\ Faults(Commit) \subseteq FaultNames
    BY FaultsTyped
  <1>3. faults' \subseteq FaultNames
    BY <1>2 DEF Emit, If
  <1>4. QED
    BY <1>1, <1>3

\* One iteration of the loop in go_handler.go advances by one sequence.
LEMMA StepTyped ==
    ASSUME TypeOK, Advance, i <= Len(f.seqs)
    PROVE  /\ f' = f /\ stage' = stage /\ i' = i + 1
           /\ f' \in Funcs /\ i' \in 1 .. Len(f'.seqs) + 1
           /\ stage' \in {"validate", "sequences", "done", "rejected"}
  <1> DEFINE n == Len(f.seqs)
  <1>1. n \in Nat /\ i \in 1 .. n + 1 /\ i <= n
    BY FuncFacts DEF TypeOK
  <1>2. f' = f /\ stage' = stage /\ i' = i + 1
    BY DEF Advance
  <1>3. Len(f'.seqs) = n
    BY <1>2
  <1> HIDE DEF n
  <1>4. i' \in 1 .. n + 1
    BY <1>1, <1>2
  <1>5. f' \in Funcs /\ stage' \in {"validate", "sequences", "done", "rejected"}
    BY <1>2 DEF TypeOK
  <1>6. QED
    BY <1>2, <1>3, <1>4, <1>5

\* Every step of the generator keeps the types.
LEMMA TypeStep == TypeOK /\ [Next]_genVars => TypeOK'
  <1> SUFFICES ASSUME TypeOK, [Next]_genVars PROVE TypeOK'
    OBVIOUS
  <1> USE DEF Names, FaultNames
  <1>1. CASE Reject
    BY <1>1 DEF Reject, TypeOK, tracking, go
  <1>2. CASE Prolog
    <2>1. PrologScope(f) \subseteq Names
      <3>1. f.path \subseteq Params
        BY FuncFacts DEF TypeOK
      <3>2. requestParams(f) \subseteq Params
        <4>1. \A k \in DOMAIN f.seqs : f.seqs[k].request \subseteq Params
          BY SeqFacts, FuncFacts DEF TypeOK
        <4>2. QED
          BY <4>1 DEF requestParams, Requested
      <3>3. QED
        BY <3>1, <3>2 DEF PrologScope, If, GeneratorNames, reservedSources
    <2>2. QED
      BY <1>2, <2>1 DEF Prolog, TypeOK
  <1>3. CASE GenSequence
    <2>1. PICK s \in {f.seqs[k] : k \in DOMAIN f.seqs} :
             GenResult(s) \/ GenExec(s) \/ GenInline(s) \/ GenGuard(s) \/ GenResponse(s)
      BY <1>3 DEF GenSequence
    <2>2. Current(s) /\ Advance
      BY <2>1 DEF GenResult, GenExec, GenInline, GenGuard, GenResponse
    <2>3. i \in 1 .. Len(f.seqs) /\ s = f.seqs[i]
      <3>1. Len(f.seqs) \in Nat /\ i \in 1 .. Len(f.seqs) + 1
        BY FuncFacts DEF TypeOK
      <3>2. i <= Len(f.seqs) /\ s = f.seqs[i]
        BY <2>2 DEF Current
      <3>3. QED
        BY <3>1, <3>2
    <2>4. s.result \in Vars \cup {None}
      BY <2>3, SeqFacts DEF TypeOK
    <2>5. /\ f' = f /\ f' \in Funcs /\ i' \in 1 .. Len(f'.seqs) + 1
          /\ stage' \in {"validate", "sequences", "done", "rejected"}
      <3>1. i <= Len(f.seqs)
        BY <2>2 DEF Current
      <3>2. QED
        BY <2>2, <3>1, StepTyped
    <2>6. scope \subseteq Names /\ faults \subseteq FaultNames
      BY DEF TypeOK
    <2>7. CASE GenResult(s)
      <3>1. scope' \subseteq Names /\ faults' \subseteq FaultNames
        BY <2>4, <2>6, <2>7, EmitTyped DEF GenResult, Stmt, If, GeneratorNames
      <3>2. s.result \in AllResults(f)
        BY <2>3, <2>7, FuncFacts DEF GenResult, AllResults, Results, TypeOK
      <3>3. QED
        BY <2>5, <2>7, <3>1, <3>2 DEF GenResult, TypeOK
    <2>8. CASE GenExec(s)
      <3>1. scope' \subseteq Names /\ faults' \subseteq FaultNames
        BY <2>6, <2>8, EmitTyped DEF GenExec, Stmt, GeneratorNames
      <3>2. QED
        BY <2>5, <2>8, <3>1 DEF GenExec, TypeOK
    <2>9. CASE GenInline(s)
      <3>1. scope' \subseteq Names /\ faults' \subseteq FaultNames
        BY <2>6, <2>9, EmitTyped DEF GenInline, Stmt, GeneratorNames
      <3>2. QED
        BY <2>5, <2>9, <3>1 DEF GenInline, TypeOK
    <2>10. CASE GenGuard(s)
      <3>1. scope' \subseteq Names /\ faults' \subseteq FaultNames
        BY <2>6, <2>10, EmitTyped DEF GenGuard, Stmt, GeneratorNames
      <3>2. QED
        BY <2>5, <2>10, <3>1 DEF GenGuard, TypeOK, tracking
    <2>11. CASE GenResponse(s)
      <3>1. scope' \subseteq Names /\ faults' \subseteq FaultNames
        BY <2>6, <2>11, EmitTyped DEF GenResponse, Stmt
      <3>2. committed' \in BOOLEAN
        BY <2>11 DEF GenResponse, TypeOK
      <3>3. QED
        BY <2>5, <2>11, <3>1, <3>2 DEF GenResponse, TypeOK
    <2>12. QED
      BY <2>1, <2>7, <2>8, <2>9, <2>10, <2>11
  <1>4. CASE Epilog
    <2>1. Faults(Commit) \subseteq FaultNames
      BY FaultsTyped
    <2>2. faults' \subseteq FaultNames
      BY <1>4, <2>1 DEF Epilog, If, TypeOK
    <2>3. QED
      BY <1>4, <2>2 DEF Epilog, TypeOK, tracking
  <1>5. CASE UNCHANGED genVars
    BY <1>5 DEF genVars, tracking, go, TypeOK
  <1>6. QED
    BY <1>1, <1>2, <1>3, <1>4, <1>5 DEF Next, GenNext, GenDone

\* go_handler.go and go_helpers.go keep every variable's type, along every
\* branch of the loop.
THEOREM TypeCorrect == Spec => []TypeOK
  <1>1. Init => TypeOK
    <2> SUFFICES ASSUME Init PROVE TypeOK
      OBVIOUS
    <2>1. Len(f.seqs) \in Nat
      BY FuncFacts DEF Init
    <2>2. 1 \in 1 .. Len(f.seqs) + 1
      BY <2>1
    <2>3. QED
      BY <2>2 DEF Init, TypeOK
  <1> QED
    BY <1>1, TypeStep, PTL DEF Spec

-----------------------------------------------------------------------------
(* Compiles.  The inductive invariant relates what the generator tracks to *)
(* the Go scope while the sequences are emitted.                           *)

Counted(g) == ~g.subscribe /\ hasConversionErr(g)
Bound(g) == ~g.subscribe /\ (PathConverts(g) \/ QueryConverts(g))

\* declaredVars holds the results so far; the used ones are in scope.
ScopeInv ==
    /\ declaredVars = Results(f, i - 1)
    /\ PrologScope(f) \subseteq scope
    /\ declaredVars \cap collectUsedVars(f) \subseteq scope
    /\ scope \subseteq PrologScope(f) \cup (declaredVars \cap collectUsedVars(f))
                   \cup {"err", "total"}

\* errDeclared says whether err is in scope, but for the two differences that
\* ErrTracked allows, until a statement repairs them.
ErrInv ==
    /\ useTx(f) \/ Counted(f) => errDeclared
    /\ \A m \in 1 .. i - 1 : f.seqs[m].type \notin Guards =>
          errDeclared /\ (~Inline(f.seqs[m]) => "err" \in scope)
    /\ "err" \in scope /\ ~errDeclared => Bound(f)
    /\ errDeclared /\ "err" \notin scope =>
          \E k \in 0 .. i - 1 :
             Repaired(f, k) /\ \A m \in k + 1 .. i - 1 : f.seqs[m].type \in Guards

\* total is in scope once a list was read with query.
TotalInv ==
    /\ funcHasTotal <=> \E m \in 1 .. i - 1 : HasTotal(f.seqs[m])
    /\ funcHasTotal <=> "total" \in scope

\* Everything the emitted sequences refer to has been read.
ReadInv ==
    \A m \in 1 .. i - 1 :
        /\ InputNames(f.seqs[m]) \subseteq reads
        /\ f.seqs[m].target # None => f.seqs[m].target \in reads
        /\ f.seqs[m].fields \ {"literal"} \subseteq reads
        /\ f.seqs[m].type = "response" /\ f.seqs[m].target = None
           /\ (\E h \in 1 .. m - 1 : HasTotal(f.seqs[h])) => "total" \in reads

CompileInv ==
    /\ stage = "validate" => /\ i = 1 /\ declaredVars = {} /\ faults = {}
                             /\ funcHasTotal = FALSE
    /\ stage = "rejected" => faults = {}
    /\ stage = "sequences" => Accepted(f)
    /\ Tracked(f) => faults = {}
    /\ Tracked(f) /\ stage = "sequences" => ScopeInv /\ ErrInv /\ TotalInv /\ ReadInv

\* What the lemmas below assume: the generator is about to emit sequence i.
AtSequence ==
    /\ f \in Funcs /\ i \in 1 .. Len(f.seqs) /\ Len(f.seqs) \in Nat
    /\ Accepted(f) /\ Tracked(f)
    /\ ScopeInv /\ ErrInv /\ TotalInv /\ ReadInv

\* validateVariableFlow and declaredVars see the same results.
LEMMA ResultsStep ==
    ASSUME NEW g, NEW k \in Nat
    PROVE  Results(g, k + 1) = Results(g, k) \cup ({g.seqs[k + 1].result} \ {None})
  <1>1. 1 .. (k + 1) = (1 .. k) \cup {k + 1}
    OBVIOUS
  <1>2. QED
    BY <1>1 DEF Results

\* A result so far is the result of an earlier sequence.
LEMMA ResultsPick ==
    ASSUME NEW g, NEW k, NEW v \in Results(g, k)
    PROVE  v # None /\ \E m \in 1 .. k : g.seqs[m].result = v
  BY DEF Results

\* Names a result cannot have, so that its := introduces it.
LEMMA ResultNames ==
    ASSUME f \in Funcs, Accepted(f), Tracked(f), NEW v \in AllResults(f)
    PROVE  /\ v \in Vars /\ v # "literal"
           /\ v \notin PrologScope(f) \cup GeneratorNames \cup reservedSources
  <1>1. v \in Vars
    <2>1. PICK m \in 1 .. Len(f.seqs) : f.seqs[m].result = v
      BY ResultsPick DEF AllResults
    <2>2. QED
      BY <2>1, SeqFacts, ResultsPick DEF AllResults
  <1>2. v # "literal"
    BY <1>1, NamesAssumption
  <1>3. v \notin Requested(f) \cup GeneratorNames /\ f.path \subseteq Requested(f)
    BY DEF Tracked, NamesTracked
  <1>4. v \notin reservedSources
    BY DEF Accepted, ReservedSourceOK
  <1>5. v \notin {"tx", "err", "opts", "currentUser", "message"}
    BY <1>3, <1>4 DEF GeneratorNames, reservedSources
  <1>6. v \notin f.path \cup requestParams(f)
    BY <1>3 DEF requestParams
  <1>7. v \notin PrologScope(f)
    BY <1>5, <1>6 DEF PrologScope, If
  <1>8. QED
    BY <1>1, <1>2, <1>3, <1>4, <1>7

\* Variable flow (validator.go:168) covers every name the templates read.
LEMMA DeclaredInScope ==
    ASSUME AtSequence, NEW x \in Declared(f, i), x \in collectUsedVars(f),
           x = "currentUser" => ~f.subscribe /\ needsCurrentUser(f)
    PROVE  x \in scope
  <1>1. CASE x \in Results(f, i - 1)
    BY <1>1 DEF AtSequence, ScopeInv
  <1>2. CASE x = "currentUser"
    BY <1>2 DEF AtSequence, ScopeInv, PrologScope, If
  <1>3. CASE f.subscribe /\ x = "message"
    BY <1>3 DEF AtSequence, ScopeInv, PrologScope, If
  <1>4. QED
    BY <1>1, <1>2, <1>3 DEF Declared

\* collectUsedVars (go_helpers.go:250) is the union over the sequences.
LEMMA UsedVars ==
    ASSUME NEW g \in Funcs
    PROVE  /\ \A k \in 1 .. Len(g.seqs) :
                 Mentions(g.seqs[k]) \ {None, "literal"} \subseteq collectUsedVars(g)
           /\ \A x \in collectUsedVars(g) :
                 \E k \in 1 .. Len(g.seqs) : x \in Mentions(g.seqs[k])
           /\ None \notin collectUsedVars(g) /\ "literal" \notin collectUsedVars(g)
  <1>1. DOMAIN g.seqs = 1 .. Len(g.seqs)
    BY FuncFacts
  <1> DEFINE D == 1 .. Len(g.seqs)
  <1>2. collectUsedVars(g) = (UNION {Mentions(g.seqs[k]) : k \in D}) \ {None, "literal"}
    BY <1>1 DEF collectUsedVars
  <1> HIDE DEF D
  <1>3. \A k \in D : Mentions(g.seqs[k]) \ {None, "literal"} \subseteq collectUsedVars(g)
    <2> SUFFICES ASSUME NEW k \in D, NEW x \in Mentions(g.seqs[k]), x \notin {None, "literal"}
                 PROVE  x \in collectUsedVars(g)
      OBVIOUS
    <2>1. Mentions(g.seqs[k]) \in {Mentions(g.seqs[j]) : j \in D}
      OBVIOUS
    <2>2. QED
      BY <1>2, <2>1
  <1>4. \A x \in collectUsedVars(g) : \E k \in D : x \in Mentions(g.seqs[k])
    BY <1>2
  <1>5. None \notin collectUsedVars(g) /\ "literal" \notin collectUsedVars(g)
    BY <1>2
  <1>6. QED
    BY <1>3, <1>4, <1>5 DEF D

\* Every name a statement of sequence i reads is in scope.
LEMMA ReadsInScope ==
    ASSUME AtSequence
    PROVE  /\ InputNames(f.seqs[i]) \subseteq scope
           /\ f.seqs[i].target # None => f.seqs[i].target \in scope
           /\ f.seqs[i].fields \ {"literal"} \subseteq scope
  <1> DEFINE s == f.seqs[i]
  <1>0. f \in Funcs /\ i \in 1 .. Len(f.seqs) /\ i \in DOMAIN f.seqs
    BY FuncFacts DEF AtSequence
  <1>1. /\ s.target \in Declared(f, i) \cup {None}
        /\ s.inputs \ {"literal", "query"} \subseteq Declared(f, i)
        /\ s.fields \ {"literal"} \subseteq Declared(f, i)
    BY <1>0 DEF AtSequence, Accepted, VariableFlowOK
  <1>2. None \notin Declared(f, i)
    BY DEF Declared, Results, None
  <1>3. "literal" \notin Declared(f, i)
    <2>1. "literal" \notin Results(f, i - 1)
      <3> SUFFICES ASSUME "literal" \in Results(f, i - 1) PROVE FALSE
        OBVIOUS
      <3>1. PICK m \in 1 .. i - 1 : f.seqs[m].result = "literal"
        BY ResultsPick
      <3>2. m \in 1 .. Len(f.seqs)
        BY DEF AtSequence
      <3>3. QED
        BY <1>0, <3>1, <3>2, SeqFacts, NamesAssumption DEF None
    <2>2. QED
      BY <2>1 DEF Declared
  <1>4. Mentions(s) \ {None, "literal"} \subseteq collectUsedVars(f)
    BY <1>0, UsedVars
  <1>5. /\ "currentUser" \in s.inputs => ~f.subscribe /\ needsCurrentUser(f)
        /\ "currentUser" \in s.fields \cup {s.target} => ~f.subscribe /\ needsCurrentUser(f)
        /\ s.type = "auth" => ~f.subscribe /\ needsCurrentUser(f)
    BY <1>0 DEF AtSequence, Tracked, NamesTracked, needsCurrentUser, Has
  <1>6. /\ f.subscribe => s.request = {} /\ "query" \notin s.inputs
    BY <1>0 DEF AtSequence, Accepted, SubscribeRulesOK
  <1>7. PrologScope(f) \subseteq scope
    BY DEF AtSequence, ScopeInv
  <1> HIDE DEF s
  <1>8. ASSUME NEW x \in s.inputs, x \notin {"literal", "query"} PROVE x \in scope
    <2>1. x \in Declared(f, i) /\ x \in collectUsedVars(f)
      BY <1>1, <1>2, <1>4, <1>8 DEF Mentions
    <2>2. QED
      BY <1>5, <2>1, DeclaredInScope
  <1>9. s.request \subseteq scope
    <2>1. s.request \subseteq Requested(f)
      BY <1>0 DEF Requested, s
    <2>2. ~f.subscribe => f.path \cup requestParams(f) \subseteq scope
      BY <1>7 DEF PrologScope
    <2>3. QED
      BY <1>6, <2>1, <2>2 DEF requestParams
  <1>10. "query" \in s.inputs => "opts" \in scope
    <2>1. "query" \in s.inputs => needsQueryOpts(f)
      BY <1>0 DEF needsQueryOpts, hasQueryInput, s
    <2>2. QED
      BY <1>6, <1>7, <2>1 DEF PrologScope, If
  <1>11. s.type = "auth" => "currentUser" \in scope
    BY <1>5, <1>7 DEF PrologScope, If
  <1>12. useTx(f) => "tx" \in scope
    BY <1>7 DEF PrologScope, If
  <1>13. InputNames(s) \subseteq scope
    BY <1>8, <1>9, <1>10, <1>11, <1>12 DEF InputNames, If
  <1>14. ASSUME NEW x \in s.fields, x # "literal" PROVE x \in scope
    <2>1. x \in Declared(f, i) /\ x \in collectUsedVars(f)
      BY <1>1, <1>2, <1>4, <1>14 DEF Mentions
    <2>2. QED
      BY <1>5, <2>1, DeclaredInScope
  <1>15. s.target # None => s.target \in scope
    <2> SUFFICES ASSUME s.target # None PROVE s.target \in scope
      OBVIOUS
    <2>1. s.target \in Declared(f, i) /\ s.target \in collectUsedVars(f)
      BY <1>1, <1>2, <1>3, <1>4 DEF Mentions
    <2>2. QED
      BY <1>5, <2>1, DeclaredInScope
  <1>16. QED
    BY <1>13, <1>14, <1>15 DEF s

-----------------------------------------------------------------------------
(* err: the three situations in which a template chooses := or =.          *)

\* A sequence that binds err, not being a := with a new result, finds err in
\* scope when errDeclared says so.
LEMMA ErrPresent ==
    ASSUME AtSequence, errDeclared,
           f.seqs[i].type \notin Guards, f.seqs[i].result \notin collectUsedVars(f)
    PROVE  "err" \in scope
  <1> SUFFICES ASSUME "err" \notin scope PROVE FALSE
    OBVIOUS
  <1>1. PICK k \in 0 .. i - 1 :
           Repaired(f, k) /\ \A m \in k + 1 .. i - 1 : f.seqs[m].type \in Guards
    BY DEF AtSequence, ErrInv
  <1>2. i \in k + 1 .. Len(f.seqs)
    BY DEF AtSequence
  <1>3. PICK j \in k + 1 .. i : f.seqs[j].result \in collectUsedVars(f)
    BY <1>1, <1>2 DEF Repaired
  <1>4. j \in k + 1 .. i - 1 /\ j \in 1 .. Len(f.seqs)
    BY <1>3 DEF AtSequence
  <1>5. f.seqs[j].type \in Guards
    BY <1>1, <1>4
  <1>6. f.seqs[j].result = None
    BY <1>4, <1>5, SeqFacts DEF AtSequence, Guards
  <1>7. QED
    BY <1>3, <1>6, UsedVars DEF AtSequence

\* ... and out of scope when errDeclared is still false.
LEMMA ErrAbsent ==
    ASSUME AtSequence, ~errDeclared, f.seqs[i].type \notin Guards,
           ~Inline(f.seqs[i]), f.seqs[i].result \notin collectUsedVars(f)
    PROVE  "err" \notin scope
  <1> SUFFICES ASSUME "err" \in scope PROVE FALSE
    OBVIOUS
  <1>1. Bound(f) /\ ~useTx(f) /\ ~Counted(f)
    BY DEF AtSequence, ErrInv
  <1>2. \A m \in DOMAIN f.seqs :
           \/ f.seqs[m].type \in Guards
           \/ \E j \in 1 .. m :
                 Inline(f.seqs[j]) \/ f.seqs[j].result \in collectUsedVars(f)
    BY <1>1 DEF AtSequence, Tracked, ErrTracked, Bound, Counted
  <1>3. i \in DOMAIN f.seqs
    BY FuncFacts DEF AtSequence
  <1>4. PICK j \in 1 .. i :
           Inline(f.seqs[j]) \/ f.seqs[j].result \in collectUsedVars(f)
    BY <1>2, <1>3
  <1>5. j \in 1 .. i - 1 /\ j \in 1 .. Len(f.seqs)
    BY <1>4 DEF AtSequence
  <1>6. f.seqs[j].type \notin Guards
    BY <1>4, <1>5, SeqFacts, UsedVars DEF AtSequence, Inline, Guards
  <1>7. QED
    BY <1>5, <1>6 DEF AtSequence, ErrInv

\* An if-scoped err that leaves errDeclared ahead of the scope is repaired.
LEMMA ErrInline ==
    ASSUME AtSequence, Inline(f.seqs[i]), "err" \notin scope
    PROVE  Repaired(f, i)
  <1>1. f.seqs[i].type \notin Guards /\ f.seqs[i].result \notin collectUsedVars(f)
    BY UsedVars DEF Inline, Guards, AtSequence
  <1>2. ~errDeclared
    BY <1>1, ErrPresent
  <1>3. ~useTx(f) /\ ~Counted(f)
    BY <1>2 DEF AtSequence, ErrInv
  <1>4. ~Bound(f)
    BY DEF AtSequence, ScopeInv, PrologScope, If, Bound
  <1>5. i \in DOMAIN f.seqs
    BY FuncFacts DEF AtSequence
  <1>6. \/ \E j \in 1 .. i - 1 : f.seqs[j].type \notin Guards /\ ~Inline(f.seqs[j])
        \/ Repaired(f, i)
    BY <1>3, <1>4, <1>5 DEF AtSequence, Tracked, ErrTracked, Bound, Counted
  <1>7. QED
    BY <1>2, <1>6 DEF AtSequence, ErrInv

-----------------------------------------------------------------------------
(* One lemma for each part of the invariant across an iteration.           *)

\* The statement of sequence i reads all that the sequence refers to.
LEMMA ReadStep ==
    ASSUME AtSequence, f' = f, i' = i + 1, reads \subseteq reads',
           InputNames(f.seqs[i]) \subseteq reads',
           f.seqs[i].target # None => f.seqs[i].target \in reads',
           f.seqs[i].fields \ {"literal"} \subseteq reads',
           f.seqs[i].type = "response" /\ f.seqs[i].target = None /\ funcHasTotal
              => "total" \in reads'
    PROVE  ReadInv'
  <1> DEFINE P(m, R) ==
        /\ InputNames(f.seqs[m]) \subseteq R
        /\ f.seqs[m].target # None => f.seqs[m].target \in R
        /\ f.seqs[m].fields \ {"literal"} \subseteq R
        /\ f.seqs[m].type = "response" /\ f.seqs[m].target = None
           /\ (\E h \in 1 .. m - 1 : HasTotal(f.seqs[h])) => "total" \in R
  <1>1. ReadInv' <=> \A m \in 1 .. (i + 1) - 1 : P(m, reads')
    BY DEF ReadInv, InputNames, useTx
  <1>2. ASSUME NEW m \in 1 .. i - 1 PROVE P(m, reads')
    <2>1. P(m, reads)
      BY <1>2 DEF AtSequence, ReadInv
    <2>2. QED
      BY <2>1
  <1>3. P(i, reads')
    BY DEF AtSequence, TotalInv
  <1>4. \A m \in 1 .. (i + 1) - 1 : m \in 1 .. i - 1 \/ m = i
    BY DEF AtSequence
  <1>5. QED
    BY <1>1, <1>2, <1>3, <1>4

\* ScopeInv when sequence i binds no result.
LEMMA ScopeStepNone ==
    ASSUME AtSequence, f' = f, i' = i + 1, f.seqs[i].result = None,
           declaredVars' = declaredVars, scope \subseteq scope',
           scope' \subseteq scope \cup {"err"}
    PROVE  ScopeInv'
  <1>1. Results(f, i) = Results(f, i - 1)
    <2>1. i - 1 \in Nat /\ (i - 1) + 1 = i
      BY DEF AtSequence
    <2>2. Results(f, (i - 1) + 1) = Results(f, i - 1) \cup ({f.seqs[(i - 1) + 1].result} \ {None})
      BY <2>1, ResultsStep
    <2>3. QED
      BY <2>1, <2>2
  <1>2. (i + 1) - 1 = i
    BY DEF AtSequence
  <1>3. Results(f', i' - 1) = declaredVars'
    BY <1>1, <1>2 DEF AtSequence, ScopeInv
  <1>4. PrologScope(f') = PrologScope(f) /\ collectUsedVars(f') = collectUsedVars(f)
    OBVIOUS
  <1>5. QED
    BY <1>3, <1>4 DEF AtSequence, ScopeInv

\* ErrInv when sequence i leaves err in scope and errDeclared set.
LEMMA ErrStepBound ==
    ASSUME AtSequence, f' = f, i' = i + 1, errDeclared' = TRUE,
           "err" \in scope'
    PROVE  ErrInv'
  BY DEF ErrInv

\* TotalInv when sequence i reads no list.
LEMMA TotalStepNone ==
    ASSUME AtSequence, f' = f, i' = i + 1, ~HasTotal(f.seqs[i]),
           funcHasTotal' = funcHasTotal, "total" \in scope' <=> "total" \in scope
    PROVE  TotalInv'
  <1>1. 1 .. i' - 1 = (1 .. i - 1) \cup {i}
    BY DEF AtSequence
  <1>2. QED
    BY <1>1 DEF AtSequence, TotalInv

\* A guard or a response: err and the scope are left alone.
LEMMA ErrStepGuard ==
    ASSUME AtSequence, f' = f, i' = i + 1, f.seqs[i].type \in Guards,
           errDeclared' = errDeclared, scope' = scope
    PROVE  ErrInv'
  <1>1. \A m \in 1 .. i' - 1 : m \in 1 .. i - 1 \/ m = i
    BY DEF AtSequence
  <1>2. useTx(f') \/ Counted(f') => errDeclared'
    BY DEF AtSequence, ErrInv
  <1>3. \A m \in 1 .. i' - 1 : f'.seqs[m].type \notin Guards =>
           errDeclared' /\ (~Inline(f'.seqs[m]) => "err" \in scope')
    BY <1>1 DEF AtSequence, ErrInv
  <1>4. "err" \in scope' /\ ~errDeclared' => Bound(f')
    BY DEF AtSequence, ErrInv
  <1>5. ASSUME errDeclared', "err" \notin scope'
        PROVE  \E k \in 0 .. i' - 1 :
                  Repaired(f', k) /\ \A m \in k + 1 .. i' - 1 : f'.seqs[m].type \in Guards
    <2>1. PICK k \in 0 .. i - 1 :
             Repaired(f, k) /\ \A m \in k + 1 .. i - 1 : f.seqs[m].type \in Guards
      BY <1>5 DEF AtSequence, ErrInv
    <2>2. k \in 0 .. i' - 1
      BY DEF AtSequence
    <2>3. \A m \in k + 1 .. i' - 1 : m \in k + 1 .. i - 1 \/ m = i
      BY DEF AtSequence
    <2>4. QED
      BY <2>1, <2>2, <2>3
  <1>6. QED
    BY <1>2, <1>3, <1>4, <1>5 DEF ErrInv

\* An if-scoped err: errDeclared is set, the scope is left alone.
LEMMA ErrStepInline ==
    ASSUME AtSequence, f' = f, i' = i + 1, Inline(f.seqs[i]),
           errDeclared' = TRUE, scope' = scope
    PROVE  ErrInv'
  <1>1. \A m \in 1 .. i' - 1 : m \in 1 .. i - 1 \/ m = i
    BY DEF AtSequence
  <1>2. \A m \in 1 .. i' - 1 : f'.seqs[m].type \notin Guards =>
           errDeclared' /\ (~Inline(f'.seqs[m]) => "err" \in scope')
    BY <1>1 DEF AtSequence, ErrInv
  <1>3. ASSUME "err" \notin scope'
        PROVE  \E k \in 0 .. i' - 1 :
                  Repaired(f', k) /\ \A m \in k + 1 .. i' - 1 : f'.seqs[m].type \in Guards
    <2>1. Repaired(f', i)
      BY <1>3, ErrInline
    <2>2. i \in 0 .. i' - 1 /\ \A m \in i + 1 .. i' - 1 : FALSE
      BY DEF AtSequence
    <2>3. QED
      BY <2>1, <2>2
  <1>4. QED
    BY <1>2, <1>3 DEF ErrInv

-----------------------------------------------------------------------------
(* One lemma for each template.                                            *)

\* The Go rules are met by a statement that obeys them.
LEMMA NoFault ==
    ASSUME NEW st, st.uses \subseteq scope,
           st.assign = ":=" => ~(st.defs \subseteq scope),
           st.assign \in {"=", "if ="} => st.defs \subseteq scope
    PROVE  Faults(st) = {}
  BY DEF Faults, If

\* The Commit block finds tx and err declared by BeginTx.
LEMMA CommitClean == ASSUME AtSequence, useTx(f) PROVE Faults(Commit) = {}
  <1>1. {"tx", "err"} \subseteq scope
    BY DEF AtSequence, ScopeInv, PrologScope, If
  <1>2. QED
    BY <1>1, NoFault DEF Commit, Stmt

StepDone == faults' = {} /\ ScopeInv' /\ ErrInv' /\ TotalInv' /\ ReadInv'

\* put, delete, publish.
LEMMA ExecStep ==
    ASSUME AtSequence, faults = {}, GenExec(f.seqs[i])
    PROVE  StepDone
  <1> DEFINE s == f.seqs[i]
             st == Stmt(s.type, i, {"err"}, IF errDeclared THEN "=" ELSE ":=", InputNames(s))
  <1>0. f' = f /\ i' = i + 1 /\ f \in Funcs /\ i \in 1 .. Len(f.seqs)
    BY DEF GenExec, Advance, AtSequence
  <1>1. /\ s.type \in {"put", "delete", "publish"} /\ s.result = None /\ s.target = None
        /\ s.fields = {}
    BY <1>0, SeqFacts DEF GenExec
  <1>2. s.type \notin Guards /\ ~Inline(s) /\ s.result \notin collectUsedVars(f)
    BY <1>0, <1>1, UsedVars DEF Guards, Inline
  <1>3. IF errDeclared THEN "err" \in scope ELSE "err" \notin scope
    BY <1>2, ErrPresent, ErrAbsent
  <1>4. Faults(st) = {}
    BY <1>3, ReadsInScope, NoFault DEF Stmt
  <1>5. /\ scope' = scope \cup {"err"} /\ faults' = faults \cup Faults(st)
        /\ reads' = reads \cup InputNames(s)
    BY <1>3 DEF GenExec, Emit, If, Stmt
  <1>6. /\ errDeclared' = TRUE /\ declaredVars' = declaredVars
        /\ funcHasTotal' = funcHasTotal
    BY DEF GenExec
  <1>7. ScopeInv'
    BY <1>0, <1>1, <1>5, <1>6, ScopeStepNone
  <1>8. ErrInv'
    BY <1>0, <1>5, <1>6, ErrStepBound
  <1>9. TotalInv'
    BY <1>0, <1>1, <1>5, <1>6, TotalStepNone DEF HasTotal
  <1>10. ReadInv'
    BY <1>0, <1>1, <1>5, ReadStep
  <1>11. QED
    BY <1>4, <1>5, <1>7, <1>8, <1>9, <1>10 DEF StepDone

\* auth, call_no_result.
LEMMA InlineStep ==
    ASSUME AtSequence, faults = {}, GenInline(f.seqs[i])
    PROVE  StepDone
  <1> DEFINE s == f.seqs[i]
             st == Stmt(s.type, i, {"err"}, IF errDeclared THEN "if =" ELSE "if :=",
                        InputNames(s))
  <1>0. f' = f /\ i' = i + 1 /\ f \in Funcs /\ i \in 1 .. Len(f.seqs)
    BY DEF GenInline, Advance, AtSequence
  <1>1. /\ s.type \in {"auth", "call"} /\ s.result = None /\ s.target = None
        /\ s.fields = {}
    BY <1>0, SeqFacts DEF GenInline
  <1>2. s.type \notin Guards /\ Inline(s) /\ s.result \notin collectUsedVars(f)
    BY <1>0, <1>1, UsedVars DEF Guards, Inline
  <1>3. errDeclared => "err" \in scope
    BY <1>2, ErrPresent
  <1>4. Faults(st) = {}
    BY <1>3, ReadsInScope, NoFault DEF Stmt
  <1>5. /\ scope' = scope /\ faults' = faults \cup Faults(st)
        /\ reads' = reads \cup InputNames(s)
    BY DEF GenInline, Emit, If, Stmt
  <1>6. /\ errDeclared' = TRUE /\ declaredVars' = declaredVars
        /\ funcHasTotal' = funcHasTotal
    BY DEF GenInline
  <1>7. ScopeInv'
    BY <1>0, <1>1, <1>5, <1>6, ScopeStepNone
  <1>8. ErrInv'
    BY <1>0, <1>2, <1>5, <1>6, ErrStepInline
  <1>9. TotalInv'
    BY <1>0, <1>1, <1>5, <1>6, TotalStepNone DEF HasTotal
  <1>10. ReadInv'
    BY <1>0, <1>1, <1>5, ReadStep
  <1>11. QED
    BY <1>4, <1>5, <1>7, <1>8, <1>9, <1>10 DEF StepDone

\* state, empty, exists.
LEMMA GuardStep ==
    ASSUME AtSequence, faults = {}, GenGuard(f.seqs[i])
    PROVE  StepDone
  <1> DEFINE s == f.seqs[i]
             st == IF s.type = "state" THEN Stmt("state", i, {"err"}, "if :=", InputNames(s))
                                       ELSE Stmt(s.type, i, {}, "none", {s.target})
  <1>0. f' = f /\ i' = i + 1 /\ f \in Funcs /\ i \in 1 .. Len(f.seqs) /\ i \in DOMAIN f.seqs
    BY FuncFacts DEF GenGuard, Advance, AtSequence
  <1>1. /\ s.type \in {"state", "empty", "exists"} /\ s.result = None /\ s.fields = {}
    BY <1>0, SeqFacts DEF GenGuard
  <1>2. /\ s.type = "state" => s.target = None
        /\ s.type # "state" => s.target # None /\ s.inputs \cup s.request = {}
    BY <1>0, <1>1, SeqFacts DEF AtSequence, Accepted, RequiredFieldsOK
  <1>3. s.type # "state" => InputNames(s) = {}
    BY <1>1, <1>2 DEF InputNames, If, ModelTypes, WriteTypes
  <1>4. st.uses \subseteq scope /\ st.assign \in {"if :=", "none"}
    BY <1>2, ReadsInScope DEF Stmt
  <1>5. Faults(st) = {}
    BY <1>4, NoFault
  <1>6. /\ scope' = scope /\ faults' = faults \cup Faults(st)
        /\ reads' = reads \cup st.uses
    BY <1>4 DEF GenGuard, Emit, If
  <1>7. /\ errDeclared' = errDeclared /\ declaredVars' = declaredVars
        /\ funcHasTotal' = funcHasTotal
    BY DEF GenGuard, tracking
  <1>8. InputNames(s) \subseteq reads' /\ (s.target # None => s.target \in reads')
    BY <1>2, <1>3, <1>6 DEF Stmt
  <1>9. ScopeInv'
    BY <1>0, <1>1, <1>6, <1>7, ScopeStepNone
  <1>10. ErrInv'
    BY <1>0, <1>1, <1>6, <1>7, ErrStepGuard DEF Guards
  <1>11. TotalInv'
    BY <1>0, <1>1, <1>6, <1>7, TotalStepNone DEF HasTotal
  <1>12. ReadInv'
    BY <1>0, <1>1, <1>6, <1>8, ReadStep
  <1>13. QED
    BY <1>5, <1>6, <1>9, <1>10, <1>11, <1>12 DEF StepDone

\* response, response_direct, and the Commit before them.
LEMMA ResponseStep ==
    ASSUME AtSequence, faults = {}, GenResponse(f.seqs[i])
    PROVE  StepDone
  <1> DEFINE s == f.seqs[i]
             u == IF s.target # None THEN {s.target}
                  ELSE (s.fields \ {"literal"}) \cup If(funcHasTotal, {"total"})
             st == Stmt("response", i, {}, "none", u)
             now == useTx(f) /\ ~committed
  <1>0. f' = f /\ i' = i + 1 /\ f \in Funcs /\ i \in 1 .. Len(f.seqs)
    BY DEF GenResponse, Advance, AtSequence
  <1>1. /\ s.type = "response" /\ s.result = None /\ s.inputs \cup s.request = {}
        /\ s.target # None => s.fields = {}
    BY <1>0, SeqFacts DEF GenResponse
  <1>2. InputNames(s) = {}
    BY <1>1 DEF InputNames, If, ModelTypes, WriteTypes
  <1>3. u \subseteq scope
    BY ReadsInScope DEF AtSequence, TotalInv, If
  <1>4. Faults(st) = {}
    BY <1>3, NoFault DEF Stmt
  <1>5. now => Faults(Commit) = {}
    BY CommitClean
  <1>6. /\ scope' = scope
        /\ faults' = faults \cup Faults(st) \cup If(now, Faults(Commit))
        /\ reads \cup u \subseteq reads'
    BY DEF GenResponse, ResponseNames, Emit, If, Stmt
  <1>7. /\ errDeclared' = errDeclared /\ declaredVars' = declaredVars
        /\ funcHasTotal' = funcHasTotal
    BY DEF GenResponse
  <1>8. faults' = {}
    BY <1>4, <1>5, <1>6 DEF If
  <1>9. ScopeInv'
    BY <1>0, <1>1, <1>6, <1>7, ScopeStepNone
  <1>10. ErrInv'
    BY <1>0, <1>1, <1>6, <1>7, ErrStepGuard DEF Guards
  <1>11. TotalInv'
    BY <1>0, <1>1, <1>6, <1>7, TotalStepNone DEF HasTotal
  <1>12. /\ s.target # None => s.target \in reads'
         /\ s.fields \ {"literal"} \subseteq reads'
         /\ s.target = None /\ funcHasTotal => "total" \in reads'
    BY <1>1, <1>6 DEF If
  <1>13. ReadInv'
    BY <1>0, <1>1, <1>2, <1>6, <1>12, ReadStep
  <1>14. QED
    BY <1>8, <1>9, <1>10, <1>11, <1>13 DEF StepDone

\* get, post, call_with_result.
LEMMA ResultStep ==
    ASSUME AtSequence, faults = {}, GenResult(f.seqs[i])
    PROVE  StepDone
  <1> DEFINE s == f.seqs[i]
             v == s.result
             total == s.type = "get" /\ HasTotal(s)
             defs == {"err"} \cup If(~Unused(s), {v}) \cup If(total, {"total"})
             assign == IF ReAssign(s) THEN "=" ELSE ":="
             st == Stmt(s.type, i, defs, assign, InputNames(s))
  <1>0. /\ f' = f /\ i' = i + 1 /\ f \in Funcs /\ i \in 1 .. Len(f.seqs)
        /\ i \in DOMAIN f.seqs
    BY FuncFacts DEF GenResult, Advance, AtSequence
  <1>1. /\ v # None /\ s.type \in {"get", "post", "call"} /\ s.target = None
        /\ s.fields = {}
    BY <1>0, SeqFacts DEF GenResult
  <1>2. s.type \notin Guards /\ ~Inline(s)
    BY <1>1 DEF Guards, Inline
  <1>3. v \in AllResults(f)
    BY <1>0, <1>1 DEF AllResults, Results
  <1>4. /\ v \notin PrologScope(f) \cup GeneratorNames
        /\ v \notin {"err", "total"}
    BY <1>3, ResultNames DEF AtSequence, GeneratorNames
  <1>5. declaredVars = Results(f, i - 1)
    BY DEF AtSequence, ScopeInv
  <1>6. HasTotal(s) => total /\ ~Unused(s) /\ ~ReAssign(s)
    BY <1>0, <1>5 DEF AtSequence, Tracked, TotalTracked, Unused, ReAssign
  <1>7. v \in declaredVars => "err" \in scope
    <2> SUFFICES ASSUME v \in declaredVars PROVE "err" \in scope
      OBVIOUS
    <2>1. PICK m \in 1 .. i - 1 : f.seqs[m].result = v
      BY <1>5, ResultsPick
    <2>2. m \in 1 .. Len(f.seqs)
      BY <1>0 DEF AtSequence
    <2>3. f.seqs[m].type \notin Guards /\ ~Inline(f.seqs[m])
      BY <1>0, <1>1, <2>1, <2>2, SeqFacts DEF Guards, Inline
    <2>4. QED
      BY <2>1, <2>3 DEF AtSequence, ErrInv
  <1>8. ReAssign(s) => "err" \in scope
    BY <1>2, <1>7, ErrPresent DEF ReAssign, Unused
  <1>9. ~ReAssign(s) /\ Unused(s) => "err" \notin scope
    BY <1>2, ErrAbsent DEF ReAssign, Unused
  <1>10. ~ReAssign(s) => v \notin scope
    BY <1>4 DEF ReAssign, AtSequence, ScopeInv
  <1>11. ReAssign(s) /\ ~Unused(s) => v \in scope
    BY DEF ReAssign, Unused, AtSequence, ScopeInv
  <1>12. ReAssign(s) => defs \subseteq scope
    BY <1>6, <1>8, <1>11 DEF If
  <1>13. ~ReAssign(s) => ~(defs \subseteq scope)
    BY <1>9, <1>10 DEF If
  <1>14. st.uses = InputNames(s) /\ st.defs = defs /\ st.assign = assign
    BY DEF Stmt
  <1>15. /\ scope' = scope \cup If(st.assign = ":=", st.defs)
         /\ faults' = faults \cup Faults(st) \cup If(FALSE, Faults(Commit))
         /\ reads' = reads \cup st.uses \cup If(FALSE, Commit.uses)
    BY DEF GenResult, Emit
  <1>16. /\ errDeclared' = TRUE /\ declaredVars' = declaredVars \cup {v}
         /\ funcHasTotal' = (funcHasTotal \/ HasTotal(s))
    BY DEF GenResult
  <1> HIDE DEF st
  <1>17. Faults(st) = {}
    BY <1>12, <1>13, <1>14, ReadsInScope, NoFault
  <1>18. faults' = {}
    BY <1>15, <1>17 DEF If
  <1>19. scope' = scope \cup defs
    <2>1. CASE ReAssign(s)
      BY <2>1, <1>12, <1>14, <1>15 DEF If
    <2>2. CASE ~ReAssign(s)
      BY <2>2, <1>14, <1>15 DEF If
    <2>3. QED
      BY <2>1, <2>2
  <1>20. ScopeInv'
    <2>1. Results(f', i' - 1) = declaredVars'
      <3>1. i - 1 \in Nat /\ (i - 1) + 1 = i /\ (i + 1) - 1 = i
        BY <1>0 DEF AtSequence
      <3>2. Results(f, (i - 1) + 1) =
               Results(f, i - 1) \cup ({f.seqs[(i - 1) + 1].result} \ {None})
        BY <3>1, ResultsStep
      <3>3. QED
        BY <1>0, <1>1, <1>5, <1>16, <3>1, <3>2
    <2>2. PrologScope(f') = PrologScope(f) /\ collectUsedVars(f') = collectUsedVars(f)
      BY <1>0
    <2>3. PrologScope(f) \subseteq scope'
      BY <1>19 DEF AtSequence, ScopeInv
    <2>4. declaredVars' \cap collectUsedVars(f) \subseteq scope'
      BY <1>16, <1>19 DEF AtSequence, ScopeInv, Unused, If
    <2>5. scope' \subseteq PrologScope(f) \cup (declaredVars' \cap collectUsedVars(f))
                           \cup {"err", "total"}
      BY <1>16, <1>19 DEF AtSequence, ScopeInv, Unused, If
    <2>6. QED
      BY <2>1, <2>2, <2>3, <2>4, <2>5 DEF ScopeInv
  <1>21. ErrInv'
    BY <1>0, <1>16, <1>19, ErrStepBound
  <1>22. TotalInv'
    <2>1. 1 .. i' - 1 = (1 .. i - 1) \cup {i}
      BY <1>0 DEF AtSequence
    <2>2. "total" \in scope' <=> ("total" \in scope \/ HasTotal(s))
      BY <1>4, <1>6, <1>19 DEF If
    <2>3. QED
      BY <1>0, <1>16, <2>1, <2>2 DEF AtSequence, TotalInv
  <1>23. ReadInv'
    BY <1>0, <1>1, <1>14, <1>15, ReadStep
  <1>24. QED
    BY <1>18, <1>20, <1>21, <1>22, <1>23 DEF StepDone

\* The prolog: signature, parameters, QueryOpts and BeginTx establish the
\* invariant before the first sequence.
LEMMA PrologStep ==
    ASSUME f \in Funcs, i = 1, declaredVars = {}, funcHasTotal = FALSE, faults = {},
           Tracked(f), Prolog
    PROVE  StepDone
  <1>0. /\ f' = f /\ i' = 1 /\ declaredVars' = {} /\ funcHasTotal' = FALSE
        /\ faults' = {} /\ scope' = PrologScope(f)
        /\ errDeclared' = (useTx(f) \/ Counted(f))
    BY DEF Prolog, Counted
  <1>1. 1 .. i' - 1 = {}
    BY <1>0
  <1>2. f.path \cup requestParams(f) \subseteq Params
    <2>1. \A k \in DOMAIN f.seqs : f.seqs[k].request \subseteq Params
      BY SeqFacts, FuncFacts
    <2>2. QED
      BY <2>1, FuncFacts DEF requestParams, Requested
  <1>3. "err" \notin Params /\ "total" \notin Params
    BY NamesAssumption DEF GeneratorNames
  <1>4. "err" \in PrologScope(f) <=> useTx(f) \/ Bound(f)
    BY <1>2, <1>3 DEF PrologScope, If, Bound
  <1>5. "total" \notin PrologScope(f)
    BY <1>2, <1>3 DEF PrologScope, If
  <1>6. ScopeInv'
    <2>1. Results(f', i' - 1) = {}
      BY <1>1 DEF Results
    <2>2. QED
      BY <1>0, <2>1 DEF ScopeInv
  <1>7. ErrInv'
    <2>1. "err" \in scope' /\ ~errDeclared' => Bound(f')
      BY <1>0, <1>4
    <2>2. ASSUME errDeclared', "err" \notin scope'
          PROVE  \E k \in 0 .. i' - 1 :
                    Repaired(f', k) /\ \A m \in k + 1 .. i' - 1 : f'.seqs[m].type \in Guards
      <3>1. ~useTx(f) /\ Counted(f) /\ ~Bound(f)
        BY <1>0, <1>4, <2>2
      <3>2. Repaired(f, 0)
        BY <3>1 DEF Tracked, ErrTracked, Counted, Bound
      <3>3. 0 \in 0 .. i' - 1 /\ 0 + 1 .. i' - 1 = {}
        BY <1>0
      <3>4. QED
        BY <1>0, <3>2, <3>3
    <2>3. QED
      BY <1>0, <1>1, <2>1, <2>2 DEF ErrInv
  <1>8. TotalInv'
    BY <1>0, <1>1, <1>5 DEF TotalInv
  <1>9. ReadInv'
    BY <1>1 DEF ReadInv
  <1>10. QED
    BY <1>0, <1>6, <1>7, <1>8, <1>9 DEF StepDone

\* The epilog: Commit finds its names, and Go finds no unused variable.
LEMMA EpilogStep ==
    ASSUME f \in Funcs, i \in 1 .. Len(f.seqs) + 1, faults = {},
           Accepted(f), Tracked(f), ScopeInv, TotalInv, ReadInv, Epilog
    PROVE  faults' = {}
  <1> DEFINE now == useTx(f) /\ ~committed
             tested == {"err", "message"} \cup If(now, Commit.uses)
  <1>0. Len(f.seqs) \in Nat /\ DOMAIN f.seqs = 1 .. Len(f.seqs) /\ i - 1 = Len(f.seqs)
    BY FuncFacts DEF Epilog
  <1>1. now => Faults(Commit) = {}
    <2> SUFFICES ASSUME now PROVE Faults(Commit) = {}
      OBVIOUS
    <2>1. {"tx", "err"} \subseteq scope
      BY DEF ScopeInv, PrologScope, If
    <2>2. QED
      BY <2>1, NoFault DEF Commit, Stmt
  <1>2. ASSUME NEW m \in DOMAIN f.seqs
        PROVE  /\ InputNames(f.seqs[m]) \subseteq reads
               /\ f.seqs[m].target # None => f.seqs[m].target \in reads
               /\ f.seqs[m].fields \ {"literal"} \subseteq reads
               /\ f.seqs[m].type = "response" /\ f.seqs[m].target = None
                  /\ (\E h \in 1 .. m - 1 : HasTotal(f.seqs[h])) => "total" \in reads
    BY <1>0, <1>2 DEF ReadInv
  <1>3. ASSUME NEW m \in DOMAIN f.seqs
        PROVE  /\ f.seqs[m].masked \subseteq {"currentUser", "literal"}
               /\ f.seqs[m].masked # {} => f.seqs[m].type = "auth"
    BY <1>0, <1>3, SeqFacts DEF Tracked, NamesTracked
  <1>4. Requested(f) \subseteq reads
    <2>1. \A m \in DOMAIN f.seqs : f.seqs[m].request \subseteq reads
      BY <1>2 DEF InputNames
    <2>2. QED
      BY <2>1 DEF Requested
  <1>5. needsCurrentUser(f) => "currentUser" \in reads
    BY <1>2, <1>3 DEF needsCurrentUser, Has, InputNames, If
  <1>6. needsQueryOpts(f) => "opts" \in reads
    BY <1>2, <1>3 DEF needsQueryOpts, hasQueryInput, InputNames, If
  <1>7. useTx(f) => "tx" \in reads
    BY <1>2 DEF useTx, Has, InputNames, If, ModelTypes
  <1>8. PrologScope(f) \subseteq reads \cup {"err", "message"}
    <2>1. f.path \cup requestParams(f) \subseteq reads
      BY <1>4 DEF requestParams, Tracked, NamesTracked
    <2>2. QED
      BY <1>5, <1>6, <1>7, <2>1 DEF PrologScope, If
  <1>9. ASSUME NEW x \in declaredVars, x \in collectUsedVars(f) PROVE x \in reads
    <2>1. x \in AllResults(f)
      BY <1>0, <1>9 DEF ScopeInv, AllResults
    <2>2. x # "literal" /\ x \notin reservedSources /\ x # None
      BY <2>1, ResultNames, NamesAssumption
    <2>3. PICK m \in DOMAIN f.seqs : x \in Mentions(f.seqs[m])
      BY <1>0, <1>9, UsedVars
    <2>4. x \notin f.seqs[m].masked
      BY <1>3, <2>2 DEF reservedSources
    <2>5. QED
      BY <1>2, <2>2, <2>3, <2>4 DEF Mentions, InputNames, reservedSources
  <1>10. "total" \in scope => "total" \in reads
    <2> SUFFICES ASSUME "total" \in scope PROVE "total" \in reads
      OBVIOUS
    <2>1. PICK m \in 1 .. i - 1 : HasTotal(f.seqs[m])
      BY DEF TotalInv
    <2>2. PICK j \in m + 1 .. Len(f.seqs) :
             f.seqs[j].type = "response" /\ f.seqs[j].target = None
      BY <1>0, <2>1 DEF Tracked, TotalTracked
    <2>3. m \in 1 .. j - 1 /\ j \in DOMAIN f.seqs
      BY <1>0
    <2>4. QED
      BY <1>2, <2>1, <2>2, <2>3
  <1>11. scope \subseteq reads \cup tested
    BY <1>8, <1>9, <1>10 DEF ScopeInv
  <1>12. faults' = faults \cup If(now, Faults(Commit))
                          \cup If(~(scope \subseteq reads \cup tested), {"unused"})
    BY DEF Epilog
  <1>13. QED
    BY <1>1, <1>11, <1>12 DEF If

\* One iteration of the loop keeps the invariant.
LEMMA SequenceStep ==
    ASSUME TypeOK, CompileInv, GenSequence
    PROVE  /\ f' = f /\ stage' = stage /\ stage = "sequences"
           /\ Tracked(f) => StepDone
  <1>1. PICK s \in {f.seqs[k] : k \in DOMAIN f.seqs} :
           GenResult(s) \/ GenExec(s) \/ GenInline(s) \/ GenGuard(s) \/ GenResponse(s)
    BY DEF GenSequence
  <1>2. Current(s) /\ Advance
    BY <1>1 DEF GenResult, GenExec, GenInline, GenGuard, GenResponse
  <1>3. f' = f /\ stage' = stage /\ stage = "sequences"
    BY <1>2 DEF Current, Advance
  <1>4. ASSUME Tracked(f) PROVE StepDone
    <2>1. f \in Funcs /\ Len(f.seqs) \in Nat /\ i \in 1 .. Len(f.seqs) + 1
      BY FuncFacts DEF TypeOK
    <2>2. i \in 1 .. Len(f.seqs) /\ s = f.seqs[i]
      BY <1>2, <2>1 DEF Current
    <2>3. AtSequence /\ faults = {}
      BY <1>3, <1>4, <2>1, <2>2 DEF AtSequence, CompileInv
    <2>4. QED
      BY <1>1, <2>2, <2>3, ResultStep, ExecStep, InlineStep, GuardStep, ResponseStep
  <1>5. QED
    BY <1>3, <1>4

\* README "`:=` vs `=` tracking" and "Unused variable `_` handling": a service
\* function of any length on which the tracking is exact compiles, whatever the
\* order of its sequences.
THEOREM GeneratedCompiles == Spec => []Compiles
  <1>1. Init => CompileInv
    BY DEF Init, CompileInv
  <1>2. TypeOK /\ CompileInv /\ [Next]_genVars => CompileInv'
    <2> SUFFICES ASSUME TypeOK, CompileInv, [Next]_genVars PROVE CompileInv'
      OBVIOUS
    <2>1. CASE Reject
      BY <2>1 DEF Reject, CompileInv, tracking, go
    <2>2. CASE Prolog
      <3>1. f' = f /\ stage' = "sequences" /\ Accepted(f) /\ stage = "validate"
        BY <2>2 DEF Prolog
      <3>2. f \in Funcs /\ i = 1 /\ declaredVars = {} /\ funcHasTotal = FALSE /\ faults = {}
        BY <3>1 DEF TypeOK, CompileInv
      <3>3. Tracked(f) => StepDone
        BY <2>2, <3>2, PrologStep
      <3>4. QED
        BY <3>1, <3>3 DEF CompileInv, StepDone
    <2>3. CASE GenSequence
      <3>1. f' = f /\ stage' = stage /\ stage = "sequences" /\ (Tracked(f) => StepDone)
        BY <2>3, SequenceStep
      <3>2. Accepted(f)
        BY <3>1 DEF CompileInv
      <3>3. QED
        BY <3>1, <3>2 DEF CompileInv, StepDone
    <2>4. CASE Epilog
      <3>1. f' = f /\ stage' = "done" /\ stage = "sequences"
        BY <2>4 DEF Epilog
      <3>2. Tracked(f) => faults' = {}
        BY <2>4, <3>1, EpilogStep DEF TypeOK, CompileInv
      <3>3. QED
        BY <3>1, <3>2 DEF CompileInv
    <2>5. CASE UNCHANGED genVars
      <3>1. /\ f' = f /\ stage' = stage /\ i' = i /\ errDeclared' = errDeclared
            /\ declaredVars' = declaredVars /\ funcHasTotal' = funcHasTotal
            /\ scope' = scope /\ reads' = reads /\ faults' = faults
        BY <2>5 DEF genVars, tracking, go
      <3>2. /\ (ScopeInv => ScopeInv') /\ (ErrInv => ErrInv')
            /\ (TotalInv => TotalInv') /\ (ReadInv => ReadInv')
        BY <3>1 DEF ScopeInv, ErrInv, TotalInv, ReadInv, InputNames, HasTotal
      <3>3. QED
        BY <3>1, <3>2 DEF CompileInv
    <2>6. QED
      BY <2>1, <2>2, <2>3, <2>4, <2>5 DEF Next, GenNext, GenDone
  <1>3. CompileInv => Compiles
    BY DEF CompileInv, Compiles
  <1>4. QED
    BY <1>1, <1>2, <1>3, TypeCorrect, PTL DEF Spec

-----------------------------------------------------------------------------
(* How the emitted function is laid out: a prolog, then one statement for  *)
(* each sequence in the order of the sequences, and for a function that    *)
(* writes one Commit, before the first response.                           *)

Ops == SeqTypes \cup {"bind", "begin", "commit"}
Stmts ==
    [op : Ops, seq : Nat, defs : SUBSET Names,
     assign : {"none", ":=", "=", "if :=", "if ="},
     uses : SUBSET (Names \cup Sources \cup {None})]

\* The first n sequences of g, and no others, are in b, in order.
Ordered(g, b, n) ==
    /\ \A k \in 1 .. Len(b) :
          IF b[k].op \in SeqTypes
          THEN b[k].seq \in 1 .. n /\ g.seqs[b[k].seq].type = b[k].op
          ELSE b[k].seq = 0
    /\ \A k, m \in 1 .. Len(b) :
          k < m /\ b[k].op \in SeqTypes /\ b[m].op \in SeqTypes => b[k].seq < b[m].seq
    /\ \A s \in 1 .. n : \E k \in 1 .. Len(b) : b[k].seq = s

\* BeginTx comes first and Commit, written iff c, before every response.
TxPlaced(g, b, c) ==
    /\ useTx(g) => \E k \in 1 .. Len(b) : b[k].op = "begin"
    /\ c => \E k \in 1 .. Len(b) : b[k].op = "commit"
    /\ \A k \in 1 .. Len(b) :
          /\ b[k].op = "begin" => useTx(g)
          /\ b[k].op = "commit" => useTx(g) /\ c
          /\ b[k].op = "response" => c \/ ~useTx(g)
    /\ \A k, m \in 1 .. Len(b) :
          /\ b[k].op \in {"bind", "begin"} /\ b[m].op \in SeqTypes \cup {"commit"} => k < m
          /\ b[k].op = "commit" /\ b[m].op = "commit" => k = m
          /\ b[k].op = "commit" /\ b[m].op = "response" => k < m
          /\ ResponseLast(g) /\ b[k].op = "commit" /\ k < m => b[m].op = "response"

Layout(g, b, n, c) == b \in Seq(Stmts) /\ Ordered(g, b, n) /\ TxPlaced(g, b, c)

LayoutInv ==
    /\ stage \in {"validate", "rejected"} => i = 1 /\ ~committed
    /\ stage \in {"sequences", "done"} => Accepted(f)
    /\ stage = "sequences" => Layout(f, body, i - 1, committed)
    /\ stage = "done" => i = Len(f.seqs) + 1 /\ Layout(f, body, Len(f.seqs), useTx(f))
    /\ committed => useTx(f)
    /\ committed /\ ResponseLast(f) => i = Len(f.seqs) + 1
    /\ stage = "validate" => body = <<>>

-----------------------------------------------------------------------------
\* Writing one more statement.
LEMMA AppendFacts ==
    ASSUME NEW S, NEW b \in Seq(S), NEW st \in S
    PROVE  /\ b \o <<st>> \in Seq(S)
           /\ Len(b \o <<st>>) = Len(b) + 1 /\ Len(b) \in Nat
           /\ \A k \in 1 .. Len(b) : (b \o <<st>>)[k] = b[k]
           /\ (b \o <<st>>)[Len(b) + 1] = st
  OBVIOUS

\* The statement of sequence n + 1 keeps the layout.
LEMMA LayoutSequence ==
    ASSUME NEW g, NEW b, NEW n \in Nat, NEW c \in BOOLEAN, Layout(g, b, n, c),
           NEW st \in Stmts, st.op \in SeqTypes, st.seq = n + 1,
           g.seqs[n + 1].type = st.op,
           st.op = "response" /\ useTx(g) => c,
           ResponseLast(g) /\ c => st.op = "response"
    PROVE  Layout(g, b \o <<st>>, n + 1, c)
  <1> DEFINE d == b \o <<st>>
             N == Len(b)
  <1>1. /\ d \in Seq(Stmts) /\ Len(d) = N + 1 /\ N \in Nat
        /\ \A k \in 1 .. N : d[k] = b[k]
        /\ d[N + 1] = st
    BY AppendFacts DEF Layout
  <1>2. \A k \in 1 .. N + 1 : k \in 1 .. N \/ k = N + 1
    BY <1>1
  <1>3. Ordered(g, b, n) /\ TxPlaced(g, b, c)
    BY DEF Layout
  <1>4. st.op \notin {"bind", "begin", "commit"}
    BY DEF SeqTypes, ModelTypes, WriteTypes
  <1> HIDE DEF d, N
  <1>5. Ordered(g, d, n + 1)
    <2>1. ASSUME NEW k \in 1 .. N + 1
          PROVE  IF d[k].op \in SeqTypes
                 THEN d[k].seq \in 1 .. n + 1 /\ g.seqs[d[k].seq].type = d[k].op
                 ELSE d[k].seq = 0
      <3>1. CASE k \in 1 .. N
        BY <1>1, <1>3, <3>1 DEF Ordered, N
      <3>2. CASE k = N + 1
        BY <1>1, <3>2
      <3> QED
        BY <1>2, <3>1, <3>2
    <2>2. ASSUME NEW k \in 1 .. N + 1, NEW m \in 1 .. N + 1, k < m,
                 d[k].op \in SeqTypes, d[m].op \in SeqTypes
          PROVE  d[k].seq < d[m].seq
      <3>1. k \in 1 .. N /\ d[k] = b[k]
        BY <1>1, <2>2
      <3>2. CASE m \in 1 .. N
        BY <1>1, <1>3, <2>2, <3>1, <3>2 DEF Ordered, N
      <3>3. CASE m = N + 1
        <4>1. b[k].seq \in 1 .. n
          BY <1>3, <2>2, <3>1 DEF Ordered, N
        <4> QED
          BY <1>1, <3>1, <3>3, <4>1
      <3> QED
        BY <1>2, <3>2, <3>3
    <2>3. ASSUME NEW s \in 1 .. n + 1
          PROVE  \E k \in 1 .. N + 1 : d[k].seq = s
      <3>1. CASE s \in 1 .. n
        <4>1. PICK k \in 1 .. N : b[k].seq = s
          BY <1>3, <3>1 DEF Ordered, N
        <4> QED
          BY <1>1, <4>1
      <3>2. CASE s = n + 1
        BY <1>1, <3>2
      <3> QED
        BY <3>1, <3>2
    <2> QED
      BY <1>1, <2>1, <2>2, <2>3 DEF Ordered
  <1>6. TxPlaced(g, d, c)
    <2>1. /\ useTx(g) => \E k \in 1 .. N + 1 : d[k].op = "begin"
          /\ c => \E k \in 1 .. N + 1 : d[k].op = "commit"
      BY <1>1, <1>3 DEF TxPlaced, N
    <2>2. ASSUME NEW k \in 1 .. N + 1
          PROVE  /\ d[k].op = "begin" => useTx(g)
                 /\ d[k].op = "commit" => useTx(g) /\ c
                 /\ d[k].op = "response" => c \/ ~useTx(g)
      <3>1. CASE k \in 1 .. N
        BY <1>1, <1>3, <3>1 DEF TxPlaced, N
      <3>2. CASE k = N + 1
        BY <1>1, <1>4, <3>2
      <3> QED
        BY <1>2, <3>1, <3>2
    <2>3. ASSUME NEW k \in 1 .. N + 1, NEW m \in 1 .. N + 1
          PROVE  /\ d[k].op \in {"bind", "begin"} /\ d[m].op \in SeqTypes \cup {"commit"} => k < m
                 /\ d[k].op = "commit" /\ d[m].op = "commit" => k = m
                 /\ d[k].op = "commit" /\ d[m].op = "response" => k < m
                 /\ ResponseLast(g) /\ d[k].op = "commit" /\ k < m => d[m].op = "response"
      <3>1. CASE k \in 1 .. N /\ m \in 1 .. N
        BY <1>1, <1>3, <3>1 DEF TxPlaced, N
      <3>2. CASE k = N + 1
        BY <1>1, <1>4, <3>2
      <3>3. CASE k \in 1 .. N /\ m = N + 1
        <4>1. b[k].op = "commit" => c
          BY <1>3, <3>3 DEF TxPlaced, N
        <4> QED
          BY <1>1, <1>4, <3>3, <4>1
      <3> QED
        BY <1>2, <3>1, <3>2, <3>3
    <2> QED
      BY <1>1, <2>1, <2>2, <2>3 DEF TxPlaced
  <1> QED
    BY <1>1, <1>5, <1>6 DEF Layout, d

\* The Commit block keeps it, and is the first one.
LEMMA LayoutCommit ==
    ASSUME NEW g, NEW b, NEW n \in Nat, Layout(g, b, n, FALSE), useTx(g)
    PROVE  Layout(g, b \o <<Commit>>, n, TRUE)
  <1> DEFINE d == b \o <<Commit>>
             N == Len(b)
  <1>0. Commit \in Stmts /\ Commit.op = "commit" /\ Commit.seq = 0
    BY DEF Commit, Stmt, Stmts, Ops, Names, GeneratorNames
  <1>1. /\ d \in Seq(Stmts) /\ Len(d) = N + 1 /\ N \in Nat
        /\ \A k \in 1 .. N : d[k] = b[k]
        /\ d[N + 1] = Commit
    BY <1>0, AppendFacts DEF Layout
  <1>2. \A k \in 1 .. N + 1 : k \in 1 .. N \/ k = N + 1
    BY <1>1
  <1>3. Ordered(g, b, n) /\ TxPlaced(g, b, FALSE)
    BY DEF Layout
  <1>4. "commit" \notin SeqTypes
    BY DEF SeqTypes, ModelTypes, WriteTypes
  <1>5. \A k \in 1 .. N : b[k].op # "commit" /\ b[k].op # "response"
    BY <1>3 DEF TxPlaced, N
  <1> HIDE DEF d, N
  <1>6. Ordered(g, d, n)
    <2>1. ASSUME NEW k \in 1 .. N + 1
          PROVE  IF d[k].op \in SeqTypes
                 THEN d[k].seq \in 1 .. n /\ g.seqs[d[k].seq].type = d[k].op
                 ELSE d[k].seq = 0
      <3>1. CASE k \in 1 .. N
        BY <1>1, <1>3, <3>1 DEF Ordered, N
      <3>2. CASE k = N + 1
        BY <1>0, <1>1, <1>4, <3>2
      <3> QED
        BY <1>2, <3>1, <3>2
    <2>2. ASSUME NEW k \in 1 .. N + 1, NEW m \in 1 .. N + 1, k < m,
                 d[k].op \in SeqTypes, d[m].op \in SeqTypes
          PROVE  d[k].seq < d[m].seq
      <3>1. k \in 1 .. N /\ m \in 1 .. N
        BY <1>0, <1>1, <1>2, <1>4, <2>2
      <3> QED
        BY <1>1, <1>3, <2>2, <3>1 DEF Ordered, N
    <2>3. ASSUME NEW s \in 1 .. n
          PROVE  \E k \in 1 .. N + 1 : d[k].seq = s
      <3>1. PICK k \in 1 .. N : b[k].seq = s
        BY <1>3 DEF Ordered, N
      <3> QED
        BY <1>1, <3>1
    <2> QED
      BY <1>1, <2>1, <2>2, <2>3 DEF Ordered
  <1>7. TxPlaced(g, d, TRUE)
    <2>1. /\ \E k \in 1 .. N + 1 : d[k].op = "begin"
          /\ \E k \in 1 .. N + 1 : d[k].op = "commit"
      BY <1>0, <1>1, <1>3 DEF TxPlaced, N
    <2>2. ASSUME NEW k \in 1 .. N + 1, NEW m \in 1 .. N + 1
          PROVE  /\ d[k].op \in {"bind", "begin"} /\ d[m].op \in SeqTypes \cup {"commit"} => k < m
                 /\ d[k].op = "commit" /\ d[m].op = "commit" => k = m
                 /\ d[k].op = "commit" /\ d[m].op = "response" => k < m
                 /\ ResponseLast(g) /\ d[k].op = "commit" /\ k < m => d[m].op = "response"
      <3>1. CASE k \in 1 .. N /\ m \in 1 .. N
        BY <1>1, <1>3, <3>1 DEF TxPlaced, N
      <3>2. CASE k = N + 1 /\ m \in 1 .. N
        BY <1>0, <1>1, <1>5, <3>2
      <3>3. CASE k \in 1 .. N /\ m = N + 1
        BY <1>0, <1>1, <1>5, <3>3
      <3>4. CASE k = N + 1 /\ m = N + 1
        BY <1>0, <1>1, <3>4
      <3> QED
        BY <1>2, <3>1, <3>2, <3>3, <3>4
    <2> QED
      BY <1>1, <2>1, <2>2 DEF TxPlaced
  <1> QED
    BY <1>1, <1>6, <1>7 DEF Layout, d

-----------------------------------------------------------------------------
\* What a statement names is a name of the model.
LEMMA InputNamesTyped ==
    ASSUME f \in Funcs, NEW k \in 1 .. Len(f.seqs)
    PROVE  InputNames(f.seqs[k]) \subseteq Names \cup Sources
  <1>1. f.seqs[k].inputs \subseteq Sources /\ f.seqs[k].request \subseteq Params
    BY SeqFacts
  <1> QED
    BY <1>1 DEF InputNames, If, Names, GeneratorNames, reservedSources

\* Emit appends one statement, or Commit and one statement.
LEMMA EmitBody ==
    ASSUME body \in Seq(Stmts), NEW st \in Stmts
    PROVE  /\ Emit(FALSE, st) => body' = body \o <<st>>
           /\ Emit(TRUE, st) => body' = (body \o <<Commit>>) \o <<st>>
  <1>1. body \o <<>> = body
    OBVIOUS
  <1> QED
    BY <1>1 DEF Emit, Committing

\* Inside the loop i is the index of a sequence.
LEMMA LoopIndex ==
    ASSUME TypeOK, i <= Len(f.seqs)
    PROVE  Len(f.seqs) \in Nat /\ i \in 1 .. Len(f.seqs) /\ i \in Nat /\ f \in Funcs
  <1>1. f \in Funcs /\ Len(f.seqs) \in Nat
    BY FuncFacts DEF TypeOK
  <1>2. i \in 1 .. Len(f.seqs) + 1
    BY DEF TypeOK
  <1> QED
    BY <1>1, <1>2

\* The loop body (go_handler.go:86) keeps the layout: the statement of sequence
\* i follows the ones of the sequences before it.
LEMMA LayoutIteration ==
    ASSUME TypeOK, LayoutInv, stage = "sequences", i <= Len(f.seqs), Advance,
           NEW now \in BOOLEAN, NEW st \in Stmts, Emit(now, st),
           st.op = f.seqs[i].type, st.seq = i,
           now <=> (useTx(f) /\ ~committed /\ st.op = "response"),
           committed' = (committed \/ now)
    PROVE  LayoutInv'
  <1>1. Len(f.seqs) \in Nat /\ i \in 1 .. Len(f.seqs)
    BY LoopIndex
  <1>2. st.op \in SeqTypes
    BY <1>1, SeqFacts DEF TypeOK
  <1>3. f' = f /\ stage' = "sequences" /\ i' = i + 1 /\ committed \in BOOLEAN
    BY DEF Advance, TypeOK
  <1>4. Layout(f, body, i - 1, committed) /\ body \in Seq(Stmts)
    BY DEF LayoutInv, Layout
  <1>5. st.op = "response" /\ ResponseLast(f) => i = Len(f.seqs)
    BY <1>1, FuncFacts DEF ResponseLast, TypeOK
  <1>6. ResponseLast(f) => ~committed
    BY <1>1 DEF LayoutInv
  <1>7. i - 1 \in Nat /\ (i - 1) + 1 = i /\ i' - 1 = i
    BY <1>1, <1>3
  <1>8. Layout(f, body', i, committed')
    <2>1. CASE now
      <3>1. ~committed /\ useTx(f) /\ committed' = TRUE /\ st.op = "response"
        BY <2>1
      <3>2. Layout(f, body \o <<Commit>>, i - 1, TRUE)
        <4>1. committed = FALSE
          BY <1>3, <3>1
        <4>2. Layout(f, body, i - 1, FALSE)
          BY <1>4, <4>1
        <4> QED
          BY <1>7, <3>1, <4>2, LayoutCommit
      <3>3. Layout(f, (body \o <<Commit>>) \o <<st>>, (i - 1) + 1, TRUE)
        <4> HIDE DEF Layout
        <4> QED
          BY <1>2, <1>7, <3>1, <3>2, LayoutSequence
      <3>4. body' = (body \o <<Commit>>) \o <<st>>
        BY <1>4, <2>1, EmitBody
      <3> QED
        BY <1>7, <3>1, <3>3, <3>4
    <2>2. CASE ~now
      <3>1. committed' = committed /\ body' = body \o <<st>>
        BY <1>3, <1>4, <2>2, EmitBody
      <3>2. st.op = "response" /\ useTx(f) => committed
        BY <2>2
      <3>3. Layout(f, body \o <<st>>, (i - 1) + 1, committed)
        BY <1>2, <1>3, <1>4, <1>6, <1>7, <3>2, LayoutSequence
      <3> QED
        BY <1>7, <3>1, <3>3
    <2> QED
      BY <2>1, <2>2
  <1>9. committed' => useTx(f)
    BY DEF LayoutInv
  <1>10. committed' /\ ResponseLast(f) => i' = Len(f.seqs) + 1
    BY <1>1, <1>3, <1>5, <1>6
  <1> QED
    BY <1>3, <1>7, <1>8, <1>9, <1>10 DEF LayoutInv

\* GenerateFunc's loop, one branch for each kind of template.
LEMMA LayoutGenSequence ==
    ASSUME TypeOK, LayoutInv, GenSequence
    PROVE  LayoutInv'
  <1>1. PICK s \in {f.seqs[k] : k \in DOMAIN f.seqs} :
           GenResult(s) \/ GenExec(s) \/ GenInline(s) \/ GenGuard(s) \/ GenResponse(s)
    BY DEF GenSequence
  <1>2. Current(s) /\ Advance
    BY <1>1 DEF GenResult, GenExec, GenInline, GenGuard, GenResponse
  <1>3. stage = "sequences" /\ i <= Len(f.seqs) /\ s = f.seqs[i]
    BY <1>2 DEF Current
  <1>4. Len(f.seqs) \in Nat /\ i \in 1 .. Len(f.seqs) /\ i \in Nat /\ f \in Funcs
    BY <1>3, LoopIndex
  <1>5. InputNames(s) \subseteq Names \cup Sources
    BY <1>3, <1>4, InputNamesTyped
  <1>6. /\ s.type \in SeqTypes /\ s.result \in Vars \cup {None}
        /\ s.fields \subseteq Sources
        /\ s.target \in Names \cup {None}
        /\ s.result # None => s.type \in {"get", "post", "call"}
        /\ s.target # None => s.type \in {"empty", "exists", "response"}
    <2>1. s.target \in Vars \cup {None, "currentUser", "message"}
      <3>1. f.seqs \in Seq(ParsedSequence)
        BY <1>4, FuncsAssumption DEF ServiceFunc
      <3>2. s \in Sequence
        BY <1>3, <1>4, <3>1 DEF ParsedSequence
      <3> HIDE <1>3
      <3> QED
        BY <3>2 DEF Sequence
    <2> QED
      BY <1>3, <1>4, <2>1, SeqFacts DEF Names, reservedSources
  <1>7. SeqTypes \subseteq Ops /\ committed \in BOOLEAN
    BY DEF Ops, TypeOK
  <1>8. CASE GenResult(s)
    <2> DEFINE st == Stmt(s.type, i, {"err"} \cup If(~Unused(s), {s.result})
                             \cup If(s.type = "get" /\ HasTotal(s), {"total"}),
                          IF ReAssign(s) THEN "=" ELSE ":=", InputNames(s))
    <2>1. s.result \in Vars /\ Emit(FALSE, st) /\ committed' = committed
      BY <1>6, <1>8 DEF GenResult
    <2>2. st \in Stmts /\ st.op = s.type /\ st.seq = i
      BY <1>4, <1>5, <1>6, <1>7, <2>1 DEF Stmt, Stmts, If, Names, GeneratorNames
    <2>3. s.type # "response"
      BY <1>6, <2>1, <1>8 DEF GenResult
    <2> HIDE DEF st
    <2> QED
      BY <1>2, <1>3, <1>7, <2>1, <2>2, <2>3, LayoutIteration
  <1>9. CASE GenExec(s)
    <2> DEFINE st == Stmt(s.type, i, {"err"}, IF errDeclared THEN "=" ELSE ":=",
                          InputNames(s))
    <2>1. Emit(FALSE, st) /\ committed' = committed /\ s.type # "response"
      BY <1>9 DEF GenExec
    <2>2. st \in Stmts /\ st.op = s.type /\ st.seq = i
      BY <1>4, <1>5, <1>6, <1>7 DEF Stmt, Stmts, Names, GeneratorNames
    <2> HIDE DEF st
    <2> QED
      BY <1>2, <1>3, <1>7, <2>1, <2>2, LayoutIteration
  <1>10. CASE GenInline(s)
    <2> DEFINE st == Stmt(s.type, i, {"err"}, IF errDeclared THEN "if =" ELSE "if :=",
                          InputNames(s))
    <2>1. Emit(FALSE, st) /\ committed' = committed /\ s.type # "response"
      BY <1>10 DEF GenInline
    <2>2. st \in Stmts /\ st.op = s.type /\ st.seq = i
      BY <1>4, <1>5, <1>6, <1>7 DEF Stmt, Stmts, Names, GeneratorNames
    <2> HIDE DEF st
    <2> QED
      BY <1>2, <1>3, <1>7, <2>1, <2>2, LayoutIteration
  <1>11. CASE GenGuard(s)
    <2> DEFINE st == IF s.type = "state"
                     THEN Stmt("state", i, {"err"}, "if :=", InputNames(s))
                     ELSE Stmt(s.type, i, {}, "none", {s.target})
    <2>1. Emit(FALSE, st) /\ committed' = committed /\ s.type # "response"
      BY <1>11 DEF GenGuard, tracking
    <2>2. st \in Stmts /\ st.op = s.type /\ st.seq = i
      <3>1. CASE s.type = "state"
        BY <1>4, <1>5, <1>6, <1>7, <3>1 DEF Stmt, Stmts, Names, GeneratorNames
      <3>2. CASE s.type # "state"
        BY <1>4, <1>6, <1>7, <3>2 DEF Stmt, Stmts
      <3> QED
        BY <3>1, <3>2
    <2> HIDE DEF st
    <2> QED
      BY <1>2, <1>3, <1>7, <2>1, <2>2, LayoutIteration
  <1>12. CASE GenResponse(s)
    <2> DEFINE st == Stmt("response", i, {}, "none", ResponseNames(s))
               now == useTx(f) /\ ~committed
    <2>1. Emit(now, st) /\ committed' = (committed \/ useTx(f)) /\ s.type = "response"
      BY <1>12 DEF GenResponse
    <2>2. ResponseNames(s) \subseteq Names \cup Sources \cup {None}
      BY <1>6 DEF ResponseNames, If, Names, GeneratorNames
    <2>3. st \in Stmts /\ st.op = s.type /\ st.seq = i
      BY <1>4, <1>6, <1>7, <2>1, <2>2 DEF Stmt, Stmts
    <2>4. now \in BOOLEAN /\ committed' = (committed \/ now)
      BY <1>7, <2>1 DEF useTx, Has
    <2>5. now <=> (useTx(f) /\ ~committed /\ st.op = "response")
      BY <2>1, <2>3
    <2> HIDE DEF st, now
    <2> QED
      BY <1>2, <1>3, <2>1, <2>3, <2>4, <2>5, LayoutIteration
  <1> QED
    BY <1>1, <1>8, <1>9, <1>10, <1>11, <1>12

\* The prolog binds the request and begins the transaction of a function that
\* writes.
LEMMA LayoutProlog ==
    ASSUME TypeOK, LayoutInv, Prolog
    PROVE  LayoutInv'
  <1> DEFINE Binding == Stmt("bind", 0, {}, "none", {})
             Begin == Stmt("begin", 0, {"tx", "err"}, ":=", {})
             P == IF ~f.subscribe /\ (PathConverts(f) \/ QueryConverts(f) \/ jsonBody(f))
                  THEN <<Binding>> ELSE <<>>
             Q == IF useTx(f) THEN <<Begin>> ELSE <<>>
  <1>1. /\ body' = P \o Q /\ f' = f /\ i' = i /\ stage' = "sequences"
        /\ committed' = committed /\ Accepted(f)
        /\ i = 1 /\ ~committed /\ committed \in BOOLEAN
    BY DEF Prolog, LayoutInv, TypeOK
  <1>2. /\ Binding \in Stmts /\ Binding.op = "bind" /\ Binding.seq = 0
        /\ Begin \in Stmts /\ Begin.op = "begin" /\ Begin.seq = 0
    BY DEF Stmt, Stmts, Ops, Names, GeneratorNames
  <1> HIDE DEF Binding, Begin
  <1>3. P \in {<<>>, <<Binding>>} /\ (useTx(f) => Q = <<Begin>>) /\ (~useTx(f) => Q = <<>>)
    OBVIOUS
  <1> HIDE DEF P, Q
  <1> DEFINE b == P \o Q
  <1>4. /\ b \in Seq(Stmts)
        /\ \A k \in 1 .. Len(b) : b[k] = Binding \/ (b[k] = Begin /\ useTx(f))
        /\ useTx(f) => \E k \in 1 .. Len(b) : b[k] = Begin
    <2>1. CASE P = <<>> /\ ~useTx(f)
      BY <1>2, <1>3, <2>1
    <2>2. CASE P = <<Binding>> /\ ~useTx(f)
      BY <1>2, <1>3, <2>2
    <2>3. CASE P = <<>> /\ useTx(f)
      <3>1. b = <<Begin>>
        BY <1>2, <1>3, <2>3
      <3> HIDE DEF b
      <3>2. Len(b) = 1 /\ b[1] = Begin /\ b \in Seq(Stmts)
        BY <1>2, <3>1
      <3> QED
        BY <2>3, <3>2
    <2>4. CASE P = <<Binding>> /\ useTx(f)
      <3>0. <<Binding>> \in Seq(Stmts)
        BY <1>2
      <3>1. b = <<Binding>> \o <<Begin>>
        BY <1>3, <2>4, Zenon
      <3> HIDE DEF b
      <3>2. Len(<<Binding>>) = 1 /\ <<Binding>>[1] = Binding
        OBVIOUS
      <3>3. Len(b) = 2 /\ b[1] = Binding /\ b[2] = Begin /\ b \in Seq(Stmts)
        BY <1>2, <3>0, <3>1, <3>2, AppendFacts
      <3> QED
        BY <2>4, <3>3
    <2> QED
      BY <1>3, <2>1, <2>2, <2>3, <2>4
  <1> HIDE DEF b
  <1>5. {"bind", "begin", "commit", "response"} \cap SeqTypes = {"response"}
    BY DEF SeqTypes, ModelTypes, WriteTypes
  <1>6. Ordered(f, b, 0)
    BY <1>2, <1>4, <1>5 DEF Ordered
  <1>7. TxPlaced(f, b, FALSE)
    BY <1>2, <1>4, <1>5 DEF TxPlaced
  <1>8. Layout(f, b, 0, FALSE)
    BY <1>4, <1>6, <1>7 DEF Layout
  <1>9. body' = b /\ i' - 1 = 0 /\ committed' = FALSE
    BY <1>1 DEF b
  <1> QED
    BY <1>1, <1>8, <1>9 DEF LayoutInv

\* The epilog commits what no response committed.
LEMMA LayoutEpilog ==
    ASSUME TypeOK, LayoutInv, Epilog
    PROVE  LayoutInv'
  <1>1. /\ f' = f /\ i' = i /\ stage = "sequences" /\ stage' = "done" /\ committed' = committed
        /\ i > Len(f.seqs) /\ body' = body \o Committing(useTx(f) /\ ~committed)
    BY DEF Epilog, tracking
  <1>2. i = Len(f.seqs) + 1 /\ i - 1 = Len(f.seqs) /\ Len(f.seqs) \in Nat
    <2>1. f \in Funcs /\ Len(f.seqs) \in Nat
      BY FuncFacts DEF TypeOK
    <2>2. i \in 1 .. Len(f.seqs) + 1
      BY DEF TypeOK
    <2> QED
      BY <1>1, <2>1, <2>2
  <1>3. /\ Layout(f, body, Len(f.seqs), committed) /\ body \in Seq(Stmts) /\ Accepted(f)
        /\ committed => useTx(f)
    BY <1>1, <1>2 DEF LayoutInv, Layout
  <1>4. committed \in BOOLEAN /\ useTx(f) \in BOOLEAN
    BY DEF TypeOK, useTx, Has
  <1>5. Layout(f, body', Len(f.seqs), useTx(f))
    <2>1. CASE useTx(f) /\ ~committed
      <3>1. body' = body \o <<Commit>>
        BY <1>1, <2>1 DEF Committing
      <3>2. Layout(f, body, Len(f.seqs), FALSE)
        <4>1. committed = FALSE
          BY <1>4, <2>1
        <4> QED
          BY <1>3, <4>1
      <3>3. Layout(f, body', Len(f.seqs), TRUE) /\ useTx(f) = TRUE
        BY <1>2, <1>4, <2>1, <3>1, <3>2, LayoutCommit
      <3> QED
        BY <3>3
    <2>2. CASE ~(useTx(f) /\ ~committed)
      <3>1. body' = body
        BY <1>1, <1>3, <2>2 DEF Committing
      <3>2. useTx(f) = committed
        BY <1>3, <1>4, <2>2
      <3> QED
        BY <1>3, <3>1, <3>2
    <2> QED
      BY <2>1, <2>2
  <1> QED
    BY <1>1, <1>2, <1>3, <1>5 DEF LayoutInv

\* The layout holds at every step of the generator.
LEMMA LayoutStep == TypeOK /\ LayoutInv /\ [Next]_genVars => LayoutInv'
  <1> SUFFICES ASSUME TypeOK, LayoutInv, [Next]_genVars PROVE LayoutInv'
    OBVIOUS
  <1>1. CASE Reject
    BY <1>1 DEF Reject, LayoutInv, tracking
  <1>2. CASE UNCHANGED genVars
    BY <1>2 DEF genVars, tracking, LayoutInv
  <1> QED
    BY <1>1, <1>2, LayoutProlog, LayoutGenSequence, LayoutEpilog
    DEF Next, GenNext, GenDone

\* No function has been generated yet.
LEMMA LayoutInit == Init => LayoutInv
  BY DEF Init, LayoutInv

\* SAFETY.  For every set of functions of any length: the statements of a
\* generated function keep the layout of LayoutInv, in the order GenerateFunc and
\* the templates emit them.
THEOREM GeneratedLayout == Spec => []LayoutInv
  BY LayoutInit, LayoutStep, TypeCorrect, PTL DEF Spec

-----------------------------------------------------------------------------
\* A finished function that writes has one Commit.
LEMMA OneCommit ==
    ASSUME TypeOK, LayoutInv, stage = "done"
    PROVE  Cardinality(At("commit")) = IF useTx(f) THEN 1 ELSE 0
  <1>1. body \in Seq(Stmts) /\ TxPlaced(f, body, useTx(f))
    BY DEF LayoutInv, Layout
  <1>2. DOMAIN body = 1 .. Len(body)
    BY <1>1
  <1>3. CASE useTx(f)
    <2>1. PICK c \in 1 .. Len(body) : body[c].op = "commit"
      BY <1>1, <1>3 DEF TxPlaced
    <2>2. At("commit") = {c}
      BY <1>1, <1>2, <2>1 DEF At, TxPlaced
    <2> QED
      BY <1>3, <2>2, FS_Singleton
  <1>4. CASE ~useTx(f)
    <2>1. At("commit") = {}
      BY <1>1, <1>2, <1>4 DEF At, TxPlaced
    <2> QED
      BY <1>4, <2>1, FS_EmptySet
  <1> QED
    BY <1>3, <1>4

\* go_handler.go:86-134: for functions of any length, a finished function that
\* writes has exactly one Commit, before every response, and with the response
\* last every model call lies between BeginTx and Commit.
THEOREM CommitIsPlaced == Spec => []CommitPlaced
  <1>1. TypeOK /\ LayoutInv => CommitPlaced
    <2> SUFFICES ASSUME TypeOK, LayoutInv, stage = "done"
                 PROVE  /\ Cardinality(At("commit")) = IF useTx(f) THEN 1 ELSE 0
                        /\ \A c \in At("commit") :
                              /\ \A r \in At("response") : c < r
                              /\ ResponseLast(f) =>
                                    \A k \in DOMAIN body : body[k].op \in ModelTypes =>
                                        k < c /\ \E b \in At("begin") : b < k
      BY DEF CommitPlaced
    <2>1. body \in Seq(Stmts) /\ TxPlaced(f, body, useTx(f))
      BY DEF LayoutInv, Layout
    <2>2. DOMAIN body = 1 .. Len(body) /\ Len(body) \in Nat
      BY <2>1
    <2>3. ASSUME NEW c \in At("commit"), NEW r \in At("response")
          PROVE  c < r
      BY <2>1, <2>2 DEF At, TxPlaced
    <2>4. ASSUME NEW c \in At("commit"), ResponseLast(f), NEW k \in DOMAIN body,
                 body[k].op \in ModelTypes
          PROVE  k < c /\ \E b \in At("begin") : b < k
      <3>1. c \in 1 .. Len(body) /\ body[c].op = "commit" /\ k \in 1 .. Len(body)
        BY <2>2 DEF At
      <3>2. body[k].op \in SeqTypes /\ body[k].op # "response" /\ body[k].op # "commit"
        BY <2>4 DEF SeqTypes, ModelTypes, WriteTypes
      <3>3. ~(c < k)
        BY <2>1, <2>4, <3>1, <3>2 DEF TxPlaced
      <3>4. k < c
        BY <2>2, <3>1, <3>2, <3>3
      <3>5. useTx(f)
        BY <2>1, <3>1 DEF TxPlaced
      <3>6. PICK b \in 1 .. Len(body) : body[b].op = "begin"
        BY <2>1, <3>5 DEF TxPlaced
      <3>7. b < k
        BY <2>1, <3>1, <3>2, <3>6 DEF TxPlaced
      <3> QED
        BY <2>2, <3>4, <3>6, <3>7 DEF At
    <2> QED
      BY <2>3, <2>4, OneCommit
  <1> QED
    BY <1>1, GeneratedLayout, TypeCorrect, PTL

-----------------------------------------------------------------------------
(* A call of a generated function.                                         *)

\* A statement of one of these kinds has been executed.
Ran(ops) == \E k \in 1 .. ip - 1 : body[k].op \in ops
\* The writes executed so far.
Written == {body[k].seq : k \in {m \in 1 .. ip - 1 : body[m].op \in WriteTypes}}

OffInv ==
    /\ stage # "done" => run = "off"
    /\ run = "off" => /\ ip = 1 /\ tx = "none" /\ pending = {} /\ durable = {}
                      /\ replies = <<>> /\ outcome = "none"
                      /\ env = [v \in Vars |-> "nil"]
                      /\ source = [v \in Vars |-> None] /\ stale = {}
                      /\ published = {}

\* Before Commit nothing is durable, and the transaction has what was written;
\* with the response last, Commit makes all of it durable.
TxInv ==
    run = "on" =>
        /\ outcome = "none"
        /\ IF Ran({"commit"})
           THEN tx = "committed" /\ pending = {} /\ (ResponseLast(f) => durable = WriteSeqs)
           ELSE tx \in {"none", "open"} /\ pending = Written /\ durable = {}

\* The client has been answered iff a response was executed.
ReplyInv ==
    run = "on" =>
        /\ ~Ran({"response"}) => replies = <<>>
        /\ ResponseLast(f) /\ Ran({"response"}) => replies = <<"ok">>

\* How a call with the response last can end.
OverInv ==
    run = "over" /\ ResponseLast(f) =>
        \/ outcome = "error" /\ durable = {} /\ replies = <<"error">>
        \/ /\ outcome = "panic" /\ replies = <<"error">>
           /\ durable = IF body[ip].op = "response" THEN WriteSeqs ELSE {}
        \/ /\ outcome = "ok" /\ durable = WriteSeqs
           /\ replies = IF f.subscribe \/ Has(f, {"response"}) THEN <<"ok">> ELSE <<>>
        \/ outcome = "crash" /\ durable = WriteSeqs /\ replies \in {<<>>, <<"ok">>}
        \/ outcome = "crash" /\ durable = {} /\ replies = <<>>

CallInv == OffInv /\ TxInv /\ ReplyInv /\ OverInv

-----------------------------------------------------------------------------
(* The steps of a call, by what they do to the database and the client.    *)

\* The call returns an error or panics at a statement that is no response.
Fails(how) ==
    /\ ip <= Len(body) /\ body[ip].op # "response"
    /\ Return(how)
    /\ replies' = Append(replies, "error")

\* The response itself panics, after Commit.
Breaks == Panic /\ body[ip].op = "response"

\* A statement other than Commit and a response is executed.
Proceeds ==
    /\ ip <= Len(body) /\ body[ip].op \notin {"commit", "response"}
    /\ Step /\ UNCHANGED <<durable, replies>>
    /\ tx' = IF body[ip].op = "begin" THEN "open" ELSE tx
    /\ IF body[ip].op \in WriteTypes
       THEN tx \in {"none", "open"} /\ pending' = pending \cup {body[ip].seq}
       ELSE UNCHANGED pending

Commits ==
    /\ Executing({"commit"})
    /\ tx' = "committed" /\ durable' = durable \cup pending /\ pending' = {}
    /\ Step /\ UNCHANGED <<env, replies, history>>

\* Every step of Execute is one of these.
LEMMA ExecuteCases ==
    ASSUME Execute
    PROVE  /\ run = "on" /\ UNCHANGED genVars
           /\ \/ Fails("error") \/ Fails("panic")
              \/ Breaks \/ Proceeds \/ Commits \/ Respond \/ Finish \/ Crash
  <1> USE DEF Executing, ReturnError, Fails, Return, Step
  <1>1. CASE Bind
    BY <1>1 DEF Bind, Proceeds, db, WriteTypes
  <1>2. CASE BeginTx
    BY <1>2 DEF BeginTx, Proceeds, db, WriteTypes
  <1>3. CASE Get
    BY <1>3 DEF Get, CallOut, Proceeds, WriteTypes
  <1>4. CASE Post
    BY <1>4 DEF Post, CallOut, Proceeds, WriteTypes, ModelTypes
  <1>5. CASE PutOrDelete
    BY <1>5 DEF PutOrDelete, CallOut, Proceeds, WriteTypes, ModelTypes
  <1>6. CASE Other
    BY <1>6 DEF Other, CallOut, Proceeds, WriteTypes
  <1>7. CASE Panic
    BY <1>7 DEF Panic, Breaks
  <1>8. CASE Guard
    BY <1>8 DEF Guard, Proceeds, db, WriteTypes
  <1>9. CASE CommitTx
    BY <1>9 DEF CommitTx, Commits
  <1>10. CASE Respond
    BY <1>10 DEF Respond
  <1>11. CASE Finish
    BY <1>11 DEF Finish
  <1>12. CASE Crash
    BY <1>12 DEF Crash
  <1> QED
    BY <1>1, <1>2, <1>3, <1>4, <1>5, <1>6, <1>7, <1>8, <1>9, <1>10, <1>11, <1>12
    DEF Execute

\* A call changes nothing of the generator's.
LEMMA GeneratorInside == [HandlerNext]_vars => [Next]_genVars
  BY ExecuteCases DEF HandlerNext, Start, HandlerDone, vars, Next

\* A behaviour of generator and calls is one of the generator.
LEMMA HandlerGenerates == HandlerSpec => Spec
  <1>1. HandlerInit => Init
    BY DEF HandlerInit
  <1> QED
    BY <1>1, GeneratorInside, PTL DEF HandlerSpec, Spec

\* What the generator promised of the function that runs.
LEMMA RunFacts ==
    ASSUME TypeOK, LayoutInv, HandlerTypeOK, OffInv, run # "off"
    PROVE  /\ stage = "done" /\ Accepted(f) /\ f \in Funcs
           /\ Len(f.seqs) \in Nat /\ DOMAIN f.seqs = 1 .. Len(f.seqs)
           /\ body \in Seq(Stmts) /\ Len(body) \in Nat /\ DOMAIN body = 1 .. Len(body)
           /\ ip \in 1 .. Len(body) + 1
           /\ Ordered(f, body, Len(f.seqs)) /\ TxPlaced(f, body, useTx(f))
           /\ \A k \in 1 .. Len(body) : body[k].op \in Ops
  <1>1. stage = "done" /\ Accepted(f) /\ f \in Funcs
    BY DEF OffInv, LayoutInv, TypeOK
  <1>2. Len(f.seqs) \in Nat /\ DOMAIN f.seqs = 1 .. Len(f.seqs)
    BY <1>1, FuncFacts
  <1>3. Layout(f, body, Len(f.seqs), useTx(f))
    BY <1>1 DEF LayoutInv
  <1>4. body \in Seq(Stmts) /\ Len(body) \in Nat /\ DOMAIN body = 1 .. Len(body)
    BY <1>3 DEF Layout
  <1>5. ASSUME NEW k \in 1 .. Len(body) PROVE body[k].op \in Ops
    <2>1. body[k] \in Stmts
      BY <1>4
    <2> QED
      BY <2>1 DEF Stmts
  <1> QED
    BY <1>1, <1>2, <1>3, <1>4, <1>5 DEF Layout, HandlerTypeOK

-----------------------------------------------------------------------------
(* Types.                                                                  *)

\* The fields of a sequence that only the running handler looks at.
LEMMA ModelFacts ==
    ASSUME NEW g \in Funcs, NEW k \in 1 .. Len(g.seqs)
    PROVE  /\ g.seqs[k].model \in Models \cup {None}
           /\ g.seqs[k].target \in Vars \cup {None, "currentUser", "message"}
           /\ (g.seqs[k].model # None) <=> (g.seqs[k].type \in ModelTypes)
           /\ g.seqs[k].members \subseteq
                 g.seqs[k].inputs \cup g.seqs[k].fields \cup {g.seqs[k].target}
  <1>1. g.seqs \in Seq(ParsedSequence)
    BY FuncsAssumption DEF ServiceFunc
  <1> DEFINE s == g.seqs[k]
  <1>2. s \in ParsedSequence
    BY <1>1
  <1> HIDE DEF s
  <1>3. s.model \in Models \cup {None} /\ s.target \in Vars \cup {None, "currentUser", "message"}
    BY <1>2 DEF ParsedSequence, Sequence
  <1>4. (s.model # None) <=> (s.type \in ModelTypes)
    BY <1>2 DEF ParsedSequence
  <1>5. s.members \subseteq s.inputs \cup s.fields \cup {s.target}
    BY <1>2 DEF ParsedSequence
  <1> QED
    BY <1>3, <1>4, <1>5 DEF s

\* The statement being executed belongs to a sequence of the function.
LEMMA SeqnFacts ==
    ASSUME TypeOK, LayoutInv, HandlerTypeOK, OffInv, run = "on",
           ip <= Len(body), body[ip].op \in SeqTypes
    PROVE  /\ body[ip].seq \in 1 .. Len(f.seqs) /\ Seqn = f.seqs[body[ip].seq]
           /\ Seqn.type = body[ip].op
           /\ Seqn.model \in Models \cup {None} /\ Seqn.result \in Vars \cup {None}
           /\ (Seqn.model # None) <=> (Seqn.type \in ModelTypes)
           /\ Seqn.result # None => Seqn.type \in {"get", "post", "call"}
           /\ Seqn.inputs \subseteq Sources
  <1>1. /\ ip \in 1 .. Len(body) /\ f \in Funcs
        /\ Ordered(f, body, Len(f.seqs))
    BY RunFacts
  <1>2. body[ip].seq \in 1 .. Len(f.seqs) /\ f.seqs[body[ip].seq].type = body[ip].op
    BY <1>1 DEF Ordered
  <1> QED
    BY <1>1, <1>2, SeqFacts, ModelFacts DEF Seqn

\* Binding a result keeps the types of the variables.
LEMMA BindResultType ==
    ASSUME HandlerTypeOK, NEW v, NEW found, BindResult(v, found),
           Seqn.model \in Models \cup {None}
    PROVE  /\ env' \in [Vars -> {"nil", "row"}]
           /\ source' \in [Vars -> Models \cup {None}] /\ stale' \subseteq Vars
  BY DEF HandlerTypeOK, BindResult

\* What a call reads keeps its type.
LEMMA EnvType ==
    ASSUME TypeOK, LayoutInv, HandlerTypeOK, OffInv, Execute
    PROVE  /\ env' \in [Vars -> {"nil", "row"}]
           /\ source' \in [Vars -> Models \cup {None}] /\ stale' \subseteq Vars
  <1>0. /\ env \in [Vars -> {"nil", "row"}]
        /\ source \in [Vars -> Models \cup {None}] /\ stale \subseteq Vars
    BY DEF HandlerTypeOK
  <1>1. CASE UNCHANGED <<env, source, stale>>
    BY <1>0, <1>1
  <1>2. ASSUME NEW v, NEW found, BindResult(v, found), Executing({"get", "post", "call"})
        PROVE  /\ env' \in [Vars -> {"nil", "row"}]
               /\ source' \in [Vars -> Models \cup {None}] /\ stale' \subseteq Vars
    <2>1. body[ip].op \in SeqTypes /\ ip <= Len(body) /\ run = "on"
      BY <1>2 DEF Executing, SeqTypes, ModelTypes, WriteTypes
    <2> QED
      BY <1>2, <2>1, SeqnFacts, BindResultType
  <1>3. CASE Get
    <2>1. CASE ReturnError
      BY <1>1, <2>1 DEF ReturnError, Return, history
    <2>2. CASE \E found \in BOOLEAN : BindResult(Seqn.result, found)
      BY <1>2, <1>3, <2>2 DEF Get, CallOut, Executing
    <2> QED
      BY <1>3, <2>1, <2>2 DEF Get, CallOut
  <1>4. CASE Post
    BY <1>1, <1>2, <1>4 DEF Post, CallOut, Executing, ReturnError, Return, history
  <1>5. CASE Other
    <2>1. CASE ReturnError
      BY <1>1, <2>1 DEF ReturnError, Return, history
    <2>2. CASE UNCHANGED <<env, source, stale>>
      BY <1>1, <2>2
    <2>3. CASE Seqn.result # None /\ BindResult(Seqn.result, TRUE)
      <3>1. Executing({"call", "auth", "state", "publish"})
        BY <1>5 DEF Other, CallOut
      <3>2. body[ip].op \in SeqTypes /\ ip <= Len(body) /\ run = "on"
        BY <3>1 DEF Executing, SeqTypes, ModelTypes, WriteTypes
      <3> QED
        BY <2>3, <3>2, SeqnFacts, BindResultType
    <2> QED
      BY <1>5, <2>1, <2>2, <2>3 DEF Other, CallOut
  <1>6. CASE PutOrDelete
    BY <1>0, <1>1, <1>6 DEF PutOrDelete, CallOut, ReturnError, Return, history
  <1> QED
    BY <1>1, <1>3, <1>4, <1>5, <1>6
    DEF Execute, Bind, BeginTx, Panic, Guard, CommitTx, Respond, Finish, Crash,
        ReturnError, Return, history

\* Only a statement of an @publish adds to what is published.
LEMMA PublishedStep ==
    ASSUME Execute
    PROVE  \/ published' = published
           \/ /\ ip <= Len(body) /\ body[ip].op = "publish"
              /\ published' = published \cup {body[ip].seq}
  <1>1. ReturnError => published' = published
    BY DEF ReturnError, Return, history
  <1>2. CASE Other
    BY <1>1, <1>2 DEF Other, CallOut, Executing, If
  <1> QED
    BY <1>1, <1>2
    DEF Execute, Bind, BeginTx, Get, Post, PutOrDelete, CallOut, Panic, Guard, CommitTx,
        Respond, Finish, Crash, Return, history

\* The call's variables keep their types.
LEMMA HandlerTypeStep ==
    TypeOK /\ LayoutInv /\ HandlerTypeOK /\ OffInv /\ [HandlerNext]_vars => HandlerTypeOK'
  <1> SUFFICES ASSUME TypeOK, LayoutInv, HandlerTypeOK, OffInv, [HandlerNext]_vars
               PROVE  HandlerTypeOK'
    OBVIOUS
  <1>1. CASE GenNext /\ UNCHANGED callVars
    <2>1. run = "off" /\ ip = 1 /\ pending \cup durable \cup published = {}
      BY <1>1 DEF GenNext, Reject, Prolog, GenSequence, GenResult, GenExec, GenInline,
                  GenGuard, GenResponse, Current, Epilog, OffInv
    <2>2. Len(body') \in Nat
      <3>1. TypeOK' /\ LayoutInv'
        <4>1. [Next]_genVars
          BY <1>1 DEF Next
        <4> QED
          BY <4>1, LayoutStep, TypeStep
      <3>2. stage' \in {"sequences", "done"} => body' \in Seq(Stmts)
        BY <3>1 DEF LayoutInv, Layout
      <3>3. stage' = "rejected" => body' = body /\ stage = "validate"
        BY <1>1 DEF GenNext, Reject, Prolog, GenSequence, GenResult, GenExec, GenInline,
                    GenGuard, GenResponse, Current, Epilog, Advance
      <3>4. stage' # "validate"
        BY <1>1 DEF GenNext, Reject, Prolog, GenSequence, GenResult, GenExec, GenInline,
                    GenGuard, GenResponse, Current, Epilog, Advance
      <3>5. stage' \in {"sequences", "done", "rejected"}
        BY <3>1, <3>4 DEF TypeOK
      <3>6. stage' = "rejected" => body' = <<>>
        BY <3>3 DEF LayoutInv
      <3> QED
        BY <3>2, <3>5, <3>6
    <2> QED
      BY <1>1, <2>1, <2>2 DEF HandlerTypeOK, callVars, db, history
  <1>2. CASE Start
    BY <1>2 DEF Start, HandlerTypeOK, genVars, db, history
  <1>3. CASE Execute
    <2>1. /\ env' \in [Vars -> {"nil", "row"}]
          /\ source' \in [Vars -> Models \cup {None}] /\ stale' \subseteq Vars
      BY <1>3, EnvType
    <2>2. run = "on" /\ f' = f /\ body' = body
      BY <1>3, ExecuteCases DEF genVars
    <2>3. /\ Len(body) \in Nat /\ ip \in 1 .. Len(body) + 1
          /\ Ordered(f, body, Len(f.seqs)) /\ DOMAIN f.seqs = 1 .. Len(f.seqs)
      BY <2>2, RunFacts
    <2>4. run' \in {"off", "on", "over"} /\ tx' \in {"none", "open", "committed", "aborted"}
      BY <1>3, ExecuteCases DEF HandlerTypeOK, Fails, Breaks, Panic, Return, Proceeds, Step,
                               Commits, Respond, Finish, Crash, db
    <2>5. outcome' \in {"none", "ok", "error", "panic", "crash"}
      BY <1>3, ExecuteCases DEF HandlerTypeOK, Fails, Breaks, Panic, Return, Proceeds, Step,
                               Commits, Respond, Finish, Crash
    <2>6. ip' \in 1 .. Len(body) + 1
      <3>1. ip' = ip \/ (ip <= Len(body) /\ ip' = ip + 1)
        BY <1>3, ExecuteCases DEF Fails, Breaks, Panic, Return, Proceeds, Step, Commits,
                                 Respond, Executing, Finish, Crash
      <3> QED
        BY <2>3, <3>1
    <2>7. replies' \in Seq({"ok", "error"})
      <3>1. replies \in Seq({"ok", "error"})
        BY DEF HandlerTypeOK
      <3>2. replies' \in {replies, Append(replies, "ok"), Append(replies, "error")}
        BY <1>3, ExecuteCases DEF Fails, Breaks, Panic, Proceeds, Commits, Respond, Finish,
                                 Crash
      <3> QED
        BY <3>1, <3>2
    <2>8. pending' \cup durable' \subseteq 1 .. Len(f.seqs)
      <3>1. pending \cup durable \subseteq 1 .. Len(f.seqs)
        BY <2>3 DEF HandlerTypeOK
      <3>2. CASE Proceeds
        <4>1. body[ip].op \in WriteTypes => body[ip].seq \in 1 .. Len(f.seqs)
          BY <2>3, <3>2 DEF Proceeds, Ordered, SeqTypes, ModelTypes
        <4> QED
          BY <3>1, <3>2, <4>1 DEF Proceeds
      <3>3. CASE ~Proceeds
        BY <1>3, <3>1, <3>3, ExecuteCases DEF Fails, Breaks, Panic, Return, Commits,
                                             Respond, Finish, Crash, db
      <3> QED
        BY <3>2, <3>3
    <2>9. published' \subseteq 1 .. Len(f.seqs)
      <3>1. published \subseteq 1 .. Len(f.seqs)
        BY <2>3 DEF HandlerTypeOK
      <3>2. ip <= Len(body) /\ body[ip].op = "publish" => body[ip].seq \in 1 .. Len(f.seqs)
        BY <2>3 DEF Ordered, SeqTypes
      <3> QED
        BY <1>3, <3>1, <3>2, PublishedStep
    <2> QED
      BY <2>1, <2>2, <2>3, <2>4, <2>5, <2>6, <2>7, <2>8, <2>9 DEF HandlerTypeOK
  <1>4. CASE UNCHANGED vars
    BY <1>4 DEF HandlerTypeOK, vars, genVars, callVars, db, history
  <1> QED
    BY <1>1, <1>2, <1>3, <1>4 DEF HandlerNext, HandlerDone

-----------------------------------------------------------------------------
(* Where a statement stands tells what has been executed before it.        *)

Running == TypeOK /\ LayoutInv /\ HandlerTypeOK /\ OffInv /\ run = "on"

\* With the response last, whatever can fail comes before Commit and response.
LEMMA BeforeCommit ==
    ASSUME Running, ResponseLast(f), ip <= Len(body), body[ip].op # "response"
    PROVE  ~Ran({"commit"}) /\ ~Ran({"response"})
  <1>1. /\ Len(f.seqs) \in Nat /\ DOMAIN f.seqs = 1 .. Len(f.seqs)
        /\ Len(body) \in Nat /\ ip \in 1 .. Len(body)
        /\ Ordered(f, body, Len(f.seqs)) /\ TxPlaced(f, body, useTx(f))
        /\ body[ip].op \in Ops
    BY RunFacts DEF Running
  <1>2. \A k \in 1 .. ip - 1 : k \in 1 .. Len(body) /\ k < ip
    BY <1>1
  <1>3. ASSUME NEW k \in 1 .. ip - 1, body[k].op = "commit" PROVE FALSE
    BY <1>1, <1>2, <1>3 DEF TxPlaced
  <1>4. ASSUME NEW k \in 1 .. ip - 1, body[k].op = "response" PROVE FALSE
    <2>1. body[k].op \in SeqTypes /\ k \in 1 .. Len(body) /\ k < ip
      BY <1>2, <1>4 DEF SeqTypes
    <2>2. body[k].seq \in 1 .. Len(f.seqs) /\ f.seqs[body[k].seq].type = "response"
      BY <1>1, <1>4, <2>1 DEF Ordered
    <2>3. body[k].seq = Len(f.seqs)
      BY <1>1, <2>2 DEF ResponseLast
    <2>4. CASE body[ip].op \in SeqTypes
      <3>1. body[ip].seq \in 1 .. Len(f.seqs) /\ body[k].seq < body[ip].seq
        BY <1>1, <2>1, <2>4 DEF Ordered
      <3> QED
        BY <1>1, <2>3, <3>1
    <2>5. CASE body[ip].op \in {"bind", "begin"}
      BY <1>1, <2>1, <2>5 DEF TxPlaced
    <2>6. CASE body[ip].op = "commit"
      BY <1>1, <1>4, <2>1, <2>6 DEF TxPlaced
    <2> QED
      BY <1>1, <2>4, <2>5, <2>6 DEF Ops
  <1> QED
    BY <1>3, <1>4 DEF Ran

\* At Commit nothing has been committed or answered.
LEMMA AtCommit ==
    ASSUME Running, ip <= Len(body), body[ip].op = "commit"
    PROVE  ~Ran({"commit"}) /\ ~Ran({"response"})
  <1>1. /\ Len(body) \in Nat /\ ip \in 1 .. Len(body) /\ TxPlaced(f, body, useTx(f))
    BY RunFacts DEF Running
  <1>2. \A k \in 1 .. ip - 1 : k \in 1 .. Len(body) /\ k < ip
    BY <1>1
  <1> QED
    BY <1>1, <1>2 DEF Ran, TxPlaced

\* At Commit of a function with the response last, every write was executed.
LEMMA AllWritten ==
    ASSUME Running, ip <= Len(body), body[ip].op = "commit", ResponseLast(f)
    PROVE  Written = WriteSeqs
  <1>1. /\ Len(body) \in Nat /\ ip \in 1 .. Len(body)
        /\ DOMAIN f.seqs = 1 .. Len(f.seqs) /\ Len(f.seqs) \in Nat
        /\ Ordered(f, body, Len(f.seqs)) /\ TxPlaced(f, body, useTx(f))
    BY RunFacts DEF Running
  <1>2. WriteTypes \subseteq SeqTypes /\ "response" \notin WriteTypes /\ "commit" \notin WriteTypes
    BY DEF SeqTypes, ModelTypes, WriteTypes
  <1>3. ASSUME NEW s \in Written PROVE s \in WriteSeqs
    <2>1. PICK k \in 1 .. ip - 1 : body[k].op \in WriteTypes /\ s = body[k].seq
      BY DEF Written
    <2>2. k \in 1 .. Len(body)
      BY <1>1
    <2>3. s \in 1 .. Len(f.seqs) /\ f.seqs[s].type = body[k].op
      BY <1>1, <1>2, <2>1, <2>2 DEF Ordered
    <2> QED
      BY <1>1, <2>1, <2>3 DEF WriteSeqs
  <1>4. ASSUME NEW s \in WriteSeqs PROVE s \in Written
    <2>1. s \in 1 .. Len(f.seqs) /\ f.seqs[s].type \in WriteTypes
      BY <1>1 DEF WriteSeqs
    <2>2. PICK k \in 1 .. Len(body) : body[k].seq = s
      BY <1>1, <2>1 DEF Ordered
    <2>3. s # 0
      BY <1>1, <2>1
    <2>4. body[k].op \in WriteTypes
      BY <1>1, <2>1, <2>2, <2>3 DEF Ordered
    <2>5. k < ip
      <3>1. ~(ip < k)
        BY <1>1, <1>2, <2>2, <2>4 DEF TxPlaced
      <3>2. k # ip
        BY <1>2, <2>4
      <3> QED
        BY <1>1, <2>2, <3>1, <3>2
    <2>6. k \in 1 .. ip - 1
      BY <1>1, <2>2, <2>5
    <2> QED
      BY <2>2, <2>4, <2>6 DEF Written
  <1> QED
    BY <1>3, <1>4

\* At the response that comes last, Commit is done and nothing was answered.
LEMMA AtLastResponse ==
    ASSUME Running, ip <= Len(body), body[ip].op = "response", ResponseLast(f)
    PROVE  ~Ran({"response"}) /\ (useTx(f) <=> Ran({"commit"}))
  <1>1. /\ Len(body) \in Nat /\ ip \in 1 .. Len(body)
        /\ DOMAIN f.seqs = 1 .. Len(f.seqs) /\ Len(f.seqs) \in Nat
        /\ Ordered(f, body, Len(f.seqs)) /\ TxPlaced(f, body, useTx(f))
    BY RunFacts DEF Running
  <1>2. \A k \in 1 .. ip - 1 : k \in 1 .. Len(body) /\ k < ip
    BY <1>1
  <1>3. ASSUME NEW k \in 1 .. ip - 1, body[k].op = "response" PROVE FALSE
    <2>1. "response" \in SeqTypes
      BY DEF SeqTypes
    <2>2. /\ body[k].seq \in 1 .. Len(f.seqs) /\ f.seqs[body[k].seq].type = "response"
          /\ body[ip].seq \in 1 .. Len(f.seqs) /\ f.seqs[body[ip].seq].type = "response"
          /\ body[k].seq < body[ip].seq
      BY <1>1, <1>2, <1>3, <2>1 DEF Ordered
    <2>3. body[k].seq = Len(f.seqs) /\ body[ip].seq = Len(f.seqs)
      BY <1>1, <2>2 DEF ResponseLast
    <2> QED
      BY <1>1, <2>2, <2>3
  <1>4. useTx(f) => Ran({"commit"})
    <2> SUFFICES ASSUME useTx(f) PROVE Ran({"commit"})
      OBVIOUS
    <2>1. PICK c \in 1 .. Len(body) : body[c].op = "commit"
      BY <1>1 DEF TxPlaced
    <2>2. c < ip
      BY <1>1, <2>1 DEF TxPlaced
    <2>3. c \in 1 .. ip - 1
      BY <1>1, <2>2
    <2> QED
      BY <2>1, <2>3 DEF Ran
  <1>5. Ran({"commit"}) => useTx(f)
    BY <1>1, <1>2 DEF Ran, TxPlaced
  <1> QED
    BY <1>3, <1>4, <1>5 DEF Ran

\* At the end of the body everything was executed.
LEMMA AtEnd ==
    ASSUME Running, ip > Len(body)
    PROVE  /\ useTx(f) <=> Ran({"commit"})
           /\ Has(f, {"response"}) <=> Ran({"response"})
  <1>1. /\ Len(body) \in Nat /\ ip - 1 = Len(body)
        /\ DOMAIN f.seqs = 1 .. Len(f.seqs) /\ Len(f.seqs) \in Nat
        /\ Ordered(f, body, Len(f.seqs)) /\ TxPlaced(f, body, useTx(f))
    BY RunFacts DEF Running
  <1>2. useTx(f) <=> Ran({"commit"})
    BY <1>1 DEF Ran, TxPlaced
  <1>3. ASSUME Has(f, {"response"}) PROVE Ran({"response"})
    <2>1. PICK s \in 1 .. Len(f.seqs) : f.seqs[s].type = "response"
      BY <1>1, <1>3 DEF Has
    <2>2. PICK k \in 1 .. Len(body) : body[k].seq = s
      BY <1>1 DEF Ordered
    <2>3. s # 0
      BY <1>1
    <2>4. body[k].op = "response"
      BY <1>1, <2>1, <2>2, <2>3 DEF Ordered
    <2> QED
      BY <1>1, <2>4 DEF Ran
  <1>4. ASSUME Ran({"response"}) PROVE Has(f, {"response"})
    <2>1. PICK k \in 1 .. Len(body) : body[k].op = "response"
      BY <1>1, <1>4 DEF Ran
    <2>2. body[k].seq \in 1 .. Len(f.seqs) /\ f.seqs[body[k].seq].type = "response"
      BY <1>1, <2>1 DEF Ordered, SeqTypes
    <2> QED
      BY <1>1, <2>2 DEF Has
  <1> QED
    BY <1>2, <1>3, <1>4

\* A function without a transaction writes nothing.
LEMMA NoWrites == ASSUME ~useTx(f) PROVE WriteSeqs = {}
  BY DEF useTx, Has, WriteSeqs

\* One step further.
LEMMA RanStep ==
    ASSUME Running, ip <= Len(body), Step
    PROVE  /\ \A ops : Ran(ops)' <=> (Ran(ops) \/ body[ip].op \in ops)
           /\ Written' = Written \cup (IF body[ip].op \in WriteTypes THEN {body[ip].seq} ELSE {})
  <1>1. Len(body) \in Nat /\ ip \in 1 .. Len(body)
    BY RunFacts DEF Running
  <1>2. body' = body /\ ip' - 1 = ip /\ 1 .. ip = (1 .. ip - 1) \cup {ip}
    BY <1>1 DEF Step, genVars
  <1> QED
    BY <1>2 DEF Ran, Written

-----------------------------------------------------------------------------
(* The transaction, the answer and the end of a call.                      *)

\* A subscriber has no response.
LEMMA SubscriberSilent ==
    ASSUME Accepted(f), f.subscribe
    PROVE  ~Has(f, {"response"})
  BY DEF Accepted, SubscribeRulesOK, Has

\* A call that fails before Commit leaves nothing and answers once.
LEMMA FailsKeeps ==
    ASSUME Running, TxInv, ReplyInv, NEW how \in {"error", "panic"}, Fails(how),
           UNCHANGED genVars
    PROVE  CallInv'
  <1>1. /\ run' = "over" /\ outcome' = how /\ durable' = durable /\ f' = f /\ stage' = stage
        /\ body' = body /\ ip' = ip /\ body[ip].op # "response"
    BY DEF Fails, Return, genVars
  <1>2. ResponseLast(f) => ~Ran({"commit"}) /\ ~Ran({"response"})
    BY BeforeCommit DEF Fails
  <1>3. ResponseLast(f) => durable = {} /\ replies = <<>>
    BY <1>2 DEF TxInv, ReplyInv, Running
  <1>4. Append(<<>>, "error") = <<"error">>
    OBVIOUS
  <1>5. ResponseLast(f) => durable' = {} /\ replies' = <<"error">>
    BY <1>1, <1>3, <1>4 DEF Fails
  <1>6. stage' = "done"
    BY <1>1 DEF Running, OffInv
  <1> QED
    BY <1>1, <1>5, <1>6 DEF CallInv, OffInv, TxInv, ReplyInv, OverInv

\* A panic in the response comes after Commit and before any answer.
LEMMA BreaksKeeps ==
    ASSUME Running, TxInv, ReplyInv, Breaks, UNCHANGED genVars
    PROVE  CallInv'
  <1>1. /\ run' = "over" /\ outcome' = "panic" /\ durable' = durable /\ f' = f
        /\ stage' = "done" /\ body' = body /\ ip' = ip /\ body[ip].op = "response"
        /\ ip <= Len(body) /\ replies' = Append(replies, "error")
    BY DEF Breaks, Panic, Executing, Return, genVars, Running, OffInv
  <1>2. ResponseLast(f) => ~Ran({"response"}) /\ (useTx(f) <=> Ran({"commit"}))
    BY <1>1, AtLastResponse
  <1>3. ResponseLast(f) => durable = WriteSeqs /\ replies = <<>>
    BY <1>2, NoWrites DEF TxInv, ReplyInv, Running
  <1>4. Append(<<>>, "error") = <<"error">>
    OBVIOUS
  <1>5. WriteSeqs' = WriteSeqs /\ (ResponseLast(f)' <=> ResponseLast(f))
    BY <1>1 DEF WriteSeqs, ResponseLast
  <1> QED
    BY <1>1, <1>3, <1>4, <1>5 DEF CallInv, OffInv, TxInv, ReplyInv, OverInv

\* Going on to the next statement.
LEMMA ProceedsKeeps ==
    ASSUME Running, TxInv, ReplyInv, Proceeds, UNCHANGED genVars
    PROVE  CallInv'
  <1>1. /\ run' = "on" /\ outcome' = "none" /\ durable' = durable /\ replies' = replies
        /\ f' = f /\ stage' = "done"
    BY DEF Proceeds, Step, genVars, Running, TxInv, OffInv
  <1>2. /\ Ran({"commit"})' <=> Ran({"commit"})
        /\ Ran({"response"})' <=> Ran({"response"})
        /\ Written' = Written \cup (IF body[ip].op \in WriteTypes THEN {body[ip].seq} ELSE {})
    BY RanStep DEF Proceeds
  <1>3. WriteSeqs' = WriteSeqs /\ (ResponseLast(f)' <=> ResponseLast(f))
    BY <1>1 DEF WriteSeqs, ResponseLast
  <1>4. CASE Ran({"commit"})
    <2>1. tx = "committed" /\ pending = {}
      BY <1>4 DEF TxInv, Running
    <2>2. body[ip].op # "begin"
      <3>1. /\ Len(body) \in Nat /\ ip \in 1 .. Len(body) /\ TxPlaced(f, body, useTx(f))
        BY RunFacts DEF Running, Proceeds
      <3>2. \A k \in 1 .. ip - 1 : k \in 1 .. Len(body) /\ k < ip
        BY <3>1
      <3> QED
        BY <1>4, <3>1, <3>2 DEF Ran, TxPlaced
    <2>3. tx' = "committed" /\ pending' = {}
      BY <2>1, <2>2 DEF Proceeds
    <2> QED
      BY <1>1, <1>2, <1>3, <1>4, <2>3 DEF CallInv, OffInv, TxInv, ReplyInv, OverInv, Running
  <1>5. CASE ~Ran({"commit"})
    <2>1. tx \in {"none", "open"} /\ pending = Written /\ durable = {}
      BY <1>5 DEF TxInv, Running
    <2>2. tx' \in {"none", "open"} /\ pending' = Written'
      BY <1>2, <2>1 DEF Proceeds
    <2> QED
      BY <1>1, <1>2, <1>3, <1>5, <2>1, <2>2
      DEF CallInv, OffInv, TxInv, ReplyInv, OverInv, Running
  <1> QED
    BY <1>4, <1>5

\* Committing.
LEMMA CommitsKeeps ==
    ASSUME Running, TxInv, ReplyInv, Commits, UNCHANGED genVars
    PROVE  CallInv'
  <1>1. ip <= Len(body) /\ body[ip].op = "commit" /\ Step
    BY DEF Commits, Executing
  <1>2. /\ run' = "on" /\ outcome' = "none" /\ replies' = replies /\ pending' = {}
        /\ tx' = "committed" /\ f' = f /\ stage' = "done"
    BY DEF Commits, Step, genVars, Running, TxInv, OffInv
  <1>3. ~Ran({"commit"}) /\ ~Ran({"response"})
    BY <1>1, AtCommit
  <1>4. Ran({"commit"})' /\ ~Ran({"response"})'
    BY <1>1, <1>3, RanStep
  <1>5. durable' = Written /\ replies' = <<>>
    BY <1>2, <1>3 DEF Commits, TxInv, ReplyInv, Running
  <1>6. ResponseLast(f) => durable' = WriteSeqs
    BY <1>1, <1>5, AllWritten
  <1>7. WriteSeqs' = WriteSeqs /\ (ResponseLast(f)' <=> ResponseLast(f))
    BY <1>2 DEF WriteSeqs, ResponseLast
  <1> QED
    BY <1>2, <1>4, <1>5, <1>6, <1>7 DEF CallInv, OffInv, TxInv, ReplyInv, OverInv

\* Replying.
LEMMA RespondKeeps ==
    ASSUME Running, TxInv, ReplyInv, Respond, UNCHANGED genVars
    PROVE  CallInv'
  <1>1. ip <= Len(body) /\ body[ip].op = "response" /\ Step
    BY DEF Respond, Executing
  <1>2. /\ run' = "on" /\ outcome' = "none" /\ pending' = pending /\ durable' = durable
        /\ tx' = tx /\ f' = f /\ stage' = "done" /\ replies' = Append(replies, "ok")
    BY DEF Respond, Step, genVars, Running, TxInv, OffInv, db
  <1>3. /\ Ran({"commit"})' <=> Ran({"commit"})
        /\ Ran({"response"})' /\ Written' = Written
    BY <1>1, RanStep DEF WriteTypes
  <1>4. ResponseLast(f) => replies' = <<"ok">>
    <2>1. ResponseLast(f) => replies = <<>>
      BY <1>1, AtLastResponse DEF ReplyInv, Running
    <2>2. Append(<<>>, "ok") = <<"ok">>
      OBVIOUS
    <2> QED
      BY <1>2, <2>1, <2>2
  <1>5. WriteSeqs' = WriteSeqs /\ (ResponseLast(f)' <=> ResponseLast(f))
    BY <1>2 DEF WriteSeqs, ResponseLast
  <1> QED
    BY <1>2, <1>3, <1>4, <1>5 DEF CallInv, OffInv, TxInv, ReplyInv, OverInv, Running

\* Returning, after which the deferred rollback has run.
LEMMA FinishKeeps ==
    ASSUME Running, TxInv, ReplyInv, Finish, UNCHANGED genVars
    PROVE  CallInv'
  <1>1. /\ run' = "over" /\ outcome' = "ok" /\ durable' = durable /\ f' = f /\ stage' = "done"
        /\ ip > Len(body)
        /\ replies' = IF f.subscribe THEN Append(replies, "ok") ELSE replies
    BY DEF Finish, Return, genVars, Running, OffInv
  <1>2. /\ useTx(f) <=> Ran({"commit"})
        /\ Has(f, {"response"}) <=> Ran({"response"})
    BY <1>1, AtEnd
  <1>3. ResponseLast(f) => durable' = WriteSeqs
    BY <1>1, <1>2, NoWrites DEF TxInv, Running
  <1>4. f.subscribe => ~Has(f, {"response"})
    BY SubscriberSilent, RunFacts DEF Running
  <1>5. Append(<<>>, "ok") = <<"ok">>
    OBVIOUS
  <1>6. ResponseLast(f) =>
          replies' = IF f.subscribe \/ Has(f, {"response"}) THEN <<"ok">> ELSE <<>>
    BY <1>1, <1>2, <1>4, <1>5 DEF ReplyInv, Running
  <1>7. /\ WriteSeqs' = WriteSeqs /\ (ResponseLast(f)' <=> ResponseLast(f))
        /\ (Has(f, {"response"})' <=> Has(f, {"response"}))
    BY <1>1 DEF WriteSeqs, ResponseLast, Has
  <1> QED
    BY <1>1, <1>3, <1>6, <1>7 DEF CallInv, OffInv, TxInv, ReplyInv, OverInv

\* A crash.
LEMMA CrashKeeps ==
    ASSUME Running, TxInv, ReplyInv, Crash, UNCHANGED genVars
    PROVE  CallInv'
  <1>1. /\ run' = "over" /\ outcome' = "crash" /\ durable' = durable /\ f' = f
        /\ stage' = "done" /\ replies' = replies
    BY DEF Crash, Return, genVars, Running, OffInv
  <1>2. WriteSeqs' = WriteSeqs /\ (ResponseLast(f)' <=> ResponseLast(f))
    BY <1>1 DEF WriteSeqs, ResponseLast
  <1>3. ASSUME ResponseLast(f), ~Ran({"commit"}), Ran({"response"})
        PROVE  durable = WriteSeqs
    <2>1. ~useTx(f)
      <3>1. /\ Len(body) \in Nat /\ ip \in 1 .. Len(body) + 1 /\ TxPlaced(f, body, useTx(f))
        BY RunFacts DEF Running
      <3>2. PICK r \in 1 .. ip - 1 : body[r].op = "response"
        BY <1>3 DEF Ran
      <3>3. r \in 1 .. Len(body) /\ r < ip
        BY <3>1
      <3>4. ASSUME useTx(f) PROVE FALSE
        <4>1. PICK c \in 1 .. Len(body) : body[c].op = "commit"
          BY <3>1, <3>4 DEF TxPlaced
        <4>2. c < r
          BY <3>1, <3>2, <3>3, <4>1 DEF TxPlaced
        <4>3. c \in 1 .. ip - 1
          BY <3>1, <3>3, <4>2
        <4> QED
          BY <1>3, <4>1, <4>3 DEF Ran
      <3> QED
        BY <3>4
    <2> QED
      BY <1>3, <2>1, NoWrites DEF TxInv, Running
  <1>4. ResponseLast(f) => /\ replies \in {<<>>, <<"ok">>}
                           /\ durable = WriteSeqs \/ (durable = {} /\ replies = <<>>)
    BY <1>3 DEF TxInv, ReplyInv, Running
  <1> QED
    BY <1>1, <1>2, <1>4 DEF CallInv, OffInv, TxInv, ReplyInv, OverInv

\* Nothing happens before the generator is done or after the call is over.
LEMMA IdleKeeps ==
    ASSUME TypeOK, CallInv, \/ GenNext /\ UNCHANGED callVars
                            \/ Start \/ UNCHANGED vars
    PROVE  CallInv'
  <1>1. CASE GenNext /\ UNCHANGED callVars
    <2>1. stage # "done"
      BY <1>1 DEF GenNext, Reject, Prolog, GenSequence, GenResult, GenExec, GenInline,
                  GenGuard, GenResponse, Current, Epilog
    <2> QED
      BY <1>1, <2>1 DEF CallInv, OffInv, TxInv, ReplyInv, OverInv, callVars, db, history
  <1>2. CASE Start
    <2>1. /\ ip' = 1 /\ run' = "on" /\ tx' = "none" /\ pending' = {} /\ durable' = {}
          /\ replies' = <<>> /\ outcome' = "none" /\ stage' = "done"
      BY <1>2 DEF Start, CallInv, OffInv, db, genVars
    <2>2. 1 .. ip' - 1 = {}
      BY <2>1
    <2>3. ~Ran({"commit"})' /\ ~Ran({"response"})' /\ Written' = {}
      BY <2>2 DEF Ran, Written
    <2> QED
      BY <2>1, <2>3 DEF CallInv, OffInv, TxInv, ReplyInv, OverInv
  <1>3. CASE UNCHANGED vars
    BY <1>3 DEF CallInv, OffInv, TxInv, ReplyInv, OverInv, Ran, Written, WriteSeqs,
                ResponseLast, Has, vars, genVars, callVars, db, history
  <1> QED
    BY <1>1, <1>2, <1>3

\* Every step keeps what is known of the call.
LEMMA CallStep ==
    TypeOK /\ LayoutInv /\ HandlerTypeOK /\ CallInv /\ [HandlerNext]_vars => CallInv'
  <1> SUFFICES ASSUME TypeOK, LayoutInv, HandlerTypeOK, CallInv, [HandlerNext]_vars
               PROVE  CallInv'
    OBVIOUS
  <1>1. CASE Execute
    <2>1. Running /\ TxInv /\ ReplyInv /\ UNCHANGED genVars
      BY <1>1, ExecuteCases DEF Running, CallInv
    <2> QED
      BY <1>1, <2>1, ExecuteCases, FailsKeeps, BreaksKeeps, ProceedsKeeps, CommitsKeeps, RespondKeeps,
         FinishKeeps, CrashKeeps
  <1> QED
    BY <1>1, IdleKeeps DEF HandlerNext, HandlerDone

\* What holds in every state of a call.
HandlerInv == TypeOK /\ LayoutInv /\ HandlerTypeOK /\ CallInv

\* No call runs at first.
LEMMA HandlerInitInv == HandlerInit => HandlerTypeOK /\ CallInv
  <1> SUFFICES ASSUME HandlerInit PROVE HandlerTypeOK /\ CallInv
    OBVIOUS
  <1>1. HandlerTypeOK
    BY DEF HandlerInit, Init, HandlerTypeOK
  <1>2. CallInv
    BY DEF HandlerInit, Init, CallInv, OffInv, TxInv, ReplyInv, OverInv
  <1> QED
    BY <1>1, <1>2

\* The inductive invariant holds of every reachable state.
LEMMA HandlerInvariant == HandlerSpec => []HandlerInv
  <1>1. HandlerSpec => [](TypeOK /\ LayoutInv)
    BY HandlerGenerates, TypeCorrect, GeneratedLayout, PTL
  <1>2. HandlerTypeOK /\ CallInv /\ TypeOK /\ LayoutInv /\ [HandlerNext]_vars
          => (HandlerTypeOK /\ CallInv)'
    BY HandlerTypeStep, CallStep DEF CallInv
  <1> QED
    BY <1>1, <1>2, HandlerInitInv, PTL DEF HandlerSpec, HandlerInv

\* Every variable of a running handler keeps its type, whatever fails.
THEOREM HandlerTypeCorrect == HandlerSpec => []HandlerTypeOK
  BY HandlerInvariant, PTL DEF HandlerInv

\* Phase032's promise, for every accepted function with the response last: its
\* writes are durable all together or not at all, none after an error, all
\* after success, wherever a call fails or the process dies; and none after a
\* panic but one in the response, which leaves all.
THEOREM CallsAtomic == HandlerSpec => []AllOrNothing
  <1>1. HandlerInv => AllOrNothing
    <2> SUFFICES ASSUME HandlerInv, ResponseLast(f)
                 PROVE  /\ durable \in {{}, WriteSeqs}
                        /\ outcome = "error" => durable = {}
                        /\ outcome = "ok" => durable = WriteSeqs
                        /\ outcome = "panic" =>
                              durable = IF body[ip].op = "response" THEN WriteSeqs ELSE {}
      BY DEF AllOrNothing
    <2>1. run \in {"off", "on", "over"}
      BY DEF HandlerInv, HandlerTypeOK
    <2> QED
      BY <2>1 DEF HandlerInv, CallInv, OffInv, TxInv, OverInv
  <1> QED
    BY <1>1, HandlerInvariant, PTL

\* The client of a function with the response last gets at most one body, and
\* exactly one from a call that was not cut off.
THEOREM RepliesOnce == HandlerSpec => []OneReply
  <1>1. HandlerInv => OneReply
    <2> SUFFICES ASSUME HandlerInv, ResponseLast(f)
                 PROVE  /\ Len(replies) <= 1
                        /\ run = "over" /\ outcome # "crash" /\ Has(f, {"response"}) =>
                              Len(replies) = 1
      BY DEF OneReply
    <2>1. run \in {"off", "on", "over"}
      BY DEF HandlerInv, HandlerTypeOK
    <2>2. replies \in {<<>>, <<"ok">>, <<"error">>}
      BY <2>1 DEF HandlerInv, CallInv, OffInv, ReplyInv, OverInv
    <2>3. run = "over" /\ outcome # "crash" /\ Has(f, {"response"}) =>
            replies \in {<<"ok">>, <<"error">>}
      BY DEF HandlerInv, CallInv, OverInv
    <2>4. Len(<<>>) = 0 /\ Len(<<"ok">>) = 1 /\ Len(<<"error">>) = 1
      OBVIOUS
    <2>5. Len(replies) \in {0, 1}
      BY <2>2, <2>4, Zenon
    <2>6. replies \in {<<"ok">>, <<"error">>} => Len(replies) = 1
      BY <2>4, Zenon
    <2>7. Len(replies) <= 1
      <3>1. \A n \in {0, 1} : n <= 1
        OBVIOUS
      <3> QED
        BY <2>5, <3>1, Zenon
    <2>8. run = "over" /\ outcome # "crash" /\ Has(f, {"response"}) => Len(replies) = 1
      BY <2>3, <2>6, Zenon
    <2> QED
      BY <2>7, <2>8, Zenon
  <1> QED
    BY <1>1, HandlerInvariant, PTL

\* go_templates.go: for every accepted function, responses in the middle
\* included, the database keeps writes only in one step, and before the client
\* is answered.
THEOREM AnswersAfterCommit == HandlerSpec => DurableBeforeReply
  <1>1. HandlerInv /\ [HandlerNext]_vars =>
          [durable' # durable => replies = <<>> /\ durable = {}]_vars
    <2> SUFFICES ASSUME HandlerInv, HandlerNext, durable' # durable
                 PROVE  replies = <<>> /\ durable = {}
      BY DEF vars, callVars, db
    <2>1. Execute
      BY DEF HandlerNext, Start, HandlerDone, vars, callVars, db
    <2>2. Commits
      BY <2>1, ExecuteCases DEF Fails, Breaks, Panic, Return, Proceeds, Respond, Finish,
                               Crash, db
    <2>3. Running /\ TxInv /\ ReplyInv
      BY <2>1, ExecuteCases DEF Running, CallInv, HandlerInv
    <2>4. ~Ran({"commit"}) /\ ~Ran({"response"})
      BY <2>2, <2>3, AtCommit DEF Commits, Executing
    <2> QED
      BY <2>3, <2>4 DEF TxInv, ReplyInv, Running
  <1> QED
    BY <1>1, HandlerInvariant, PTL DEF HandlerSpec, DurableBeforeReply

-----------------------------------------------------------------------------
(* Messages.                                                               *)

\* The messages whose statements have been executed.
Sent == {body[k].seq : k \in {m \in 1 .. ip - 1 : body[m].op = "publish"}}

\* MessagesKept says nothing of a call before its Commit; what is out then is
\* what was executed.
MessageInv == (run = "on" => published = Sent) /\ MessagesKept

\* The call goes on exactly with the statements that did not fail, and an
\* @publish among them is out.
LEMMA SentNext ==
    ASSUME Execute, run' = "on"
    PROVE  /\ ip <= Len(body) /\ Step
           /\ published' = published \cup (IF body[ip].op = "publish" THEN {body[ip].seq} ELSE {})
  <1> USE DEF Executing
  <1>1. ~ReturnError /\ ~Panic /\ ~Finish /\ ~Crash
    BY DEF ReturnError, Panic, Finish, Crash, Return
  <1>2. CASE Bind
    BY <1>1, <1>2 DEF Bind, history
  <1>3. CASE BeginTx
    BY <1>1, <1>3 DEF BeginTx, history
  <1>4. CASE Get
    BY <1>1, <1>4 DEF Get, CallOut
  <1>5. CASE Post
    BY <1>1, <1>5 DEF Post, CallOut
  <1>6. CASE PutOrDelete
    BY <1>1, <1>6 DEF PutOrDelete, CallOut
  <1>7. CASE Other
    BY <1>1, <1>7 DEF Other, CallOut, If
  <1>8. CASE Guard
    BY <1>1, <1>8 DEF Guard, history
  <1>9. CASE CommitTx
    BY <1>1, <1>9 DEF CommitTx, history
  <1>10. CASE Respond
    BY <1>10 DEF Respond, history
  <1> QED
    BY <1>1, <1>2, <1>3, <1>4, <1>5, <1>6, <1>7, <1>8, <1>9, <1>10 DEF Execute

\* At Commit of a function with the response last, and at the end of any body,
\* every message is out.
LEMMA AllSent ==
    ASSUME Running, \/ ip > Len(body)
                    \/ ip <= Len(body) /\ body[ip].op = "commit" /\ ResponseLast(f)
    PROVE  Sent = PublishSeqs
  <1>1. /\ Len(body) \in Nat /\ ip \in 1 .. Len(body) + 1
        /\ DOMAIN f.seqs = 1 .. Len(f.seqs) /\ Len(f.seqs) \in Nat
        /\ Ordered(f, body, Len(f.seqs)) /\ TxPlaced(f, body, useTx(f))
    BY RunFacts DEF Running
  <1>2. "publish" \in SeqTypes
    BY DEF SeqTypes
  <1>3. ASSUME NEW s \in Sent PROVE s \in PublishSeqs
    <2>1. PICK k \in 1 .. ip - 1 : body[k].op = "publish" /\ s = body[k].seq
      BY DEF Sent
    <2>2. k \in 1 .. Len(body)
      BY <1>1
    <2>3. s \in 1 .. Len(f.seqs) /\ f.seqs[s].type = body[k].op
      BY <1>1, <1>2, <2>1, <2>2 DEF Ordered
    <2> QED
      BY <1>1, <2>1, <2>3 DEF PublishSeqs
  <1>4. ASSUME NEW s \in PublishSeqs PROVE s \in Sent
    <2>1. s \in 1 .. Len(f.seqs) /\ f.seqs[s].type = "publish"
      BY <1>1 DEF PublishSeqs
    <2>2. PICK k \in 1 .. Len(body) : body[k].seq = s
      BY <1>1, <2>1 DEF Ordered
    <2>3. s # 0
      BY <1>1, <2>1
    <2>4. body[k].op = "publish"
      BY <1>1, <2>1, <2>2, <2>3 DEF Ordered
    <2>5. CASE ip > Len(body)
      <3>1. k \in 1 .. ip - 1
        BY <1>1, <2>2, <2>5
      <3> QED
        BY <2>2, <2>4, <3>1 DEF Sent
    <2>6. CASE ip <= Len(body) /\ body[ip].op = "commit" /\ ResponseLast(f)
      <3>1. ip \in 1 .. Len(body)
        BY <1>1, <2>6
      <3>2. ~(ip < k)
        BY <1>1, <2>2, <2>4, <2>6, <3>1 DEF TxPlaced
      <3>3. k # ip
        BY <2>4, <2>6
      <3>4. k \in 1 .. ip - 1
        BY <1>1, <2>2, <3>2, <3>3
      <3> QED
        BY <2>2, <2>4, <3>4 DEF Sent
    <2> QED
      BY <2>5, <2>6
  <1> QED
    BY <1>3, <1>4

\* Every step of a call keeps MessageInv.
LEMMA SentStep ==
    ASSUME HandlerInv, MessageInv, Execute
    PROVE  MessageInv'
  <1>1. Running /\ UNCHANGED genVars
    BY ExecuteCases DEF Running, HandlerInv, CallInv
  <1>2. f' = f /\ body' = body /\ PublishSeqs' = PublishSeqs
        /\ (ResponseLast(f)' <=> ResponseLast(f))
    BY <1>1 DEF genVars, PublishSeqs, ResponseLast
  <1>3. published = Sent
    BY <1>1 DEF MessageInv, Running
  <1>4. CASE run' = "on"
    <2>1. /\ ip <= Len(body) /\ Step
          /\ published' = published \cup (IF body[ip].op = "publish" THEN {body[ip].seq} ELSE {})
      BY <1>4, SentNext
    <2>2. Len(body) \in Nat /\ ip \in 1 .. Len(body)
      BY <1>1, <2>1, RunFacts DEF Running
    <2>3. ip' - 1 = ip /\ 1 .. ip = (1 .. ip - 1) \cup {ip}
      BY <2>1, <2>2 DEF Step
    <2>4. Sent' = Sent \cup (IF body[ip].op = "publish" THEN {body[ip].seq} ELSE {})
      BY <1>2, <2>3 DEF Sent
    <2>5. published' = Sent'
      BY <1>3, <2>1, <2>4
    <2>6. outcome' = outcome /\ outcome = "none"
      BY <1>1, <2>1 DEF Step, Running, HandlerInv, CallInv, TxInv
    <2>7. ASSUME ResponseLast(f), durable' # {} PROVE published' = PublishSeqs
      <3>1. CASE durable # {}
        <4>1. published = PublishSeqs
          BY <2>7, <3>1 DEF MessageInv, MessagesKept
        <4>2. body[ip].op = "publish" => body[ip].seq \in PublishSeqs
          BY <1>1, <2>1, SeqnFacts, RunFacts DEF Running, PublishSeqs, SeqTypes
        <4> QED
          BY <2>1, <4>1, <4>2
      <3>2. CASE durable = {}
        <4>1. durable' # durable
          BY <2>7, <3>2
        <4>2. Commits
          BY <4>1, ExecuteCases DEF Fails, Breaks, Panic, Return, Proceeds, Respond, Finish,
                                    Crash, db
        <4>3. body[ip].op = "commit"
          BY <4>2 DEF Commits, Executing
        <4> QED
          BY <1>1, <1>3, <2>1, <2>7, <4>3, AllSent
      <3> QED
        BY <3>1, <3>2
    <2> QED
      BY <1>2, <2>5, <2>6, <2>7 DEF MessageInv, MessagesKept
  <1>5. CASE run' # "on"
    <2>1. durable' = durable /\ published' = published
      BY <1>1, <1>5, ExecuteCases
      DEF Fails, Breaks, Panic, Return, Proceeds, Commits, Respond, Finish, Crash, Step,
          Running, history
    <2>2. ASSUME outcome' = "ok" PROVE published = PublishSeqs
      <3>1. Finish
        BY <1>1, <2>2, ExecuteCases
        DEF Fails, Breaks, Panic, Return, Proceeds, Commits, Respond, Crash, Step,
            Running, HandlerInv, CallInv, TxInv
      <3>2. ip > Len(body)
        BY <3>1 DEF Finish
      <3> QED
        BY <1>1, <1>3, <3>2, AllSent
    <2> QED
      BY <1>2, <1>5, <2>1, <2>2 DEF MessageInv, MessagesKept
  <1> QED
    BY <1>4, <1>5

\* The two halves of the outbox that do hold (go_templates.go:86): for every
\* accepted function with the response last, whatever fails and wherever the
\* process dies, no write stays and no call answers ok without its messages.
THEOREM WritesHaveMessages == HandlerSpec => []MessagesKept
  <1>1. HandlerInit => MessageInv
    BY DEF HandlerInit, MessageInv, MessagesKept
  <1>2. HandlerInv /\ MessageInv /\ [HandlerNext]_vars => MessageInv'
    <2> SUFFICES ASSUME HandlerInv, MessageInv, [HandlerNext]_vars
                 PROVE  MessageInv'
      OBVIOUS
    <2>1. CASE Execute
      BY <2>1, SentStep
    <2>2. CASE GenNext /\ UNCHANGED callVars
      <3>1. stage # "done"
        BY <2>2 DEF GenNext, Reject, Prolog, GenSequence, GenResult, GenExec, GenInline,
                    GenGuard, GenResponse, Current, Epilog
      <3>2. run = "off" /\ durable = {} /\ outcome = "none"
        BY <3>1 DEF HandlerInv, CallInv, OffInv
      <3>3. run' = "off" /\ durable' = {} /\ outcome' = "none"
        BY <2>2, <3>2 DEF callVars, db
      <3> QED
        BY <3>3 DEF MessageInv, MessagesKept
    <2>3. CASE Start
      <3>1. /\ ip' = 1 /\ durable' = {} /\ outcome' = "none" /\ published' = {}
        BY <2>3 DEF Start, HandlerInv, CallInv, OffInv, db, history
      <3>2. 1 .. ip' - 1 = {}
        BY <3>1
      <3>3. Sent' = {}
        BY <3>2 DEF Sent
      <3> QED
        BY <3>1, <3>3 DEF MessageInv, MessagesKept
    <2>4. CASE UNCHANGED vars
      BY <2>4 DEF MessageInv, MessagesKept, Sent, PublishSeqs, ResponseLast, vars, genVars,
                  callVars, db, history
    <2> QED
      BY <2>1, <2>2, <2>3, <2>4 DEF HandlerNext, HandlerDone
  <1>3. MessageInv => MessagesKept
    BY DEF MessageInv
  <1> QED
    BY <1>1, <1>2, <1>3, HandlerInvariant, PTL DEF HandlerSpec

-----------------------------------------------------------------------------
(* The rows a running handler holds: which variables may be nil at which   *)
(* statement, and which are older than a write to their model.  Both are   *)
(* said of the sequences before the one that is due, so the proofs go      *)
(* along the order in which the sequences were emitted.                    *)


\* Sequence n is the next to run.
Due(n) ==
    /\ n \in 1 .. Len(f.seqs) + 1
    /\ \A k \in 1 .. ip - 1 : body[k].seq < n
    /\ \A k \in ip .. Len(body) : body[k].op \in SeqTypes => n <= body[k].seq

\* What the sequences before n say of a row variable is true of it.
NilAt(n, v) ==
    /\ CheckedAt(n, v) => env[v] = "row"
    /\ AbsentAt(n, v) => env[v] = "nil"
    /\ v \in Results(f, n - 1) /\ env[v] = "nil" => MayBeNil(n, v)

NilInv ==
    /\ run = "on" => \A n \in 1 .. Len(f.seqs) + 1 : Due(n) =>
                         \A v \in Vars \ reservedSources : NilAt(n, v)
    /\ outcome = "panic" =>
          \E v \in Derefs : MayBeNil(body[ip].seq, v) /\ ~CheckedAt(body[ip].seq, v)

\* v was last read by the @get at j, among the sequences before n.
LastGet(n, v, j) ==
    /\ f.seqs[j].type = "get" /\ f.seqs[j].result = v
    /\ \A m \in j + 1 .. n - 1 : ~(f.seqs[m].type = "get" /\ f.seqs[m].result = v)
\* A write of model x at w is newer than every @get of x.
NewerWrite(n, x, w) ==
    /\ f.seqs[w].type \in {"put", "delete"} /\ f.seqs[w].model = x
    /\ \A m \in w + 1 .. n - 1 : ~(f.seqs[m].type = "get" /\ f.seqs[m].model = x)

\* v holds a row of x, x was written since its last @get, v was never read.
Read(n, v, x) == \E j \in 1 .. n - 1 : LastGet(n, v, j) /\ f.seqs[j].model = x
Newer(n, x) == \E w \in 1 .. n - 1 : NewerWrite(n, x, w)
Never(n, v) == \A j \in 1 .. n - 1 : ~(f.seqs[j].type = "get" /\ f.seqs[j].result = v)

\* The history variables say what the sequences before n did.
StaleAt(n, v) ==
    /\ (source[v] = None /\ Never(n, v)) \/ Read(n, v, source[v])
    /\ v \in stale <=> \E x \in Models : Read(n, v, x) /\ Newer(n, x)

StaleInv ==
    OneReader(f) /\ run = "on" =>
        \A n \in 1 .. Len(f.seqs) + 1 : Due(n) => \A v \in Vars : StaleAt(n, v)

-----------------------------------------------------------------------------
(* Which sequence is due.                                                  *)

\* The sequence of the statement that is executed is due.
LEMMA DueNow ==
    ASSUME Running, ip <= Len(body), body[ip].op \in SeqTypes
    PROVE  Due(body[ip].seq)
  <1>1. /\ Len(body) \in Nat /\ ip \in 1 .. Len(body) /\ Len(f.seqs) \in Nat
        /\ Ordered(f, body, Len(f.seqs))
    BY RunFacts DEF Running
  <1>2. body[ip].seq \in 1 .. Len(f.seqs)
    BY <1>1 DEF Ordered
  <1>3. ASSUME NEW k \in 1 .. ip - 1 PROVE body[k].seq < body[ip].seq
    <2>1. k \in 1 .. Len(body) /\ k < ip
      BY <1>1
    <2>2. CASE body[k].op \in SeqTypes
      BY <1>1, <2>1, <2>2 DEF Ordered
    <2>3. CASE body[k].op \notin SeqTypes
      <3>1. body[k].seq = 0
        BY <1>1, <2>1, <2>3 DEF Ordered
      <3> QED
        BY <1>1, <1>2, <3>1
    <2> QED
      BY <2>2, <2>3
  <1>4. ASSUME NEW k \in ip .. Len(body), body[k].op \in SeqTypes
        PROVE  body[ip].seq <= body[k].seq
    <2>1. k \in 1 .. Len(body) /\ (k = ip \/ ip < k)
      BY <1>1
    <2>2. body[k].seq \in 1 .. Len(f.seqs)
      BY <1>1, <1>4, <2>1 DEF Ordered
    <2>3. ip < k => body[ip].seq < body[k].seq
      BY <1>1, <1>4, <2>1 DEF Ordered
    <2> QED
      BY <1>1, <1>2, <2>1, <2>2, <2>3
  <1> QED
    BY <1>1, <1>2, <1>3, <1>4 DEF Due

\* After the statement of a sequence the next sequence is due; a statement of
\* none (bind, begin, commit) leaves what was due.
LEMMA DueNext ==
    ASSUME Running, ip <= Len(body), Step, NEW n, Due(n)'
    PROVE  IF body[ip].op \in SeqTypes THEN n = body[ip].seq + 1 ELSE Due(n)
  <1>1. /\ Len(body) \in Nat /\ ip \in 1 .. Len(body) /\ Len(f.seqs) \in Nat
        /\ Ordered(f, body, Len(f.seqs))
    BY RunFacts DEF Running
  <1>2. f' = f /\ body' = body /\ ip' = ip + 1
    BY DEF Step, genVars
  <1>3. /\ n \in 1 .. Len(f.seqs) + 1
        /\ \A k \in 1 .. ip' - 1 : body[k].seq < n
        /\ \A k \in ip + 1 .. Len(body) : body[k].op \in SeqTypes => n <= body[k].seq
    BY <1>2 DEF Due
  <1>4. \A k \in 1 .. ip : body[k].seq < n
    BY <1>1, <1>2, <1>3
  <1>5. CASE body[ip].op \in SeqTypes
    <2> DEFINE s == body[ip].seq
    <2>1. s \in 1 .. Len(f.seqs) /\ s < n
      BY <1>1, <1>4, <1>5 DEF Ordered
    <2>2. ASSUME s + 1 < n PROVE FALSE
      <3>1. s + 1 \in 1 .. Len(f.seqs)
        BY <1>1, <1>3, <2>1, <2>2
      <3>2. PICK k \in 1 .. Len(body) : body[k].seq = s + 1
        BY <1>1, <3>1 DEF Ordered
      <3>3. body[k].op \in SeqTypes
        <4>1. s + 1 # 0
          BY <1>1, <2>1
        <4> QED
          BY <1>1, <3>2, <4>1 DEF Ordered
      <3>4. ~(k < ip) /\ k # ip
        <4>1. k < ip => s + 1 < s
          BY <1>1, <1>5, <3>2, <3>3 DEF Ordered
        <4> QED
          BY <1>1, <2>1, <3>2, <4>1
      <3>5. k \in ip + 1 .. Len(body)
        BY <1>1, <3>4
      <3>6. n <= s + 1
        BY <1>3, <3>2, <3>3, <3>5
      <3> QED
        BY <1>1, <1>3, <2>1, <2>2, <3>6
    <2>3. n = s + 1
      BY <1>1, <1>3, <2>1, <2>2
    <2> QED
      BY <1>5, <2>3
  <1>6. CASE body[ip].op \notin SeqTypes
    <2>1. \A k \in 1 .. ip - 1 : body[k].seq < n
      BY <1>1, <1>4
    <2>2. ASSUME NEW k \in ip .. Len(body), body[k].op \in SeqTypes PROVE n <= body[k].seq
      <3>1. k # ip
        BY <1>6, <2>2
      <3>2. k \in ip + 1 .. Len(body)
        BY <1>1, <3>1
      <3> QED
        BY <1>3, <2>2, <3>2
    <2> QED
      BY <1>3, <1>6, <2>1, <2>2 DEF Due
  <1> QED
    BY <1>5, <1>6

\* A call begins with the first sequence.
LEMMA DueFirst ==
    ASSUME Ordered(f, body, Len(f.seqs)), Len(f.seqs) \in Nat, Len(body) \in Nat,
           ip = 1, NEW n, Due(n)
    PROVE  n = 1
  <1>1. n \in 1 .. Len(f.seqs) + 1
    BY DEF Due
  <1>2. ASSUME n > 1 PROVE FALSE
    <2>1. 1 \in 1 .. Len(f.seqs)
      BY <1>1, <1>2
    <2>2. PICK k \in 1 .. Len(body) : body[k].seq = 1
      BY <2>1 DEF Ordered
    <2>3. body[k].op \in SeqTypes
      BY <2>2 DEF Ordered
    <2>4. n <= 1
      BY <2>2, <2>3 DEF Due
    <2> QED
      BY <1>1, <1>2, <2>4
  <1> QED
    BY <1>1, <1>2

\* That is where Start leaves it.
LEMMA DueAtStart ==
    ASSUME HandlerInv, Start, NEW n, Due(n)'
    PROVE  n = 1
  <1>1. f' = f /\ body' = body /\ ip' = ip /\ ip = 1 /\ stage = "done"
    BY DEF Start, HandlerInv, CallInv, OffInv, genVars
  <1>2. Layout(f, body, Len(f.seqs), useTx(f)) /\ f \in Funcs
    BY <1>1 DEF HandlerInv, LayoutInv, TypeOK
  <1>3. body \in Seq(Stmts) /\ Ordered(f, body, Len(f.seqs))
    BY <1>2 DEF Layout
  <1>4. Len(f.seqs) \in Nat /\ Len(body) \in Nat
    BY <1>2, <1>3, FuncFacts
  <1>5. Due(n)
    BY <1>1 DEF Due
  <1> QED
    BY <1>1, <1>3, <1>4, <1>5, DueFirst

-----------------------------------------------------------------------------
(* The steps of a call, by what they do to the rows.                       *)

\* The statement binds a row: the only one that can be nil is that of an @get
\* of one row.
BindsRow ==
    /\ body[ip].op \in {"get", "post", "call"} /\ Seqn.result # None
    /\ \E found \in BOOLEAN :
          /\ ~found => body[ip].op = "get" /\ Seqn.shape = "one"
          /\ BindResult(Seqn.result, found)

\* It binds none: an @empty was passed by a row, an @exists of it by a nil.
KeepsRows ==
    /\ body[ip].op \in SeqTypes /\ Seqn.result = None
    /\ UNCHANGED <<env, source>>
    /\ body[ip].op = "empty" /\ Seqn.target \in Vars \ reservedSources =>
          env[Seqn.target] # "nil"
    /\ /\ body[ip].op = "exists" /\ Seqn.target \in Vars \ reservedSources
       /\ Seqn.target \notin Seqn.members
       => env[Seqn.target] = "nil"
    /\ stale' = stale \cup (IF body[ip].op \in {"put", "delete"}
                            THEN {v \in Vars : source[v] = Seqn.model} ELSE {})

\* Every step after which the call still runs is one of these.
LEMMA RowSteps ==
    ASSUME Running, Execute, run' = "on"
    PROVE  /\ ip <= Len(body) /\ Step /\ (body[ip].op \in SeqTypes => ~NilDeref)
           /\ \/ BindsRow \/ KeepsRows
              \/ body[ip].op \notin SeqTypes /\ UNCHANGED <<env, source, stale>>
  <1>0. ~ReturnError /\ ~Return("panic") /\ ~Return("ok") /\ ~Return("crash")
    BY DEF ReturnError, Return
  <1>1. ASSUME ip <= Len(body), body[ip].op \in SeqTypes
        PROVE  /\ Seqn.type = body[ip].op
               /\ Seqn.result # None => Seqn.type \in {"get", "post", "call"}
               /\ Seqn.type \in {"get", "post"} => Seqn.result # None
    <2>1. /\ body[ip].seq \in 1 .. Len(f.seqs) /\ Seqn = f.seqs[body[ip].seq]
          /\ Seqn.type = body[ip].op
          /\ Seqn.result # None => Seqn.type \in {"get", "post", "call"}
      BY <1>1, SeqnFacts DEF Running
    <2>2. RequiredFieldsOK(f) /\ DOMAIN f.seqs = 1 .. Len(f.seqs)
      BY RunFacts DEF Running, Accepted
    <2> QED
      BY <2>1, <2>2 DEF RequiredFieldsOK
  <1>2. SeqTypes = {"post", "put", "delete", "get", "empty", "exists", "state", "auth",
                    "call", "publish", "response"}
    BY DEF SeqTypes, ModelTypes, WriteTypes
  <1>3. CASE Bind \/ BeginTx \/ CommitTx
    BY <1>0, <1>2, <1>3 DEF Bind, BeginTx, CommitTx, Executing, history
  <1>4. CASE Get
    <2>1. ip <= Len(body) /\ body[ip].op = "get" /\ body[ip].op \in SeqTypes /\ Step /\ ~NilDeref
      BY <1>0, <1>2, <1>4 DEF Get, CallOut, Executing
    <2>2. PICK found \in BOOLEAN : /\ Seqn.shape # "one" => found
                                   /\ BindResult(Seqn.result, found)
      BY <1>0, <1>4 DEF Get, CallOut
    <2> QED
      BY <1>1, <2>1, <2>2 DEF BindsRow
  <1>5. CASE Post
    <2>1. ip <= Len(body) /\ body[ip].op = "post" /\ body[ip].op \in SeqTypes /\ Step /\ ~NilDeref
      BY <1>0, <1>2, <1>5 DEF Post, CallOut, Executing
    <2>2. BindResult(Seqn.result, TRUE)
      BY <1>0, <1>5 DEF Post, CallOut
    <2> QED
      BY <1>1, <2>1, <2>2 DEF BindsRow
  <1>6. CASE PutOrDelete
    <2>1. /\ ip <= Len(body) /\ body[ip].op \in {"put", "delete"} /\ body[ip].op \in SeqTypes
          /\ Step /\ ~NilDeref
      BY <1>0, <1>2, <1>6 DEF PutOrDelete, CallOut, Executing
    <2>2. /\ stale' = stale \cup {v \in Vars : source[v] = Seqn.model}
          /\ UNCHANGED <<env, source>>
      BY <1>0, <1>6 DEF PutOrDelete, CallOut
    <2>3. Seqn.result = None
      BY <1>1, <2>1
    <2> QED
      BY <2>1, <2>2, <2>3 DEF KeepsRows
  <1>7. CASE Other
    <2>1. /\ ip <= Len(body) /\ body[ip].op \in {"call", "auth", "state", "publish"}
          /\ body[ip].op \in SeqTypes /\ Step /\ ~NilDeref
      BY <1>0, <1>2, <1>7 DEF Other, CallOut, Executing
    <2>2. CASE Seqn.result # None
      <3>1. BindResult(Seqn.result, TRUE)
        BY <1>0, <1>7, <2>2 DEF Other, CallOut
      <3> QED
        BY <1>1, <2>1, <2>2, <3>1 DEF BindsRow
    <2>3. CASE Seqn.result = None
      <3>1. UNCHANGED <<env, source, stale>>
        BY <1>0, <1>7, <2>3 DEF Other, CallOut, history
      <3> QED
        BY <2>1, <2>3, <3>1 DEF KeepsRows
    <2> QED
      BY <2>2, <2>3
  <1>8. CASE Guard
    <2>1. /\ ip <= Len(body) /\ body[ip].op \in {"empty", "exists"}
          /\ body[ip].op \in SeqTypes /\ ~NilDeref
      BY <1>2, <1>8 DEF Guard, Executing
    <2>2. PICK isNil \in TargetNil :
             /\ Step /\ UNCHANGED <<env, source, stale>>
             /\ isNil # (body[ip].op = "empty")
      BY <1>0, <1>8 DEF Guard, history
    <2>3. Seqn.result = None
      BY <1>1, <2>1
    <2>4. CASE Seqn.target \notin Seqn.members
      <3>1. (Seqn.target \in Vars \ reservedSources /\ env[Seqn.target] = "nil")
               # (body[ip].op = "empty")
        BY <2>2, <2>4 DEF TargetNil
      <3> QED
        BY <2>1, <2>2, <2>3, <2>4, <3>1 DEF KeepsRows
    <2>5. CASE Seqn.target \in Seqn.members
      <3>1. Seqn.target \in Vars \ reservedSources => env[Seqn.target] # "nil"
        BY <2>1, <2>5 DEF NilDeref, Derefs
      <3> QED
        BY <2>1, <2>2, <2>3, <2>5, <3>1 DEF KeepsRows
    <2> QED
      BY <2>4, <2>5
  <1>9. CASE Respond
    <2>1. /\ ip <= Len(body) /\ body[ip].op = "response" /\ body[ip].op \in SeqTypes
          /\ Step /\ UNCHANGED <<env, source, stale>> /\ ~NilDeref
      BY <1>2, <1>9 DEF Respond, Executing, history
    <2>2. Seqn.result = None
      BY <1>1, <2>1
    <2> QED
      BY <2>1, <2>2 DEF KeepsRows
  <1>10. CASE Panic \/ Finish \/ Crash
    BY <1>0, <1>10 DEF Panic, Finish, Crash
  <1> QED
    BY <1>3, <1>4, <1>5, <1>6, <1>7, <1>8, <1>9, <1>10 DEF Execute

-----------------------------------------------------------------------------
(* Nil rows.                                                               *)

\* Sequence s can be passed only with a row in v, only without one.
Tests(s, v) ==
    \/ f.seqs[s].type = "empty" /\ f.seqs[s].target = v
    \/ v \in f.seqs[s].members
Excludes(s, v) ==
    f.seqs[s].type = "exists" /\ f.seqs[s].target = v /\ v \notin f.seqs[s].members

\* What the sequences up to s say of v, from what those before s say.
LEMMA PastOfNil ==
    ASSUME NEW s \in Nat \ {0}, NEW v
    PROVE  /\ CheckedAt(s + 1, v) <=> ~Binds(s, v) /\ (Tests(s, v) \/ CheckedAt(s, v))
           /\ AbsentAt(s + 1, v) <=>
                 \/ Excludes(s, v)
                 \/ ~Binds(s, v) /\ AbsentAt(s, v)
           /\ MayBeNil(s + 1, v) <=>
                 IF Binds(s, v) THEN f.seqs[s].type = "get" /\ f.seqs[s].shape = "one"
                                ELSE MayBeNil(s, v)
  <1>1. (s + 1) - 1 = s /\ 1 .. s = (1 .. s - 1) \cup {s} /\ s + 1 .. s = {}
    OBVIOUS
  <1>2. \A j \in 1 .. s - 1 : j + 1 .. s = (j + 1 .. s - 1) \cup {s}
    OBVIOUS
  <1>3. \A j \in 1 .. s - 1 :
          (\A n \in j + 1 .. (s + 1) - 1 : ~Binds(n, v)) <=>
             (~Binds(s, v) /\ \A n \in j + 1 .. s - 1 : ~Binds(n, v))
    BY <1>1, <1>2
  <1>4. \A n \in s + 1 .. (s + 1) - 1 : ~Binds(n, v)
    BY <1>1
  <1>5. s \in 1 .. (s + 1) - 1 /\ \A j \in 1 .. (s + 1) - 1 : j = s \/ j \in 1 .. s - 1
    BY <1>1
  <1>6. \A j \in 1 .. s - 1 : j \in 1 .. (s + 1) - 1
    BY <1>1
  <1>7. CheckedAt(s + 1, v) <=> ~Binds(s, v) /\ (Tests(s, v) \/ CheckedAt(s, v))
    <2>1. \A j \in 1 .. s - 1 : j .. s = (j .. s - 1) \cup {s}
      OBVIOUS
    <2>2. \A j \in 1 .. s - 1 :
            (\A n \in j .. (s + 1) - 1 : ~Binds(n, v)) <=>
               (~Binds(s, v) /\ \A n \in j .. s - 1 : ~Binds(n, v))
      BY <1>1, <2>1
    <2>3. (\A n \in s .. (s + 1) - 1 : ~Binds(n, v)) <=> ~Binds(s, v)
      <3>1. s .. (s + 1) - 1 = {s}
        OBVIOUS
      <3> QED
        BY <3>1
    <2> QED
      BY <1>5, <1>6, <2>2, <2>3 DEF CheckedAt, Tests
  <1>8. AbsentAt(s + 1, v) <=>
           \/ Excludes(s, v)
           \/ ~Binds(s, v) /\ AbsentAt(s, v)
    BY <1>3, <1>4, <1>5, <1>6 DEF AbsentAt, Excludes
  <1>9. MayBeNil(s + 1, v) <=>
           \/ Binds(s, v) /\ f.seqs[s].type = "get" /\ f.seqs[s].shape = "one"
           \/ ~Binds(s, v) /\ MayBeNil(s, v)
    BY <1>3, <1>4, <1>5, <1>6 DEF MayBeNil
  <1> QED
    BY <1>7, <1>8, <1>9

\* The sequence of the statement, as the rows' proofs use it.
LEMMA SeqnNow ==
    ASSUME Running, ip <= Len(body), body[ip].op \in SeqTypes, NEW s, s = body[ip].seq
    PROVE  /\ s \in Nat \ {0} /\ s \in 1 .. Len(f.seqs) /\ Seqn = f.seqs[s]
           /\ f.seqs[s].type = body[ip].op
           /\ f.seqs[s].result \in Vars \cup {None} /\ None \notin Vars
           /\ f.seqs[s].result # None => f.seqs[s].type \in {"get", "post", "call"}
           /\ f.seqs[s].type \in {"get", "post"} => f.seqs[s].result # None
           /\ Results(f, s) = Results(f, s - 1) \cup ({f.seqs[s].result} \ {None})
  <1>1. /\ body[ip].seq \in 1 .. Len(f.seqs) /\ Seqn = f.seqs[body[ip].seq]
        /\ Seqn.type = body[ip].op /\ Seqn.result \in Vars \cup {None}
        /\ Seqn.result # None => Seqn.type \in {"get", "post", "call"}
    BY SeqnFacts DEF Running
  <1>2. /\ Len(f.seqs) \in Nat /\ RequiredFieldsOK(f) /\ DOMAIN f.seqs = 1 .. Len(f.seqs)
    BY RunFacts DEF Running, Accepted
  <1>3. s \in Nat \ {0} /\ 1 .. s = (1 .. s - 1) \cup {s}
    BY <1>1, <1>2
  <1>4. Results(f, s) = Results(f, s - 1) \cup ({f.seqs[s].result} \ {None})
    BY <1>3 DEF Results
  <1>5. f.seqs[s].type \in {"get", "post"} => f.seqs[s].result # None
    BY <1>1, <1>2 DEF RequiredFieldsOK
  <1> QED
    BY <1>1, <1>3, <1>4, <1>5, NamesAssumption

\* What NilInv says of the sequence that is due.
LEMMA NilNow ==
    ASSUME Running, NilInv, NEW n, Due(n), NEW v \in Vars \ reservedSources
    PROVE  NilAt(n, v)
  BY DEF Running, NilInv, Due

\* A statement makes true what its sequence says.
LEMMA NilAtNext ==
    ASSUME Running, Execute, run' = "on", NEW s, s = body[ip].seq, body[ip].op \in SeqTypes,
           NEW v \in Vars \ reservedSources, NilAt(s, v)
    PROVE  NilAt(s + 1, v)'
  <1>1. ip <= Len(body) /\ Step /\ ~NilDeref /\ (BindsRow \/ KeepsRows)
    BY RowSteps
  <1>2. /\ s \in Nat \ {0} /\ s \in 1 .. Len(f.seqs) /\ Seqn = f.seqs[s]
        /\ f.seqs[s].type = body[ip].op
        /\ f.seqs[s].result \in Vars \cup {None} /\ None \notin Vars
        /\ f.seqs[s].result # None => f.seqs[s].type \in {"get", "post", "call"}
        /\ Results(f, s) = Results(f, s - 1) \cup ({f.seqs[s].result} \ {None})
    BY <1>1, SeqnNow
  <1>3. env \in [Vars -> {"nil", "row"}] /\ f' = f
    BY <1>1 DEF Running, HandlerTypeOK, Step, genVars
  <1>0. v \in f.seqs[s].members => env[v] = "row"
    BY <1>1, <1>2, <1>3 DEF NilDeref, Derefs
  <1>4. /\ CheckedAt(s + 1, v) <=> ~Binds(s, v) /\ (Tests(s, v) \/ CheckedAt(s, v))
        /\ AbsentAt(s + 1, v) <=>
              \/ Excludes(s, v)
              \/ ~Binds(s, v) /\ AbsentAt(s, v)
        /\ MayBeNil(s + 1, v) <=>
              IF Binds(s, v) THEN f.seqs[s].type = "get" /\ f.seqs[s].shape = "one"
                             ELSE MayBeNil(s, v)
    BY <1>2, PastOfNil
  <1>5. /\ CheckedAt(s + 1, v)' <=> CheckedAt(s + 1, v)
        /\ AbsentAt(s + 1, v)' <=> AbsentAt(s + 1, v)
        /\ MayBeNil(s + 1, v)' <=> MayBeNil(s + 1, v)
        /\ Results(f, (s + 1) - 1)' = Results(f, s)
    <2>1. (s + 1) - 1 = s
      BY <1>2
    <2> QED
      BY <1>3, <2>1 DEF CheckedAt, AbsentAt, MayBeNil, Binds, Results
  <1>6. SUFFICES /\ CheckedAt(s + 1, v) => env'[v] = "row"
                 /\ AbsentAt(s + 1, v) => env'[v] = "nil"
                 /\ v \in Results(f, s) /\ env'[v] = "nil" => MayBeNil(s + 1, v)
    BY <1>5 DEF NilAt
  <1>7. CASE BindsRow
    <2>1. PICK found \in BOOLEAN :
             /\ ~found => f.seqs[s].type = "get" /\ f.seqs[s].shape = "one"
             /\ env' = [env EXCEPT ![f.seqs[s].result] = IF found THEN "row" ELSE "nil"]
      BY <1>2, <1>7 DEF BindsRow, BindResult
    <2>2. f.seqs[s].type \in {"get", "post", "call"}
      BY <1>2, <1>7 DEF BindsRow
    <2>3. CASE f.seqs[s].result = v
      BY <1>3, <1>4, <2>1, <2>2, <2>3 DEF Binds, Excludes
    <2>4. CASE f.seqs[s].result # v
      BY <1>0, <1>2, <1>3, <1>4, <2>1, <2>2, <2>4 DEF Binds, NilAt, Tests, Excludes
    <2> QED
      BY <2>3, <2>4
  <1>8. CASE KeepsRows
    <2>1. /\ f.seqs[s].result = None /\ ~Binds(s, v) /\ env' = env
          /\ Tests(s, v) => env[v] = "row"
          /\ Excludes(s, v) => env[v] = "nil"
      BY <1>0, <1>2, <1>3, <1>8 DEF KeepsRows, Binds, Tests, Excludes
    <2> QED
      BY <1>2, <1>4, <2>1 DEF NilAt
  <1> QED
    BY <1>1, <1>7, <1>8

\* What an accepted sequence takes a field of is a result of an earlier one.
LEMMA DerefsBound ==
    ASSUME Running, ip <= Len(body), body[ip].op \in SeqTypes, NEW v \in Derefs
    PROVE  v \in Vars \ reservedSources /\ v \in Results(f, body[ip].seq - 1)
  <1>1. body[ip].seq \in 1 .. Len(f.seqs) /\ Seqn = f.seqs[body[ip].seq]
    BY SeqnNow
  <1>2. VariableFlowOK(f) /\ DOMAIN f.seqs = 1 .. Len(f.seqs)
    BY RunFacts DEF Running, Accepted
  <1>3. /\ v \in Seqn.inputs \cup Seqn.fields \cup {Seqn.target}
        /\ v \in Vars \ reservedSources
    BY <1>1, ModelFacts, RunFacts DEF Derefs, Running
  <1>4. v \notin {"literal", "query", "currentUser", "message", None}
    BY <1>3, NamesAssumption DEF reservedSources
  <1>5. /\ (Seqn.inputs \cup Seqn.masked) \ {"literal", "query"} \subseteq Declared(f, body[ip].seq)
        /\ Seqn.fields \ {"literal"} \subseteq Declared(f, body[ip].seq)
        /\ Seqn.target \in Declared(f, body[ip].seq) \cup {None}
    BY <1>1, <1>2 DEF VariableFlowOK
  <1> QED
    BY <1>3, <1>4, <1>5 DEF Declared

\* A panic happens only at a row that may be nil and that nothing guards.
LEMMA PanicAt ==
    ASSUME Running, NilInv, Panic
    PROVE  \E v \in Derefs : MayBeNil(body[ip].seq, v) /\ ~CheckedAt(body[ip].seq, v)
  <1>1. /\ ip <= Len(body) /\ body[ip].op \in SeqTypes
        /\ \E v \in Derefs : env[v] = "nil"
    BY DEF Panic, Executing, NilDeref
  <1>2. PICK v \in Derefs : env[v] = "nil"
    BY <1>1
  <1>3. v \in Vars \ reservedSources /\ v \in Results(f, body[ip].seq - 1)
    BY <1>1, DerefsBound
  <1>4. NilAt(body[ip].seq, v)
    BY <1>1, <1>3, DueNow, NilNow
  <1> QED
    BY <1>2, <1>3, <1>4 DEF NilAt

\* Only Panic ends a call with a panic.
LEMMA OnlyPanicPanics ==
    ASSUME Execute, outcome # "panic", outcome' = "panic"
    PROVE  Panic
  <1>1. ~ReturnError /\ ~Return("ok") /\ ~Return("crash") /\ ~Step
    BY DEF ReturnError, Return, Step
  <1> QED
    BY <1>1 DEF Execute, Bind, BeginTx, Get, Post, PutOrDelete, Other, Guard, CommitTx,
                Respond, Finish, Crash, CallOut

\* Every step keeps what the sequences say of the rows.
LEMMA NilStep == HandlerInv /\ NilInv /\ [HandlerNext]_vars => NilInv'
  <1> SUFFICES ASSUME HandlerInv, NilInv, [HandlerNext]_vars PROVE NilInv'
    OBVIOUS
  <1>1. CASE Execute
    <2>1. Running /\ outcome = "none" /\ f' = f /\ body' = body
      BY <1>1, ExecuteCases DEF Running, HandlerInv, CallInv, TxInv, genVars
    <2>2. ASSUME run' = "on", NEW n \in 1 .. Len(f'.seqs) + 1, Due(n)',
                 NEW v \in Vars \ reservedSources
          PROVE  NilAt(n, v)'
      <3>1. ip <= Len(body) /\ Step
        BY <1>1, <2>1, <2>2, RowSteps
      <3>2. CASE body[ip].op \in SeqTypes
        <4>0. PICK s : s = body[ip].seq
          OBVIOUS
        <4>1. n = s + 1
          BY <2>1, <2>2, <3>1, <3>2, <4>0, DueNext
        <4>2. Due(s)
          BY <2>1, <3>1, <3>2, <4>0, DueNow
        <4>3. NilAt(s, v)
          BY <2>1, <4>2, NilNow
        <4>4. NilAt(s + 1, v)'
          BY <1>1, <2>1, <2>2, <3>2, <4>0, <4>3, NilAtNext
        <4> QED
          BY <4>1, <4>4
      <3>3. CASE body[ip].op \notin SeqTypes
        <4>1. env' = env
          BY <1>1, <2>1, <2>2, <3>3, RowSteps DEF BindsRow, KeepsRows, SeqTypes, ModelTypes,
                                                  WriteTypes
        <4>2. Due(n)
          BY <2>1, <2>2, <3>1, <3>3, DueNext
        <4>3. NilAt(n, v)
          BY <2>1, <4>2, NilNow
        <4> QED
          BY <2>1, <4>1, <4>3 DEF NilAt, CheckedAt, AbsentAt, MayBeNil, Binds, Results
      <3> QED
        BY <3>2, <3>3
    <2>3. ASSUME outcome' = "panic"
          PROVE  (\E v \in Derefs : MayBeNil(body[ip].seq, v) /\ ~CheckedAt(body[ip].seq, v))'
      <3>1. Panic
        BY <1>1, <2>1, <2>3, OnlyPanicPanics
      <3>2. \E v \in Derefs : MayBeNil(body[ip].seq, v) /\ ~CheckedAt(body[ip].seq, v)
        BY <2>1, <3>1, PanicAt
      <3>3. ip' = ip
        BY <3>1 DEF Panic, Return
      <3> QED
        BY <2>1, <3>2, <3>3 DEF Derefs, Seqn, MayBeNil, CheckedAt, Binds
    <2> QED
      BY <2>2, <2>3 DEF NilInv
  <1>2. CASE GenNext /\ UNCHANGED callVars
    <2>1. stage # "done"
      BY <1>2 DEF GenNext, Reject, Prolog, GenSequence, GenResult, GenExec, GenInline,
                  GenGuard, GenResponse, Current, Epilog
    <2>2. run' = "off" /\ outcome' = "none"
      BY <1>2, <2>1 DEF HandlerInv, CallInv, OffInv, callVars
    <2> QED
      BY <2>2 DEF NilInv
  <1>3. CASE Start
    <2>1. outcome' = "none"
      BY <1>3 DEF Start, HandlerInv, CallInv, OffInv
    <2>5. ASSUME NEW n, Due(n)', NEW v PROVE NilAt(n, v)'
      <3>1. 1 .. n - 1 = {}
        BY <1>3, <2>5, DueAtStart
      <3> QED
        BY <3>1 DEF NilAt, CheckedAt, AbsentAt, Results
    <2> QED
      BY <2>1, <2>5 DEF NilInv
  <1>4. CASE UNCHANGED vars
    <2>1. /\ f' = f /\ body' = body /\ ip' = ip /\ env' = env /\ run' = run
          /\ outcome' = outcome
      BY <1>4 DEF vars, genVars, callVars
    <2>2. ASSUME NEW n, NEW v
          PROVE  /\ Due(n)' <=> Due(n)
                 /\ NilAt(n, v)' <=> NilAt(n, v)
      BY <2>1 DEF Due, NilAt, CheckedAt, AbsentAt, MayBeNil, Binds, Results
    <2>3. (\E v \in Derefs : MayBeNil(body[ip].seq, v) /\ ~CheckedAt(body[ip].seq, v))' <=>
          (\E v \in Derefs : MayBeNil(body[ip].seq, v) /\ ~CheckedAt(body[ip].seq, v))
      BY <2>1 DEF Derefs, Seqn, MayBeNil, CheckedAt, Binds
    <2> QED
      BY <2>1, <2>2, <2>3 DEF NilInv
  <1> QED
    BY <1>1, <1>2, <1>3, <1>4 DEF HandlerNext, HandlerDone

\* What the sequences say of the rows holds in every state.
LEMMA NilInvariant == HandlerSpec => []NilInv
  <1>1. HandlerInit => NilInv
    BY DEF HandlerInit, NilInv
  <1> QED
    BY <1>1, NilStep, HandlerInvariant, PTL DEF HandlerSpec

\* validator.go:282: in every accepted function a call, a guard or a response
\* panics only at a field of a row that an @get of one row bound and that
\* neither an @empty nor another field has tested since, and after an @exists
\* of the row the use of a field can only panic.
THEOREM PanicsExact == HandlerSpec => []NilExact
  <1>3. HandlerInv /\ NilInv => NilExact
    <2> SUFFICES ASSUME HandlerInv, NilInv,
                        Executing(SeqTypes), NEW v \in Derefs
                 PROVE  /\ CheckedAt(body[ip].seq, v) => env[v] = "row"
                        /\ AbsentAt(body[ip].seq, v) => env[v] = "nil"
      BY DEF NilExact, NilInv
    <2>1. Running /\ ip <= Len(body) /\ body[ip].op \in SeqTypes
      BY DEF Running, HandlerInv, CallInv, Executing
    <2>2. Due(body[ip].seq) /\ v \in Vars \ reservedSources
      BY <2>1, DueNow, DerefsBound
    <2> QED
      BY <2>1, <2>2, NilNow DEF NilAt
  <1> QED
    BY <1>3, NilInvariant, HandlerInvariant, PTL

-----------------------------------------------------------------------------
(* The refinement: with the response last, Answer and durable behave as    *)
(* answer and stored of ServiceCall.                                       *)

\* What the caller sees of each way to end and each list of replies.
LEMMA AnswerFacts ==
    /\ AnswerOf(<<>>, "none") = "pending"
    /\ AnswerOf(<<>>, "ok") = "ok"
    /\ AnswerOf(<<>>, "crash") = "lost"
    /\ \A how : AnswerOf(<<"ok">>, how) = "ok"
    /\ \A how : AnswerOf(<<"error">>, how) = "error"
  BY DEF AnswerOf

\* A response that is safe does not panic.
LEMMA SafeResponse ==
    ASSUME Running, NilInv, Breaks, ResponseSafe
    PROVE  FALSE
  <1>1. PICK v \in Derefs : MayBeNil(body[ip].seq, v) /\ ~CheckedAt(body[ip].seq, v)
    BY PanicAt DEF Breaks
  <1>2. /\ body[ip].op = "response" /\ ip <= Len(body) /\ body[ip].op \in SeqTypes
    BY DEF Breaks, Panic, Executing
  <1>3. /\ body[ip].seq \in 1 .. Len(f.seqs) /\ Seqn = f.seqs[body[ip].seq]
        /\ f.seqs[body[ip].seq].type = "response"
    BY <1>2, SeqnNow
  <1>4. body[ip].seq \in DOMAIN f.seqs
    BY <1>3, RunFacts DEF Running
  <1>5. v \in f.seqs[body[ip].seq].members \cap (Vars \ reservedSources)
    BY <1>3 DEF Derefs
  <1> QED
    BY <1>1, <1>3, <1>4, <1>5 DEF ResponseSafe

\* A step of a call with the response last and safe, as the caller and the database see
\* it: the state before and after is one of the few that CallInv allows.
LEMMA SimulatedCall ==
    ASSUME HandlerInv, HandlerInv', NilInv, Execute, Promised
    PROVE  \/ Answer' = Answer /\ durable' = durable
           \/ Answer = "pending" /\ Answer' = Answer /\ durable = {} /\ durable' = WriteSeqs
           \/ Answer = "pending" /\ Answer' = "ok" /\ durable = WriteSeqs /\ durable' = durable
           \/ Answer = "pending" /\ Answer' = "error" /\ durable = {} /\ durable' = durable
           \/ Answer = "pending" /\ Answer' = "lost" /\ durable' = durable
  <1>0. ResponseLast(f) /\ ResponseSafe
    BY DEF Promised
  <1>1. /\ Running /\ TxInv /\ ReplyInv /\ f' = f
        /\ TxInv' /\ ReplyInv' /\ OverInv'
    BY ExecuteCases DEF Running, CallInv, HandlerInv, genVars
  <1>2. /\ run = "on" /\ outcome = "none" /\ replies \in {<<>>, <<"ok">>}
        /\ WriteSeqs' = WriteSeqs /\ ResponseLast(f)'
    BY <1>0, <1>1 DEF Running, TxInv, ReplyInv, WriteSeqs, ResponseLast
  <1>3. /\ replies = <<>> => Answer = "pending"
        /\ replies = <<"ok">> => Answer = "ok"
    BY <1>2, AnswerFacts DEF Answer
  <1>4. /\ outcome' = "none" /\ replies' = <<>> => Answer' = "pending"
        /\ replies' = <<"ok">> => Answer' = "ok"
        /\ replies' = <<"error">> => Answer' = "error"
        /\ outcome' = "ok" /\ replies' = <<>> => Answer' = "ok"
        /\ outcome' = "crash" /\ replies' = <<>> => Answer' = "lost"
    BY AnswerFacts DEF Answer
  <1>5. ASSUME NEW how \in {"error", "panic"}, Fails(how)
        PROVE  Answer = "pending" /\ Answer' = "error" /\ durable = {} /\ durable' = durable
    <2>1. ~Ran({"commit"}) /\ ~Ran({"response"})
      BY <1>0, <1>1, <1>5, BeforeCommit DEF Fails
    <2>2. replies = <<>> /\ durable = {}
      BY <1>0, <1>1, <1>2, <2>1 DEF TxInv, ReplyInv
    <2>3. durable' = durable /\ replies' = Append(<<>>, "error")
      BY <1>5, <2>2 DEF Fails, Return
    <2>4. Append(<<>>, "error") = <<"error">>
      OBVIOUS
    <2> QED
      BY <1>3, <1>4, <2>2, <2>3, <2>4
  <1>6. CASE Proceeds
    <2>1. outcome' = outcome /\ replies' = replies /\ durable' = durable
      BY <1>6 DEF Proceeds, Step
    <2> QED
      BY <2>1 DEF Answer
  <1>7. CASE Commits
    <2>1. ~Ran({"commit"}) /\ ~Ran({"response"}) /\ Ran({"commit"})'
      BY <1>0, <1>1, <1>7, AtCommit, RanStep DEF Commits, Executing
    <2>2. outcome' = outcome /\ replies' = replies /\ run' = "on"
      BY <1>2, <1>7 DEF Commits, Step
    <2>3. replies = <<>> /\ durable = {} /\ durable' = WriteSeqs
      BY <1>0, <1>1, <1>2, <2>1, <2>2 DEF TxInv, ReplyInv
    <2> QED
      BY <1>2, <1>3, <1>4, <2>2, <2>3
  <1>8. CASE Respond
    <2>1. ip <= Len(body) /\ body[ip].op = "response" /\ Step
      BY <1>8 DEF Respond, Executing
    <2>2. ~Ran({"response"}) /\ (useTx(f) <=> Ran({"commit"})) /\ Ran({"response"})'
      BY <1>0, <1>1, <2>1, AtLastResponse, RanStep
    <2>3. replies = <<>> /\ durable = WriteSeqs /\ durable' = durable
      BY <1>0, <1>1, <1>2, <1>8, <2>2, NoWrites DEF TxInv, ReplyInv, Respond, db
    <2>4. replies' = <<"ok">>
      BY <1>0, <1>1, <1>2, <2>1, <2>2 DEF ReplyInv, Step
    <2> QED
      BY <1>3, <1>4, <2>3, <2>4
  <1>9. CASE Finish
    <2>1. ip > Len(body) /\ outcome' = "ok" /\ durable' = durable /\ run' = "over"
      BY <1>9 DEF Finish, Return
    <2>2. useTx(f) <=> Ran({"commit"})
      BY <1>0, <1>1, <2>1, AtEnd
    <2>3. durable = WriteSeqs
      BY <1>0, <1>1, <1>2, <2>2, NoWrites DEF TxInv
    <2>4. replies' \in {<<>>, <<"ok">>}
      BY <1>0, <1>1, <1>2, <2>1 DEF OverInv
    <2>5. Answer' = "ok"
      BY <1>4, <2>1, <2>4
    <2> QED
      BY <1>2, <1>3, <2>1, <2>3, <2>5
  <1>10. CASE Crash
    <2>1. outcome' = "crash" /\ durable' = durable /\ replies' = replies
      BY <1>10 DEF Crash, Return
    <2> QED
      BY <1>2, <1>3, <1>4, <2>1
  <1>11. ~Breaks
    BY <1>0, <1>1, SafeResponse
  <1> QED
    BY <1>5, <1>6, <1>7, <1>8, <1>9, <1>10, <1>11, ExecuteCases

\* Phase032: every accepted function whose response is its last sequence and
\* takes fields only of rows that are there implements ServiceCall.
THEOREM HandlersImplementServiceCall == HandlerSpec => ImplementsServiceCall
  <1>1. HandlerInit => Abstract!Init
    <2> SUFFICES ASSUME HandlerInit PROVE Abstract!Init
      OBVIOUS
    <2>1. Answer = "pending" /\ durable = {}
      BY AnswerFacts DEF HandlerInit, Answer
    <2> QED
      BY <2>1 DEF Abstract!Init
  <1>2. HandlerInv /\ HandlerInv' /\ NilInv /\ [HandlerNext]_vars
           => [Abstract!Next]_(Abstract!vars)
    <2> SUFFICES ASSUME HandlerInv, HandlerInv', NilInv, [HandlerNext]_vars
                 PROVE  [Abstract!Next]_(Abstract!vars)
      OBVIOUS
    <2>1. f' = f
      <3>1. CASE Execute
        BY <3>1, ExecuteCases DEF genVars
      <3>2. CASE Start \/ HandlerDone \/ UNCHANGED vars
        BY <3>2 DEF Start, HandlerDone, vars, genVars
      <3>3. ASSUME GenSequence PROVE Advance
        <4>1. PICK s \in {f.seqs[k] : k \in DOMAIN f.seqs} :
                 GenResult(s) \/ GenExec(s) \/ GenInline(s) \/ GenGuard(s) \/ GenResponse(s)
          BY <3>3 DEF GenSequence
        <4> QED
          BY <4>1, Zenon DEF GenResult, GenExec, GenInline, GenGuard, GenResponse
      <3>4. CASE GenNext
        BY <3>3, <3>4 DEF GenNext, Reject, Prolog, Advance, Epilog
      <3> QED
        BY <3>1, <3>2, <3>4 DEF HandlerNext
    <2>2. WriteSeqs' = WriteSeqs /\ (Promised' <=> Promised)
      BY <2>1 DEF WriteSeqs, Promised, ResponseLast, ResponseSafe, MayBeNil, CheckedAt, Binds
    <2>3. CASE Execute /\ Promised
      BY <2>2, <2>3, SimulatedCall
      DEF Abstract!Next, Abstract!Store, Abstract!Succeed, Abstract!Fail, Abstract!Lose,
          Abstract!vars
    <2>4. CASE ~Promised
      BY <2>2, <2>4 DEF Abstract!vars
    <2>5. CASE ~Execute
      <3>1. outcome' = outcome /\ replies' = replies /\ durable' = durable
        BY <2>5 DEF HandlerNext, HandlerDone, vars, callVars, db, Start
      <3>2. Answer' = Answer
        BY <3>1 DEF Answer
      <3> QED
        BY <2>2, <3>1, <3>2 DEF Abstract!vars
    <2> QED
      BY <2>3, <2>4, <2>5
  <1> QED
    BY <1>1, <1>2, HandlerInvariant, NilInvariant, PTL DEF HandlerSpec, ImplementsServiceCall, Abstract!Spec

-----------------------------------------------------------------------------
(* Rows older than a write to their model.                                 *)

\* The last @get of v and the newer writes of x among the sequences up to s,
\* from those before s.
LEMMA PastOfStale ==
    ASSUME NEW s \in Nat \ {0}, NEW v, NEW x
    PROVE  /\ \A j \in 1 .. s - 1 : LastGet(s + 1, v, j) <=>
                 LastGet(s, v, j) /\ ~(f.seqs[s].type = "get" /\ f.seqs[s].result = v)
           /\ LastGet(s + 1, v, s) <=> f.seqs[s].type = "get" /\ f.seqs[s].result = v
           /\ \A w \in 1 .. s - 1 : NewerWrite(s + 1, x, w) <=>
                 NewerWrite(s, x, w) /\ ~(f.seqs[s].type = "get" /\ f.seqs[s].model = x)
           /\ NewerWrite(s + 1, x, s) <=>
                 f.seqs[s].type \in {"put", "delete"} /\ f.seqs[s].model = x
  <1>1. (s + 1) - 1 = s /\ s + 1 .. s = {}
    OBVIOUS
  <1>2. \A j \in 1 .. s - 1 : j + 1 .. s = (j + 1 .. s - 1) \cup {s}
    OBVIOUS
  <1>3. \A j \in 1 .. s - 1 : LastGet(s + 1, v, j) <=>
          LastGet(s, v, j) /\ ~(f.seqs[s].type = "get" /\ f.seqs[s].result = v)
    BY <1>1, <1>2 DEF LastGet
  <1>4. LastGet(s + 1, v, s) <=> f.seqs[s].type = "get" /\ f.seqs[s].result = v
    BY <1>1 DEF LastGet
  <1>5. \A w \in 1 .. s - 1 : NewerWrite(s + 1, x, w) <=>
          NewerWrite(s, x, w) /\ ~(f.seqs[s].type = "get" /\ f.seqs[s].model = x)
    BY <1>1, <1>2 DEF NewerWrite
  <1>6. NewerWrite(s + 1, x, s) <=> f.seqs[s].type \in {"put", "delete"} /\ f.seqs[s].model = x
    BY <1>1 DEF NewerWrite
  <1> QED
    BY <1>3, <1>4, <1>5, <1>6

\* What the sequences up to s read and wrote.
LEMMA PastOfReads ==
    ASSUME NEW s \in Nat \ {0}, NEW v, NEW x
    PROVE  /\ Read(s + 1, v, x) <=>
                 IF f.seqs[s].type = "get" /\ f.seqs[s].result = v
                 THEN f.seqs[s].model = x ELSE Read(s, v, x)
           /\ Newer(s + 1, x) <=>
                 \/ f.seqs[s].type \in {"put", "delete"} /\ f.seqs[s].model = x
                 \/ Newer(s, x) /\ ~(f.seqs[s].type = "get" /\ f.seqs[s].model = x)
           /\ Never(s + 1, v) <=>
                 Never(s, v) /\ ~(f.seqs[s].type = "get" /\ f.seqs[s].result = v)
  <1>1. s \in 1 .. (s + 1) - 1 /\ \A j : j \in 1 .. (s + 1) - 1 <=> j = s \/ j \in 1 .. s - 1
    OBVIOUS
  <1>2. Read(s + 1, v, x) <=> \/ LastGet(s + 1, v, s) /\ f.seqs[s].model = x
                              \/ \E j \in 1 .. s - 1 : LastGet(s + 1, v, j) /\ f.seqs[j].model = x
    BY <1>1 DEF Read
  <1>3. Newer(s + 1, x) <=> \/ NewerWrite(s + 1, x, s)
                            \/ \E w \in 1 .. s - 1 : NewerWrite(s + 1, x, w)
    BY <1>1 DEF Newer
  <1>4. Never(s + 1, v) <=> Never(s, v) /\ ~(f.seqs[s].type = "get" /\ f.seqs[s].result = v)
    BY <1>1 DEF Never
  <1>5. (\E j \in 1 .. s - 1 : LastGet(s + 1, v, j) /\ f.seqs[j].model = x) <=>
          Read(s, v, x) /\ ~(f.seqs[s].type = "get" /\ f.seqs[s].result = v)
    BY PastOfStale DEF Read
  <1>6. (\E w \in 1 .. s - 1 : NewerWrite(s + 1, x, w)) <=>
          Newer(s, x) /\ ~(f.seqs[s].type = "get" /\ f.seqs[s].model = x)
    BY PastOfStale DEF Newer
  <1> QED
    BY <1>2, <1>3, <1>4, <1>5, <1>6, PastOfStale

\* With one reader for each model a variable holds rows of one model, and no
\* other variable holds rows of it.
LEMMA ReadsOfOneReader ==
    ASSUME Running, OneReader(f), NEW n \in 1 .. Len(f.seqs) + 1, NEW v, NEW x, Read(n, v, x)
    PROVE  /\ x \in Models /\ ~Never(n, v)
           /\ \A y : Read(n, v, y) => y = x
           /\ \A k \in 1 .. Len(f.seqs) :
                 f.seqs[k].type = "get" => (f.seqs[k].result = v <=> f.seqs[k].model = x)
  <1>1. /\ Len(f.seqs) \in Nat /\ DOMAIN f.seqs = 1 .. Len(f.seqs) /\ f \in Funcs
    BY RunFacts DEF Running
  <1>2. PICK j \in 1 .. n - 1 : LastGet(n, v, j) /\ f.seqs[j].model = x
    BY DEF Read
  <1>3. j \in 1 .. Len(f.seqs) /\ f.seqs[j].type = "get" /\ f.seqs[j].result = v
    BY <1>1, <1>2 DEF LastGet
  <1>4. x \in Models
    BY <1>1, <1>2, <1>3, ModelFacts DEF ModelTypes
  <1>5. \A k \in 1 .. Len(f.seqs) :
          f.seqs[k].type = "get" => (f.seqs[k].result = v <=> f.seqs[k].model = x)
    BY <1>1, <1>2, <1>3 DEF OneReader
  <1>6. ASSUME NEW y, Read(n, v, y) PROVE y = x
    <2>1. PICK k \in 1 .. n - 1 : LastGet(n, v, k) /\ f.seqs[k].model = y
      BY <1>6 DEF Read
    <2>2. k \in 1 .. Len(f.seqs) /\ f.seqs[k].type = "get" /\ f.seqs[k].result = v
      BY <1>1, <2>1 DEF LastGet
    <2> QED
      BY <1>5, <2>1, <2>2
  <1>7. ~Never(n, v)
    BY <1>2, <1>3 DEF Never
  <1> QED
    BY <1>4, <1>5, <1>6, <1>7

\* A statement that binds a row takes it out of the stale ones, and no other.
LEMMA StaleAtBinding ==
    ASSUME Running, OneReader(f), BindsRow, NEW s, s = body[ip].seq, body[ip].op \in SeqTypes,
           ip <= Len(body), NEW v \in Vars, StaleAt(s, v)
    PROVE  /\ (source'[v] = None /\ Never(s + 1, v)) \/ Read(s + 1, v, source'[v])
           /\ v \in stale' <=> \E x \in Models : Read(s + 1, v, x) /\ Newer(s + 1, x)
  <1>1. /\ s \in Nat \ {0} /\ s \in 1 .. Len(f.seqs) /\ Seqn = f.seqs[s]
        /\ f.seqs[s].result \in Vars \cup {None} /\ Len(f.seqs) \in Nat
        /\ DOMAIN f.seqs = 1 .. Len(f.seqs)
    BY SeqnNow, RunFacts DEF Running
  <1> DEFINE u == f.seqs[s].result
  <1>2. f.seqs[s].type = "get" /\ u \in Vars
    BY <1>1 DEF BindsRow, OneReader
  <1>3. source' = [source EXCEPT ![u] = f.seqs[s].model] /\ stale' = stale \ {u}
    BY <1>1, <1>2 DEF BindsRow, BindResult
  <1>4. source \in [Vars -> Models \cup {None}]
    BY DEF Running, HandlerTypeOK
  <1>5. s \in 1 .. Len(f.seqs) + 1
    BY <1>1
  <1>6. CASE u = v
    <2>1. source'[v] = f.seqs[s].model /\ v \notin stale'
      BY <1>2, <1>3, <1>4, <1>6
    <2>2. \A x : Read(s + 1, v, x) <=> x = f.seqs[s].model
      BY <1>1, <1>2, <1>6, PastOfReads
    <2>3. ~Newer(s + 1, f.seqs[s].model)
      BY <1>1, <1>2, PastOfReads
    <2> QED
      BY <2>1, <2>2, <2>3
  <1>7. CASE u # v
    <2>1. source'[v] = source[v] /\ (v \in stale' <=> v \in stale)
      BY <1>3, <1>4, <1>7
    <2>2. \A x : Read(s + 1, v, x) <=> Read(s, v, x)
      BY <1>1, <1>7, PastOfReads
    <2>3. ASSUME NEW x, Read(s, v, x) PROVE Newer(s + 1, x) <=> Newer(s, x)
      <3>1. f.seqs[s].model # x
        BY <1>1, <1>2, <1>5, <1>7, <2>3, ReadsOfOneReader
      <3> QED
        BY <1>1, <1>2, <3>1, PastOfReads
    <2>4. Never(s + 1, v) <=> Never(s, v)
      BY <1>1, <1>7, PastOfReads
    <2> QED
      BY <2>1, <2>2, <2>3, <2>4 DEF StaleAt
  <1> QED
    BY <1>6, <1>7

\* A statement that binds none makes stale what it overwrites, and no other.
LEMMA StaleAtKeeping ==
    ASSUME Running, OneReader(f), KeepsRows, NEW s, s = body[ip].seq, body[ip].op \in SeqTypes,
           ip <= Len(body), NEW v \in Vars, StaleAt(s, v)
    PROVE  /\ (source'[v] = None /\ Never(s + 1, v)) \/ Read(s + 1, v, source'[v])
           /\ v \in stale' <=> \E x \in Models : Read(s + 1, v, x) /\ Newer(s + 1, x)
  <1>1. /\ s \in Nat \ {0} /\ s \in 1 .. Len(f.seqs) /\ Seqn = f.seqs[s]
        /\ f.seqs[s].type = body[ip].op /\ f \in Funcs /\ Len(f.seqs) \in Nat
        /\ f.seqs[s].type \in {"get", "post"} => f.seqs[s].result # None
    BY SeqnNow, RunFacts DEF Running
  <1>2. f.seqs[s].type # "get" /\ source' = source
    BY <1>1 DEF KeepsRows
  <1>3. \A x : Read(s + 1, v, x) <=> Read(s, v, x)
    BY <1>1, <1>2, PastOfReads
  <1>4. Never(s + 1, v) <=> Never(s, v)
    BY <1>1, <1>2, PastOfReads
  <1>5. s \in 1 .. Len(f.seqs) + 1
    BY <1>1
  <1>6. CASE f.seqs[s].type \in {"put", "delete"}
    <2> DEFINE y == f.seqs[s].model
    <2>1. y \in Models /\ y # None
      BY <1>1, <1>6, ModelFacts DEF ModelTypes, WriteTypes
    <2>2. v \in stale' <=> v \in stale \/ source[v] = y
      BY <1>1, <1>6 DEF KeepsRows
    <2>3. \A x : Newer(s + 1, x) <=> x = y \/ Newer(s, x)
      BY <1>1, <1>2, <1>6, PastOfReads
    <2>4. source[v] = y <=> Read(s, v, y)
      BY <1>5, <2>1, ReadsOfOneReader DEF StaleAt
    <2> QED
      BY <1>2, <1>3, <1>4, <2>1, <2>2, <2>3, <2>4 DEF StaleAt
  <1>7. CASE f.seqs[s].type \notin {"put", "delete"}
    <2>1. stale' = stale
      BY <1>1, <1>7 DEF KeepsRows
    <2>2. \A x : Newer(s + 1, x) <=> Newer(s, x)
      BY <1>1, <1>2, <1>7, PastOfReads
    <2> QED
      BY <1>2, <1>3, <1>4, <2>1, <2>2 DEF StaleAt
  <1> QED
    BY <1>6, <1>7

\* What StaleInv says of the sequence that is due.
LEMMA StaleNow ==
    ASSUME Running, StaleInv, OneReader(f), NEW n, Due(n), NEW v \in Vars
    PROVE  StaleAt(n, v)
  BY DEF Running, StaleInv, Due

\* The past of a function is the same in every state.
LEMMA StalePast ==
    ASSUME f' = f, NEW n, NEW v
    PROVE  /\ \A x : (Read(n, v, x)' <=> Read(n, v, x)) /\ (Newer(n, x)' <=> Newer(n, x))
           /\ Never(n, v)' <=> Never(n, v)
           /\ OneReader(f)' <=> OneReader(f)
  BY DEF Read, Newer, Never, LastGet, NewerWrite, OneReader

\* Every step keeps the history of the rows.
LEMMA StaleStep == HandlerInv /\ StaleInv /\ [HandlerNext]_vars => StaleInv'
  <1> SUFFICES ASSUME HandlerInv, StaleInv, [HandlerNext]_vars, OneReader(f)', run' = "on",
                      NEW n \in 1 .. Len(f'.seqs) + 1, Due(n)', NEW v \in Vars
               PROVE  StaleAt(n, v)'
    BY DEF StaleInv
  <1>1. CASE Execute
    <2>1. Running /\ f' = f /\ body' = body
      BY <1>1, ExecuteCases DEF Running, HandlerInv, CallInv, genVars
    <2>2. OneReader(f)
      BY <2>1, StalePast
    <2>3. ip <= Len(body) /\ Step
      BY <1>1, <2>1, RowSteps
    <2>4. CASE body[ip].op \in SeqTypes
      <3>0. PICK s : s = body[ip].seq
        OBVIOUS
      <3>1. n = s + 1
        BY <2>1, <2>3, <2>4, <3>0, DueNext
      <3>2. StaleAt(s, v)
        BY <2>1, <2>2, <2>3, <2>4, <3>0, DueNow, StaleNow
      <3>3. BindsRow \/ KeepsRows
        BY <1>1, <2>1, <2>4, RowSteps
      <3>4. /\ (source'[v] = None /\ Never(n, v)) \/ Read(n, v, source'[v])
            /\ v \in stale' <=> \E x \in Models : Read(n, v, x) /\ Newer(n, x)
        BY <2>1, <2>2, <2>3, <2>4, <3>0, <3>1, <3>2, <3>3, StaleAtBinding, StaleAtKeeping
      <3> QED
        BY <2>1, <3>4, StalePast DEF StaleAt
    <2>5. CASE body[ip].op \notin SeqTypes
      <3>1. source' = source /\ stale' = stale
        BY <1>1, <2>1, <2>5, RowSteps DEF BindsRow, KeepsRows, SeqTypes, ModelTypes, WriteTypes
      <3>2. StaleAt(n, v)
        BY <2>1, <2>2, <2>3, <2>5, DueNext, StaleNow
      <3> QED
        BY <2>1, <3>1, <3>2, StalePast DEF StaleAt
    <2> QED
      BY <2>4, <2>5
  <1>2. CASE GenNext /\ UNCHANGED callVars
    <2>1. stage # "done"
      BY <1>2 DEF GenNext, Reject, Prolog, GenSequence, GenResult, GenExec, GenInline,
                  GenGuard, GenResponse, Current, Epilog
    <2> QED
      BY <1>2, <2>1 DEF HandlerInv, CallInv, OffInv, callVars
  <1>3. CASE Start
    <2>1. n = 1
      BY <1>3, DueAtStart
    <2>2. 1 .. n - 1 = {}
      BY <2>1
    <2>3. source' = [w \in Vars |-> None] /\ stale' = {}
      BY <1>3 DEF Start, HandlerInv, CallInv, OffInv, history
    <2> QED
      BY <2>2, <2>3 DEF StaleAt, Never, Read
  <1>4. CASE UNCHANGED vars
    <2>1. /\ f' = f /\ body' = body /\ ip' = ip /\ run' = run /\ source' = source
          /\ stale' = stale
      BY <1>4 DEF vars, genVars, callVars, history
    <2>2. StaleAt(n, v)
      <3>1. Due(n) /\ OneReader(f) /\ n \in 1 .. Len(f.seqs) + 1
        BY <2>1, StalePast DEF Due
      <3> QED
        BY <2>1, <3>1 DEF StaleInv
    <2> QED
      BY <2>1, <2>2, StalePast DEF StaleAt
  <1> QED
    BY <1>1, <1>2, <1>3, <1>4 DEF HandlerNext, HandlerDone

\* README.md:114: on every accepted function in which each model is read into
\* one variable, validateStaleResponse warns of a response exactly when the
\* running handler would answer with a row older than a write to its model.
THEOREM WarningExact == HandlerSpec => []StaleExact
  <1>1. HandlerInit => StaleInv
    BY DEF HandlerInit, StaleInv
  <1>2. HandlerSpec => []StaleInv
    BY <1>1, StaleStep, HandlerInvariant, PTL DEF HandlerSpec
  <1>3. HandlerInv /\ StaleInv => StaleExact
    <2> SUFFICES ASSUME HandlerInv, StaleInv, OneReader(f), Executing({"response"}),
                        ~Seqn.suppress
                 PROVE  CarriesStale(Seqn) <=> StaleWarning(f, body[ip].seq)
      BY DEF StaleExact
    <2> DEFINE s == body[ip].seq
    <2>1. Running /\ ip <= Len(body) /\ body[ip].op = "response" /\ body[ip].op \in SeqTypes
      BY DEF Running, HandlerInv, CallInv, Executing, SeqTypes
    <2>2. /\ s \in 1 .. Len(f.seqs) /\ s \in Nat \ {0} /\ Seqn = f.seqs[s]
          /\ f.seqs[s].type = "response"
          /\ DOMAIN f.seqs = 1 .. Len(f.seqs) /\ Len(f.seqs) \in Nat /\ f \in Funcs
      BY <2>1, SeqnNow, RunFacts DEF Running
    <2>3. \A v \in Vars : StaleAt(s, v)
      BY <2>1, DueNow, StaleNow
    <2>4. stale \subseteq Vars /\ Seqn.target = None /\ None \notin Vars
      BY <2>2, NamesAssumption DEF HandlerInv, HandlerTypeOK, OneReader
    <2>5. CarriesStale(Seqn) <=> \E v \in Seqn.fields : v \in stale
      BY <2>4 DEF CarriesStale
    <2>6. \A j \in 1 .. s - 1 : /\ f.seqs[j].result \in Vars \cup {None}
                                /\ f.seqs[j].type = "get" => /\ f.seqs[j].result # None
                                                             /\ f.seqs[j].model \in Models
      <3>1. RequiredFieldsOK(f)
        BY <2>1, RunFacts DEF Running, Accepted
      <3> QED
        BY <2>2, <3>1, SeqFacts, ModelFacts DEF RequiredFieldsOK, ModelTypes
    <2>7. StaleWarning(f, s) <=>
            \E j, w \in 1 .. s - 1 : /\ f.seqs[j].result \in Seqn.fields
                                     /\ LastGet(s, f.seqs[j].result, j)
                                     /\ NewerWrite(s, f.seqs[j].model, w)
      BY <2>2 DEF StaleWarning, LastGet, NewerWrite
    <2>8. ASSUME NEW v \in Seqn.fields, v \in stale PROVE StaleWarning(f, s)
      <3>1. PICK x \in Models : Read(s, v, x) /\ Newer(s, x)
        BY <2>3, <2>4, <2>8 DEF StaleAt
      <3>2. PICK j \in 1 .. s - 1 : LastGet(s, v, j) /\ f.seqs[j].model = x
        BY <3>1 DEF Read
      <3>3. PICK w \in 1 .. s - 1 : NewerWrite(s, x, w)
        BY <3>1 DEF Newer
      <3>4. f.seqs[j].result = v
        BY <3>2 DEF LastGet
      <3> QED
        BY <2>7, <2>8, <3>2, <3>3, <3>4
    <2>9. ASSUME StaleWarning(f, s) PROVE \E v \in Seqn.fields : v \in stale
      <3>1. PICK j, w \in 1 .. s - 1 : /\ f.seqs[j].result \in Seqn.fields
                                       /\ LastGet(s, f.seqs[j].result, j)
                                       /\ NewerWrite(s, f.seqs[j].model, w)
        BY <2>7, <2>9
      <3>2. f.seqs[j].result \in Vars /\ f.seqs[j].model \in Models
        BY <2>6, <3>1 DEF LastGet
      <3>3. Read(s, f.seqs[j].result, f.seqs[j].model) /\ Newer(s, f.seqs[j].model)
        BY <3>1 DEF Read, Newer
      <3> QED
        BY <2>3, <3>1, <3>2, <3>3 DEF StaleAt
    <2> QED
      BY <2>5, <2>8, <2>9
  <1> QED
    BY <1>2, <1>3, HandlerInvariant, PTL
=============================================================================
