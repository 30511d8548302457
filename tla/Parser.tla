------------------------------- MODULE Parser -------------------------------
(***************************************************************************)
(* parser/parser.go: ParseFile on one .ssac file.  A file is its comment   *)
(* lines and, for each func declaration, how many of them come before it.  *)
(* A line is what parseLine and parseResponseFields make of its text; a    *)
(* parsed sequence is known by the line that ended it.                     *)
(***************************************************************************)
EXTENDS Naturals, Sequences

CONSTANT Files      \* the files to parse

\* text does not begin with @; open is "@response {", close is "}"; tag is a
\* line that parses to a sequence, the one-line forms of @response included;
\* unknown begins with @ and is dropped; bad has an input without a colon.
\* colon: contains one.  bang: @type!.
Line ==
    [kind : {"text", "close", "open", "tag", "subscribe", "unknown", "bad"},
     colon : BOOLEAN, bang : BOOLEAN]

File ==
    {g \in [lines : Seq(Line), funcs : Seq(Nat)] :
        /\ \A m \in DOMAIN g.funcs : g.funcs[m] <= Len(g.lines)
        /\ \A m, k \in DOMAIN g.funcs : m < k => g.funcs[m] <= g.funcs[k]}

ASSUME FilesAssumption == Files \subseteq File

VARIABLES
    file,
    status,         \* decls, lines, filter, ok or error
    n,              \* the declaration being parsed
    c,              \* next comment line of parseComments
    inResponse, responseLines, responseSuppressWarn,
    sequences,      \* parseComments' result so far
    r,              \* next sequence of the loop that takes @subscribe out
    filtered, subscribe,    \* sf.Sequences and sf.Subscribe # nil
    funcs           \* ParseFile's result so far

block == <<inResponse, responseLines, responseSuppressWarn>>
sf == <<r, filtered, subscribe>>
vars == <<file, status, n, c, block, sequences, sf, funcs>>

Parsed(k, type, fields, suppress) ==
    [at |-> k, type |-> type, fields |-> fields, suppress |-> suppress]

Init ==
    /\ file \in Files
    /\ status = "decls" /\ n = 0 /\ c = 1
    /\ inResponse = FALSE /\ responseLines = {} /\ responseSuppressWarn = FALSE
    /\ sequences = <<>> /\ funcs = <<>>
    /\ r = 1 /\ filtered = <<>> /\ subscribe = FALSE

\* The next FuncDecl: its comments are the groups that end before it, and
\* parseComments begins with locals of its own.
NextFunc ==
    /\ status = "decls" /\ n < Len(file.funcs)
    /\ status' = "lines" /\ n' = n + 1 /\ c' = 1
    /\ inResponse' = FALSE /\ responseLines' = {} /\ responseSuppressWarn' = FALSE
    /\ sequences' = <<>>
    /\ UNCHANGED <<file, sf, funcs>>

EndOfFile ==
    /\ status = "decls" /\ n = Len(file.funcs)
    /\ status' = "ok"
    /\ UNCHANGED <<file, n, c, block, sequences, sf, funcs>>

-----------------------------------------------------------------------------
(* parseComments, one line.                                                *)
At(kinds) ==
    status = "lines" /\ c <= file.funcs[n] /\ file.lines[c].kind \in kinds
AllKinds == {"text", "close", "open", "tag", "subscribe", "unknown", "bad"}
Advance ==
    /\ c' = c + 1
    /\ UNCHANGED <<file, status, n, sf, funcs>>

\* Mutant: the block stays open.
CloseResponseStays ==
    /\ At({"close"}) /\ inResponse
    /\ responseLines' = {}
    /\ sequences' = Append(sequences,
                          Parsed(c, "response", responseLines, responseSuppressWarn))
    /\ UNCHANGED <<inResponse, responseSuppressWarn>>
    /\ Advance

CloseResponse ==
    /\ At({"close"}) /\ inResponse
    /\ inResponse' = FALSE /\ responseLines' = {}
    /\ sequences' = Append(sequences,
                          Parsed(c, "response", responseLines, responseSuppressWarn))
    /\ UNCHANGED responseSuppressWarn
    /\ Advance

\* Every other line of the block, a tag too; parseResponseFields keeps the
\* ones with a colon.
ResponseLine ==
    /\ At(AllKinds \ {"close"}) /\ inResponse
    /\ responseLines' = responseLines \cup (IF file.lines[c].colon THEN {c} ELSE {})
    /\ UNCHANGED <<inResponse, responseSuppressWarn, sequences>>
    /\ Advance

\* No @, or parseLine returns neither a sequence nor an error.
SkipLine ==
    /\ At({"text", "close", "unknown"}) /\ ~inResponse
    /\ UNCHANGED <<block, sequences>>
    /\ Advance

OpenResponse ==
    /\ At({"open"}) /\ ~inResponse
    /\ inResponse' = TRUE /\ responseLines' = {}
    /\ responseSuppressWarn' = file.lines[c].bang
    /\ UNCHANGED sequences
    /\ Advance

ParseLine ==
    /\ At({"tag", "subscribe"}) /\ ~inResponse
    /\ sequences' = Append(sequences,
                          Parsed(c, file.lines[c].kind, {}, file.lines[c].bang))
    /\ UNCHANGED block
    /\ Advance

\* An error ends ParseFile without a function.
LineError ==
    /\ At({"bad"}) /\ ~inResponse
    /\ status' = "error" /\ funcs' = <<>>
    /\ UNCHANGED <<file, n, c, block, sequences, sf>>

-----------------------------------------------------------------------------
\* The end of the comments: a function without sequences is skipped.
EndOfComments ==
    /\ status = "lines" /\ c > file.funcs[n]
    /\ status' = IF sequences = <<>> THEN "decls" ELSE "filter"
    /\ r' = 1 /\ filtered' = <<>> /\ subscribe' = FALSE
    /\ UNCHANGED <<file, n, c, block, sequences, funcs>>

\* @subscribe is taken out of the sequences, one sequence at a time.
Filter ==
    /\ status = "filter" /\ r <= Len(sequences)
    /\ IF sequences[r].type = "subscribe"
       THEN subscribe' = TRUE /\ UNCHANGED filtered
       ELSE filtered' = Append(filtered, sequences[r]) /\ UNCHANGED subscribe
    /\ r' = r + 1
    /\ UNCHANGED <<file, status, n, c, block, sequences, funcs>>

EndOfFunc ==
    /\ status = "filter" /\ r > Len(sequences)
    /\ status' = "decls"
    /\ funcs' = Append(funcs, [decl |-> n, subscribe |-> subscribe, sequences |-> filtered])
    /\ UNCHANGED <<file, n, c, block, sequences, sf>>

ParseDone == status \in {"ok", "error"} /\ UNCHANGED vars

Next ==
    \/ NextFunc \/ EndOfFile \/ EndOfComments \/ Filter \/ EndOfFunc \/ ParseDone
    \/ CloseResponse \/ ResponseLine \/ SkipLine \/ OpenResponse \/ ParseLine \/ LineError

Spec == Init /\ [][Next]_vars

-----------------------------------------------------------------------------
(***************************************************************************)
(* What the comments of a function mean, said without a scanner: its own   *)
(* lines are those after the declaration before it, and a line is in a     *)
(* block if an open comes before it among them with no close between.      *)
(***************************************************************************)
Kind(k) == file.lines[k].kind
FirstLine(m) == IF m = 1 THEN 1 ELSE file.funcs[m - 1] + 1

\* The lines from a on that open a block in which k lies.
Opens(a, k) ==
    {j \in a .. k - 1 : Kind(j) = "open" /\ \A h \in j + 1 .. k - 1 : Kind(h) # "close"}
InBlock(a, k) == Opens(a, k) # {}
FirstOpen(a, k) == CHOOSE j \in Opens(a, k) : \A h \in Opens(a, k) : j <= h
Meaning(a, k) ==
    IF Kind(k) = "close"
    THEN Parsed(k, "response",
                {h \in FirstOpen(a, k) + 1 .. k - 1 : file.lines[h].colon},
                file.lines[FirstOpen(a, k)].bang)
    ELSE Parsed(k, Kind(k), {}, file.lines[k].bang)

Yields(m) ==
    {k \in FirstLine(m) .. file.funcs[m] :
        IF InBlock(FirstLine(m), k) THEN Kind(k) = "close"
                                    ELSE Kind(k) \in {"tag", "subscribe"}}
Rejected(m) ==
    \E k \in FirstLine(m) .. file.funcs[m] : Kind(k) = "bad" /\ ~InBlock(FirstLine(m), k)

\* g has exactly the sequences that its own comments mean, in order and with
\* the fields and the ! of their own block, a @subscribe apart.
HasOwn(g) ==
    /\ {g.sequences[k] : k \in DOMAIN g.sequences} =
          {Meaning(FirstLine(g.decl), k) : k \in {h \in Yields(g.decl) : Kind(h) # "subscribe"}}
    /\ \A k \in 1 .. Len(g.sequences) - 1 : g.sequences[k].at < g.sequences[k + 1].at
    /\ g.subscribe = \E k \in Yields(g.decl) : Kind(k) = "subscribe"

\* Nothing before the lines of declaration m is a tag: it is the first
\* function of the file.
FirstTagged(m) == \A k \in 1 .. FirstLine(m) - 1 : Kind(k) \in {"text", "close", "unknown"}

\* parser.go:41-159: ParseFile returns the declarations in order; the first
\* function of a file is among them if its comments yield a sequence, and has
\* exactly the sequences they mean; and an error, which leaves no function, is
\* a line with a bad input outside every block.
ParsesMeaning ==
    /\ \A m \in DOMAIN funcs : FirstTagged(funcs[m].decl) => HasOwn(funcs[m])
    /\ \A m \in 1 .. Len(funcs) - 1 : funcs[m].decl < funcs[m + 1].decl
    /\ status = "ok" =>
          \A m \in DOMAIN file.funcs : FirstTagged(m) =>
              /\ (\E k \in DOMAIN funcs : funcs[k].decl = m) <=> Yields(m) # {}
              /\ ~Rejected(m)
    /\ status = "error" => funcs = <<>> /\ \E m \in DOMAIN file.funcs : Rejected(m)

\* parser.go:108: "다음 함수를 위해 comments를 리셋하지 않아도 됨 - cg.End() < fnPos
\* 체크가 함수별로 필터링": every function of a file has the sequences of its own
\* comments.
OwnComments == \A m \in DOMAIN funcs : HasOwn(funcs[m])
=============================================================================
