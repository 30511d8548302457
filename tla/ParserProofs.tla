---------------------------- MODULE ParserProofs ----------------------------
(***************************************************************************)
(* ParseFile, for files of any length with any number of declarations: the *)
(* scanner of parseComments finds what the lines mean.                     *)
(***************************************************************************)
EXTENDS Parser, TLAPS

Item == [at : Nat, type : AllKinds \cup {"response"}, fields : SUBSET Nat, suppress : BOOLEAN]
Func == [decl : Nat, subscribe : BOOLEAN, sequences : Seq(Item)]

\* The sequences of the first e lines, and whether one of them is an error.
YieldsAt(k) == IF InBlock(1, k) THEN Kind(k) = "close" ELSE Kind(k) \in {"tag", "subscribe"}
YieldsTo(e) == {k \in 1 .. e : YieldsAt(k)}
BadAt(k) == Kind(k) = "bad" /\ ~InBlock(1, k)

\* A line before declaration m is an error.
RejectedTo(m) == \E k \in 1 .. file.funcs[m] : Kind(k) = "bad" /\ ~InBlock(1, k)

\* q holds what the first e lines mean, in order.
Holds(q, e) ==
    /\ q \in Seq(Item)
    /\ {q[k] : k \in 1 .. Len(q)} = {Meaning(1, k) : k \in YieldsTo(e)}
    /\ \A k, m \in 1 .. Len(q) : k < m => q[k].at < q[m].at

\* parseComments before line c of declaration n.
MinOpen(j, k) == j \in Opens(1, k) /\ \A h \in Opens(1, k) : j <= h
Block(j, k) ==
    /\ MinOpen(j, k)
    /\ responseLines = {h \in j + 1 .. k - 1 : file.lines[h].colon}
    /\ responseSuppressWarn = file.lines[j].bang
ScanInv ==
    status = "lines" =>
        /\ c \in 1 .. file.funcs[n] + 1
        /\ inResponse \in BOOLEAN /\ (inResponse <=> InBlock(1, c))
        /\ inResponse => \E j \in 1 .. c - 1 : Block(j, c)
        /\ Holds(sequences, c - 1)
        /\ \A k \in 1 .. c - 1 : ~BadAt(k)

\* The loop over the sequences, before sequence r.
FilterInv ==
    status = "filter" =>
        /\ Holds(sequences, file.funcs[n]) /\ sequences # <<>> /\ ~RejectedTo(n)
        /\ r \in 1 .. Len(sequences) + 1 /\ filtered \in Seq(Item) /\ subscribe \in BOOLEAN
        /\ {filtered[k] : k \in 1 .. Len(filtered)} =
              {sequences[m] : m \in {h \in 1 .. r - 1 : sequences[h].type # "subscribe"}}
        /\ \A k, m \in 1 .. Len(filtered) : k < m => filtered[k].at < filtered[m].at
        /\ subscribe <=> \E m \in 1 .. r - 1 : sequences[m].type = "subscribe"

\* A function that was parsed.
FuncOK(g) ==
    /\ g.decl \in 1 .. Len(file.funcs)
    /\ {g.sequences[k] : k \in 1 .. Len(g.sequences)} =
          {Meaning(1, k) : k \in {h \in YieldsTo(file.funcs[g.decl]) : Kind(h) # "subscribe"}}
    /\ \A k, m \in 1 .. Len(g.sequences) : k < m => g.sequences[k].at < g.sequences[m].at
    /\ g.subscribe <=> \E k \in YieldsTo(file.funcs[g.decl]) : Kind(k) = "subscribe"

\* The declarations that are done with.
Finished == IF status \in {"lines", "filter"} THEN n - 1 ELSE n
FuncsInv ==
    /\ file \in Files /\ status \in {"decls", "lines", "filter", "ok", "error"}
    /\ n \in 0 .. Len(file.funcs) /\ (status \in {"lines", "filter", "error"} => n # 0)
    /\ status = "ok" => n = Len(file.funcs)
    /\ status = "error" => funcs = <<>> /\ RejectedTo(n) /\ (n # 1 => ~RejectedTo(n - 1))
    /\ funcs \in Seq(Func)
    /\ status # "error" =>
          /\ \A g \in {funcs[m] : m \in 1 .. Len(funcs)} : FuncOK(g)
          /\ \A k, m \in 1 .. Len(funcs) : k < m => funcs[k].decl < funcs[m].decl
          /\ {funcs[m].decl : m \in 1 .. Len(funcs)} = {m \in 1 .. Finished : YieldsTo(file.funcs[m]) # {}}
          /\ \A m \in 1 .. Finished : ~RejectedTo(m)

ParserInv == FuncsInv /\ ScanInv /\ FilterInv

-----------------------------------------------------------------------------
\* The lines and the declarations of a file.
LEMMA FileFacts ==
    ASSUME NEW g \in Files
    PROVE  /\ Len(g.lines) \in Nat /\ Len(g.funcs) \in Nat
           /\ DOMAIN g.funcs = 1 .. Len(g.funcs)
           /\ \A m \in 1 .. Len(g.funcs) : g.funcs[m] \in Nat /\ g.funcs[m] <= Len(g.lines)
           /\ \A k \in 1 .. Len(g.lines) : /\ g.lines[k].kind \in AllKinds
                                           /\ g.lines[k].bang \in BOOLEAN
  <1>1. g \in File
    BY FilesAssumption
  <1>2. /\ g.lines \in Seq(Line) /\ g.funcs \in Seq(Nat)
        /\ \A m \in DOMAIN g.funcs : g.funcs[m] <= Len(g.lines)
    BY <1>1 DEF File
  <1>3. ASSUME NEW k \in 1 .. Len(g.lines)
        PROVE  g.lines[k].kind \in AllKinds /\ g.lines[k].bang \in BOOLEAN
    <2>1. g.lines[k] \in Line
      BY <1>2
    <2> QED
      BY <2>1 DEF Line, AllKinds
  <1> QED
    BY <1>2, <1>3

\* One more line: it closes every block, or opens one, or changes none.
LEMMA OpensNext ==
    ASSUME NEW k \in Nat \ {0}
    PROVE  Opens(1, k + 1) = IF Kind(k) = "close" THEN {}
                          ELSE Opens(1, k) \cup (IF Kind(k) = "open" THEN {k} ELSE {})
  <1>1. (k + 1) - 1 = k /\ k + 1 .. k = {} /\ 1 .. k = (1 .. k - 1) \cup {k}
    OBVIOUS
  <1>2. \A j \in 1 .. k - 1 : j + 1 .. k = (j + 1 .. k - 1) \cup {k}
    OBVIOUS
  <1> QED
    BY <1>1, <1>2 DEF Opens

\* The lines up to the kth that yield a sequence, from those before it.
LEMMA YieldsNext ==
    ASSUME NEW k \in Nat \ {0}
    PROVE  YieldsTo(k) = YieldsTo(k - 1) \cup (IF YieldsAt(k) THEN {k} ELSE {})
  <1>1. 1 .. k = (1 .. k - 1) \cup {k}
    OBVIOUS
  <1> QED
    BY <1>1 DEF YieldsTo

\* Only one line is the first.
LEMMA FirstIs ==
    ASSUME NEW k \in Nat, NEW j \in Nat, MinOpen(j, k)
    PROVE  FirstOpen(1, k) = j
  <1>1. Opens(1, k) \subseteq Nat
    BY DEF Opens
  <1>2. FirstOpen(1, k) \in Opens(1, k) /\ \A h \in Opens(1, k) : FirstOpen(1, k) <= h
    BY DEF FirstOpen, MinOpen
  <1>3. FirstOpen(1, k) <= j /\ j <= FirstOpen(1, k) /\ FirstOpen(1, k) \in Nat
    BY <1>1, <1>2 DEF MinOpen
  <1> QED
    BY <1>3

\* A sequence knows the line that ended it.
LEMMA MeaningAt == \A k : Meaning(1, k).at = k
  BY DEF Meaning, Parsed

\* One sequence more.
LEMMA HoldsAppend ==
    ASSUME NEW q, NEW k \in Nat \ {0}, Holds(q, k - 1), YieldsAt(k), Meaning(1, k) \in Item
    PROVE  Holds(Append(q, Meaning(1, k)), k)
  <1> DEFINE e == Meaning(1, k)
             p == Append(q, e)
  <1>1. q \in Seq(Item) /\ Len(q) \in Nat
    BY DEF Holds
  <1>2. /\ p \in Seq(Item) /\ Len(p) = Len(q) + 1
        /\ \A m \in 1 .. Len(q) : p[m] = q[m]
        /\ p[Len(q) + 1] = e
    BY <1>1
  <1> HIDE DEF p
  <1>3. 1 .. Len(q) + 1 = (1 .. Len(q)) \cup {Len(q) + 1}
    BY <1>1
  <1>4. {p[m] : m \in 1 .. Len(p)} = {q[m] : m \in 1 .. Len(q)} \cup {e}
    BY <1>2, <1>3
  <1>5. {Meaning(1, m) : m \in YieldsTo(k)} = {Meaning(1, m) : m \in YieldsTo(k - 1)} \cup {e}
    BY YieldsNext
  <1>6. \A m \in 1 .. Len(q) : q[m].at \in 1 .. k - 1
    <2>1. \A m \in 1 .. Len(q) : \E h \in YieldsTo(k - 1) : q[m] = Meaning(1, h)
      BY DEF Holds
    <2> QED
      BY <2>1, MeaningAt DEF YieldsTo
  <1>7. e.at = k
    BY MeaningAt
  <1> HIDE DEF e
  <1>8. ASSUME NEW h \in 1 .. Len(p), NEW m \in 1 .. Len(p), h < m PROVE p[h].at < p[m].at
    <2>1. h \in 1 .. Len(q)
      BY <1>1, <1>2, <1>8
    <2>2. CASE m \in 1 .. Len(q)
      BY <1>2, <1>8, <2>1, <2>2 DEF Holds
    <2>3. CASE m = Len(q) + 1
      BY <1>2, <1>6, <1>7, <2>1, <2>3
    <2> QED
      BY <1>1, <1>2, <2>2, <2>3
  <1>9. {p[m] : m \in 1 .. Len(p)} = {Meaning(1, m) : m \in YieldsTo(k)}
    BY <1>4, <1>5 DEF Holds
  <1> QED
    BY <1>2, <1>8, <1>9 DEF Holds, p, e

\* A line without a sequence.
LEMMA HoldsSkip ==
    ASSUME NEW q, NEW k \in Nat \ {0}, Holds(q, k - 1), ~YieldsAt(k)
    PROVE  Holds(q, k)
  BY YieldsNext DEF Holds

-----------------------------------------------------------------------------
\* A step keeps the file, and what its lines mean.
LEMMA SameFile ==
    ASSUME file' = file
    PROVE  /\ \A k : /\ Kind(k)' = Kind(k) /\ Opens(1, k)' = Opens(1, k)
                     /\ InBlock(1, k)' <=> InBlock(1, k)
                     /\ Meaning(1, k)' = Meaning(1, k)
                     /\ YieldsAt(k)' <=> YieldsAt(k)
                     /\ BadAt(k)' <=> BadAt(k)
           /\ \A m : RejectedTo(m)' <=> RejectedTo(m)
  <1>1. ASSUME NEW k PROVE Kind(k)' = Kind(k) /\ Opens(1, k)' = Opens(1, k)
    BY DEF Kind, Opens
  <1>2. ASSUME NEW k PROVE InBlock(1, k)' <=> InBlock(1, k)
    BY <1>1 DEF InBlock
  <1>3. ASSUME NEW k PROVE FirstOpen(1, k)' = FirstOpen(1, k)
    BY <1>1 DEF FirstOpen
  <1>4. ASSUME NEW k PROVE Meaning(1, k)' = Meaning(1, k)
    <2>1. PICK j : j = FirstOpen(1, k) /\ j = FirstOpen(1, k)'
      BY <1>3
    <2>2. Kind(k)' = Kind(k)
      BY <1>1
    <2> QED
      BY <2>1, <2>2 DEF Meaning, Parsed
  <1>5. ASSUME NEW k PROVE (YieldsAt(k)' <=> YieldsAt(k)) /\ (BadAt(k)' <=> BadAt(k))
    BY <1>1, <1>2 DEF YieldsAt, BadAt
  <1>6. ASSUME NEW m PROVE RejectedTo(m)' <=> RejectedTo(m)
    BY <1>1, <1>2 DEF RejectedTo
  <1> QED
    BY <1>1, <1>2, <1>4, <1>5, <1>6

\* A step that keeps the file keeps what is said of a parsed function.
LEMMA SameFunc ==
    ASSUME file' = file, NEW g
    PROVE  FuncOK(g)' <=> FuncOK(g)
  BY SameFile DEF FuncOK, YieldsTo

\* The sequences found after the step.
LEMMA HoldsNext ==
    ASSUME file' = file, NEW e, c' = e + 1, e \in Nat, Holds(sequences', e)
    PROVE  Holds(sequences, c - 1)'
  <1>1. c' - 1 = e
    OBVIOUS
  <1>2. {Meaning(1, k)' : k \in {h \in 1 .. e : YieldsAt(h)'}} = {Meaning(1, k) : k \in YieldsTo(e)}
    BY SameFile DEF YieldsTo
  <1> QED
    BY <1>1, <1>2 DEF Holds, YieldsTo

\* Inside a declaration the result does not change.
LEMMA FuncsSame ==
    ASSUME FuncsInv, UNCHANGED <<file, n, funcs>>,
           status \in {"lines", "filter"}, status' \in {"lines", "filter"}
    PROVE  FuncsInv'
  <1>1. Finished' = Finished
    BY DEF Finished
  <1>2. status # "error" /\ status' # "error" /\ status' # "ok" /\ n # 0
    BY DEF FuncsInv
  <1>3. \A m : YieldsTo(file.funcs[m])' = YieldsTo(file.funcs[m])
    BY SameFile DEF YieldsTo
  <1>4. \A g \in {funcs'[m] : m \in 1 .. Len(funcs')} : FuncOK(g)'
    BY <1>2, SameFunc DEF FuncsInv
  <1>5. {funcs'[m].decl : m \in 1 .. Len(funcs')} =
           {m \in 1 .. Finished' : YieldsTo(file.funcs[m])' # {}}
    BY <1>1, <1>2, <1>3 DEF FuncsInv
  <1>6. \A m \in 1 .. Finished' : ~RejectedTo(m)'
    BY <1>1, <1>2, SameFile DEF FuncsInv
  <1>7. \A k, m \in 1 .. Len(funcs') : k < m => funcs'[k].decl < funcs'[m].decl
    BY <1>2 DEF FuncsInv
  <1>8. /\ file' \in Files /\ n' \in 0 .. Len(file'.funcs) /\ funcs' \in Seq(Func)
    BY DEF FuncsInv
  <1> QED
    BY <1>2, <1>4, <1>5, <1>6, <1>7, <1>8 DEF FuncsInv

\* One line on, the scanner knows what the lines up to it mean.
LEMMA ScanKeeps ==
    ASSUME ParserInv, status = "lines", c <= file.funcs[n], Advance,
           inResponse' \in BOOLEAN, inResponse' <=> InBlock(1, c + 1),
           inResponse' => \E j \in 1 .. c :
               /\ MinOpen(j, c + 1)
               /\ responseLines' = {h \in j + 1 .. c : file.lines[h].colon}
               /\ responseSuppressWarn' = file.lines[j].bang,
           Holds(sequences', c), ~BadAt(c)
    PROVE  ParserInv'
  <1> USE DEF Advance
  <1>1. FuncsInv'
    BY FuncsSame DEF ParserInv
  <1>2. /\ file.funcs[n] \in Nat /\ c \in 1 .. file.funcs[n]
        /\ \A k \in 1 .. c - 1 : ~BadAt(k)
    <2>1. file \in Files /\ n \in 1 .. Len(file.funcs)
      BY FileFacts DEF ParserInv, FuncsInv
    <2>2. file.funcs[n] \in Nat
      BY <2>1, FileFacts
    <2>3. c \in 1 .. file.funcs[n] + 1 /\ \A k \in 1 .. c - 1 : ~BadAt(k)
      BY DEF ParserInv, ScanInv
    <2> QED
      BY <2>2, <2>3
  <1>3. PICK d : d = c
    OBVIOUS
  <1>4. d \in Nat /\ d >= 1 /\ c' = d + 1 /\ c' - 1 = d /\ (c + 1) - 1 = d
    BY <1>2, <1>3
  <1>5. Holds(sequences, c - 1)'
    BY <1>3, <1>4, HoldsNext
  <1>6. \A k \in 1 .. c' - 1 : ~BadAt(k)'
    <2>1. \A k \in 1 .. d : k \in 1 .. d - 1 \/ k = d
      BY <1>4
    <2> QED
      BY <1>2, <1>3, <1>4, <2>1, SameFile
  <1>7. inResponse' <=> InBlock(1, c)'
    <2>1. InBlock(1, d + 1)' <=> InBlock(1, d + 1)
      BY SameFile
    <2>2. InBlock(1, c)' <=> InBlock(1, d + 1)'
      BY <1>4 DEF InBlock, Opens
    <2> QED
      BY <1>3, <2>1, <2>2
  <1>8. inResponse' => \E j \in 1 .. c' - 1 : Block(j, c)'
    <2> SUFFICES ASSUME inResponse' PROVE \E j \in 1 .. d : Block(j, c)'
      BY <1>4
    <2>1. PICK j \in 1 .. d :
               /\ MinOpen(j, d + 1)
               /\ responseLines' = {h \in j + 1 .. d : file.lines[h].colon}
               /\ responseSuppressWarn' = file.lines[j].bang
      BY <1>3
    <2>2. Opens(1, c)' = Opens(1, d + 1)
      BY <1>4, SameFile DEF Opens
    <2>3. MinOpen(j, c)'
      BY <2>1, <2>2 DEF MinOpen
    <2>4. Block(j, c)'
      BY <1>4, <2>1, <2>3 DEF Block
    <2> QED
      BY <2>4
  <1>9. c' \in 1 .. file'.funcs[n'] + 1
    BY <1>2
  <1> QED
    BY <1>1, <1>5, <1>6, <1>7, <1>8, <1>9 DEF ParserInv, ScanInv, FilterInv

\* The scanner at a line.
LEMMA ScanNow ==
    ASSUME ParserInv, NEW K, At(K)
    PROVE  /\ status = "lines" /\ c \in Nat \ {0} /\ c <= file.funcs[n]
           /\ Kind(c) \in K /\ Kind(c) \in AllKinds /\ file.lines[c].bang \in BOOLEAN
           /\ inResponse \in BOOLEAN /\ (inResponse <=> InBlock(1, c))
           /\ inResponse => \E j \in 1 .. c - 1 : Block(j, c)
           /\ Holds(sequences, c - 1)
           /\ \A j \in Nat \ {0} : j < c => file.lines[j].bang \in BOOLEAN
  <1>1. /\ file.funcs[n] \in Nat /\ file.funcs[n] <= Len(file.lines)
        /\ Len(file.lines) \in Nat /\ c \in 1 .. file.funcs[n]
    BY FileFacts DEF ParserInv, FuncsInv, ScanInv, At
  <1>2. \A k \in 1 .. c : Kind(k) \in AllKinds /\ file.lines[k].bang \in BOOLEAN
    BY <1>1, FileFacts DEF ParserInv, FuncsInv, Kind
  <1> QED
    BY <1>1, <1>2 DEF ParserInv, ScanInv, At, Kind

\* A line that is in no block and opens none.
LEMMA OutsideKeeps ==
    ASSUME NEW k \in Nat \ {0}, ~InBlock(1, k), Kind(k) # "open"
    PROVE  ~InBlock(1, k + 1)
  BY OpensNext DEF InBlock

\* A line that is no annotation.
LEMMA SkipLineKeeps == ParserInv /\ SkipLine => ParserInv'
  <1> SUFFICES ASSUME ParserInv, SkipLine PROVE ParserInv'
    OBVIOUS
  <1> DEFINE K == {"text", "close", "unknown"}
  <1>1. At(K) /\ ~inResponse /\ Advance /\ UNCHANGED <<block, sequences>>
    BY DEF SkipLine
  <1>2. /\ status = "lines" /\ c \in Nat \ {0} /\ c <= file.funcs[n] /\ Kind(c) \in K
        /\ ~InBlock(1, c) /\ Holds(sequences, c - 1) /\ inResponse \in BOOLEAN
    BY <1>1, ScanNow
  <1>3. PICK d : d = c
    OBVIOUS
  <1>4. ~YieldsAt(d) /\ ~BadAt(d) /\ ~InBlock(1, d + 1)
    BY <1>2, <1>3, OutsideKeeps DEF YieldsAt, BadAt
  <1>5. Holds(sequences', d)
    BY <1>1, <1>2, <1>3, <1>4, HoldsSkip
  <1> QED
    BY <1>1, <1>2, <1>3, <1>4, <1>5, ScanKeeps DEF block

\* The first line of a @response block.
LEMMA OpenResponseKeeps == ParserInv /\ OpenResponse => ParserInv'
  <1> SUFFICES ASSUME ParserInv, OpenResponse PROVE ParserInv'
    OBVIOUS
  <1>1. /\ At({"open"}) /\ ~inResponse /\ Advance /\ inResponse' = TRUE /\ responseLines' = {}
        /\ responseSuppressWarn' = file.lines[c].bang /\ sequences' = sequences
    BY DEF OpenResponse
  <1>2. /\ status = "lines" /\ c \in Nat \ {0} /\ c <= file.funcs[n] /\ Kind(c) = "open"
        /\ ~InBlock(1, c) /\ Holds(sequences, c - 1)
    BY <1>1, ScanNow
  <1>3. PICK d : d = c
    OBVIOUS
  <1>4. ~YieldsAt(d) /\ ~BadAt(d) /\ Opens(1, d + 1) = {d}
    BY <1>2, <1>3, OpensNext DEF YieldsAt, BadAt, InBlock
  <1>5. Holds(sequences', d)
    BY <1>1, <1>2, <1>3, <1>4, HoldsSkip
  <1>6. MinOpen(d, d + 1) /\ InBlock(1, d + 1) /\ d \in 1 .. d
    BY <1>2, <1>3, <1>4 DEF MinOpen, InBlock
  <1>7. {h \in d + 1 .. d : file.lines[h].colon} = {}
    BY <1>2, <1>3
  <1>8. \E j \in 1 .. c : /\ MinOpen(j, c + 1)
                         /\ responseLines' = {h \in j + 1 .. c : file.lines[h].colon}
                         /\ responseSuppressWarn' = file.lines[j].bang
    BY <1>1, <1>3, <1>6, <1>7
  <1> QED
    BY <1>1, <1>2, <1>3, <1>4, <1>5, <1>6, <1>8, ScanKeeps

\* A line that is an annotation.
LEMMA ParseLineKeeps == ParserInv /\ ParseLine => ParserInv'
  <1> SUFFICES ASSUME ParserInv, ParseLine PROVE ParserInv'
    OBVIOUS
  <1>1. /\ At({"tag", "subscribe"}) /\ ~inResponse /\ Advance /\ UNCHANGED block
        /\ sequences' = Append(sequences, Parsed(c, file.lines[c].kind, {}, file.lines[c].bang))
    BY DEF ParseLine
  <1>2. /\ status = "lines" /\ c \in Nat \ {0} /\ c <= file.funcs[n]
        /\ Kind(c) \in {"tag", "subscribe"} /\ file.lines[c].bang \in BOOLEAN
        /\ ~InBlock(1, c) /\ Holds(sequences, c - 1) /\ inResponse \in BOOLEAN
    BY <1>1, ScanNow
  <1>3. PICK d : d = c
    OBVIOUS
  <1>4. YieldsAt(d) /\ ~BadAt(d) /\ ~InBlock(1, d + 1)
    BY <1>2, <1>3, OutsideKeeps DEF YieldsAt, BadAt
  <1>5. Meaning(1, d) = Parsed(d, Kind(d), {}, file.lines[d].bang)
    BY <1>2, <1>3 DEF Meaning
  <1>6. Meaning(1, d) \in Item
    BY <1>2, <1>3, <1>5 DEF Parsed, Item, AllKinds
  <1>7. sequences' = Append(sequences, Meaning(1, d))
    BY <1>1, <1>3, <1>5 DEF Kind
  <1>8. PICK q : q = sequences
    OBVIOUS
  <1>9. Holds(sequences', d)
    BY <1>2, <1>3, <1>4, <1>6, <1>7, <1>8, HoldsAppend
  <1> QED
    BY <1>1, <1>2, <1>3, <1>4, <1>9, ScanKeeps DEF block

\* The lines of a block belong to its first @response.
LEMMA ResponseLineKeeps == ParserInv /\ ResponseLine => ParserInv'
  <1> SUFFICES ASSUME ParserInv, ResponseLine PROVE ParserInv'
    OBVIOUS
  <1>1. /\ At(AllKinds \ {"close"}) /\ inResponse /\ Advance
        /\ responseLines' = responseLines \cup (IF file.lines[c].colon THEN {c} ELSE {})
        /\ UNCHANGED <<inResponse, responseSuppressWarn, sequences>>
    BY DEF ResponseLine
  <1>2. /\ status = "lines" /\ c \in Nat \ {0} /\ c <= file.funcs[n]
        /\ Kind(c) # "close" /\ InBlock(1, c) /\ Holds(sequences, c - 1)
        /\ inResponse \in BOOLEAN /\ \E j \in 1 .. c - 1 : Block(j, c)
    BY <1>1, ScanNow
  <1>3. PICK d : d = c
    OBVIOUS
  <1>4. PICK j \in 1 .. d - 1 : Block(j, d)
    BY <1>2, <1>3
  <1>5. ~YieldsAt(d) /\ ~BadAt(d)
    BY <1>2, <1>3 DEF YieldsAt, BadAt
  <1>6. Holds(sequences', d)
    BY <1>1, <1>2, <1>3, <1>5, HoldsSkip
  <1>7. Opens(1, d + 1) = Opens(1, d) \cup (IF Kind(d) = "open" THEN {d} ELSE {})
    BY <1>2, <1>3, OpensNext
  <1>8. MinOpen(j, d + 1) /\ InBlock(1, d + 1)
    BY <1>2, <1>3, <1>4, <1>7 DEF Block, MinOpen, InBlock
  <1>9. responseLines' = {h \in j + 1 .. d : file.lines[h].colon}
    <2>1. j + 1 .. d = (j + 1 .. d - 1) \cup {d}
      BY <1>2, <1>3
    <2> QED
      BY <1>1, <1>3, <1>4, <2>1 DEF Block
  <1>10. responseSuppressWarn' = file.lines[j].bang /\ j \in 1 .. d
    BY <1>1, <1>2, <1>3, <1>4 DEF Block
  <1>11. \E i \in 1 .. c : /\ MinOpen(i, c + 1)
                          /\ responseLines' = {h \in i + 1 .. c : file.lines[h].colon}
                          /\ responseSuppressWarn' = file.lines[i].bang
    BY <1>3, <1>8, <1>9, <1>10
  <1> QED
    BY <1>1, <1>2, <1>3, <1>5, <1>6, <1>8, <1>11, ScanKeeps

\* The closing line gives the block's own fields and its own !.
LEMMA CloseResponseKeeps == ParserInv /\ CloseResponse => ParserInv'
  <1> SUFFICES ASSUME ParserInv, CloseResponse PROVE ParserInv'
    OBVIOUS
  <1>1. /\ At({"close"}) /\ inResponse /\ Advance /\ inResponse' = FALSE
        /\ sequences' = Append(sequences, Parsed(c, "response", responseLines, responseSuppressWarn))
    BY DEF CloseResponse
  <1>2. /\ status = "lines" /\ c \in Nat \ {0} /\ c <= file.funcs[n]
        /\ Kind(c) = "close" /\ InBlock(1, c) /\ Holds(sequences, c - 1)
        /\ \E j \in 1 .. c - 1 : Block(j, c)
        /\ \A j \in Nat \ {0} : j < c => file.lines[j].bang \in BOOLEAN
    BY <1>1, ScanNow
  <1>3. PICK d : d = c
    OBVIOUS
  <1>4. PICK j \in 1 .. d - 1 : Block(j, d)
    BY <1>2, <1>3
  <1>5. YieldsAt(d) /\ ~BadAt(d)
    BY <1>2, <1>3 DEF YieldsAt, BadAt
  <1>6. Opens(1, d + 1) = {} /\ ~InBlock(1, d + 1)
    BY <1>2, <1>3, OpensNext DEF InBlock
  <1>7. FirstOpen(1, d) = j
    BY <1>2, <1>3, <1>4, FirstIs DEF Block
  <1>8. Meaning(1, d) = Parsed(d, "response", responseLines, responseSuppressWarn)
    BY <1>2, <1>3, <1>4, <1>7 DEF Meaning, Block
  <1>9. responseLines \subseteq Nat /\ responseSuppressWarn \in BOOLEAN
    BY <1>2, <1>3, <1>4 DEF Block
  <1>10. Meaning(1, d) \in Item
    BY <1>2, <1>3, <1>8, <1>9 DEF Parsed, Item
  <1>11. sequences' = Append(sequences, Meaning(1, d))
    BY <1>1, <1>3, <1>8
  <1>12. PICK q : q = sequences
    OBVIOUS
  <1>13. Holds(sequences', d)
    BY <1>2, <1>3, <1>5, <1>10, <1>11, <1>12, HoldsAppend
  <1> QED
    BY <1>1, <1>2, <1>3, <1>5, <1>6, <1>13, ScanKeeps

\* The first bad line ends the file, and it is one.
LEMMA LineErrorKeeps == ParserInv /\ LineError => ParserInv'
  <1> SUFFICES ASSUME ParserInv, LineError PROVE ParserInv'
    OBVIOUS
  <1>1. /\ At({"bad"}) /\ ~inResponse /\ status' = "error" /\ funcs' = <<>>
        /\ UNCHANGED <<file, n, c, block, sequences, sf>>
    BY DEF LineError
  <1>2. /\ status = "lines" /\ c \in Nat \ {0} /\ c <= file.funcs[n]
        /\ Kind(c) = "bad" /\ ~InBlock(1, c)
    BY <1>1, ScanNow
  <1>3. file \in Files /\ n \in 0 .. Len(file.funcs) /\ n # 0
    BY <1>2 DEF ParserInv, FuncsInv
  <1>4. n \in 1 .. Len(file.funcs) /\ file.funcs[n] \in Nat
    BY <1>3, FileFacts
  <1>5. RejectedTo(n)
    BY <1>2, <1>4 DEF RejectedTo
  <1>6. RejectedTo(n)'
    <2>1. PICK m : m = n
      OBVIOUS
    <2>2. RejectedTo(m)'
      BY <1>1, <1>5, <2>1, SameFile
    <2> QED
      BY <1>1, <2>1, <2>2 DEF RejectedTo
  <1>7. (n # 1 => ~RejectedTo(n - 1))'
    <2>1. PICK m : m = n - 1
      OBVIOUS
    <2>2. n # 1 => ~RejectedTo(m)
      BY <1>2, <1>3, <2>1 DEF ParserInv, FuncsInv, Finished
    <2>3. n # 1 => ~RejectedTo(m)'
      BY <1>1, <2>2, SameFile
    <2> QED
      BY <1>1, <2>1, <2>3 DEF RejectedTo
  <1>8. FuncsInv'
    BY <1>1, <1>3, <1>6, <1>7 DEF FuncsInv
  <1> QED
    BY <1>1, <1>8 DEF ParserInv, ScanInv, FilterInv

-----------------------------------------------------------------------------
(* The declarations.                                                       *)

\* Between declarations the result does not change either.
LEMMA FuncsKept ==
    ASSUME FuncsInv, UNCHANGED <<file, funcs>>, status # "error",
           status' \in {"decls", "lines", "filter", "ok"},
           n' \in 0 .. Len(file.funcs), status' \in {"lines", "filter"} => n' # 0,
           status' = "ok" => n' = Len(file.funcs), Finished \in Nat, Finished' \in Nat,
           \A m \in 1 .. Finished' : m \notin 1 .. Finished =>
               YieldsTo(file.funcs[m]) = {} /\ ~RejectedTo(m),
           Finished <= Finished'
    PROVE  FuncsInv'
  <1>1. \A m : YieldsTo(file.funcs[m])' = YieldsTo(file.funcs[m])
    BY SameFile DEF YieldsTo
  <1>2. \A g \in {funcs'[m] : m \in 1 .. Len(funcs')} : FuncOK(g)'
    BY SameFunc DEF FuncsInv
  <1>3. {m \in 1 .. Finished' : YieldsTo(file.funcs[m])' # {}} =
           {m \in 1 .. Finished : YieldsTo(file.funcs[m]) # {}}
    <2>1. PICK e, f : e = Finished /\ f = Finished'
      OBVIOUS
    <2>2. 1 .. e \subseteq 1 .. f
      BY <2>1
    <2>3. \A m \in 1 .. f : YieldsTo(file.funcs[m])' = YieldsTo(file.funcs[m])
                            /\ (m \notin 1 .. e => YieldsTo(file.funcs[m]) = {})
      BY <1>1, <2>1
    <2>4. {m \in 1 .. f : YieldsTo(file.funcs[m])' # {}} = {m \in 1 .. e : YieldsTo(file.funcs[m]) # {}}
      BY <2>2, <2>3, Zenon
    <2> QED
      BY <2>1, <2>4
  <1>4. {funcs'[m].decl : m \in 1 .. Len(funcs')} =
           {m \in 1 .. Finished' : YieldsTo(file.funcs[m])' # {}}
    BY <1>3 DEF FuncsInv
  <1>5. \A m \in 1 .. Finished' : ~RejectedTo(m)'
    BY SameFile DEF FuncsInv
  <1>6. \A k, m \in 1 .. Len(funcs') : k < m => funcs'[k].decl < funcs'[m].decl
    BY DEF FuncsInv
  <1>7. file' \in Files /\ n' \in 0 .. Len(file'.funcs) /\ funcs' \in Seq(Func)
    BY DEF FuncsInv
  <1> QED
    BY <1>2, <1>4, <1>5, <1>6, <1>7 DEF FuncsInv

\* It holds at first.
LEMMA InitInv == Init => ParserInv
  <1> SUFFICES ASSUME Init PROVE ParserInv
    OBVIOUS
  <1>1. /\ file \in Files /\ status = "decls" /\ n = 0 /\ funcs = <<>>
    BY DEF Init
  <1>2. Len(file.funcs) \in Nat /\ Finished = 0 /\ 1 .. 0 = {}
    BY <1>1, FileFacts DEF Finished
  <1>3. funcs \in Seq(Func) /\ Len(funcs) = 0
    BY <1>1
  <1>4. {funcs[m].decl : m \in 1 .. Len(funcs)} = {m \in 1 .. Finished : YieldsTo(file.funcs[m]) # {}}
    BY <1>2, <1>3
  <1>5. FuncsInv
    BY <1>1, <1>2, <1>3, <1>4 DEF FuncsInv
  <1> QED
    BY <1>1, <1>5 DEF ParserInv, ScanInv, FilterInv

\* The end of the file.
LEMMA EndOfFileKeeps == ParserInv /\ EndOfFile => ParserInv'
  <1> SUFFICES ASSUME ParserInv, EndOfFile PROVE ParserInv'
    OBVIOUS
  <1>1. /\ status = "decls" /\ n = Len(file.funcs) /\ status' = "ok"
        /\ UNCHANGED <<file, n, funcs>> /\ FuncsInv /\ n \in 0 .. Len(file.funcs)
    BY DEF EndOfFile, ParserInv, FuncsInv
  <1>2. Len(file.funcs) \in Nat
    BY <1>1, FileFacts DEF FuncsInv
  <1>3. Finished = n /\ Finished' = n /\ Finished \in Nat /\ Finished <= Finished'
    BY <1>1, <1>2 DEF Finished
  <1>4. FuncsInv'
    BY <1>1, <1>3, FuncsKept
  <1> QED
    BY <1>1, <1>4 DEF ParserInv, ScanInv, FilterInv

\* parseComments begins with locals of its own.
LEMMA NextFuncKeeps == ParserInv /\ NextFunc => ParserInv'
  <1> SUFFICES ASSUME ParserInv, NextFunc PROVE ParserInv'
    OBVIOUS
  <1>1. /\ status = "decls" /\ n < Len(file.funcs) /\ status' = "lines" /\ n' = n + 1 /\ c' = 1
        /\ inResponse' = FALSE /\ sequences' = <<>> /\ UNCHANGED <<file, funcs>>
        /\ FuncsInv /\ n \in 0 .. Len(file.funcs) /\ file \in Files
    BY DEF NextFunc, ParserInv, FuncsInv
  <1>2. Len(file.funcs) \in Nat /\ n \in Nat /\ n' \in 1 .. Len(file.funcs)
    BY <1>1, FileFacts
  <1>3. Finished = n /\ Finished' = n /\ Finished \in Nat /\ Finished <= Finished'
    BY <1>1, <1>2 DEF Finished
  <1>4. FuncsInv'
    BY <1>1, <1>2, <1>3, FuncsKept
  <1>5. file'.funcs[n'] \in Nat
    BY <1>1, <1>2, FileFacts
  <1>6. Holds(sequences', 0)
    <2>1. sequences' \in Seq(Item) /\ Len(sequences') = 0 /\ 1 .. 0 = {}
      BY <1>1
    <2>2. YieldsTo(0) = {}
      BY <2>1 DEF YieldsTo
    <2> QED
      BY <2>1, <2>2 DEF Holds
  <1>7. Holds(sequences, c - 1)' /\ c' - 1 = 0 /\ 1 .. 0 = {}
    <2>1. PICK e : e = 0
      OBVIOUS
    <2> QED
      BY <1>1, <1>6, <2>1, HoldsNext
  <1>8. ~InBlock(1, c)'
    BY <1>7 DEF InBlock, Opens
  <1>9. ScanInv'
    <2>1. c' \in 1 .. file'.funcs[n'] + 1
      BY <1>1, <1>5
    <2>2. \A k \in 1 .. c' - 1 : ~BadAt(k)'
      BY <1>7
    <2> QED
      BY <1>1, <1>7, <1>8, <2>1, <2>2 DEF ScanInv
  <1> QED
    BY <1>1, <1>4, <1>9 DEF ParserInv, FilterInv

\* The sequences of a whole declaration.
LEMMA HoldsSame ==
    ASSUME UNCHANGED <<file, n, sequences>>, Holds(sequences, file.funcs[n])
    PROVE  Holds(sequences, file.funcs[n])'
  <1>1. PICK e : e = file.funcs[n]
    OBVIOUS
  <1>2. {Meaning(1, k)' : k \in {h \in 1 .. e : YieldsAt(h)'}} = {Meaning(1, k) : k \in YieldsTo(e)}
    BY SameFile DEF YieldsTo
  <1> QED
    BY <1>1, <1>2 DEF Holds, YieldsTo

\* The end of a comment.
LEMMA EndOfCommentsKeeps == ParserInv /\ EndOfComments => ParserInv'
  <1> SUFFICES ASSUME ParserInv, EndOfComments PROVE ParserInv'
    OBVIOUS
  <1>1. /\ status = "lines" /\ c > file.funcs[n]
        /\ status' = (IF sequences = <<>> THEN "decls" ELSE "filter")
        /\ r' = 1 /\ filtered' = <<>> /\ subscribe' = FALSE
        /\ UNCHANGED <<file, n, sequences, funcs>>
    BY DEF EndOfComments
  <1>2. FuncsInv /\ n \in 0 .. Len(file.funcs) /\ n # 0 /\ file \in Files
    BY <1>1 DEF ParserInv, FuncsInv
  <1>3. Len(file.funcs) \in Nat /\ n \in 1 .. Len(file.funcs) /\ file.funcs[n] \in Nat
    BY <1>2, FileFacts
  <1>4. /\ c \in 1 .. file.funcs[n] + 1 /\ Holds(sequences, c - 1)
        /\ \A k \in 1 .. c - 1 : ~BadAt(k)
    BY <1>1 DEF ParserInv, ScanInv
  <1>5. c - 1 = file.funcs[n]
    BY <1>1, <1>3, <1>4
  <1>6. Holds(sequences, file.funcs[n]) /\ ~RejectedTo(n)
    BY <1>4, <1>5 DEF RejectedTo, BadAt
  <1>7. CASE sequences = <<>>
    <2>1. YieldsTo(file.funcs[n]) = {}
      <3>1. Len(sequences) = 0 /\ 1 .. 0 = {}
        BY <1>7
      <3>2. {sequences[k] : k \in 1 .. Len(sequences)} = {}
        BY <3>1
      <3> QED
        BY <1>6, <3>2 DEF Holds
    <2>2. Finished = n - 1 /\ Finished' = n
      BY <1>1, <1>7 DEF Finished
    <2>3. /\ Finished \in Nat /\ Finished' \in Nat /\ Finished <= Finished'
          /\ \A m \in 1 .. Finished' : m \notin 1 .. Finished => m = n
      BY <1>3, <2>2
    <2>4. FuncsInv'
      BY <1>1, <1>2, <1>3, <1>6, <1>7, <2>1, <2>3, FuncsKept
    <2> QED
      BY <1>1, <1>7, <2>4 DEF ParserInv, ScanInv, FilterInv
  <1>8. CASE sequences # <<>>
    <2>1. status' = "filter"
      BY <1>1, <1>8
    <2>2. FuncsInv'
      BY <1>1, <1>2, <2>1, FuncsSame
    <2>3. Holds(sequences, file.funcs[n])'
      BY <1>1, <1>6, HoldsSame
    <2>4. ~RejectedTo(n)'
      <3>1. PICK m : m = n
        OBVIOUS
      <3>2. ~RejectedTo(m)'
        BY <1>1, <1>6, <3>1, SameFile
      <3> QED
        BY <1>1, <3>1, <3>2 DEF RejectedTo
    <2>5. Len(sequences) \in Nat /\ 1 - 1 = 0 /\ 1 .. 0 = {}
      BY <1>6 DEF Holds
    <2>6. filtered' \in Seq(Item) /\ Len(filtered') = 0
      BY <1>1
    <2>7. FilterInv'
      <3>1. r' \in 1 .. Len(sequences') + 1 /\ 1 .. r' - 1 = {} /\ 1 .. Len(filtered') = {}
        BY <1>1, <2>5, <2>6
      <3>2. {filtered'[k] : k \in 1 .. Len(filtered')} =
               {sequences'[m] : m \in {h \in 1 .. r' - 1 : sequences'[h].type # "subscribe"}}
        BY <3>1
      <3>3. /\ \A k, m \in 1 .. Len(filtered') : k < m => filtered'[k].at < filtered'[m].at
            /\ subscribe' <=> \E m \in 1 .. r' - 1 : sequences'[m].type = "subscribe"
        BY <1>1, <3>1
      <3> QED
        BY <1>1, <1>8, <2>3, <2>4, <2>6, <3>1, <3>2, <3>3 DEF FilterInv
    <2> QED
      BY <2>1, <2>2, <2>7 DEF ParserInv, ScanInv
  <1> QED
    BY <1>7, <1>8

\* One sequence on: it is kept, or it makes the function a subscriber.
LEMMA FilterKeeps == ParserInv /\ Filter => ParserInv'
  <1> SUFFICES ASSUME ParserInv, Filter PROVE ParserInv'
    OBVIOUS
  <1> DEFINE T(h) == sequences[h].type = "subscribe"
  <1>1. /\ status = "filter" /\ r <= Len(sequences) /\ r' = r + 1
        /\ IF T(r) THEN subscribe' = TRUE /\ filtered' = filtered
                   ELSE filtered' = Append(filtered, sequences[r]) /\ subscribe' = subscribe
        /\ UNCHANGED <<file, status, n, sequences, funcs>>
    BY DEF Filter
  <1>2. /\ Holds(sequences, file.funcs[n]) /\ sequences # <<>> /\ ~RejectedTo(n)
        /\ r \in 1 .. Len(sequences) + 1 /\ filtered \in Seq(Item) /\ subscribe \in BOOLEAN
        /\ {filtered[k] : k \in 1 .. Len(filtered)} =
              {sequences[m] : m \in {h \in 1 .. r - 1 : ~T(h)}}
        /\ \A k, m \in 1 .. Len(filtered) : k < m => filtered[k].at < filtered[m].at
        /\ subscribe <=> \E m \in 1 .. r - 1 : T(m)
    BY <1>1 DEF ParserInv, FilterInv
  <1>3. FuncsInv'
    BY <1>1, FuncsSame DEF ParserInv
  <1>4. Holds(sequences, file.funcs[n])'
    BY <1>1, <1>2, HoldsSame
  <1>5. ~RejectedTo(n)'
    <2>1. PICK m : m = n
      OBVIOUS
    <2>2. ~RejectedTo(m)'
      BY <1>1, <1>2, <2>1, SameFile
    <2> QED
      BY <1>1, <2>1, <2>2 DEF RejectedTo
  <1>6. /\ sequences \in Seq(Item) /\ Len(sequences) \in Nat /\ r \in 1 .. Len(sequences)
        /\ \A k, m \in 1 .. Len(sequences) : k < m => sequences[k].at < sequences[m].at
    BY <1>1, <1>2 DEF Holds
  <1>7. /\ r' \in 1 .. Len(sequences') + 1 /\ r' - 1 = r
        /\ 1 .. r = (1 .. r - 1) \cup {r} /\ Len(filtered) \in Nat
    BY <1>1, <1>2, <1>6
  <1>8. /\ filtered' \in Seq(Item) /\ subscribe' \in BOOLEAN
        /\ {filtered'[k] : k \in 1 .. Len(filtered')} =
              {sequences[m] : m \in {h \in 1 .. r : ~T(h)}}
        /\ \A k, m \in 1 .. Len(filtered') : k < m => filtered'[k].at < filtered'[m].at
        /\ subscribe' <=> \E m \in 1 .. r : T(m)
    <2>1. CASE T(r)
      <3>1. {h \in 1 .. r : ~T(h)} = {h \in 1 .. r - 1 : ~T(h)} /\ \E m \in 1 .. r : T(m)
        BY <1>6, <1>7, <2>1
      <3> QED
        BY <1>1, <1>2, <2>1, <3>1
    <2>2. CASE ~T(r)
      <3> DEFINE e == sequences[r]
                 p == Append(filtered, e)
      <3>1. e \in Item
        BY <1>6
      <3>2. /\ p \in Seq(Item) /\ Len(p) = Len(filtered) + 1
            /\ \A m \in 1 .. Len(filtered) : p[m] = filtered[m]
            /\ p[Len(filtered) + 1] = e
        BY <1>2, <3>1
      <3>3. filtered' = p /\ subscribe' = subscribe
        BY <1>1, <2>2
      <3> HIDE DEF p
      <3>4. 1 .. Len(p) = (1 .. Len(filtered)) \cup {Len(filtered) + 1}
        BY <1>7, <3>2
      <3>5. {p[k] : k \in 1 .. Len(p)} = {filtered[k] : k \in 1 .. Len(filtered)} \cup {e}
        BY <3>2, <3>4
      <3>6. {h \in 1 .. r : ~T(h)} = {h \in 1 .. r - 1 : ~T(h)} \cup {r}
        BY <1>7, <2>2
      <3>7. {sequences[m] : m \in {h \in 1 .. r : ~T(h)}} =
               {sequences[m] : m \in {h \in 1 .. r - 1 : ~T(h)}} \cup {e}
        BY <3>6
      <3>8. \A k \in 1 .. Len(filtered) : filtered[k].at < e.at
        <4>1. \A k \in 1 .. Len(filtered) : \E m \in 1 .. r - 1 : filtered[k] = sequences[m]
          BY <1>2
        <4> QED
          BY <1>6, <4>1
      <3>9. ASSUME NEW h \in 1 .. Len(p), NEW m \in 1 .. Len(p), h < m PROVE p[h].at < p[m].at
        <4>1. h \in 1 .. Len(filtered)
          BY <1>7, <3>2, <3>9
        <4>2. CASE m \in 1 .. Len(filtered)
          BY <1>2, <3>2, <3>9, <4>1, <4>2
        <4>3. CASE m = Len(filtered) + 1
          BY <3>2, <3>8, <4>1, <4>3
        <4> QED
          BY <3>4, <4>2, <4>3
      <3>10. (\E m \in 1 .. r : T(m)) <=> \E m \in 1 .. r - 1 : T(m)
        BY <1>7, <2>2
      <3>11. {p[k] : k \in 1 .. Len(p)} = {sequences[m] : m \in {h \in 1 .. r : ~T(h)}}
        BY <1>2, <3>5, <3>7
      <3>12. subscribe' \in BOOLEAN /\ (subscribe' <=> \E m \in 1 .. r : T(m))
        BY <1>2, <3>3, <3>10
      <3> QED
        BY <3>2, <3>3, <3>9, <3>11, <3>12
    <2> QED
      BY <2>1, <2>2
  <1>9. FilterInv'
    BY <1>1, <1>2, <1>4, <1>5, <1>7, <1>8 DEF FilterInv
  <1> QED
    BY <1>1, <1>3, <1>9 DEF ParserInv, ScanInv

\* A sequence is a @subscribe when its line is one.
LEMMA MeaningType == \A k : Meaning(1, k).type = "subscribe" <=> Kind(k) = "subscribe"
  BY DEF Meaning, Parsed

\* A declaration that is done with is a function with what its comments mean.
LEMMA EndOfFuncKeeps == ParserInv /\ EndOfFunc => ParserInv'
  <1> SUFFICES ASSUME ParserInv, EndOfFunc PROVE ParserInv'
    OBVIOUS
  <1> DEFINE g == [decl |-> n, subscribe |-> subscribe, sequences |-> filtered]
             p == Append(funcs, g)
             Y == YieldsTo(file.funcs[n])
  <1>1. /\ status = "filter" /\ r > Len(sequences) /\ status' = "decls" /\ funcs' = p
        /\ UNCHANGED <<file, n, sequences>>
    BY DEF EndOfFunc
  <1>2. /\ file \in Files /\ n \in 0 .. Len(file.funcs) /\ n # 0 /\ funcs \in Seq(Func)
        /\ Len(file.funcs) \in Nat /\ Finished = n - 1
        /\ \A h \in {funcs[m] : m \in 1 .. Len(funcs)} : FuncOK(h)
        /\ \A k, m \in 1 .. Len(funcs) : k < m => funcs[k].decl < funcs[m].decl
        /\ {funcs[m].decl : m \in 1 .. Len(funcs)} = {m \in 1 .. Finished : YieldsTo(file.funcs[m]) # {}}
        /\ \A m \in 1 .. Finished : ~RejectedTo(m)
    BY <1>1, FileFacts DEF ParserInv, FuncsInv, Finished
  <1>3. /\ Holds(sequences, file.funcs[n]) /\ sequences # <<>> /\ ~RejectedTo(n)
        /\ r \in 1 .. Len(sequences) + 1 /\ filtered \in Seq(Item) /\ subscribe \in BOOLEAN
        /\ {filtered[k] : k \in 1 .. Len(filtered)} =
              {sequences[m] : m \in {h \in 1 .. r - 1 : sequences[h].type # "subscribe"}}
        /\ \A k, m \in 1 .. Len(filtered) : k < m => filtered[k].at < filtered[m].at
        /\ subscribe <=> \E m \in 1 .. r - 1 : sequences[m].type = "subscribe"
    BY <1>1 DEF ParserInv, FilterInv
  <1>4. /\ sequences \in Seq(Item) /\ Len(sequences) \in Nat /\ r - 1 = Len(sequences)
        /\ {sequences[k] : k \in 1 .. Len(sequences)} = {Meaning(1, k) : k \in Y}
    <2>1. /\ sequences \in Seq(Item)
          /\ {sequences[k] : k \in 1 .. Len(sequences)} = {Meaning(1, k) : k \in Y}
      BY <1>3 DEF Holds
    <2>2. Len(sequences) \in Nat
      BY <2>1
    <2>3. r - 1 = Len(sequences)
      BY <1>1, <1>3, <2>2
    <2> QED
      BY <2>1, <2>2, <2>3
  <1>5. \A m \in 1 .. Len(sequences) : \E k \in Y : sequences[m] = Meaning(1, k)
    BY <1>4
  <1>6. \A k \in Y : \E m \in 1 .. Len(sequences) : sequences[m] = Meaning(1, k)
    BY <1>4
  <1>7. {filtered[k] : k \in 1 .. Len(filtered)} =
           {Meaning(1, k) : k \in {h \in Y : Kind(h) # "subscribe"}}
    <2>1. {sequences[m] : m \in {h \in 1 .. Len(sequences) : sequences[h].type # "subscribe"}} =
             {Meaning(1, k) : k \in {h \in Y : Kind(h) # "subscribe"}}
      BY <1>5, <1>6, MeaningType
    <2> QED
      BY <1>3, <1>4, <2>1
  <1>8. subscribe <=> \E k \in Y : Kind(k) = "subscribe"
    BY <1>3, <1>4, <1>5, <1>6, MeaningType
  <1>9. n \in 1 .. Len(file.funcs) /\ g \in Func
    BY <1>2, <1>3 DEF Func
  <1>10. Y # {}
    <2>1. Len(sequences) # 0
      BY <1>3, <1>4
    <2> QED
      BY <1>4, <1>5, <2>1
  <1>11. FuncOK(g)
    BY <1>3, <1>7, <1>8, <1>9 DEF FuncOK
  <1>12. /\ p \in Seq(Func) /\ Len(p) = Len(funcs) + 1 /\ Len(funcs) \in Nat
         /\ \A m \in 1 .. Len(funcs) : p[m] = funcs[m]
         /\ p[Len(funcs) + 1] = g
    BY <1>2, <1>9
  <1>13. g.decl = n
    OBVIOUS
  <1> HIDE DEF p, g
  <1>14. 1 .. Len(p) = (1 .. Len(funcs)) \cup {Len(funcs) + 1}
    BY <1>12
  <1>15. \A h \in {p[m] : m \in 1 .. Len(p)} : FuncOK(h)'
    <2>1. \A h \in {p[m] : m \in 1 .. Len(p)} : FuncOK(h)
      BY <1>2, <1>11, <1>12, <1>14
    <2> QED
      BY <1>1, <2>1, SameFunc
  <1>16. \A k \in 1 .. Len(funcs) : funcs[k].decl < n
    <2>1. \A k \in 1 .. Len(funcs) : funcs[k].decl \in 1 .. n - 1
      BY <1>2
    <2> QED
      BY <1>2, <2>1
  <1>17. ASSUME NEW h \in 1 .. Len(p), NEW m \in 1 .. Len(p), h < m PROVE p[h].decl < p[m].decl
    <2>1. h \in 1 .. Len(funcs)
      BY <1>12, <1>17
    <2>2. CASE m \in 1 .. Len(funcs)
      BY <1>2, <1>12, <1>17, <2>1, <2>2
    <2>3. CASE m = Len(funcs) + 1
      BY <1>12, <1>13, <1>16, <2>1, <2>3
    <2> QED
      BY <1>14, <2>2, <2>3
  <1>18. Finished' = n /\ 1 .. n = (1 .. n - 1) \cup {n}
    BY <1>1, <1>2 DEF Finished
  <1>19. {p[m].decl : m \in 1 .. Len(p)} = {m \in 1 .. n : YieldsTo(file.funcs[m]) # {}}
    <2>1. {p[m].decl : m \in 1 .. Len(p)} = {funcs[m].decl : m \in 1 .. Len(funcs)} \cup {n}
      BY <1>12, <1>13, <1>14
    <2>2. {m \in 1 .. n : YieldsTo(file.funcs[m]) # {}} =
             {m \in 1 .. n - 1 : YieldsTo(file.funcs[m]) # {}} \cup {n}
      BY <1>10, <1>18
    <2> QED
      BY <1>2, <2>1, <2>2
  <1>20. {p[m].decl : m \in 1 .. Len(p)} = {m \in 1 .. Finished' : YieldsTo(file.funcs[m])' # {}}
    <2>1. \A m : YieldsTo(file.funcs[m])' = YieldsTo(file.funcs[m])
      BY <1>1, SameFile DEF YieldsTo
    <2> QED
      BY <1>18, <1>19, <2>1
  <1>21. \A m \in 1 .. Finished' : ~RejectedTo(m)'
    BY <1>1, <1>2, <1>3, <1>18, SameFile
  <1>22. FuncsInv'
    BY <1>1, <1>2, <1>12, <1>15, <1>17, <1>20, <1>21 DEF FuncsInv
  <1> QED
    BY <1>1, <1>22 DEF ParserInv, ScanInv, FilterInv

-----------------------------------------------------------------------------
\* Every step keeps it.
LEMMA ParserStep == ParserInv /\ [Next]_vars => ParserInv'
  <1>1. CASE UNCHANGED vars
    <2> SUFFICES ASSUME ParserInv PROVE ParserInv'
      OBVIOUS
    <2>1. /\ UNCHANGED <<file, status, n, c, sequences, funcs>>
          /\ UNCHANGED <<inResponse, responseLines, responseSuppressWarn>>
          /\ UNCHANGED <<r, filtered, subscribe>>
      BY <1>1 DEF vars, block, sf
    <2>2. /\ RejectedTo(n)' <=> RejectedTo(n)
          /\ RejectedTo(n - 1)' <=> RejectedTo(n - 1)
      <3>1. PICK m, k : m = n /\ k = n - 1
        OBVIOUS
      <3>2. m = n' /\ k = n' - 1
        BY <2>1, <3>1
      <3>3. /\ RejectedTo(m)' <=> RejectedTo(m)
            /\ RejectedTo(k)' <=> RejectedTo(k)
        BY <2>1, SameFile
      <3> QED
        BY <3>1, <3>2, <3>3 DEF RejectedTo
    <2>3. FuncsInv'
      <3>1. CASE status \in {"lines", "filter"}
        BY <2>1, <3>1, FuncsSame DEF ParserInv
      <3>2. CASE status \in {"decls", "ok"}
        <4>1. FuncsInv /\ n \in 0 .. Len(file.funcs) /\ (status = "ok" => n = Len(file.funcs))
          BY DEF ParserInv, FuncsInv
        <4>2. Finished = n /\ Finished' = n /\ n \in Nat /\ n <= n
          BY <2>1, <3>2, <4>1 DEF Finished
        <4> QED
          BY <2>1, <3>2, <4>1, <4>2, FuncsKept
      <3>3. CASE status = "error"
        BY <2>1, <2>2, <3>3 DEF ParserInv, FuncsInv
      <3> QED
        BY <3>1, <3>2, <3>3 DEF ParserInv, FuncsInv
    <2>4. ScanInv'
      <3> SUFFICES ASSUME status = "lines" PROVE ScanInv'
        BY <2>1 DEF ScanInv
      <3>1. /\ c \in 1 .. file.funcs[n] + 1
            /\ inResponse \in BOOLEAN /\ (inResponse <=> InBlock(1, c))
            /\ inResponse => \E j \in 1 .. c - 1 : Block(j, c)
            /\ Holds(sequences, c - 1)
            /\ \A k \in 1 .. c - 1 : ~BadAt(k)
        BY DEF ParserInv, ScanInv
      <3>2. PICK e : e = c - 1
        OBVIOUS
      <3>3. e \in Nat /\ c' = e + 1
        <4>1. file \in Files /\ n \in 0 .. Len(file.funcs) /\ n # 0
          BY DEF ParserInv, FuncsInv
        <4>2. file.funcs[n] \in Nat
          BY <4>1, FileFacts
        <4> QED
          BY <2>1, <3>1, <3>2, <4>2
      <3>4. Holds(sequences, c - 1)'
        BY <2>1, <3>1, <3>2, <3>3, HoldsNext
      <3>5. Opens(1, c)' = Opens(1, c)
        BY <2>1 DEF Opens, Kind
      <3>6. (InBlock(1, c)' <=> InBlock(1, c)) /\ \A j : Block(j, c)' <=> Block(j, c)
        BY <2>1, <3>5 DEF InBlock, Block, MinOpen
      <3>7. \A k \in 1 .. c' - 1 : ~BadAt(k)'
        BY <2>1, <3>1, SameFile
      <3> QED
        BY <2>1, <3>1, <3>4, <3>6, <3>7 DEF ScanInv
    <2>5. FilterInv'
      <3>1. CASE status = "filter"
        <4>1. Holds(sequences, file.funcs[n])'
          BY <2>1, <3>1, HoldsSame DEF ParserInv, FilterInv
        <4> QED
          BY <2>1, <2>2, <3>1, <4>1 DEF ParserInv, FilterInv
      <3> QED
        BY <2>1, <3>1 DEF FilterInv
    <2> QED
      BY <2>3, <2>4, <2>5 DEF ParserInv
  <1> QED
    BY <1>1, NextFuncKeeps, EndOfFileKeeps, EndOfCommentsKeeps, FilterKeeps, EndOfFuncKeeps,
       CloseResponseKeeps, ResponseLineKeeps, SkipLineKeeps, OpenResponseKeeps,
       ParseLineKeeps, LineErrorKeeps DEF Next, ParseDone

-----------------------------------------------------------------------------
(* From the comments that ParseFile collects for a function, which are all *)
(* those before it, to the function's own.                                 *)

\* Before the first tag of a file nothing opens a block.
LEMMA OwnLines ==
    ASSUME ParserInv, NEW m \in 1 .. Len(file.funcs), FirstTagged(m)
    PROVE  /\ \A k \in Nat : Opens(1, k) = Opens(FirstLine(m), k)
           /\ YieldsTo(file.funcs[m]) = Yields(m)
           /\ RejectedTo(m) <=> Rejected(m)
  <1>1. file \in Files
    BY DEF ParserInv, FuncsInv
  <1>2. PICK a : a = FirstLine(m)
    OBVIOUS
  <1>3. a \in Nat \ {0} /\ file.funcs[m] \in Nat
    BY <1>1, <1>2, FileFacts DEF FirstLine
  <1>4. \A k \in 1 .. a - 1 : Kind(k) \in {"text", "close", "unknown"}
    BY <1>2 DEF FirstTagged
  <1>5. \A j \in Nat : j >= 1 /\ Kind(j) = "open" => j >= a
    BY <1>3, <1>4
  <1>6. ASSUME NEW k \in Nat PROVE Opens(1, k) = Opens(a, k)
    <2>1. ASSUME NEW j \in Opens(1, k) PROVE j \in Opens(a, k)
      BY <1>3, <1>5, <2>1 DEF Opens
    <2>2. ASSUME NEW j \in Opens(a, k) PROVE j \in Opens(1, k)
      BY <1>3, <2>2 DEF Opens
    <2> QED
      BY <2>1, <2>2
  <1>7. \A k \in Nat : InBlock(1, k) <=> InBlock(a, k)
    BY <1>6 DEF InBlock
  <1>8. ASSUME NEW k \in 1 .. a - 1 PROVE ~InBlock(1, k)
    <2>1. \A j \in 1 .. k - 1 : Kind(j) # "open"
      BY <1>3, <1>4
    <2> QED
      BY <2>1 DEF InBlock, Opens
  <1>9. \A k \in 1 .. file.funcs[m] : k \in a .. file.funcs[m] \/ k \in 1 .. a - 1
    BY <1>3
  <1>10. \A k \in a .. file.funcs[m] : k \in 1 .. file.funcs[m]
    BY <1>3
  <1>11. \A k \in 1 .. a - 1 : ~YieldsAt(k) /\ Kind(k) # "bad"
    BY <1>4, <1>8 DEF YieldsAt
  <1>12. YieldsTo(file.funcs[m]) = Yields(m)
    BY <1>2, <1>7, <1>9, <1>10, <1>11 DEF YieldsTo, YieldsAt, Yields
  <1>13. RejectedTo(m) <=> Rejected(m)
    BY <1>2, <1>7, <1>9, <1>10, <1>11 DEF RejectedTo, Rejected
  <1> QED
    BY <1>2, <1>6, <1>12, <1>13

\* There a line means the same.
LEMMA OwnMeaning ==
    ASSUME ParserInv, NEW m \in 1 .. Len(file.funcs), FirstTagged(m)
    PROVE  \A k \in Nat : Meaning(1, k) = Meaning(FirstLine(m), k)
  <1>1. \A k \in Nat : Opens(1, k) = Opens(FirstLine(m), k)
    BY OwnLines
  <1>2. \A k \in Nat : FirstOpen(1, k) = FirstOpen(FirstLine(m), k)
    BY <1>1 DEF FirstOpen
  <1> QED
    BY <1>2 DEF Meaning

\* What the invariant says of the functions that were parsed.
LEMMA InvMeans == ParserInv => ParsesMeaning
  <1> SUFFICES ASSUME ParserInv PROVE ParsesMeaning
    OBVIOUS
  <1>1. /\ file \in Files /\ funcs \in Seq(Func) /\ n \in 0 .. Len(file.funcs)
        /\ status = "error" => /\ funcs = <<>> /\ RejectedTo(n) /\ n # 0
                               /\ n # 1 => ~RejectedTo(n - 1)
        /\ status = "ok" => n = Len(file.funcs)
    BY DEF ParserInv, FuncsInv
  <1>2. /\ DOMAIN file.funcs = 1 .. Len(file.funcs) /\ Len(file.funcs) \in Nat
        /\ DOMAIN funcs = 1 .. Len(funcs) /\ Len(funcs) \in Nat
    BY <1>1, FileFacts
  <1>4. ASSUME NEW m \in DOMAIN funcs, FirstTagged(funcs[m].decl)
        PROVE  HasOwn(funcs[m])
    <2>1. PICK g : g = funcs[m]
      OBVIOUS
    <2>2. g \in Func
      BY <1>1, <1>4, <2>1
    <2>3. g.subscribe \in BOOLEAN /\ g.sequences \in Seq(Item)
      BY <2>2 DEF Func
    <2>4. DOMAIN g.sequences = 1 .. Len(g.sequences) /\ Len(g.sequences) \in Nat
      BY <2>3
    <2>5. Len(funcs) # 0
      BY <1>2, <1>4
    <2>6. status # "error"
      BY <1>1, <2>5
    <2>7. FuncOK(g)
      BY <1>2, <1>4, <2>1, <2>6 DEF ParserInv, FuncsInv
    <2>8. PICK d : d = g.decl
      OBVIOUS
    <2>9. d \in 1 .. Len(file.funcs) /\ FirstTagged(d)
      BY <1>4, <2>1, <2>7, <2>8 DEF FuncOK
    <2>10. YieldsTo(file.funcs[d]) = Yields(d)
      BY <2>9, OwnLines
    <2>11. \A k \in Yields(d) : Meaning(1, k) = Meaning(FirstLine(d), k)
      <3>1. file.funcs[d] \in Nat
        BY <1>1, <2>9, FileFacts
      <3>2. YieldsTo(file.funcs[d]) \subseteq Nat
        BY <3>1 DEF YieldsTo
      <3> QED
        BY <2>9, <2>10, <3>2, OwnMeaning
    <2>12. {g.sequences[k] : k \in DOMAIN g.sequences} =
             {Meaning(FirstLine(d), k) : k \in {h \in Yields(d) : Kind(h) # "subscribe"}}
      BY <2>4, <2>7, <2>8, <2>10, <2>11 DEF FuncOK
    <2>13. g.subscribe = \E k \in Yields(d) : Kind(k) = "subscribe"
      BY <2>3, <2>7, <2>8, <2>10 DEF FuncOK
    <2>14. \A k \in 1 .. Len(g.sequences) - 1 : g.sequences[k].at < g.sequences[k + 1].at
      <3> SUFFICES ASSUME NEW k \in 1 .. Len(g.sequences) - 1
                   PROVE  g.sequences[k].at < g.sequences[k + 1].at
        OBVIOUS
      <3>1. k \in 1 .. Len(g.sequences) /\ k + 1 \in 1 .. Len(g.sequences) /\ k < k + 1
        BY <2>4
      <3> QED
        BY <2>7, <3>1 DEF FuncOK
    <2> QED
      BY <2>1, <2>8, <2>12, <2>13, <2>14 DEF HasOwn
  <1>5. ASSUME NEW m \in 1 .. Len(funcs) - 1 PROVE funcs[m].decl < funcs[m + 1].decl
    <2>1. m \in 1 .. Len(funcs) /\ m + 1 \in 1 .. Len(funcs) /\ m < m + 1 /\ Len(funcs) # 0
      BY <1>2
    <2>2. status # "error"
      BY <1>1, <2>1
    <2> QED
      BY <2>1, <2>2 DEF ParserInv, FuncsInv
  <1>6. ASSUME status = "ok", NEW m \in DOMAIN file.funcs, FirstTagged(m)
        PROVE  /\ (\E k \in DOMAIN funcs : funcs[k].decl = m) <=> Yields(m) # {}
               /\ ~Rejected(m)
    <2>1. Finished = Len(file.funcs)
      BY <1>1, <1>6 DEF Finished
    <2>2. /\ {funcs[k].decl : k \in 1 .. Len(funcs)} =
                {k \in 1 .. Finished : YieldsTo(file.funcs[k]) # {}}
          /\ \A k \in 1 .. Finished : ~RejectedTo(k)
      BY <1>6 DEF ParserInv, FuncsInv
    <2>3. YieldsTo(file.funcs[m]) = Yields(m) /\ (RejectedTo(m) <=> Rejected(m))
      BY <1>2, <1>6, OwnLines
    <2>4. m \in 1 .. Finished
      BY <1>2, <1>6, <2>1
    <2>5. (\E k \in DOMAIN funcs : funcs[k].decl = m) <=>
             m \in {funcs[k].decl : k \in 1 .. Len(funcs)}
      BY <1>2
    <2> QED
      BY <2>2, <2>3, <2>4, <2>5
  <1>7. ASSUME status = "error"
        PROVE  funcs = <<>> /\ \E m \in DOMAIN file.funcs : Rejected(m)
    <2>1. n \in 1 .. Len(file.funcs) /\ file.funcs[n] \in Nat
      BY <1>1, <1>2, <1>7, FileFacts
    <2>2. PICK k \in 1 .. file.funcs[n] : Kind(k) = "bad" /\ ~InBlock(1, k)
      BY <1>1, <1>7 DEF RejectedTo
    <2>3. FirstLine(n) \in Nat \ {0}
      BY <1>1, <2>1, FileFacts DEF FirstLine
    <2>4. k \in FirstLine(n) .. file.funcs[n]
      <3>1. CASE n = 1
        BY <2>2, <3>1 DEF FirstLine
      <3>2. CASE n # 1
        <4>1. ~RejectedTo(n - 1) /\ n - 1 \in 1 .. Len(file.funcs)
          BY <1>1, <1>7, <2>1, <3>2
        <4>2. file.funcs[n - 1] \in Nat
          BY <1>1, <4>1, FileFacts
        <4>3. k \notin 1 .. file.funcs[n - 1]
          BY <2>2, <4>1 DEF RejectedTo
        <4> QED
          BY <2>1, <2>2, <3>2, <4>2, <4>3 DEF FirstLine
      <3> QED
        BY <3>1, <3>2
    <2>5. ~InBlock(FirstLine(n), k)
      <3>1. Opens(FirstLine(n), k) \subseteq Opens(1, k)
        BY <2>3 DEF Opens
      <3> QED
        BY <2>2, <3>1 DEF InBlock
    <2> QED
      BY <1>1, <1>2, <1>7, <2>1, <2>2, <2>4, <2>5 DEF Rejected
  <1> QED
    BY <1>4, <1>5, <1>6, <1>7, Zenon DEF ParsesMeaning

\* ParsesMeaning (parser.go:41-159) for every file, of any length and with any
\* number of declarations: the first function has what its comments mean,
\* block by block and in order, and an error leaves no function behind.
THEOREM ParsesExactly == Spec => []ParsesMeaning
  <1>1. Spec => []ParserInv
    BY InitInv, ParserStep, PTL DEF Spec
  <1> QED
    BY <1>1, InvMeans, PTL

\* What ParseFile does with every function of a file (parser.go:57-63): its
\* sequences are those of all the comments before it, so a later function
\* repeats the sequences of the earlier ones.
CollectsAll == status # "error" => \A g \in {funcs[m] : m \in 1 .. Len(funcs)} : FuncOK(g)

\* CollectsAll, for every file: the scanner finds exactly what the lines mean
\* when they are read as the one list that ParseFile hands to parseComments.
THEOREM ScansCollected == Spec => []CollectsAll
  <1>1. Spec => []ParserInv
    BY InitInv, ParserStep, PTL DEF Spec
  <1>2. ParserInv => CollectsAll
    BY DEF ParserInv, FuncsInv, CollectsAll
  <1> QED
    BY <1>1, <1>2, PTL
=============================================================================
