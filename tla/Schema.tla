------------------------------- MODULE Schema -------------------------------
(***************************************************************************)
(* validator/symbol.go, loadDDL: the scanner that reads db/*.sql line by   *)
(* line into DDLTables.  It never looks ahead, so a file is chosen one     *)
(* line at a time.  A line is what SQL means by it:                        *)
(*   kind           what it declares, or "close" or "eof"                  *)
(*   table, if      CREATE TABLE [IF NOT EXISTS] table, CREATE INDEX ON    *)
(*   col, type      a column; col is "--" for a comment line               *)
(*   pk, uniq       PRIMARY KEY, UNIQUE                                    *)
(*   ref            REFERENCES ref(id)                                     *)
(* with the spelling that the scanner depends on:                          *)
(*   begins         the letters that the line begins with, a name's too:   *)
(*                  constraint (or foreign), primary, unique, check (or    *)
(*                  fewer than two words); "" otherwise                    *)
(*   says           which of PRIMARY, PRIMARY KEY and UNIQUE its text has  *)
(*   cols           the list in its parentheses                            *)
(*   form           "spaced" is ref (id), "action" has a clause such as    *)
(*                  ON DELETE after it                                     *)
(* ddl is the text read so far; an "eof" line ends a file.                 *)
(***************************************************************************)
EXTENDS Integers, SequencesExt

CONSTANT DDLLines   \* the lines a schema may have

\* SQL names the table that it creates; extractParenColumns returns a list.
ASSUME DDLLinesAssumption ==
    \A l \in DDLLines :
        /\ l.cols \in Seq(STRING) /\ l.uniq \in BOOLEAN
        /\ l.kind = "create" => l.table # ""
        /\ l.kind \in {"index", "create", "close", "eof",
                       "column", "foreign", "primary", "unique", "check"}

VARIABLES tables, currentTable, ddl

schemaVars == <<tables, currentTable, ddl>>

None == "none"

-----------------------------------------------------------------------------
(* What is read off one line.                                              *)

pgTypeToGo(pgType) ==
    CASE pgType \in {"BIGINT", "BIGSERIAL", "INTEGER", "SERIAL", "INT", "SMALLINT"} -> "int64"
      [] pgType \in {"BOOLEAN", "BOOL"} -> "bool"
      [] pgType \in {"TIMESTAMPTZ", "TIMESTAMP", "DATE"} -> "time.Time"
      [] pgType \in {"NUMERIC", "DECIMAL", "REAL", "FLOAT", "DOUBLE"} -> "float64"
      [] OTHER -> "string"      \* NUMERIC(10,2) is one word, and a string

ForeignKey(col, ref, refCol) == [col |-> col, ref |-> ref, refCol |-> refCol]

\* The word after REFERENCES, up to the next space.
parseInlineFK(l) == ForeignKey(l.col, l.ref, IF l.form = "spaced" THEN "" ELSE "id")

\* Everything after REFERENCES, cut at the parenthesis: a space stays with the
\* table and a clause with the column.
parseConstraintFK(l) ==
    ForeignKey(l.col, IF l.form = "spaced" THEN l.ref \o " " ELSE l.ref,
               IF l.form = "action" THEN "id) ON DELETE" ELSE "id")

Index(cols, uniq) == [cols |-> cols, uniq |-> uniq]

NewTable == [Columns |-> <<>>, ColumnOrder |-> <<>>, ForeignKeys |-> <<>>,
             Indexes |-> <<>>, PrimaryKey |-> <<>>]

-----------------------------------------------------------------------------
SchemaInit == tables = <<>> /\ currentTable = "" /\ ddl = <<>>

ReadLine(l) == ddl' = Append(ddl, l)
Put(t, table) == tables' = [x \in DOMAIN tables \cup {t} |->
                               IF x = t THEN table ELSE tables[x]]

\* parseCreateIndex: a table not read yet loses the index.
CreateIndex(l) ==
    /\ l.kind = "index"
    /\ ReadLine(l)
    /\ IF l.table \in DOMAIN tables /\ l.cols # <<>>
       THEN Put(l.table, [tables[l.table] EXCEPT
                             !.Indexes = Append(@, Index(l.cols, "UNIQUE" \in l.says))])
       ELSE UNCHANGED tables
    /\ UNCHANGED currentTable

\* The word after TABLE is the name: "IF" for CREATE TABLE IF NOT EXISTS.
CreateTable(l) ==
    /\ l.kind = "create"
    /\ ReadLine(l)
    /\ currentTable' = IF l.if THEN "IF" ELSE l.table
    /\ Put(currentTable', NewTable)

OutsideTable(l) ==
    /\ l.kind \notin {"index", "create", "eof"} /\ currentTable = ""
    /\ ReadLine(l)
    /\ UNCHANGED <<tables, currentTable>>

\* Mutant: the closing parenthesis is ignored.
CloseTableStays(l) ==
    /\ l.kind = "close" /\ currentTable # ""
    /\ ReadLine(l)
    /\ UNCHANGED <<tables, currentTable>>

CloseTable(l) ==
    /\ l.kind = "close" /\ currentTable # ""
    /\ ReadLine(l)
    /\ currentTable' = ""
    /\ UNCHANGED tables

\* Within a table the scanner goes by the letters that the line begins with,
\* whether they are a word or the beginning of a column's name.
InTable(l, letters) ==
    /\ l.kind \notin {"index", "create", "close", "eof"} /\ currentTable # ""
    /\ l.begins = letters
    /\ UNCHANGED currentTable

\* CONSTRAINT or FOREIGN: only a foreign key is looked for.
TableConstraint(l) ==
    /\ InTable(l, "constraint")
    /\ ReadLine(l)
    /\ IF l.kind = "foreign"
       THEN Put(currentTable, [tables[currentTable] EXCEPT
                                  !.ForeignKeys = Append(@, parseConstraintFK(l))])
       ELSE UNCHANGED tables

\* Replaces the inline primary key columns read so far.
PrimaryLine(l) ==
    /\ InTable(l, "primary")
    /\ ReadLine(l)
    /\ Put(currentTable, [tables[currentTable] EXCEPT !.PrimaryKey = l.cols])

UniqueLine(l) ==
    /\ InTable(l, "unique")
    /\ ReadLine(l)
    /\ IF l.cols # <<>>
       THEN Put(currentTable, [tables[currentTable] EXCEPT
                                  !.Indexes = Append(@, Index(l.cols, TRUE))])
       ELSE UNCHANGED tables

\* CHECK, an empty line or a single word.
SkipLine(l) ==
    /\ InTable(l, "check")
    /\ ReadLine(l)
    /\ UNCHANGED tables

\* Every other line is a column, a comment too; PRIMARY KEY and UNIQUE are
\* looked for in the whole text of the line.
ColumnLine(l) ==
    /\ InTable(l, "")
    /\ ReadLine(l)
    /\ LET t == tables[currentTable] IN
       Put(currentTable,
           [Columns |-> [c \in DOMAIN t.Columns \cup {l.col} |->
                            IF c = l.col THEN pgTypeToGo(l.type) ELSE t.Columns[c]],
            ColumnOrder |-> Append(t.ColumnOrder, l.col),
            PrimaryKey |-> IF "PRIMARY KEY" \in l.says
                           THEN Append(t.PrimaryKey, l.col) ELSE t.PrimaryKey,
            Indexes |-> IF "UNIQUE" \in l.says /\ "PRIMARY" \notin l.says
                        THEN Append(t.Indexes, Index(<<l.col>>, TRUE)) ELSE t.Indexes,
            ForeignKeys |-> IF l.ref # None
                            THEN Append(t.ForeignKeys, parseInlineFK(l)) ELSE t.ForeignKeys])

\* currentTable is a variable of parseDDLTables, which is called per file.
EndDDLFile(l) ==
    /\ l.kind = "eof"
    /\ ReadLine(l)
    /\ currentTable' = ""
    /\ UNCHANGED tables

DDLStep ==
    \E l \in DDLLines :
        \/ CreateIndex(l) \/ CreateTable(l) \/ OutsideTable(l) \/ CloseTable(l)
        \/ TableConstraint(l) \/ PrimaryLine(l) \/ UniqueLine(l) \/ SkipLine(l)
        \/ ColumnLine(l) \/ EndDDLFile(l)

-----------------------------------------------------------------------------
(* The schema that a text q declares, read without a scanner.              *)

\* The lines of q that have these numbers.
Lines(q, S) ==
    LET K[n \in 0 .. Len(q)] == IF n = 0 THEN <<>> ELSE
                                IF n \in S THEN Append(K[n - 1], q[n]) ELSE K[n - 1]
    IN  K[Len(q)]

Latest(S) == CHOOSE i \in S : \A j \in S : j <= i

Creates(q) == {i \in 1 .. Len(q) : q[i].kind = "create"}

\* The lines of the statement that begins at line i.
Body(q, i) ==
    {j \in i + 1 .. Len(q) :
        \A k \in i + 1 .. j : q[k].kind \notin {"create", "close", "eof"}}
Of(q, i, kind) == {j \in Body(q, i) : q[j].kind = kind}

Names(lines) == [n \in DOMAIN lines |-> lines[n].col]

\* A column declared twice has the type of its last line.
ColumnsAt(q, S) ==
    [c \in {q[j].col : j \in S} |-> pgTypeToGo(q[Latest({j \in S : q[j].col = c})].type)]

ForeignKeysAt(q, S) ==
    [n \in DOMAIN Lines(q, S) |-> ForeignKey(Lines(q, S)[n].col, Lines(q, S)[n].ref, "id")]

IndexesAt(q, S) ==
    [n \in DOMAIN Lines(q, S) |-> LET l == Lines(q, S)[n] IN
        IF l.kind = "column" THEN Index(<<l.col>>, TRUE)
        ELSE Index(l.cols, IF l.kind = "unique" THEN TRUE ELSE l.uniq)]

\* PRIMARY KEY lines P and the columns K that are keys inline.
PrimaryKeyAt(q, P, K) ==
    IF P = {} THEN Names(Lines(q, K))
    ELSE q[Latest(P)].cols \o Names(Lines(q, {j \in K : j > Latest(P)}))

\* The CREATE TABLE at line i, with the indexes made after it.
DeclaredAt(q, i) ==
    LET cols == Of(q, i, "column") IN
    [Columns |-> ColumnsAt(q, cols),
     ColumnOrder |-> Names(Lines(q, cols)),
     ForeignKeys |-> ForeignKeysAt(q, {j \in cols : q[j].ref # None} \cup Of(q, i, "foreign")),
     Indexes |-> IndexesAt(q,
         {j \in cols : q[j].uniq /\ ~q[j].pk} \cup Of(q, i, "unique")
         \cup {j \in i + 1 .. Len(q) : q[j].kind = "index" /\ q[j].table = q[i].table}),
     PrimaryKey |-> PrimaryKeyAt(q, Of(q, i, "primary"), {j \in cols : q[j].pk})]

\* Of two statements with this name the last one counts.
Declared(q, t) == DeclaredAt(q, Latest({i \in Creates(q) : q[i].table = t}))

\* The letters a line of a table begins with are the keyword of what it
\* declares, and it has the words of a key where it declares one.
AsSpelled(l) ==
    /\ l.kind = "column" =>
          /\ l.begins = "" /\ ("UNIQUE" \in l.says <=> l.uniq)
          /\ ("PRIMARY" \in l.says <=> l.pk) /\ ("PRIMARY KEY" \in l.says <=> l.pk)
    /\ l.kind = "foreign" => l.begins = "constraint"
    /\ l.kind = "primary" => l.begins = "primary"
    /\ l.kind = "unique" => l.begins = "unique"
    /\ l.kind = "check" => l.begins \in {"check", "constraint"}

\* The SQL the scanner is made for.
Dialect(q) ==
    /\ \A i \in 1 .. Len(q) :
          /\ q[i].kind \in {"index", "unique"} => q[i].cols # <<>>
          /\ q[i].kind = "index" => ("UNIQUE" \in q[i].says <=> q[i].uniq)
    /\ \A i \in Creates(q) :
          /\ ~q[i].if
          /\ \A j \in Body(q, i) :
              /\ AsSpelled(q[j])
              /\ q[j].kind = "column" => q[j].col # "--" /\ q[j].form # "spaced"
              /\ q[j].kind = "foreign" => q[j].form = "plain"

\* SAFETY.  After every line, whatever was read before it (tables left open at
\* the end of a file, created twice, indexed from another file), parseDDLTables
\* has for each table exactly what the text in its dialect declares.
TablesDeclared ==
    Dialect(ddl) =>
        /\ DOMAIN tables = {ddl[i].table : i \in Creates(ddl)}
        /\ \A t \in DOMAIN tables : tables[t] = Declared(ddl, t)
=============================================================================
