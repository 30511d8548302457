----------------------------- MODULE MCSymbols -----------------------------
(* An instance of Symbols for TLC: two tables with two columns, two models,*)
(* every mix of up to MaxItems lines, items, operations and declarations.  *)
EXTENDS Symbols

Line(kind, table, col) ==
    [kind |-> kind, table |-> table, if |-> FALSE, col |-> col, type |-> "BIGINT",
     pk |-> FALSE, uniq |-> FALSE, cols |-> <<>>, ref |-> None, form |-> "plain",
     begins |-> "", says |-> {}]
Constraint(kind, begins, cols) ==
    [Line(kind, "", "") EXCEPT !.begins = begins, !.cols = cols]

ColA == Line("column", "", "a")
ColB == Line("column", "", "b")

SomeLines ==
    {Line("create", "users", ""), Line("create", "items", ""),
     [Line("create", "users", "") EXCEPT !.if = TRUE],
     Line("close", "", ""), Line("eof", "", ""), Constraint("check", "check", <<>>),
     [ColA EXCEPT !.pk = TRUE, !.says = {"PRIMARY", "PRIMARY KEY"}, !.type = "NUMERIC(10,2)"],
     [ColB EXCEPT !.uniq = TRUE, !.says = {"UNIQUE"}, !.ref = "items", !.form = "action"],
     [Line("column", "", "--") EXCEPT !.type = "unique", !.says = {"UNIQUE"}],
     [Line("column", "", "primary_email") EXCEPT !.begins = "primary", !.says = {"PRIMARY"}],
     [Line("foreign", "", "b") EXCEPT !.ref = "items", !.begins = "constraint"],
     Constraint("primary", "primary", <<"b", "a">>),
     Constraint("unique", "unique", <<"a", "b">>),
     [Line("index", "users", "") EXCEPT !.cols = <<"b">>]}

Header(prefix, name, card) ==
    [kind |-> "header", prefix |-> prefix, name |-> name, card |-> card]
SQL(insert, cols, vals, binds) ==
    [kind |-> "sql", insert |-> insert, cols |-> cols, vals |-> vals, binds |-> binds]
Bind(col, n) == [col |-> col, n |-> n]

SomeItems ==
    {[kind |-> "file", stem |-> "User", suffix |-> "s"],
     [kind |-> "file", stem |-> "User", suffix |-> ""],
     [kind |-> "file", stem |-> "Box", suffix |-> "es"],
     Header("", "Find", "one"), Header("User", "Find", "many"), Header("", None, ""),
     SQL(FALSE, <<>>, <<>>, <<Bind("b", 2), Bind("a", 1)>>),
     SQL(FALSE, <<"b">>, <<3>>, <<Bind("a", 3)>>),
     SQL(TRUE, <<"b", "a">>, <<1, 2>>, <<>>)}

Op(id, path, query, props, refProps) ==
    [id |-> id, path |-> path, query |-> query, props |-> props, refProps |-> refProps,
     style |-> "offset", opts |-> TRUE]
SomeOps == {Op("GetUser", {"ID"}, {"Q"}, {}, {}), Op("GetUser", {}, {}, {"A"}, {"B"})}

Decl(kind, name) ==
    [kind |-> kind, name |-> name, dto |-> FALSE, methods |-> {}, params |-> <<>>,
     fields |-> <<>>, errStatus |-> 0]
SomeDecls ==
    {[Decl("interface", "User") EXCEPT !.methods = {<<"", "Find">>}],
     [Decl("struct", "Token") EXCEPT !.dto = TRUE], Decl("func", "refund")}

PackageDecls ==
    {[Decl("request", "Hold") EXCEPT !.fields = [amount |-> "int"]],
     [Decl("request", "Hold") EXCEPT !.fields = [amount |-> "int64"]],
     [Decl("func", "Hold") EXCEPT !.errStatus = 402], Decl("func", "Hold"),
     [Decl("interface", "Bank") EXCEPT !.methods = {<<"", "Hold">>}, !.params = <<"amount">>]}
SomePackages == UNION {[1 .. n -> PackageDecls] : n \in 0 .. 3}

PascalCols == [a |-> "A", b |-> "B"]
=============================================================================
