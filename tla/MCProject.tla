----------------------------- MODULE MCProject -----------------------------
(* An instance of Project for TLC: one or two service functions of one     *)
(* sequence, or one of two, in one or two files, with every combination of *)
(* the symbol tables below.                                                *)
EXTENDS Project

Keys == <<"A", "B", "GO", "Q", "Type">>
ReservedKeys == {"Type"}
KeywordKeys == {"GO", "Type"}
PascalModels == [User |-> "User", Order_item |-> "OrderItem", Session |-> "Session"]
SnakeFields == [A |-> "a", OwnerID |-> "owner_id"]
Tables == [User |-> "users", Order_item |-> "order_items", Session |-> "sessions", bank |-> "banks", u |-> "us"]
IdTables == [A |-> None, OwnerID |-> "owners"]

V(src, field) == [src |-> src, field |-> field]
ReqA == V("request", "A")
Lit == V("literal", None)
Query == V("query", None)

S(type, pkg, model, method, shape, inputs) ==
    [type |-> type, pkg |-> pkg, model |-> model, method |-> method, shape |-> shape,
     inputs |-> inputs, result |-> IF type \in {"get", "post"} THEN "u" ELSE None]

SomeSeqs ==
    {S("get", "", "User", "Find", "one", [A |-> ReqA]),
     S("get", "", "User", "List", "list", [A |-> ReqA, Q |-> Query]),
     S("get", "", "User", "List", "page", [B |-> Lit, Q |-> Query]),
     S("get", "", "User", "List", "list", [Q |-> Query, A |-> Lit, B |-> V("u", "OwnerID")]),
     S("put", "", "User", "Save", "one", [A |-> Lit, B |-> ReqA]),
     S("post", "", "User", "Save", "one", [A |-> ReqA, B |-> Lit]),
     S("put", "", "User", "Save", "one", [Type |-> Lit]),
     S("put", "", "User", "Save", "one", [GO |-> Lit]),
     S("get", "", "Order_item", "Find", "one", [A |-> ReqA]),
     S("get", "", "User", "Gone", "one", [A |-> V("u", None)]),
     S("get", "session", "Session", "Get", "one", [A |-> ReqA]),
     S("call", "bank", "bank", "Hold", "one", [A |-> ReqA]),
     S("call", "bank", "bank", "Hold", "one", [A |-> V("u", "OwnerID"), B |-> V("currentUser", "A")])}

F(name, seqs) == [name |-> name, seqs |-> seqs]
File(dir, file, fs) == [dir |-> dir, file |-> file, funcs |-> fs]
One(x) == F("Get", <<x>>)
Two(x) == F("Put", <<x>>)

SomeTrees ==
    UNION {{<<File(<<"shop">>, "get", <<F("Get", <<x, y>>)>>)>>,
            <<File(<<"shop">>, "get", <<One(x), Two(y)>>)>>,
            <<File(<<"shop">>, "handler", <<One(x)>>), File(<<"model">>, "models_gen", <<Two(y)>>)>>,
            <<File(<<"shop", "a">>, "get", <<One(x)>>), File(<<"shop", "b">>, "get", <<Two(y)>>)>>} :
           x \in SomeSeqs, y \in SomeSeqs}
    \cup {<<File(<<>>, "get", <<>>)>>}

MI(card, params) == [card |-> card, params |-> params, types |-> <<>>]
Find == MI("one", <<"A">>)
Users ==
    {[Find |-> Find, List |-> MI("many", <<"A">>), Save |-> MI("exec", <<"B", "A">>)],
     [Find |-> MI("", <<>>), List |-> MI("", <<>>), Save |-> MI("", <<>>)],
     [Find |-> Find, List |-> MI("many", <<>>), Save |-> MI("one", <<>>)],
     [Find |-> MI("exec", <<"B">>), List |-> MI("many", <<"Q", "A">>)]}
Packaged ==
    {<<>>, <<"session", "Session">> :> [Get |-> MI("", <<"A">>)] @@
           <<"bank", "_func">> :> [Hold |-> [card |-> "", params |-> <<>>,
                                             types |-> [A |-> "int64", B |-> "string"]]]}
Schemas == {[users |-> [a |-> "int64"], owners |-> [id |-> "int64"]],
            [users |-> [a |-> "int64", owner_id |-> "string"], items |-> [a |-> "string"]],
            [items |-> [a |-> "string"]]}
Op(opts, style) == [fields |-> {"A"}, opts |-> opts, style |-> style]
Apis == {[Get |-> Op(TRUE, None), Put |-> Op(TRUE, "keyset")], [Get |-> Op(TRUE, "offset")],
         [Put |-> Op(FALSE, None)]}

SomeSymtabs ==
    {[loaded |-> TRUE, tables |-> t, ops |-> o,
      models |-> (<<"", "User">> :> u) @@ (<<"", "Order_item">> :> [Find |-> Find]) @@ p] :
        t \in Schemas, o \in Apis, u \in Users, p \in Packaged}
    \cup {[loaded |-> TRUE, tables |-> <<>>, ops |-> <<>>, models |-> <<>>]}
=============================================================================
