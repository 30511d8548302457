--------------------------- MODULE SymbolsProofs ---------------------------
(***************************************************************************)
(* What the loaders of validator/symbol.go read, for a schema, query files *)
(* and a package of any length.                                            *)
(***************************************************************************)
EXTENDS Symbols, WellFoundedInduction, FiniteSetTheorems, TLAPS

-----------------------------------------------------------------------------
(* Induction over the naturals, with a set for the predicate.              *)

\* The order of the naturals is well-founded.
LEMMA NatOrder == \E R : IsWellFoundedOn(R, Nat) /\ \A k, m \in Nat : k < m => <<k, m>> \in R
  <1>1. IsWellFoundedOn(OpToRel(<, Nat), Nat)
    BY NatLessThanWellFounded
  <1>2. \A k, m \in Nat : k < m => <<k, m>> \in OpToRel(<, Nat)
    BY DEF OpToRel
  <1> QED
    BY <1>1, <1>2

\* A set of naturals has a least element.
LEMMA NatMin ==
    ASSUME NEW T, T \subseteq Nat, T # {}
    PROVE  \E x \in T : \A y \in T : x <= y
  <1>1. PICK R : IsWellFoundedOn(R, Nat) /\ \A k, m \in Nat : k < m => <<k, m>> \in R
    BY NatOrder
  <1>2. IsWellFoundedOn(R, Nat)
    BY <1>1
  <1>3. \E x \in T : \A y \in T : ~(<<y, x>> \in R)
    BY <1>2, WFMin, Zenon
  <1>4. PICK x \in T : \A y \in T : ~(<<y, x>> \in R)
    BY <1>3
  <1>5. x \in Nat
    OBVIOUS
  <1>6. ASSUME NEW y \in T PROVE x <= y
    <2>1. y \in Nat
      OBVIOUS
    <2>2. ~(y < x)
      BY <1>1, <1>4, <1>5, <2>1
    <2> QED
      BY <1>5, <2>1, <2>2
  <1> QED
    BY <1>6

\* Induction.
LEMMA Induction ==
    ASSUME NEW T, 0 \in T, \A k \in Nat : k \in T => k + 1 \in T
    PROVE  \A k \in Nat : k \in T
  <1> SUFFICES ASSUME Nat \ T # {} PROVE FALSE
    OBVIOUS
  <1>1. PICK x \in Nat \ T : \A y \in Nat \ T : x <= y
    BY NatMin
  <1>2. x # 0 /\ x - 1 \in Nat
    BY <1>1
  <1>3. x - 1 \notin Nat \ T
    BY <1>1, <1>2
  <1> QED
    BY <1>1, <1>2, <1>3


-----------------------------------------------------------------------------
(* The lines of a text that have given numbers.                            *)

\* A set of line numbers has a latest one.
LEMMA LatestIs ==
    ASSUME NEW n \in Nat, NEW S, S \subseteq 1 .. n, S # {}
    PROVE  Latest(S) \in S /\ \A j \in S : j <= Latest(S)
  <1> DEFINE T == {m \in Nat : \A j \in S : j <= m}
  <1>1. T \subseteq Nat /\ n \in T
    OBVIOUS
  <1>2. PICK x \in T : \A y \in T : x <= y
    BY <1>1, NatMin
  <1>3. \E i \in S : \A j \in S : j <= i
    <2>1. CASE x \in S
      BY <1>2, <2>1
    <2>2. CASE x \notin S
      <3>1. \A j \in S : j \in Nat /\ j <= x - 1 /\ 1 <= x
        BY <1>2, <2>2
      <3>2. x - 1 \in Nat
        <4>1. PICK j : j \in S
          OBVIOUS
        <4> QED
          BY <1>2, <3>1, <4>1
      <3>3. x - 1 \in T
        BY <3>1, <3>2
      <3> QED
        BY <1>2, <3>2, <3>3
    <2> QED
      BY <2>1, <2>2
  <1> QED
    BY <1>3 DEF Latest

\* and only one.
LEMMA LatestOne ==
    ASSUME NEW S, S \subseteq Nat, NEW i \in S, \A j \in S : j <= i
    PROVE  Latest(S) = i
  <1>1. PICK x : x = Latest(S)
    OBVIOUS
  <1>2. x \in S /\ \A j \in S : j <= x
    BY <1>1 DEF Latest
  <1>3. x \in Nat /\ i \in Nat /\ x <= i /\ i <= x
    BY <1>2
  <1> QED
    BY <1>1, <1>3

\* Lines of the first m lines.
Scanned(q, S, m, s) ==
    /\ s[0] = <<>>
    /\ \A k \in 1 .. m : s[k] = IF k \in S THEN Append(s[k - 1], q[k]) ELSE s[k - 1]

\* Every text has them.
LEMMA ScanExists ==
    ASSUME NEW q, NEW S, NEW n \in Nat
    PROVE  \E s : s = [k \in 0 .. n |-> s[k]] /\ Scanned(q, S, n, s)
  <1> DEFINE T == {m \in Nat : \E s : s = [k \in 0 .. m |-> s[k]] /\ Scanned(q, S, m, s)}
  <1>1. 0 \in T
    <2> DEFINE s == [k \in 0 .. 0 |-> <<>>]
    <2>1. s = [k \in 0 .. 0 |-> s[k]] /\ Scanned(q, S, 0, s)
      BY DEF Scanned
    <2> QED
      BY <2>1
  <1>2. ASSUME NEW m \in Nat, m \in T PROVE m + 1 \in T
    <2>1. PICK f : f = [k \in 0 .. m |-> f[k]] /\ Scanned(q, S, m, f)
      BY <1>2
    <2> DEFINE e == IF m + 1 \in S THEN Append(f[m], q[m + 1]) ELSE f[m]
               s == [k \in 0 .. m + 1 |-> IF k = m + 1 THEN e ELSE f[k]]
    <2>2. ASSUME NEW k \in 1 .. m + 1
          PROVE  s[k] = IF k \in S THEN Append(s[k - 1], q[k]) ELSE s[k - 1]
      <3>1. k - 1 \in 0 .. m + 1 /\ k - 1 # m + 1 /\ k \in 0 .. m + 1
        OBVIOUS
      <3>2. s[k - 1] = f[k - 1] /\ s[k] = IF k = m + 1 THEN e ELSE f[k]
        BY <3>1
      <3>3. CASE k = m + 1
        <4>1. k - 1 = m
          BY <3>3
        <4> QED
          BY <3>2, <3>3, <4>1
      <3>4. CASE k # m + 1
        <4>1. k \in 1 .. m
          BY <3>4
        <4> QED
          BY <2>1, <3>2, <3>4, <4>1 DEF Scanned
      <3> QED
        BY <3>3, <3>4
    <2>3. s[0] = <<>> /\ s = [k \in 0 .. m + 1 |-> s[k]]
      BY <2>1 DEF Scanned
    <2> HIDE DEF s
    <2>4. Scanned(q, S, m + 1, s)
      BY <2>2, <2>3 DEF Scanned
    <2> QED
      BY <2>3, <2>4
  <1> HIDE DEF T
  <1>3. \A m \in Nat : m \in T
    BY <1>1, <1>2, Induction
  <1> QED
    BY <1>3 DEF T

\* Lines is the last of them.
LEMMA LinesIs ==
    ASSUME NEW q, NEW S, Len(q) \in Nat
    PROVE  \E s : Scanned(q, S, Len(q), s) /\ Lines(q, S) = s[Len(q)]
  <1> DEFINE n == Len(q)
             E(g) == g = [k \in 0 .. Len(q) |-> IF k = 0 THEN <<>> ELSE
                             IF k \in S THEN Append(g[k - 1], q[k]) ELSE g[k - 1]]
  <1>1. PICK f : f = [k \in 0 .. n |-> f[k]] /\ Scanned(q, S, n, f)
    BY ScanExists
  <1>2. E(f)
    <2>1. \A k \in 0 .. n : f[k] = IF k = 0 THEN <<>> ELSE
                               IF k \in S THEN Append(f[k - 1], q[k]) ELSE f[k - 1]
      <3> HIDE DEF n
      <3>1. \A k \in 0 .. n : k # 0 => k \in 1 .. n
        BY DEF n
      <3> QED
        BY <1>1, <3>1 DEF Scanned
    <2> QED
      BY <1>1, <2>1
  <1>3. PICK s : s = CHOOSE g : E(g)
    OBVIOUS
  <1>4. Lines(q, S) = s[n]
    BY <1>3 DEF Lines
  <1>5. E(s)
    BY <1>2, <1>3
  <1>6. Scanned(q, S, n, s)
    <2>1. s = [k \in 0 .. n |-> IF k = 0 THEN <<>> ELSE
                  IF k \in S THEN Append(s[k - 1], q[k]) ELSE s[k - 1]]
      BY <1>5
    <2> HIDE DEF n, E
    <2>2. \A k \in 0 .. n : s[k] = IF k = 0 THEN <<>> ELSE
                  IF k \in S THEN Append(s[k - 1], q[k]) ELSE s[k - 1]
      BY <2>1
    <2>3. 0 \in 0 .. n /\ \A k \in 1 .. n : k # 0 /\ k \in 0 .. n
      BY DEF n
    <2> QED
      BY <2>2, <2>3 DEF Scanned
  <1> QED
    BY <1>4, <1>6

\* They are lines of the text with these numbers.
LEMMA LinesSeq ==
    ASSUME NEW q, NEW S, Len(q) \in Nat
    PROVE  Lines(q, S) \in Seq({q[j] : j \in S \cap (1 .. Len(q))})
  <1>1. PICK s : Scanned(q, S, Len(q), s) /\ Lines(q, S) = s[Len(q)]
    BY LinesIs
  <1> DEFINE X == {q[j] : j \in S \cap (1 .. Len(q))}
             T == {m \in Nat : m <= Len(q) => s[m] \in Seq(X)}
  <1>2. 0 \in T
    <2>1. s[0] = <<>>
      BY <1>1 DEF Scanned
    <2>2. <<>> \in Seq(X)
      <3> HIDE DEF X
      <3> QED
        OBVIOUS
    <2> HIDE DEF X
    <2> QED
      BY <2>1, <2>2
  <1>3. ASSUME NEW m \in Nat, m \in T PROVE m + 1 \in T
    <2> SUFFICES ASSUME m + 1 <= Len(q) PROVE s[m + 1] \in Seq(X)
      OBVIOUS
    <2>1. /\ m + 1 \in 1 .. Len(q) /\ (m + 1) - 1 = m /\ s[m] \in Seq(X)
          /\ (m + 1 \in S => q[m + 1] \in X)
      BY <1>3
    <2>2. s[m + 1] = IF m + 1 \in S THEN Append(s[m], q[m + 1]) ELSE s[m]
      BY <1>1, <2>1 DEF Scanned
    <2> HIDE DEF X
    <2> QED
      BY <2>1, <2>2
  <1> HIDE DEF T
  <1>4. Len(q) \in T
    BY <1>2, <1>3, Induction
  <1> QED
    BY <1>1, <1>4 DEF T

\* One more line of text adds at most itself.
LEMMA LinesStep ==
    ASSUME NEW A, NEW q \in Seq(A), NEW l \in A, NEW S, NEW R,
           \A k \in 1 .. Len(q) : k \in S <=> k \in R
    PROVE  Lines(Append(q, l), R) =
               IF Len(q) + 1 \in R THEN Append(Lines(q, S), l) ELSE Lines(q, S)
  <1>1. PICK r : r = Append(q, l)
    OBVIOUS
  <1>2. /\ Len(q) \in Nat /\ Len(r) \in Nat /\ Len(r) = Len(q) + 1 /\ r[Len(q) + 1] = l
        /\ \A k \in 1 .. Len(q) : r[k] = q[k]
    BY <1>1
  <1>3. PICK s : Scanned(q, S, Len(q), s) /\ Lines(q, S) = s[Len(q)]
    BY <1>2, LinesIs
  <1>4. PICK t : Scanned(r, R, Len(r), t) /\ Lines(r, R) = t[Len(r)]
    BY <1>2, LinesIs
  <1> DEFINE T == {m \in Nat : m <= Len(q) => t[m] = s[m]}
  <1>5. 0 \in T
    BY <1>3, <1>4 DEF Scanned
  <1>6. ASSUME NEW m \in Nat, m \in T PROVE m + 1 \in T
    <2> SUFFICES ASSUME m + 1 <= Len(q) PROVE t[m + 1] = s[m + 1]
      OBVIOUS
    <2>1. m + 1 \in 1 .. Len(q) /\ m + 1 \in 1 .. Len(r) /\ (m + 1) - 1 = m /\ t[m] = s[m]
      BY <1>2, <1>6
    <2>2. s[m + 1] = IF m + 1 \in S THEN Append(s[m], q[m + 1]) ELSE s[m]
      BY <1>3, <2>1 DEF Scanned
    <2>3. t[m + 1] = IF m + 1 \in R THEN Append(t[m], r[m + 1]) ELSE t[m]
      BY <1>4, <2>1 DEF Scanned
    <2> QED
      BY <1>2, <2>1, <2>2, <2>3
  <1> HIDE DEF T
  <1>7. \A m \in Nat : m \in T
    BY <1>5, <1>6, Induction
  <1>8. t[Len(q)] = s[Len(q)]
    BY <1>2, <1>7 DEF T
  <1>9. t[Len(r)] = IF Len(r) \in R THEN Append(t[Len(q)], r[Len(r)]) ELSE t[Len(q)]
    <2>1. Len(r) \in 1 .. Len(r) /\ Len(r) - 1 = Len(q)
      BY <1>2
    <2> QED
      BY <1>4, <2>1 DEF Scanned
  <1> QED
    BY <1>1, <1>2, <1>3, <1>4, <1>8, <1>9

-----------------------------------------------------------------------------
(* A pass over a package.                                                  *)

\* The table after each of the first m declarations.
Passed(pass, reqs, table, p, m, t) ==
    t[0] = table /\ \A k \in 1 .. m : t[k] = Declare(pass, reqs, t[k - 1], p[k])

\* Every pass has one.
LEMMA PassExists ==
    ASSUME NEW pass, NEW reqs, NEW table, NEW p, NEW n \in Nat
    PROVE  \E t : t = [k \in 0 .. n |-> t[k]] /\ Passed(pass, reqs, table, p, n, t)
  <1> DEFINE T == {m \in Nat : \E t : t = [k \in 0 .. m |-> t[k]]
                                      /\ Passed(pass, reqs, table, p, m, t)}
  <1>1. 0 \in T
    <2> DEFINE s == [k \in 0 .. 0 |-> table]
    <2>1. s = [k \in 0 .. 0 |-> s[k]] /\ Passed(pass, reqs, table, p, 0, s)
      BY DEF Passed
    <2> QED
      BY <2>1
  <1>2. ASSUME NEW m \in Nat, m \in T PROVE m + 1 \in T
    <2>1. PICK f : f = [k \in 0 .. m |-> f[k]] /\ Passed(pass, reqs, table, p, m, f)
      BY <1>2
    <2> DEFINE e == Declare(pass, reqs, f[m], p[m + 1])
               s == [k \in 0 .. m + 1 |-> IF k = m + 1 THEN e ELSE f[k]]
    <2>2. ASSUME NEW k \in 1 .. m + 1
          PROVE  s[k] = Declare(pass, reqs, s[k - 1], p[k])
      <3>1. k - 1 \in 0 .. m + 1 /\ k - 1 # m + 1 /\ k \in 0 .. m + 1
        OBVIOUS
      <3>2. s[k - 1] = f[k - 1] /\ s[k] = IF k = m + 1 THEN e ELSE f[k]
        BY <3>1
      <3>3. CASE k = m + 1
        <4>1. k - 1 = m
          BY <3>3
        <4> QED
          BY <3>2, <3>3, <4>1
      <3>4. CASE k # m + 1
        <4>1. k \in 1 .. m
          BY <3>4
        <4> QED
          BY <2>1, <3>2, <3>4, <4>1 DEF Passed
      <3> QED
        BY <3>3, <3>4
    <2>3. s[0] = table /\ s = [k \in 0 .. m + 1 |-> s[k]]
      BY <2>1 DEF Passed
    <2> HIDE DEF s
    <2>4. Passed(pass, reqs, table, p, m + 1, s)
      BY <2>2, <2>3 DEF Passed
    <2> QED
      BY <2>3, <2>4
  <1> HIDE DEF T
  <1>3. \A m \in Nat : m \in T
    BY <1>1, <1>2, Induction
  <1> QED
    BY <1>3 DEF T

\* Pass is the last of it.
LEMMA PassIs ==
    ASSUME NEW pass, NEW reqs, NEW table, NEW p, Len(p) \in Nat
    PROVE  \E t : Passed(pass, reqs, table, p, Len(p), t)
                  /\ Pass(pass, reqs, table, p) = t[Len(p)]
  <1> DEFINE n == Len(p)
             E(g) == g = [k \in 0 .. Len(p) |-> IF k = 0 THEN table
                                                ELSE Declare(pass, reqs, g[k - 1], p[k])]
  <1>1. PICK f : f = [k \in 0 .. n |-> f[k]] /\ Passed(pass, reqs, table, p, n, f)
    BY PassExists
  <1>2. E(f)
    <2>1. \A k \in 0 .. n : f[k] = IF k = 0 THEN table ELSE Declare(pass, reqs, f[k - 1], p[k])
      <3> HIDE DEF n
      <3>1. \A k \in 0 .. n : k # 0 => k \in 1 .. n
        BY DEF n
      <3> QED
        BY <1>1, <3>1 DEF Passed
    <2> QED
      BY <1>1, <2>1
  <1>3. PICK s : s = CHOOSE g : E(g)
    OBVIOUS
  <1>4. Pass(pass, reqs, table, p) = s[n]
    BY <1>3 DEF Pass
  <1>5. E(s)
    BY <1>2, <1>3
  <1>6. Passed(pass, reqs, table, p, n, s)
    <2>1. s = [k \in 0 .. n |-> IF k = 0 THEN table ELSE Declare(pass, reqs, s[k - 1], p[k])]
      BY <1>5
    <2> HIDE DEF n, E
    <2>2. \A k \in 0 .. n : s[k] = IF k = 0 THEN table ELSE Declare(pass, reqs, s[k - 1], p[k])
      BY <2>1
    <2>3. 0 \in 0 .. n /\ \A k \in 1 .. n : k # 0 /\ k \in 0 .. n
      BY DEF n
    <2> QED
      BY <2>2, <2>3 DEF Passed
  <1> QED
    BY <1>4, <1>6

\* The declarations of a request struct with fields.
Structs(p, name) ==
    {n \in 1 .. Len(p) : p[n].kind = "request" /\ p[n].name = name /\ p[n].fields # <<>>}

\* First pass: the fields are those of the last struct of the name.
LEMMA RequestsPass ==
    ASSUME NEW p, Len(p) \in Nat, NEW name
    PROVE  LET reqs == Pass("requests", <<>>, <<>>, p) IN
           IF Structs(p, name) = {} THEN name \notin DOMAIN reqs
           ELSE name \in DOMAIN reqs /\ reqs[name] = p[Latest(Structs(p, name))].fields
  <1>1. PICK t : Passed("requests", <<>>, <<>>, p, Len(p), t)
                 /\ Pass("requests", <<>>, <<>>, p) = t[Len(p)]
    BY PassIs
  <1> DEFINE C(m) == {n \in 1 .. m : p[n].kind = "request" /\ p[n].name = name /\ p[n].fields # <<>>}
             Ok(m) == IF C(m) = {} THEN name \notin DOMAIN t[m]
                      ELSE name \in DOMAIN t[m] /\ t[m][name] = p[Latest(C(m))].fields
             T == {m \in Nat : m <= Len(p) => Ok(m)}
  <1>2. 0 \in T
    <2>1. t[0] = <<>> /\ DOMAIN <<>> = {} /\ C(0) = {}
      BY <1>1 DEF Passed
    <2> QED
      BY <2>1
  <1>3. ASSUME NEW m \in Nat, m \in T PROVE m + 1 \in T
    <2> SUFFICES ASSUME m + 1 <= Len(p) PROVE Ok(m + 1)
      OBVIOUS
    <2>1. m + 1 \in 1 .. Len(p) /\ (m + 1) - 1 = m /\ Ok(m)
      BY <1>3
    <2>2. t[m + 1] = collectRequest(t[m], p[m + 1])
      BY <1>1, <2>1 DEF Passed, Declare
    <2>3. C(m) \subseteq C(m + 1) /\ C(m + 1) \subseteq C(m) \cup {m + 1} /\ C(m + 1) \subseteq Nat
          /\ \A j \in C(m + 1) : j <= m + 1
      OBVIOUS
    <2>4. CASE m + 1 \in C(m + 1)
      <3>1. t[m + 1] = With(t[m], name, p[m + 1].fields)
        BY <2>2, <2>4 DEF collectRequest
      <3>2. Latest(C(m + 1)) = m + 1
        BY <2>3, <2>4, LatestOne
      <3>3. name \in DOMAIN t[m + 1] /\ t[m + 1][name] = p[m + 1].fields
        BY <3>1 DEF With
      <3> QED
        BY <2>4, <3>2, <3>3
    <2>5. CASE m + 1 \notin C(m + 1)
      <3>1. C(m + 1) = C(m)
        BY <2>3, <2>5
      <3>2. ~(p[m + 1].kind = "request" /\ p[m + 1].name = name /\ p[m + 1].fields # <<>>)
        BY <2>1, <2>5
      <3>3. /\ name \in DOMAIN t[m + 1] <=> name \in DOMAIN t[m]
            /\ name \in DOMAIN t[m] => t[m + 1][name] = t[m][name]
        BY <2>2, <3>2 DEF collectRequest, With
      <3> QED
        BY <2>1, <3>1, <3>3
    <2> QED
      BY <2>4, <2>5
  <1> HIDE DEF T, Ok
  <1>4. Len(p) \in T
    BY <1>2, <1>3, Induction
  <1>5. C(Len(p)) = Structs(p, name)
    BY DEF Structs
  <1> HIDE DEF C
  <1> QED
    BY <1>1, <1>4, <1>5 DEF T, Ok

\* The methods of an interface, with the fields of their requests.
InterfaceMethods(reqs, d) ==
    [x \in d.methods |-> MethodInfo("", d.params, Types(reqs, x[2]), 0)]

\* Second pass: a package model has the methods of its last interface.
LEMMA InterfacesPass ==
    ASSUME NEW p, Len(p) \in Nat, NEW reqs, NEW table, NEW n \in 1 .. Len(p),
           p[n].kind = "interface", p[n].methods # {},
           \A j \in n + 1 .. Len(p) : ~(p[j].kind = "interface" /\ p[j].name = p[n].name)
    PROVE  LET ms == Pass("interfaces", reqs, table, p) key == <<"pkg", p[n].name>> IN
           key \in DOMAIN ms /\ ms[key] = InterfaceMethods(reqs, p[n])
  <1>1. PICK t : Passed("interfaces", reqs, table, p, Len(p), t)
                 /\ Pass("interfaces", reqs, table, p) = t[Len(p)]
    BY PassIs
  <1> DEFINE key == <<"pkg", p[n].name>>
             info == InterfaceMethods(reqs, p[n])
             Ok(m) == key \in DOMAIN t[m] /\ t[m][key] = info
             T == {m \in Nat : n <= m /\ m <= Len(p) => Ok(m)}
  <1> HIDE DEF Ok
  <1>2. 0 \in T
    OBVIOUS
  <1>3. ASSUME NEW m \in Nat, m \in T PROVE m + 1 \in T
    <2> SUFFICES ASSUME n <= m + 1, m + 1 <= Len(p) PROVE Ok(m + 1)
      OBVIOUS
    <2>1. m + 1 \in 1 .. Len(p) /\ (m + 1) - 1 = m
      OBVIOUS
    <2>2. t[m + 1] = PackageInterface(reqs, t[m], p[m + 1])
      BY <1>1, <2>1 DEF Passed, Declare
    <2>3. CASE m + 1 = n
      <3>1. t[m + 1] = With(t[m], key, info)
        BY <2>2, <2>3 DEF PackageInterface, InterfaceMethods
      <3> HIDE DEF key, info
      <3> QED
        BY <3>1 DEF With, Ok
    <2>4. CASE m + 1 # n
      <3>1. n <= m /\ m + 1 \in n + 1 .. Len(p)
        BY <2>4
      <3>2. Ok(m)
        BY <1>3, <3>1
      <3>3. ~(p[m + 1].kind = "interface" /\ p[m + 1].name = p[n].name)
        BY <3>1
      <3>4. t[m + 1] = t[m] \/ \E e : t[m + 1] = With(t[m], <<"pkg", p[m + 1].name>>, e)
                                      /\ p[m + 1].name # p[n].name
        BY <2>2, <3>3 DEF PackageInterface
      <3>5. p[m + 1].name # p[n].name => <<"pkg", p[m + 1].name>> # key
        OBVIOUS
      <3> HIDE DEF key, info
      <3> QED
        BY <3>2, <3>4, <3>5 DEF With, Ok
    <2> QED
      BY <2>3, <2>4
  <1> HIDE DEF T, Ok
  <1>4. Len(p) \in T
    BY <1>2, <1>3, Induction
  <1>5. Ok(Len(p))
    BY <1>4 DEF T
  <1> QED
    BY <1>1, <1>5 DEF Ok

\* Third pass: it leaves the package's models alone,
LEMMA FunctionsLeave ==
    ASSUME NEW p, Len(p) \in Nat, NEW reqs, NEW table, NEW key \in DOMAIN table,
           key # <<"pkg", "_func">>
    PROVE  LET ms == Pass("functions", reqs, table, p) IN
           key \in DOMAIN ms /\ ms[key] = table[key]
  <1>1. PICK t : Passed("functions", reqs, table, p, Len(p), t)
                 /\ Pass("functions", reqs, table, p) = t[Len(p)]
    BY PassIs
  <1> DEFINE Ok(m) == key \in DOMAIN t[m] /\ t[m][key] = table[key]
             T == {m \in Nat : m <= Len(p) => Ok(m)}
  <1>2. 0 \in T
    BY <1>1 DEF Passed
  <1>3. ASSUME NEW m \in Nat, m \in T PROVE m + 1 \in T
    <2> SUFFICES ASSUME m + 1 <= Len(p) PROVE Ok(m + 1)
      OBVIOUS
    <2>1. m + 1 \in 1 .. Len(p) /\ (m + 1) - 1 = m /\ Ok(m)
      BY <1>3
    <2>2. t[m + 1] = PackageFunc(reqs, t[m], p[m + 1])
      BY <1>1, <2>1 DEF Passed, Declare
    <2>3. t[m + 1] = t[m] \/ \E e : t[m + 1] = With(t[m], <<"pkg", "_func">>, e)
      BY <2>2 DEF PackageFunc
    <2> QED
      BY <2>1, <2>3 DEF With
  <1> HIDE DEF T, Ok
  <1>4. Len(p) \in T
    BY <1>2, <1>3, Induction
  <1>5. Ok(Len(p))
    BY <1>4 DEF T
  <1> QED
    BY <1>1, <1>5 DEF Ok

\* and registers the last function of a name that has a request struct.
LEMMA FunctionsPass ==
    ASSUME NEW p, Len(p) \in Nat, NEW reqs, NEW table, NEW n \in 1 .. Len(p),
           p[n].kind = "func", p[n].name \in DOMAIN reqs,
           \A j \in n + 1 .. Len(p) : ~(p[j].kind = "func" /\ p[j].name = p[n].name)
    PROVE  LET ms == Pass("functions", reqs, table, p) key == <<"pkg", "_func">>
               x == <<"", p[n].name>>
           IN  key \in DOMAIN ms /\ x \in DOMAIN ms[key]
               /\ ms[key][x] = MethodInfo("", <<>>, reqs[p[n].name], p[n].errStatus)
  <1>1. PICK t : Passed("functions", reqs, table, p, Len(p), t)
                 /\ Pass("functions", reqs, table, p) = t[Len(p)]
    BY PassIs
  <1> DEFINE key == <<"pkg", "_func">>
             x == <<"", p[n].name>>
             info == MethodInfo("", <<>>, reqs[p[n].name], p[n].errStatus)
             Ok(m) == key \in DOMAIN t[m] /\ x \in DOMAIN t[m][key] /\ t[m][key][x] = info
             T == {m \in Nat : n <= m /\ m <= Len(p) => Ok(m)}
  <1> HIDE DEF Ok
  <1>2. 0 \in T
    OBVIOUS
  <1>3. ASSUME NEW m \in Nat, m \in T PROVE m + 1 \in T
    <2> SUFFICES ASSUME n <= m + 1, m + 1 <= Len(p) PROVE Ok(m + 1)
      OBVIOUS
    <2>1. m + 1 \in 1 .. Len(p) /\ (m + 1) - 1 = m
      OBVIOUS
    <2>2. t[m + 1] = PackageFunc(reqs, t[m], p[m + 1])
      BY <1>1, <2>1 DEF Passed, Declare
    <2> DEFINE old == IF key \in DOMAIN t[m] THEN t[m][key] ELSE <<>>
    <2>3. CASE m + 1 = n
      <3>1. t[m + 1] = With(t[m], key, With(old, x, info))
        BY <2>2, <2>3 DEF PackageFunc
      <3>2. key \in DOMAIN t[m + 1] /\ t[m + 1][key] = With(old, x, info)
        <4> HIDE DEF key, x, info, old
        <4> QED
          BY <3>1 DEF With
      <3> HIDE DEF key, x, info, old
      <3> QED
        BY <3>2 DEF With, Ok
    <2>4. CASE m + 1 # n
      <3>1. n <= m /\ m + 1 \in n + 1 .. Len(p)
        BY <2>4
      <3>2. Ok(m)
        BY <1>3, <3>1
      <3>3. ~(p[m + 1].kind = "func" /\ p[m + 1].name = p[n].name)
        BY <3>1
      <3>4. t[m + 1] = t[m]
            \/ \E y, e : t[m + 1] = With(t[m], key, With(t[m][key], y, e)) /\ y # x
        <4>1. CASE p[m + 1].kind = "func" /\ p[m + 1].name \in DOMAIN reqs
          <5>1. t[m + 1] = With(t[m], key, With(t[m][key], <<"", p[m + 1].name>>,
                              MethodInfo("", <<>>, reqs[p[m + 1].name], p[m + 1].errStatus)))
            BY <2>2, <3>2, <4>1 DEF PackageFunc, Ok
          <5>2. <<"", p[m + 1].name>> # x
            BY <3>3, <4>1
          <5> QED
            BY <5>1, <5>2
        <4>2. CASE ~(p[m + 1].kind = "func" /\ p[m + 1].name \in DOMAIN reqs)
          BY <2>2, <4>2 DEF PackageFunc
        <4> QED
          BY <4>1, <4>2
      <3>5. CASE t[m + 1] = t[m]
        BY <3>2, <3>5 DEF Ok
      <3>6. ASSUME NEW y, NEW e, t[m + 1] = With(t[m], key, With(t[m][key], y, e)), y # x
            PROVE  Ok(m + 1)
        <4> HIDE DEF key, x, info
        <4>1. key \in DOMAIN t[m + 1] /\ t[m + 1][key] = With(t[m][key], y, e)
          BY <3>6 DEF With
        <4> QED
          BY <3>2, <3>6, <4>1 DEF With, Ok
      <3> QED
        BY <3>4, <3>5, <3>6
    <2> QED
      BY <2>3, <2>4
  <1> HIDE DEF T, Ok
  <1>4. Len(p) \in T
    BY <1>2, <1>3, Induction
  <1>5. Ok(Len(p))
    BY <1>4 DEF T
  <1> QED
    BY <1>1, <1>5 DEF Ok

\* Together they register every declaration.
LEMMA PassesRegister ==
    ASSUME NEW p, Len(p) \in Nat, NEW table
    PROVE  LET reqs == Pass("requests", <<>>, <<>>, p) IN
           Registered(p, Pass("functions", reqs, Pass("interfaces", reqs, table, p), p))
  <1> DEFINE At(kind, name) == {n \in 1 .. Len(p) : p[n].kind = kind /\ p[n].name = name}
             Fields(name) == {n \in At("request", name) : p[n].fields # <<>>}
             TypesOf(name) == IF Fields(name) = {} THEN <<>>
                              ELSE p[Latest(Fields(name))].fields
  <1>1. PICK reqs : reqs = Pass("requests", <<>>, <<>>, p)
    OBVIOUS
  <1>2. PICK mid : mid = Pass("interfaces", reqs, table, p)
    OBVIOUS
  <1>3. PICK ms : ms = Pass("functions", reqs, mid, p)
    OBVIOUS
  <1> DEFINE Knows(key, x, mi) == key \in DOMAIN ms /\ x \in DOMAIN ms[key] /\ ms[key][x] = mi
  <1>4. ASSUME NEW name
        PROVE  /\ Fields(name) = {} => name \notin DOMAIN reqs
               /\ Fields(name) # {} => name \in DOMAIN reqs /\ reqs[name] = TypesOf(name)
               /\ Types(reqs, name) = TypesOf(name)
    <2>1. Fields(name) = Structs(p, name)
      BY DEF Structs
    <2>2. /\ Structs(p, name) = {} => name \notin DOMAIN reqs
          /\ Structs(p, name) # {} =>
                name \in DOMAIN reqs /\ reqs[name] = p[Latest(Structs(p, name))].fields
      BY <1>1, RequestsPass
    <2> HIDE DEF Fields
    <2> QED
      BY <2>1, <2>2 DEF Types
  <1> HIDE DEF Fields, TypesOf
  <1>5. ASSUME NEW n \in 1 .. Len(p), n = Latest(At(p[n].kind, p[n].name))
        PROVE  \A j \in n + 1 .. Len(p) : ~(p[j].kind = p[n].kind /\ p[j].name = p[n].name)
    <2>1. PICK S : S = At(p[n].kind, p[n].name)
      OBVIOUS
    <2>2. S \subseteq 1 .. Len(p) /\ n \in S
          /\ \A j \in 1 .. Len(p) : p[j].kind = p[n].kind /\ p[j].name = p[n].name => j \in S
      BY <2>1
    <2>3. \A j \in S : j <= n
      BY <1>5, <2>1, <2>2, LatestIs
    <2> HIDE DEF At
    <2> QED
      BY <2>2, <2>3
  <1> HIDE DEF At
  <1>6. ASSUME NEW n \in 1 .. Len(p), n = Latest(At(p[n].kind, p[n].name)),
               p[n].kind = "func", Fields(p[n].name) # {}
        PROVE  Knows(<<"pkg", "_func">>, <<"", p[n].name>>,
                     MethodInfo("", <<>>, TypesOf(p[n].name), p[n].errStatus))
    <2>1. p[n].name \in DOMAIN reqs /\ reqs[p[n].name] = TypesOf(p[n].name)
      BY <1>4, <1>6
    <2>2. \A j \in n + 1 .. Len(p) : ~(p[j].kind = "func" /\ p[j].name = p[n].name)
      BY <1>5, <1>6
    <2> DEFINE key == <<"pkg", "_func">>
               x == <<"", p[n].name>>
               all == Pass("functions", reqs, mid, p)
    <2>3. key \in DOMAIN all /\ x \in DOMAIN all[key]
          /\ all[key][x] = MethodInfo("", <<>>, reqs[p[n].name], p[n].errStatus)
      BY <1>6, <2>1, <2>2, FunctionsPass, Zenon
    <2> QED
      BY <1>3, <2>1, <2>3
  <1>7. ASSUME NEW n \in 1 .. Len(p), n = Latest(At(p[n].kind, p[n].name)),
               p[n].kind = "interface", p[n].name # "_func", NEW x \in p[n].methods
        PROVE  Knows(<<"pkg", p[n].name>>, x, MethodInfo("", p[n].params, TypesOf(x[2]), 0))
    <2> DEFINE key == <<"pkg", p[n].name>>
    <2>1. \A j \in n + 1 .. Len(p) : ~(p[j].kind = "interface" /\ p[j].name = p[n].name)
      BY <1>5, <1>7
    <2>2. key \in DOMAIN mid /\ mid[key] = InterfaceMethods(reqs, p[n])
      <3> DEFINE all == Pass("interfaces", reqs, table, p)
      <3>1. p[n].methods # {}
        BY <1>7
      <3>2. key \in DOMAIN all /\ all[key] = InterfaceMethods(reqs, p[n])
        BY <1>7, <2>1, <3>1, InterfacesPass, Zenon
      <3> QED
        BY <1>2, <3>2
    <2>3. key # <<"pkg", "_func">>
      BY <1>7
    <2> HIDE DEF key
    <2>4. key \in DOMAIN ms /\ ms[key] = mid[key]
      <3> DEFINE all == Pass("functions", reqs, mid, p)
      <3>1. key \in DOMAIN all /\ all[key] = mid[key]
        <4>1. PICK k : k = key
          OBVIOUS
        <4>2. k \in DOMAIN mid /\ k # <<"pkg", "_func">>
          BY <2>2, <2>3, <4>1
        <4>3. k \in DOMAIN all /\ all[k] = mid[k]
          BY <4>2, FunctionsLeave
        <4> QED
          BY <4>1, <4>3
      <3> QED
        BY <1>3, <3>1
    <2>5. x \in DOMAIN ms[key] /\ ms[key][x] = MethodInfo("", p[n].params, Types(reqs, x[2]), 0)
      BY <1>7, <2>2, <2>4 DEF InterfaceMethods
    <2> QED
      BY <1>4, <2>4, <2>5 DEF key
  <1> HIDE DEF Knows
  <1>8. \A n \in 1 .. Len(p) : n = Latest(At(p[n].kind, p[n].name)) =>
          /\ p[n].kind = "func" /\ Fields(p[n].name) # {} =>
                Knows(<<"pkg", "_func">>, <<"", p[n].name>>,
                      MethodInfo("", <<>>, TypesOf(p[n].name), p[n].errStatus))
          /\ p[n].kind = "interface" /\ p[n].name # "_func" => \A x \in p[n].methods :
                Knows(<<"pkg", p[n].name>>, x, MethodInfo("", p[n].params, TypesOf(x[2]), 0))
    BY <1>6, <1>7
  <1>9. Registered(p, ms)
    BY <1>8, Zenon DEF Registered, Knows, At, Fields, TypesOf
  <1> QED
    BY <1>1, <1>2, <1>3, <1>9

\* The package that is open has been read once.
PackageInv == Len(pkg) \in Nat /\ requestStructs = Pass("requests", <<>>, <<>>, pkg)

\* Each loader has one after it.
LEMMA NextLoaderIs ==
    ASSUME NextLoader
    PROVE  <<phase, phase'>> \in {<<"ddl", "sqlc">>, <<"sqlc", "openapi">>,
                                  <<"openapi", "model">>, <<"model", "package">>}
           /\ phase' # "done" /\ phase' # "failed"
  <1>1. PICK n \in 1 .. Len(Order) - 1 : phase = Order[n] /\ phase' = Order[n + 1]
    BY DEF NextLoader
  <1>2. Len(Order) = 5
    BY DEF Order
  <1>3. n = 1 \/ n = 2 \/ n = 3 \/ n = 4
    BY <1>1, <1>2
  <1> QED
    BY <1>1, <1>3 DEF Order

\* An empty package.
LEMMA PassEmpty == Pass("requests", <<>>, <<>>, <<>>) = <<>>
  <1>1. Len(<<>>) = 0
    OBVIOUS
  <1>2. PICK t : Passed("requests", <<>>, <<>>, <<>>, 0, t)
                 /\ Pass("requests", <<>>, <<>>, <<>>) = t[0]
    BY <1>1, PassIs
  <1> QED
    BY <1>2 DEF Passed

\* validator/symbol.go, loadPackageGoInterfaces: for a package of any length and
\* in any order, every function and method knows its Request struct.
THEOREM PackagesAreComplete == Spec => []PackageComplete
  <1>1. Init => PackageInv /\ PackageComplete
    BY PassEmpty DEF Init, PackageInv, PackageComplete
  <1>2. PackageInv /\ PackageComplete /\ [Next]_symbolVars => (PackageInv /\ PackageComplete)'
    <2> SUFFICES ASSUME PackageInv, PackageComplete, [Next]_symbolVars
                 PROVE  PackageInv' /\ PackageComplete'
      OBVIOUS
    <2>1. CASE \E p \in Packages : OpenPackage(p) /\ phase' = "package"
      BY <2>1, PackagesAssumption DEF OpenPackage, PackageInv, PackageComplete
    <2>2. CASE LoadPackage /\ phase' = "done"
      <3>1. UNCHANGED <<pkg, requestStructs>>
        BY <2>2 DEF LoadPackage, goVars
      <3>2. Models' = Pass("functions", requestStructs,
                           Pass("interfaces", requestStructs, Models, pkg), pkg)
        BY <2>2 DEF LoadPackage
      <3>3. Registered(pkg, Models')
        BY <3>2, PassesRegister DEF PackageInv
      <3> QED
        BY <3>1, <3>3 DEF PackageInv, PackageComplete
    <2>3. CASE UNCHANGED <<pkg, requestStructs>> /\ phase' # "done"
      BY <2>3 DEF PackageInv, PackageComplete
    <2>4. CASE UNCHANGED symbolVars
      BY <2>4 DEF PackageInv, PackageComplete, symbolVars, goVars, tableVars
    <2> QED
      <3>1. CASE \E p \in Packages : OpenPackage(p) /\ In("package")
        BY <2>1, <3>1 DEF In
      <3>2. CASE NextLoader \/ LoadFails
        BY <2>3, <3>2, NextLoaderIs DEF NextLoader, LoadFails, goVars
      <3>3. CASE In("model") /\ \E d \in GoDecls : LoadGoDecl(d)
        BY <2>3, <3>3 DEF LoadGoDecl, In
      <3> QED
        BY <2>2, <2>3, <2>4, <3>1, <3>2, <3>3 DEF Next, In, Done, goVars
  <1> QED
    BY <1>1, <1>2, PTL DEF Spec

-----------------------------------------------------------------------------
(* The parameters of a query.                                              *)

\* The size of 1 .. w.
LEMMA IntervalSize == \A w \in Nat : IsFiniteSet(1 .. w) /\ Cardinality(1 .. w) = w
  <1> SUFFICES ASSUME NEW w \in Nat PROVE IsFiniteSet(1 .. w) /\ Cardinality(1 .. w) = w
    OBVIOUS
  <1>1. 1 \in Int /\ w \in Int
    OBVIOUS
  <1>2. IsFiniteSet(1 .. w) /\ Cardinality(1 .. w) = IF 1 > w THEN 0 ELSE w - 1 + 1
    BY <1>1, FS_Interval
  <1> QED
    BY <1>2

\* When L placeholders are $1 .. $L, the one before which n - 1 are sorted is
\* the only $n.
LEMMA RankIs ==
    ASSUME NEW L \in Nat, NEW f, f = [i \in 1 .. L |-> f[i]], {f[i] : i \in 1 .. L} = 1 .. L
    PROVE  /\ \A i, j \in 1 .. L : f[i] = f[j] => i = j
           /\ \A j \in 1 .. L :
                 Cardinality({i \in 1 .. L : f[i] < f[j] \/ (f[i] = f[j] /\ i < j)}) = f[j] - 1
  <1>1. IsFiniteSet(1 .. L) /\ f \in [1 .. L -> 1 .. L]
    <2>1. \A i \in 1 .. L : f[i] \in 1 .. L
      OBVIOUS
    <2>2. IsFiniteSet(1 .. L)
      BY IntervalSize
    <2> QED
      BY <2>1, <2>2
  <1>2. f \in Surjection(1 .. L, 1 .. L)
    BY <1>1 DEF Surjection
  <1>3. f \in Injection(1 .. L, 1 .. L)
    BY <1>1, <1>2, FS_SurjSameCardinalityImpliesInj
  <1>4. \A i, j \in 1 .. L : f[i] = f[j] => i = j
    BY <1>1, <1>3 DEF Injection, IsInjective
  <1>5. ASSUME NEW j \in 1 .. L
        PROVE  Cardinality({i \in 1 .. L : f[i] < f[j] \/ (f[i] = f[j] /\ i < j)}) = f[j] - 1
    <2>1. PICK S : S = {i \in 1 .. L : f[i] < f[j]}
      OBVIOUS
    <2>2. {i \in 1 .. L : f[i] < f[j] \/ (f[i] = f[j] /\ i < j)} = S
      BY <1>4, <2>1
    <2>3. PICK v : v = f[j]
      OBVIOUS
    <2>4. v \in 1 .. L /\ \A i \in 1 .. L : f[i] \in 1 .. L
      BY <1>1, <2>3
    <2>5. PICK R : R = 1 .. v - 1
      OBVIOUS
    <2>6. PICK g : g = [i \in S |-> f[i]]
      OBVIOUS
    <2>7. \A i \in S : f[i] \in R
      BY <2>1, <2>3, <2>4, <2>5
    <2>8. \A t \in R : \E i \in S : f[i] = t
      <3> SUFFICES ASSUME NEW t \in R PROVE \E i \in S : f[i] = t
        OBVIOUS
      <3>0. v \in Nat /\ v <= L /\ t \in Nat /\ 1 <= t /\ t <= v - 1
        <4>1. v \in Nat /\ v <= L
          BY <2>4
        <4>2. t \in 1 .. v - 1
          BY <2>5
        <4> QED
          BY <4>1, <4>2
      <3>1. t \in 1 .. L /\ t < v
        BY <3>0
      <3>2. PICK i \in 1 .. L : f[i] = t
        BY <3>1
      <3> QED
        BY <2>1, <2>3, <3>1, <3>2
    <2>9. g \in Surjection(S, R)
      BY <2>6, <2>7, <2>8 DEF Surjection
    <2>10. g \in Injection(S, R)
      <3>1. g \in [S -> R] /\ DOMAIN g = S /\ \A a, b \in S : g[a] = g[b] => a = b
        BY <1>4, <2>1, <2>6, <2>7
      <3> QED
        BY <3>1 DEF Injection, IsInjective
    <2>11. IsFiniteSet(S)
      BY <1>1, <2>1, FS_Subset
    <2>12. Cardinality(R) = Cardinality(S)
      BY <2>9, <2>10, <2>11, FS_Surjection
    <2>13. Cardinality(R) = v - 1
      <3>1. v \in Nat /\ 1 <= v
        BY <2>4
      <3>2. PICK w \in Nat : w = v - 1
        BY <3>1
      <3>3. Cardinality(1 .. w) = w
        BY IntervalSize
      <3> QED
        BY <2>5, <3>2, <3>3
    <2> QED
      BY <2>2, <2>3, <2>12, <2>13
  <1> QED
    BY <1>4, <1>5

\* Lists joined one after another.
Joined(seqs, m, t) ==
    t[1] = seqs[1] /\ \A k \in 2 .. m : t[k] = t[k - 1] \o seqs[k]

\* There is such a join.
LEMMA JoinExists ==
    ASSUME NEW seqs, NEW n \in Nat \ {0}
    PROVE  \E t : t = [k \in 1 .. n |-> t[k]] /\ Joined(seqs, n, t)
  <1> DEFINE T == {m \in Nat : \E t : t = [k \in 1 .. m + 1 |-> t[k]] /\ Joined(seqs, m + 1, t)}
  <1>1. 0 \in T
    <2> DEFINE s == [k \in 1 .. 0 + 1 |-> seqs[1]]
    <2>1. s = [k \in 1 .. 0 + 1 |-> s[k]] /\ Joined(seqs, 0 + 1, s)
      BY DEF Joined
    <2> QED
      BY <2>1
  <1>2. ASSUME NEW m \in Nat, m \in T PROVE m + 1 \in T
    <2>0. PICK j \in Nat : j = m + 1
      OBVIOUS
    <2>1. PICK f : f = [k \in 1 .. j |-> f[k]] /\ Joined(seqs, j, f)
      BY <1>2, <2>0
    <2> DEFINE e == f[j] \o seqs[j + 1]
               s == [k \in 1 .. j + 1 |-> IF k = j + 1 THEN e ELSE f[k]]
    <2>2. ASSUME NEW k \in 2 .. j + 1 PROVE s[k] = s[k - 1] \o seqs[k]
      <3>1. k - 1 \in 1 .. j + 1 /\ k - 1 # j + 1 /\ k \in 1 .. j + 1
        BY <2>0
      <3>2. s[k - 1] = f[k - 1] /\ s[k] = IF k = j + 1 THEN e ELSE f[k]
        BY <3>1
      <3>3. CASE k = j + 1
        <4>1. k - 1 = j
          BY <3>3
        <4> QED
          BY <3>2, <3>3, <4>1
      <3>4. CASE k # j + 1
        <4>1. k \in 2 .. j
          BY <3>4
        <4> QED
          BY <2>1, <3>2, <3>4, <4>1 DEF Joined
      <3> QED
        BY <3>3, <3>4
    <2>3. s[1] = seqs[1] /\ s = [k \in 1 .. j + 1 |-> s[k]]
      BY <2>0, <2>1 DEF Joined
    <2> HIDE DEF s
    <2>4. Joined(seqs, j + 1, s)
      BY <2>2, <2>3 DEF Joined
    <2> QED
      BY <2>0, <2>3, <2>4
  <1> HIDE DEF T
  <1>3. \A m \in Nat : m \in T
    BY <1>1, <1>2, Induction
  <1>4. n - 1 \in T /\ (n - 1) + 1 = n
    BY <1>3
  <1> QED
    BY <1>4 DEF T

\* FlattenSeq of lists is a list.
LEMMA FlattenIs ==
    ASSUME NEW B, NEW seqs \in Seq(Seq(B))
    PROVE  FlattenSeq(seqs) \in Seq(B)
  <1> DEFINE n == Len(seqs)
             E(g) == g = [i \in 1 .. Len(seqs) |->
                             IF i = 1 THEN seqs[i] ELSE g[i - 1] \o seqs[i]]
  <1>1. n \in Nat /\ \A i \in 1 .. n : seqs[i] \in Seq(B)
    OBVIOUS
  <1>2. CASE n = 0
    <2>1. seqs = <<>>
      BY <1>2
    <2> QED
      BY <1>2, <2>1 DEF FlattenSeq
  <1>3. CASE n # 0
    <2>1. PICK f : f = [k \in 1 .. n |-> f[k]] /\ Joined(seqs, n, f)
      BY <1>1, <1>3, JoinExists
    <2>2. E(f)
      <3>1. \A k \in 1 .. n : f[k] = IF k = 1 THEN seqs[k] ELSE f[k - 1] \o seqs[k]
        <4> HIDE DEF n
        <4>1. \A k \in 1 .. n : k # 1 => k \in 2 .. n
          BY <1>1
        <4> QED
          BY <2>1, <4>1 DEF Joined
      <3> QED
        BY <2>1, <3>1
    <2>3. PICK s : s = CHOOSE g : E(g)
      OBVIOUS
    <2>4. FlattenSeq(seqs) = s[n]
      BY <1>3, <2>3 DEF FlattenSeq
    <2>5. E(s)
      BY <2>2, <2>3
    <2>6. \A k \in 1 .. n : s[k] = IF k = 1 THEN seqs[k] ELSE s[k - 1] \o seqs[k]
      <3>1. s = [k \in 1 .. n |-> IF k = 1 THEN seqs[k] ELSE s[k - 1] \o seqs[k]]
        BY <2>5
      <3> HIDE DEF n, E
      <3> QED
        BY <3>1
    <2> DEFINE T == {m \in Nat : m + 1 <= n => s[m + 1] \in Seq(B)}
    <2> HIDE DEF n, E
    <2>7. 0 \in T
      BY <1>1, <1>3, <2>6
    <2>8. ASSUME NEW m \in Nat, m \in T PROVE m + 1 \in T
      <3> SUFFICES ASSUME (m + 1) + 1 <= n PROVE s[(m + 1) + 1] \in Seq(B)
        OBVIOUS
      <3>1. PICK k : k = (m + 1) + 1
        OBVIOUS
      <3>2. k \in 1 .. n /\ k # 1 /\ k - 1 = m + 1 /\ s[m + 1] \in Seq(B)
        BY <1>1, <2>8, <3>1
      <3>3. s[k] = s[k - 1] \o seqs[k] /\ seqs[k] \in Seq(B)
        BY <1>1, <2>6, <3>2
      <3>4. s[k] \in Seq(B)
        BY <3>2, <3>3
      <3> QED
        BY <3>1, <3>4
    <2> HIDE DEF T
    <2>9. \A m \in Nat : m \in T
      BY <2>7, <2>8, Induction
    <2>10. n - 1 \in T /\ (n - 1) + 1 = n
      BY <1>1, <1>3, <2>9
    <2>11. s[n] \in Seq(B)
      BY <1>1, <2>10 DEF T
    <2> QED
      BY <2>4, <2>11
  <1> QED
    BY <1>2, <1>3

\* The pairs of a statement are a list.
LEMMA BindsSeq ==
    ASSUME NEW sql \in Seq({it \in QueryItems : it.kind = "sql"})
    PROVE  Binds(sql) \in Seq([col : STRING, n : Nat])
  <1> DEFINE B == [col : STRING, n : Nat]
             seqs == [n \in DOMAIN sql |-> sql[n].binds]
  <1>1. \A n \in DOMAIN sql : sql[n].binds \in Seq(B)
    BY QueryItemsAssumption
  <1>2. Len(sql) \in Nat /\ DOMAIN sql = 1 .. Len(sql)
    OBVIOUS
  <1> HIDE DEF B
  <1>3. seqs \in Seq(Seq(B))
    BY <1>1, <1>2
  <1>4. FlattenSeq(seqs) \in Seq(B)
    BY <1>3, FlattenIs
  <1> QED
    BY <1>4 DEF Binds, B

\* The elements of a list.
LEMMA SeqElements ==
    \A A : \A s \in Seq(A) : Len(s) \in Nat /\ \A i \in 1 .. Len(s) : s[i] \in A
  OBVIOUS

\* extractWhereSetParams puts the column of $n in place n.
LEMMA SortedParams ==
    ASSUME NEW sql, NEW b, b = Binds(sql), b \in Seq([col : STRING, n : Nat]),
           {b[i].n : i \in DOMAIN b} = 1 .. Len(b)
    PROVE  /\ Len(extractWhereSetParams(sql)) = Len(b)
           /\ \A i \in DOMAIN b : extractWhereSetParams(sql)[b[i].n] = Pascal[b[i].col]
  <1> DEFINE before(j) == {i \in DOMAIN b : b[i].n < b[j].n \/ (b[i].n = b[j].n /\ i < j)}
             at(n) == CHOOSE j \in DOMAIN b : Cardinality(before(j)) = n - 1
  <1>1. PICK L : L = Len(b)
    OBVIOUS
  <1>2. L \in Nat /\ DOMAIN b = 1 .. L /\ \A i \in 1 .. L : b[i].n \in Nat
    <2>1. L \in Nat /\ DOMAIN b = 1 .. L
      BY <1>1
    <2>2. \A i \in 1 .. L : b[i] \in [col : STRING, n : Nat]
      BY <1>1, SeqElements, Zenon
    <2> QED
      BY <2>1, <2>2
  <1>3. PICK f : f = [i \in 1 .. L |-> b[i].n]
    OBVIOUS
  <1>4. f = [i \in 1 .. L |-> f[i]] /\ \A i \in 1 .. L : f[i] = b[i].n
    BY <1>3
  <1>5. {f[i] : i \in 1 .. L} = 1 .. L
    <2>1. {f[i] : i \in 1 .. L} = {b[i].n : i \in 1 .. L}
      BY <1>4
    <2> QED
      BY <1>1, <1>2, <2>1
  <1>6. /\ \A i, j \in 1 .. L : f[i] = f[j] => i = j
        /\ \A j \in 1 .. L :
              Cardinality({i \in 1 .. L : f[i] < f[j] \/ (f[i] = f[j] /\ i < j)}) = f[j] - 1
    BY <1>2, <1>4, <1>5, RankIs
  <1>7. ASSUME NEW j \in 1 .. L PROVE Cardinality(before(j)) = b[j].n - 1
    <2>1. before(j) = {i \in 1 .. L : f[i] < f[j] \/ (f[i] = f[j] /\ i < j)}
      BY <1>2, <1>4
    <2> HIDE DEF before
    <2> QED
      BY <1>4, <1>6, <2>1
  <1> HIDE DEF before
  <1>8. ASSUME NEW i \in 1 .. L PROVE at(b[i].n) = i
    <2>1. PICK x : x = at(b[i].n)
      OBVIOUS
    <2>2. x \in 1 .. L /\ Cardinality(before(x)) = b[i].n - 1
      BY <1>2, <1>7, <2>1
    <2>3. b[x].n - 1 = b[i].n - 1
      BY <1>7, <2>2
    <2>4. b[x].n = b[i].n
      BY <1>2, <2>2, <2>3
    <2> QED
      BY <1>4, <1>6, <2>1, <2>2, <2>4
  <1> HIDE DEF at
  <1>9. extractWhereSetParams(sql) = [n \in DOMAIN b |-> Pascal[b[at(n)].col]]
    BY DEF extractWhereSetParams, at, before
  <1>10. PICK e : e = extractWhereSetParams(sql)
    OBVIOUS
  <1>11. Len(e) = L
    BY <1>2, <1>9, <1>10
  <1>12. ASSUME NEW i \in 1 .. L PROVE e[b[i].n] = Pascal[b[i].col]
    <2>1. b[i].n \in 1 .. L
      BY <1>4, <1>5
    <2> QED
      BY <1>2, <1>8, <1>9, <1>10, <2>1
  <1> QED
    BY <1>1, <1>2, <1>10, <1>11, <1>12

\* A plain statement has its columns in the order of the placeholders.
LEMMA PlainParams ==
    ASSUME NEW sql \in Seq({it \in QueryItems : it.kind = "sql"}), Plain(sql)
    PROVE  LET params == extractSqlcParams(sql) IN
           /\ Len(params) = Len(Binds(sql)) + Len(Vals(sql))
           /\ \A i \in DOMAIN Binds(sql) : params[Binds(sql)[i].n] = Pascal[Binds(sql)[i].col]
  <1>1. PICK b : b = Binds(sql)
    OBVIOUS
  <1>2. PICK v : v = Vals(sql)
    OBVIOUS
  <1>3. b \in Seq([col : STRING, n : Nat]) /\ Len(b) \in Nat
    <2>1. b \in Seq([col : STRING, n : Nat])
      BY <1>1, BindsSeq
    <2> QED
      BY <2>1
  <1>4. PICK params : params = extractSqlcParams(sql)
    OBVIOUS
  <1>5. Len(<<>>) = 0 /\ DOMAIN <<>> = {}
    OBVIOUS
  <1>6. SUFFICES /\ Len(params) = Len(b) + Len(v)
                 /\ \A i \in DOMAIN b : params[b[i].n] = Pascal[b[i].col]
    BY <1>1, <1>2, <1>4
  <1>7. CASE b = <<>> /\ v = <<>>
    <2>1. params = <<>>
      BY <1>1, <1>2, <1>4, <1>7 DEF extractSqlcParams
    <2> QED
      BY <1>5, <1>7, <2>1
  <1>8. CASE /\ b # <<>> /\ v = <<>> /\ \A n \in DOMAIN sql : ~sql[n].insert
             /\ {b[i].n : i \in DOMAIN b} = 1 .. Len(b)
    <2>1. params = extractWhereSetParams(sql)
      BY <1>1, <1>4, <1>8 DEF extractSqlcParams
    <2>2. /\ Len(extractWhereSetParams(sql)) = Len(b)
          /\ \A i \in DOMAIN b : extractWhereSetParams(sql)[b[i].n] = Pascal[b[i].col]
      BY <1>1, <1>3, <1>8, SortedParams
    <2> QED
      BY <1>3, <1>5, <1>8, <2>1, <2>2
  <1>9. CASE /\ b = <<>> /\ v # <<>> /\ Len(sql) = 1 /\ sql[1].insert
             /\ v = [n \in DOMAIN sql[1].cols |-> n]
    <2>1. PICK cols : cols = sql[1].cols
      OBVIOUS
    <2>2. DOMAIN sql = {1} /\ sql[1] \in QueryItems /\ sql[1].kind = "sql"
      BY <1>9
    <2>3. cols \in Seq(STRING)
      BY <2>1, <2>2, QueryItemsAssumption
    <2>4. cols # <<>>
      BY <1>9, <2>1
    <2>5. PICK ins : ins = extractInsertParams(sql)
      OBVIOUS
    <2>6. {n \in DOMAIN sql : sql[n].cols # <<>>} = {1}
      BY <2>1, <2>2, <2>4
    <2>7. ins = [n \in DOMAIN cols |-> Pascal[cols[n]]]
      <3> DEFINE lists == {n \in DOMAIN sql : sql[n].cols # <<>>}
                 first == CHOOSE n \in lists : \A k \in lists : n <= k
      <3>1. first = 1
        <4>1. lists = {1}
          BY <2>6
        <4> HIDE DEF lists
        <4> QED
          BY <4>1
      <3>2. lists # {}
        BY <2>6
      <3>3. ins = IF lists = {} THEN <<>>
                  ELSE [n \in DOMAIN sql[first].cols |-> Pascal[sql[first].cols[n]]]
        BY <2>5 DEF extractInsertParams
      <3> HIDE DEF lists, first
      <3> QED
        BY <2>1, <3>1, <3>2, <3>3
    <2>8. Len(ins) = Len(cols) /\ Len(v) = Len(cols) /\ ins # <<>> /\ Len(cols) \in Nat
      <3>1. DOMAIN cols = 1 .. Len(cols) /\ Len(cols) \in Nat
        BY <2>3
      <3>2. Len(ins) = Len(cols) /\ Len(v) = Len(cols)
        BY <1>9, <2>1, <2>7, <3>1
      <3>3. Len(cols) # 0
        BY <2>3, <2>4
      <3> QED
        BY <1>5, <3>1, <3>2, <3>3
    <2>9. params = ins
      BY <1>2, <1>4, <1>9, <2>2, <2>5, <2>8 DEF extractSqlcParams
    <2> QED
      BY <1>5, <1>9, <2>8, <2>9
  <1>10. \/ /\ v = <<>> /\ \A n \in DOMAIN sql : ~sql[n].insert
            /\ {b[i].n : i \in DOMAIN b} = 1 .. Len(b)
         \/ /\ b = <<>> /\ Len(sql) = 1 /\ sql[1].insert
            /\ v = [n \in DOMAIN sql[1].cols |-> n]
    BY <1>1, <1>2 DEF Plain
  <1> QED
    BY <1>7, <1>8, <1>9, <1>10

\* The items read are items of query files.
QueriesType == queries \in Seq(QueryItems)

\* Every step keeps that.
LEMMA QueriesStep == QueriesType /\ [Next]_symbolVars => QueriesType'
  <1> SUFFICES ASSUME QueriesType, [Next]_symbolVars PROVE QueriesType'
    OBVIOUS
  <1>1. CASE QueryStep
    <2>1. PICK it \in QueryItems : queries' = Append(queries, it)
      BY <1>1 DEF QueryStep, OpenQueryFile, NameLine, SqlLine, ReadItem
    <2> QED
      BY <2>1 DEF QueriesType
  <1>2. CASE UNCHANGED queries
    BY <1>2 DEF QueriesType
  <1>3. CASE queries' = <<>>
    BY <1>3 DEF QueriesType
  <1> QED
    BY <1>1, <1>2, <1>3 DEF Next, CloseQueryFile, NextLoader, LoadFails, Done, symbolVars

\* A statement consists of SQL lines.
LEMMA StatementSeq ==
    ASSUME NEW q \in Seq(QueryItems), NEW h \in 1 .. Len(q)
    PROVE  Statement(q, h) \in Seq({it \in QueryItems : it.kind = "sql"})
  <1>1. Len(q) \in Nat /\ \A j \in 1 .. Len(q) : q[j] \in QueryItems
    OBVIOUS
  <1>2. PICK X : X = {q[j] : j \in Under(q, h) \cap (1 .. Len(q))}
    OBVIOUS
  <1>3. X \subseteq {it \in QueryItems : it.kind = "sql"}
    <2> SUFFICES ASSUME NEW j \in Under(q, h), j \in 1 .. Len(q)
                 PROVE  q[j] \in QueryItems /\ q[j].kind = "sql"
      BY <1>2
    <2>1. j \in h + 1 .. Len(q) /\ \A k \in h + 1 .. j : q[k].kind = "sql"
      BY DEF Under
    <2>2. j \in h + 1 .. j
      BY <2>1
    <2> QED
      BY <1>1, <2>1, <2>2
  <1>4. Lines(q, Under(q, h)) \in Seq(X)
    BY <1>1, <1>2, LinesSeq
  <1> QED
    BY <1>3, <1>4 DEF Statement

\* validator/symbol.go, extractSqlcParams: for query files of any length, a
\* plain statement's parameters are in the order of their placeholders.
THEOREM ParamsArePositional == Spec => []ParamsPositional
  <1>1. Init => QueriesType
    <2>1. Init => queries = <<>>
      BY DEF Init
    <2> QED
      BY <2>1 DEF QueriesType
  <1>2. QueriesType => ParamsPositional
    <2> SUFFICES ASSUME QueriesType, NEW h \in Named(queries), Plain(Statement(queries, h))
                 PROVE  LET sql == Statement(queries, h) params == extractSqlcParams(sql) IN
                        /\ Len(params) = Len(Binds(sql)) + Len(Vals(sql))
                        /\ \A i \in DOMAIN Binds(sql) :
                              params[Binds(sql)[i].n] = Pascal[Binds(sql)[i].col]
      BY DEF ParamsPositional
    <2>1. h \in 1 .. Len(queries) /\ queries \in Seq(QueryItems)
      BY DEF Named, QueriesType
    <2>2. Statement(queries, h) \in Seq({it \in QueryItems : it.kind = "sql"})
      BY <2>1, StatementSeq
    <2> QED
      BY <2>2, PlainParams
  <1> QED
    BY <1>1, <1>2, QueriesStep, PTL DEF Spec

-----------------------------------------------------------------------------
(* Query files q, read up to some item, and one item more.                 *)

Files(q) == q \in Seq(QueryItems) /\ (Len(q) > 0 => q[1].kind = "file")

\* The file of an item is the last one that begins before it.
LEMMA FileFacts ==
    ASSUME NEW q, Files(q), NEW h \in 1 .. Len(q)
    PROVE  /\ FileOf(q, h) \in 1 .. h /\ q[FileOf(q, h)].kind = "file"
           /\ \A k \in 1 .. h : q[k].kind = "file" => k <= FileOf(q, h)
  <1>1. PICK S : S = {k \in 1 .. h : q[k].kind = "file"}
    OBVIOUS
  <1>2. Len(q) \in Nat /\ h \in Nat /\ 1 \in 1 .. h /\ Len(q) > 0
    BY DEF Files
  <1>3. S \subseteq 1 .. h /\ S # {}
    BY <1>1, <1>2 DEF Files
  <1>4. Latest(S) \in S /\ \A j \in S : j <= Latest(S)
    BY <1>2, <1>3, LatestIs
  <1>5. FileOf(q, h) = Latest(S)
    BY <1>1 DEF FileOf
  <1> QED
    BY <1>1, <1>4, <1>5

\* Another item leaves the ones before it alone.
LEMMA ItemsBefore ==
    ASSUME NEW q, Files(q), NEW it \in QueryItems
    PROVE  LET r == Append(q, it) IN
           /\ r \in Seq(QueryItems) /\ Len(r) = Len(q) + 1 /\ Len(q) \in Nat /\ r[Len(q) + 1] = it
           /\ \A k \in 1 .. Len(q) : r[k] = q[k]
  BY DEF Files

\* and what is said of them.
LEMMA HeadersBefore ==
    ASSUME NEW q, Files(q), NEW it \in QueryItems, NEW h \in 1 .. Len(q)
    PROVE  LET r == Append(q, it) IN
           /\ FileOf(r, h) = FileOf(q, h) /\ ModelAt(r, h) = ModelAt(q, h)
           /\ MethodAt(r, h) = MethodAt(q, h) /\ (h \in Named(r) <=> h \in Named(q))
  <1>1. PICK r : r = Append(q, it)
    OBVIOUS
  <1>2. /\ Len(r) = Len(q) + 1 /\ Len(q) \in Nat
        /\ \A k \in 1 .. Len(q) : r[k] = q[k]
    BY <1>1, ItemsBefore
  <1>3. {k \in 1 .. h : r[k].kind = "file"} = {k \in 1 .. h : q[k].kind = "file"}
    BY <1>2
  <1>4. FileOf(r, h) = FileOf(q, h)
    BY <1>3 DEF FileOf
  <1>5. FileOf(q, h) \in 1 .. Len(q)
    BY <1>2, FileFacts
  <1>6. ModelAt(r, h) = ModelAt(q, h)
    BY <1>2, <1>4, <1>5 DEF ModelAt
  <1>7. MethodAt(r, h) = MethodAt(q, h)
    BY <1>2, <1>6 DEF MethodAt
  <1>8. h \in Named(r) <=> h \in Named(q)
    BY <1>2 DEF Named
  <1> QED
    BY <1>1, <1>4, <1>6, <1>7, <1>8

\* A statement ends at the next header or file,
LEMMA StatementEnded ==
    ASSUME NEW q, Files(q), NEW it \in QueryItems, NEW h \in 1 .. Len(q),
           NEW e \in h + 1 .. Len(q) + 1, Append(q, it)[e].kind # "sql"
    PROVE  Statement(Append(q, it), h) = Statement(q, h)
  <1>1. PICK r : r = Append(q, it)
    OBVIOUS
  <1>2. /\ Len(r) = Len(q) + 1 /\ Len(q) \in Nat /\ r[e].kind # "sql"
        /\ \A k \in 1 .. Len(q) : r[k] = q[k]
    BY <1>1, ItemsBefore
  <1>3. \A k \in 1 .. Len(q) : k \in Under(q, h) <=> k \in Under(r, h)
    BY <1>2 DEF Under
  <1>4. Len(q) + 1 \notin Under(r, h)
    BY <1>2 DEF Under
  <1>5. Lines(r, Under(r, h)) = Lines(q, Under(q, h))
    BY <1>1, <1>3, <1>4, LinesStep DEF Files
  <1> QED
    BY <1>1, <1>5 DEF Statement

\* and grows until then.
LEMMA StatementGrows ==
    ASSUME NEW q, Files(q), NEW it \in QueryItems, NEW h \in 1 .. Len(q),
           it.kind = "sql", \A k \in h + 1 .. Len(q) : q[k].kind = "sql"
    PROVE  Statement(Append(q, it), h) = Append(Statement(q, h), it)
  <1>1. PICK r : r = Append(q, it)
    OBVIOUS
  <1>2. /\ Len(r) = Len(q) + 1 /\ Len(q) \in Nat /\ r[Len(q) + 1] = it
        /\ \A k \in 1 .. Len(q) : r[k] = q[k]
    BY <1>1, ItemsBefore
  <1>3. \A k \in 1 .. Len(q) : k \in Under(q, h) <=> k \in Under(r, h)
    BY <1>2 DEF Under
  <1>4. Len(q) + 1 \in Under(r, h)
    <2>1. \A k \in h + 1 .. Len(q) + 1 : r[k].kind = "sql"
      BY <1>2
    <2> QED
      BY <1>2, <2>1 DEF Under
  <1>5. Lines(r, Under(r, h)) = Append(Lines(q, Under(q, h)), it)
    BY <1>1, <1>3, <1>4, LinesStep DEF Files
  <1> QED
    BY <1>1, <1>5 DEF Statement

\* A new header has no statement yet.
LEMMA StatementEmpty ==
    ASSUME NEW q, Files(q), NEW it \in QueryItems
    PROVE  Statement(Append(q, it), Len(q) + 1) = <<>>
  <1>1. PICK r : r = Append(q, it)
    OBVIOUS
  <1>2. Len(r) = Len(q) + 1 /\ Len(q) \in Nat /\ Len(r) \in Nat
    BY <1>1, ItemsBefore
  <1>3. Under(r, Len(q) + 1) = {}
    BY <1>2 DEF Under
  <1>4. PICK s : Scanned(r, {}, Len(r), s) /\ Lines(r, {}) = s[Len(r)]
    BY <1>2, LinesIs
  <1> DEFINE T == {m \in Nat : m <= Len(r) => s[m] = <<>>}
  <1>5. 0 \in T
    BY <1>4 DEF Scanned
  <1>6. ASSUME NEW m \in Nat, m \in T PROVE m + 1 \in T
    <2> SUFFICES ASSUME m + 1 <= Len(r) PROVE s[m + 1] = <<>>
      OBVIOUS
    <2>1. m + 1 \in 1 .. Len(r) /\ (m + 1) - 1 = m /\ s[m] = <<>>
      BY <1>2, <1>6
    <2> QED
      BY <1>4, <2>1 DEF Scanned
  <1> HIDE DEF T
  <1>7. Len(r) \in T
    BY <1>2, <1>5, <1>6, Induction
  <1>8. s[Len(r)] = <<>>
    BY <1>2, <1>7 DEF T
  <1> QED
    BY <1>1, <1>3, <1>4, <1>8 DEF Statement

\* What a header says of its method.
InfoAt(q, h) == MethodInfo(q[h].card, extractSqlcParams(Statement(q, h)), <<>>, 0)

\* The methods of the headers H do not change.
LEMMA MethodsBefore ==
    ASSUME NEW q, Files(q), NEW it \in QueryItems, NEW H, H \subseteq 1 .. Len(q),
           \A h \in H : Statement(Append(q, it), h) = Statement(q, h)
    PROVE  MethodsAt(Append(q, it), H) = MethodsAt(q, H)
  <1>1. PICK r : r = Append(q, it)
    OBVIOUS
  <1>2. \A h \in H : MethodAt(r, h) = MethodAt(q, h)
    BY <1>1, HeadersBefore
  <1>3. \A h \in H : InfoAt(r, h) = InfoAt(q, h)
    BY <1>1, ItemsBefore DEF InfoAt
  <1>4. {MethodAt(r, h) : h \in H} = {MethodAt(q, h) : h \in H}
    BY <1>2
  <1>5. ASSUME NEW x \in {MethodAt(q, h) : h \in H}
        PROVE  InfoAt(r, Latest({k \in H : MethodAt(r, k) = x}))
               = InfoAt(q, Latest({k \in H : MethodAt(q, k) = x}))
    <2>1. PICK S : S = {k \in H : MethodAt(q, k) = x}
      OBVIOUS
    <2>2. {k \in H : MethodAt(r, k) = x} = S
      BY <1>2, <2>1
    <2>3. S \subseteq 1 .. Len(q) /\ S # {} /\ Len(q) \in Nat
      BY <1>5, <2>1, ItemsBefore
    <2>4. Latest(S) \in H
      BY <2>1, <2>3, LatestIs
    <2> QED
      BY <1>3, <2>1, <2>2, <2>4
  <1>6. /\ MethodsAt(r, H) = [x \in {MethodAt(r, h) : h \in H} |->
                                 InfoAt(r, Latest({k \in H : MethodAt(r, k) = x}))]
        /\ MethodsAt(q, H) = [x \in {MethodAt(q, h) : h \in H} |->
                                 InfoAt(q, Latest({k \in H : MethodAt(q, k) = x}))]
    BY DEF MethodsAt, InfoAt
  <1> QED
    BY <1>1, <1>4, <1>5, <1>6

\* The method of a later header is added to them, or takes the place of one.
LEMMA MethodsFlushed ==
    ASSUME NEW q, NEW n \in Nat, NEW c \in 1 .. n, NEW H, H \subseteq 1 .. n,
           \A h \in H : h <= c
    PROVE  MethodsAt(q, H \cup {c}) = With(MethodsAt(q, H \ {c}), MethodAt(q, c), InfoAt(q, c))
  <1> DEFINE A == H \ {c}
             B == H \cup {c}
             Of1(S, x) == {k \in S : MethodAt(q, k) = x}
             F(S) == [x \in {MethodAt(q, h) : h \in S} |-> InfoAt(q, Latest(Of1(S, x)))]
  <1>1. MethodsAt(q, A) = F(A) /\ MethodsAt(q, B) = F(B)
    BY DEF MethodsAt, InfoAt
  <1>2. {MethodAt(q, h) : h \in B} = {MethodAt(q, h) : h \in A} \cup {MethodAt(q, c)}
    OBVIOUS
  <1>3. B \subseteq Nat /\ c \in B /\ \A h \in B : h <= c
    OBVIOUS
  <1>4. Latest(Of1(B, MethodAt(q, c))) = c
    <2>1. PICK S : S = Of1(B, MethodAt(q, c))
      OBVIOUS
    <2>2. S \subseteq Nat /\ c \in S /\ \A h \in S : h <= c
      BY <1>3, <2>1
    <2>3. Latest(S) = c
      BY <2>2, LatestOne
    <2> QED
      BY <2>1, <2>3
  <1>5. ASSUME NEW x, x # MethodAt(q, c) PROVE Of1(B, x) = Of1(A, x)
    BY <1>5
  <1> HIDE DEF A, B, Of1
  <1>6. F(B) = With(F(A), MethodAt(q, c), InfoAt(q, c))
    BY <1>2, <1>4, <1>5 DEF With
  <1> QED
    BY <1>1, <1>6 DEF A, B

-----------------------------------------------------------------------------
(* The models of the query files.                                          *)

Headers(q, f) == {h \in Named(q) : FileOf(q, h) = f}
NamedFor(q, b, m) == {h \in Named(q) : h < b /\ ModelAt(q, h) = m}
LastFile(q, b, m) == Latest({FileOf(q, h) : h \in NamedFor(q, b, m)})

\* ms is what the files before item b hold.
Loaded(q, b, ms) ==
    /\ DOMAIN ms = {ModelAt(q, h) : h \in {k \in Named(q) : k < b}}
    /\ \A m \in DOMAIN ms : ms[m] = MethodsAt(q, Headers(q, LastFile(q, b, m)))

\* The last file of a model is one of its files.
LEMMA LastFileIs ==
    ASSUME NEW q, Files(q), NEW b \in 1 .. Len(q) + 1, NEW m, NamedFor(q, b, m) # {}
    PROVE  /\ \E h \in NamedFor(q, b, m) : LastFile(q, b, m) = FileOf(q, h)
           /\ \A h \in NamedFor(q, b, m) : FileOf(q, h) <= LastFile(q, b, m)
  <1>1. PICK S : S = {FileOf(q, h) : h \in NamedFor(q, b, m)}
    OBVIOUS
  <1>2. \A h \in NamedFor(q, b, m) : h \in 1 .. Len(q) /\ FileOf(q, h) \in 1 .. h
    BY FileFacts DEF NamedFor, Named
  <1>3. Len(q) \in Nat
    BY DEF Files
  <1>4. S \subseteq 1 .. Len(q) /\ S # {}
    BY <1>1, <1>2, <1>3
  <1>5. Latest(S) \in S /\ \A j \in S : j <= Latest(S)
    BY <1>3, <1>4, LatestIs
  <1> QED
    BY <1>1, <1>5 DEF LastFile

\* A later item does not change what the files before b hold, when b begins one.
LEMMA LoadedBefore ==
    ASSUME NEW q, Files(q), NEW it \in QueryItems, NEW b \in 1 .. Len(q) + 1,
           Append(q, it)[b].kind = "file", Files(Append(q, it)), NEW ms, Loaded(q, b, ms)
    PROVE  Loaded(Append(q, it), b, ms)
  <1>1. PICK r : r = Append(q, it)
    OBVIOUS
  <1>2. /\ Len(r) = Len(q) + 1 /\ Len(q) \in Nat /\ r[Len(q) + 1] = it /\ r[b].kind = "file"
        /\ \A k \in 1 .. Len(q) : r[k] = q[k]
    BY <1>1, ItemsBefore
  <1>3. \A h \in 1 .. Len(q) :
           /\ FileOf(r, h) = FileOf(q, h) /\ ModelAt(r, h) = ModelAt(q, h)
           /\ MethodAt(r, h) = MethodAt(q, h) /\ (h \in Named(r) <=> h \in Named(q))
    BY <1>1, HeadersBefore
  <1>4. Named(r) \subseteq 1 .. Len(r) /\ Named(q) \subseteq 1 .. Len(q)
    BY DEF Named
  <1>5. \A k : k \in Named(r) /\ k < b <=> k \in Named(q) /\ k < b
    BY <1>2, <1>3, <1>4
  <1>6. DOMAIN ms = {ModelAt(r, h) : h \in {k \in Named(r) : k < b}}
    <2>1. {k \in Named(r) : k < b} = {k \in Named(q) : k < b}
      BY <1>5
    <2>2. \A h \in {k \in Named(q) : k < b} : ModelAt(r, h) = ModelAt(q, h)
      BY <1>3, <1>4
    <2> QED
      BY <2>1, <2>2 DEF Loaded
  <1>7. ASSUME NEW m \in DOMAIN ms
        PROVE  ms[m] = MethodsAt(r, Headers(r, LastFile(r, b, m)))
    <2>1. PICK g : g = LastFile(q, b, m)
      OBVIOUS
    <2>2. NamedFor(r, b, m) = NamedFor(q, b, m) /\ NamedFor(q, b, m) \subseteq 1 .. Len(q)
      BY <1>3, <1>4, <1>5 DEF NamedFor
    <2>3. LastFile(r, b, m) = g
      <3>1. {FileOf(r, h) : h \in NamedFor(r, b, m)} = {FileOf(q, h) : h \in NamedFor(q, b, m)}
        BY <1>3, <2>2
      <3> QED
        BY <2>1, <3>1 DEF LastFile
    <2>4. g \in Nat /\ g < b
      <3>1. NamedFor(q, b, m) # {}
        BY <1>7 DEF Loaded, NamedFor
      <3>2. PICK h \in NamedFor(q, b, m) : g = FileOf(q, h)
        BY <2>1, <3>1, LastFileIs
      <3>3. h \in 1 .. Len(q) /\ h < b
        BY <2>2, <3>2 DEF NamedFor
      <3>4. FileOf(q, h) \in 1 .. h
        BY <3>3, FileFacts
      <3> QED
        BY <3>2, <3>3, <3>4
    <2>5. ASSUME NEW h \in Named(r), FileOf(r, h) = g PROVE h < b
      <3>1. h \in 1 .. Len(r)
        BY <1>4
      <3>2. \A k \in 1 .. h : r[k].kind = "file" => k <= g
        BY <1>1, <2>5, <3>1, FileFacts
      <3> QED
        BY <1>2, <2>4, <3>1, <3>2
    <2>6. Headers(r, g) = Headers(q, g)
      <3>1. ASSUME NEW h \in Headers(r, g) PROVE h \in Headers(q, g)
        <4>1. h \in Named(r) /\ FileOf(r, h) = g /\ h < b
          BY <2>5 DEF Headers
        <4>2. h \in Named(q) /\ h \in 1 .. Len(q)
          BY <1>4, <1>5, <4>1
        <4> QED
          BY <1>3, <4>1, <4>2 DEF Headers
      <3>2. ASSUME NEW h \in Headers(q, g) PROVE h \in Headers(r, g)
        <4>1. h \in Named(q) /\ FileOf(q, h) = g /\ h \in 1 .. Len(q)
          BY <1>4 DEF Headers
        <4> QED
          BY <1>3, <4>1 DEF Headers
      <3> QED
        BY <3>1, <3>2
    <2>7. Headers(q, g) \subseteq 1 .. Len(q)
      BY <1>4 DEF Headers
    <2>8. ASSUME NEW h \in Headers(q, g) PROVE Statement(r, h) = Statement(q, h)
      <3>1. h \in 1 .. Len(q) /\ h < b
        BY <2>5, <2>6, <2>7 DEF Headers
      <3>2. b \in h + 1 .. Len(q) + 1 /\ r[b].kind # "sql"
        BY <1>2, <3>1
      <3> QED
        BY <1>1, <3>1, <3>2, StatementEnded
    <2>9. MethodsAt(r, Headers(q, g)) = MethodsAt(q, Headers(q, g))
      BY <1>1, <2>7, <2>8, MethodsBefore
    <2> QED
      BY <1>7, <2>1, <2>3, <2>6, <2>9 DEF Loaded
  <1>8. Loaded(r, b, ms)
    BY <1>6, <1>7 DEF Loaded
  <1> QED
    BY <1>1, <1>8

\* At its end the last file f is added, if it names a method.
LEMMA LoadedAtEnd ==
    ASSUME NEW q, Files(q), NEW f \in 1 .. Len(q), q[f].kind = "file",
           \A k \in f + 1 .. Len(q) : q[k].kind # "file", NEW ms, Loaded(q, f, ms),
           NEW fl, fl = MethodsAt(q, Headers(q, f))
    PROVE  Loaded(q, Len(q) + 1,
                  IF fl = <<>> THEN ms ELSE With(ms, sqlFileToModel(q[f]), fl))
  <1>1. Len(q) \in Nat /\ f \in Nat
    BY DEF Files
  <1>2. PICK z : z = Len(q) + 1
    OBVIOUS
  <1>3. PICK name : name = sqlFileToModel(q[f])
    OBVIOUS
  <1>4. Named(q) \subseteq 1 .. Len(q) /\ \A h \in Named(q) : h < z
    BY <1>1, <1>2 DEF Named
  <1>5. ASSUME NEW h \in Named(q)
        PROVE  /\ h < f => FileOf(q, h) < f /\ FileOf(q, h) \in Nat
               /\ ~(h < f) => FileOf(q, h) = f /\ ModelAt(q, h) = name
    <2>1. h \in 1 .. Len(q)
      BY <1>4
    <2>2. /\ FileOf(q, h) \in 1 .. h /\ q[FileOf(q, h)].kind = "file"
          /\ \A k \in 1 .. h : q[k].kind = "file" => k <= FileOf(q, h)
      BY <2>1, FileFacts
    <2>3. ASSUME ~(h < f) PROVE FileOf(q, h) = f
      <3>1. f \in 1 .. h
        BY <1>1, <2>1, <2>3
      <3>2. f <= FileOf(q, h)
        BY <2>2, <3>1
      <3>3. FileOf(q, h) \notin f + 1 .. Len(q)
        BY <2>2
      <3> QED
        BY <1>1, <2>1, <2>2, <3>2, <3>3
    <2> QED
      BY <1>1, <1>3, <2>1, <2>2, <2>3 DEF ModelAt
  <1>6. \A h \in Named(q) : h \in Headers(q, f) <=> ~(h < f)
    BY <1>1, <1>5 DEF Headers
  <1>7. Headers(q, f) \subseteq Named(q)
    BY DEF Headers
  <1>8. fl = <<>> <=> Headers(q, f) = {}
    <2>1. DOMAIN fl = {MethodAt(q, h) : h \in Headers(q, f)}
      BY DEF MethodsAt
    <2>2. Headers(q, f) # {} => DOMAIN fl # {}
      BY <2>1
    <2>3. fl = <<>> => DOMAIN fl = {}
      OBVIOUS
    <2>4. ASSUME Headers(q, f) = {} PROVE fl = <<>>
      <3>1. fl = [x \in DOMAIN fl |-> fl[x]]
        BY DEF MethodsAt
      <3>2. DOMAIN fl = {}
        BY <2>1, <2>4
      <3> QED
        BY <3>1, <3>2
    <2> QED
      BY <2>2, <2>3, <2>4
  <1>9. {k \in Named(q) : k < z} = Named(q)
    BY <1>4
  <1>10. ASSUME NEW m, m # name \/ Headers(q, f) = {}
         PROVE  NamedFor(q, z, m) = NamedFor(q, f, m) /\ LastFile(q, z, m) = LastFile(q, f, m)
    <2>1. NamedFor(q, z, m) = NamedFor(q, f, m)
      BY <1>4, <1>5, <1>6, <1>10 DEF NamedFor
    <2> QED
      BY <2>1 DEF LastFile
  <1>11. CASE Headers(q, f) = {}
    <2>1. {k \in Named(q) : k < f} = Named(q)
      BY <1>6, <1>11
    <2>2. Loaded(q, z, ms)
      BY <1>9, <1>10, <1>11, <2>1 DEF Loaded
    <2> QED
      BY <1>2, <1>8, <1>11, <2>2
  <1>12. CASE Headers(q, f) # {}
    <2>1. PICK ns : ns = With(ms, name, fl)
      OBVIOUS
    <2>2. DOMAIN ns = DOMAIN ms \cup {name} /\ ns[name] = fl
          /\ \A m \in DOMAIN ms : m # name => ns[m] = ms[m]
      BY <2>1 DEF With
    <2>3. PICK d \in Headers(q, f) : TRUE
      BY <1>12
    <2>4. d \in Named(q) /\ ~(d < f) /\ FileOf(q, d) = f /\ ModelAt(q, d) = name
      BY <1>5, <1>6, <1>7, <2>3
    <2>5. DOMAIN ns = {ModelAt(q, h) : h \in Named(q)}
      <3>1. DOMAIN ms = {ModelAt(q, h) : h \in {k \in Named(q) : k < f}}
        BY DEF Loaded
      <3>2. ASSUME NEW h \in Named(q) PROVE ModelAt(q, h) \in DOMAIN ns
        BY <1>5, <2>2, <3>1
      <3>3. ASSUME NEW m \in DOMAIN ns PROVE \E h \in Named(q) : m = ModelAt(q, h)
        BY <2>2, <2>4, <3>1
      <3> QED
        BY <3>2, <3>3
    <2>6. LastFile(q, z, name) = f
      <3>1. PICK S : S = {FileOf(q, h) : h \in NamedFor(q, z, name)}
        OBVIOUS
      <3>2. f \in S
        BY <1>4, <2>4, <3>1 DEF NamedFor
      <3>3. \A h \in NamedFor(q, z, name) : FileOf(q, h) \in Nat /\ FileOf(q, h) <= f
        BY <1>1, <1>5 DEF NamedFor
      <3>4. S \subseteq Nat /\ \A j \in S : j <= f
        BY <3>1, <3>3
      <3>5. Latest(S) = f
        BY <3>2, <3>4, LatestOne
      <3> QED
        BY <3>1, <3>5 DEF LastFile
    <2>7. ASSUME NEW m \in DOMAIN ns PROVE ns[m] = MethodsAt(q, Headers(q, LastFile(q, z, m)))
      <3>1. CASE m = name
        BY <2>2, <2>6, <3>1
      <3>2. CASE m # name
        <4>1. m \in DOMAIN ms /\ ns[m] = ms[m] /\ LastFile(q, z, m) = LastFile(q, f, m)
          BY <1>10, <2>2, <3>2
        <4> QED
          BY <4>1 DEF Loaded
      <3> QED
        BY <3>1, <3>2
    <2>8. Loaded(q, z, ns)
      BY <1>9, <2>5, <2>7 DEF Loaded
    <2> QED
      BY <1>2, <1>3, <1>8, <1>12, <2>1, <2>8
  <1> QED
    BY <1>11, <1>12

-----------------------------------------------------------------------------
(***************************************************************************)
(* The scanner of loadSqlcQueries.  f is the item that began the open file *)
(* and c the last one that is not SQL: the methods of the file's other     *)
(* headers are stored, the one at c is being read.                         *)
(***************************************************************************)
Scanning(f, c) ==
    /\ queries[f].kind = "file" /\ \A k \in f + 1 .. Len(queries) : queries[k].kind # "file"
    /\ queries[c].kind # "sql" /\ \A k \in c + 1 .. Len(queries) : queries[k].kind = "sql"
    /\ f <= c /\ model = sqlFileToModel(queries[f]) /\ Loaded(queries, f, Models)
    /\ Methods = MethodsAt(queries, Headers(queries, f) \ {c})
    /\ IF c \in Named(queries)
       THEN /\ currentMethod = MethodAt(queries, c) /\ currentCardinality = queries[c].card
            /\ currentSQL = Statement(queries, c)
       ELSE currentMethod = NoName

QueryInv ==
    /\ Files(queries)
    /\ phase = "ddl" => queries = <<>> /\ Models = <<>> /\ model = NoName
    /\ phase \in {"sqlc", "openapi"} /\ model = NoName =>
          Loaded(queries, Len(queries) + 1, Models)
    /\ phase = "sqlc" /\ model # NoName => \E f, c \in 1 .. Len(queries) : Scanning(f, c)
    /\ phase = "openapi" => model = NoName

\* A header names a method.
LEMMA MethodNamed ==
    \A q : \A h \in Named(q) : MethodAt(q, h) # NoName
  BY DEF Named, MethodAt, stripModelPrefix, NoName, None

\* The header being read belongs to the open file, and is its last.
LEMMA LastHeader ==
    ASSUME Files(queries), NEW f \in 1 .. Len(queries), NEW c \in 1 .. Len(queries), Scanning(f, c)
    PROVE  /\ c \in Named(queries) => c \in Headers(queries, f)
           /\ \A h \in Named(queries) : h \in 1 .. Len(queries) /\ h <= c
  <1>1. Len(queries) \in Nat /\ f <= c
    BY DEF Files, Scanning
  <1>2. /\ FileOf(queries, c) \in 1 .. c /\ queries[FileOf(queries, c)].kind = "file"
        /\ \A k \in 1 .. c : queries[k].kind = "file" => k <= FileOf(queries, c)
    BY FileFacts
  <1>3. f <= FileOf(queries, c) /\ FileOf(queries, c) \notin f + 1 .. Len(queries)
    BY <1>1, <1>2 DEF Scanning
  <1>4. FileOf(queries, c) = f
    BY <1>1, <1>2, <1>3
  <1>5. ASSUME NEW h \in Named(queries) PROVE h \in 1 .. Len(queries) /\ h <= c
    <2>1. h \in 1 .. Len(queries) /\ queries[h].kind = "header"
      BY DEF Named
    <2>2. h \notin c + 1 .. Len(queries)
      BY <2>1 DEF Scanning
    <2> QED
      BY <1>1, <2>1, <2>2
  <1> QED
    BY <1>4, <1>5 DEF Headers

\* Flushed has all the methods of the open file.
LEMMA FlushedIs ==
    ASSUME Files(queries), NEW f \in 1 .. Len(queries), NEW c \in 1 .. Len(queries), Scanning(f, c)
    PROVE  Flushed = MethodsAt(queries, Headers(queries, f))
  <1>1. PICK H : H = Headers(queries, f)
    OBVIOUS
  <1>2. Methods = MethodsAt(queries, H \ {c})
    BY <1>1 DEF Scanning
  <1>3. H \subseteq Named(queries)
    BY <1>1 DEF Headers
  <1>4. CASE c \in Named(queries)
    <2>1. c \in H /\ H \subseteq 1 .. Len(queries) /\ \A h \in H : h <= c
      BY <1>1, <1>3, <1>4, LastHeader
    <2>2. Len(queries) \in Nat /\ H \cup {c} = H
      BY <2>1 DEF Files
    <2>3. MethodsAt(queries, H \cup {c})
          = With(MethodsAt(queries, H \ {c}), MethodAt(queries, c), InfoAt(queries, c))
      BY <2>1, <2>2, MethodsFlushed
    <2>4. /\ currentMethod = MethodAt(queries, c) /\ currentMethod # NoName
          /\ MethodInfo(currentCardinality, extractSqlcParams(currentSQL), <<>>, 0) = InfoAt(queries, c)
      BY <1>4, MethodNamed DEF Scanning, InfoAt
    <2> QED
      BY <1>1, <1>2, <2>2, <2>3, <2>4 DEF Flushed
  <1>5. CASE c \notin Named(queries)
    <2>1. currentMethod = NoName /\ H \ {c} = H
      BY <1>3, <1>5 DEF Scanning
    <2> QED
      BY <1>1, <1>2, <2>1 DEF Flushed
  <1> QED
    BY <1>4, <1>5

\* The headers of the open file after one more item.
LEMMA HeadersStep ==
    ASSUME NEW q, Files(q), NEW it \in QueryItems, Files(Append(q, it)), NEW f \in 1 .. Len(q)
    PROVE  Headers(Append(q, it), f) \ {Len(q) + 1} = Headers(q, f)
  <1>1. PICK r : r = Append(q, it)
    OBVIOUS
  <1>2. Len(r) = Len(q) + 1 /\ Len(q) \in Nat
    BY <1>1, ItemsBefore
  <1>3. \A h \in 1 .. Len(q) : FileOf(r, h) = FileOf(q, h) /\ (h \in Named(r) <=> h \in Named(q))
    BY <1>1, HeadersBefore
  <1>4. Named(r) \subseteq 1 .. Len(r) /\ Named(q) \subseteq 1 .. Len(q)
    BY DEF Named
  <1>5. \A h : h \in Headers(r, f) /\ h # Len(q) + 1 <=> h \in Headers(q, f)
    <2> SUFFICES ASSUME NEW h
                 PROVE  h \in Headers(r, f) /\ h # Len(q) + 1 <=> h \in Headers(q, f)
      OBVIOUS
    <2>1. CASE h \in 1 .. Len(q)
      <3>1. h # Len(q) + 1
        BY <1>2, <2>1
      <3> QED
        BY <1>3, <2>1, <3>1 DEF Headers
    <2>2. CASE h \notin 1 .. Len(q)
      <3>1. h \in 1 .. Len(r) => h = Len(q) + 1
        BY <1>2, <2>2
      <3> QED
        BY <1>4, <2>2, <3>1 DEF Headers
    <2> QED
      BY <2>1, <2>2
  <1> QED
    BY <1>1, <1>5

\* A file is opened.
LEMMA OpenScans ==
    ASSUME QueryInv, phase = "sqlc", phase' = "sqlc", NEW it \in QueryItems, OpenQueryFile(it)
    PROVE  QueryInv'
  <1>1. PICK q : q = queries
    OBVIOUS
  <1>2. PICK n : n = Len(q) + 1
    OBVIOUS
  <1>3. /\ Files(q) /\ Loaded(q, n, Models) /\ it.kind = "file" /\ model = NoName
        /\ queries' = Append(q, it) /\ model' = sqlFileToModel(it) /\ Models' = Models
        /\ Methods' = <<>> /\ currentMethod' = NoName
    BY <1>1, <1>2 DEF QueryInv, OpenQueryFile, ReadItem, tableVars
  <1>4. PICK r : r = queries'
    OBVIOUS
  <1>5. /\ r \in Seq(QueryItems) /\ Len(r) = n /\ Len(q) \in Nat /\ r[n] = it
        /\ \A k \in 1 .. Len(q) : r[k] = q[k]
    BY <1>2, <1>3, <1>4, ItemsBefore
  <1>6. Files(r)
    BY <1>2, <1>3, <1>5 DEF Files
  <1>7. n \in 1 .. Len(r) /\ n \in 1 .. Len(q) + 1
    BY <1>2, <1>5
  <1>8. Loaded(r, n, Models)
    <2>1. Append(q, it) = r
      BY <1>3, <1>4
    <2>2. Append(q, it)[n].kind = "file" /\ Files(Append(q, it))
      BY <1>3, <1>5, <1>6, <2>1
    <2>3. Loaded(Append(q, it), n, Models)
      BY <1>3, <1>7, <2>2, LoadedBefore
    <2> QED
      BY <2>1, <2>3
  <1>9. n \notin Named(r)
    BY <1>3, <1>5 DEF Named
  <1>10. Headers(r, n) = {}
    <2> SUFFICES ASSUME NEW h \in Named(r), FileOf(r, h) = n PROVE FALSE
      BY DEF Headers
    <2>1. h \in 1 .. Len(r) /\ h # n
      BY <1>9 DEF Named
    <2>2. FileOf(r, h) \in 1 .. h
      BY <1>6, <2>1, FileFacts
    <2> QED
      BY <1>5, <2>1, <2>2
  <1>11. MethodsAt(r, Headers(r, n) \ {n}) = <<>>
    <2>1. PICK g : g = MethodsAt(r, Headers(r, n) \ {n})
      OBVIOUS
    <2>2. g = [x \in DOMAIN g |-> g[x]] /\ DOMAIN g = {}
      BY <1>10, <2>1 DEF MethodsAt
    <2> QED
      BY <2>1, <2>2
  <1>12. Scanning(n, n)'
    <2>1. r[n].kind = "file" /\ \A k \in n + 1 .. Len(r) : r[k].kind # "file" /\ r[k].kind = "sql"
      BY <1>3, <1>5
    <2> QED
      BY <1>3, <1>4, <1>5, <1>7, <1>8, <1>9, <1>11, <2>1 DEF Scanning
  <1>13. model' # NoName
    BY <1>3 DEF sqlFileToModel, NoName, None
  <1> QED
    BY <1>4, <1>6, <1>7, <1>12, <1>13 DEF QueryInv

\* A header ends the method before it.
LEMMA NameScans ==
    ASSUME QueryInv, phase = "sqlc", phase' = "sqlc", NEW it \in QueryItems, NameLine(it)
    PROVE  QueryInv'
  <1>1. PICK q : q = queries
    OBVIOUS
  <1>2. PICK n : n = Len(q) + 1
    OBVIOUS
  <1>3. /\ Files(q) /\ it.kind = "header" /\ model # NoName
        /\ queries' = Append(q, it) /\ model' = model /\ Models' = Models /\ Methods' = Flushed
        /\ currentMethod' = (IF it.name = None THEN NoName ELSE stripModelPrefix(it, model))
        /\ currentCardinality' = (IF it.name = None THEN "" ELSE it.card)
        /\ currentSQL' = <<>>
    BY <1>1 DEF QueryInv, NameLine, ReadItem, tableVars
  <1>4. Files(q) /\ it.kind # "file" /\ it.kind # "sql"
    BY <1>3
  <1>5. PICK f \in 1 .. Len(q), c \in 1 .. Len(q) : Scanning(f, c)
    BY <1>1, <1>3 DEF QueryInv
  <1>6. PICK r : r = queries'
    OBVIOUS
  <1>7. /\ r = Append(q, it) /\ r \in Seq(QueryItems) /\ Len(r) = n /\ Len(q) \in Nat /\ r[n] = it
        /\ \A k \in 1 .. Len(q) : r[k] = q[k]
    BY <1>2, <1>3, <1>6, ItemsBefore
  <1>8. Files(r)
    BY <1>4, <1>5, <1>7 DEF Files
  <1>9. n \in 1 .. Len(r) /\ f \in 1 .. Len(r) /\ f <= n /\ f # n
    BY <1>2, <1>5, <1>7
  <1>10. /\ r[f].kind = "file" /\ \A k \in f + 1 .. Len(r) : r[k].kind # "file"
        /\ Loaded(q, f, Models) /\ model = sqlFileToModel(r[f])
    <2>1. /\ q[f].kind = "file" /\ \A k \in f + 1 .. Len(q) : q[k].kind # "file"
          /\ Loaded(q, f, Models) /\ model = sqlFileToModel(q[f])
      BY <1>1, <1>5 DEF Scanning
    <2> QED
      BY <1>2, <1>4, <1>5, <1>7, <2>1
  <1>11. Loaded(r, f, Models)
    <2>1. f \in 1 .. Len(q) + 1
      BY <1>5, <1>7
    <2>2. Append(q, it)[f].kind = "file" /\ Files(Append(q, it))
      BY <1>7, <1>8, <1>10
    <2>3. Loaded(Append(q, it), f, Models)
      BY <1>3, <1>10, <2>1, <2>2, LoadedBefore
    <2> QED
      BY <1>7, <2>3
  <1>12. Methods' = MethodsAt(r, Headers(r, f) \ {n})
    <2>1. Methods' = MethodsAt(q, Headers(q, f))
      BY <1>1, <1>3, <1>5, FlushedIs
    <2>2. Headers(r, f) \ {n} = Headers(q, f)
      BY <1>2, <1>3, <1>5, <1>7, <1>8, HeadersStep
    <2>3. Headers(q, f) \subseteq 1 .. Len(q)
      BY DEF Headers, Named
    <2>4. ASSUME NEW h \in Headers(q, f) PROVE Statement(Append(q, it), h) = Statement(q, h)
      <3>1. h \in 1 .. Len(q) /\ n \in h + 1 .. Len(q) + 1 /\ Append(q, it)[n].kind # "sql"
        BY <1>2, <1>4, <1>7, <2>3
      <3> QED
        BY <1>3, <3>1, StatementEnded
    <2>5. MethodsAt(Append(q, it), Headers(q, f)) = MethodsAt(q, Headers(q, f))
      BY <1>3, <2>3, <2>4, MethodsBefore
    <2> QED
      BY <1>7, <2>1, <2>2, <2>5
  <1>13. n \in Named(r) <=> it.name # None
    BY <1>3, <1>7, <1>9 DEF Named
  <1>14. Statement(r, n) = <<>>
    BY <1>2, <1>3, <1>7, StatementEmpty
  <1>15. MethodAt(r, n) = stripModelPrefix(it, model)
    <2>1. /\ FileOf(r, n) \in 1 .. n /\ r[FileOf(r, n)].kind = "file"
          /\ \A k \in 1 .. n : r[k].kind = "file" => k <= FileOf(r, n)
      BY <1>8, <1>9, FileFacts
    <2>2. f <= FileOf(r, n) /\ FileOf(r, n) \notin f + 1 .. Len(r)
      BY <1>9, <1>10, <2>1
    <2>3. FileOf(r, n) = f
      BY <1>7, <1>9, <2>1, <2>2
    <2> QED
      BY <1>7, <1>10, <2>3 DEF MethodAt, ModelAt
  <1>16. Scanning(f, n)'
    <2>1. r[n].kind # "sql" /\ \A k \in n + 1 .. Len(r) : r[k].kind = "sql"
      BY <1>4, <1>7, <1>9
    <2> QED
      BY <1>3, <1>6, <1>7, <1>9, <1>10, <1>11, <1>12, <1>13, <1>14, <1>15, <2>1 DEF Scanning
  <1> QED
    BY <1>3, <1>6, <1>8, <1>9, <1>16 DEF QueryInv

\* A line of SQL belongs to the header above it.
LEMMA SqlScans ==
    ASSUME QueryInv, phase = "sqlc", phase' = "sqlc", NEW it \in QueryItems, SqlLine(it)
    PROVE  QueryInv'
  <1>1. PICK q : q = queries
    OBVIOUS
  <1>2. PICK n : n = Len(q) + 1
    OBVIOUS
  <1>3. /\ Files(q) /\ it.kind = "sql" /\ model # NoName
        /\ queries' = Append(q, it) /\ UNCHANGED <<model, Models, Methods>>
        /\ UNCHANGED <<currentMethod, currentCardinality>>
        /\ currentSQL' = (IF currentMethod = NoName THEN currentSQL ELSE Append(currentSQL, it))
    BY <1>1 DEF QueryInv, SqlLine, ReadItem, tableVars
  <1>4. PICK f \in 1 .. Len(q), c \in 1 .. Len(q) : Scanning(f, c)
    BY <1>1, <1>3 DEF QueryInv
  <1>5. PICK r : r = queries'
    OBVIOUS
  <1>6. /\ r = Append(q, it) /\ r \in Seq(QueryItems) /\ Len(r) = n /\ Len(q) \in Nat /\ r[n] = it
        /\ \A k \in 1 .. Len(q) : r[k] = q[k]
    BY <1>2, <1>3, <1>5, ItemsBefore
  <1>7. Files(r)
    BY <1>3, <1>4, <1>6 DEF Files
  <1>8. c \in 1 .. Len(r) /\ f \in 1 .. Len(r) /\ f <= c /\ n \notin 1 .. Len(q)
    BY <1>1, <1>2, <1>4, <1>6 DEF Scanning
  <1>9. /\ r[f].kind = "file" /\ \A k \in f + 1 .. Len(r) : r[k].kind # "file"
        /\ r[c].kind # "sql" /\ \A k \in c + 1 .. Len(r) : r[k].kind = "sql"
        /\ Loaded(q, f, Models) /\ model = sqlFileToModel(r[f])
    <2>1. /\ q[f].kind = "file" /\ \A k \in f + 1 .. Len(q) : q[k].kind # "file"
          /\ q[c].kind # "sql" /\ \A k \in c + 1 .. Len(q) : q[k].kind = "sql"
          /\ Loaded(q, f, Models) /\ model = sqlFileToModel(q[f])
      BY <1>1, <1>4 DEF Scanning
    <2> QED
      BY <1>2, <1>3, <1>4, <1>6, <2>1
  <1>10. Loaded(r, f, Models)
    <2>1. f \in 1 .. Len(q) + 1
      BY <1>4, <1>6
    <2>2. Append(q, it)[f].kind = "file" /\ Files(Append(q, it))
      BY <1>6, <1>7, <1>9
    <2>3. Loaded(Append(q, it), f, Models)
      BY <1>3, <1>9, <2>1, <2>2, LoadedBefore
    <2> QED
      BY <1>6, <2>3
  <1>11. n \notin Named(r) /\ (c \in Named(r) <=> c \in Named(q))
    BY <1>3, <1>4, <1>6, HeadersBefore DEF Named
  <1>12. Methods = MethodsAt(r, Headers(r, f) \ {c})
    <2>1. PICK H : H = Headers(q, f) \ {c}
      OBVIOUS
    <2>2. Headers(r, f) \ {n} = Headers(q, f) /\ n \notin Headers(r, f)
      BY <1>2, <1>3, <1>4, <1>6, <1>7, <1>11, HeadersStep DEF Headers
    <2>3. Headers(r, f) \ {c} = H
      BY <2>1, <2>2
    <2>4. \A h \in H : h \in 1 .. Len(q) /\ h < c
      <3>1. \A h \in Named(q) : h \in 1 .. Len(q) /\ h <= c
        BY <1>1, <1>3, <1>4, LastHeader
      <3> QED
        BY <1>4, <1>6, <2>1, <3>1 DEF Headers
    <2>5. ASSUME NEW h \in H PROVE Statement(Append(q, it), h) = Statement(q, h)
      <3>1. h \in 1 .. Len(q) /\ c \in h + 1 .. Len(q) + 1 /\ Append(q, it)[c].kind # "sql"
        BY <1>4, <1>6, <1>9, <2>4
      <3> QED
        BY <1>3, <3>1, StatementEnded
    <2>6. MethodsAt(Append(q, it), H) = MethodsAt(q, H)
      BY <1>3, <2>4, <2>5, MethodsBefore
    <2>7. Methods = MethodsAt(q, H)
      BY <1>1, <1>4, <2>1 DEF Scanning
    <2> QED
      BY <1>6, <2>3, <2>6, <2>7
  <1>13. IF c \in Named(r)
         THEN /\ currentMethod' = MethodAt(r, c) /\ currentCardinality' = r[c].card
              /\ currentSQL' = Statement(r, c)
         ELSE currentMethod' = NoName
    <2>1. CASE c \in Named(q)
      <3>1. /\ currentMethod = MethodAt(q, c) /\ currentCardinality = q[c].card
            /\ currentSQL = Statement(q, c)
        BY <1>1, <1>4, <2>1 DEF Scanning
      <3>2. currentSQL' = Append(Statement(q, c), it)
        BY <1>3, <2>1, <3>1, MethodNamed
      <3>3. \A k \in c + 1 .. Len(q) : q[k].kind = "sql"
        BY <1>1, <1>4 DEF Scanning
      <3>4. Statement(Append(q, it), c) = Append(Statement(q, c), it)
        BY <1>3, <1>4, <3>3, StatementGrows
      <3>5. MethodAt(r, c) = MethodAt(q, c)
        BY <1>3, <1>4, <1>6, HeadersBefore
      <3> QED
        BY <1>3, <1>4, <1>6, <1>11, <2>1, <3>1, <3>2, <3>4, <3>5
    <2>2. CASE c \notin Named(q)
      BY <1>1, <1>3, <1>4, <1>11, <2>2 DEF Scanning
    <2> QED
      BY <2>1, <2>2
  <1>14. Scanning(f, c)'
    BY <1>3, <1>5, <1>8, <1>9, <1>10, <1>12, <1>13 DEF Scanning
  <1> QED
    BY <1>3, <1>5, <1>7, <1>8, <1>14 DEF QueryInv

\* The end of a file stores its methods.
LEMMA CloseScans ==
    ASSUME QueryInv, phase = "sqlc", phase' = "sqlc", CloseQueryFile
    PROVE  QueryInv'
  <1>1. PICK q : q = queries
    OBVIOUS
  <1>2. /\ Files(q) /\ model # NoName /\ queries' = q /\ model' = NoName
        /\ Models' = (IF Flushed = <<>> THEN Models ELSE With(Models, model, Flushed))
    BY <1>1 DEF QueryInv, CloseQueryFile
  <1>3. PICK f \in 1 .. Len(q), c \in 1 .. Len(q) : Scanning(f, c)
    BY <1>1, <1>2 DEF QueryInv
  <1>4. Flushed = MethodsAt(q, Headers(q, f))
    BY <1>1, <1>2, <1>3, FlushedIs
  <1>5. PICK fl : fl = Flushed
    OBVIOUS
  <1>6. /\ q[f].kind = "file" /\ \A k \in f + 1 .. Len(q) : q[k].kind # "file"
        /\ Loaded(q, f, Models) /\ model = sqlFileToModel(q[f])
    BY <1>1, <1>3 DEF Scanning
  <1>7. Loaded(q, Len(q) + 1, IF fl = <<>> THEN Models ELSE With(Models, sqlFileToModel(q[f]), fl))
    BY <1>2, <1>4, <1>5, <1>6, LoadedAtEnd
  <1>8. Loaded(q, Len(q) + 1, Models')
    BY <1>2, <1>5, <1>6, <1>7
  <1> QED
    BY <1>2, <1>8 DEF QueryInv

\* Nothing is loaded from no file.
LEMMA LoadedNone == Files(<<>>) /\ Loaded(<<>>, 1, <<>>)
  <1>1. Named(<<>>) = {} /\ Len(<<>>) = 0 /\ <<>> \in Seq(QueryItems)
    BY DEF Named
  <1>2. DOMAIN <<>> = {}
    OBVIOUS
  <1> QED
    BY <1>1, <1>2 DEF Files, Loaded

\* Every step keeps the invariant of the scanner.
LEMMA QueryInvStep == QueryInv /\ [Next]_symbolVars => QueryInv'
  <1> SUFFICES ASSUME QueryInv, [Next]_symbolVars PROVE QueryInv'
    OBVIOUS
  <1>1. CASE phase = "sqlc" /\ phase' = "sqlc" /\ QueryStep
    <2>1. PICK it \in QueryItems : OpenQueryFile(it) \/ NameLine(it) \/ SqlLine(it)
      BY <1>1 DEF QueryStep
    <2> QED
      BY <1>1, <2>1, OpenScans, NameScans, SqlScans
  <1>2. CASE phase = "sqlc" /\ phase' = "sqlc" /\ CloseQueryFile
    BY <1>2, CloseScans
  <1>3. ASSUME phase' = phase, UNCHANGED <<queries, queryVars, Models>> PROVE QueryInv'
    <2>1. /\ queries' = queries /\ model' = model /\ Models' = Models /\ Methods' = Methods
          /\ currentMethod' = currentMethod /\ currentCardinality' = currentCardinality
          /\ currentSQL' = currentSQL
      BY <1>3 DEF queryVars
    <2>2. \A f, c \in 1 .. Len(queries) : Scanning(f, c) => Scanning(f, c)'
      BY <2>1 DEF Scanning
    <2>3. phase = "sqlc" /\ model # NoName => (\E f, c \in 1 .. Len(queries) : Scanning(f, c))'
      BY <2>1, <2>2 DEF QueryInv
    <2> QED
      BY <1>3, <2>1, <2>3 DEF QueryInv
  <1>4. ASSUME phase' \notin {"ddl", "sqlc", "openapi"}, queries' = queries \/ queries' = <<>>
        PROVE  QueryInv'
    <2>1. Files(queries)'
      BY <1>4, LoadedNone DEF QueryInv
    <2> QED
      BY <1>4, <2>1 DEF QueryInv
  <1>5. CASE NextLoader
    <2>1. model = NoName /\ UNCHANGED <<queries, model, Models>>
      BY <1>5 DEF NextLoader, queryVars, tableVars
    <2>2. CASE phase = "ddl" /\ phase' = "sqlc"
      <3>1. queries = <<>> /\ Models = <<>> /\ Len(queries) + 1 = 1
        BY <2>2 DEF QueryInv
      <3>2. Loaded(queries, Len(queries) + 1, Models)
        BY <3>1, LoadedNone
      <3> QED
        BY <2>1, <2>2, <3>2 DEF QueryInv
    <2>3. CASE phase = "sqlc" /\ phase' = "openapi"
      BY <2>1, <2>3 DEF QueryInv
    <2>4. CASE phase' \in {"model", "package"}
      BY <1>4, <2>1, <2>4
    <2> QED
      BY <1>5, <2>2, <2>3, <2>4, NextLoaderIs
  <1>6. CASE LoadFails
    BY <1>4, <1>6 DEF LoadFails
  <1>7. CASE In("ddl") /\ UNCHANGED <<queries, queryVars, tableVars, goVars>>
    BY <1>3, <1>7 DEF In, tableVars
  <1>8. CASE /\ In("openapi") /\ \E op \in Operations : LoadOperation(op)
             /\ UNCHANGED <<schemaVars, queries, queryVars, goVars>>
    BY <1>3, <1>8 DEF In, LoadOperation
  <1>9. CASE (In("model") \/ In("package") \/ phase' = "done") /\ UNCHANGED <<queries, queryVars>>
    BY <1>4, <1>9 DEF In
  <1>10. CASE UNCHANGED symbolVars
    BY <1>3, <1>10 DEF symbolVars, tableVars
  <1> QED
    BY <1>1, <1>2, <1>5, <1>6, <1>7, <1>8, <1>9, <1>10 DEF Next, In, Done

\* validator/symbol.go, loadSqlcQueries: of query files of any length, every
\* method of every model is loaded with its own cardinality and parameters.
THEOREM QueriesAreLoaded == Spec => []QueriesLoaded
  <1>1. Init => QueryInv
    BY LoadedNone DEF Init, QueryInv
  <1>2. QueryInv => QueriesLoaded
    <2> SUFFICES ASSUME QueryInv, phase = "openapi"
                 PROVE  /\ DOMAIN Models = {ModelAt(queries, h) : h \in Named(queries)}
                        /\ \A m \in DOMAIN Models : Models[m] = QueryMethods(queries, m)
      BY DEF QueriesLoaded
    <2>1. PICK q : q = queries
      OBVIOUS
    <2>2. Loaded(q, Len(q) + 1, Models) /\ Len(q) \in Nat
      BY <2>1 DEF QueryInv, Files
    <2>3. \A h \in Named(q) : h < Len(q) + 1
      BY <2>2 DEF Named
    <2>4. {k \in Named(q) : k < Len(q) + 1} = Named(q)
      BY <2>3
    <2>5. ASSUME NEW m \in DOMAIN Models PROVE Models[m] = QueryMethods(q, m)
      <3>1. NamedFor(q, Len(q) + 1, m) = {k \in Named(q) : ModelAt(q, k) = m}
        BY <2>3 DEF NamedFor
      <3>2. Models[m] = MethodsAt(q, Headers(q, LastFile(q, Len(q) + 1, m)))
        BY <2>2 DEF Loaded
      <3> QED
        BY <3>1, <3>2 DEF QueryMethods, LastFile, Headers
    <2> QED
      BY <2>1, <2>2, <2>4, <2>5 DEF Loaded
  <1> QED
    BY <1>1, <1>2, QueryInvStep, PTL DEF Spec

-----------------------------------------------------------------------------
(* A text q of the schema and one line more.                               *)

\* The lines with these numbers are lines.
LEMMA LinesTyped ==
    ASSUME NEW q \in Seq(DDLLines), NEW S
    PROVE  Lines(q, S) \in Seq(DDLLines)
  <1>1. Len(q) \in Nat /\ \A j \in 1 .. Len(q) : q[j] \in DDLLines
    OBVIOUS
  <1>2. PICK X : X = {q[j] : j \in S \cap (1 .. Len(q))}
    OBVIOUS
  <1>3. Lines(q, S) \in Seq(X)
    BY <1>1, <1>2, LinesSeq
  <1>4. X \subseteq DDLLines
    BY <1>1, <1>2
  <1> QED
    BY <1>3, <1>4

\* Something is read off each line.
LEMMA ReadOff ==
    ASSUME NEW A, NEW s \in Seq(A), NEW x \in A, NEW e, DOMAIN e = A
    PROVE  [k \in DOMAIN Append(s, x) |-> e[Append(s, x)[k]]]
           = Append([k \in DOMAIN s |-> e[s[k]]], e[x])
  <1>1. PICK V : V = {e[a] : a \in A}
    OBVIOUS
  <1>2. PICK f : f = [k \in DOMAIN s |-> e[s[k]]]
    OBVIOUS
  <1>3. PICK g : g = [k \in DOMAIN Append(s, x) |-> e[Append(s, x)[k]]]
    OBVIOUS
  <1>4. f \in Seq(V) /\ Len(f) = Len(s) /\ e[x] \in V
    BY <1>1, <1>2
  <1>5. g \in Seq(V) /\ Len(g) = Len(s) + 1
    <2>1. Append(s, x) \in Seq(A) /\ Len(Append(s, x)) = Len(s) + 1
      OBVIOUS
    <2>2. \A k \in DOMAIN Append(s, x) : e[Append(s, x)[k]] \in V
      BY <1>1, <2>1
    <2> QED
      BY <1>3, <2>1, <2>2
  <1>6. ASSUME NEW k \in 1 .. Len(s) + 1 PROVE g[k] = Append(f, e[x])[k]
    <2>1. g[k] = e[Append(s, x)[k]]
      BY <1>3
    <2>2. CASE k = Len(s) + 1
      <3>1. Append(s, x)[k] = x /\ Append(f, e[x])[k] = e[x]
        BY <1>4, <2>2
      <3> QED
        BY <2>1, <3>1
    <2>3. CASE k \in 1 .. Len(s)
      <3>1. Append(s, x)[k] = s[k] /\ Append(f, e[x])[k] = f[k] /\ f[k] = e[s[k]]
        BY <1>2, <1>4, <2>3
      <3> QED
        BY <2>1, <3>1
    <2>4. Len(s) \in Nat
      OBVIOUS
    <2>5. k = Len(s) + 1 \/ k \in 1 .. Len(s)
      BY <2>4
    <2> QED
      BY <2>2, <2>3, <2>5
  <1>7. Append(f, e[x]) \in Seq(V) /\ Len(Append(f, e[x])) = Len(s) + 1
    BY <1>4
  <1>8. g = Append(f, e[x])
    BY <1>5, <1>6, <1>7
  <1> QED
    BY <1>2, <1>3, <1>8

\* A selection of the lines, with the line after them or without it.
Extends(q, S, R) ==
    /\ S \subseteq 1 .. Len(q) /\ R \subseteq 1 .. Len(q) + 1
    /\ \A k \in 1 .. Len(q) : k \in S <=> k \in R

\* The names of the columns.
LEMMA NamesStep ==
    ASSUME NEW q \in Seq(DDLLines), NEW l \in DDLLines, NEW S, NEW R, Extends(q, S, R)
    PROVE  Names(Lines(Append(q, l), R)) =
               IF Len(q) + 1 \in R THEN Append(Names(Lines(q, S)), l.col) ELSE Names(Lines(q, S))
  <1>1. PICK s : s = Lines(q, S)
    OBVIOUS
  <1>2. s \in Seq(DDLLines)
    BY <1>1, LinesTyped
  <1>3. Lines(Append(q, l), R) = IF Len(q) + 1 \in R THEN Append(s, l) ELSE s
    BY <1>1, LinesStep DEF Extends
  <1>4. PICK e : e = [d \in DDLLines |-> d.col]
    OBVIOUS
  <1>5. \A p \in Seq(DDLLines) : Names(p) = [k \in DOMAIN p |-> e[p[k]]]
    BY <1>4 DEF Names
  <1>6. Append(s, l) \in Seq(DDLLines) /\ e[l] = l.col /\ DOMAIN e = DDLLines
    BY <1>2, <1>4
  <1>7. Names(Append(s, l)) = Append(Names(s), l.col)
    <2>1. [k \in DOMAIN Append(s, l) |-> e[Append(s, l)[k]]]
          = Append([k \in DOMAIN s |-> e[s[k]]], e[l])
      BY <1>2, <1>6, ReadOff
    <2> QED
      BY <1>2, <1>5, <1>6, <2>1
  <1> QED
    BY <1>1, <1>3, <1>7

\* The foreign keys.
LEMMA ForeignKeysStep ==
    ASSUME NEW q \in Seq(DDLLines), NEW l \in DDLLines, NEW S, NEW R, Extends(q, S, R)
    PROVE  ForeignKeysAt(Append(q, l), R) =
               IF Len(q) + 1 \in R
               THEN Append(ForeignKeysAt(q, S), ForeignKey(l.col, l.ref, "id"))
               ELSE ForeignKeysAt(q, S)
  <1>1. PICK s : s = Lines(q, S)
    OBVIOUS
  <1>2. s \in Seq(DDLLines)
    BY <1>1, LinesTyped
  <1>3. PICK p : p = Lines(Append(q, l), R)
    OBVIOUS
  <1>4. p = IF Len(q) + 1 \in R THEN Append(s, l) ELSE s
    BY <1>1, <1>3, LinesStep DEF Extends
  <1>5. PICK e : e = [d \in DDLLines |-> ForeignKey(d.col, d.ref, "id")]
    OBVIOUS
  <1>6. /\ Append(s, l) \in Seq(DDLLines) /\ e[l] = ForeignKey(l.col, l.ref, "id")
        /\ DOMAIN e = DDLLines
    BY <1>2, <1>5
  <1>7. /\ ForeignKeysAt(q, S) = [k \in DOMAIN s |-> e[s[k]]]
        /\ ForeignKeysAt(Append(q, l), R) = [k \in DOMAIN p |-> e[p[k]]]
    <2>1. p \in Seq(DDLLines)
      BY <1>2, <1>4, <1>6
    <2>2. ASSUME NEW u \in Seq(DDLLines)
          PROVE  [k \in DOMAIN u |-> ForeignKey(u[k].col, u[k].ref, "id")] = [k \in DOMAIN u |-> e[u[k]]]
      BY <1>5
    <2> QED
      BY <1>1, <1>2, <1>3, <2>1, <2>2 DEF ForeignKeysAt
  <1>8. [k \in DOMAIN Append(s, l) |-> e[Append(s, l)[k]]] = Append([k \in DOMAIN s |-> e[s[k]]], e[l])
    BY <1>2, <1>6, ReadOff
  <1> QED
    BY <1>4, <1>6, <1>7, <1>8

\* The index that a line declares.
IndexOf(l) ==
    IF l.kind = "column" THEN Index(<<l.col>>, TRUE)
    ELSE Index(l.cols, IF l.kind = "unique" THEN TRUE ELSE l.uniq)

\* The indexes.
LEMMA IndexesStep ==
    ASSUME NEW q \in Seq(DDLLines), NEW l \in DDLLines, NEW S, NEW R, Extends(q, S, R)
    PROVE  IndexesAt(Append(q, l), R) =
               IF Len(q) + 1 \in R THEN Append(IndexesAt(q, S), IndexOf(l)) ELSE IndexesAt(q, S)
  <1>1. PICK s : s = Lines(q, S)
    OBVIOUS
  <1>2. s \in Seq(DDLLines)
    BY <1>1, LinesTyped
  <1>3. PICK p : p = Lines(Append(q, l), R)
    OBVIOUS
  <1>4. p = IF Len(q) + 1 \in R THEN Append(s, l) ELSE s
    BY <1>1, <1>3, LinesStep DEF Extends
  <1>5. PICK e : e = [d \in DDLLines |-> IndexOf(d)]
    OBVIOUS
  <1>6. Append(s, l) \in Seq(DDLLines) /\ e[l] = IndexOf(l) /\ DOMAIN e = DDLLines
    BY <1>2, <1>5
  <1>7. /\ IndexesAt(q, S) = [k \in DOMAIN s |-> e[s[k]]]
        /\ IndexesAt(Append(q, l), R) = [k \in DOMAIN p |-> e[p[k]]]
    <2>1. p \in Seq(DDLLines)
      BY <1>2, <1>4, <1>6
    <2>2. \A u \in Seq(DDLLines) : [k \in DOMAIN u |-> IndexOf(u[k])] = [k \in DOMAIN u |-> e[u[k]]]
      BY <1>5
    <2>3. /\ IndexesAt(q, S) = [k \in DOMAIN s |-> IndexOf(s[k])]
          /\ IndexesAt(Append(q, l), R) = [k \in DOMAIN p |-> IndexOf(p[k])]
      BY <1>1, <1>3, Zenon DEF IndexesAt, IndexOf
    <2> QED
      BY <1>2, <2>1, <2>2, <2>3
  <1>8. [k \in DOMAIN Append(s, l) |-> e[Append(s, l)[k]]] = Append([k \in DOMAIN s |-> e[s[k]]], e[l])
    BY <1>2, <1>6, ReadOff
  <1> QED
    BY <1>4, <1>6, <1>7, <1>8

\* The lines that declare the column c.
LinesOf(q, S, c) == {j \in S : q[j].col = c}

\* The columns.
LEMMA ColumnsStep ==
    ASSUME NEW q \in Seq(DDLLines), NEW l \in DDLLines, NEW S, NEW R, Extends(q, S, R)
    PROVE  ColumnsAt(Append(q, l), R) =
               IF Len(q) + 1 \in R THEN With(ColumnsAt(q, S), l.col, pgTypeToGo(l.type))
               ELSE ColumnsAt(q, S)
  <1>1. PICK r : r = Append(q, l)
    OBVIOUS
  <1>2. PICK n : n = Len(q) + 1
    OBVIOUS
  <1>3. Len(q) \in Nat /\ n \in Nat /\ r[n] = l /\ \A k \in 1 .. Len(q) : r[k] = q[k]
    BY <1>1, <1>2
  <1>4. /\ S \subseteq 1 .. Len(q) /\ \A k \in R : k \in S \/ k = n
        /\ n \notin S /\ \A k \in S : k \in R
    BY <1>2, <1>3 DEF Extends
  <1>5. \A k \in S : r[k] = q[k] /\ k \in Nat /\ k <= n
    BY <1>2, <1>3, <1>4
  <1> DEFINE F(u, A) == [c \in {u[j].col : j \in A} |-> pgTypeToGo(u[Latest(LinesOf(u, A, c))].type)]
  <1>6. ColumnsAt(r, R) = F(r, R) /\ ColumnsAt(q, S) = F(q, S)
    BY DEF ColumnsAt, LinesOf
  <1>7. ASSUME NEW c, n \notin R \/ c # l.col, c \in {q[j].col : j \in S}
        PROVE  r[Latest(LinesOf(r, R, c))] = q[Latest(LinesOf(q, S, c))]
    <2>1. PICK T : T = LinesOf(q, S, c)
      OBVIOUS
    <2>2. LinesOf(r, R, c) = T
      BY <1>3, <1>4, <1>5, <1>7, <2>1 DEF LinesOf
    <2>3. T \subseteq S /\ T # {}
      BY <1>7, <2>1 DEF LinesOf
    <2>4. T \subseteq 1 .. Len(q)
      BY <1>4, <2>3
    <2>5. Latest(T) \in T
      BY <1>3, <2>3, <2>4, LatestIs
    <2> QED
      BY <1>5, <2>1, <2>2, <2>3, <2>5
  <1>8. CASE n \notin R
    <2>1. R = S
      BY <1>4, <1>8
    <2>2. {r[j].col : j \in R} = {q[j].col : j \in S}
      BY <1>5, <2>1
    <2>3. F(r, R) = F(q, S)
      BY <1>7, <1>8, <2>2
    <2> QED
      BY <1>1, <1>2, <1>6, <1>8, <2>3
  <1>9. CASE n \in R
    <2>1. {r[j].col : j \in R} = {q[j].col : j \in S} \cup {l.col}
      <3>1. R = S \cup {n}
        BY <1>4, <1>9
      <3> QED
        BY <1>3, <1>5, <3>1
    <2>2. r[Latest(LinesOf(r, R, l.col))] = l
      <3>1. PICK T : T = LinesOf(r, R, l.col)
        OBVIOUS
      <3>2. n \in T /\ T \subseteq R
        BY <1>3, <1>9, <3>1 DEF LinesOf
      <3>3. T \subseteq Nat /\ \A j \in T : j <= n
        BY <1>3, <1>4, <1>5, <3>2
      <3>4. Latest(T) = n
        BY <3>2, <3>3, LatestOne
      <3> QED
        BY <1>3, <3>1, <3>4
    <2>3. F(r, R) = With(F(q, S), l.col, pgTypeToGo(l.type))
      <3>1. PICK D : D = {q[j].col : j \in S}
        OBVIOUS
      <3>2. DOMAIN F(q, S) = D /\ \A c \in D : F(q, S)[c] = pgTypeToGo(q[Latest(LinesOf(q, S, c))].type)
        BY <3>1
      <3>3. With(F(q, S), l.col, pgTypeToGo(l.type))
            = [c \in D \cup {l.col} |-> IF c = l.col THEN pgTypeToGo(l.type)
                  ELSE pgTypeToGo(q[Latest(LinesOf(q, S, c))].type)]
        BY <3>2 DEF With
      <3>4. F(r, R) = [c \in D \cup {l.col} |-> pgTypeToGo(r[Latest(LinesOf(r, R, c))].type)]
        BY <2>1, <3>1
      <3>5. \A c \in D \cup {l.col} : pgTypeToGo(r[Latest(LinesOf(r, R, c))].type)
                = IF c = l.col THEN pgTypeToGo(l.type)
                  ELSE pgTypeToGo(q[Latest(LinesOf(q, S, c))].type)
        BY <1>7, <2>2, <3>1
      <3> HIDE DEF F
      <3> QED
        BY <3>3, <3>4, <3>5
    <2> QED
      BY <1>1, <1>2, <1>6, <1>9, <2>3
  <1> QED
    BY <1>8, <1>9

\* A sequence of elements of A is one of elements of B.
LEMMA SeqWider ==
    ASSUME NEW A, NEW B, A \subseteq B, NEW s \in Seq(A)
    PROVE  s \in Seq(B)
  OBVIOUS

\* The end of a longer sequence.
LEMMA ConcatAppend ==
    ASSUME NEW V, NEW s \in Seq(V), NEW t \in Seq(V), NEW x \in V
    PROVE  s \o Append(t, x) = Append(s \o t, x) /\ s \o <<>> = s
  OBVIOUS

\* No lines have no names.
LEMMA NamesNone ==
    ASSUME NEW q \in Seq(DDLLines)
    PROVE  Names(Lines(q, {})) = <<>>
  <1>1. PICK s : s = Lines(q, {})
    OBVIOUS
  <1>2. Len(q) \in Nat
    OBVIOUS
  <1>3. PICK X : X = {q[j] : j \in {} \cap (1 .. Len(q))}
    OBVIOUS
  <1>4. s \in Seq(X) /\ X = {}
    BY <1>1, <1>2, <1>3, LinesSeq
  <1>5. DOMAIN s = {}
    BY <1>4
  <1>6. DOMAIN Names(s) = {} /\ Names(s) = [k \in DOMAIN Names(s) |-> Names(s)[k]]
    BY <1>5 DEF Names
  <1> QED
    BY <1>1, <1>6

\* The primary key.
LEMMA PrimaryKeyStep ==
    ASSUME NEW q \in Seq(DDLLines), NEW l \in DDLLines, NEW P, NEW P1, Extends(q, P, P1),
           NEW K, NEW K1, Extends(q, K, K1), Len(q) + 1 \notin P1 \cap K1
    PROVE  PrimaryKeyAt(Append(q, l), P1, K1) =
               IF Len(q) + 1 \in P1 THEN l.cols
               ELSE IF Len(q) + 1 \in K1 THEN Append(PrimaryKeyAt(q, P, K), l.col)
               ELSE PrimaryKeyAt(q, P, K)
  <1>1. PICK r : r = Append(q, l)
    OBVIOUS
  <1>2. PICK n : n = Len(q) + 1
    OBVIOUS
  <1>3. /\ Len(q) \in Nat /\ n \in Nat /\ r[n] = l /\ \A k \in 1 .. Len(q) : r[k] = q[k]
        /\ r \in Seq(DDLLines)
    BY <1>1, <1>2
  <1>4. /\ P \subseteq 1 .. Len(q) /\ \A k \in P1 : k \in Nat /\ (k \in P \/ k = n)
        /\ K \subseteq 1 .. Len(q) /\ \A k \in K1 : k \in Nat /\ k <= n /\ (k \in K \/ k = n)
        /\ P \subseteq P1 /\ K \subseteq K1
    BY <1>2, <1>3 DEF Extends
  <1>5. CASE n \in P1
    <2>1. P1 \subseteq Nat /\ \A k \in P1 : k <= n
      BY <1>2, <1>3, <1>4
    <2>2. Latest(P1) = n
      BY <1>5, <2>1, LatestOne
    <2>3. {j \in K1 : j > n} = {}
      <3>1. \A j \in K1 : j \in Nat /\ j <= n
        BY <1>4
      <3>2. \A j \in K1 : ~(j > n)
        BY <1>3, <3>1
      <3> QED
        BY <3>2
    <2>4. Names(Lines(r, {})) = <<>>
      BY <1>3, NamesNone
    <2>5. l.cols \in Seq(STRING)
      BY DDLLinesAssumption
    <2>6. PrimaryKeyAt(r, P1, K1) = l.cols \o <<>>
      BY <1>3, <1>5, <2>2, <2>3, <2>4 DEF PrimaryKeyAt
    <2>7. PrimaryKeyAt(r, P1, K1) = l.cols
      BY <2>5, <2>6
    <2> QED
      BY <1>1, <1>2, <1>5, <2>7
  <1>6. CASE n \notin P1 /\ P = {}
    <2>1. P1 = {}
      BY <1>4, <1>6
    <2>2. PrimaryKeyAt(r, P1, K1) = Names(Lines(r, K1)) /\ PrimaryKeyAt(q, P, K) = Names(Lines(q, K))
      BY <1>6, <2>1 DEF PrimaryKeyAt
    <2> QED
      BY <1>1, <1>2, <1>6, <2>2, NamesStep
  <1>7. CASE n \notin P1 /\ P # {}
    <2>1. P1 = P
      BY <1>4, <1>7
    <2>2. PICK p : p = Latest(P)
      OBVIOUS
    <2>3. p \in P
      BY <1>3, <1>4, <1>7, <2>2, LatestIs
    <2>4. p \in 1 .. Len(q) /\ r[p] = q[p] /\ p \in Nat
      BY <1>3, <1>4, <2>3
    <2>5. PICK A : A = {j \in K : j > p}
      OBVIOUS
    <2>6. PICK B : B = {j \in K1 : j > p}
      OBVIOUS
    <2>7. Extends(q, A, B) /\ (n \in B <=> n \in K1)
      <3>1. n > p
        BY <1>2, <1>3, <2>4
      <3> QED
        BY <2>5, <2>6, <3>1 DEF Extends
    <2>8. PICK N : N = Names(Lines(q, A))
      OBVIOUS
    <2>9. Names(Lines(r, B)) = IF n \in B THEN Append(N, l.col) ELSE N
      BY <1>1, <1>2, <2>7, <2>8, NamesStep
    <2>10. /\ PrimaryKeyAt(q, P, K) = q[p].cols \o N
           /\ PrimaryKeyAt(r, P1, K1) = q[p].cols \o Names(Lines(r, B))
      BY <1>7, <2>1, <2>2, <2>4, <2>5, <2>6, <2>8 DEF PrimaryKeyAt
    <2>11. PICK V : V = STRING \cup {d.col : d \in DDLLines}
      OBVIOUS
    <2>12. N \in Seq(V) /\ l.col \in V
      <3>1. PICK s : s = Lines(q, A)
        OBVIOUS
      <3>2. s \in Seq(DDLLines)
        BY <3>1, LinesTyped
      <3>3. N = [k \in DOMAIN s |-> s[k].col] /\ \A d \in DDLLines : d.col \in V
        BY <2>8, <2>11, <3>1 DEF Names
      <3> QED
        BY <3>2, <3>3
    <2>13. q[p].cols \in Seq(V)
      <3>1. q[p] \in DDLLines
        BY <2>4
      <3>2. q[p].cols \in Seq(STRING) /\ STRING \subseteq V
        BY <2>11, <3>1, DDLLinesAssumption
      <3> QED
        BY <3>2, SeqWider
    <2>14. q[p].cols \o Append(N, l.col) = Append(q[p].cols \o N, l.col)
      <3>1. PICK s : s = q[p].cols
        OBVIOUS
      <3>2. s \o Append(N, l.col) = Append(s \o N, l.col)
        <4>1. s \in Seq(V) /\ N \in Seq(V) /\ l.col \in V
          BY <2>12, <2>13, <3>1
        <4> QED
          BY ONLY <4>1, ConcatAppend
      <3> QED
        BY <3>1, <3>2
    <2> QED
      BY <1>1, <1>2, <1>7, <2>7, <2>9, <2>10, <2>14
  <1> QED
    BY <1>5, <1>6, <1>7

\* Nothing has ended the statement that begins at line i.
Ends == {"create", "close", "eof"}
Open(q, i) == \A k \in i + 1 .. Len(q) : q[k].kind \notin Ends

\* The line belongs to the statement that it finds open.
LEMMA BodyStep ==
    ASSUME NEW q \in Seq(DDLLines), NEW l \in DDLLines, NEW i \in 1 .. Len(q)
    PROVE  LET r == Append(q, l) IN
           /\ Body(q, i) \subseteq i + 1 .. Len(q) /\ Body(r, i) \subseteq i + 1 .. Len(q) + 1
           /\ \A j \in 1 .. Len(q) : j \in Body(q, i) <=> j \in Body(r, i)
           /\ Len(q) + 1 \in Body(r, i) <=> Open(q, i) /\ l.kind \notin Ends
  <1>1. PICK r : r = Append(q, l)
    OBVIOUS
  <1>2. /\ Len(q) \in Nat /\ Len(r) = Len(q) + 1 /\ r[Len(q) + 1] = l
        /\ \A k \in 1 .. Len(q) : r[k] = q[k]
    BY <1>1
  <1>3. ASSUME NEW j \in 1 .. Len(q) PROVE j \in Body(q, i) <=> j \in Body(r, i)
    <2>1. \A k \in i + 1 .. j : k \in 1 .. Len(q) /\ r[k] = q[k]
      BY <1>2
    <2>2. j \in i + 1 .. Len(q) <=> j \in i + 1 .. Len(r)
      BY <1>2
    <2> QED
      BY <2>1, <2>2 DEF Body
  <1>4. Len(q) + 1 \in Body(r, i) <=> Open(q, i) /\ l.kind \notin Ends
    <2>1. Len(q) + 1 \in i + 1 .. Len(r)
      BY <1>2
    <2>2. Len(q) + 1 \in Body(r, i) <=> \A k \in i + 1 .. Len(q) + 1 : r[k].kind \notin Ends
      BY <2>1 DEF Body, Ends
    <2>3. \A k \in i + 1 .. Len(q) + 1 : k = Len(q) + 1 \/ (k \in i + 1 .. Len(q) /\ r[k] = q[k])
      BY <1>2
    <2>4. \A k \in i + 1 .. Len(q) : k \in i + 1 .. Len(q) + 1 /\ r[k] = q[k]
      BY <1>2
    <2>5. Len(q) + 1 \in i + 1 .. Len(q) + 1
      BY <1>2
    <2> QED
      BY <1>2, <2>2, <2>3, <2>4, <2>5 DEF Open
  <1>5. Body(q, i) \subseteq i + 1 .. Len(q) /\ Body(r, i) \subseteq i + 1 .. Len(q) + 1
    BY <1>2 DEF Body
  <1> QED
    BY <1>1, <1>3, <1>4, <1>5

\* The lines that a table's columns, keys and indexes are read from.
KeyLines(q, i) == {j \in Of(q, i, "column") : q[j].pk}
RefLines(q, i) == {j \in Of(q, i, "column") : q[j].ref # None} \cup Of(q, i, "foreign")
IndexLines(q, i) ==
    {j \in Of(q, i, "column") : q[j].uniq /\ ~q[j].pk} \cup Of(q, i, "unique")
    \cup {j \in i + 1 .. Len(q) : q[j].kind = "index" /\ q[j].table = q[i].table}

\* l is read as a line of this kind of the statement at i.
Reads(q, i, l, kind) == Open(q, i) /\ l.kind \notin Ends /\ l.kind = kind

\* The lines of one kind.
LEMMA OfStep ==
    ASSUME NEW q \in Seq(DDLLines), NEW l \in DDLLines, NEW i \in 1 .. Len(q), NEW kind
    PROVE  LET r == Append(q, l) IN
           /\ Extends(q, Of(q, i, kind), Of(r, i, kind))
           /\ Len(q) + 1 \in Of(r, i, kind) <=> Reads(q, i, l, kind)
  <1>1. PICK r : r = Append(q, l)
    OBVIOUS
  <1>2. PICK n : n = Len(q) + 1
    OBVIOUS
  <1>3. Len(q) \in Nat /\ r[n] = l /\ \A k \in 1 .. Len(q) : r[k] = q[k]
    BY <1>1, <1>2
  <1>4. /\ Body(q, i) \subseteq i + 1 .. Len(q) /\ Body(r, i) \subseteq i + 1 .. n
        /\ \A j \in 1 .. Len(q) : j \in Body(q, i) <=> j \in Body(r, i)
        /\ n \in Body(r, i) <=> Open(q, i) /\ l.kind \notin Ends
    BY <1>1, <1>2, BodyStep
  <1>5. i + 1 .. Len(q) \subseteq 1 .. Len(q) /\ i + 1 .. n \subseteq 1 .. n
    BY <1>2, <1>3
  <1>6. Extends(q, Of(q, i, kind), Of(r, i, kind))
    BY <1>2, <1>3, <1>4, <1>5 DEF Extends, Of
  <1>7. n \in Of(r, i, kind) <=> Reads(q, i, l, kind)
    BY <1>3, <1>4 DEF Of, Reads
  <1> QED
    BY <1>1, <1>2, <1>6, <1>7

\* The lines of each part.
LEMMA PartsStep ==
    ASSUME NEW q \in Seq(DDLLines), NEW l \in DDLLines, NEW i \in 1 .. Len(q)
    PROVE  LET r == Append(q, l) n == Len(q) + 1 IN
           /\ Extends(q, KeyLines(q, i), KeyLines(r, i))
           /\ n \in KeyLines(r, i) <=> Reads(q, i, l, "column") /\ l.pk
           /\ Extends(q, RefLines(q, i), RefLines(r, i))
           /\ n \in RefLines(r, i) <=>
                 Reads(q, i, l, "foreign") \/ (Reads(q, i, l, "column") /\ l.ref # None)
           /\ Extends(q, IndexLines(q, i), IndexLines(r, i))
           /\ n \in IndexLines(r, i) <=>
                 \/ Reads(q, i, l, "unique") \/ (Reads(q, i, l, "column") /\ l.uniq /\ ~l.pk)
                 \/ l.kind = "index" /\ l.table = q[i].table
  <1>1. PICK r : r = Append(q, l)
    OBVIOUS
  <1>2. PICK n : n = Len(q) + 1
    OBVIOUS
  <1>3. /\ Len(q) \in Nat /\ Len(r) = n /\ r[n] = l /\ r[i] = q[i]
        /\ \A k \in 1 .. Len(q) : r[k] = q[k]
    BY <1>1, <1>2
  <1>4. ASSUME NEW kind
        PROVE  /\ Of(q, i, kind) \subseteq 1 .. Len(q) /\ Of(r, i, kind) \subseteq 1 .. n
               /\ \A k \in 1 .. Len(q) : k \in Of(q, i, kind) <=> k \in Of(r, i, kind)
               /\ n \in Of(r, i, kind) <=> Reads(q, i, l, kind)
    BY <1>1, <1>2, OfStep DEF Extends
  <1>5. /\ Extends(q, KeyLines(q, i), KeyLines(r, i))
        /\ n \in KeyLines(r, i) <=> Reads(q, i, l, "column") /\ l.pk
    BY <1>2, <1>3, <1>4 DEF Extends, KeyLines
  <1>6. /\ Extends(q, RefLines(q, i), RefLines(r, i))
        /\ n \in RefLines(r, i) <=>
              Reads(q, i, l, "foreign") \/ (Reads(q, i, l, "column") /\ l.ref # None)
    BY <1>2, <1>3, <1>4 DEF Extends, RefLines
  <1>7. /\ Extends(q, IndexLines(q, i), IndexLines(r, i))
        /\ n \in IndexLines(r, i) <=>
              \/ Reads(q, i, l, "unique") \/ (Reads(q, i, l, "column") /\ l.uniq /\ ~l.pk)
              \/ l.kind = "index" /\ l.table = q[i].table
    <2> DEFINE Ix(u) == {j \in i + 1 .. Len(u) : u[j].kind = "index" /\ u[j].table = u[i].table}
    <2>1. /\ Ix(q) \subseteq 1 .. Len(q) /\ Ix(r) \subseteq 1 .. n
          /\ \A k \in 1 .. Len(q) : k \in Ix(q) <=> k \in Ix(r)
          /\ n \in Ix(r) <=> l.kind = "index" /\ l.table = q[i].table
      BY <1>2, <1>3
    <2>2. /\ IndexLines(q, i) = {j \in Of(q, i, "column") : q[j].uniq /\ ~q[j].pk}
                                \cup Of(q, i, "unique") \cup Ix(q)
          /\ IndexLines(r, i) = {j \in Of(r, i, "column") : r[j].uniq /\ ~r[j].pk}
                                \cup Of(r, i, "unique") \cup Ix(r)
      BY DEF IndexLines
    <2> HIDE DEF Ix
    <2>3. Extends(q, IndexLines(q, i), IndexLines(r, i))
      BY <1>2, <1>3, <1>4, <2>1, <2>2 DEF Extends
    <2>4. n \in IndexLines(r, i) <=>
              \/ Reads(q, i, l, "unique") \/ (Reads(q, i, l, "column") /\ l.uniq /\ ~l.pk)
              \/ l.kind = "index" /\ l.table = q[i].table
      BY <1>3, <1>4, <2>1, <2>2
    <2> QED
      BY <2>3, <2>4
  <1> QED
    BY <1>1, <1>2, <1>5, <1>6, <1>7

\* The table t of the statement at i of q, with what the line l adds.
Extended(q, i, t, l) ==
    [Columns |-> IF Reads(q, i, l, "column") THEN With(t.Columns, l.col, pgTypeToGo(l.type))
                 ELSE t.Columns,
     ColumnOrder |-> IF Reads(q, i, l, "column") THEN Append(t.ColumnOrder, l.col)
                     ELSE t.ColumnOrder,
     ForeignKeys |-> IF Reads(q, i, l, "foreign") \/ (Reads(q, i, l, "column") /\ l.ref # None)
                     THEN Append(t.ForeignKeys, ForeignKey(l.col, l.ref, "id"))
                     ELSE t.ForeignKeys,
     Indexes |-> IF \/ Reads(q, i, l, "unique") \/ (Reads(q, i, l, "column") /\ l.uniq /\ ~l.pk)
                    \/ l.kind = "index" /\ l.table = q[i].table
                 THEN Append(t.Indexes, IndexOf(l)) ELSE t.Indexes,
     PrimaryKey |-> IF Reads(q, i, l, "primary") THEN l.cols
                    ELSE IF Reads(q, i, l, "column") /\ l.pk THEN Append(t.PrimaryKey, l.col)
                    ELSE t.PrimaryKey]

\* DeclaredAt, part by part.
LEMMA DeclaredParts ==
    ASSUME NEW q, NEW i
    PROVE  DeclaredAt(q, i) =
               [Columns |-> ColumnsAt(q, Of(q, i, "column")),
                ColumnOrder |-> Names(Lines(q, Of(q, i, "column"))),
                ForeignKeys |-> ForeignKeysAt(q, RefLines(q, i)),
                Indexes |-> IndexesAt(q, IndexLines(q, i)),
                PrimaryKey |-> PrimaryKeyAt(q, Of(q, i, "primary"), KeyLines(q, i))]
  BY Zenon DEF DeclaredAt, RefLines, IndexLines, KeyLines

\* One more line adds to a table what is read off it.
LEMMA DeclaredStep ==
    ASSUME NEW q \in Seq(DDLLines), NEW l \in DDLLines, NEW i \in 1 .. Len(q)
    PROVE  DeclaredAt(Append(q, l), i) = Extended(q, i, DeclaredAt(q, i), l)
  <1>1. PICK r : r = Append(q, l)
    OBVIOUS
  <1>2. PICK n : n = Len(q) + 1
    OBVIOUS
  <1>3. PICK t : t = DeclaredAt(q, i)
    OBVIOUS
  <1>4. /\ t.Columns = ColumnsAt(q, Of(q, i, "column"))
        /\ t.ColumnOrder = Names(Lines(q, Of(q, i, "column")))
        /\ t.ForeignKeys = ForeignKeysAt(q, RefLines(q, i))
        /\ t.Indexes = IndexesAt(q, IndexLines(q, i))
        /\ t.PrimaryKey = PrimaryKeyAt(q, Of(q, i, "primary"), KeyLines(q, i))
    BY <1>3, DeclaredParts
  <1>5. \A kind : Extends(q, Of(q, i, kind), Of(r, i, kind))
                  /\ (n \in Of(r, i, kind) <=> Reads(q, i, l, kind))
    BY <1>1, <1>2, OfStep
  <1>6. /\ Extends(q, KeyLines(q, i), KeyLines(r, i))
        /\ n \in KeyLines(r, i) <=> Reads(q, i, l, "column") /\ l.pk
        /\ Extends(q, RefLines(q, i), RefLines(r, i))
        /\ n \in RefLines(r, i) <=>
              Reads(q, i, l, "foreign") \/ (Reads(q, i, l, "column") /\ l.ref # None)
        /\ Extends(q, IndexLines(q, i), IndexLines(r, i))
        /\ n \in IndexLines(r, i) <=>
              \/ Reads(q, i, l, "unique") \/ (Reads(q, i, l, "column") /\ l.uniq /\ ~l.pk)
              \/ l.kind = "index" /\ l.table = q[i].table
    BY <1>1, <1>2, PartsStep
  <1>7. ColumnsAt(r, Of(r, i, "column")) =
            IF Reads(q, i, l, "column") THEN With(t.Columns, l.col, pgTypeToGo(l.type))
            ELSE t.Columns
    BY <1>1, <1>2, <1>4, <1>5, ColumnsStep
  <1>8. Names(Lines(r, Of(r, i, "column"))) =
            IF Reads(q, i, l, "column") THEN Append(t.ColumnOrder, l.col) ELSE t.ColumnOrder
    BY <1>1, <1>2, <1>4, <1>5, NamesStep
  <1>9. ForeignKeysAt(r, RefLines(r, i)) =
            IF Reads(q, i, l, "foreign") \/ (Reads(q, i, l, "column") /\ l.ref # None)
            THEN Append(t.ForeignKeys, ForeignKey(l.col, l.ref, "id")) ELSE t.ForeignKeys
    BY <1>1, <1>2, <1>4, <1>6, ForeignKeysStep
  <1>10. IndexesAt(r, IndexLines(r, i)) =
            IF \/ Reads(q, i, l, "unique") \/ (Reads(q, i, l, "column") /\ l.uniq /\ ~l.pk)
               \/ l.kind = "index" /\ l.table = q[i].table
            THEN Append(t.Indexes, IndexOf(l)) ELSE t.Indexes
    BY <1>1, <1>2, <1>4, <1>6, IndexesStep
  <1>11. PrimaryKeyAt(r, Of(r, i, "primary"), KeyLines(r, i)) =
            IF Reads(q, i, l, "primary") THEN l.cols
            ELSE IF Reads(q, i, l, "column") /\ l.pk THEN Append(t.PrimaryKey, l.col)
            ELSE t.PrimaryKey
    <2>1. ~(n \in Of(r, i, "primary") /\ n \in KeyLines(r, i))
      BY <1>5, <1>6 DEF Reads
    <2> QED
      BY <1>1, <1>2, <1>4, <1>5, <1>6, <2>1, PrimaryKeyStep
  <1>12. DeclaredAt(r, i) =
               [Columns |-> ColumnsAt(r, Of(r, i, "column")),
                ColumnOrder |-> Names(Lines(r, Of(r, i, "column"))),
                ForeignKeys |-> ForeignKeysAt(r, RefLines(r, i)),
                Indexes |-> IndexesAt(r, IndexLines(r, i)),
                PrimaryKey |-> PrimaryKeyAt(r, Of(r, i, "primary"), KeyLines(r, i))]
    BY DeclaredParts
  <1>13. DeclaredAt(r, i) = Extended(q, i, t, l)
    BY <1>7, <1>8, <1>9, <1>10, <1>11, <1>12, Zenon DEF Extended
  <1> QED
    BY <1>1, <1>3, <1>13

\* A line that the statement does not read leaves its table as it is.
LEMMA DeclaredSame ==
    ASSUME NEW q \in Seq(DDLLines), NEW l \in DDLLines, NEW i \in 1 .. Len(q),
           ~Open(q, i) \/ l.kind \notin {"column", "foreign", "unique", "primary"},
           ~(l.kind = "index" /\ l.table = q[i].table)
    PROVE  DeclaredAt(Append(q, l), i) = DeclaredAt(q, i)
  <1>1. PICK t : t = DeclaredAt(q, i)
    OBVIOUS
  <1>2. \A kind \in {"column", "foreign", "unique", "primary"} : ~Reads(q, i, l, kind)
    BY DEF Reads
  <1>3. Extended(q, i, t, l) = [Columns |-> t.Columns, ColumnOrder |-> t.ColumnOrder,
            ForeignKeys |-> t.ForeignKeys, Indexes |-> t.Indexes, PrimaryKey |-> t.PrimaryKey]
    BY <1>2 DEF Extended
  <1>4. Extended(q, i, t, l) = t
    BY <1>1, <1>3, DeclaredParts
  <1> QED
    BY <1>1, <1>4, DeclaredStep

\* A statement that has just begun declares an empty table.
LEMMA DeclaredNew ==
    ASSUME NEW q \in Seq(DDLLines), NEW l \in DDLLines
    PROVE  DeclaredAt(Append(q, l), Len(q) + 1) = NewTable
  <1>1. PICK r : r = Append(q, l)
    OBVIOUS
  <1>2. PICK n : n = Len(q) + 1
    OBVIOUS
  <1>3. r \in Seq(DDLLines) /\ Len(r) = n /\ n \in Nat
    BY <1>1, <1>2
  <1>4. n + 1 .. Len(r) = {}
    BY <1>3
  <1>5. \A kind : Of(r, n, kind) = {}
    BY <1>4 DEF Of, Body
  <1>6. KeyLines(r, n) = {} /\ RefLines(r, n) = {} /\ IndexLines(r, n) = {}
    BY <1>4, <1>5 DEF KeyLines, RefLines, IndexLines
  <1>7. Names(Lines(r, {})) = <<>>
    BY <1>3, NamesNone
  <1>8. DOMAIN Lines(r, {}) = {}
    <2>1. DOMAIN Names(Lines(r, {})) = {}
      BY <1>7
    <2> QED
      BY <2>1 DEF Names
  <1>9. ForeignKeysAt(r, {}) = <<>> /\ IndexesAt(r, {}) = <<>>
    <2>1. PICK f : f = ForeignKeysAt(r, {})
      OBVIOUS
    <2>2. DOMAIN f = {} /\ f = [k \in DOMAIN f |-> f[k]]
      BY <1>8, <2>1 DEF ForeignKeysAt
    <2>3. PICK g : g = IndexesAt(r, {})
      OBVIOUS
    <2>4. DOMAIN g = {} /\ g = [k \in DOMAIN g |-> g[k]]
      BY <1>8, <2>3 DEF IndexesAt
    <2> QED
      BY <2>1, <2>2, <2>3, <2>4
  <1>10. ColumnsAt(r, {}) = <<>>
    <2>1. PICK f : f = ColumnsAt(r, {})
      OBVIOUS
    <2>2. DOMAIN f = {} /\ f = [k \in DOMAIN f |-> f[k]]
      BY <2>1 DEF ColumnsAt
    <2> QED
      BY <2>1, <2>2
  <1>11. PrimaryKeyAt(r, {}, {}) = <<>>
    BY <1>7 DEF PrimaryKeyAt
  <1>12. DeclaredAt(r, n) =
               [Columns |-> ColumnsAt(r, {}), ColumnOrder |-> Names(Lines(r, {})),
                ForeignKeys |-> ForeignKeysAt(r, {}), Indexes |-> IndexesAt(r, {}),
                PrimaryKey |-> PrimaryKeyAt(r, {}, {})]
    BY <1>5, <1>6, DeclaredParts
  <1>13. DeclaredAt(r, n) = NewTable
    BY <1>7, <1>9, <1>10, <1>11, <1>12 DEF NewTable
  <1> QED
    BY <1>1, <1>2, <1>13

-----------------------------------------------------------------------------
(* The tables of a text.                                                   *)

LatestOf(q, t) == Latest({i \in Creates(q) : q[i].table = t})

\* ts are the tables that q declares and cur is the one left open.
Reading(q, ts, cur) ==
    /\ DOMAIN ts = {q[i].table : i \in Creates(q)}
    /\ \A t \in DOMAIN ts : ts[t] = Declared(q, t)
    /\ \A i \in Creates(q) : Open(q, i) => q[i].table = cur
    /\ cur # "" => \E i \in Creates(q) : Open(q, i)

\* The statement that counts for a table.
LEMMA LatestOfIs ==
    ASSUME NEW q \in Seq(DDLLines), NEW c \in Creates(q)
    PROVE  LET i == LatestOf(q, q[c].table) IN
           /\ i \in Creates(q) /\ i \in 1 .. Len(q) /\ q[i].table = q[c].table /\ c <= i
           /\ Open(q, c) => i = c
  <1>1. PICK S : S = {k \in Creates(q) : q[k].table = q[c].table}
    OBVIOUS
  <1>2. PICK i : i = Latest(S)
    OBVIOUS
  <1>3. Len(q) \in Nat /\ c \in S /\ S \subseteq 1 .. Len(q)
    BY <1>1 DEF Creates
  <1>4. i \in S /\ \A j \in S : j <= i
    BY <1>2, <1>3, LatestIs
  <1>5. i \in Creates(q) /\ i \in 1 .. Len(q) /\ q[i].table = q[c].table /\ c <= i
    BY <1>1, <1>3, <1>4
  <1>6. ASSUME Open(q, c) PROVE i = c
    <2>1. q[i].kind = "create"
      BY <1>5 DEF Creates
    <2>2. i \notin c + 1 .. Len(q)
      BY <1>6, <2>1 DEF Open, Ends
    <2> QED
      BY <1>3, <1>5, <2>2
  <1> QED
    BY <1>1, <1>2, <1>5, <1>6 DEF LatestOf

\* A table is one that a statement creates.
LEMMA TableIs ==
    ASSUME NEW q \in Seq(DDLLines), NEW ts, NEW cur, Reading(q, ts, cur), NEW t \in DOMAIN ts
    PROVE  LET i == LatestOf(q, t) IN
           /\ i \in Creates(q) /\ i \in 1 .. Len(q) /\ q[i].table = t /\ ts[t] = DeclaredAt(q, i)
           /\ t # cur => ~Open(q, i)
           /\ \A c \in Creates(q) : Open(q, c) /\ t = cur => i = c
  <1>1. PICK c \in Creates(q) : t = q[c].table
    BY DEF Reading
  <1>2. PICK i : i = LatestOf(q, t)
    OBVIOUS
  <1>3. i \in Creates(q) /\ i \in 1 .. Len(q) /\ q[i].table = t
    BY <1>1, <1>2, LatestOfIs
  <1>4. ts[t] = DeclaredAt(q, i)
    BY <1>2 DEF Reading, Declared, LatestOf
  <1>5. t # cur => ~Open(q, i)
    BY <1>3 DEF Reading
  <1>6. ASSUME NEW d \in Creates(q), Open(q, d), t = cur PROVE i = d
    <2>1. q[d].table = t
      BY <1>6 DEF Reading
    <2> QED
      BY <1>2, <1>6, <2>1, LatestOfIs
  <1> QED
    BY <1>2, <1>3, <1>4, <1>5, <1>6

\* What ends a statement and what does not.
LEMMA OpenStep ==
    ASSUME NEW q \in Seq(DDLLines), NEW l \in DDLLines, NEW i \in 1 .. Len(q)
    PROVE  Open(Append(q, l), i) <=> Open(q, i) /\ l.kind \notin Ends
  <1>1. PICK r : r = Append(q, l)
    OBVIOUS
  <1>2. /\ Len(q) \in Nat /\ Len(r) = Len(q) + 1 /\ r[Len(q) + 1] = l
        /\ \A k \in 1 .. Len(q) : r[k] = q[k]
    BY <1>1
  <1>3. \A k \in i + 1 .. Len(r) : k = Len(q) + 1 \/ (k \in i + 1 .. Len(q) /\ r[k] = q[k])
    BY <1>2
  <1>4. \A k \in i + 1 .. Len(q) : k \in i + 1 .. Len(r) /\ r[k] = q[k]
    BY <1>2
  <1>5. Len(q) + 1 \in i + 1 .. Len(r)
    BY <1>2
  <1>6. Open(r, i) <=> Open(q, i) /\ l.kind \notin Ends
    BY <1>2, <1>3, <1>4, <1>5 DEF Open
  <1> QED
    BY <1>1, <1>6

\* The statements after one more line.
LEMMA CreatesStep ==
    ASSUME NEW q \in Seq(DDLLines), NEW l \in DDLLines
    PROVE  LET r == Append(q, l) IN
           /\ Creates(r) = IF l.kind = "create" THEN Creates(q) \cup {Len(q) + 1} ELSE Creates(q)
           /\ \A i \in Creates(q) : i \in 1 .. Len(q) /\ r[i] = q[i]
           /\ r[Len(q) + 1] = l
  <1>1. PICK r : r = Append(q, l)
    OBVIOUS
  <1>2. /\ Len(q) \in Nat /\ Len(r) = Len(q) + 1 /\ r[Len(q) + 1] = l
        /\ \A k \in 1 .. Len(q) : r[k] = q[k]
    BY <1>1
  <1>3. 1 .. Len(r) = (1 .. Len(q)) \cup {Len(q) + 1}
    BY <1>2
  <1>4. Creates(r) = IF l.kind = "create" THEN Creates(q) \cup {Len(q) + 1} ELSE Creates(q)
    BY <1>2, <1>3 DEF Creates
  <1> QED
    BY <1>1, <1>2, <1>4 DEF Creates

\* A line that creates no table.
LEMMA LineRead ==
    ASSUME NEW q \in Seq(DDLLines), NEW l \in DDLLines, l.kind # "create",
           NEW ts, NEW cur, Reading(q, ts, cur),
           NEW ts1, DOMAIN ts1 = DOMAIN ts,
           \A t \in DOMAIN ts : ts1[t] = DeclaredAt(Append(q, l), LatestOf(q, t)),
           NEW cur1, cur1 = IF l.kind \in Ends THEN "" ELSE cur
    PROVE  Reading(Append(q, l), ts1, cur1)
  <1>1. PICK r : r = Append(q, l)
    OBVIOUS
  <1>2. /\ Creates(r) = Creates(q)
        /\ \A i \in Creates(q) : i \in 1 .. Len(q) /\ r[i] = q[i]
    BY <1>1, CreatesStep
  <1>3. \A i \in Creates(q) : Open(r, i) <=> Open(q, i) /\ l.kind \notin Ends
    BY <1>1, <1>2, OpenStep
  <1>4. DOMAIN ts1 = {r[i].table : i \in Creates(r)}
    BY <1>2 DEF Reading
  <1>5. ASSUME NEW t PROVE Declared(r, t) = DeclaredAt(r, LatestOf(q, t))
    <2>1. {i \in Creates(r) : r[i].table = t} = {i \in Creates(q) : q[i].table = t}
      BY <1>2
    <2> QED
      BY <2>1 DEF Declared, LatestOf
  <1>6. \A i \in Creates(r) : Open(r, i) => r[i].table = cur1
    BY <1>2, <1>3 DEF Reading
  <1>7. cur1 # "" => \E i \in Creates(r) : Open(r, i)
    BY <1>2, <1>3 DEF Reading
  <1>8. \A t \in DOMAIN ts1 : ts1[t] = Declared(r, t)
    BY <1>1, <1>5
  <1> QED
    BY <1>1, <1>4, <1>6, <1>7, <1>8 DEF Reading

\* The kinds that a statement reads.
Parts == {"column", "foreign", "unique", "primary"}

\* A table has a name.
LEMMA CreatesNamed ==
    ASSUME NEW q \in Seq(DDLLines), NEW i \in Creates(q)
    PROVE  q[i].table # ""
  <1>1. q[i] \in DDLLines /\ q[i].kind = "create"
    BY DEF Creates
  <1> QED
    BY <1>1, DDLLinesAssumption

\* A line that no table reads.
LEMMA LineSkipped ==
    ASSUME NEW q \in Seq(DDLLines), NEW l \in DDLLines, l.kind # "create",
           NEW ts, NEW cur, Reading(q, ts, cur), cur = "" \/ l.kind \notin Parts,
           ~(l.kind = "index" /\ l.table \in DOMAIN ts),
           NEW cur1, cur1 = IF l.kind \in Ends THEN "" ELSE cur
    PROVE  Reading(Append(q, l), ts, cur1)
  <1>1. ASSUME NEW t \in DOMAIN ts PROVE ts[t] = DeclaredAt(Append(q, l), LatestOf(q, t))
    <2>1. PICK i : i = LatestOf(q, t)
      OBVIOUS
    <2>2. /\ i \in Creates(q) /\ i \in 1 .. Len(q) /\ q[i].table = t /\ ts[t] = DeclaredAt(q, i)
          /\ t # cur => ~Open(q, i)
      BY <2>1, TableIs
    <2>3. t # ""
      BY <2>2, CreatesNamed
    <2>4. ~Open(q, i) \/ l.kind \notin Parts
      BY <2>2, <2>3
    <2>5. ~(l.kind = "index" /\ l.table = q[i].table)
      BY <2>2
    <2>6. DeclaredAt(Append(q, l), i) = DeclaredAt(q, i)
      BY <2>2, <2>4, <2>5, DeclaredSame DEF Parts
    <2> QED
      BY <2>1, <2>2, <2>6
  <1> QED
    BY <1>1, LineRead

\* A line of the open table.
LEMMA LineInTable ==
    ASSUME NEW q \in Seq(DDLLines), NEW l \in DDLLines, l.kind \in Parts,
           NEW ts, NEW cur, Reading(q, ts, cur), NEW c \in Creates(q), Open(q, c)
    PROVE  Reading(Append(q, l), With(ts, cur, Extended(q, c, ts[cur], l)), cur)
  <1>1. PICK r : r = Append(q, l)
    OBVIOUS
  <1>2. PICK new : new = Extended(q, c, ts[cur], l)
    OBVIOUS
  <1>3. l.kind \notin Ends /\ l.kind # "create" /\ l.kind # "index"
    BY DEF Parts, Ends
  <1>4. cur \in DOMAIN ts
    BY DEF Reading
  <1>5. PICK ts1 : ts1 = With(ts, cur, new)
    OBVIOUS
  <1>6. DOMAIN ts1 = DOMAIN ts /\ \A t \in DOMAIN ts : ts1[t] = IF t = cur THEN new ELSE ts[t]
    BY <1>4, <1>5 DEF With
  <1>7. ASSUME NEW t \in DOMAIN ts PROVE ts1[t] = DeclaredAt(r, LatestOf(q, t))
    <2>1. PICK i : i = LatestOf(q, t)
      OBVIOUS
    <2>2. /\ i \in 1 .. Len(q) /\ ts[t] = DeclaredAt(q, i)
          /\ t # cur => ~Open(q, i)
          /\ t = cur => i = c
      BY <2>1, TableIs
    <2>3. CASE t = cur
      <3>1. DeclaredAt(r, c) = Extended(q, c, DeclaredAt(q, c), l)
        BY <1>1, <2>2, <2>3, DeclaredStep
      <3> QED
        BY <1>2, <1>6, <2>1, <2>2, <2>3, <3>1
    <2>4. CASE t # cur
      <3>1. DeclaredAt(r, i) = DeclaredAt(q, i)
        BY <1>1, <1>3, <2>2, <2>4, DeclaredSame
      <3> QED
        BY <1>6, <2>1, <2>2, <2>4, <3>1
    <2> QED
      BY <2>3, <2>4
  <1>8. Reading(Append(q, l), ts1, cur)
    <2>1. \A t \in DOMAIN ts : ts1[t] = DeclaredAt(Append(q, l), LatestOf(q, t))
      BY <1>1, <1>7
    <2> QED
      BY <1>3, <1>6, <2>1, LineRead
  <1> QED
    BY <1>2, <1>5, <1>8

\* A line that creates a table.
LEMMA CreateRead ==
    ASSUME NEW q \in Seq(DDLLines), NEW l \in DDLLines, l.kind = "create",
           NEW ts, NEW cur, Reading(q, ts, cur)
    PROVE  Reading(Append(q, l), With(ts, l.table, NewTable), l.table)
  <1>1. PICK r : r = Append(q, l)
    OBVIOUS
  <1>2. PICK n : n = Len(q) + 1
    OBVIOUS
  <1>3. /\ Creates(r) = Creates(q) \cup {n} /\ r[n] = l
        /\ \A i \in Creates(q) : i \in 1 .. Len(q) /\ r[i] = q[i]
    BY <1>1, <1>2, CreatesStep
  <1>4. Len(r) = n /\ Len(q) \in Nat /\ n \in Nat
    BY <1>1, <1>2
  <1>5. \A i \in Creates(q) : ~Open(r, i)
    BY <1>1, <1>3, OpenStep DEF Ends
  <1>6. Open(r, n)
    <2>1. n + 1 .. Len(r) = {}
      BY <1>4
    <2> QED
      BY <2>1 DEF Open
  <1>7. PICK ts1 : ts1 = With(ts, l.table, NewTable)
    OBVIOUS
  <1>8. /\ DOMAIN ts1 = DOMAIN ts \cup {l.table}
        /\ \A t \in DOMAIN ts1 : ts1[t] = IF t = l.table THEN NewTable ELSE ts[t]
    BY <1>7 DEF With
  <1>9. DOMAIN ts1 = {r[i].table : i \in Creates(r)}
    <2>1. {r[i].table : i \in Creates(r)} = {q[i].table : i \in Creates(q)} \cup {l.table}
      BY <1>3
    <2> QED
      BY <1>8, <2>1 DEF Reading
  <1>10. ASSUME NEW t \in DOMAIN ts1 PROVE ts1[t] = Declared(r, t)
    <2>1. PICK S : S = {i \in Creates(r) : r[i].table = t}
      OBVIOUS
    <2>2. Declared(r, t) = DeclaredAt(r, Latest(S))
      BY <2>1 DEF Declared
    <2>3. CASE t = l.table
      <3>1. n \in S /\ \A i \in S : i = n \/ i \in 1 .. Len(q)
        BY <1>3, <2>1, <2>3
      <3>2. S \subseteq Nat /\ \A i \in S : i <= n
        BY <1>2, <1>4, <3>1
      <3>3. Latest(S) = n
        BY <3>1, <3>2, LatestOne
      <3>4. DeclaredAt(r, n) = NewTable
        BY <1>1, <1>2, DeclaredNew
      <3> QED
        BY <1>8, <2>2, <2>3, <3>3, <3>4
    <2>4. CASE t # l.table
      <3>1. S = {i \in Creates(q) : q[i].table = t}
        BY <1>3, <2>1, <2>4
      <3>2. PICK i : i = LatestOf(q, t)
        OBVIOUS
      <3>3. t \in DOMAIN ts
        BY <1>8, <2>4
      <3>4. i \in 1 .. Len(q) /\ ts[t] = DeclaredAt(q, i)
        BY <3>2, <3>3, TableIs
      <3>5. DeclaredAt(r, i) = DeclaredAt(q, i)
        BY <1>1, <3>4, DeclaredSame
      <3> QED
        BY <1>8, <2>2, <2>4, <3>1, <3>2, <3>4, <3>5 DEF LatestOf
    <2> QED
      BY <2>3, <2>4
  <1>11. \A i \in Creates(r) : Open(r, i) => r[i].table = l.table
    BY <1>3, <1>5
  <1>12. \E i \in Creates(r) : Open(r, i)
    BY <1>3, <1>6
  <1> QED
    BY <1>1, <1>7, <1>9, <1>10, <1>11, <1>12 DEF Reading

\* A text in the dialect has been in it from the start.
LEMMA DialectBefore ==
    ASSUME NEW q \in Seq(DDLLines), NEW l \in DDLLines, Dialect(Append(q, l))
    PROVE  /\ Dialect(q)
           /\ l.kind \in {"index", "unique"} => l.cols # <<>>
           /\ l.kind = "index" => ("UNIQUE" \in l.says <=> l.uniq)
           /\ l.kind = "create" => ~l.if
           /\ \A c \in Creates(q) : Open(q, c) =>
                 /\ AsSpelled(l)
                 /\ l.kind = "column" => l.form # "spaced"
                 /\ l.kind = "foreign" => l.form = "plain"
  <1>1. PICK r : r = Append(q, l)
    OBVIOUS
  <1>2. PICK n : n = Len(q) + 1
    OBVIOUS
  <1>3. /\ Len(q) \in Nat /\ Len(r) = n /\ r[n] = l /\ n \in 1 .. Len(r)
        /\ \A k \in 1 .. Len(q) : r[k] = q[k] /\ k \in 1 .. Len(r)
    BY <1>1, <1>2
  <1>4. /\ Creates(r) = (IF l.kind = "create" THEN Creates(q) \cup {n} ELSE Creates(q))
        /\ \A i \in Creates(q) : i \in 1 .. Len(q) /\ r[i] = q[i]
    BY <1>1, <1>2, CreatesStep
  <1>5. ASSUME NEW i \in Creates(q)
        PROVE  /\ \A j \in Body(q, i) : j \in Body(r, i) /\ r[j] = q[j]
               /\ n \in Body(r, i) <=> Open(q, i) /\ l.kind \notin Ends
    <2>1. i \in 1 .. Len(q)
      BY <1>4
    <2>2. /\ Body(q, i) \subseteq i + 1 .. Len(q)
          /\ \A j \in 1 .. Len(q) : j \in Body(q, i) <=> j \in Body(r, i)
          /\ n \in Body(r, i) <=> Open(q, i) /\ l.kind \notin Ends
      BY <1>1, <1>2, <2>1, BodyStep
    <2>3. i + 1 .. Len(q) \subseteq 1 .. Len(q)
      BY <1>3, <2>1
    <2> QED
      BY <1>3, <2>2, <2>3
  <1>6. /\ \A i \in 1 .. Len(r) :
              /\ r[i].kind \in {"index", "unique"} => r[i].cols # <<>>
              /\ r[i].kind = "index" => ("UNIQUE" \in r[i].says <=> r[i].uniq)
        /\ \A i \in Creates(r) :
              /\ ~r[i].if
              /\ \A j \in Body(r, i) :
                  /\ AsSpelled(r[j])
                  /\ r[j].kind = "column" => r[j].col # "--" /\ r[j].form # "spaced"
                  /\ r[j].kind = "foreign" => r[j].form = "plain"
    BY <1>1 DEF Dialect
  <1>7. Dialect(q)
    <2>1. \A i \in 1 .. Len(q) :
             /\ q[i].kind \in {"index", "unique"} => q[i].cols # <<>>
             /\ q[i].kind = "index" => ("UNIQUE" \in q[i].says <=> q[i].uniq)
      BY <1>3, <1>6
    <2>2. ASSUME NEW i \in Creates(q)
          PROVE  /\ ~q[i].if
                 /\ \A j \in Body(q, i) :
                     /\ AsSpelled(q[j])
                     /\ q[j].kind = "column" => q[j].col # "--" /\ q[j].form # "spaced"
                     /\ q[j].kind = "foreign" => q[j].form = "plain"
      <3>1. i \in Creates(r) /\ r[i] = q[i]
        BY <1>4
      <3> QED
        BY <1>5, <1>6, <3>1
    <2> QED
      BY <2>1, <2>2 DEF Dialect
  <1>8. /\ l.kind \in {"index", "unique"} => l.cols # <<>>
        /\ l.kind = "index" => ("UNIQUE" \in l.says <=> l.uniq)
    BY <1>3, <1>6
  <1>9. l.kind = "create" => ~l.if
    BY <1>3, <1>4, <1>6
  <1>10. ASSUME NEW c \in Creates(q), Open(q, c)
         PROVE  /\ AsSpelled(l)
                /\ l.kind = "column" => l.form # "spaced"
                /\ l.kind = "foreign" => l.form = "plain"
    <2>1. l.kind \notin Ends => n \in Body(r, c) /\ c \in Creates(r)
      BY <1>4, <1>5, <1>10
    <2>2. l.kind \notin Ends =>
             /\ AsSpelled(l)
             /\ l.kind = "column" => l.form # "spaced"
             /\ l.kind = "foreign" => l.form = "plain"
      BY <1>3, <1>6, <2>1
    <2> QED
      BY <2>2 DEF Ends, AsSpelled
  <1> QED
    BY <1>7, <1>8, <1>9, <1>10

\* A table is a record.
Shaped(t) == t = [Columns |-> t.Columns, ColumnOrder |-> t.ColumnOrder, ForeignKeys |-> t.ForeignKeys,
                  Indexes |-> t.Indexes, PrimaryKey |-> t.PrimaryKey]

\* A table with one field replaced.
LEMMA FieldIs ==
    ASSUME NEW t, NEW w, Shaped(t)
    PROVE  /\ [t EXCEPT !.Indexes = w] =
                [Columns |-> t.Columns, ColumnOrder |-> t.ColumnOrder,
                 ForeignKeys |-> t.ForeignKeys, Indexes |-> w, PrimaryKey |-> t.PrimaryKey]
           /\ [t EXCEPT !.ForeignKeys = w] =
                [Columns |-> t.Columns, ColumnOrder |-> t.ColumnOrder,
                 ForeignKeys |-> w, Indexes |-> t.Indexes, PrimaryKey |-> t.PrimaryKey]
           /\ [t EXCEPT !.PrimaryKey = w] =
                [Columns |-> t.Columns, ColumnOrder |-> t.ColumnOrder,
                 ForeignKeys |-> t.ForeignKeys, Indexes |-> t.Indexes, PrimaryKey |-> w]
  BY DEF Shaped

\* A table with one more index, foreign key, primary key or column.
Indexed(t, index) == [t EXCEPT !.Indexes = Append(@, index)]
Referring(t, fk) == [t EXCEPT !.ForeignKeys = Append(@, fk)]
Keyed(t, cols) == [t EXCEPT !.PrimaryKey = cols]
Widened(t, l) ==
    [Columns |-> With(t.Columns, l.col, pgTypeToGo(l.type)),
     ColumnOrder |-> Append(t.ColumnOrder, l.col),
     PrimaryKey |-> IF l.pk THEN Append(t.PrimaryKey, l.col) ELSE t.PrimaryKey,
     Indexes |-> IF l.uniq /\ ~l.pk
                 THEN Append(t.Indexes, Index(<<l.col>>, TRUE)) ELSE t.Indexes,
     ForeignKeys |-> IF l.ref # None
                     THEN Append(t.ForeignKeys, ForeignKey(l.col, l.ref, "id"))
                     ELSE t.ForeignKeys]

\* What the lines of each kind add.
LEMMA ExtendedIs ==
    ASSUME NEW q, NEW i, NEW l, NEW t, Shaped(t)
    PROVE  /\ l.kind = "index" /\ l.table = q[i].table =>
                Extended(q, i, t, l) = Indexed(t, Index(l.cols, l.uniq))
           /\ Open(q, i) /\ l.kind = "foreign" =>
                Extended(q, i, t, l) = Referring(t, ForeignKey(l.col, l.ref, "id"))
           /\ Open(q, i) /\ l.kind = "primary" => Extended(q, i, t, l) = Keyed(t, l.cols)
           /\ Open(q, i) /\ l.kind = "unique" =>
                Extended(q, i, t, l) = Indexed(t, Index(l.cols, TRUE))
           /\ Open(q, i) /\ l.kind = "column" => Extended(q, i, t, l) = Widened(t, l)
  <1>1. ASSUME l.kind = "index", l.table = q[i].table
        PROVE  Extended(q, i, t, l) = Indexed(t, Index(l.cols, l.uniq))
    <2>1. IndexOf(l) = Index(l.cols, l.uniq) /\ \A kind \in Parts : ~Reads(q, i, l, kind)
      BY <1>1 DEF IndexOf, Reads, Parts
    <2>2. PICK w : w = Append(t.Indexes, Index(l.cols, l.uniq))
      OBVIOUS
    <2>3. Extended(q, i, t, l) =
            [Columns |-> t.Columns, ColumnOrder |-> t.ColumnOrder, ForeignKeys |-> t.ForeignKeys,
             Indexes |-> w, PrimaryKey |-> t.PrimaryKey]
      BY <1>1, <2>1, <2>2 DEF Extended, Parts
    <2>4. Indexed(t, Index(l.cols, l.uniq)) = [t EXCEPT !.Indexes = w]
      BY <2>2 DEF Indexed
    <2> QED
      BY <2>3, <2>4, FieldIs
  <1>2. ASSUME Open(q, i), l.kind = "foreign"
        PROVE  Extended(q, i, t, l) = Referring(t, ForeignKey(l.col, l.ref, "id"))
    <2>1. /\ Reads(q, i, l, "foreign") /\ ~Reads(q, i, l, "column")
          /\ ~Reads(q, i, l, "unique") /\ ~Reads(q, i, l, "primary") /\ l.kind # "index"
      BY <1>2 DEF Reads, Ends
    <2>2. PICK w : w = Append(t.ForeignKeys, ForeignKey(l.col, l.ref, "id"))
      OBVIOUS
    <2>3. Extended(q, i, t, l) =
            [Columns |-> t.Columns, ColumnOrder |-> t.ColumnOrder, ForeignKeys |-> w,
             Indexes |-> t.Indexes, PrimaryKey |-> t.PrimaryKey]
      BY <2>1, <2>2 DEF Extended
    <2>4. Referring(t, ForeignKey(l.col, l.ref, "id")) = [t EXCEPT !.ForeignKeys = w]
      BY <2>2 DEF Referring
    <2> QED
      BY <2>3, <2>4, FieldIs
  <1>3. ASSUME Open(q, i), l.kind = "primary"
        PROVE  Extended(q, i, t, l) = Keyed(t, l.cols)
    <2>1. /\ Reads(q, i, l, "primary") /\ ~Reads(q, i, l, "column")
          /\ ~Reads(q, i, l, "unique") /\ ~Reads(q, i, l, "foreign") /\ l.kind # "index"
      BY <1>3 DEF Reads, Ends
    <2>2. Extended(q, i, t, l) =
            [Columns |-> t.Columns, ColumnOrder |-> t.ColumnOrder,
             ForeignKeys |-> t.ForeignKeys, Indexes |-> t.Indexes, PrimaryKey |-> l.cols]
      BY <2>1 DEF Extended
    <2> QED
      BY <2>2, FieldIs DEF Keyed
  <1>4. ASSUME Open(q, i), l.kind = "unique"
        PROVE  Extended(q, i, t, l) = Indexed(t, Index(l.cols, TRUE))
    <2>1. /\ Reads(q, i, l, "unique") /\ ~Reads(q, i, l, "column")
          /\ ~Reads(q, i, l, "primary") /\ ~Reads(q, i, l, "foreign") /\ l.kind # "index"
          /\ IndexOf(l) = Index(l.cols, TRUE)
      BY <1>4 DEF Reads, Ends, IndexOf
    <2>2. PICK w : w = Append(t.Indexes, Index(l.cols, TRUE))
      OBVIOUS
    <2>3. Extended(q, i, t, l) =
            [Columns |-> t.Columns, ColumnOrder |-> t.ColumnOrder, ForeignKeys |-> t.ForeignKeys,
             Indexes |-> w, PrimaryKey |-> t.PrimaryKey]
      BY <2>1, <2>2 DEF Extended
    <2>4. Indexed(t, Index(l.cols, TRUE)) = [t EXCEPT !.Indexes = w]
      BY <2>2 DEF Indexed
    <2> QED
      BY <2>3, <2>4, FieldIs
  <1>5. ASSUME Open(q, i), l.kind = "column"
        PROVE  Extended(q, i, t, l) = Widened(t, l)
    <2>1. /\ Reads(q, i, l, "column") /\ ~Reads(q, i, l, "unique")
          /\ ~Reads(q, i, l, "primary") /\ ~Reads(q, i, l, "foreign") /\ l.kind # "index"
          /\ IndexOf(l) = Index(<<l.col>>, TRUE)
      BY <1>5 DEF Reads, Ends, IndexOf
    <2> QED
      BY <2>1 DEF Extended, Widened
  <1> QED
    BY <1>1, <1>2, <1>3, <1>4, <1>5

\* The lines read are lines of a schema, and the tables the ones they declare.
SchemaInv ==
    /\ ddl \in Seq(DDLLines)
    /\ Dialect(ddl) => Reading(ddl, tables, currentTable)

\* A table that was read is one.
LEMMA TableShape ==
    ASSUME NEW q \in Seq(DDLLines), NEW ts, NEW cur, Reading(q, ts, cur), NEW x \in DOMAIN ts
    PROVE  Shaped(ts[x])
  <1>1. PICK t : t = ts[x]
    OBVIOUS
  <1>2. t = DeclaredAt(q, LatestOf(q, x))
    BY <1>1, TableIs
  <1>3. Shaped(t)
    BY <1>2, DeclaredParts DEF Shaped
  <1> QED
    BY <1>1, <1>3

\* The table that a line is read into.
LEMMA OpenTable ==
    ASSUME NEW q \in Seq(DDLLines), NEW l \in DDLLines, NEW ts, NEW cur, cur # "",
           Reading(q, ts, cur), Dialect(Append(q, l))
    PROVE  \E c \in Creates(q) :
              /\ Open(q, c) /\ cur \in DOMAIN ts /\ Shaped(ts[cur])
              /\ AsSpelled(l)
              /\ l.kind = "column" => l.form # "spaced"
              /\ l.kind = "foreign" => l.form = "plain"
  <1>1. PICK c \in Creates(q) : Open(q, c)
    BY DEF Reading
  <1>2. cur \in DOMAIN ts
    BY <1>1 DEF Reading
  <1>3. /\ AsSpelled(l)
        /\ l.kind = "column" => l.form # "spaced"
        /\ l.kind = "foreign" => l.form = "plain"
    BY <1>1, DialectBefore
  <1> QED
    BY <1>1, <1>2, <1>3, TableShape

\* CREATE INDEX.
LEMMA IndexRead ==
    ASSUME ddl \in Seq(DDLLines), Reading(ddl, tables, currentTable), NEW l \in DDLLines,
           Dialect(Append(ddl, l)), CreateIndex(l)
    PROVE  Reading(Append(ddl, l), tables', currentTable')
  <1>1. PICK q : q = ddl
    OBVIOUS
  <1>2. PICK ts : ts = tables
    OBVIOUS
  <1>3. PICK cur : cur = currentTable
    OBVIOUS
  <1>4. /\ q \in Seq(DDLLines) /\ Reading(q, ts, cur) /\ Dialect(Append(q, l))
        /\ l.kind = "index" /\ currentTable' = cur
    BY <1>1, <1>2, <1>3 DEF CreateIndex
  <1>5. /\ l.kind # "create" /\ l.kind \notin Parts /\ l.kind \notin Ends /\ l.cols # <<>>
        /\ ("UNIQUE" \in l.says) = l.uniq
    <2>1. l.uniq \in BOOLEAN
      BY DDLLinesAssumption
    <2> QED
      BY <1>4, <2>1, DialectBefore DEF Parts, Ends
  <1>6. CASE l.table \notin DOMAIN ts
    <2>1. tables' = ts
      BY <1>2, <1>6 DEF CreateIndex
    <2>2. Reading(Append(q, l), ts, cur)
      BY <1>4, <1>5, <1>6, LineSkipped
    <2> QED
      BY <1>1, <1>4, <2>1, <2>2
  <1>7. CASE l.table \in DOMAIN ts
    <2>1. PICK new : new = Indexed(ts[l.table], Index(l.cols, l.uniq))
      OBVIOUS
    <2>2. tables' = [x \in DOMAIN ts \cup {l.table} |-> IF x = l.table THEN new ELSE ts[x]]
      BY <1>2, <1>5, <1>7, <2>1 DEF CreateIndex, Put, Indexed
    <2>3. DOMAIN tables' = DOMAIN ts /\ \A x \in DOMAIN ts : tables'[x] = IF x = l.table THEN new ELSE ts[x]
      BY <1>7, <2>2
    <2>4. ASSUME NEW t \in DOMAIN ts PROVE tables'[t] = DeclaredAt(Append(q, l), LatestOf(q, t))
      <3>1. PICK i : i = LatestOf(q, t)
        OBVIOUS
      <3>2. i \in 1 .. Len(q) /\ q[i].table = t /\ ts[t] = DeclaredAt(q, i)
        BY <1>4, <3>1, TableIs
      <3>3. CASE t = l.table
        <4>1. DeclaredAt(Append(q, l), i) = Extended(q, i, ts[t], l)
          BY <1>4, <3>2, DeclaredStep
        <4>2. Shaped(ts[t]) /\ l.table = q[i].table
          BY <1>4, <3>2, <3>3, TableShape
        <4>3. Extended(q, i, ts[t], l) = Indexed(ts[t], Index(l.cols, l.uniq))
          <5>1. PICK u : u = ts[t]
            OBVIOUS
          <5>2. Shaped(u) /\ l.kind = "index" /\ l.table = q[i].table
            BY <1>4, <4>2, <5>1
          <5>3. Extended(q, i, u, l) = Indexed(u, Index(l.cols, l.uniq))
            BY ONLY <5>2, ExtendedIs
          <5> QED
            BY <5>1, <5>3
        <4> QED
          BY <2>1, <2>3, <3>1, <3>3, <4>1, <4>3
      <3>4. CASE t # l.table
        <4>1. DeclaredAt(Append(q, l), i) = DeclaredAt(q, i)
          BY <1>4, <1>5, <3>2, <3>4, DeclaredSame DEF Parts
        <4> QED
          BY <2>3, <3>1, <3>2, <3>4, <4>1
      <3> QED
        BY <3>3, <3>4
    <2>5. Reading(Append(q, l), tables', cur)
      BY <1>4, <1>5, <2>3, <2>4, LineRead
    <2> QED
      BY <1>1, <1>4, <2>5
  <1> QED
    BY <1>6, <1>7

\* A line within a table.
LEMMA PartRead ==
    ASSUME ddl \in Seq(DDLLines), Reading(ddl, tables, currentTable), NEW l \in DDLLines,
           Dialect(Append(ddl, l)),
           TableConstraint(l) \/ PrimaryLine(l) \/ UniqueLine(l) \/ ColumnLine(l)
    PROVE  Reading(Append(ddl, l), tables', currentTable')
  <1>1. PICK q : q = ddl
    OBVIOUS
  <1>2. PICK ts : ts = tables
    OBVIOUS
  <1>3. PICK cur : cur = currentTable
    OBVIOUS
  <1>4. /\ q \in Seq(DDLLines) /\ Reading(q, ts, cur) /\ Dialect(Append(q, l))
        /\ cur # "" /\ currentTable' = cur
    BY <1>1, <1>2, <1>3 DEF TableConstraint, PrimaryLine, UniqueLine, ColumnLine, InTable
  <1>5. PICK c \in Creates(q) :
              /\ Open(q, c) /\ cur \in DOMAIN ts /\ Shaped(ts[cur])
              /\ AsSpelled(l)
              /\ l.kind = "column" => l.form # "spaced"
              /\ l.kind = "foreign" => l.form = "plain"
    BY <1>4, OpenTable
  <1>6. PICK t : t = ts[cur]
    OBVIOUS
  <1>7. ASSUME l.kind \in Parts, tables' = With(ts, cur, Extended(q, c, t, l))
        PROVE  Reading(Append(ddl, l), tables', currentTable')
    <2>1. Reading(Append(q, l), With(ts, cur, Extended(q, c, ts[cur], l)), cur)
      BY <1>4, <1>5, <1>7, LineInTable
    <2> QED
      BY <1>1, <1>4, <1>6, <1>7, <2>1
  <1>8. /\ l.kind = "foreign" =>
                Extended(q, c, t, l) = Referring(t, ForeignKey(l.col, l.ref, "id"))
        /\ l.kind = "primary" => Extended(q, c, t, l) = Keyed(t, l.cols)
        /\ l.kind = "unique" => Extended(q, c, t, l) = Indexed(t, Index(l.cols, TRUE))
        /\ l.kind = "column" => Extended(q, c, t, l) = Widened(t, l)
    <2>1. Shaped(t) /\ Open(q, c)
      BY <1>5, <1>6
    <2> QED
      BY <2>1, ExtendedIs
  <1>9. CASE TableConstraint(l)
    <2>1. l.kind \in {"foreign", "check"}
      <3>1. l.begins = "constraint" /\ l.kind \notin {"index", "create", "close", "eof"}
        BY <1>9 DEF TableConstraint, InTable
      <3> QED
        BY <1>5, <3>1, DDLLinesAssumption DEF AsSpelled
    <2>2. CASE l.kind = "foreign"
      <3>1. parseConstraintFK(l) = ForeignKey(l.col, l.ref, "id")
        BY <1>5, <2>2 DEF parseConstraintFK
      <3>2. tables' = With(ts, cur, Referring(t, parseConstraintFK(l)))
        BY <1>2, <1>3, <1>6, <1>9, <2>2 DEF TableConstraint, Put, With, Referring
      <3>3. tables' = With(ts, cur, Extended(q, c, t, l)) /\ l.kind \in Parts
        BY <1>8, <2>2, <3>1, <3>2 DEF Parts
      <3> QED
        BY <1>7, <3>3
    <2>3. CASE l.kind = "check"
      <3>1. tables' = ts
        BY <1>2, <1>9, <2>3 DEF TableConstraint
      <3>2. /\ l.kind # "create" /\ l.kind \notin Parts /\ l.kind # "index"
            /\ cur = IF l.kind \in Ends THEN "" ELSE cur
        BY <2>3 DEF Parts, Ends
      <3>3. Reading(Append(q, l), ts, cur)
        BY <1>4, <3>2, LineSkipped
      <3> QED
        BY <1>1, <1>4, <3>1, <3>3
    <2> QED
      BY <1>5, <2>1, <2>2, <2>3
  <1>10. CASE PrimaryLine(l)
    <2>1. l.kind = "primary"
      <3>1. l.begins = "primary" /\ l.kind \notin {"index", "create", "close", "eof"}
        BY <1>10 DEF PrimaryLine, InTable
      <3> QED
        BY <1>5, <3>1, DDLLinesAssumption DEF AsSpelled
    <2>2. tables' = With(ts, cur, Keyed(t, l.cols))
      BY <1>2, <1>3, <1>6, <1>10 DEF PrimaryLine, Put, With, Keyed
    <2>3. tables' = With(ts, cur, Extended(q, c, t, l)) /\ l.kind \in Parts
      BY <1>8, <2>1, <2>2 DEF Parts
    <2> QED
      BY <1>7, <2>3
  <1>11. CASE UniqueLine(l)
    <2>1. l.kind = "unique"
      <3>1. l.begins = "unique" /\ l.kind \notin {"index", "create", "close", "eof"}
        BY <1>11 DEF UniqueLine, InTable
      <3> QED
        BY <1>5, <3>1, DDLLinesAssumption DEF AsSpelled
    <2>2. l.cols # <<>>
      BY <1>4, <2>1, DialectBefore
    <2>3. tables' = With(ts, cur, Indexed(t, Index(l.cols, TRUE)))
      BY <1>2, <1>3, <1>6, <1>11, <2>2 DEF UniqueLine, Put, With, Indexed
    <2>4. tables' = With(ts, cur, Extended(q, c, t, l)) /\ l.kind \in Parts
      BY <1>8, <2>1, <2>3 DEF Parts
    <2> QED
      BY <1>7, <2>4
  <1>12. CASE ColumnLine(l)
    <2>1. l.kind = "column"
      <3>1. l.begins = "" /\ l.kind \notin {"index", "create", "close", "eof"}
        BY <1>12 DEF ColumnLine, InTable
      <3> QED
        BY <1>5, <3>1, DDLLinesAssumption DEF AsSpelled
    <2>6. /\ "UNIQUE" \in l.says <=> l.uniq
          /\ "PRIMARY" \in l.says <=> l.pk
          /\ "PRIMARY KEY" \in l.says <=> l.pk
      BY <1>5, <2>1 DEF AsSpelled
    <2>2. parseInlineFK(l) = ForeignKey(l.col, l.ref, "id")
      BY <1>5, <2>1 DEF parseInlineFK
    <2>3. PICK new : new =
            [Columns |-> [x \in DOMAIN t.Columns \cup {l.col} |->
                             IF x = l.col THEN pgTypeToGo(l.type) ELSE t.Columns[x]],
             ColumnOrder |-> Append(t.ColumnOrder, l.col),
             PrimaryKey |-> IF "PRIMARY KEY" \in l.says
                            THEN Append(t.PrimaryKey, l.col) ELSE t.PrimaryKey,
             Indexes |-> IF "UNIQUE" \in l.says /\ "PRIMARY" \notin l.says
                         THEN Append(t.Indexes, Index(<<l.col>>, TRUE)) ELSE t.Indexes,
             ForeignKeys |-> IF l.ref # None
                             THEN Append(t.ForeignKeys, parseInlineFK(l)) ELSE t.ForeignKeys]
      OBVIOUS
    <2>4. tables' = With(ts, cur, new)
      BY <1>2, <1>3, <1>6, <1>12, <2>3, Zenon DEF ColumnLine, Put, With
    <2>5. Extended(q, c, t, l) = new
      BY <1>8, <2>1, <2>2, <2>3, <2>6, Zenon DEF Widened, With
    <2> QED
      BY <1>7, <2>1, <2>4, <2>5 DEF Parts
  <1> QED
    BY <1>9, <1>10, <1>11, <1>12

\* Every line keeps the invariant of the scanner.
LEMMA DDLStepReads ==
    ASSUME SchemaInv, DDLStep
    PROVE  SchemaInv'
  <1>1. PICK l \in DDLLines :
            \/ CreateIndex(l) \/ CreateTable(l) \/ OutsideTable(l) \/ CloseTable(l)
            \/ TableConstraint(l) \/ PrimaryLine(l) \/ UniqueLine(l) \/ SkipLine(l)
            \/ ColumnLine(l) \/ EndDDLFile(l)
    BY DEF DDLStep
  <1>2. ddl' = Append(ddl, l) /\ ddl \in Seq(DDLLines)
    BY <1>1 DEF CreateIndex, CreateTable, OutsideTable, CloseTable, TableConstraint, PrimaryLine,
                UniqueLine, SkipLine, ColumnLine, EndDDLFile, ReadLine, SchemaInv
  <1>3. ddl' \in Seq(DDLLines)
    BY <1>2
  <1>4. ASSUME Dialect(Append(ddl, l)) PROVE Reading(Append(ddl, l), tables', currentTable')
    <2>1. /\ Reading(ddl, tables, currentTable)
          /\ l.kind = "create" => ~l.if
      BY <1>2, <1>4, DialectBefore DEF SchemaInv
    <2>2. CASE CreateIndex(l)
      BY <1>2, <1>4, <2>1, <2>2, IndexRead
    <2>3. CASE CreateTable(l)
      <3>1. l.kind = "create" /\ currentTable' = l.table /\ tables' = With(tables, l.table, NewTable)
        BY <2>1, <2>3 DEF CreateTable, Put, With
      <3>2. Reading(Append(ddl, l), With(tables, l.table, NewTable), l.table)
        BY <1>2, <2>1, <3>1, CreateRead
      <3> QED
        BY <3>1, <3>2
    <2>4. CASE OutsideTable(l) \/ CloseTable(l) \/ SkipLine(l) \/ EndDDLFile(l)
      <3>3. SkipLine(l) => l.kind = "check"
        <4> SUFFICES ASSUME SkipLine(l) PROVE l.kind = "check"
          OBVIOUS
        <4>1. /\ l.begins = "check" /\ currentTable # ""
              /\ l.kind \notin {"index", "create", "close", "eof"}
          BY DEF SkipLine, InTable
        <4>2. PICK cur, ts : cur = currentTable /\ ts = tables
          OBVIOUS
        <4>3. AsSpelled(l)
          BY <1>2, <1>4, <2>1, <4>1, <4>2, OpenTable
        <4> QED
          BY <4>1, <4>3, DDLLinesAssumption DEF AsSpelled
      <3>1. /\ l.kind # "create" /\ l.kind # "index" /\ tables' = tables
            /\ currentTable = "" \/ l.kind \notin Parts
            /\ currentTable' = IF l.kind \in Ends THEN "" ELSE currentTable
        BY <2>4, <3>3 DEF OutsideTable, CloseTable, SkipLine, EndDDLFile, InTable, Parts, Ends
      <3>2. Reading(Append(ddl, l), tables, currentTable')
        BY <1>2, <2>1, <3>1, LineSkipped
      <3> QED
        BY <3>1, <3>2
    <2>5. CASE TableConstraint(l) \/ PrimaryLine(l) \/ UniqueLine(l) \/ ColumnLine(l)
      BY <1>2, <1>4, <2>1, <2>5, PartRead
    <2> QED
      BY <1>1, <2>2, <2>3, <2>4, <2>5
  <1> QED
    BY <1>2, <1>3, <1>4 DEF SchemaInv

\* No text declares no tables.
LEMMA ReadingNone == <<>> \in Seq(DDLLines) /\ Reading(<<>>, <<>>, "")
  <1>1. Creates(<<>>) = {} /\ DOMAIN <<>> = {} /\ <<>> \in Seq(DDLLines)
    BY DEF Creates
  <1> QED
    BY <1>1 DEF Reading

\* validator/symbol.go, parseDDLTables: of a schema of any length, in any number
\* of files, the tables are exactly the ones that it declares.
THEOREM TablesAreDeclared == Spec => []TablesDeclared
  <1>1. Init => SchemaInv
    BY ReadingNone DEF Init, SchemaInit, SchemaInv
  <1>2. SchemaInv /\ [Next]_symbolVars => SchemaInv'
    <2> SUFFICES ASSUME SchemaInv, [Next]_symbolVars PROVE SchemaInv'
      OBVIOUS
    <2>1. CASE DDLStep
      BY <2>1, DDLStepReads
    <2>2. CASE UNCHANGED schemaVars
      BY <2>2 DEF SchemaInv, schemaVars
    <2>3. CASE LoadFails
      BY <2>3, ReadingNone DEF LoadFails, SchemaInv
    <2> QED
      BY <2>1, <2>2, <2>3 DEF Next, NextLoader, Done, symbolVars
  <1>3. SchemaInv => TablesDeclared
    BY DEF SchemaInv, Reading, TablesDeclared
  <1> QED
    BY <1>1, <1>2, <1>3, PTL DEF Spec
=============================================================================
