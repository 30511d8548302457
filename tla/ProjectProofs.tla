--------------------------- MODULE ProjectProofs ---------------------------
(***************************************************************************)
(* What `ssac gen` leaves in the output directory, for any project.        *)
(***************************************************************************)
EXTENDS Project, WellFoundedInduction, FiniteSetTheorems, TLAPS

Written(k) ==
    Path(funcs[k]) \in DOMAIN files /\ files[Path(funcs[k])] = <<"func", k>>
LaterAlike(k) == \E j \in k + 1 .. next - 1 : Path(funcs[j]) = Path(funcs[k])
UnderModels(k) == Path(funcs[k]) = <<"model", "models_gen">> /\ ifaces # <<>>
UnderHandler(k) ==
    \E d \in DOMAIN fields : fields[d] # {} /\ Path(funcs[k]) = <<d, "handler">>
Threatened(k) ==
    \/ next \in DOMAIN funcs /\ Path(funcs[next]) = Path(funcs[k])
    \/ Path(funcs[k]) = <<"model", "models_gen">> /\ UsedMethods # {}
    \/ \E d \in pending : Path(funcs[k]) = <<d, "handler">>

\* What takes a function's place comes in this order: functions, then
\* models_gen.go, then each domain's handler.go once.
OutputInv ==
    /\ next \in Nat \ {0}
    /\ stage \in {"parse", "load", "validate"} => next = 1
    /\ stage \in {"parse", "load", "validate", "generate", "interfaces"} => ifaces = <<>> /\ fields = <<>>
    /\ pending \cap DOMAIN fields = {}
    /\ stage # "failed" =>
          \A k \in 1 .. next - 1 : Written(k) <=> ~(LaterAlike(k) \/ UnderModels(k) \/ UnderHandler(k))
    /\ stage = "failed" =>
          \A k \in 1 .. next - 1 :
              /\ Written(k) => ~(LaterAlike(k) \/ UnderModels(k) \/ UnderHandler(k))
              /\ Written(k) \/ LaterAlike(k) \/ UnderModels(k) \/ UnderHandler(k) \/ Threatened(k)

-----------------------------------------------------------------------------
\* It holds at first.
LEMMA OutputInit == Init => OutputInv
  BY DEF Init, OutputInv

\* Steps that write nothing.
LEMMA QuietSteps ==
    ASSUME OutputInv, stage # "failed", UNCHANGED <<next, files, ifaces, fields>>,
           UNCHANGED funcs \/ next = 1, pending' = pending \/ fields = <<>>,
           stage' \in {"parse", "load", "validate"} => next = 1,
           stage' \in {"parse", "load", "validate", "generate", "interfaces"} =>
               stage \in {"parse", "load", "validate", "generate", "interfaces"}
    PROVE  OutputInv'
  <1>1. ASSUME NEW k \in 1 .. next - 1
        PROVE  Written(k)' <=> ~(LaterAlike(k) \/ UnderModels(k) \/ UnderHandler(k))'
    <2>1. UNCHANGED funcs
      BY <1>1 DEF OutputInv
    <2>2. (Written(k)' <=> Written(k)) /\ (LaterAlike(k)' <=> LaterAlike(k))
          /\ (UnderModels(k)' <=> UnderModels(k)) /\ (UnderHandler(k)' <=> UnderHandler(k))
      BY <2>1 DEF Written, LaterAlike, UnderModels, UnderHandler, Path
    <2> QED
      BY <2>2 DEF OutputInv
  <1> QED
    BY <1>1 DEF OutputInv

\* A function takes the place of the earlier ones on its path.
LEMMA GenerateFuncKeeps == OutputInv /\ GenerateFunc => OutputInv'
  <1> SUFFICES ASSUME OutputInv, GenerateFunc PROVE OutputInv'
    OBVIOUS
  <1> USE DEF GenerateFunc
  <1>1. PICK m : m = next
    OBVIOUS
  <1>2. /\ m \in Nat \ {0} /\ next' - 1 = m /\ ifaces = <<>> /\ fields = <<>> /\ DOMAIN fields = {}
        /\ 1 .. m = (1 .. m - 1) \cup {m}
    BY <1>1 DEF OutputInv
  <1>3. ASSUME NEW k \in 1 .. m
        PROVE  Written(k)' <=> ~(LaterAlike(k) \/ UnderModels(k) \/ UnderHandler(k))'
    <2>1. ~UnderModels(k)' /\ ~UnderHandler(k)' /\ ~UnderModels(k) /\ ~UnderHandler(k)
      BY <1>2 DEF UnderModels, UnderHandler
    <2>2. files' = With(files, Path(funcs[m]), <<"func", m>>)
      BY <1>1
    <2>3. LaterAlike(k)' <=> \E j \in k + 1 .. m : Path(funcs[j]) = Path(funcs[k])
      BY <1>2 DEF LaterAlike, Path
    <2>4. Written(k)' <=> Path(funcs[k]) \in DOMAIN files' /\ files'[Path(funcs[k])] = <<"func", k>>
      BY DEF Written, Path
    <2>5. CASE k = m
      <3>1. Written(k)'
        BY <2>2, <2>4, <2>5 DEF With
      <3>2. ~LaterAlike(k)'
        BY <1>2, <2>3, <2>5
      <3> QED
        BY <2>1, <3>1, <3>2
    <2>6. CASE k # m
      <3>1. k \in 1 .. m - 1 /\ m \in k + 1 .. m /\ k + 1 .. m = (k + 1 .. m - 1) \cup {m}
        BY <1>2, <2>6
      <3>2. LaterAlike(k) <=> \E j \in k + 1 .. m - 1 : Path(funcs[j]) = Path(funcs[k])
        BY <1>1 DEF LaterAlike
      <3>3. CASE Path(funcs[k]) = Path(funcs[m])
        <4>1. LaterAlike(k)'
          BY <2>3, <3>1, <3>3
        <4>2. ~Written(k)'
          BY <2>2, <2>4, <2>6, <3>3 DEF With
        <4> QED
          BY <4>1, <4>2
      <3>4. CASE Path(funcs[k]) # Path(funcs[m])
        <4>1. LaterAlike(k)' <=> LaterAlike(k)
          BY <2>3, <3>1, <3>2, <3>4
        <4>2. Written(k)' <=> Written(k)
          BY <2>2, <2>4, <3>4 DEF Written, With
        <4> QED
          BY <1>1, <2>1, <3>1, <4>1, <4>2 DEF OutputInv
      <3> QED
        BY <3>3, <3>4
    <2> QED
      BY <2>5, <2>6
  <1> QED
    BY <1>1, <1>2, <1>3 DEF OutputInv

\* models_gen.go, if a method is used.
LEMMA InterfacesKeep == OutputInv /\ GenerateModelInterfaces => OutputInv'
  <1> SUFFICES ASSUME OutputInv, GenerateModelInterfaces PROVE OutputInv'
    OBVIOUS
  <1> DEFINE p == <<"model", "models_gen">>
  <1>1. /\ stage = "interfaces" /\ stage' = "handlers" /\ UNCHANGED <<funcs, next, fields, pending>>
        /\ files' = (IF UsedMethods = {} THEN files ELSE With(files, p, <<"models_gen", 0>>))
    BY DEF GenerateModelInterfaces
  <1>2. ifaces' \in [UsedMethods -> UNION {Signatures(m) : m \in UsedMethods}]
    BY Zenon DEF GenerateModelInterfaces
  <1>3. ifaces' = <<>> <=> UsedMethods = {}
    <2>1. DOMAIN ifaces' = UsedMethods
      BY <1>2
    <2>2. ifaces' = [m \in UsedMethods |-> ifaces'[m]]
      BY <1>2
    <2>3. DOMAIN <<>> = {}
      OBVIOUS
    <2>4. ASSUME UsedMethods = {} PROVE ifaces' = <<>>
      BY <2>1, <2>2, <2>4
    <2> QED
      BY <2>1, <2>3, <2>4
  <1>4. ifaces = <<>> /\ fields = <<>> /\ DOMAIN fields = {}
    BY <1>1 DEF OutputInv
  <1>5. ASSUME NEW k \in 1 .. next - 1
        PROVE  Written(k)' <=> ~(LaterAlike(k) \/ UnderModels(k) \/ UnderHandler(k))'
    <2>1. ~UnderModels(k) /\ ~UnderHandler(k) /\ ~UnderHandler(k)'
      BY <1>1, <1>4 DEF UnderModels, UnderHandler
    <2>2. LaterAlike(k)' <=> LaterAlike(k)
      BY <1>1 DEF LaterAlike, Path
    <2>3. UnderModels(k)' <=> Path(funcs[k]) = p /\ UsedMethods # {}
      BY <1>1, <1>3 DEF UnderModels, Path
    <2>4. Written(k)' <=> Path(funcs[k]) \in DOMAIN files' /\ files'[Path(funcs[k])] = <<"func", k>>
      BY <1>1 DEF Written, Path
    <2>5. Written(k)' <=> Written(k) /\ ~UnderModels(k)'
      <3>1. CASE UsedMethods = {}
        BY <1>1, <2>3, <2>4, <3>1 DEF Written
      <3>2. CASE UsedMethods # {} /\ Path(funcs[k]) = p
        <4>1. files'[p] = <<"models_gen", 0>> /\ <<"models_gen", 0>> # <<"func", k>>
          BY <1>1, <3>2 DEF With
        <4> QED
          BY <2>3, <2>4, <3>2, <4>1
      <3>3. CASE UsedMethods # {} /\ Path(funcs[k]) # p
        <4>1. files' = With(files, p, <<"models_gen", 0>>)
          BY <1>1, <3>3
        <4> QED
          BY <2>3, <2>4, <3>3, <4>1 DEF Written, With
      <3> QED
        BY <3>1, <3>2, <3>3
    <2> QED
      BY <1>1, <1>5, <2>1, <2>2, <2>5 DEF OutputInv
  <1> QED
    BY <1>1, <1>5 DEF OutputInv

\* handler.go of one domain, if it uses a model.
LEMMA HandlerKeeps ==
    ASSUME OutputInv, NEW d \in pending, GenerateHandler(d)
    PROVE  OutputInv'
  <1> DEFINE p == <<d, "handler">>
             M == DomainModels(d)
  <1>1. /\ stage = "handlers" /\ pending' = pending \ {d} /\ fields' = With(fields, d, M)
        /\ files' = (IF M = {} THEN files ELSE With(files, p, <<"handler", 0>>))
        /\ UNCHANGED <<stage, funcs, next, ifaces>>
    BY DEF GenerateHandler
  <1>2. d \notin DOMAIN fields
    BY DEF OutputInv
  <1> HIDE DEF M
  <1>3. /\ DOMAIN fields' = DOMAIN fields \cup {d} /\ fields'[d] = M
        /\ \A e \in DOMAIN fields : fields'[e] = fields[e]
    BY <1>1, <1>2 DEF With
  <1>4. ASSUME NEW k \in 1 .. next - 1
        PROVE  Written(k)' <=> ~(LaterAlike(k) \/ UnderModels(k) \/ UnderHandler(k))'
    <2>1. (UnderModels(k)' <=> UnderModels(k)) /\ (LaterAlike(k)' <=> LaterAlike(k))
      BY <1>1 DEF UnderModels, LaterAlike, Path
    <2>2. UnderHandler(k)' <=> UnderHandler(k) \/ (M # {} /\ Path(funcs[k]) = p)
      BY <1>1, <1>3 DEF UnderHandler, Path
    <2>3. Written(k)' <=> Path(funcs[k]) \in DOMAIN files' /\ files'[Path(funcs[k])] = <<"func", k>>
      BY <1>1 DEF Written, Path
    <2>4. Written(k)' <=> Written(k) /\ ~(M # {} /\ Path(funcs[k]) = p)
      <3>1. CASE M = {}
        BY <1>1, <2>3, <3>1 DEF Written
      <3>2. CASE M # {} /\ Path(funcs[k]) = p
        <4>1. files'[p] = <<"handler", 0>> /\ <<"handler", 0>> # <<"func", k>>
          BY <1>1, <3>2 DEF With
        <4> QED
          BY <2>3, <3>2, <4>1
      <3>3. CASE M # {} /\ Path(funcs[k]) # p
        <4>1. files' = With(files, p, <<"handler", 0>>)
          BY <1>1, <3>3
        <4> QED
          BY <2>3, <3>3, <4>1 DEF Written, With
      <3> QED
        BY <3>1, <3>2, <3>3
    <2> QED
      BY <1>1, <1>4, <2>1, <2>2, <2>4 DEF OutputInv
  <1>5. pending' \cap DOMAIN fields' = {}
    BY <1>1, <1>3 DEF OutputInv
  <1> QED
    BY <1>1, <1>4, <1>5 DEF OutputInv

\* A write that fails.
LEMMA FailureKeeps == OutputInv /\ WriteFails => OutputInv'
  <1> SUFFICES ASSUME OutputInv, WriteFails PROVE OutputInv'
    OBVIOUS
  <1>1. /\ UNCHANGED <<funcs, st, next, ifaces, fields, pending>> /\ stage' = "failed"
        /\ stage \in {"generate", "interfaces", "handlers"}
        /\ UNCHANGED files \/ \E p \in Writing : files' = With(files, p, <<"cut", 0>>)
    BY DEF WriteFails
  <1>2. UsedMethods' = UsedMethods
    <2>1. Usages' = Usages /\ \A x : SeqAt(x)' = SeqAt(x)
      BY <1>1 DEF Usages, Places, SeqAt
    <2> QED
      BY <1>1, <2>1 DEF UsedMethods
  <1>3. ASSUME NEW k \in 1 .. next - 1
        PROVE  /\ Written(k)' => ~(LaterAlike(k) \/ UnderModels(k) \/ UnderHandler(k))'
               /\ (Written(k) \/ LaterAlike(k) \/ UnderModels(k) \/ UnderHandler(k) \/ Threatened(k))'
    <2>1. Written(k) <=> ~(LaterAlike(k) \/ UnderModels(k) \/ UnderHandler(k))
      BY <1>1 DEF OutputInv
    <2>2. /\ LaterAlike(k)' <=> LaterAlike(k)
          /\ UnderModels(k)' <=> UnderModels(k)
          /\ UnderHandler(k)' <=> UnderHandler(k)
      BY <1>1 DEF LaterAlike, UnderModels, UnderHandler, Path
    <2>3. Threatened(k)' <=> Threatened(k)
      BY <1>1, <1>2 DEF Threatened, Path
    <2>4. Written(k)' <=> Path(funcs[k]) \in DOMAIN files' /\ files'[Path(funcs[k])] = <<"func", k>>
      BY <1>1 DEF Written, Path
    <2>5. CASE UNCHANGED files
      BY <2>1, <2>2, <2>4, <2>5 DEF Written
    <2>6. ASSUME NEW p \in Writing, files' = With(files, p, <<"cut", 0>>)
          PROVE  (Written(k)' => Written(k)) /\ (Written(k)' \/ ~Written(k) \/ Threatened(k))
      <3>1. CASE Path(funcs[k]) # p
        BY <2>4, <2>6, <3>1 DEF Written, With
      <3>2. CASE Path(funcs[k]) = p
        <4>1. files'[p] = <<"cut", 0>> /\ <<"cut", 0>> # <<"func", k>>
          BY <2>6 DEF With
        <4>2. Threatened(k)
          <5>1. CASE stage = "generate"
            <6>1. p \in {Path(funcs[n]) : n \in {next} \cap DOMAIN funcs}
              BY <2>6, <5>1 DEF Writing
            <6> QED
              BY <3>2, <6>1 DEF Threatened
          <5>2. CASE stage = "interfaces"
            <6>1. UsedMethods # {} /\ p = <<"model", "models_gen">>
              BY <2>6, <5>2 DEF Writing
            <6> QED
              BY <3>2, <6>1 DEF Threatened
          <5>3. CASE stage = "handlers"
            <6>1. p \in {<<d, "handler">> : d \in {e \in pending : DomainModels(e) # {}}}
              BY <2>6, <5>3 DEF Writing
            <6> QED
              BY <3>2, <6>1 DEF Threatened
          <5> QED
            BY <1>1, <5>1, <5>2, <5>3
        <4> QED
          BY <2>4, <3>2, <4>1, <4>2
      <3> QED
        BY <3>1, <3>2
    <2>7. CASE \E p \in Writing : files' = With(files, p, <<"cut", 0>>)
      BY <2>1, <2>2, <2>3, <2>6, <2>7
    <2> QED
      BY <1>1, <2>5, <2>7
  <1>4. pending \cap DOMAIN fields = {} /\ next \in Nat \ {0}
    BY DEF OutputInv
  <1> QED
    BY <1>1, <1>3, <1>4 DEF OutputInv

\* Nothing happens.
LEMMA OutputStutters == OutputInv /\ UNCHANGED vars => OutputInv'
  <1> SUFFICES ASSUME OutputInv, UNCHANGED vars PROVE OutputInv'
    OBVIOUS
  <1>1. UNCHANGED <<stage, funcs, st, next, files, ifaces, fields, pending>>
    BY DEF vars
  <1>2. UsedMethods' = UsedMethods
    <2>1. Usages' = Usages /\ \A x : SeqAt(x)' = SeqAt(x)
      BY <1>1 DEF Usages, Places, SeqAt
    <2> QED
      BY <1>1, <2>1 DEF UsedMethods
  <1>3. \A k : /\ LaterAlike(k)' <=> LaterAlike(k)
               /\ UnderModels(k)' <=> UnderModels(k)
               /\ UnderHandler(k)' <=> UnderHandler(k)
               /\ Threatened(k)' <=> Threatened(k)
               /\ Written(k)' <=> Written(k)
    BY <1>1, <1>2 DEF LaterAlike, UnderModels, UnderHandler, Threatened, Written, Path
  <1> QED
    BY <1>1, <1>3 DEF OutputInv

\* Every step keeps it.
LEMMA OutputStep == OutputInv /\ [Next]_vars => OutputInv'
  <1> SUFFICES ASSUME OutputInv, [Next]_vars PROVE OutputInv'
    OBVIOUS
  <1>1. CASE ParseFile
    BY <1>1, QuietSteps DEF ParseFile, OutputInv
  <1>2. CASE ParseFails \/ Parsed \/ Load \/ Accept \/ Reject
    BY <1>2, QuietSteps DEF ParseFails, Parsed, Load, Accept, Reject, OutputInv
  <1>3. CASE Generated \/ Finish
    <2>1. stage = "generate" => fields = <<>>
      BY DEF OutputInv
    <2> QED
      BY <1>3, <2>1, QuietSteps DEF Generated, Finish
  <1> QED
    BY <1>1, <1>2, <1>3, OutputStutters, FailureKeeps, GenerateFuncKeeps, InterfacesKeep, HandlerKeeps DEF Next, Ended

\* generator.go and go_target.go: in every project, and wherever the run fails,
\* the code of a generated function is lost when a later function, models_gen.go
\* or a handler.go has its path, and otherwise only to a failed write there.
THEOREM CodeIsKept == Spec => []KeptUnlessShadowed
  <1>1. Spec => []OutputInv
    BY OutputInit, OutputStep, PTL DEF Spec
  <1>2. OutputInv => KeptUnlessShadowed
    <2> SUFFICES ASSUME OutputInv, NEW k \in 1 .. next - 1
                 PROVE  LET g == funcs[k]
                            shadowed ==
                              \/ \E j \in k + 1 .. next - 1 :
                                    funcs[j].domain = g.domain /\ funcs[j].file = g.file
                              \/ g.domain = "model" /\ g.file = "models_gen" /\ ifaces # <<>>
                              \/ g.file = "handler" /\ g.domain \in DOMAIN fields
                                 /\ fields[g.domain] # {}
                            threatened ==
                              \/ next \in DOMAIN funcs /\ Path(funcs[next]) = Path(g)
                              \/ g.domain = "model" /\ g.file = "models_gen" /\ UsedMethods # {}
                              \/ g.file = "handler" /\ g.domain \in pending
                            kept == <<g.domain, g.file>> \in DOMAIN files
                                    /\ files[<<g.domain, g.file>>] = <<"func", k>>
                        IN  /\ kept => ~shadowed
                            /\ kept \/ shadowed \/ (stage = "failed" /\ threatened)
      BY DEF KeptUnlessShadowed
    <2>1. /\ Written(k) => ~(LaterAlike(k) \/ UnderModels(k) \/ UnderHandler(k))
          /\ \/ Written(k) \/ LaterAlike(k) \/ UnderModels(k) \/ UnderHandler(k)
             \/ stage = "failed" /\ Threatened(k)
      BY DEF OutputInv
    <2>2. \A j : Path(funcs[j]) = Path(funcs[k]) <=>
                    funcs[j].domain = funcs[k].domain /\ funcs[j].file = funcs[k].file
      BY DEF Path
    <2>3. UnderModels(k) <=> funcs[k].domain = "model" /\ funcs[k].file = "models_gen" /\ ifaces # <<>>
      BY DEF UnderModels, Path
    <2>4. UnderHandler(k) <=> funcs[k].file = "handler" /\ funcs[k].domain \in DOMAIN fields
                              /\ fields[funcs[k].domain] # {}
      BY DEF UnderHandler, Path
    <2>5. Threatened(k) => \/ next \in DOMAIN funcs /\ Path(funcs[next]) = Path(funcs[k])
                           \/ /\ funcs[k].domain = "model" /\ funcs[k].file = "models_gen"
                              /\ UsedMethods # {}
                           \/ funcs[k].file = "handler" /\ funcs[k].domain \in pending
      BY DEF Threatened, Path
    <2>6. LaterAlike(k) <=> \E j \in k + 1 .. next - 1 :
                               funcs[j].domain = funcs[k].domain /\ funcs[j].file = funcs[k].file
      BY <2>2 DEF LaterAlike
    <2>7. Written(k) <=> /\ <<funcs[k].domain, funcs[k].file>> \in DOMAIN files
                         /\ files[<<funcs[k].domain, funcs[k].file>>] = <<"func", k>>
      BY DEF Written, Path
    <2> QED
      BY <2>1, <2>3, <2>4, <2>5, <2>6, <2>7
  <1> QED
    BY <1>1, <1>2, PTL

-----------------------------------------------------------------------------
(* Induction over the naturals, with a set for the predicate.              *)

\* The order of the naturals is well-founded.
LEMMA NatOrder == \E R : IsWellFoundedOn(R, Nat) /\ \A k, m \in Nat : k < m => <<k, m>> \in R
  <1>1. IsWellFoundedOn(OpToRel(<, Nat), Nat)
    BY NatLessThanWellFounded
  <1>2. \A k, m \in Nat : k < m => <<k, m>> \in OpToRel(<, Nat)
    BY DEF OpToRel
  <1> QED
    BY <1>1, <1>2

\* A set of naturals has a least element.
LEMMA NatMin ==
    ASSUME NEW T, T \subseteq Nat, T # {}
    PROVE  \E x \in T : \A y \in T : x <= y
  <1>1. PICK R : IsWellFoundedOn(R, Nat) /\ \A k, m \in Nat : k < m => <<k, m>> \in R
    BY NatOrder
  <1>2. IsWellFoundedOn(R, Nat)
    BY <1>1
  <1>3. \E x \in T : \A y \in T : ~(<<y, x>> \in R)
    BY <1>2, WFMin, Zenon
  <1>4. PICK x \in T : \A y \in T : ~(<<y, x>> \in R)
    BY <1>3
  <1>5. x \in Nat
    OBVIOUS
  <1>6. ASSUME NEW y \in T PROVE x <= y
    <2>1. y \in Nat
      OBVIOUS
    <2>2. ~(y < x)
      BY <1>1, <1>4, <1>5, <2>1
    <2> QED
      BY <1>5, <2>1, <2>2
  <1> QED
    BY <1>6

\* Induction.
LEMMA Induction ==
    ASSUME NEW T, 0 \in T, \A k \in Nat : k \in T => k + 1 \in T
    PROVE  \A k \in Nat : k \in T
  <1> SUFFICES ASSUME Nat \ T # {} PROVE FALSE
    OBVIOUS
  <1>1. PICK x \in Nat \ T : \A y \in Nat \ T : x <= y
    BY NatMin
  <1>2. x # 0 /\ x - 1 \in Nat
    BY <1>1
  <1>3. x - 1 \notin Nat \ T
    BY <1>1, <1>2
  <1> QED
    BY <1>1, <1>2, <1>3

-----------------------------------------------------------------------------
(* Keep.                                                                   *)

\* What is kept of the first elements of q, up to the nth.
Kept(n, q, S, f) ==
    /\ f \in [0 .. n -> Seq(ToSet(q))] /\ f[0] = <<>>
    /\ \A k \in 1 .. n : f[k] = IF q[k] \in S THEN Append(f[k - 1], q[k]) ELSE f[k - 1]

\* Every list has it.
LEMMA KeptExists ==
    ASSUME NEW q, IsSeq(q), NEW S
    PROVE  \E f : Kept(Len(q), q, S, f)
  <1> DEFINE n == Len(q)
             B == Seq(ToSet(q))
             T == {m \in Nat : m <= n => \E f : Kept(m, q, S, f)}
  <1>0. n \in Nat /\ (\A k \in 1 .. n : q[k] \in ToSet(q)) /\ <<>> \in B
        /\ \A s \in B : \A e \in ToSet(q) : Append(s, e) \in B
    BY DEF IsSeq, ToSet
  <1> HIDE DEF B, n
  <1>1. 0 \in T
    <2>1. Kept(0, q, S, [k \in 0 .. 0 |-> <<>>])
      BY <1>0 DEF Kept, B
    <2> QED
      BY <2>1
  <1>2. ASSUME NEW m \in Nat, m \in T PROVE m + 1 \in T
    <2> SUFFICES ASSUME m + 1 <= n PROVE \E f : Kept(m + 1, q, S, f)
      OBVIOUS
    <2>1. PICK f : Kept(m, q, S, f)
      BY <1>0, <1>2
    <2> DEFINE e == IF q[m + 1] \in S THEN Append(f[m], q[m + 1]) ELSE f[m]
               s == [k \in 0 .. m + 1 |-> IF k = m + 1 THEN e ELSE f[k]]
    <2>2. (\A k \in 0 .. m : f[k] \in B) /\ q[m + 1] \in ToSet(q)
      BY <1>0, <2>1 DEF Kept, B
    <2>3. e \in B
      BY <1>0, <2>2
    <2>4. s \in [0 .. m + 1 -> B] /\ s[0] = <<>>
      BY <2>1, <2>2, <2>3 DEF Kept
    <2>5. ASSUME NEW k \in 1 .. m + 1
          PROVE  s[k] = IF q[k] \in S THEN Append(s[k - 1], q[k]) ELSE s[k - 1]
      <3>1. k - 1 \in 0 .. m + 1 /\ k - 1 # m + 1 /\ k \in 0 .. m + 1
        OBVIOUS
      <3>2. s[k - 1] = f[k - 1] /\ s[k] = IF k = m + 1 THEN e ELSE f[k]
        BY <3>1
      <3>3. CASE k = m + 1
        <4>1. k - 1 = m
          BY <3>3
        <4> QED
          BY <3>2, <3>3, <4>1
      <3>4. CASE k # m + 1
        <4>1. k \in 1 .. m
          BY <3>4
        <4> QED
          BY <2>1, <3>2, <3>4, <4>1 DEF Kept
      <3> QED
        BY <3>3, <3>4
    <2>6. Kept(m + 1, q, S, s)
      BY <2>4, <2>5 DEF Kept, B
    <2> QED
      BY <2>6
  <1> HIDE DEF T
  <1>3. \A m \in Nat : m \in T
    BY <1>1, <1>2, Induction
  <1> QED
    BY <1>0, <1>3 DEF T, n

\* Keep is the last of it.
LEMMA KeepIs ==
    ASSUME NEW q, IsSeq(q), NEW S
    PROVE  \E f : Kept(Len(q), q, S, f) /\ Keep(q, S) = f[Len(q)]
  <1> DEFINE n == Len(q)
             E(g) == g = [k \in 0 .. Len(q) |-> IF k = 0 THEN <<>> ELSE
                             IF q[k] \in S THEN Append(g[k - 1], q[k]) ELSE g[k - 1]]
  <1>0. n \in Nat
    BY DEF IsSeq
  <1>1. PICK f : Kept(n, q, S, f)
    BY KeptExists
  <1>2. E(f)
    <2>1. \A k \in 0 .. n : f[k] = IF k = 0 THEN <<>> ELSE
                               IF q[k] \in S THEN Append(f[k - 1], q[k]) ELSE f[k - 1]
      <3> HIDE DEF n
      <3>1. \A k \in 0 .. n : k # 0 => k \in 1 .. n
        BY <1>0
      <3> QED
        BY <1>1, <3>1 DEF Kept
    <2>2. f = [k \in 0 .. n |-> f[k]]
      BY <1>1 DEF Kept
    <2> QED
      BY <2>1, <2>2
  <1>3. PICK s : s = CHOOSE g : E(g)
    OBVIOUS
  <1>4. Keep(q, S) = s[n]
    BY <1>3 DEF Keep
  <1>5. E(s)
    BY <1>2, <1>3
  <1>6. /\ s = [k \in 0 .. n |-> s[k]] /\ s[0] = <<>>
        /\ \A k \in 1 .. n : s[k] = IF q[k] \in S THEN Append(s[k - 1], q[k]) ELSE s[k - 1]
    <2>1. s = [k \in 0 .. n |-> IF k = 0 THEN <<>> ELSE
                  IF q[k] \in S THEN Append(s[k - 1], q[k]) ELSE s[k - 1]]
      BY <1>5
    <2> HIDE DEF n
    <2>2. \A k \in 0 .. n : s[k] = IF k = 0 THEN <<>> ELSE
                  IF q[k] \in S THEN Append(s[k - 1], q[k]) ELSE s[k - 1]
      BY <2>1
    <2>3. 0 \in 0 .. n /\ \A k \in 1 .. n : k # 0 /\ k \in 0 .. n
      BY <1>0
    <2>4. s = [k \in 0 .. n |-> s[k]]
      BY <2>1
    <2> QED
      BY <2>2, <2>3, <2>4
  <1> HIDE DEF E, n
  <1>7. ASSUME NEW k \in 0 .. n PROVE s[k] = f[k]
    <2> DEFINE T == {m \in Nat : m <= n => s[m] = f[m]}
    <2>1. 0 \in T
      BY <1>1, <1>6 DEF Kept
    <2>2. ASSUME NEW m \in Nat, m \in T PROVE m + 1 \in T
      <3> SUFFICES ASSUME m + 1 <= n PROVE s[m + 1] = f[m + 1]
        OBVIOUS
      <3>1. s[m] = f[m] /\ m + 1 \in 1 .. n /\ (m + 1) - 1 = m
        BY <1>0, <2>2
      <3> QED
        BY <1>1, <1>6, <3>1 DEF Kept
    <2> HIDE DEF T
    <2>3. \A m \in Nat : m \in T
      BY <2>1, <2>2, Induction
    <2> QED
      BY <1>0, <2>3 DEF T
  <1>8. s[n] = f[n]
    BY <1>0, <1>7
  <1> QED
    BY <1>1, <1>4, <1>8 DEF n

\* A sequence is a list of its own elements.
LEMMA SeqIsSeq ==
    ASSUME NEW A, NEW s \in Seq(A)
    PROVE  IsSeq(s)
  <1>1. s \in [1 .. Len(s) -> ToSet(s)] /\ Len(s) \in Nat
    BY DEF ToSet
  <1> QED
    BY <1>1 DEF IsSeq

\* and of any larger set.
LEMMA SeqWidens ==
    ASSUME NEW A, NEW B, A \subseteq B, NEW s \in Seq(A)
    PROVE  s \in Seq(B)
  OBVIOUS

\* The elements after an Append.
LEMMA AppendRange ==
    ASSUME NEW A, NEW s \in Seq(A), NEW e \in A
    PROVE  ToSet(Append(s, e)) = ToSet(s) \cup {e}
  <1>1. DOMAIN Append(s, e) = DOMAIN s \cup {Len(s) + 1}
    OBVIOUS
  <1>2. Append(s, e)[Len(s) + 1] = e /\ \A i \in DOMAIN s : Append(s, e)[i] = s[i]
    OBVIOUS
  <1> QED
    BY <1>1, <1>2 DEF ToSet

\* It keeps exactly the elements of S.
LEMMA KeepRange ==
    ASSUME NEW q, IsSeq(q), NEW S
    PROVE  IsSeq(Keep(q, S)) /\ ToSet(Keep(q, S)) = ToSet(q) \cap S
  <1>1. PICK f : Kept(Len(q), q, S, f) /\ Keep(q, S) = f[Len(q)]
    BY KeepIs
  <1>2. Len(q) \in Nat /\ ToSet(q) = {q[k] : k \in 1 .. Len(q)}
    BY DEF IsSeq, ToSet
  <1> DEFINE T == {m \in Nat : m <= Len(q) => ToSet(f[m]) = {q[k] : k \in 1 .. m} \cap S}
  <1>3. 0 \in T
    BY <1>1 DEF Kept, ToSet
  <1>4. ASSUME NEW m \in Nat, m \in T PROVE m + 1 \in T
    <2> SUFFICES ASSUME m + 1 <= Len(q)
                 PROVE  ToSet(f[m + 1]) = {q[k] : k \in 1 .. m + 1} \cap S
      OBVIOUS
    <2>1. /\ ToSet(f[m]) = {q[k] : k \in 1 .. m} \cap S
          /\ m \in 0 .. Len(q) /\ m + 1 \in 1 .. Len(q) /\ (m + 1) - 1 = m
      BY <1>2, <1>4
    <2>2. {q[k] : k \in 1 .. m + 1} = {q[k] : k \in 1 .. m} \cup {q[m + 1]}
      BY 1 .. m + 1 = (1 .. m) \cup {m + 1}
    <2>3. f[m] \in Seq(ToSet(q)) /\ q[m + 1] \in ToSet(q)
      BY <1>1, <1>2, <2>1 DEF Kept
    <2>4. ToSet(Append(f[m], q[m + 1])) = ToSet(f[m]) \cup {q[m + 1]}
      BY <2>3, AppendRange
    <2>5. f[m + 1] = IF q[m + 1] \in S THEN Append(f[m], q[m + 1]) ELSE f[m]
      BY <1>1, <2>1 DEF Kept
    <2> QED
      BY <2>1, <2>2, <2>4, <2>5
  <1> HIDE DEF T
  <1>5. \A m \in Nat : m \in T
    BY <1>3, <1>4, Induction
  <1>6. ToSet(f[Len(q)]) = ToSet(q) \cap S
    <2>1. Len(q) \in T
      BY <1>2, <1>5
    <2>2. ToSet(f[Len(q)]) = {q[k] : k \in 1 .. Len(q)} \cap S
      BY <1>2, <2>1 DEF T
    <2> QED
      BY <1>2, <2>2
  <1>7. f[Len(q)] \in Seq(ToSet(q))
    BY <1>1, <1>2 DEF Kept
  <1> QED
    BY <1>1, <1>6, <1>7, SeqIsSeq

-----------------------------------------------------------------------------
(***************************************************************************)
(* What a run knows.  A generated project has passed the checks of         *)
(* ValidateWithSymbols; models_gen.go declares the used methods, each with *)
(* a signature its first usage may give it; a Handler has a field for each *)
(* model of its domain.                                                    *)
(***************************************************************************)
TreeOK(t) ==
    IsSeq(t) /\ \A n \in DOMAIN t :
        IsSeq(t[n].funcs) /\ \A i \in DOMAIN t[n].funcs : FuncOK(t[n].funcs[i])
FuncsOK == IsSeq(funcs) /\ \A n \in DOMAIN funcs : FuncOK(funcs[n])
Early == stage \in {"parse", "load", "validate", "generate", "interfaces"}
Checked == stage \in {"generate", "interfaces", "handlers", "done"}

Declared ==
    /\ DOMAIN ifaces = UsedMethods
    /\ \A m \in UsedMethods : ifaces[m] \in Signatures(m)
    /\ queryOpts = hasQueryOpts(st)

GenInv ==
    /\ TreeOK(tree) /\ FuncsOK
    /\ st \in Symtabs \cup {NoTable}
    /\ Checked /\ st.loaded => \A n \in DOMAIN funcs : DefiniteOK(st, funcs[n])
    /\ AfterInterfaces => Declared
    /\ Early => fields = <<>>
    /\ \A d \in DOMAIN fields : fields[d] = DomainModels(d)

\* It holds at first.
LEMMA GenInit == Init => GenInv
  <1> SUFFICES ASSUME Init PROVE GenInv
    OBVIOUS
  <1>1. TreeOK(tree)
    BY ProjectAssumption DEF Init, TreeOK
  <1>2. FuncsOK
    <2>1. funcs = <<>> /\ DOMAIN <<>> = {}
      BY DEF Init
    <2>2. IsSeq(<<>>)
      <3>1. <<>> \in Seq({})
        OBVIOUS
      <3> QED
        BY <3>1, SeqIsSeq
    <2> QED
      BY <2>1, <2>2 DEF FuncsOK
  <1>3. DOMAIN fields = {} /\ fields = <<>> /\ stage = "parse" /\ st = NoTable
    BY DEF Init
  <1> QED
    BY <1>1, <1>2, <1>3 DEF GenInv, Checked, AfterInterfaces

\* A member of Signatures.
IsSignature(sig, m) ==
    LET u == FirstUse(m) IN
    \E keys \in InputKeys(u, Info(m).params) : \E types \in Typed(u, m[1], Plain(u, keys)) :
        sig = [params |-> Plain(u, keys), types |-> types, opts |-> HasQuery(u),
               results |-> deriveReturnType(u, Info(m).card)]

\* Signatures is the set of them,
LEMMA SignatureIs == \A m, sig : sig \in Signatures(m) <=> IsSignature(sig, m)
  BY DEF Signatures, IsSignature

\* in the next state too.
LEMMA SignatureWas == \A m, sig : sig \in Signatures(m)' <=> IsSignature(sig, m)'
  BY DEF Signatures, IsSignature

\* What is derived depends on the functions and the symbol table alone.
LEMMA SameProject ==
    ASSUME UNCHANGED <<funcs, st>>
    PROVE  /\ UsedMethods' = UsedMethods /\ (FuncsOK' <=> FuncsOK)
           /\ \A m : Signatures(m)' = Signatures(m)
           /\ \A d : DomainModels(d)' = DomainModels(d) /\ DomainCalls(d)' = DomainCalls(d)
  <1>1. Usages' = Usages /\ \A x : SeqAt(x)' = SeqAt(x)
    BY DEF Usages, Places, SeqAt
  <1>2. UsedMethods' = UsedMethods
    BY <1>1 DEF UsedMethods
  <1>3. \A m : FirstUse(m)' = FirstUse(m)
    BY <1>1 DEF FirstUse
  <1>4. \A m : Info(m)' = Info(m)
    BY DEF Info
  <1>5. \A v, m : ParamTypes(v, m)' = ParamTypes(v, m)
    BY DEF ParamTypes
  <1>6. \A u, m, q : Typed(u, m, q)' = Typed(u, m, q)
    BY <1>5 DEF Typed
  <1>7. \A m : Signatures(m)' = Signatures(m)
    <2> SUFFICES ASSUME NEW m, NEW sig PROVE sig \in Signatures(m)' <=> sig \in Signatures(m)
      OBVIOUS
    <2> QED
      BY <1>3, <1>4, <1>6, SignatureIs, SignatureWas DEF IsSignature
  <1>8. \A d : DomainModels(d)' = DomainModels(d) /\ DomainCalls(d)' = DomainCalls(d)
    BY DEF DomainModels, DomainCalls
  <1> QED
    BY <1>2, <1>7, <1>8 DEF FuncsOK

\* A parsed file adds its functions.
LEMMA ParseKeeps == GenInv /\ ParseFile => GenInv'
  <1> SUFFICES ASSUME GenInv, ParseFile PROVE GenInv'
    OBVIOUS
  <1> DEFINE g == Head(tree)
             new == [n \in DOMAIN g.funcs |->
                        [name |-> g.funcs[n].name, seqs |-> g.funcs[n].seqs,
                         domain |-> g.dir[1], file |-> g.file]]
  <1>1. /\ tree # <<>> /\ funcs' = funcs \o new /\ tree' = Tail(tree)
        /\ stage = "parse" /\ stage' = "parse" /\ st' = st /\ fields' = fields
    BY DEF ParseFile
  <1>2. TreeOK(tree) /\ FuncsOK /\ fields = <<>> /\ st \in Symtabs \cup {NoTable}
    BY <1>1 DEF GenInv, Early
  <1>3. tree \in Seq(ToSet(tree))
    BY <1>2 DEF TreeOK, IsSeq
  <1>4. /\ IsSeq(Tail(tree))
        /\ \A n \in DOMAIN Tail(tree) : n + 1 \in DOMAIN tree /\ Tail(tree)[n] = tree[n + 1]
    <2>1. Tail(tree) \in Seq(ToSet(tree))
      BY <1>1, <1>3
    <2>2. \A n \in DOMAIN Tail(tree) : n + 1 \in DOMAIN tree /\ Tail(tree)[n] = tree[n + 1]
      BY <1>1, <1>3
    <2> QED
      BY <2>1, <2>2, SeqIsSeq
  <1>5. TreeOK(tree')
    BY <1>1, <1>2, <1>4 DEF TreeOK
  <1>6. IsSeq(g.funcs) /\ \A n \in DOMAIN g.funcs : FuncOK(g.funcs[n])
    <2>1. g = tree[1] /\ 1 \in DOMAIN tree
      BY <1>1, <1>3
    <2> QED
      BY <1>2, <2>1 DEF TreeOK
  <1>7. \A n \in DOMAIN new : new[n].seqs = g.funcs[n].seqs
    OBVIOUS
  <1>8. \E L \in Nat : DOMAIN new = 1 .. L
    <2>1. g.funcs \in Seq(ToSet(g.funcs))
      BY <1>6 DEF IsSeq
    <2> QED
      BY <2>1
  <1>9. \A n \in DOMAIN new : FuncOK(new[n])
    BY <1>6, <1>7 DEF FuncOK
  <1> HIDE DEF new, g
  <1>10. \A n \in DOMAIN funcs : FuncOK(funcs[n])
    BY <1>2 DEF FuncsOK
  <1>11. new \in Seq(ToSet(new)) /\ funcs \in Seq(ToSet(funcs))
    <2>1. PICK L \in Nat : DOMAIN new = 1 .. L
      BY <1>8
    <2>2. new = [n \in 1 .. L |-> new[n]]
      BY <2>1 DEF new
    <2>3. new \in [1 .. L -> ToSet(new)]
      BY <2>1, <2>2 DEF ToSet
    <2>4. funcs \in Seq(ToSet(funcs))
      BY <1>2 DEF FuncsOK, IsSeq
    <2> QED
      BY <2>3, <2>4
  <1>12. IsSeq(funcs') /\ \A n \in DOMAIN funcs' : FuncOK(funcs'[n])
    <2> DEFINE A == ToSet(funcs) \cup ToSet(new)
    <2>1. funcs \in Seq(A) /\ new \in Seq(A)
      BY <1>11, SeqWidens
    <2> HIDE DEF A
    <2>2. funcs \o new \in Seq(A)
      BY <2>1
    <2>3. ASSUME NEW n \in DOMAIN (funcs \o new) PROVE FuncOK((funcs \o new)[n])
      <3>1. CASE n \in DOMAIN funcs
        BY <1>10, <2>1, <3>1
      <3>2. CASE n \notin DOMAIN funcs
        <4>1. n - Len(funcs) \in DOMAIN new /\ (funcs \o new)[n] = new[n - Len(funcs)]
          BY <2>1, <3>2
        <4> QED
          BY <1>9, <4>1
      <3> QED
        BY <3>1, <3>2
    <2> QED
      BY <1>1, <2>2, <2>3, SeqIsSeq
  <1>13. FuncsOK'
    BY <1>12 DEF FuncsOK
  <1>14. DOMAIN fields' = {}
    BY <1>1, <1>2
  <1> QED
    BY <1>1, <1>2, <1>5, <1>13, <1>14 DEF GenInv, Checked, AfterInterfaces, TreeOK

\* Every step keeps it.
LEMMA GenStep == GenInv /\ [Next]_vars => GenInv'
  <1> SUFFICES ASSUME GenInv, [Next]_vars PROVE GenInv'
    OBVIOUS
  <1>0. ASSUME UNCHANGED <<tree, funcs>>
        PROVE  TreeOK(tree)' /\ FuncsOK'
    BY <1>0 DEF GenInv, TreeOK, FuncsOK
  <1>1. CASE ParseFile
    BY <1>1, ParseKeeps
  <1>2. CASE ParseFails \/ Parsed \/ Reject \/ WriteFails \/ Finish \/ Generated \/ Ended \/ UNCHANGED vars
    <2>1. /\ UNCHANGED <<tree, funcs, st, ifaces, queryOpts, fields>>
          /\ Checked' => Checked
          /\ AfterInterfaces' => AfterInterfaces
          /\ Early' => Early
      BY <1>2 DEF ParseFails, Parsed, Reject, WriteFails, Finish, Generated, Ended, vars,
                  Checked, Early, AfterInterfaces
    <2>2. TreeOK(tree)' /\ FuncsOK'
      BY <1>0, <2>1
    <2>3. AfterInterfaces' => Declared'
      BY <2>1, SameProject DEF GenInv, Declared
    <2>4. \A d \in DOMAIN fields' : fields'[d] = DomainModels(d)'
      BY <2>1, SameProject DEF GenInv
    <2>5. (Checked /\ st.loaded)' => \A n \in DOMAIN funcs' : DefiniteOK(st', funcs'[n])
      BY <2>1 DEF GenInv
    <2>6. st' \in Symtabs \cup {NoTable} /\ (Early' => fields' = <<>>)
      BY <2>1 DEF GenInv
    <2> QED
      BY <2>2, <2>3, <2>4, <2>5, <2>6 DEF GenInv
  <1>3. CASE Load
    <2>1. /\ UNCHANGED <<tree, funcs, fields>> /\ stage = "load" /\ stage' = "validate"
          /\ st' \in Symtabs \cup {NoTable}
      BY <1>3 DEF Load
    <2>2. DOMAIN fields' = {} /\ fields' = <<>>
      BY <2>1 DEF GenInv, Early
    <2>3. ~Checked' /\ ~AfterInterfaces'
      BY <2>1 DEF Checked, AfterInterfaces
    <2> QED
      BY <1>0, <2>1, <2>2, <2>3 DEF GenInv
  <1>4. CASE Accept
    <2>1. /\ UNCHANGED <<tree, funcs, st, fields>> /\ stage = "validate" /\ stage' = "generate"
          /\ MayAccept
      BY <1>4 DEF Accept
    <2>2. DOMAIN fields' = {} /\ fields' = <<>>
      BY <2>1 DEF GenInv, Early
    <2>3. ~AfterInterfaces' /\ (st.loaded => \A n \in DOMAIN funcs : DefiniteOK(st, funcs[n]))
      BY <2>1 DEF MayAccept, AfterInterfaces
    <2>4. st \in Symtabs \cup {NoTable}
      BY DEF GenInv
    <2> QED
      BY <1>0, <2>1, <2>2, <2>3, <2>4 DEF GenInv
  <1>5. CASE GenerateFunc
    <2>1. UNCHANGED <<tree, funcs, st, fields, stage>> /\ stage = "generate"
      BY <1>5 DEF GenerateFunc
    <2>2. DOMAIN fields' = {} /\ fields' = <<>> /\ st \in Symtabs \cup {NoTable}
          /\ (st.loaded => \A n \in DOMAIN funcs : DefiniteOK(st, funcs[n]))
      BY <2>1 DEF GenInv, Early, Checked
    <2>3. ~AfterInterfaces'
      BY <2>1 DEF AfterInterfaces
    <2> QED
      BY <1>0, <2>1, <2>2, <2>3 DEF GenInv
  <1>6. CASE GenerateModelInterfaces
    <2>1. /\ UNCHANGED <<tree, funcs, st, fields>> /\ stage = "interfaces" /\ stage' = "handlers"
          /\ queryOpts' = hasQueryOpts(st)
      BY <1>6 DEF GenerateModelInterfaces
    <2>2. /\ ifaces' \in [UsedMethods -> UNION {Signatures(m) : m \in UsedMethods}]
          /\ \A m \in UsedMethods : ifaces'[m] \in Signatures(m)
      BY <1>6, Zenon DEF GenerateModelInterfaces
    <2>3. DOMAIN ifaces' = UsedMethods
      BY <2>2
    <2>4. Declared'
      BY <2>1, <2>2, <2>3, SameProject DEF Declared
    <2>5. DOMAIN fields' = {} /\ st \in Symtabs \cup {NoTable} /\ ~Early'
          /\ (st.loaded => \A n \in DOMAIN funcs : DefiniteOK(st, funcs[n]))
      BY <2>1 DEF GenInv, Early, Checked
    <2> QED
      BY <1>0, <2>1, <2>4, <2>5 DEF GenInv
  <1>7. ASSUME NEW d \in pending, GenerateHandler(d) PROVE GenInv'
    <2>1. /\ UNCHANGED <<tree, funcs, st, stage, ifaces, queryOpts>> /\ stage = "handlers"
          /\ fields' = With(fields, d, DomainModels(d))
      BY <1>7 DEF GenerateHandler
    <2>2. \A e \in DOMAIN fields' : fields'[e] = DomainModels(e)'
      BY <2>1, SameProject DEF GenInv, With
    <2>3. AfterInterfaces' => Declared'
      BY <2>1, SameProject DEF GenInv, Declared, AfterInterfaces
    <2>4. st \in Symtabs \cup {NoTable} /\ ~Early'
          /\ (st.loaded => \A n \in DOMAIN funcs : DefiniteOK(st, funcs[n]))
      BY <2>1 DEF GenInv, Early, Checked
    <2> QED
      BY <1>0, <2>1, <2>2, <2>3, <2>4 DEF GenInv
  <1> QED
    BY <1>1, <1>2, <1>3, <1>4, <1>5, <1>6, <1>7 DEF Next

-----------------------------------------------------------------------------
(* The first usage of a method, and what it was checked for.               *)

\* A place is in its function.
LEMMA PlaceFacts ==
    ASSUME FuncsOK, NEW x \in Places
    PROVE  /\ x = <<x[1], x[2]>> /\ x[1] \in Nat /\ x[2] \in Nat
           /\ x[1] \in DOMAIN funcs /\ x[2] \in DOMAIN funcs[x[1]].seqs
           /\ SeqAt(x) \in Seqs(funcs[x[1]]) /\ SequenceOK(SeqAt(x))
  <1>0. PICK n \in DOMAIN funcs : x \in {<<n, i>> : i \in DOMAIN funcs[n].seqs}
    BY DEF Places
  <1>1. PICK i \in DOMAIN funcs[n].seqs : x = <<n, i>>
    BY <1>0
  <1>2. funcs \in Seq(ToSet(funcs)) /\ FuncOK(funcs[n])
    BY DEF FuncsOK, IsSeq
  <1>3. funcs[n].seqs \in Seq(ToSet(funcs[n].seqs)) /\ SequenceOK(funcs[n].seqs[i])
    BY <1>2 DEF FuncOK, IsSeq
  <1>4. n \in Nat /\ i \in Nat
    BY <1>2, <1>3
  <1> QED
    BY <1>1, <1>3, <1>4 DEF SeqAt, Seqs

\* The first usage of a used method is a usage of it.
LEMMA FirstUseFacts ==
    ASSUME FuncsOK, NEW x \in Usages
    PROVE  \E y \in Usages : FirstUse(UseOf(SeqAt(x))) = SeqAt(y) /\ UseOf(SeqAt(y)) = UseOf(SeqAt(x))
  <1> DEFINE m == UseOf(SeqAt(x))
             U == {y \in Usages : UseOf(SeqAt(y)) = m}
             N == {y[1] : y \in U}
  <1>1. x \in U /\ \A y \in U : y \in Places /\ y \in Usages
    BY DEF Usages
  <1>2. \A y \in U : y = <<y[1], y[2]>> /\ y[1] \in Nat /\ y[2] \in Nat
    BY <1>1, PlaceFacts
  <1>3. N # {} /\ N \subseteq Nat
    BY <1>1, <1>2
  <1>4. PICK n \in N : \A k \in N : n <= k
    BY <1>3, NatMin
  <1> DEFINE I == {y[2] : y \in {z \in U : z[1] = n}}
  <1>5. I # {} /\ I \subseteq Nat
    BY <1>2, <1>4
  <1>6. PICK i \in I : \A k \in I : i <= k
    BY <1>5, NatMin
  <1>7. PICK z \in U : z[1] = n /\ z[2] = i
    BY <1>6
  <1>8. \A y \in U : ~Before(y, z)
    <2> SUFFICES ASSUME NEW y \in U, Before(y, z) PROVE FALSE
      OBVIOUS
    <2>1. y[1] \in N /\ y[1] \in Nat /\ y[2] \in Nat /\ n \in Nat /\ i \in Nat
      BY <1>2, <1>3, <1>5
    <2>2. y[1] = n => y[2] \in I
      OBVIOUS
    <2>3. n <= y[1] /\ (y[1] = n => i <= y[2])
      BY <1>4, <1>6, <2>1, <2>2
    <2> QED
      BY <1>7, <2>1, <2>3 DEF Before
  <1> HIDE DEF m
  <1> DEFINE P(y) == UseOf(SeqAt(y)) = m /\ \A w \in Usages : Before(w, y) => UseOf(SeqAt(w)) # m
  <1>9. z \in Usages /\ P(z)
    BY <1>7, <1>8
  <1>10. FirstUse(m) = SeqAt(CHOOSE y \in Usages : P(y))
    BY DEF FirstUse
  <1> DEFINE c == CHOOSE y \in Usages : P(y)
  <1>11. c \in Usages /\ P(c)
    BY <1>9
  <1> QED
    BY <1>10, <1>11 DEF m

\* What ValidateWithSymbols has checked of a usage.
LEMMA CheckedUse ==
    ASSUME FuncsOK, \A n \in DOMAIN funcs : DefiniteOK(st, funcs[n]), NEW x \in Usages
    PROVE  LET s == SeqAt(x) IN
           /\ HasMethod(st, s) /\ ModelKey(s) = <<"", s.model>>
           /\ DOMAIN s.inputs \cap Reserved = {}
           /\ HasQuery(s) => hasQueryOpts(st)
           /\ SequenceOK(s) /\ s.model # None /\ ~IsCall(s)
  <1> DEFINE s == SeqAt(x)
             g == funcs[x[1]]
  <1>1. x \in Places /\ s.model # None /\ ~IsCall(s) /\ s.pkg = ""
    BY DEF Usages
  <1>2. s \in Seqs(g) /\ SequenceOK(s) /\ x[1] \in DOMAIN funcs
    BY <1>1, PlaceFacts
  <1>3. ModelOK(st, s) /\ ReservedWordsOK(s) /\ QueryUsageOK(st, g)
    BY <1>2 DEF DefiniteOK
  <1> HIDE DEF s, g
  <1>4. HasMethod(st, s) /\ ModelKey(s) = <<"", s.model>>
    BY <1>1, <1>3 DEF ModelOK, ModelKey
  <1>5. DOMAIN s.inputs \cap Reserved = {}
    BY <1>1, <1>3 DEF ReservedWordsOK
  <1>6. HasQuery(s) => hasQueryOpts(st)
    BY <1>2, <1>3 DEF QueryUsageOK, hasQueryOpts
  <1> QED
    BY <1>1, <1>2, <1>4, <1>5, <1>6 DEF s

\* The usages of a checked project are all declared.
LEMMA UsedAre ==
    ASSUME FuncsOK, \A n \in DOMAIN funcs : DefiniteOK(st, funcs[n])
    PROVE  UsedMethods = {UseOf(SeqAt(x)) : x \in Usages}
  <1>1. \A x \in Usages : <<"", SeqAt(x).model>> \in DOMAIN st.models
    BY CheckedUse DEF HasMethod, Known
  <1> QED
    BY <1>1 DEF UsedMethods

\* The input keys are finitely many.
LEMMA KeysFinite == IsFiniteSet(ToSet(KeyOrder))
  <1>1. KeyOrder \in Seq(ToSet(KeyOrder))
    BY ProjectAssumption DEF IsSeq
  <1>2. IsFiniteSet(DOMAIN KeyOrder)
    BY <1>1, FS_Interval
  <1> DEFINE S == DOMAIN KeyOrder
  <1>3. ToSet(KeyOrder) = {KeyOrder[i] : i \in S}
    BY DEF ToSet
  <1>4. KeyOrder \in Surjection(S, ToSet(KeyOrder))
    BY <1>1, <1>3 DEF Surjection
  <1> QED
    BY <1>2, <1>4, FS_Surjection

\* The orders of the inputs hold inputs only.
LEMMA InputKeysFacts ==
    ASSUME NEW u, SequenceOK(u), NEW params, IsSeq(params), NEW keys \in InputKeys(u, params)
    PROVE  IsSeq(keys) /\ ToSet(keys) \subseteq DOMAIN u.inputs
  <1> DEFINE D == DOMAIN u.inputs
             E == Extra(u, params)
  <1>0. IsSeq(KeyOrder)
    BY ProjectAssumption
  <1>1. CASE params = <<>>
    <2>1. keys = Keep(KeyOrder, D)
      BY <1>1 DEF InputKeys, Sorted
    <2> QED
      BY <1>0, <2>1, KeepRange
  <1>2. CASE params # <<>>
    <2>1. PICK y \in SetToSeqs(E) : keys = Listed(u, params) \o y
      BY <1>2 DEF InputKeys
    <2>2. E \subseteq D
      BY DEF Extra
    <2> DEFINE l == Listed(u, params)
    <2>3. IsSeq(l) /\ ToSet(l) \subseteq D
      BY KeepRange DEF Listed
    <2> HIDE DEF l
    <2>4. l \in Seq(D)
      BY <2>3, SeqWidens DEF IsSeq
    <2>5. y \in [1 .. Cardinality(E) -> E]
      BY <2>1 DEF SetToSeqs
    <2>6. Cardinality(E) \in Nat
      <3>1. E \subseteq ToSet(KeyOrder)
        BY <2>2 DEF SequenceOK
      <3> QED
        BY <3>1, KeysFinite, FS_Subset, FS_CardinalityType
    <2>7. y \in Seq(D)
      BY <2>2, <2>5, <2>6
    <2>8. keys \in Seq(D)
      BY <2>1, <2>4, <2>7 DEF l
    <2> QED
      BY <2>8, SeqIsSeq DEF ToSet
  <1> QED
    BY <1>1, <1>2

\* What is known of a declared method.
LEMMA DeclaredFacts ==
    ASSUME GenInv, AfterInterfaces
    PROVE  /\ FuncsOK /\ \A n \in DOMAIN funcs : DefiniteOK(st, funcs[n])
           /\ DOMAIN ifaces = {UseOf(SeqAt(x)) : x \in Usages}
           /\ queryOpts = hasQueryOpts(st) /\ st \in Symtabs
           /\ \A x \in Usages : LET m == UseOf(SeqAt(x)) IN
                 /\ IsSignature(ifaces[m], m)
                 /\ Info(m) = Method(st, SeqAt(x)) /\ IsSeq(Info(m).params)
                 /\ \E y \in Usages : FirstUse(m) = SeqAt(y) /\ UseOf(SeqAt(y)) = m
  <1>1. /\ FuncsOK /\ st.loaded /\ Declared /\ st \in Symtabs \cup {NoTable}
        /\ \A n \in DOMAIN funcs : DefiniteOK(st, funcs[n])
    BY DEF GenInv, AfterInterfaces, Checked
  <1>2. st \in Symtabs
    BY <1>1 DEF NoTable
  <1>3. DOMAIN ifaces = {UseOf(SeqAt(x)) : x \in Usages}
    BY <1>1, UsedAre DEF Declared
  <1>4. ASSUME NEW x \in Usages
        PROVE  LET m == UseOf(SeqAt(x)) IN
               /\ IsSignature(ifaces[m], m)
               /\ Info(m) = Method(st, SeqAt(x)) /\ IsSeq(Info(m).params)
               /\ \E y \in Usages : FirstUse(m) = SeqAt(y) /\ UseOf(SeqAt(y)) = m
    <2> DEFINE s == SeqAt(x)
               m == UseOf(s)
    <2>1. HasMethod(st, s) /\ ModelKey(s) = <<"", s.model>>
      BY <1>1, CheckedUse
    <2>2. \E y \in Usages : FirstUse(m) = SeqAt(y) /\ UseOf(SeqAt(y)) = m
      BY <1>1, FirstUseFacts
    <2>3. m \in UsedMethods
      BY <1>1, UsedAre
    <2>4. IsSignature(ifaces[m], m)
      BY <1>1, <2>3, SignatureIs DEF Declared
    <2> HIDE DEF s
    <2>5. m[1] = s.model /\ m[2] = s.method
      BY DEF UseOf
    <2>6. /\ <<"", s.model>> \in DOMAIN st.models
          /\ s.method \in DOMAIN st.models[<<"", s.model>>]
      BY <2>1 DEF HasMethod, Known
    <2> HIDE DEF m
    <2>7. Info(m) = Method(st, s)
      BY <2>1, <2>5, <2>6 DEF Info, Method
    <2>8. IsSeq(Method(st, s).params)
      BY <1>2, <2>1, <2>6, ProjectAssumption DEF Method
    <2> QED
      BY <2>2, <2>4, <2>7, <2>8 DEF m, s
  <1> QED
    BY <1>1, <1>2, <1>3, <1>4 DEF Declared

\* The parameters of a signature are inputs of the first usage, and it takes
\* the query if that does.
LEMMA SignatureFacts ==
    ASSUME FuncsOK, \A n \in DOMAIN funcs : DefiniteOK(st, funcs[n]), st \in Symtabs,
           NEW m \in UsedMethods, NEW sig \in Signatures(m)
    PROVE  /\ ToSet(sig.params) \subseteq DOMAIN FirstUse(m).inputs
           /\ DOMAIN FirstUse(m).inputs \cap Reserved = {}
           /\ sig.opts => hasQueryOpts(st)
  <1>1. PICK x \in Usages : m = UseOf(SeqAt(x)) /\ <<"", SeqAt(x).model>> \in DOMAIN st.models
    BY DEF UsedMethods
  <1>2. PICK y \in Usages : FirstUse(m) = SeqAt(y)
    BY <1>1, FirstUseFacts
  <1>3. IsSignature(sig, m)
    BY SignatureIs
  <1>4. IsSeq(Info(m).params)
    <2>1. PICK s : s = SeqAt(x)
      OBVIOUS
    <2>2. HasMethod(st, s) /\ ModelKey(s) = <<"", s.model>>
      BY <2>1, CheckedUse
    <2>3. m[1] = s.model /\ m[2] = s.method
      BY <1>1, <2>1 DEF UseOf
    <2>4. /\ <<"", s.model>> \in DOMAIN st.models
          /\ s.method \in DOMAIN st.models[<<"", s.model>>]
      BY <2>2 DEF HasMethod, Known
    <2>5. Info(m) = st.models[<<"", s.model>>][s.method]
      BY <2>3, <2>4 DEF Info
    <2> QED
      BY <2>4, <2>5, ProjectAssumption
  <1> DEFINE u == FirstUse(m)
  <1>5. DOMAIN u.inputs \cap Reserved = {} /\ (HasQuery(u) => hasQueryOpts(st)) /\ SequenceOK(u)
    BY <1>2, CheckedUse
  <1> HIDE DEF u
  <1>6. PICK keys \in InputKeys(u, Info(m).params) :
          sig.params = Plain(u, keys) /\ sig.opts = HasQuery(u)
    BY <1>3 DEF IsSignature, u
  <1>7. IsSeq(keys) /\ ToSet(keys) \subseteq DOMAIN u.inputs
    BY <1>4, <1>5, InputKeysFacts
  <1>8. ToSet(Plain(u, keys)) \subseteq DOMAIN u.inputs
    BY <1>7, KeepRange DEF Plain
  <1> QED
    BY <1>5, <1>6, <1>8 DEF u

\* go_interface.go and go_target.go: for any project that ValidateWithSymbols
\* accepts and whose keys toLowerFirst and ToGoCamel agree on, models_gen.go can
\* be formatted; it declares every method the handlers call, and QueryOpts if one
\* takes it; and every call on a model of the project that ToGoPascal leaves as
\* it is goes through a Handler field with a declared type.
THEOREM InterfacesComplete == Spec => []ModelsGenComplete
  <1>1. Spec => []GenInv
    BY GenInit, GenStep, PTL DEF Spec
  <1>2. ASSUME GenInv, st.loaded, stage = "interfaces", NEW m \in UsedMethods,
               DOMAIN FirstUse(m).inputs \cap Keywords \subseteq Reserved, NEW sig \in Signatures(m)
        PROVE  Formats(sig)
    <2>1. /\ FuncsOK /\ \A n \in DOMAIN funcs : DefiniteOK(st, funcs[n])
          /\ st \in Symtabs \cup {NoTable}
      BY <1>2 DEF GenInv, Checked
    <2>2. st \in Symtabs
      BY <1>2, <2>1 DEF NoTable
    <2>3. /\ ToSet(sig.params) \subseteq DOMAIN FirstUse(m).inputs
          /\ DOMAIN FirstUse(m).inputs \cap Reserved = {}
      BY <1>2, <2>1, <2>2, SignatureFacts
    <2> QED
      BY <1>2, <2>3 DEF Formats
  <1>3. ASSUME GenInv, AfterInterfaces
        PROVE  /\ \A s \in ModelCalls : UseOf(s) \in DOMAIN ifaces
               /\ (\E m \in DOMAIN ifaces : ifaces[m].opts) => queryOpts
               /\ \A d \in DOMAIN fields : \A s \in DomainCalls(d) :
                     /\ Pascal[s.model] \in fields[d]
                     /\ s.pkg = "" /\ Pascal[s.model] = s.model =>
                           <<Pascal[s.model], s.method>> \in DOMAIN ifaces
    <2>1. /\ DOMAIN ifaces = {UseOf(SeqAt(x)) : x \in Usages} /\ queryOpts = hasQueryOpts(st)
          /\ FuncsOK /\ (\A n \in DOMAIN funcs : DefiniteOK(st, funcs[n])) /\ st \in Symtabs
      BY <1>3, DeclaredFacts
    <2>2. \A s \in ModelCalls : UseOf(s) \in DOMAIN ifaces
      BY <2>1 DEF ModelCalls
    <2>3. ASSUME NEW m \in DOMAIN ifaces PROVE ifaces[m].opts => queryOpts
      <3>1. DOMAIN ifaces = UsedMethods /\ ifaces[m] \in Signatures(m)
        BY <1>3 DEF GenInv, Declared
      <3> QED
        BY <2>1, <3>1, SignatureFacts
    <2>4. ASSUME NEW d \in DOMAIN fields, NEW s \in DomainCalls(d)
          PROVE  /\ Pascal[s.model] \in fields[d]
                 /\ s.pkg = "" /\ Pascal[s.model] = s.model =>
                       <<Pascal[s.model], s.method>> \in DOMAIN ifaces
      <3>1. Pascal[s.model] \in fields[d]
        BY <1>3, <2>4 DEF GenInv, DomainModels
      <3>2. ASSUME s.pkg = "" PROVE UseOf(s) \in DOMAIN ifaces
        <4>1. PICK n \in DOMAIN funcs : s \in Seqs(funcs[n])
          BY DEF DomainCalls
        <4>2. PICK i \in DOMAIN funcs[n].seqs : s = funcs[n].seqs[i]
          BY <4>1 DEF Seqs
        <4>3. <<n, i>> \in Places /\ SeqAt(<<n, i>>) = s
          BY <4>2 DEF Places, SeqAt
        <4>4. s.model # None /\ ~IsCall(s)
          BY DEF DomainCalls
        <4>5. <<n, i>> \in Usages
          BY <3>2, <4>3, <4>4 DEF Usages
        <4> QED
          BY <2>1, <4>3, <4>5
      <3> QED
        BY <3>1, <3>2 DEF UseOf
    <2>5. (\E m \in DOMAIN ifaces : ifaces[m].opts) => queryOpts
      BY <2>3, Zenon
    <2> QED
      BY <2>2, <2>4, <2>5, Zenon
  <1>4. GenInv => ModelsGenComplete
    BY <1>2, <1>3, Zenon DEF ModelsGenComplete
  <1> QED
    BY <1>1, <1>4, PTL

-----------------------------------------------------------------------------
(* The order of Go's maps.                                                 *)

\* Of two choices, Or is one.
LEMMA OrOne ==
    ASSUME NEW S, NEW T
    PROVE  /\ AtMostOne(S) /\ AtMostOne(T) => AtMostOne(Or(S, T))
           /\ Or(S, T) = S \/ Or(S, T) = T
           /\ T # {} => Or(S, T) # {}
  BY DEF Or, AtMostOne

\* The columns of a loaded symbol table have Go types.
LEMMA ColumnTypes ==
    ASSUME st \in Symtabs \cup {NoTable}
    PROVE  \A x \in DOMAIN st.tables : \A c \in DOMAIN st.tables[x] : st.tables[x][c] \in GoTypes
  <1>1. CASE st \in Symtabs
    BY <1>1, ProjectAssumption
  <1>2. CASE st = NoTable
    <2>1. st.tables = <<>> /\ DOMAIN <<>> = {}
      BY <1>2 DEF NoTable
    <2> QED
      BY <2>1
  <1> QED
    BY <1>1, <1>2

\* A column of one table, and of any.
LEMMA ColumnFacts ==
    ASSUME st \in Symtabs \cup {NoTable}, NEW col
    PROVE  /\ \A table : AtMostOne(ColumnOf(st, table, col)) /\ ColumnOf(st, table, col) \subseteq GoTypes
           /\ AnyTable(st, col) \subseteq GoTypes
           /\ Unambiguous => AtMostOne(AnyTable(st, col))
  <1>1. \A table : AtMostOne(ColumnOf(st, table, col)) /\ ColumnOf(st, table, col) \subseteq GoTypes
    BY ColumnTypes DEF ColumnOf, AtMostOne
  <1>2. AnyTable(st, col) \subseteq GoTypes
    BY ColumnTypes DEF AnyTable
  <1>3. Unambiguous => AtMostOne(AnyTable(st, col))
    BY DEF AnyTable, Unambiguous, AtMostOne
  <1> QED
    BY <1>1, <1>2, <1>3

\* An input of a call has at most one type,
LEMMA CallInputType ==
    ASSUME st \in Symtabs \cup {NoTable}, Unambiguous, NEW g, NEW v
    PROVE  AtMostOne(resolveCallInputType(st, g, v))
  <1>1. AtMostOne({}) /\ AtMostOne({"string"})
    BY DEF AtMostOne
  <1>2. AtMostOne(AnyTable(st, Snake[v.field]))
    BY ColumnFacts
  <1>3. \A x : AtMostOne(Or(ColumnOf(st, x, Snake[v.field]), ColumnOf(st, IdTable[v.field], "id")))
    BY ColumnFacts, OrOne
  <1> QED
    BY <1>1, <1>2, <1>3 DEF resolveCallInputType

\* a parameter of a method exactly one.
LEMMA ParamType ==
    ASSUME st \in Symtabs \cup {NoTable}, Unambiguous, NEW v, NEW model
    PROVE  \E t \in GoTypes : ParamTypes(v, model) = {t}
  <1> DEFINE own == IF v.src \in {"request", "currentUser"} THEN {}
                    ELSE ColumnOf(st, TableOf[v.src], Snake[v.field])
             A == ColumnOf(st, TableOf[model], Snake[v.field])
             B == ColumnOf(st, IdTable[v.field], "id")
             C == AnyTable(st, Snake[v.field])
             G(S) == AtMostOne(S) /\ S \subseteq GoTypes
  <1>1. G({"string"}) /\ G(own) /\ G(A) /\ G(B) /\ G(C)
    <2>1. G({"string"}) /\ G({})
      BY DEF AtMostOne, GoTypes
    <2>2. G(A) /\ G(B) /\ G(C) /\ G(ColumnOf(st, TableOf[v.src], Snake[v.field]))
      BY ColumnFacts
    <2> HIDE DEF A, B, C, G
    <2> QED
      BY <2>1, <2>2
  <1>2. \A S, T : G(S) /\ G(T) => G(Or(S, T))
    BY OrOne
  <1> DEFINE R == Or(own, Or(A, Or(B, Or(C, {"string"}))))
  <1> HIDE DEF own, A, B, C, G
  <1>3. G(Or(C, {"string"})) /\ Or(C, {"string"}) # {}
    BY <1>1, <1>2, OrOne
  <1>4. G(Or(B, Or(C, {"string"}))) /\ Or(B, Or(C, {"string"})) # {}
    BY <1>1, <1>2, <1>3, OrOne
  <1>5. G(Or(A, Or(B, Or(C, {"string"})))) /\ Or(A, Or(B, Or(C, {"string"}))) # {}
    BY <1>1, <1>2, <1>4, OrOne
  <1>6. G(R) /\ R # {}
    BY <1>1, <1>2, <1>5, OrOne
  <1> HIDE DEF R
  <1>7. ParamTypes(v, model) = IF v.field = None THEN {"string"} ELSE R
    BY DEF ParamTypes, own, A, B, C, R
  <1>8. G(ParamTypes(v, model)) /\ ParamTypes(v, model) # {}
    BY <1>1, <1>6, <1>7
  <1>9. PICK t : t \in ParamTypes(v, model)
    BY <1>8
  <1> QED
    BY <1>8, <1>9 DEF G, AtMostOne

\* Where nothing is ambiguous, ValidateWithSymbols has one verdict.
LEMMA OneVerdict ==
    ASSUME st \in Symtabs \cup {NoTable}, FuncsOK, Unambiguous, MayAccept, MayReject
    PROVE  FALSE
  <1>1. PICK n \in DOMAIN funcs :
          ~DefiniteOK(st, funcs[n]) \/ \E s \in Seqs(funcs[n]) : MayClash(st, funcs[n], s)
    BY DEF MayReject
  <1> DEFINE g == funcs[n]
  <1>2. DefiniteOK(st, g) /\ \A s \in Seqs(g) : ~MustClash(st, g, s)
    BY DEF MayAccept, MayReject
  <1>3. PICK s \in Seqs(g) : MayClash(st, g, s)
    BY <1>1, <1>2
  <1>4. PICK i \in DOMAIN g.seqs : s = g.seqs[i]
    BY DEF Seqs
  <1>5. <<n, i>> \in Places /\ SeqAt(<<n, i>>) = s
    BY <1>4 DEF Places, SeqAt
  <1>6. IsCall(s)
    BY <1>3 DEF MayClash
  <1>7. AtMostOne(CallTypes(st, s))
    BY <1>5, <1>6 DEF Unambiguous
  <1>8. PICK types \in CallTypes(st, s) : \E k \in DOMAIN s.inputs :
          \E a \in Given(st, g, s, types, k) : a # types[k]
    BY <1>3 DEF MayClash
  <1>9. PICK k \in DOMAIN s.inputs : \E a \in Given(st, g, s, types, k) : a # types[k]
    BY <1>8
  <1>10. AtMostOne(Given(st, g, s, types, k))
    BY CallInputType DEF Given, AtMostOne
  <1> HIDE DEF g
  <1>11. LET G == Given(st, g, s, types, k) IN G # {} /\ \A a \in G : a # types[k]
    BY <1>9, <1>10 DEF AtMostOne
  <1>12. \A x \in CallTypes(st, s) : x = types
    BY <1>7 DEF AtMostOne
  <1>13. MustClash(st, g, s)
    BY <1>6, <1>11, <1>12 DEF MustClash
  <1> QED
    BY <1>2, <1>13

\* A set of at most one element has one order.
LEMMA OneOrder ==
    ASSUME NEW S, AtMostOne(S)
    PROVE  \E f : SetToSeqs(S) = {f}
  <1> DEFINE D == 1 .. Cardinality(S)
  <1>1. \A f, h \in [D -> S] : f = h
    <2> HIDE DEF D
    <2> SUFFICES ASSUME NEW f \in [D -> S], NEW h \in [D -> S] PROVE f = h
      OBVIOUS
    <2>1. \A i \in D : f[i] = h[i]
      BY DEF AtMostOne
    <2> QED
      BY <2>1
  <1>2. \E f \in [D -> S] : \A i, j \in D : i # j => f[i] # f[j]
    <2>1. CASE S = {}
      <3>1. D = {}
        BY <2>1, FS_EmptySet
      <3>2. [i \in D |-> i] \in [D -> S]
        BY <3>1
      <3> QED
        BY <3>1, <3>2
    <2>2. CASE S # {}
      <3>1. PICK e : e \in S
        BY <2>2
      <3>2. S = {e}
        BY <3>1 DEF AtMostOne
      <3>3. D = {1}
        <4>1. Cardinality(S) = 1
          BY <3>2, FS_Singleton
        <4> QED
          BY <4>1
      <3> HIDE DEF D
      <3>4. [i \in D |-> e] \in [D -> S]
        BY <3>2
      <3> QED
        BY <3>3, <3>4
    <2> QED
      BY <2>1, <2>2
  <1>3. SetToSeqs(S) = {f \in [D -> S] : \A i, j \in D : i # j => f[i] # f[j]}
    BY DEF SetToSeqs
  <1> HIDE DEF D
  <1>4. PICK f \in [D -> S] : \A i, j \in D : i # j => f[i] # f[j]
    BY <1>2
  <1>5. SetToSeqs(S) = {f}
    BY <1>1, <1>3, <1>4
  <1> QED
    BY <1>5

\* A method has one signature.
LEMMA OneSignature ==
    ASSUME st \in Symtabs \cup {NoTable}, Unambiguous, NEW m,
           Info(m).params = <<>> \/ AtMostOne(Extra(FirstUse(m), Info(m).params))
    PROVE  \E sig \in Signatures(m) : Signatures(m) = {sig}
  <1> DEFINE u == FirstUse(m)
             params == Info(m).params
  <1>1. \E keys : InputKeys(u, params) = {keys}
    <2>1. CASE params = <<>>
      BY <2>1 DEF InputKeys
    <2>2. CASE params # <<>>
      <3>1. PICK f : SetToSeqs(Extra(u, params)) = {f}
        BY <2>2, OneOrder
      <3>2. InputKeys(u, params) = {Listed(u, params) \o f}
        BY <2>2, <3>1 DEF InputKeys
      <3> QED
        BY <3>2
    <2> QED
      BY <2>1, <2>2
  <1>2. PICK keys : InputKeys(u, params) = {keys}
    BY <1>1
  <1> DEFINE p == Plain(u, keys)
             P(n) == ParamTypes(u.inputs[p[n]], m[1])
             f == [n \in DOMAIN p |-> CHOOSE t \in GoTypes : P(n) = {t}]
  <1>3. Typed(u, m[1], p) = {f}
    <2>1. \A n : \E t \in GoTypes : P(n) = {t}
      BY ParamType
    <2>2. Typed(u, m[1], p) = {types \in [DOMAIN p -> GoTypes] : \A n \in DOMAIN p : types[n] \in P(n)}
      BY DEF Typed
    <2> HIDE DEF P, p
    <2>3. \A n \in DOMAIN p : f[n] \in GoTypes /\ P(n) = {f[n]}
      BY <2>1
    <2>4. f \in Typed(u, m[1], p)
      BY <2>2, <2>3
    <2>5. \A x \in Typed(u, m[1], p) : x = f
      <3> SUFFICES ASSUME NEW x \in Typed(u, m[1], p) PROVE x = f
        OBVIOUS
      <3>1. x \in [DOMAIN p -> GoTypes] /\ \A n \in DOMAIN p : x[n] \in P(n)
        BY <2>2
      <3>2. \A n \in DOMAIN p : x[n] = f[n]
        BY <2>3, <3>1
      <3>3. f \in [DOMAIN p -> GoTypes]
        BY <2>3
      <3> HIDE DEF f
      <3> QED
        BY <3>1, <3>2, <3>3
    <2> QED
      BY <2>4, <2>5
  <1> DEFINE sig == [params |-> p, types |-> f, opts |-> HasQuery(u),
                     results |-> deriveReturnType(u, Info(m).card)]
  <1> HIDE DEF f
  <1>4. \A x : IsSignature(x, m) <=> x = sig
    BY <1>2, <1>3 DEF IsSignature
  <1> HIDE DEF sig
  <1>5. Signatures(m) = {sig}
    BY <1>4, SignatureIs
  <1> QED
    BY <1>5

\* validator.go and go_interface.go: in any project whose columns and Request
\* structs have one type each, the order of Go's maps shows neither in the
\* verdict nor, with at most one input beside the known ones, in a signature.
THEOREM OrderIsInvisible == Spec => []Deterministic
  <1>1. Spec => []GenInv
    BY GenInit, GenStep, PTL DEF Spec
  <1>2. GenInv => Deterministic
    BY OneVerdict, OneSignature DEF GenInv, Deterministic
  <1> QED
    BY <1>1, <1>2, PTL

-----------------------------------------------------------------------------
(* More about Keep.                                                        *)

\* q is r and then e.
Ends(q, r, e) ==
    /\ IsSeq(r) /\ Len(q) = Len(r) + 1 /\ r \in Seq(ToSet(q)) /\ e \in ToSet(q)
    /\ q = Append(r, e) /\ ToSet(q) = ToSet(r) \cup {e}

\* A list of n + 1 elements is one of n and a last.
LEMMA ListEnds ==
    ASSUME NEW q, IsSeq(q), NEW n \in Nat, Len(q) = n + 1
    PROVE  \E r : \E e : Ends(q, r, e) /\ Len(r) = n
  <1> DEFINE f == [i \in 1 .. n |-> q[i]]
             l == q[n + 1]
  <1>1. q \in Seq(ToSet(q)) /\ DOMAIN q = 1 .. n + 1
    BY DEF IsSeq
  <1>2. l \in ToSet(q) /\ \A i \in 1 .. n : q[i] \in ToSet(q)
    BY <1>1 DEF ToSet
  <1>3. f \in Seq(ToSet(q)) /\ Len(f) = n
    BY <1>2
  <1>4. q = Append(f, l)
    BY <1>1, <1>2, <1>3
  <1> HIDE DEF f, l
  <1>5. IsSeq(f)
    BY <1>3, SeqIsSeq
  <1>6. ToSet(q) = ToSet(f) \cup {l}
    <2>1. ToSet(Append(f, l)) = ToSet(f) \cup {l}
      BY <1>2, <1>3, AppendRange
    <2> QED
      BY <1>4, <2>1
  <1>7. Ends(q, f, l) /\ Len(f) = n
    BY <1>2, <1>3, <1>4, <1>5, <1>6 DEF Ends
  <1> QED
    BY <1>7

\* Keep, one element at a time.
LEMMA KeepAppend ==
    ASSUME NEW A, NEW q \in Seq(A), NEW e \in A, NEW S
    PROVE  Keep(Append(q, e), S) = IF e \in S THEN Append(Keep(q, S), e) ELSE Keep(q, S)
  <1> DEFINE r == Append(q, e)
             n == Len(q)
  <1>1. n \in Nat /\ r \in Seq(A) /\ Len(r) = n + 1 /\ r[n + 1] = e /\ \A k \in 1 .. n : r[k] = q[k]
    OBVIOUS
  <1> HIDE DEF r
  <1>2. IsSeq(q) /\ IsSeq(r)
    BY <1>1, SeqIsSeq
  <1>3. PICK f : Kept(n, q, S, f) /\ Keep(q, S) = f[n]
    BY <1>2, KeepIs
  <1>4. PICK h : Kept(n + 1, r, S, h) /\ Keep(r, S) = h[n + 1]
    BY <1>1, <1>2, KeepIs
  <1> HIDE DEF n
  <1> DEFINE T == {m \in Nat : m <= n => f[m] = h[m]}
  <1>5. 0 \in T
    BY <1>3, <1>4 DEF Kept
  <1>6. ASSUME NEW m \in Nat, m \in T PROVE m + 1 \in T
    <2> SUFFICES ASSUME m + 1 <= n PROVE f[m + 1] = h[m + 1]
      OBVIOUS
    <2>1. f[m] = h[m] /\ m + 1 \in 1 .. n /\ m + 1 \in 1 .. n + 1 /\ (m + 1) - 1 = m
      BY <1>1, <1>6
    <2>2. r[m + 1] = q[m + 1]
      BY <1>1, <2>1
    <2> QED
      BY <1>3, <1>4, <2>1, <2>2 DEF Kept
  <1> HIDE DEF T
  <1>7. \A m \in Nat : m \in T
    BY <1>5, <1>6, Induction
  <1>8. f[n] = h[n]
    BY <1>1, <1>7 DEF T
  <1>9. h[n + 1] = IF e \in S THEN Append(h[n], e) ELSE h[n]
    <2>1. n + 1 \in 1 .. n + 1 /\ (n + 1) - 1 = n
      BY <1>1
    <2>2. h[n + 1] = IF r[n + 1] \in S THEN Append(h[(n + 1) - 1], r[n + 1]) ELSE h[(n + 1) - 1]
      BY <1>4, <2>1 DEF Kept
    <2> QED
      BY <1>1, <2>1, <2>2
  <1> QED
    BY <1>3, <1>4, <1>8, <1>9 DEF r

\* Nothing is kept of nothing.
LEMMA KeepEmpty == \A q, S : IsSeq(q) /\ ToSet(q) \cap S = {} => Keep(q, S) = <<>>
  <1> SUFFICES ASSUME NEW q, NEW S, IsSeq(q), ToSet(q) \cap S = {} PROVE Keep(q, S) = <<>>
    OBVIOUS
  <1>1. IsSeq(Keep(q, S)) /\ ToSet(Keep(q, S)) = {}
    BY KeepRange
  <1> QED
    BY <1>1 DEF IsSeq

\* No element is twice in a list.
Once(q) == \A i, j \in DOMAIN q : q[i] = q[j] => i = j

\* Keep drops nothing of S; a second Keep is one with both sets; and what is
\* once in the list is once in what is kept.
LEMMA KeepFacts ==
    ASSUME NEW q, IsSeq(q), NEW A, NEW B
    PROVE  /\ ToSet(q) \subseteq A => Keep(q, A) = q
           /\ Keep(Keep(q, A), B) = Keep(q, A \cap B)
           /\ Once(q) => Once(Keep(q, A))
  <1> DEFINE P(r) == /\ ToSet(r) \subseteq A => Keep(r, A) = r
                     /\ Keep(Keep(r, A), B) = Keep(r, A \cap B)
                     /\ Once(r) => Once(Keep(r, A))
             T == {n \in Nat : \A r : IsSeq(r) /\ Len(r) = n => P(r)}
  <1> HIDE DEF P
  <1>1. 0 \in T
    <2> SUFFICES ASSUME NEW r, IsSeq(r), Len(r) = 0 PROVE P(r)
      OBVIOUS
    <2>1. r = <<>> /\ ToSet(r) = {}
      BY DEF IsSeq, ToSet
    <2>2. \A S : Keep(r, S) = r
      BY <2>1, KeepEmpty
    <2> QED
      BY <2>2 DEF P
  <1>2. ASSUME NEW n \in Nat, n \in T PROVE n + 1 \in T
    <2> SUFFICES ASSUME NEW r, IsSeq(r), Len(r) = n + 1 PROVE P(r)
      OBVIOUS
    <2>0. PICK w : \E e : Ends(r, w, e) /\ Len(w) = n
      BY ListEnds
    <2>a. PICK e : Ends(r, w, e) /\ Len(w) = n
      BY <2>0
    <2>1. /\ IsSeq(w) /\ Len(w) = n /\ w \in Seq(ToSet(r)) /\ e \in ToSet(r)
          /\ r = Append(w, e) /\ ToSet(r) = ToSet(w) \cup {e}
      BY <2>a DEF Ends
    <2>2. P(w)
      BY <1>2, <2>1
    <2> USE DEF P
    <2>3. \A S : Keep(r, S) = IF e \in S THEN Append(Keep(w, S), e) ELSE Keep(w, S)
      BY <2>1, KeepAppend
    <2>4. IsSeq(Keep(w, A)) /\ ToSet(Keep(w, A)) = ToSet(w) \cap A
      BY <2>1, KeepRange
    <2>5. Keep(w, A) \in Seq(ToSet(r))
      <3>1. Keep(w, A) \in Seq(ToSet(Keep(w, A)))
        BY <2>4 DEF IsSeq
      <3> QED
        BY <2>1, <2>4, <3>1, SeqWidens
    <2>6. ToSet(r) \subseteq A => Keep(r, A) = r
      BY <2>1, <2>2, <2>3
    <2>7. Keep(Keep(r, A), B) = Keep(r, A \cap B)
      <3>1. Keep(Append(Keep(w, A), e), B) =
              IF e \in B THEN Append(Keep(Keep(w, A), B), e) ELSE Keep(Keep(w, A), B)
        BY <2>1, <2>5, KeepAppend
      <3>2. CASE e \in A
        BY <2>2, <2>3, <3>1, <3>2
      <3>3. CASE e \notin A
        BY <2>2, <2>3, <3>3
      <3> QED
        BY <3>2, <3>3
    <2>8. Once(r) => Once(Keep(r, A))
      <3> SUFFICES ASSUME Once(r) PROVE Once(Keep(r, A))
        OBVIOUS
      <3>1. Once(w) /\ e \notin ToSet(w)
        <4>1. DOMAIN w = 1 .. n /\ DOMAIN r = 1 .. n + 1 /\ r[n + 1] = e /\ \A i \in 1 .. n : r[i] = w[i]
          BY <2>1
        <4>2. Once(w)
          BY <4>1 DEF Once
        <4>3. \A i \in 1 .. n : w[i] # e
          BY <4>1 DEF Once
        <4> QED
          BY <4>1, <4>2, <4>3 DEF ToSet
      <3>2. Once(Keep(w, A))
        BY <2>2, <3>1
      <3> DEFINE k == Keep(w, A)
      <3>3. \A i \in DOMAIN k : k[i] # e
        BY <2>4, <3>1 DEF ToSet
      <3>4. k \in Seq(ToSet(r))
        BY <2>5
      <3> HIDE DEF k
      <3>5. Once(Append(k, e))
        <4>1. /\ DOMAIN Append(k, e) = 1 .. Len(k) + 1 /\ DOMAIN k = 1 .. Len(k) /\ Len(k) \in Nat
              /\ Append(k, e)[Len(k) + 1] = e /\ \A i \in 1 .. Len(k) : Append(k, e)[i] = k[i]
          BY <2>1, <3>4
        <4>2. \A i, j \in 1 .. Len(k) + 1 : Append(k, e)[i] = Append(k, e)[j] => i = j
          <5> SUFFICES ASSUME NEW i \in 1 .. Len(k) + 1, NEW j \in 1 .. Len(k) + 1,
                              Append(k, e)[i] = Append(k, e)[j]
                       PROVE  i = j
            OBVIOUS
          <5>1. CASE i \in 1 .. Len(k) /\ j \in 1 .. Len(k)
            BY <3>2, <4>1, <5>1 DEF Once, k
          <5>2. CASE i = Len(k) + 1 \/ j = Len(k) + 1
            BY <3>3, <4>1, <5>2
          <5> QED
            BY <4>1, <5>1, <5>2
        <4> QED
          BY <4>1, <4>2 DEF Once
      <3> QED
        BY <2>3, <3>2, <3>5 DEF k
    <2> QED
      BY <2>6, <2>7, <2>8
  <1> HIDE DEF T
  <1>3. \A n \in Nat : n \in T
    BY <1>1, <1>2, Induction
  <1>4. Len(q) \in Nat
    BY DEF IsSeq
  <1>5. P(q)
    BY <1>3, <1>4 DEF T
  <1> QED
    BY <1>5 DEF P

\* Keep on a concatenation.
LEMMA KeepConcat ==
    ASSUME NEW q, IsSeq(q), NEW r, IsSeq(r), NEW S
    PROVE  Keep(q \o r, S) = Keep(q, S) \o Keep(r, S)
  <1> DEFINE T == {n \in Nat : \A w : IsSeq(w) /\ Len(w) = n => Keep(q \o w, S) = Keep(q, S) \o Keep(w, S)}
  <1>0. q \in Seq(ToSet(q)) /\ IsSeq(Keep(q, S)) /\ Keep(q, S) \in Seq(ToSet(Keep(q, S)))
    BY KeepRange DEF IsSeq
  <1>1. 0 \in T
    <2> SUFFICES ASSUME NEW w, IsSeq(w), Len(w) = 0 PROVE Keep(q \o w, S) = Keep(q, S) \o Keep(w, S)
      OBVIOUS
    <2>1. w = <<>> /\ ToSet(w) = {}
      BY DEF IsSeq, ToSet
    <2>2. Keep(w, S) = <<>>
      BY <2>1, KeepEmpty
    <2>3. q \o <<>> = q /\ Keep(q, S) \o <<>> = Keep(q, S)
      BY <1>0
    <2> QED
      BY <2>1, <2>2, <2>3
  <1>2. ASSUME NEW n \in Nat, n \in T PROVE n + 1 \in T
    <2> SUFFICES ASSUME NEW w, IsSeq(w), Len(w) = n + 1
                 PROVE  Keep(q \o w, S) = Keep(q, S) \o Keep(w, S)
      OBVIOUS
    <2>0. PICK v : \E e : Ends(w, v, e) /\ Len(v) = n
      BY ListEnds
    <2>a. PICK e : Ends(w, v, e) /\ Len(v) = n
      BY <2>0
    <2>1. /\ IsSeq(v) /\ Len(v) = n /\ v \in Seq(ToSet(w)) /\ e \in ToSet(w)
          /\ w = Append(v, e) /\ ToSet(w) = ToSet(v) \cup {e}
      BY <2>a DEF Ends
    <2>2. Keep(q \o v, S) = Keep(q, S) \o Keep(v, S)
      BY <1>2, <2>1
    <2> DEFINE A == ToSet(q) \cup ToSet(w)
    <2>3. q \in Seq(A) /\ v \in Seq(A) /\ e \in A
      BY <1>0, <2>1, SeqWidens
    <2>4. Keep(v, S) \in Seq(A) /\ Keep(q, S) \in Seq(A)
      <3>1. Keep(v, S) \in Seq(ToSet(Keep(v, S))) /\ ToSet(Keep(v, S)) \subseteq A
            /\ ToSet(Keep(q, S)) \subseteq A
        BY <2>1, KeepRange DEF IsSeq
      <3> QED
        BY <1>0, <3>1, SeqWidens
    <2> HIDE DEF A
    <2>5. q \o w = Append(q \o v, e) /\ q \o v \in Seq(A)
      BY <2>1, <2>3
    <2>6. Keep(q \o w, S) = IF e \in S THEN Append(Keep(q \o v, S), e) ELSE Keep(q \o v, S)
      <3>1. PICK z : z = q \o v
        OBVIOUS
      <3>2. z \in Seq(A) /\ q \o w = Append(z, e)
        BY <2>5, <3>1
      <3>3. Keep(Append(z, e), S) = IF e \in S THEN Append(Keep(z, S), e) ELSE Keep(z, S)
        BY <2>3, <3>2, KeepAppend
      <3> QED
        BY <3>1, <3>2, <3>3
    <2>7. Keep(w, S) = IF e \in S THEN Append(Keep(v, S), e) ELSE Keep(v, S)
      BY <2>1, <2>3, KeepAppend
    <2>8. Append(Keep(q, S) \o Keep(v, S), e) = Keep(q, S) \o Append(Keep(v, S), e)
      <3>1. PICK a \in Seq(A), b \in Seq(A) : a = Keep(q, S) /\ b = Keep(v, S)
        BY <2>4
      <3>2. e \in A
        BY <2>3
      <3>3. Append(a \o b, e) = a \o Append(b, e)
        BY <3>2
      <3> QED
        BY <3>1, <3>3
    <2> QED
      BY <2>2, <2>6, <2>7, <2>8
  <1> HIDE DEF T
  <1>3. \A n \in Nat : n \in T
    BY <1>1, <1>2, Induction
  <1>4. Len(r) \in Nat
    BY DEF IsSeq
  <1> QED
    BY <1>3, <1>4 DEF T

\* There is one list of at most one element.
LEMMA OneList ==
    ASSUME NEW q, IsSeq(q), Once(q), NEW r, IsSeq(r), Once(r), ToSet(q) = ToSet(r), AtMostOne(ToSet(q))
    PROVE  q = r
  <1> DEFINE L(w) == Len(w) \in Nat /\ w = [i \in 1 .. Len(w) |-> w[i]] /\ DOMAIN w = 1 .. Len(w)
                     /\ \A i \in 1 .. Len(w) : w[i] \in ToSet(w)
  <1>1. L(q) /\ L(r)
    BY DEF IsSeq, ToSet
  <1>2. \A i, j \in 1 .. Len(q) : i = j
    BY <1>1 DEF Once, AtMostOne
  <1>3. \A i, j \in 1 .. Len(r) : i = j
    BY <1>1 DEF Once, AtMostOne
  <1>4. Len(q) \in {0, 1} /\ Len(r) \in {0, 1}
    <2>1. ASSUME Len(q) > 1 PROVE FALSE
      BY <1>1, <1>2, <2>1, 1 \in 1 .. Len(q) /\ 2 \in 1 .. Len(q)
    <2>2. ASSUME Len(r) > 1 PROVE FALSE
      BY <1>1, <1>3, <2>2, 1 \in 1 .. Len(r) /\ 2 \in 1 .. Len(r)
    <2> QED
      BY <1>1, <2>1, <2>2
  <1>5. Len(q) = 0 <=> ToSet(q) = {}
    <2>1. ASSUME Len(q) = 0 PROVE ToSet(q) = {}
      <3>1. DOMAIN q = {}
        BY <1>1, <2>1
      <3> QED
        BY <3>1 DEF ToSet
    <2>2. ASSUME Len(q) = 1 PROVE ToSet(q) # {}
      BY <1>1, <2>2, 1 \in 1 .. 1
    <2> QED
      BY <1>4, <2>1, <2>2
  <1>6. Len(r) = 0 <=> ToSet(r) = {}
    <2>1. ASSUME Len(r) = 0 PROVE ToSet(r) = {}
      <3>1. DOMAIN r = {}
        BY <1>1, <2>1
      <3> QED
        BY <3>1 DEF ToSet
    <2>2. ASSUME Len(r) = 1 PROVE ToSet(r) # {}
      BY <1>1, <2>2, 1 \in 1 .. 1
    <2> QED
      BY <1>4, <2>1, <2>2
  <1>7. Len(q) = Len(r)
    BY <1>4, <1>5, <1>6
  <1>8. \A i \in 1 .. Len(q) : q[i] = r[i]
    BY <1>1, <1>7 DEF AtMostOne
  <1> QED
    BY <1>1, <1>7, <1>8

-----------------------------------------------------------------------------
(* A call and the interface it is made through.                            *)

\* A list that names every element of a set once.
LEMMA OrderFacts ==
    ASSUME NEW S, IsFiniteSet(S), NEW y \in SetToSeqs(S)
    PROVE  IsSeq(y) /\ Once(y) /\ ToSet(y) = S
  <1> DEFINE D == 1 .. Cardinality(S)
  <1>1. y \in [D -> S] /\ \A i, j \in D : i # j => y[i] # y[j]
    BY DEF SetToSeqs
  <1>2. Cardinality(S) \in Nat
    BY FS_CardinalityType
  <1>3. IsSeq(y)
    <2>1. y \in Seq(S)
      BY <1>1, <1>2
    <2> QED
      BY <2>1, SeqIsSeq
  <1>4. Cardinality(D) = Cardinality(S)
    <2>1. Cardinality(D) = IF 1 > Cardinality(S) THEN 0 ELSE Cardinality(S) - 1 + 1
      BY <1>2, FS_Interval
    <2> QED
      BY <1>2, <2>1
  <1> HIDE DEF D
  <1>5. DOMAIN y = D
    BY <1>1
  <1>6. Once(y)
    BY <1>1, <1>5 DEF Once
  <1>7. y \in Injection(D, S)
    BY <1>1, <1>5 DEF Injection, IsInjective
  <1>8. y \in Surjection(D, S)
    BY <1>4, <1>7, FS_Injection
  <1>9. ToSet(y) = S
    BY <1>1, <1>5, <1>8 DEF Surjection, ToSet
  <1> QED
    BY <1>3, <1>6, <1>9

\* Sorted lists a set of keys once.
LEMMA SortedFacts ==
    ASSUME NEW S, S \subseteq ToSet(KeyOrder)
    PROVE  IsSeq(Sorted(S)) /\ Once(Sorted(S)) /\ ToSet(Sorted(S)) = S
  <1>1. IsSeq(KeyOrder) /\ Once(KeyOrder)
    BY ProjectAssumption DEF Once
  <1>2. IsSeq(Sorted(S)) /\ ToSet(Sorted(S)) = ToSet(KeyOrder) \cap S
    BY <1>1, KeepRange DEF Sorted
  <1>3. Once(Sorted(S))
    BY <1>1, KeepFacts DEF Sorted
  <1> QED
    BY <1>2, <1>3

\* Opts leaves the keys that are no query, and puts "opts" for one that is.
LEMMA OptsFacts ==
    ASSUME NEW s, NEW q, IsSeq(q), ToSet(q) \cap QueryKeys(s) = {}
    PROVE  /\ Opts(s, q) = q
           /\ \A k \in QueryKeys(s) : Opts(s, q \o <<k>>) = q \o <<"opts">>
  <1>1. q \in Seq(ToSet(q)) /\ \A n \in DOMAIN q : q[n] \in ToSet(q)
    BY DEF IsSeq, ToSet
  <1>2. \A n \in DOMAIN q : q[n] \notin QueryKeys(s)
    BY <1>1
  <1>3. Opts(s, q) = q
    <2>1. q = [n \in DOMAIN q |-> q[n]]
      BY <1>1
    <2> QED
      BY <1>2, <2>1 DEF Opts
  <1>4. ASSUME NEW k \in QueryKeys(s) PROVE Opts(s, q \o <<k>>) = q \o <<"opts">>
    <2> DEFINE A == ToSet(q) \cup {k, "opts"}
               z == q \o <<k>>
               o == q \o <<"opts">>
               L == Len(q)
    <2>1. q \in Seq(A)
      BY <1>1, SeqWidens
    <2>2. k \in A /\ "opts" \in A
      OBVIOUS
    <2> HIDE DEF A
    <2>3. /\ L \in Nat /\ DOMAIN q = 1 .. L
          /\ DOMAIN z = 1 .. L + 1 /\ z[L + 1] = k /\ \A n \in 1 .. L : z[n] = q[n]
          /\ DOMAIN o = 1 .. L + 1 /\ o[L + 1] = "opts" /\ \A n \in 1 .. L : o[n] = q[n]
      BY <2>1, <2>2
    <2>4. o = [n \in 1 .. L + 1 |-> o[n]]
      BY <2>1, <2>2
    <2> HIDE DEF z, o, L
    <2>5. Opts(s, z) = [n \in 1 .. L + 1 |-> IF z[n] \in QueryKeys(s) THEN "opts" ELSE z[n]]
      BY <2>3 DEF Opts
    <2>6. \A n \in 1 .. L + 1 : (IF z[n] \in QueryKeys(s) THEN "opts" ELSE z[n]) = o[n]
      <3> SUFFICES ASSUME NEW n \in 1 .. L + 1
                   PROVE  (IF z[n] \in QueryKeys(s) THEN "opts" ELSE z[n]) = o[n]
        OBVIOUS
      <3>1. CASE n \in 1 .. L
        BY <1>2, <2>3, <3>1
      <3>2. CASE n = L + 1
        BY <2>3, <3>2
      <3> QED
        BY <2>3, <3>1, <3>2
    <2>7. Opts(s, z) = o
      BY <2>4, <2>5, <2>6
    <2> QED
      BY <2>7 DEF z, o
  <1> QED
    BY <1>3, <1>4

\* A sequence has a query when an input is one.
LEMMA QueryFacts == \A s : HasQuery(s) <=> QueryKeys(s) # {}
  BY DEF HasQuery, QueryKeys, Values

\* The arguments of a call are in the order of the parameters.
LEMMA ArgsFit ==
    ASSUME NEW s, NEW u, SequenceOK(s), SequenceOK(u), SameUse(s, u),
           NEW params, IsSeq(params), Orderable(s, params), paramOrder(st, s) = params,
           NEW keys \in InputKeys(u, params)
    PROVE  CallArgs(st, s) = Plain(u, keys) \o (IF HasQuery(u) THEN <<"opts">> ELSE <<>>)
  <1> DEFINE D == DOMAIN s.inputs
             Q == QueryKeys(s)
             opt == IF Q = {} THEN <<>> ELSE <<"opts">>
  <1>1. /\ DOMAIN u.inputs = D /\ QueryKeys(u) = Q /\ Q \subseteq D /\ D \subseteq ToSet(KeyOrder)
        /\ (IF HasQuery(u) THEN <<"opts">> ELSE <<>>) = opt
    BY QueryFacts DEF SameUse, SequenceOK, QueryKeys
  <1>2. Plain(u, keys) = Keep(keys, D \ Q)
    BY <1>1 DEF Plain
  <1>3. IsSeq(KeyOrder)
    BY ProjectAssumption
  <1>4. CASE params = <<>>
    <2>1. keys = Keep(KeyOrder, D)
      BY <1>1, <1>4 DEF InputKeys, Sorted
    <2>2. Keep(Keep(KeyOrder, D), D \ Q) = Keep(KeyOrder, D \cap (D \ Q))
      BY <1>3, KeepFacts
    <2>3. D \cap (D \ Q) = D \ Q
      OBVIOUS
    <2>4. Plain(u, keys) = Sorted(D \ Q)
      BY <1>2, <2>1, <2>2, <2>3 DEF Sorted
    <2>5. CallArgs(st, s) = Sorted(D \ Q) \o opt
      BY <1>4 DEF CallArgs
    <2> QED
      BY <1>1, <2>4, <2>5
  <1>5. CASE params # <<>>
    <2> DEFINE L == Keep(params, D)
               E == Extra(s, params)
               other == E \ Q
               W == Sorted(other)
    <2>1. /\ Q \cap ToSet(params) = {} /\ AtMostOne(other) /\ AtMostOne(Q)
          /\ \A k \in Q : Sorted(other \cup {k}) = Sorted(other) \o <<k>>
      BY <1>5 DEF Orderable
    <2>2. E \subseteq D /\ Q \subseteq E /\ E \subseteq ToSet(KeyOrder)
      BY <1>1, <2>1 DEF Extra
    <2>3. IsSeq(L) /\ ToSet(L) = ToSet(params) \cap D
      BY KeepRange
    <2>4. ToSet(L) \cap Q = {} /\ ToSet(L) \subseteq D \ Q
      BY <2>1, <2>3
    <2>5. PICK y \in SetToSeqs(E) : keys = L \o y
      BY <1>1, <1>5 DEF InputKeys, Listed, Extra
    <2>6. IsSeq(y) /\ Once(y) /\ ToSet(y) = E
      <3>1. IsFiniteSet(E)
        BY <2>2, KeysFinite, FS_Subset
      <3> QED
        BY <2>5, <3>1, OrderFacts
    <2>7. CallArgs(st, s) = Opts(s, L \o Sorted(E))
      BY <1>5 DEF CallArgs, Listed
    <2> HIDE DEF L, E
    <2>8. Plain(u, keys) = L \o Keep(y, D \ Q)
      <3>1. Keep(L \o y, D \ Q) = Keep(L, D \ Q) \o Keep(y, D \ Q)
        BY <2>3, <2>6, KeepConcat
      <3>2. Keep(L, D \ Q) = L
        BY <2>3, <2>4, KeepFacts
      <3> QED
        BY <1>2, <2>5, <3>1, <3>2
    <2>9. other \subseteq ToSet(KeyOrder)
      BY <2>2
    <2>10. IsSeq(W) /\ Once(W) /\ ToSet(W) = other
      BY <2>9, SortedFacts
    <2>11. Keep(y, D \ Q) = W
      <3> DEFINE V == Keep(y, D \ Q)
      <3>1. IsSeq(V) /\ ToSet(V) = E \cap (D \ Q)
        BY <2>6, KeepRange
      <3>2. ToSet(V) = other
        BY <2>2, <3>1
      <3>3. Once(V)
        BY <2>6, KeepFacts
      <3> HIDE DEF V, W
      <3>4. V = W
        BY <2>1, <2>10, <3>1, <3>2, <3>3, OneList
      <3> QED
        BY <3>4 DEF V
    <2> DEFINE z == L \o W
    <2>12. IsSeq(z) /\ ToSet(z) \cap Q = {} /\ \A k : L \o (W \o <<k>>) = z \o <<k>>
      <3> DEFINE A == ToSet(L) \cup ToSet(W)
      <3>1. L \in Seq(A) /\ W \in Seq(A)
        <4>1. L \in Seq(ToSet(L)) /\ W \in Seq(ToSet(W))
          BY <2>3, <2>10 DEF IsSeq
        <4>2. ToSet(L) \subseteq A /\ ToSet(W) \subseteq A
          OBVIOUS
        <4> HIDE DEF A, W
        <4> QED
          BY <4>1, <4>2, SeqWidens
      <3>2. A \cap Q = {}
        BY <2>4, <2>10
      <3> HIDE DEF A, W
      <3>3. z \in Seq(A)
        BY <3>1
      <3>4. ASSUME NEW k PROVE L \o (W \o <<k>>) = z \o <<k>>
        <4> DEFINE B == A \cup {k}
        <4>1. L \in Seq(B) /\ W \in Seq(B) /\ k \in B
          BY <3>1, SeqWidens
        <4> HIDE DEF B
        <4> QED
          BY <4>1
      <3> HIDE DEF z
      <3>5. IsSeq(z)
        BY <3>3, SeqIsSeq
      <3>6. ToSet(z) \subseteq A
        BY <3>3 DEF ToSet
      <3> QED
        BY <3>2, <3>4, <3>5, <3>6
    <2>13. Plain(u, keys) = z
      BY <2>8, <2>11
    <2>14. CASE Q = {}
      <3>1. E = other
        BY <2>14
      <3>2. CallArgs(st, s) = Opts(s, z)
        BY <2>7, <3>1
      <3> HIDE DEF z
      <3>3. Opts(s, z) = z /\ z \o <<>> = z /\ opt = <<>>
        BY <2>12, <2>14, OptsFacts DEF IsSeq
      <3> QED
        BY <1>1, <2>13, <3>2, <3>3
    <2>15. CASE Q # {}
      <3>1. PICK k : k \in Q
        BY <2>15
      <3>2. E = other \cup {k}
        BY <2>1, <2>2, <3>1 DEF AtMostOne
      <3>3. Sorted(E) = W \o <<k>>
        BY <2>1, <3>1, <3>2
      <3>4. CallArgs(st, s) = Opts(s, z \o <<k>>)
        BY <2>7, <2>12, <3>3
      <3> HIDE DEF z
      <3>5. Opts(s, z \o <<k>>) = z \o <<"opts">>
        BY <2>12, <3>1, OptsFacts
      <3>6. opt = <<"opts">>
        BY <2>15
      <3> QED
        BY <1>1, <2>13, <3>4, <3>5, <3>6
    <2> QED
      BY <2>14, <2>15
  <1> QED
    BY <1>4, <1>5

\* and it takes the results of the method.
LEMMA ResultsFit ==
    ASSUME NEW s, NEW u, SequenceOK(s), SequenceOK(u), SameUse(s, u), s.model # None, ~IsCall(s),
           NEW card, Conventional(s, card)
    PROVE  CallResults(s) = deriveReturnType(u, card)
  <1>1. /\ s.type \in {"get", "post", "put", "delete"} /\ s.shape \in {"one", "list", "page", "cursor"}
        /\ u.shape \in {"one", "list", "page", "cursor"} /\ (s.type \in {"put", "delete"} => s.shape = "one")
    BY DEF SequenceOK, IsCall
  <1>2. /\ HasQuery(s) <=> HasQuery(u)
        /\ (s.shape \in {"page", "cursor"}) <=> (u.shape \in {"page", "cursor"})
    BY QueryFacts DEF SameUse
  <1>3. CASE s.type \in {"put", "delete"}
    BY <1>1, <1>2, <1>3 DEF Conventional, CallResults, deriveReturnType
  <1>4. CASE s.type \in {"get", "post"} /\ s.shape \in {"page", "cursor"}
    BY <1>1, <1>2, <1>4 DEF CallResults, deriveReturnType, HasTotal
  <1>5. CASE s.type = "get" /\ s.shape \in {"one", "list"}
    BY <1>1, <1>2, <1>5 DEF Conventional, CallResults, deriveReturnType, HasTotal
  <1>6. CASE s.type = "post" /\ s.shape \in {"one", "list"}
    BY <1>1, <1>2, <1>6 DEF Conventional, CallResults, deriveReturnType
  <1> QED
    BY <1>1, <1>3, <1>4, <1>5, <1>6

\* go_args.go and go_interface.go: in any accepted project, where the usages of
\* a method agree and fit its query, a handler passes the arguments in the order
\* of the interface and takes as many results as it declares.
THEOREM CallsMatch == Spec => []CallsFit
  <1>1. Spec => []GenInv
    BY GenInit, GenStep, PTL DEF Spec
  <1>2. GenInv => CallsFit
    <2> SUFFICES ASSUME GenInv, AfterInterfaces, NEW s \in ModelCalls,
                        SameUse(s, FirstUse(UseOf(s))),
                        Orderable(s, Info(UseOf(s)).params), Conventional(s, Info(UseOf(s)).card)
                 PROVE  LET sig == ifaces[UseOf(s)] IN
                        /\ CallArgs(st, s) = sig.params \o (IF sig.opts THEN <<"opts">> ELSE <<>>)
                        /\ CallResults(s) = sig.results
      BY DEF CallsFit
    <2> DEFINE m == UseOf(s)
               u == FirstUse(m)
    <2>1. PICK x \in Usages : s = SeqAt(x)
      BY DEF ModelCalls
    <2>2. FuncsOK /\ \A n \in DOMAIN funcs : DefiniteOK(st, funcs[n])
      BY DeclaredFacts
    <2>3. /\ IsSignature(ifaces[m], m) /\ Info(m) = Method(st, s) /\ IsSeq(Info(m).params)
          /\ \E y \in Usages : u = SeqAt(y)
      BY <2>1, DeclaredFacts
    <2>4. /\ HasMethod(st, s) /\ ModelKey(s) = <<"", s.model>> /\ SequenceOK(s)
          /\ s.model # None /\ ~IsCall(s)
      BY <2>1, <2>2, CheckedUse
    <2>5. SequenceOK(u)
      BY <2>2, <2>3, CheckedUse
    <2>6. paramOrder(st, s) = Info(m).params
      BY <2>3, <2>4 DEF paramOrder, HasMethod, Known, Method
    <2> HIDE DEF m, u
    <2>7. PICK keys \in InputKeys(u, Info(m).params) :
            /\ ifaces[m].params = Plain(u, keys) /\ ifaces[m].opts = HasQuery(u)
            /\ ifaces[m].results = deriveReturnType(u, Info(m).card)
      BY <2>3 DEF IsSignature, u
    <2>8. CallArgs(st, s) = Plain(u, keys) \o (IF HasQuery(u) THEN <<"opts">> ELSE <<>>)
      BY <2>3, <2>4, <2>5, <2>6, ArgsFit DEF m, u
    <2>9. CallResults(s) = deriveReturnType(u, Info(m).card)
      BY <2>4, <2>5, ResultsFit DEF m, u
    <2> QED
      BY <2>7, <2>8, <2>9 DEF m
  <1> QED
    BY <1>1, <1>2, PTL
=============================================================================
