--------------------------- MODULE Located_proofs ---------------------------
(***************************************************************************)
(* The run for an instruction starts with it, if the lines counted on the  *)
(* way read alike: for every module that satisfies NamesAssumption.        *)
(***************************************************************************)
EXTENDS Located, TaintTracker_proofs, FiniteSetTheorems

-----------------------------------------------------------------------------
(* The parameters *)

\* A number is read back as it was written.
LEMMA NumberFacts ==
    ASSUME NEW n \in 0..MaxNumber
    PROVE  /\ ToString(n) # "" /\ IsNumber(ToString(n))
           /\ Number(ToString(n)) = n
BY NumberAssumption DEF IsNumber, Number

\* A parameter that is given is taken.
LEMMA LongEnough ==
    ASSUME NEW s, Len(s) = 9
    PROVE  /\ (Len(s) >= 1) = TRUE /\ (Len(s) >= 2) = TRUE
           /\ (Len(s) >= 8) = TRUE
OBVIOUS

\* A run looks for what its arguments name.
LooksFor(run, Params) ==
    /\ run.function = Params[1] /\ run.opcode = Params[2]
    /\ run.occurrence = Number(Params[8])

LEMMA ParseFacts ==
    ASSUME NEW m, NEW n, NEW addr, NEW Params, Len(Params) = 9,
           Params[1] # "", Params[2] # "", Params[8] # "", IsNumber(Params[8])
    PROVE  LooksFor(parse(m, n, addr, Params), Params)
BY LongEnough, Zenon DEF parse, LooksFor

LEMMA ArgsFacts ==
    ASSUME NEW file, NEW mode
    PROVE  /\ pass_args(file, mode)[1] = file.FUNCTION_NAME
           /\ pass_args(file, mode)[2] = file.SOURCE_OP
           /\ pass_args(file, mode)[8] = file.OCCURENCE
           /\ Len(pass_args(file, mode)) = 9
BY DEF pass_args

\* The run for an instruction that is no tail call looks for the constant in
\* instructions of its function and opcode, and for the occurrence that
\* locate counted.
LEMMA RunFacts ==
    ASSUME input \in Inputs, NEW i \in M.insts, IsRunFor(i), i \notin M.tails,
           locate(M, i) \in Nat
    PROVE  /\ input.function = M.func[i] /\ input.opcode = M.kind[i]
           /\ input.occurrence = locate(M, i)
<1>1. ModuleOK(M) /\ NamesOK(M)
  BY ModuleFacts, NamesAssumption, InputsAssumption DEF InputOK, M
<1>2. PICK mode \in Modes :
         input = parse(M, input.module, input.addr,
                       pass_args(write_input(M, i, input.constant), mode))
  BY DEF IsRunFor
<1> DEFINE file == write_input(M, i, input.constant)
           args == pass_args(file, mode)
<1>3. /\ file.FUNCTION_NAME = M.func[i] /\ file.SOURCE_OP = M.kind[i]
      /\ file.OCCURENCE = ToString(locate(M, i))
  BY DEF write_input, extract_opcode
<1>4. /\ args[1] = M.func[i] /\ args[2] = M.kind[i]
      /\ args[8] = ToString(locate(M, i)) /\ Len(args) = 9
  BY <1>3, ArgsFacts
<1>5. M.func[i] # "" /\ M.kind[i] # ""
  BY <1>1 DEF ModuleOK, NamesOK, Kinds
<1>6. locate(M, i) \in 0..MaxNumber
  <2>1. MaxNumber \in Nat /\ locate(M, i) <= MaxNumber
    BY <1>1, NumberAssumption DEF NamesOK
  <2> QED
    BY <2>1
<1>7. /\ args[8] # "" /\ IsNumber(args[8]) /\ Number(args[8]) = locate(M, i)
  BY <1>4, <1>6, NumberFacts
<1> HIDE DEF args
<1>8. LooksFor(parse(M, input.module, input.addr, args), args)
  <2>1. args[1] # "" /\ args[2] # "" /\ Len(args) = 9
    BY <1>4, <1>5, Zenon
  <2>2. \A m, n, addr : LooksFor(parse(m, n, addr, args), args)
    BY <2>1, <1>7, ParseFacts, Zenon
  <2> QED
    BY <2>2, Zenon
<1>9. input = parse(M, input.module, input.addr, args)
  BY <1>2 DEF args
<1> QED
  BY <1>4, <1>7, <1>8, <1>9 DEF LooksFor
-----------------------------------------------------------------------------
(* Counting *)

\* The elements of A that come before j
Before(A, pos, j) == {h \in A : pos[h] < pos[j]}

\* No two elements have as many before them.
LEMMA RankTells ==
    ASSUME NEW A, IsFiniteSet(A), NEW pos, \A h \in A : pos[h] \in Nat,
           \A g, h \in A : pos[g] = pos[h] => g = h,
           NEW i \in A, NEW j \in A,
           Cardinality(Before(A, pos, i)) = Cardinality(Before(A, pos, j))
    PROVE  i = j
<1>1. ASSUME NEW g \in A, NEW h \in A, pos[g] < pos[h]
      PROVE  Cardinality(Before(A, pos, g)) # Cardinality(Before(A, pos, h))
  <2>1. /\ Before(A, pos, g) \in SUBSET Before(A, pos, h)
        /\ g \in Before(A, pos, h) /\ g \notin Before(A, pos, g)
    BY <1>1 DEF Before
  <2>2. IsFiniteSet(Before(A, pos, h))
    <3>1. Before(A, pos, h) \in SUBSET A
      BY DEF Before
    <3> QED
      BY <3>1, FS_Subset
  <2> QED
    BY <2>1, <2>2, FS_Subset
<1>2. pos[i] < pos[j] \/ pos[j] < pos[i] \/ pos[i] = pos[j]
  <2>1. pos[i] \in Nat /\ pos[j] \in Nat
    OBVIOUS
  <2> QED
    BY <2>1
<1> QED
  BY <1>1, <1>2

\* As many have i or come before it as come before it, and one.
LEMMA RankCounts ==
    ASSUME NEW A, IsFiniteSet(A), NEW pos, \A h \in A : pos[h] \in Nat,
           \A g, h \in A : pos[g] = pos[h] => g = h, NEW i \in A
    PROVE  /\ Cardinality(Before(A, pos, i)) \in Nat
           /\ Cardinality({h \in A : pos[h] <= pos[i]})
                 = Cardinality(Before(A, pos, i)) + 1
<1>1. Before(A, pos, i) \in SUBSET A
  BY DEF Before
<1>2. IsFiniteSet(Before(A, pos, i))
  BY <1>1, FS_Subset
<1>3. Cardinality(Before(A, pos, i)) \in Nat
  BY <1>2, FS_CardinalityType
<1>4. {h \in A : pos[h] <= pos[i]} = Before(A, pos, i) \cup {i}
  BY DEF Before
<1>5. i \notin Before(A, pos, i)
  BY DEF Before
<1> QED
  BY <1>2, <1>3, <1>4, <1>5, FS_AddElement

\* Pairing every element with something changes no count.
LEMMA PairsCount ==
    ASSUME NEW A, IsFiniteSet(A), NEW at
    PROVE  Cardinality({<<h, at[h]>> : h \in A}) = Cardinality(A)
<1> DEFINE P == {<<h, at[h]>> : h \in A}
           pair == [h \in A |-> <<h, at[h]>>]
<1>1. pair \in Bijection(A, P)
  BY DEF Bijection, Injection, Surjection, IsInjective
<1>2. ExistsBijection(A, P)
  BY <1>1 DEF ExistsBijection
<1> HIDE DEF P
<1>3. Cardinality(P) = Cardinality(A)
  BY <1>2, FS_Bijection
<1> QED
  BY <1>3 DEF P

-----------------------------------------------------------------------------
(* The occurrence *)

\* The instructions among which the pass counts for the run of i, and where
\* one of them has the constant
Candidates(i) ==
    {j \in M.insts : /\ M.func[j] = M.func[i] /\ M.kind[j] = M.kind[i]
                     /\ input.constant \in Operands(M, j)}
Place == [j \in M.insts |-> CHOOSE k \in DOMAIN M.ops[j] :
                               M.ops[j][k] = input.constant]

\* A line that reads like one with the constant has the constant.
LEMMA LineHasConstant ==
    ASSUME input \in Inputs, NEW i \in M.insts, NEW j \in M.insts,
           input.constant \in Operands(M, i), normalize(M, j) = normalize(M, i)
    PROVE  M.kind[j] = M.kind[i] /\ input.constant \in Operands(M, j)
<1>1. /\ input.constant \in M.consts
      /\ M.consts \cap (M.insts \cup M.args \cup {"%X"}) = {}
  BY NamesAssumption, InputsAssumption DEF InputOK, NamesOK, M, Locals
<1>2. input.constant \notin M.insts \cup M.args /\ input.constant # "%X"
  BY <1>1
<1> DEFINE Line(h) == [k \in DOMAIN M.ops[h] |->
                          IF M.ops[h][k] \in M.insts \cup M.args THEN "%X"
                          ELSE M.ops[h][k]]
<1>3. M.kind[j] = M.kind[i] /\ Line(j) = Line(i)
  BY DEF normalize
<1>4. PICK k \in DOMAIN M.ops[i] : M.ops[i][k] = input.constant
  BY DEF Operands
<1>5. Line(i)[k] = input.constant
  BY <1>2, <1>4
<1>6. k \in DOMAIN M.ops[j] /\ Line(j)[k] = input.constant
  <2>1. DOMAIN Line(i) = DOMAIN M.ops[i] /\ DOMAIN Line(j) = DOMAIN M.ops[j]
    OBVIOUS
  <2> HIDE DEF Line
  <2> QED
    BY <1>3, <1>4, <1>5, <2>1
<1>7. M.ops[j][k] = input.constant
  BY <1>2, <1>6
<1> QED
  BY <1>3, <1>6, <1>7 DEF Operands

\* Where the lines are alike, locate counts the candidates down to i.
LEMMA LocateCounts ==
    ASSUME input \in Inputs, NEW i \in M.insts,
           input.constant \in Operands(M, i), Alike(i)
    PROVE  locate(M, i) = Cardinality({h \in Candidates(i) : M.pos[h] <= M.pos[i]})
<1>1. {j \in M.insts : /\ M.func[j] = M.func[i] /\ M.pos[j] <= M.pos[i]
                       /\ normalize(M, j) = normalize(M, i)}
         = {h \in Candidates(i) : M.pos[h] <= M.pos[i]}
  <2>1. ASSUME NEW j \in M.insts, M.func[j] = M.func[i]
        PROVE  j \in Candidates(i) <=> normalize(M, j) = normalize(M, i)
    BY <2>1, LineHasConstant DEF Candidates, Alike
  <2> QED
    BY <2>1 DEF Candidates
<1> QED
  BY <1>1 DEF locate

\* A candidate has the constant in one place.
LEMMA OnePlace ==
    ASSUME input \in Inputs, NEW i \in M.insts, Alike(i), NEW j \in Candidates(i)
    PROVE  /\ Place[j] \in DOMAIN M.ops[j] /\ M.ops[j][Place[j]] = input.constant
           /\ \A k \in DOMAIN M.ops[j] :
                 M.ops[j][k] = input.constant => k = Place[j]
<1> DEFINE places == {k \in DOMAIN M.ops[j] : M.ops[j][k] = input.constant}
<1>1. Cardinality(places) = 1 /\ j \in M.insts
  BY DEF Alike, Candidates
<1>2. IsFiniteSet(places)
  <2>1. ModuleOK(M)
    BY ModuleFacts
  <2>2. Len(M.ops[j]) \in Nat /\ DOMAIN M.ops[j] = 1..Len(M.ops[j])
    BY <1>1, <2>1 DEF ModuleOK
  <2>3. IsFiniteSet(1..Len(M.ops[j]))
    BY <2>2, FS_Interval
  <2>4. places \in SUBSET (1..Len(M.ops[j]))
    BY <2>2
  <2> QED
    BY <2>3, <2>4, FS_Subset
<1>3. PICK p : places = {p}
  <2> HIDE DEF places
  <2> QED
    BY <1>1, <1>2, FS_Singleton
<1>4. p \in DOMAIN M.ops[j] /\ M.ops[j][p] = input.constant
  BY <1>3
<1>5. Place[j] \in places
  BY <1>1, <1>4 DEF Place
<1> QED
  BY <1>3, <1>5

\* The pass finds the constant once in every candidate, and nowhere else.
LEMMA SitesAre ==
    ASSUME input \in Inputs, NEW i \in M.insts, Alike(i),
           input.function = M.func[i], input.opcode = M.kind[i]
    PROVE  SeedSites(input) = {<<j, Place[j]>> : j \in Candidates(i)}
<1> DEFINE Places(j) == {k \in DOMAIN M.ops[j] : M.ops[j][k] = input.constant}
           Counted == {j \in M.insts : /\ M.func[j] = input.function
                                       /\ input.opcode \in {"", M.kind[j]}}
<1>1. SeedSites(input) = UNION {{<<j, k>> : k \in Places(j)} : j \in Counted}
  BY DEF SeedSites, M
<1>2. M.kind[i] # ""
  BY ModuleFacts DEF ModuleOK, Kinds
<1>3. Counted = {j \in M.insts : M.func[j] = M.func[i] /\ M.kind[j] = M.kind[i]}
  BY <1>2
<1>4. ASSUME NEW j \in Candidates(i)
      PROVE  j \in Counted /\ Places(j) = {Place[j]}
  <2>1. j \in Counted
    BY <1>3 DEF Candidates
  <2> QED
    BY <2>1, OnePlace
<1>5. ASSUME NEW j \in Counted, NEW k \in Places(j)
      PROVE  j \in Candidates(i)
  BY <1>3 DEF Candidates, Operands
<1> HIDE DEF Places, Counted
<1> QED
  BY <1>1, <1>4, <1>5

\* Before the site of a candidate are those of the candidates before it.
LEMMA SitesBefore ==
    ASSUME input \in Inputs, NEW i \in M.insts, Alike(i), NEW j \in Candidates(i)
    PROVE  LET sites == {<<h, Place[h]>> : h \in Candidates(i)}
               earlier == {r \in sites : \/ M.pos[r[1]] < M.pos[j]
                                         \/ r[1] = j /\ r[2] < Place[j]}
           IN  /\ earlier = {<<h, Place[h]>> : h \in Before(Candidates(i), M.pos, j)}
               /\ Cardinality(earlier)
                     = Cardinality(Before(Candidates(i), M.pos, j))
<1> DEFINE sites == {<<h, Place[h]>> : h \in Candidates(i)}
           earlier == {r \in sites : \/ M.pos[r[1]] < M.pos[j]
                                     \/ r[1] = j /\ r[2] < Place[j]}
           B == Before(Candidates(i), M.pos, j)
<1>1. Place[j] \in Nat
  <2>1. Place[j] \in DOMAIN M.ops[j] /\ j \in M.insts
    BY OnePlace DEF Candidates
  <2> QED
    BY <2>1, ModuleFacts DEF ModuleOK
<1>2. earlier = {<<h, Place[h]>> : h \in B}
  BY <1>1 DEF Before
<1>3. IsFiniteSet(B)
  <2>1. B \in SUBSET M.insts
    BY DEF Before, Candidates
  <2>2. IsFiniteSet(M.insts)
    BY NamesAssumption, InputsAssumption DEF InputOK, NamesOK, M
  <2> QED
    BY <2>1, <2>2, FS_Subset
<1> HIDE DEF B
<1>4. Cardinality({<<h, Place[h]>> : h \in B}) = Cardinality(B)
  BY <1>3, PairsCount
<1> QED
  BY <1>2, <1>4 DEF B

\* The run for i selects i, and nothing else.
LEMMA SelectedIs ==
    ASSUME input \in Inputs, NEW i \in M.insts, IsRunFor(i), Alike(i)
    PROVE  Selected(input) = {i}
<1> DEFINE A == Candidates(i)
<1>1. i \in A /\ input.constant \in Operands(M, i)
  BY DEF Candidates, IsRunFor
<1>2. IsFiniteSet(A)
  <2>1. A \in SUBSET M.insts
    BY DEF Candidates
  <2>2. IsFiniteSet(M.insts)
    BY NamesAssumption, InputsAssumption DEF InputOK, NamesOK, M
  <2> QED
    BY <2>1, <2>2, FS_Subset
<1>3. /\ \A h \in A : M.pos[h] \in Nat
      /\ \A g, h \in A : M.pos[g] = M.pos[h] => g = h
  BY ModuleFacts DEF ModuleOK, Candidates
<1>4. \A j \in A : Cardinality(Before(A, M.pos, j)) \in Nat
  <2> HIDE DEF A
  <2> QED
    BY <1>2, <1>3, RankCounts
<1>5. locate(M, i) = Cardinality(Before(A, M.pos, i)) + 1
  <2>1. locate(M, i) = Cardinality({h \in A : M.pos[h] <= M.pos[i]})
    BY <1>1, LocateCounts
  <2> HIDE DEF A
  <2> QED
    BY <1>1, <1>2, <1>3, <2>1, RankCounts
<1>6. /\ input.function = M.func[i] /\ input.opcode = M.kind[i]
      /\ input.occurrence = Cardinality(Before(A, M.pos, i)) + 1
  <2>1. i \notin M.tails /\ locate(M, i) \in Nat
    BY <1>1, <1>4, <1>5 DEF Alike
  <2> QED
    BY <1>5, <2>1, RunFacts
<1> DEFINE sites == SeedSites(input)
           Earlier(s) == {r \in sites : \/ M.pos[r[1]] < M.pos[s[1]]
                                        \/ r[1] = s[1] /\ r[2] < s[2]}
<1>7. sites = {<<j, Place[j]>> : j \in A}
  BY <1>6, SitesAre
<1>8. ASSUME NEW j \in A
      PROVE  Cardinality(Earlier(<<j, Place[j]>>)) = Cardinality(Before(A, M.pos, j))
  BY <1>7, SitesBefore
<1>9. ASSUME NEW j \in A
      PROVE  (\/ input.occurrence = 0
              \/ input.occurrence = Cardinality(Earlier(<<j, Place[j]>>)) + 1)
                <=> j = i
  <2>1. input.occurrence = Cardinality(Earlier(<<j, Place[j]>>)) + 1
           <=> Cardinality(Before(A, M.pos, j)) = Cardinality(Before(A, M.pos, i))
    <3> DEFINE n == Cardinality(Before(A, M.pos, j))
               k == Cardinality(Before(A, M.pos, i))
               e == Cardinality(Earlier(<<j, Place[j]>>))
    <3>1. n \in Nat /\ k \in Nat /\ e = n /\ input.occurrence = k + 1
      BY <1>1, <1>4, <1>6, <1>8
    <3> HIDE DEF n, k, e
    <3>2. input.occurrence = e + 1 <=> n = k
      BY <3>1
    <3> QED
      BY <3>2 DEF n, k, e
  <2>2. input.occurrence # 0
    BY <1>1, <1>4, <1>6
  <2>3. Cardinality(Before(A, M.pos, j)) = Cardinality(Before(A, M.pos, i)) => j = i
    <3> HIDE DEF A
    <3> QED
      BY <1>1, <1>2, <1>3, RankTells
  <2> QED
    BY <2>1, <2>2, <2>3
<1>10. Selected(input) =
          {s[1] : s \in {t \in sites : \/ input.occurrence = 0
                                       \/ input.occurrence = Cardinality(Earlier(t)) + 1}}
  BY DEF Selected, M
<1> DEFINE Chosen(t) == \/ input.occurrence = 0
                        \/ input.occurrence = Cardinality(Earlier(t)) + 1
<1>11. \A j \in A : Chosen(<<j, Place[j]>>) <=> j = i
  BY <1>9
<1>12. Selected(input) = {s[1] : s \in {t \in sites : Chosen(t)}}
  BY <1>10
<1> HIDE DEF A, sites, Chosen
<1>13. {t \in sites : Chosen(t)} = {<<i, Place[i]>>}
  BY <1>1, <1>7, <1>11
<1>14. {s[1] : s \in {<<i, Place[i]>>}} = {i}
  OBVIOUS
<1> QED
  BY <1>12, <1>13, <1>14

-----------------------------------------------------------------------------
(* Seeding *)

\* While the pass seeds, the tainted instructions are those selected, but for
\* the ones it has yet to take.
SeededSoFar ==
    pc = "seed" =>
        TaintedValues \cap M.insts = {i \in Selected(input) : <<i, 0>> \notin todo}

LEMMA SelectedSeeds ==
    ASSUME NEW i
    PROVE  i \in Selected(input) <=> <<i, 0>> \in SeedParts(input)
<1> DEFINE Given(c) == {k \in 1..ArgSize(M, c) :
                           /\ M.ops[c][k] = input.constant
                           /\ k <= Len(M.params[CalledOperand(M, c)])}
           Calls == {h \in Selected(input) : /\ input.interproc
                                             /\ M.kind[h] = "call"
                                             /\ CalledOperand(M, h) \in M.defined}
<1>1. SeedParts(input) = {<<h, 0>> : h \in Selected(input)}
                            \cup UNION {{<<c, k>> : k \in Given(c)} : c \in Calls}
  BY DEF SeedParts, M
<1>2. \A c : 0 \notin Given(c)
  BY DEF ArgSize
<1> HIDE DEF Given, Calls
<1> QED
  BY <1>1, <1>2

LEMMA InitSeeded == Init => SeededSoFar
<1> SUFFICES ASSUME Init
             PROVE  SeededSoFar
  OBVIOUS
<1>1. TaintedValues = {} /\ todo = SeedParts(input)
  BY DEF Init
<1>2. {i \in Selected(input) : <<i, 0>> \notin todo} = {}
  BY <1>1, SelectedSeeds
<1> QED
  BY <1>1, <1>2 DEF SeededSoFar

LEMMA StepSeeded ==
    ASSUME Inductive, SeededSoFar, [Next]_vars
    PROVE  SeededSoFar'
<1>0. input \in Inputs
  BY DEF Inductive, TypeOK, DataOK
<1>1. CASE SeedInstruction
  <2>1. PICK x \in todo :
           /\ pc = "seed" /\ x[2] = 0 /\ todo' = todo \ {x}
           /\ TaintedValues' = TaintedValues \cup {x[1]} /\ input' = input
    BY <1>1 DEF SeedInstruction, Taint
  <2>2. x \in SeedParts(input) /\ x = <<x[1], 0>> /\ x[1] \in M.insts
    BY <2>1 DEF Inductive, InHand, TypeOK, ControlOK
  <2>3. x[1] \in Selected(input)
    BY <2>2, SelectedSeeds
  <2>4. M' = M /\ Selected(input)' = Selected(input)
    BY <2>1, SameModule DEF Selected, SeedSites
  <2>5. \A i : <<i, 0>> \notin todo' <=> <<i, 0>> \notin todo \/ i = x[1]
    BY <2>1, <2>2
  <2> QED
    BY <2>1, <2>2, <2>3, <2>4, <2>5 DEF SeededSoFar
<1>2. CASE SeedArgument
  <2>1. PICK x \in todo :
           /\ pc = "seed" /\ x[2] # 0 /\ todo' = todo \ {x} /\ input' = input
           /\ \/ TaintedValues' = TaintedValues
              \/ TaintedValues' = TaintedValues
                                    \cup {M.params[CalledOperand(M, x[1])][x[2]]}
    BY <1>2 DEF SeedArgument, TaintParam, Taint
  <2>2. x \in SeedParts(input)
    BY <2>1 DEF Inductive, InHand
  <2>3. M.params[CalledOperand(M, x[1])][x[2]] \in M.args
    <3>1. /\ x[2] \in Nat \ {0} /\ CalledOperand(M, x[1]) \in M.defined
          /\ x[2] <= Len(M.params[CalledOperand(M, x[1])])
      BY <1>0, <2>1, <2>2, SeedFacts
    <3>2. CalledOperand(M, x[1]) \in M.funcs
      BY <1>0, <3>1, ModuleFacts DEF ModuleOK
    <3> QED
      BY <1>0, <3>1, <3>2, ParamFacts
  <2>4. TaintedValues' \cap M.insts = TaintedValues \cap M.insts
    BY <1>0, <2>1, <2>3, ModuleFacts DEF ModuleOK
  <2>5. M' = M /\ Selected(input)' = Selected(input)
    BY <2>1, SameModule DEF Selected, SeedSites
  <2>6. \A i : <<i, 0>> \in todo' <=> <<i, 0>> \in todo
    BY <2>1
  <2> QED
    BY <2>1, <2>4, <2>5, <2>6 DEF SeededSoFar
<1>3. CASE Next /\ ~SeedInstruction /\ ~SeedArgument
  <2>1. pc' # "seed"
    <3>1. CASE SeedDone \/ Report
      BY <3>1 DEF SeedDone, Report
    <3>2. CASE Drain
      BY <3>2 DEF Drain, TakeValue, MainUser, PassToTarget, Return, StoreToGlobal,
                  StoreToParam, StoreToLocal, OtherUse, SkipTainted, UpwardUse,
                  UsersDone, User
    <3>3. CASE Scan
      BY <3>3 DEF Scan, IdentifyKills, CollectPointers, TakePointer, ScanLoad,
                  LoadsDone, ScanDone, MainDone
    <3>4. CASE Round
      BY <3>4 DEF Round, BeginRound, TaintCall, CallersDone, PassThrough,
                  TaintVariable, OtherArgument, Argument, ArgumentsDone, EndRound
    <3>5. CASE Done
      BY <3>5 DEF Done, vars, control
    <3> QED
      BY <1>3, <3>1, <3>2, <3>3, <3>4, <3>5 DEF Next, Seed
  <2> QED
    BY <2>1 DEF SeededSoFar
<1>4. CASE UNCHANGED vars
  <2>1. UNCHANGED <<pc, TaintedValues, todo, input>>
    BY <1>4 DEF vars, control, taint
  <2>2. M' = M /\ Selected(input)' = Selected(input)
    BY <2>1, SameModule DEF Selected, SeedSites
  <2> QED
    BY <2>1, <2>2 DEF SeededSoFar
<1> QED
  BY <1>1, <1>2, <1>3, <1>4

\* The occurrence that locate-const-in-ir.py writes in an input.txt (112-139)
\* is the one that the pass finds (744-781), where the lines among which they
\* count read alike and have the constant once.
THEOREM AlikeAlwaysSeeded == Spec => []AlikeIsSeeded
<1>1. Inductive /\ SeededSoFar => AlikeIsSeeded
  <2> SUFFICES ASSUME Inductive, SeededSoFar, Seeded,
                      NEW i \in M.insts, IsRunFor(i), Alike(i)
               PROVE  StartsWith(i)
    BY DEF AlikeIsSeeded
  <2>1. Selected(input) = {i}
    BY SelectedIs DEF Inductive, TypeOK, DataOK
  <2> QED
    BY <2>1 DEF SeededSoFar, Seeded, StartsWith
<1> QED
  BY <1>1, InitSeeded, StepSeeded, AlwaysInductive, PTL DEF Spec

=============================================================================
