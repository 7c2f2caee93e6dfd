------------------------- MODULE TaintTracker_proofs -------------------------
(***************************************************************************)
(* Theorems about TaintTracker, for every set of modules and inputs that   *)
(* satisfies ModulesAssumption and InputsAssumption.                       *)
(***************************************************************************)
EXTENDS TaintProperties, TLAPS

-----------------------------------------------------------------------------
(* The module and the operators of the model *)

\* A run keeps its module: what is read of it does not change.
LEMMA SameModule ==
    ASSUME input' = input
    PROVE  M' = M
BY DEF M

\* The parts of a call depend on the input alone.
LEMMA SameParts ==
    ASSUME input' = input, NEW c, NEW v
    PROVE  TargetParts(c, v)' = TargetParts(c, v)
<1>1. M' = M
  BY SameModule
<1>2. ArgIndices(c, v)' = ArgIndices(c, v)
  BY <1>1 DEF ArgIndices
<1>3. IndirectTargets(c)' = IndirectTargets(c)
  BY <1>1 DEF IndirectTargets, TargetEntry, FunctionStores
<1> QED
  BY <1>1, <1>2, <1>3 DEF TargetParts

\* The module of a run is well formed, and so are its parameters.
LEMMA ModuleFacts ==
    ASSUME input \in Inputs
    PROVE  ModuleOK(M) /\ InputOK(input)
BY ModulesAssumption, InputsAssumption DEF InputOK, M

\* The types of what the pass reads of an instruction
LEMMA InstFacts ==
    ASSUME input \in Inputs
    PROVE  /\ \A i \in M.insts :
                 /\ M.func[i] \in M.funcs /\ M.kind[i] \in Kinds
                 /\ \A k \in DOMAIN M.ops[i] : M.ops[i][k] \in Values(M)
           /\ \A s \in Of(M, "store") :
                 /\ s \in M.insts
                 /\ StoredValue(M, s) \in Operands(M, s)
                 /\ M.ops[s][2] \in Values(M)
                 /\ StorePointer(M, s) \in Values(M)
                 /\ StoresThrough(s) \in Nat
           /\ \A c \in Of(M, "call") :
                 /\ c \in M.insts /\ ArgSize(M, c) \in Nat
                 /\ 1..ArgSize(M, c) \subseteq DOMAIN M.ops[c]
<1>1. ModuleOK(M)
  BY ModuleFacts
<1>2. ASSUME NEW i \in M.insts
      PROVE  /\ M.func[i] \in M.funcs /\ M.kind[i] \in Kinds
             /\ \A k \in DOMAIN M.ops[i] : M.ops[i][k] \in Values(M)
  BY <1>1 DEF ModuleOK
<1>3. ASSUME NEW s \in Of(M, "store")
      PROVE  /\ s \in M.insts
             /\ StoredValue(M, s) \in Operands(M, s)
             /\ M.ops[s][2] \in Values(M)
             /\ StorePointer(M, s) \in Values(M)
             /\ StoresThrough(s) \in Nat
  <2>1. s \in M.insts /\ Len(M.ops[s]) = 2 /\ M.ops[s] \in Seq(Values(M))
    BY <1>1 DEF ModuleOK, Of
  <2>2. DOMAIN M.ops[s] = 1..2
    BY <2>1
  <2>3. 1 \in DOMAIN M.ops[s] /\ 2 \in DOMAIN M.ops[s] /\ M.ops[s][2] \in Values(M)
    BY <2>1, <2>2
  <2>4. M.strip \in [Values(M) -> Values(M)] /\ M.origin \in [Values(M) -> Nat]
    BY <1>1 DEF ModuleOK
  <2> QED
    BY <2>1, <2>3, <2>4 DEF StoredValue, Operands, StorePointer, StoresThrough
<1>4. ASSUME NEW c \in Of(M, "call")
      PROVE  /\ c \in M.insts /\ ArgSize(M, c) \in Nat
             /\ 1..ArgSize(M, c) \subseteq DOMAIN M.ops[c]
  <2>1. c \in M.insts /\ Len(M.ops[c]) >= 1 /\ M.ops[c] \in Seq(Values(M))
    BY <1>1 DEF ModuleOK, Of
  <2> QED
    BY <2>1 DEF ArgSize
<1> QED
  BY <1>2, <1>3, <1>4

\* A formal parameter in a position the function has is an argument.
LEMMA ParamFacts ==
    ASSUME input \in Inputs, NEW f \in M.funcs, NEW k \in Nat \ {0},
           k <= Len(M.params[f])
    PROVE  M.params[f][k] \in M.args
<1>1. M.params[f] \in Seq(M.args)
  BY ModuleFacts DEF ModuleOK
<1> QED
  BY <1>1

\* A seed is a use of the constant in the source function, or an argument of
\* such a call in a position that the callee has.
LEMMA SeedFacts ==
    ASSUME input \in Inputs, NEW x \in SeedParts(input)
    PROVE  /\ x \in M.insts \X Nat /\ M.func[x[1]] = input.function
           /\ input.constant \in Operands(M, x[1])
           /\ x[2] # 0 =>
                 /\ input.interproc /\ x[1] \in Of(M, "call")
                 /\ CalledOperand(M, x[1]) \in M.defined
                 /\ x[2] \in 1..ArgSize(M, x[1])
                 /\ M.ops[x[1]][x[2]] = input.constant
                 /\ x[2] <= Len(M.params[CalledOperand(M, x[1])])
<1>1. ASSUME NEW y \in SeedSites(input)
      PROVE  /\ y[1] \in M.insts /\ M.func[y[1]] = input.function
             /\ input.constant \in Operands(M, y[1])
  <2>1. PICK i \in {i \in M.insts : /\ M.func[i] = input.function
                                    /\ input.opcode \in {"", M.kind[i]}} :
            \E k \in {k \in DOMAIN M.ops[i] : M.ops[i][k] = input.constant} :
                y = <<i, k>>
    BY Zenon DEF SeedSites, M
  <2>2. PICK k \in DOMAIN M.ops[i] : M.ops[i][k] = input.constant /\ y = <<i, k>>
    BY <2>1, Zenon
  <2>3. y[1] = i /\ i \in M.insts /\ M.func[i] = input.function
    BY <2>2
  <2>4. input.constant \in Operands(M, i)
    BY <2>2 DEF Operands
  <2> QED
    BY <2>2, <2>3, <2>4
<1>2. ASSUME NEW i \in Selected(input)
      PROVE  /\ i \in M.insts /\ M.func[i] = input.function
             /\ input.constant \in Operands(M, i)
  <2>1. \E y \in SeedSites(input) : i = y[1]
    BY Zenon DEF Selected
  <2> QED
    BY <1>1, <2>1
<1>3. CASE \E i \in Selected(input) : x = <<i, 0>>
  BY <1>2, <1>3
<1>4. CASE \E c \in Selected(input) : \E k \in 1..ArgSize(M, c) :
              /\ x = <<c, k>> /\ input.interproc /\ M.kind[c] = "call"
              /\ CalledOperand(M, c) \in M.defined
              /\ M.ops[c][k] = input.constant
              /\ k <= Len(M.params[CalledOperand(M, c)])
  <2>1. PICK c \in Selected(input) : \E k \in 1..ArgSize(M, c) :
              /\ x = <<c, k>> /\ input.interproc /\ M.kind[c] = "call"
              /\ CalledOperand(M, c) \in M.defined
              /\ M.ops[c][k] = input.constant
              /\ k <= Len(M.params[CalledOperand(M, c)])
    BY <1>4
  <2>2. c \in Of(M, "call") /\ ArgSize(M, c) \in Nat
    BY <1>2, <2>1, InstFacts DEF Of
  <2> QED
    BY <1>2, <2>1, <2>2
<1>5. \/ \E i \in Selected(input) : x = <<i, 0>>
      \/ \E c \in Selected(input) : \E k \in 1..ArgSize(M, c) :
              /\ x = <<c, k>> /\ input.interproc /\ M.kind[c] = "call"
              /\ CalledOperand(M, c) \in M.defined
              /\ M.ops[c][k] = input.constant
              /\ k <= Len(M.params[CalledOperand(M, c)])
  BY DEF SeedParts, M
<1> QED
  BY <1>3, <1>4, <1>5

\* Setting an entry of a map keeps its type and its other entries.
LEMMA PutFacts ==
    ASSUME NEW K, NEW V, NEW map, Typed(map, K, V), NEW k \in K, NEW v \in V
    PROVE  /\ Typed(Put(map, k, v), K, V)
           /\ Typed(PutIfAbsent(map, k, v), K, V)
           /\ \A j \in DOMAIN map :
                 /\ j # k => j \in DOMAIN Put(map, k, v) /\ Put(map, k, v)[j] = map[j]
                 /\ /\ j \in DOMAIN PutIfAbsent(map, k, v)
                    /\ PutIfAbsent(map, k, v)[j] = map[j]
BY DEF Typed, Put, PutIfAbsent

\* Levels are integers.
LEMMA LevelFacts ==
    ASSUME DataOK
    PROVE  /\ \A v : getLevel(v) \in Int
           /\ \A f : LevelAbove(f) \in Int
BY DEF DataOK, Typed, getLevel, LevelAbove

LEMMA SetLevelFacts ==
    ASSUME DataOK, NEW n \in Int
    PROVE  /\ \A v \in M.insts \cup M.args :
                 /\ Typed(Put(ValueLevel, v, n), M.insts \cup M.args, Int)
                 /\ Typed(PutIfAbsent(ValueLevel, v, n), M.insts \cup M.args, Int)
           /\ \A f \in M.funcs :
                 /\ Typed(Put(FunctionLevel, f, n), M.funcs, Int)
                 /\ Typed(PutIfAbsent(FunctionLevel, f, n), M.funcs, Int)
BY PutFacts DEF DataOK

-----------------------------------------------------------------------------
(* What the steps have in common *)

\* Tainting an instruction or an argument keeps the worklist typed.
LEMMA TaintFacts ==
    ASSUME DataOK, UNCHANGED input, NEW v \in M.insts \cup M.args, Taint(v)
    PROVE  /\ TaintedValues' \subseteq M'.insts \cup M'.args
           /\ TaintedValues \subseteq TaintedValues'
           /\ Worklist' \in Seq(TaintedValues')
<1>1. M' = M
  BY SameModule
<1>2. Worklist \in Seq(TaintedValues \cup {v})
  <2>1. TaintedValues \subseteq TaintedValues \cup {v}
    OBVIOUS
  <2> QED
    BY <2>1 DEF DataOK
<1> QED
  BY <1>1, <1>2 DEF DataOK, Taint

\* A loop that goes on with what it has in hand.
LEMMA LoopGoesOn ==
    ASSUME Inductive, Grows, UNCHANGED <<input, stage, pc, cur>>,
           todo' \subseteq todo, pc # "seed"
    PROVE  InHand'
<1>1. M' = M
  BY SameModule
<1>2. \A c, v : TargetParts(c, v)' = TargetParts(c, v)
  BY SameParts
<1> QED
  BY <1>1, <1>2 DEF Inductive, InHand, Grows

\* A step that touches neither pointers nor kills.
LEMMA OriginsKept ==
    ASSUME Inductive, TaintedValues \subseteq TaintedValues',
           UNCHANGED <<input, TaintedPointers, PointerTaintOrigin, KilledStores>>
    PROVE  OriginsTainted' /\ OriginsNotKilled'
<1>1. M' = M
  BY SameModule
<1> QED
  BY <1>1 DEF Inductive, OriginsTainted, OriginsNotKilled

\* A step of the control only.
LEMMA DataKept ==
    ASSUME Inductive, UNCHANGED <<input, taint, Worklist, KilledStores, maps>>
    PROVE  DataOK' /\ OriginsTainted' /\ OriginsNotKilled' /\ Grows
<1>1. M' = M
  BY SameModule
<1>2. DataOK'
  BY <1>1 DEF Inductive, TypeOK, DataOK, taint, maps
<1>3. OriginsTainted' /\ OriginsNotKilled'
  BY OriginsKept DEF taint, maps
<1> QED
  BY <1>2, <1>3 DEF Grows, taint

\* Tainting the pointer of a store that is, or becomes, tainted.
LEMMA TaintPointerFacts ==
    ASSUME Inductive, UNCHANGED <<input, KilledStores>>,
           NEW s \in Of(M, "store"), TaintPointer(StorePointer(M, s), s),
           s \in TaintedValues', TaintedValues \subseteq TaintedValues'
    PROVE  /\ TaintedPointers \subseteq TaintedPointers'
           /\ TaintedPointers' \subseteq Values(M)'
           /\ PointerTaintOrigin' \in [TaintedPointers' -> M'.insts]
           /\ OriginsTainted' /\ OriginsNotKilled'
<1>1. M' = M
  BY SameModule
<1>2. s \in M.insts /\ StorePointer(M, s) \in Values(M)
  BY InstFacts DEF Inductive, TypeOK, DataOK
<1>3. PointerTaintOrigin \in [TaintedPointers -> M.insts]
  BY DEF Inductive, TypeOK, DataOK
<1>4. /\ TaintedPointers' = TaintedPointers \cup {StorePointer(M, s)}
      /\ PointerTaintOrigin' \in [TaintedPointers' -> M.insts]
      /\ \A p \in TaintedPointers : PointerTaintOrigin'[p] = PointerTaintOrigin[p]
      /\ StorePointer(M, s) \notin TaintedPointers =>
            PointerTaintOrigin'[StorePointer(M, s)] = s
  BY <1>2, <1>3 DEF TaintPointer, Put
<1>5. TaintedPointers' \subseteq Values(M)'
  BY <1>1, <1>2, <1>4 DEF Inductive, TypeOK, DataOK
<1>6. OriginsTainted'
  BY <1>1, <1>4 DEF Inductive, OriginsTainted
<1>7. StorePointer(M, s) \notin TaintedPointers => s \notin KilledStores
  BY DEF Inductive, OriginsTainted
<1>8. OriginsNotKilled'
  BY <1>4, <1>7 DEF Inductive, OriginsNotKilled
<1> QED
  BY <1>1, <1>4, <1>5, <1>6, <1>8

-----------------------------------------------------------------------------
(* The initial states *)

LEMMA InitInductive == Init => Inductive
<1> SUFFICES ASSUME Init
             PROVE  Inductive
  OBVIOUS
<1>1. ModuleOK(M) /\ InputOK(input)
  BY ModuleFacts DEF Init
<1>2. DataOK
  BY DEF Init, DataOK, Typed
<1>3. \A x \in SeedParts(input) : x \in M.insts \X Nat
  BY SeedFacts DEF Init
<1>4. TypeOK
  BY <1>2, <1>3 DEF Init, TypeOK, ControlOK
<1>5. InHand
  BY DEF Init, InHand
<1>6. OriginsTainted /\ OriginsNotKilled
  BY DEF Init, OriginsTainted, OriginsNotKilled
<1> QED
  BY <1>4, <1>5, <1>6 DEF Inductive

-----------------------------------------------------------------------------
(* Seeding *)

LEMMA SeedInstructionStep ==
    ASSUME Inductive, SeedInstruction
    PROVE  Inductive' /\ Grows
<1> USE DEF Inductive, TypeOK
<1>1. /\ M' = M
      /\ UNCHANGED <<input, KilledStores, flags, stage, pc, toScan, scanned>>
  BY SameModule DEF SeedInstruction
<1>2. PICK x \in todo :
        LET i == x[1]
            isConst(k) == k \in DOMAIN M.ops[i] /\ M.ops[i][k] = input.constant
            toGlobal == M.kind[i] = "store" /\ StorePointer(M, i) \in M.globals
        IN
        /\ pc = "seed" /\ x[2] = 0 /\ todo' = todo \ {x} /\ Taint(i)
        /\ FunctionLevel' = Put(FunctionLevel, M.func[i], 0)
        /\ ValueLevel' = Put(ValueLevel, i, 0)
        /\ FunctionsReturningTaint' = FunctionsReturningTaint \cup
              (IF M.kind[i] = "ret" /\ isConst(1) THEN {M.func[i]} ELSE {})
        /\ IF IsParamStore(i) /\ ~toGlobal
           THEN FunctionsTaintingPointerParams' =
                    FunctionsTaintingPointerParams \cup ParamOf(i)
           ELSE UNCHANGED FunctionsTaintingPointerParams
        /\ IF M.kind[i] = "store" /\ ~toGlobal /\ ~IsParamStore(i)
           THEN TaintPointer(StorePointer(M, i), i)
           ELSE UNCHANGED <<TaintedPointers, PointerTaintOrigin>>
  BY DEF SeedInstruction
<1> DEFINE i == x[1]
<1>3. x \in SeedParts(input) /\ i \in M.insts /\ M.func[i] \in M.funcs
  BY <1>2, SeedFacts, InstFacts DEF InHand, DataOK
<1>4. /\ TaintedValues' \subseteq M'.insts \cup M'.args
      /\ TaintedValues \subseteq TaintedValues' /\ i \in TaintedValues'
      /\ Worklist' \in Seq(TaintedValues')
  BY <1>1, <1>2, <1>3, TaintFacts DEF Taint
<1>5. /\ Typed(ValueLevel', M'.insts \cup M'.args, Int)
      /\ Typed(FunctionLevel', M'.funcs, Int)
  <2>1. 0 \in Int /\ i \in M.insts \cup M.args
    BY <1>3
  <2>2. /\ Typed(Put(ValueLevel, i, 0), M.insts \cup M.args, Int)
        /\ Typed(Put(FunctionLevel, M.func[i], 0), M.funcs, Int)
    BY <1>3, <2>1, SetLevelFacts, Zenon
  <2> QED
    BY <1>1, <1>2, <2>2
<1>6. /\ FunctionsReturningTaint' \subseteq M'.funcs
      /\ FunctionsTaintingPointerParams' \subseteq M'.funcs \X (Nat \ {0})
  <2>1. IsParamStore(i) => StoresThrough(i) \in Nat \ {0}
    BY <1>3, InstFacts DEF IsParamStore, Of, DataOK
  <2> QED
    BY <1>1, <1>2, <1>3, <2>1 DEF ParamOf, DataOK
<1>7. /\ TaintedPointers \subseteq TaintedPointers'
      /\ TaintedPointers' \subseteq Values(M)'
      /\ PointerTaintOrigin' \in [TaintedPointers' -> M'.insts]
      /\ OriginsTainted' /\ OriginsNotKilled'
  <2>1. CASE TaintedPointers' = TaintedPointers /\ PointerTaintOrigin' = PointerTaintOrigin
    BY <1>1, <1>4, <2>1, OriginsKept DEF DataOK
  <2>2. CASE i \in Of(M, "store") /\ TaintPointer(StorePointer(M, i), i)
    BY <1>1, <1>4, <2>2, TaintPointerFacts
  <2> QED
    BY <1>2, <1>3, <2>1, <2>2 DEF Of
<1>8. Grows
  BY <1>2, <1>4, <1>7 DEF Grows
<1>9. DataOK'
  BY <1>1, <1>4, <1>5, <1>6, <1>7 DEF DataOK
<1>10. ControlOK'
  BY <1>1, <1>2, <1>7 DEF flags, ControlOK
<1>11. \A y \in todo' : y[2] = 0 => y[1] \notin TaintedValues'
  <2>1. ASSUME NEW y \in todo', y[2] = 0, y[1] = i
        PROVE  FALSE
    <3>1. x \in M.insts \X Nat /\ y \in M.insts \X Nat
      BY <1>2 DEF ControlOK
    <3> QED
      BY <1>2, <2>1, <3>1
  <2> QED
    BY <1>2, <2>1 DEF InHand, Taint
<1>12. InHand'
  BY <1>1, <1>2, <1>11 DEF InHand
<1> QED
  BY <1>7, <1>8, <1>9, <1>10, <1>12

\* A parameter of a function the pass follows
LEMMA TaintParamFacts ==
    ASSUME DataOK, UNCHANGED input, NEW param \in M.args, NEW f \in M.funcs,
           NEW level \in Int, TaintParam(param, f, level)
    PROVE  /\ TaintedValues' \subseteq M'.insts \cup M'.args
           /\ TaintedValues \subseteq TaintedValues'
           /\ Worklist' \in Seq(TaintedValues')
           /\ Typed(FunctionLevel', M'.funcs, Int)
<1>1. M' = M
  BY SameModule
<1>2. CASE UNCHANGED <<TaintedValues, Worklist, FunctionLevel>>
  BY <1>1, <1>2 DEF DataOK
<1>3. CASE Taint(param) /\ FunctionLevel' = Put(FunctionLevel, f, level - 1)
  BY <1>1, <1>3, TaintFacts, PutFacts DEF DataOK
<1> QED
  BY <1>2, <1>3 DEF TaintParam

LEMMA SeedArgumentStep ==
    ASSUME Inductive, SeedArgument
    PROVE  Inductive' /\ Grows
<1> USE DEF Inductive, TypeOK
<1>1. /\ M' = M
      /\ UNCHANGED <<input, TaintedPointers, FunctionsReturningTaint,
                     FunctionsTaintingPointerParams, KilledStores,
                     PointerTaintOrigin, flags, stage, pc, toScan, scanned>>
  BY SameModule DEF SeedArgument
<1>2. PICK x \in todo :
        LET f == CalledOperand(M, x[1])
            param == M.params[f][x[2]]
        IN
        /\ pc = "seed" /\ x[2] # 0 /\ todo' = todo \ {x}
        /\ TaintParam(param, f, getLevel(x[1]))
        /\ ValueLevel' = IF param \in TaintedValues THEN ValueLevel
                         ELSE Put(ValueLevel, param, getLevel(x[1]) - 1)
  BY DEF SeedArgument
<1> DEFINE f == CalledOperand(M, x[1])
           param == M.params[f][x[2]]
<1>3. x \in SeedParts(input) /\ x \in M.insts \X Nat
  BY <1>2 DEF InHand, ControlOK
<1>4. f \in M.funcs /\ param \in M.args
  <2>1. f \in M.defined /\ x[2] <= Len(M.params[f]) /\ x[2] \in Nat \ {0}
    BY <1>2, <1>3, SeedFacts DEF DataOK
  <2>2. f \in M.funcs
    BY <2>1, ModuleFacts DEF ModuleOK, DataOK
  <2> QED
    BY <2>1, <2>2, ParamFacts DEF DataOK
<1>5. getLevel(x[1]) \in Int
  BY LevelFacts
<1>6. /\ TaintedValues' \subseteq M'.insts \cup M'.args
      /\ TaintedValues \subseteq TaintedValues'
      /\ Worklist' \in Seq(TaintedValues')
      /\ Typed(FunctionLevel', M'.funcs, Int)
  BY <1>1, <1>2, <1>4, <1>5, TaintParamFacts
<1>7. Typed(ValueLevel', M'.insts \cup M'.args, Int)
  <2>1. getLevel(x[1]) - 1 \in Int /\ param \in M.insts \cup M.args
    BY <1>4, <1>5
  <2>2. Typed(Put(ValueLevel, param, getLevel(x[1]) - 1), M.insts \cup M.args, Int)
    BY <2>1, SetLevelFacts, Zenon
  <2> QED
    BY <1>1, <1>2, <2>2 DEF DataOK
<1>8. Grows
  BY <1>1, <1>6 DEF Grows
<1>9. DataOK'
  BY <1>1, <1>6, <1>7 DEF DataOK
<1>10. ControlOK'
  BY <1>1, <1>2 DEF flags, ControlOK
<1>11. \A y \in todo' : y[2] = 0 => y[1] \notin TaintedValues'
  <2>1. TaintedValues' \subseteq TaintedValues \cup {param}
    BY <1>2 DEF TaintParam, Taint
  <2>2. param \notin M.insts
    BY <1>4, ModuleFacts DEF ModuleOK, DataOK
  <2> QED
    BY <1>2, <2>1, <2>2 DEF InHand, ControlOK
<1>12. InHand'
  BY <1>1, <1>2, <1>11 DEF InHand
<1>13. OriginsTainted' /\ OriginsNotKilled'
  BY <1>1, <1>6, OriginsKept
<1> QED
  BY <1>8, <1>9, <1>10, <1>12, <1>13

-----------------------------------------------------------------------------
(* The users of a value *)

\* An iteration of a loop, given what it does to the data.
LEMMA LoopStep ==
    ASSUME Inductive, Grows, DataOK', OriginsTainted', OriginsNotKilled',
           UNCHANGED <<input, stage, pc, cur, toScan, scanned>>,
           todo' \subseteq todo, pc # "seed",
           changed' \in BOOLEAN, discovered' \in BOOLEAN
    PROVE  Inductive'
<1>1. M' = M
  BY SameModule
<1>2. ControlOK'
  BY <1>1 DEF Inductive, TypeOK, ControlOK, Grows
<1>3. InHand'
  BY LoopGoesOn
<1> QED
  BY <1>2, <1>3 DEF Inductive, TypeOK

LEMMA UserFacts ==
    ASSUME Inductive, NEW x \in todo, NEW mode, User(x, mode)
    PROVE  /\ M' = M
           /\ UNCHANGED <<input, KilledStores, stage, pc, cur, toScan, scanned>>
           /\ todo' \subseteq todo /\ pc = "users" /\ stage = mode
           /\ cur \in TaintedValues
           /\ x[1] \in M.insts /\ x[2] \in Nat
           /\ x[1] \in Users(M, cur)
           /\ x[2] # 0 => /\ M.kind[x[1]] = "call"
                          /\ x[2] \in TargetParts(x[1], cur)
<1>1. M' = M
  BY SameModule DEF User
<1> QED
  BY <1>1 DEF User, Inductive, TypeOK, ControlOK, InHand

LEMMA PropagateFacts ==
    ASSUME DataOK, UNCHANGED input, NEW u \in M.insts, Propagate(u)
    PROVE  /\ TaintedValues' \subseteq M'.insts \cup M'.args
           /\ TaintedValues \subseteq TaintedValues' /\ u \in TaintedValues'
           /\ Worklist' \in Seq(TaintedValues')
           /\ Typed(ValueLevel', M'.insts \cup M'.args, Int)
<1>1. M' = M
  BY SameModule
<1>2. /\ TaintedValues' \subseteq M'.insts \cup M'.args
      /\ TaintedValues \subseteq TaintedValues' /\ u \in TaintedValues'
      /\ Worklist' \in Seq(TaintedValues')
  <2>1. CASE u \in TaintedValues
    BY <1>1, <2>1 DEF Propagate, DataOK
  <2>2. CASE u \notin TaintedValues
    BY <2>2, TaintFacts DEF Propagate, Taint
  <2> QED
    BY <2>1, <2>2
<1>3. getLevel(cur) \in Int /\ u \in M.insts \cup M.args
  BY LevelFacts
<1>4. /\ Typed(Put(ValueLevel, u, getLevel(cur)), M.insts \cup M.args, Int)
      /\ Typed(PutIfAbsent(ValueLevel, u, getLevel(cur)), M.insts \cup M.args, Int)
  BY <1>3, SetLevelFacts, Zenon
<1> QED
  BY <1>1, <1>2, <1>4 DEF Propagate, DataOK

\* A part of a call that the pass follows has an argument in hand.
LEMMA PartFacts ==
    ASSUME input \in Inputs, NEW c \in Of(M, "call"), NEW v,
           NEW n \in TargetParts(c, v)
    PROVE  LET k == CHOOSE k \in ArgIndices(c, v) : TRUE IN
           /\ input.interproc
           /\ k \in 1..ArgSize(M, c) /\ k \in Nat \ {0} /\ M.ops[c][k] = v
<1> DEFINE k == CHOOSE k \in ArgIndices(c, v) : TRUE
<1>1. input.interproc /\ ArgIndices(c, v) # {}
  BY DEF TargetParts
<1>2. k \in ArgIndices(c, v)
  BY <1>1
<1>3. k \in 1..ArgSize(M, c) /\ M.ops[c][k] = v
  BY <1>2 DEF ArgIndices
<1> HIDE DEF k
<1>4. k \in Nat \ {0}
  BY <1>3, InstFacts
<1>5. input.interproc /\ k \in 1..ArgSize(M, c) /\ k \in Nat \ {0} /\ M.ops[c][k] = v
  BY <1>1, <1>3, <1>4
<1> QED
  BY <1>5, Zenon DEF k

LEMMA PassToTargetStep ==
    ASSUME Inductive, PassToTarget
    PROVE  Inductive' /\ Grows
<1>1. PICK x \in todo :
        LET f == TargetOf(x[1], x[2])
            k == CHOOSE k \in ArgIndices(x[1], cur) : TRUE
            param == M.params[f][k]
            level == getLevel(cur)
            reported == IF IsDirect(M, x[1])
                        THEN PutIfAbsent(ValueLevel, x[1], level) ELSE ValueLevel
        IN
        /\ x[2] # 0 /\ User(x, "main")
        /\ IF f \in M.defined /\ k <= Len(M.params[f])
           THEN /\ TaintParam(param, f, level)
                /\ ValueLevel' = IF param \in TaintedValues THEN reported
                                 ELSE Put(reported, param, level - 1)
                /\ changed' = (changed \/ param \notin TaintedValues)
           ELSE /\ ValueLevel' = reported
                /\ UNCHANGED <<TaintedValues, Worklist, FunctionLevel, changed>>
  BY DEF PassToTarget
<1>2. UNCHANGED <<TaintedPointers, FunctionsReturningTaint,
                  FunctionsTaintingPointerParams, PointerTaintOrigin, discovered>>
  BY DEF PassToTarget
<1> DEFINE c == x[1]
           f == TargetOf(c, x[2])
           k == CHOOSE k \in ArgIndices(c, cur) : TRUE
           param == M.params[f][k]
           level == getLevel(cur)
           reported == IF IsDirect(M, c) THEN PutIfAbsent(ValueLevel, c, level)
                       ELSE ValueLevel
<1>3. DataOK /\ input \in Inputs
  BY DEF Inductive, TypeOK, DataOK
<1>4. /\ M' = M
      /\ UNCHANGED <<input, KilledStores, stage, pc, cur, toScan, scanned>>
      /\ todo' \subseteq todo /\ pc = "users"
      /\ c \in M.insts /\ c \in Of(M, "call") /\ x[2] \in TargetParts(c, cur)
  BY <1>1, UserFacts DEF Of
<1>5. level \in Int
  BY <1>3, LevelFacts
<1>6. k \in Nat \ {0}
  BY <1>3, <1>4, PartFacts
<1>7. f \in M.defined /\ k <= Len(M.params[f]) => f \in M.funcs /\ param \in M.args
  <2>1. f \in M.defined => f \in M.funcs
    BY <1>3, ModuleFacts DEF ModuleOK
  <2> QED
    BY <1>3, <1>6, <2>1, ParamFacts
<1>8. Typed(reported, M.insts \cup M.args, Int)
  <2>1. c \in M.insts \cup M.args
    BY <1>4
  <2>2. Typed(PutIfAbsent(ValueLevel, c, level), M.insts \cup M.args, Int)
    BY <1>3, <1>5, <2>1, SetLevelFacts, Zenon
  <2> QED
    BY <1>3, <2>2 DEF DataOK
<1>9. /\ TaintedValues' \subseteq M'.insts \cup M'.args
      /\ TaintedValues \subseteq TaintedValues'
      /\ Worklist' \in Seq(TaintedValues')
      /\ Typed(FunctionLevel', M'.funcs, Int)
      /\ Typed(ValueLevel', M'.insts \cup M'.args, Int)
      /\ changed' \in BOOLEAN
  <2>1. CASE f \in M.defined /\ k <= Len(M.params[f])
    <3>1. TaintParam(param, f, level)
      BY <1>1, <2>1
    <3>2. ValueLevel' = IF param \in TaintedValues THEN reported
                        ELSE Put(reported, param, level - 1)
      BY <1>1, <2>1
    <3>3. level - 1 \in Int /\ param \in M.insts \cup M.args
      BY <1>5, <1>7, <2>1
    <3>4. Typed(Put(reported, param, level - 1), M.insts \cup M.args, Int)
      BY <1>8, <3>3, PutFacts, Zenon
    <3>5. Typed(ValueLevel', M'.insts \cup M'.args, Int)
      BY <1>4, <1>8, <3>2, <3>4
    <3>6. changed' = (changed \/ param \notin TaintedValues)
      BY <1>1, <2>1
    <3> QED
      BY <1>3, <1>4, <1>5, <1>7, <2>1, <3>1, <3>5, <3>6, TaintParamFacts
  <2>2. CASE ~(f \in M.defined /\ k <= Len(M.params[f]))
    <3>1. /\ ValueLevel' = reported
          /\ UNCHANGED <<TaintedValues, Worklist, FunctionLevel, changed>>
      BY <1>1, <2>2
    <3> QED
      BY <1>3, <1>4, <1>8, <3>1 DEF DataOK, Inductive, TypeOK, ControlOK
  <2> QED
    BY <2>1, <2>2
<1>10. DataOK'
  BY <1>2, <1>3, <1>4, <1>9 DEF DataOK
<1>11. Grows
  BY <1>2, <1>9 DEF Grows
<1>12. OriginsTainted' /\ OriginsNotKilled'
  BY <1>2, <1>4, <1>9, OriginsKept
<1>13. discovered' \in BOOLEAN
  BY <1>2 DEF Inductive, TypeOK, ControlOK
<1> QED
  BY <1>4, <1>9, <1>10, <1>11, <1>12, <1>13, LoopStep

LEMMA ReturnStep ==
    ASSUME Inductive, Return
    PROVE  Inductive' /\ Grows
<1>1. PICK x \in todo :
        /\ User(x, "main")
        /\ FunctionsReturningTaint' = FunctionsReturningTaint \cup {M.func[x[1]]}
        /\ UNCHANGED <<TaintedValues, TaintedPointers, Worklist, maps, changed,
                       FunctionsTaintingPointerParams, discovered>>
  BY DEF Return
<1>2. /\ M' = M
      /\ UNCHANGED <<input, KilledStores, stage, pc, cur, toScan, scanned>>
      /\ todo' \subseteq todo /\ pc = "users" /\ x[1] \in M.insts
  BY <1>1, UserFacts
<1>3. DataOK
  BY DEF Inductive, TypeOK
<1>4. M.func[x[1]] \in M.funcs
  BY <1>2, <1>3, InstFacts DEF DataOK
<1>5. DataOK'
  BY <1>1, <1>2, <1>3, <1>4 DEF DataOK, maps
<1>6. Grows
  BY <1>1 DEF Grows
<1>7. OriginsTainted' /\ OriginsNotKilled'
  BY <1>1, <1>2, OriginsKept DEF maps
<1>8. changed' \in BOOLEAN /\ discovered' \in BOOLEAN
  BY <1>1 DEF Inductive, TypeOK, ControlOK
<1> QED
  BY <1>2, <1>5, <1>6, <1>7, <1>8, LoopStep

LEMMA StoreToGlobalStep ==
    ASSUME Inductive, StoreToGlobal
    PROVE  Inductive' /\ Grows
<1>1. PICK x \in todo :
        User(x, "main") /\ UNCHANGED <<taint, Worklist, maps, changed, discovered>>
  BY DEF StoreToGlobal
<1>2. /\ UNCHANGED <<input, KilledStores, stage, pc, cur, toScan, scanned>>
      /\ todo' \subseteq todo /\ pc = "users"
  BY <1>1, UserFacts
<1>3. DataOK' /\ OriginsTainted' /\ OriginsNotKilled' /\ Grows
  BY <1>1, <1>2, DataKept
<1>4. changed' \in BOOLEAN /\ discovered' \in BOOLEAN
  BY <1>1 DEF Inductive, TypeOK, ControlOK
<1> QED
  BY <1>2, <1>3, <1>4, LoopStep

\* A pointer parameter that a store goes through is a parameter.
LEMMA ParamStoreFacts ==
    ASSUME input \in Inputs, NEW s \in Of(M, "store"), IsParamStore(s)
    PROVE  ParamOf(s) \subseteq M.funcs \X (Nat \ {0})
<1>1. StoresThrough(s) \in Nat \ {0}
  BY InstFacts DEF IsParamStore
<1>2. M.func[s] \in M.funcs
  BY InstFacts
<1> QED
  BY <1>1, <1>2 DEF ParamOf

LEMMA StoreToParamStep ==
    ASSUME Inductive, StoreToParam
    PROVE  Inductive' /\ Grows
<1>1. PICK x \in todo :
        /\ User(x, "main") /\ IsParamStore(x[1])
        /\ FunctionsTaintingPointerParams' =
              FunctionsTaintingPointerParams \cup ParamOf(x[1])
        /\ UNCHANGED <<TaintedValues, TaintedPointers, Worklist, maps, changed,
                       FunctionsReturningTaint, discovered>>
  BY DEF StoreToParam
<1>2. /\ M' = M
      /\ UNCHANGED <<input, KilledStores, stage, pc, cur, toScan, scanned>>
      /\ todo' \subseteq todo /\ pc = "users" /\ x[1] \in M.insts
  BY <1>1, UserFacts
<1>3. DataOK
  BY DEF Inductive, TypeOK
<1>4. ParamOf(x[1]) \subseteq M.funcs \X (Nat \ {0})
  <2>1. x[1] \in Of(M, "store") /\ input \in Inputs
    BY <1>1, <1>2, <1>3 DEF IsParamStore, Of, DataOK
  <2> QED
    BY <1>1, <2>1, ParamStoreFacts
<1>5. DataOK'
  BY <1>1, <1>2, <1>3, <1>4 DEF DataOK, maps
<1>6. Grows
  BY <1>1 DEF Grows
<1>7. OriginsTainted' /\ OriginsNotKilled'
  BY <1>1, <1>2, OriginsKept DEF maps
<1>8. changed' \in BOOLEAN /\ discovered' \in BOOLEAN
  BY <1>1 DEF Inductive, TypeOK, ControlOK
<1> QED
  BY <1>2, <1>5, <1>6, <1>7, <1>8, LoopStep

LEMMA StoreToLocalStep ==
    ASSUME Inductive, StoreToLocal
    PROVE  Inductive' /\ Grows
<1>1. PICK x \in todo :
        /\ IsStoreOf(x[1], cur) /\ User(x, "main")
        /\ TaintPointer(StorePointer(M, x[1]), x[1])
        /\ changed' = (changed \/ StorePointer(M, x[1]) \notin TaintedPointers)
        /\ Propagate(x[1])
        /\ UNCHANGED <<FunctionsReturningTaint, FunctionsTaintingPointerParams,
                       FunctionLevel, discovered>>
  BY DEF StoreToLocal
<1>2. /\ M' = M
      /\ UNCHANGED <<input, KilledStores, stage, pc, cur, toScan, scanned>>
      /\ todo' \subseteq todo /\ pc = "users"
      /\ x[1] \in M.insts /\ x[1] \in Of(M, "store")
  BY <1>1, UserFacts DEF IsStoreOf, Of
<1>3. DataOK
  BY DEF Inductive, TypeOK
<1>4. /\ TaintedValues' \subseteq M'.insts \cup M'.args
      /\ TaintedValues \subseteq TaintedValues' /\ x[1] \in TaintedValues'
      /\ Worklist' \in Seq(TaintedValues')
      /\ Typed(ValueLevel', M'.insts \cup M'.args, Int)
  BY <1>1, <1>2, <1>3, PropagateFacts
<1>5. /\ TaintedPointers \subseteq TaintedPointers'
      /\ TaintedPointers' \subseteq Values(M)'
      /\ PointerTaintOrigin' \in [TaintedPointers' -> M'.insts]
      /\ OriginsTainted' /\ OriginsNotKilled'
  BY <1>1, <1>2, <1>4, TaintPointerFacts
<1>6. DataOK'
  BY <1>1, <1>2, <1>3, <1>4, <1>5 DEF DataOK
<1>7. Grows
  BY <1>1, <1>4, <1>5 DEF Grows
<1>8. changed' \in BOOLEAN /\ discovered' \in BOOLEAN
  BY <1>1 DEF Inductive, TypeOK, ControlOK
<1> QED
  BY <1>2, <1>5, <1>6, <1>7, <1>8, LoopStep

LEMMA OtherUseStep ==
    ASSUME Inductive, OtherUse
    PROVE  Inductive' /\ Grows
<1>1. PICK x \in todo :
        /\ User(x, "main") /\ Propagate(x[1])
        /\ UNCHANGED <<TaintedPointers, FunctionsReturningTaint, changed,
                       FunctionsTaintingPointerParams, PointerTaintOrigin,
                       FunctionLevel, discovered>>
  BY DEF OtherUse
<1>2. /\ M' = M
      /\ UNCHANGED <<input, KilledStores, stage, pc, cur, toScan, scanned>>
      /\ todo' \subseteq todo /\ pc = "users" /\ x[1] \in M.insts
  BY <1>1, UserFacts
<1>3. DataOK
  BY DEF Inductive, TypeOK
<1>4. /\ TaintedValues' \subseteq M'.insts \cup M'.args
      /\ TaintedValues \subseteq TaintedValues'
      /\ Worklist' \in Seq(TaintedValues')
      /\ Typed(ValueLevel', M'.insts \cup M'.args, Int)
  BY <1>1, <1>2, <1>3, PropagateFacts
<1>5. DataOK'
  BY <1>1, <1>2, <1>3, <1>4 DEF DataOK
<1>6. Grows
  BY <1>1, <1>4 DEF Grows
<1>7. OriginsTainted' /\ OriginsNotKilled'
  BY <1>1, <1>2, <1>4, OriginsKept
<1>8. changed' \in BOOLEAN /\ discovered' \in BOOLEAN
  BY <1>1 DEF Inductive, TypeOK, ControlOK
<1> QED
  BY <1>2, <1>5, <1>6, <1>7, <1>8, LoopStep

LEMMA SkipTaintedStep ==
    ASSUME Inductive, SkipTainted
    PROVE  Inductive' /\ Grows
<1>1. PICK x \in todo :
        User(x, "up") /\ UNCHANGED <<taint, Worklist, maps, changed, discovered>>
  BY DEF SkipTainted
<1>2. /\ UNCHANGED <<input, KilledStores, stage, pc, cur, toScan, scanned>>
      /\ todo' \subseteq todo /\ pc = "users"
  BY <1>1, UserFacts
<1>3. DataOK' /\ OriginsTainted' /\ OriginsNotKilled' /\ Grows
  BY <1>1, <1>2, DataKept
<1>4. changed' \in BOOLEAN /\ discovered' \in BOOLEAN
  BY <1>1 DEF Inductive, TypeOK, ControlOK
<1> QED
  BY <1>2, <1>3, <1>4, LoopStep

LEMMA UpwardUseStep ==
    ASSUME Inductive, UpwardUse
    PROVE  Inductive' /\ Grows
<1>1. PICK x \in todo :
        LET u == x[1]
            params == IF IsStoreOf(u, cur) /\ IsParamStore(u) THEN ParamOf(u)
                      ELSE {}
            returning == IF IsReturnOf(u, cur) THEN {M.func[u]} ELSE {}
        IN
        /\ User(x, "up") /\ Taint(u) /\ ValueLevel' = Put(ValueLevel, u, getLevel(cur))
        /\ IF IsStoreOf(u, cur) THEN TaintPointer(StorePointer(M, u), u)
           ELSE UNCHANGED <<TaintedPointers, PointerTaintOrigin>>
        /\ FunctionsTaintingPointerParams' =
              FunctionsTaintingPointerParams \cup params
        /\ FunctionsReturningTaint' = FunctionsReturningTaint \cup returning
        /\ discovered' = (\/ discovered
                          \/ ~(params \subseteq FunctionsTaintingPointerParams)
                          \/ ~(returning \subseteq FunctionsReturningTaint))
        /\ UNCHANGED <<FunctionLevel, changed>>
  BY DEF UpwardUse
<1> DEFINE u == x[1]
           params == IF IsStoreOf(u, cur) /\ IsParamStore(u) THEN ParamOf(u)
                     ELSE {}
           returning == IF IsReturnOf(u, cur) THEN {M.func[u]} ELSE {}
<1>2. /\ M' = M
      /\ UNCHANGED <<input, KilledStores, stage, pc, cur, toScan, scanned>>
      /\ todo' \subseteq todo /\ pc = "users" /\ u \in M.insts
  BY <1>1, UserFacts
<1>3. DataOK /\ input \in Inputs
  BY DEF Inductive, TypeOK, DataOK
<1>4. /\ TaintedValues' \subseteq M'.insts \cup M'.args
      /\ TaintedValues \subseteq TaintedValues' /\ u \in TaintedValues'
      /\ Worklist' \in Seq(TaintedValues')
  BY <1>1, <1>2, <1>3, TaintFacts DEF Taint
<1>5. Typed(ValueLevel', M'.insts \cup M'.args, Int)
  <2>1. getLevel(cur) \in Int /\ u \in M.insts \cup M.args
    BY <1>2, <1>3, LevelFacts
  <2>2. Typed(Put(ValueLevel, u, getLevel(cur)), M.insts \cup M.args, Int)
    BY <1>3, <2>1, SetLevelFacts, Zenon
  <2> QED
    BY <1>1, <1>2, <2>2
<1>6. /\ TaintedPointers \subseteq TaintedPointers'
      /\ TaintedPointers' \subseteq Values(M)'
      /\ PointerTaintOrigin' \in [TaintedPointers' -> M'.insts]
      /\ OriginsTainted' /\ OriginsNotKilled'
  <2>1. CASE IsStoreOf(u, cur)
    <3>1. u \in Of(M, "store") /\ TaintPointer(StorePointer(M, u), u)
      BY <1>1, <1>2, <2>1 DEF IsStoreOf, Of
    <3> QED
      BY <1>2, <1>4, <3>1, TaintPointerFacts
  <2>2. CASE ~IsStoreOf(u, cur)
    <3>1. UNCHANGED <<TaintedPointers, PointerTaintOrigin>>
      BY <1>1, <2>2
    <3> QED
      BY <1>2, <1>3, <1>4, <3>1, OriginsKept DEF DataOK
  <2> QED
    BY <2>1, <2>2
<1>7. params \subseteq M.funcs \X (Nat \ {0}) /\ returning \subseteq M.funcs
  <2>1. M.func[u] \in M.funcs
    BY <1>2, <1>3, InstFacts
  <2>2. IsParamStore(u) => ParamOf(u) \subseteq M.funcs \X (Nat \ {0})
    BY <1>2, <1>3, ParamStoreFacts DEF IsParamStore, Of
  <2> QED
    BY <2>1, <2>2
<1>8. /\ FunctionsTaintingPointerParams' =
            FunctionsTaintingPointerParams \cup params
      /\ FunctionsReturningTaint' = FunctionsReturningTaint \cup returning
      /\ FunctionLevel' = FunctionLevel
  BY <1>1
<1>9. DataOK'
  BY <1>2, <1>3, <1>4, <1>5, <1>6, <1>7, <1>8 DEF DataOK
<1>10. Grows
  BY <1>4, <1>6, <1>8 DEF Grows
<1>11. changed' \in BOOLEAN /\ discovered' \in BOOLEAN
  BY <1>1 DEF Inductive, TypeOK, ControlOK
<1> QED
  BY <1>2, <1>6, <1>9, <1>10, <1>11, LoopStep

LEMMA TakeValueStep ==
    ASSUME Inductive, TakeValue
    PROVE  Inductive' /\ Grows
<1>1. /\ M' = M
      /\ UNCHANGED <<input, taint, KilledStores, maps, flags, stage, toScan,
                     scanned>>
  BY SameModule DEF TakeValue
<1>2. /\ pc = "drain" /\ pc' = "users" /\ Worklist # <<>>
      /\ cur' = Worklist[Len(Worklist)]
      /\ Worklist' = SubSeq(Worklist, 1, Len(Worklist) - 1)
      /\ todo' = IF stage = "main" THEN UserParts(cur')
                 ELSE {<<u, 0>> : u \in Users(M, cur')}
  BY DEF TakeValue
<1>3. DataOK
  BY DEF Inductive, TypeOK
<1>4. cur' \in TaintedValues /\ Worklist' \in Seq(TaintedValues)
  BY <1>2, <1>3 DEF DataOK
<1>5. DataOK'
  BY <1>1, <1>3, <1>4 DEF DataOK, taint, maps
<1>6. Grows
  BY <1>1 DEF Grows, taint
<1>7. OriginsTainted' /\ OriginsNotKilled'
  BY <1>1, OriginsKept DEF taint, maps
<1>8. ASSUME NEW x \in todo'
      PROVE  /\ x \in M.insts \X Nat /\ x[1] \in Users(M, cur')
             /\ x[2] # 0 => /\ M.kind[x[1]] = "call"
                            /\ x[2] \in TargetParts(x[1], cur')
  <2>1. CASE \E u \in Users(M, cur') : x = <<u, 0>>
    BY <2>1 DEF Users
  <2>2. CASE \E c \in Users(M, cur') \cap Of(M, "call") :
               \E n \in TargetParts(c, cur') : x = <<c, n>>
    <3>1. PICK c \in Users(M, cur') \cap Of(M, "call") :
                  \E n \in TargetParts(c, cur') : x = <<c, n>>
      BY <2>2
    <3>2. PICK n \in TargetParts(c, cur') : x = <<c, n>>
      BY <3>1
    <3>3. n \in Nat
      <4>1. M.pos \in [M.insts -> Nat]
        BY <1>3, ModuleFacts DEF ModuleOK, DataOK
      <4>2. IndirectTargets(c) \subseteq M.insts
        BY DEF IndirectTargets, Of
      <4>3. \A s \in IndirectTargets(c) : M.pos[s] + 1 \in Nat
        BY <4>1, <4>2
      <4>4. n \in {1} \cup {M.pos[s] + 1 : s \in IndirectTargets(c)}
        BY DEF TargetParts
      <4> QED
        BY <4>3, <4>4
    <3> QED
      BY <3>2, <3>3 DEF Users, Of
  <2> QED
    BY <1>2, <2>1, <2>2 DEF UserParts
<1>9. ControlOK'
  BY <1>1, <1>2, <1>8 DEF Inductive, TypeOK, ControlOK, taint, flags
<1>10. InHand'
  <2>1. \A c : TargetParts(c, cur)' = TargetParts(c, cur')
    <3>1. \A c : ArgIndices(c, cur)' = ArgIndices(c, cur')
      BY <1>1 DEF ArgIndices
    <3>2. \A c : IndirectTargets(c)' = IndirectTargets(c)
      BY <1>1 DEF IndirectTargets, TargetEntry, FunctionStores
    <3> QED
      BY <1>1, <3>1, <3>2 DEF TargetParts
  <2>2. cur' \in TaintedValues'
    BY <1>1, <1>4 DEF taint
  <2>3. stage = "up" => input.upward
    BY DEF Inductive, InHand
  <2> QED
    BY <1>1, <1>2, <1>8, <2>1, <2>2, <2>3 DEF InHand
<1> QED
  BY <1>5, <1>6, <1>7, <1>9, <1>10 DEF Inductive, TypeOK

-----------------------------------------------------------------------------
(* From loop to loop *)

\* A step of the control to the head of a loop that has nothing in hand.
LEMMA MoveOn ==
    ASSUME Inductive, UNCHANGED <<input, taint, Worklist, KilledStores, maps>>,
           ControlOK', stage' = "up" => input.upward,
           pc' \in {"round", "check"} => stage' = "up",
           pc' \in {"drain", "scan", "round", "check", "report", "done"}
    PROVE  Inductive' /\ Grows
<1>1. InHand'
  BY DEF InHand
<1> QED
  BY <1>1, DataKept DEF Inductive, TypeOK

LEMMA LoopEndsStep ==
    ASSUME Inductive,
           \/ SeedDone \/ UsersDone \/ LoadsDone \/ ScanDone \/ ArgumentsDone
           \/ EndRound \/ Report
    PROVE  Inductive' /\ Grows
<1>1. /\ UNCHANGED <<input, taint, Worklist, KilledStores, maps>>
      /\ UNCHANGED <<discovered, stage, cur, todo, toScan, scanned>>
      /\ changed' \in BOOLEAN
      /\ pc' \in {"drain", "scan", "round", "report", "done"}
  BY DEF SeedDone, UsersDone, LoadsDone, ScanDone, ArgumentsDone, EndRound,
         Report, flags, Inductive, TypeOK, ControlOK
<1>2. M' = M
  BY <1>1, SameModule
<1>3. ControlOK'
  BY <1>1, <1>2 DEF Inductive, TypeOK, ControlOK, taint
<1>4. stage' = "up" => input.upward
  BY <1>1 DEF Inductive, InHand
<1>5. pc' \in {"round", "check"} => stage' = "up"
  BY DEF SeedDone, UsersDone, LoadsDone, ScanDone, ArgumentsDone, EndRound,
         Report, Inductive, InHand
<1> QED
  BY <1>1, <1>3, <1>4, <1>5, MoveOn

LEMMA MainDoneStep ==
    ASSUME Inductive, MainDone
    PROVE  Inductive' /\ Grows
<1>1. /\ UNCHANGED <<input, taint, Worklist, KilledStores, maps>>
      /\ UNCHANGED <<discovered, changed, cur, todo, toScan>>
      /\ pc' \in {"round", "report"} /\ scanned' \subseteq scanned
      /\ stage' \in {"main", "up"}
  BY DEF MainDone, flags, Inductive, TypeOK, ControlOK
<1>2. /\ stage' = "up" => input.upward
      /\ pc' \in {"round", "check"} => stage' = "up"
  BY DEF MainDone, Inductive, InHand
<1>3. M' = M
  BY <1>1, SameModule
<1>4. ControlOK'
  BY <1>1, <1>3 DEF Inductive, TypeOK, ControlOK, taint
<1> QED
  BY <1>1, <1>2, <1>4, MoveOn

LEMMA CollectPointersStep ==
    ASSUME Inductive, CollectPointers
    PROVE  Inductive' /\ Grows
<1>1. /\ UNCHANGED <<input, taint, Worklist, KilledStores, maps>>
      /\ UNCHANGED <<discovered, changed, stage, cur, todo, scanned>>
      /\ pc' \in {"check", "scan"} /\ toScan' \subseteq TaintedPointers
  BY DEF CollectPointers, flags
<1>2. M' = M
  BY <1>1, SameModule
<1>3. ControlOK'
  BY <1>1, <1>2 DEF Inductive, TypeOK, ControlOK, taint
<1>4. /\ stage' = "up" => input.upward
      /\ pc' \in {"round", "check"} => stage' = "up"
  BY <1>1 DEF CollectPointers, Inductive, InHand
<1> QED
  BY <1>1, <1>3, <1>4, MoveOn

\* A store that is taken for a kill is not tainted, so it is no origin.
LEMMA IdentifyKillsStep ==
    ASSUME Inductive, IdentifyKills
    PROVE  Inductive' /\ Grows
<1>1. /\ M' = M
      /\ UNCHANGED <<input, taint, Worklist, maps, flags, stage, cur, todo,
                     scanned>>
      /\ KilledStores' = KilledStores \cup {s \in Of(M, "store") : Kills(s)}
      /\ toScan' = TaintedPointers \ scanned /\ pc' = "scan"
  BY SameModule DEF IdentifyKills
<1>2. UNCHANGED <<TaintedValues, TaintedPointers, PointerTaintOrigin>>
  BY <1>1 DEF taint, maps
<1>3. \A s \in KilledStores' \ KilledStores :
         /\ s \in Of(M, "store") /\ s \notin TaintedValues
         /\ StorePointer(M, s) \in TaintedPointers
  BY <1>1 DEF Kills
<1>4. DataOK'
  BY <1>1, <1>3 DEF Inductive, TypeOK, DataOK, taint, maps
<1>5. ControlOK'
  BY <1>1 DEF Inductive, TypeOK, ControlOK, taint, flags
<1>6. InHand'
  BY <1>1 DEF Inductive, InHand
<1>7. OriginsTainted'
  BY <1>1, <1>2, <1>3 DEF Inductive, OriginsTainted
<1>8. OriginsNotKilled'
  <2>1. ASSUME NEW p \in TaintedPointers,
               PointerTaintOrigin[p] \in KilledStores' \ KilledStores
        PROVE  FALSE
    <3>1. M.kind[PointerTaintOrigin[p]] = "store"
      BY <1>3, <2>1 DEF Of
    <3> QED
      BY <1>3, <2>1, <3>1 DEF Inductive, OriginsTainted
  <2> QED
    BY <1>2, <2>1 DEF Inductive, OriginsNotKilled
<1>9. Grows
  BY <1>1 DEF Grows, taint
<1> QED
  BY <1>4, <1>5, <1>6, <1>7, <1>8, <1>9 DEF Inductive, TypeOK

LEMMA TakePointerStep ==
    ASSUME Inductive, TakePointer
    PROVE  Inductive' /\ Grows
<1>1. PICK p \in toScan :
        /\ cur' = p /\ toScan' = toScan \ {p} /\ scanned' = scanned \cup {p}
        /\ todo' = {<<l, 0>> : l \in {l \in Of(M, "load") :
                                         p \in LoadedPointers(M, l)}}
        /\ pc' = "loads"
        /\ UNCHANGED <<input, taint, Worklist, KilledStores, maps, flags, stage>>
  BY DEF TakePointer
<1>2. M' = M
  BY <1>1, SameModule
<1>3. p \in TaintedPointers
  BY DEF Inductive, TypeOK, ControlOK
<1>4. DataOK' /\ OriginsTainted' /\ OriginsNotKilled' /\ Grows
  BY <1>1, DataKept
<1>5. \A x \in todo' : /\ x \in M.insts \X Nat /\ M.kind[x[1]] = "load"
                       /\ p \in LoadedPointers(M, x[1])
  BY <1>1 DEF Of
<1>6. ControlOK'
  BY <1>1, <1>2, <1>3, <1>5 DEF Inductive, TypeOK, ControlOK, taint, flags
<1>7. InHand'
  BY <1>1, <1>2, <1>3, <1>5 DEF Inductive, InHand, taint
<1> QED
  BY <1>4, <1>6, <1>7 DEF Inductive, TypeOK

LEMMA ScanLoadStep ==
    ASSUME Inductive, ScanLoad
    PROVE  Inductive' /\ Grows
<1>1. PICK x \in todo :
        /\ pc = "loads" /\ todo' = todo \ {x}
        /\ ValueLevel' = IF x[1] \in TaintedValues THEN ValueLevel
                         ELSE ensureLevelSet(x[1])
        /\ IF x[1] \in TaintedValues \/ IsSkipped(x[1])
           THEN UNCHANGED <<TaintedValues, Worklist, changed>>
           ELSE Taint(x[1]) /\ changed' = TRUE
  BY DEF ScanLoad
<1>2. /\ M' = M
      /\ UNCHANGED <<input, TaintedPointers, FunctionsReturningTaint,
                     FunctionsTaintingPointerParams, KilledStores,
                     PointerTaintOrigin, FunctionLevel, discovered, stage, pc,
                     cur, toScan, scanned>>
  BY SameModule DEF ScanLoad
<1>3. DataOK
  BY DEF Inductive, TypeOK
<1>4. x[1] \in M.insts
  BY DEF Inductive, TypeOK, ControlOK
<1>5. /\ TaintedValues' \subseteq M'.insts \cup M'.args
      /\ TaintedValues \subseteq TaintedValues'
      /\ Worklist' \in Seq(TaintedValues')
  <2>1. CASE UNCHANGED <<TaintedValues, Worklist>>
    BY <1>2, <1>3, <2>1 DEF DataOK
  <2>2. CASE Taint(x[1])
    BY <1>2, <1>3, <1>4, <2>2, TaintFacts
  <2> QED
    BY <1>1, <2>1, <2>2
<1>6. Typed(ValueLevel', M'.insts \cup M'.args, Int)
  <2>1. CASE M.func[x[1]] \in DOMAIN FunctionLevel
    <3>1. FunctionLevel[M.func[x[1]]] \in Int
      BY <1>3, <2>1 DEF DataOK, Typed
    <3>2. Typed(PutIfAbsent(ValueLevel, x[1], FunctionLevel[M.func[x[1]]]),
                M.insts \cup M.args, Int)
      BY <1>3, <1>4, <3>1, SetLevelFacts, Zenon
    <3> QED
      BY <1>1, <1>2, <1>3, <2>1, <3>2 DEF ensureLevelSet, DataOK
  <2>2. CASE M.func[x[1]] \notin DOMAIN FunctionLevel
    BY <1>1, <1>2, <1>3, <2>2 DEF ensureLevelSet, DataOK
  <2> QED
    BY <2>1, <2>2
<1>7. DataOK'
  BY <1>2, <1>3, <1>5, <1>6 DEF DataOK
<1>8. Grows
  BY <1>2, <1>5 DEF Grows
<1>9. OriginsTainted' /\ OriginsNotKilled'
  BY <1>2, <1>5, OriginsKept
<1>10. changed' \in BOOLEAN /\ discovered' \in BOOLEAN
  BY <1>1, <1>2 DEF Inductive, TypeOK, ControlOK
<1> QED
  BY <1>1, <1>2, <1>7, <1>8, <1>9, <1>10, LoopStep

-----------------------------------------------------------------------------
(* The rounds of the upward search *)

LEMMA BeginRoundStep ==
    ASSUME Inductive, BeginRound
    PROVE  Inductive' /\ Grows
<1>1. /\ UNCHANGED <<input, taint, Worklist, KilledStores, maps>>
      /\ UNCHANGED <<changed, stage, cur, toScan, scanned>>
      /\ discovered' = FALSE /\ pc = "round" /\ pc' = "callers"
      /\ todo' = {<<c, 0>> : c \in {c \in Of(M, "call") :
                            CalledOperand(M, c) \in FunctionsReturningTaint}}
  BY DEF BeginRound
<1>2. M' = M
  BY <1>1, SameModule
<1>3. \A x \in todo' : /\ x \in M.insts \X Nat /\ M.kind[x[1]] = "call"
                       /\ CalledOperand(M, x[1]) \in FunctionsReturningTaint
  BY <1>1 DEF Of
<1>4. ControlOK'
  BY <1>1, <1>2, <1>3 DEF Inductive, TypeOK, ControlOK, taint
<1>5. InHand'
  BY <1>1, <1>2, <1>3 DEF Inductive, InHand, taint
<1> QED
  BY <1>1, <1>4, <1>5, DataKept DEF Inductive, TypeOK

LEMMA TaintCallStep ==
    ASSUME Inductive, TaintCall
    PROVE  Inductive' /\ Grows
<1>1. PICK x \in todo :
        /\ pc = "callers" /\ todo' = todo \ {x}
        /\ IF x[1] \in TaintedValues
           THEN UNCHANGED <<TaintedValues, Worklist, FunctionLevel>>
           ELSE /\ Taint(x[1])
                /\ FunctionLevel' = PutIfAbsent(FunctionLevel, M.func[x[1]],
                                       LevelAbove(CalledOperand(M, x[1])))
        /\ ValueLevel' = LevelsOfCall(x[1])
  BY DEF TaintCall
<1>2. /\ M' = M
      /\ UNCHANGED <<input, TaintedPointers, FunctionsReturningTaint,
                     FunctionsTaintingPointerParams, KilledStores,
                     PointerTaintOrigin, changed, discovered, stage, pc, cur,
                     toScan, scanned>>
  BY SameModule DEF TaintCall, flags
<1>3. DataOK /\ input \in Inputs
  BY DEF Inductive, TypeOK, DataOK
<1>4. x[1] \in M.insts
  BY DEF Inductive, TypeOK, ControlOK
<1>5. LevelAbove(CalledOperand(M, x[1])) \in Int /\ M.func[x[1]] \in M.funcs
      /\ x[1] \in M.insts \cup M.args
  BY <1>3, <1>4, LevelFacts, InstFacts
<1>6. /\ Typed(Put(ValueLevel, x[1], LevelAbove(CalledOperand(M, x[1]))),
               M.insts \cup M.args, Int)
      /\ Typed(PutIfAbsent(FunctionLevel, M.func[x[1]],
                           LevelAbove(CalledOperand(M, x[1]))), M.funcs, Int)
  BY <1>3, <1>5, SetLevelFacts, Zenon
<1>7. /\ TaintedValues' \subseteq M'.insts \cup M'.args
      /\ TaintedValues \subseteq TaintedValues'
      /\ Worklist' \in Seq(TaintedValues')
      /\ Typed(FunctionLevel', M'.funcs, Int)
  <2>1. CASE x[1] \in TaintedValues
    BY <1>1, <1>2, <1>3, <2>1 DEF DataOK
  <2>2. CASE x[1] \notin TaintedValues
    BY <1>1, <1>2, <1>3, <1>5, <1>6, <2>2, TaintFacts
  <2> QED
    BY <2>1, <2>2
<1>8. Typed(ValueLevel', M'.insts \cup M'.args, Int)
  BY <1>1, <1>2, <1>3, <1>6 DEF LevelsOfCall, DataOK
<1>9. DataOK'
  BY <1>2, <1>3, <1>7, <1>8 DEF DataOK
<1>10. Grows
  BY <1>2, <1>7 DEF Grows
<1>11. OriginsTainted' /\ OriginsNotKilled'
  BY <1>2, <1>7, OriginsKept
<1>12. changed' \in BOOLEAN /\ discovered' \in BOOLEAN
  BY <1>2 DEF Inductive, TypeOK, ControlOK
<1> QED
  BY <1>1, <1>2, <1>9, <1>10, <1>11, <1>12, LoopStep

LEMMA CallersDoneStep ==
    ASSUME Inductive, CallersDone
    PROVE  Inductive' /\ Grows
<1>1. /\ UNCHANGED <<input, taint, Worklist, KilledStores, maps>>
      /\ UNCHANGED <<changed, discovered, stage, cur, toScan, scanned>>
      /\ pc = "callers" /\ pc' = "args"
      /\ \A x \in todo' :
            /\ x \in Of(M, "call") \X {y[2] : y \in FunctionsTaintingPointerParams}
            /\ <<CalledOperand(M, x[1]), x[2]>> \in FunctionsTaintingPointerParams
            /\ x[2] <= ArgSize(M, x[1])
  BY DEF CallersDone, flags
<1>2. M' = M
  BY <1>1, SameModule
<1>3. ASSUME NEW x \in todo'
      PROVE  /\ x \in M.insts \X Nat /\ M.kind[x[1]] = "call"
             /\ x[2] \in 1..ArgSize(M, x[1])
             /\ <<CalledOperand(M, x[1]), x[2]>> \in FunctionsTaintingPointerParams
  <2> DEFINE ks == {y[2] : y \in FunctionsTaintingPointerParams}
  <2>0. x \in Of(M, "call") \X ks
    BY <1>1, Zenon
  <2> HIDE DEF ks
  <2>1. PICK c \in Of(M, "call") : \E k \in ks : x = <<c, k>>
    BY <2>0
  <2>2. PICK y \in FunctionsTaintingPointerParams : x = <<c, y[2]>>
    BY <2>1 DEF ks
  <2>3. y[2] \in Nat \ {0}
    BY DEF Inductive, TypeOK, DataOK
  <2>4. x[1] = c /\ x[2] = y[2] /\ x \in M.insts \X Nat
    BY <2>2, <2>3 DEF Of
  <2>5. ArgSize(M, c) \in Nat
    BY InstFacts DEF Inductive, TypeOK, DataOK
  <2>6. /\ x[2] <= ArgSize(M, x[1])
        /\ <<CalledOperand(M, x[1]), x[2]>> \in FunctionsTaintingPointerParams
    BY <1>1
  <2>7. x[2] \in 1..ArgSize(M, x[1])
    BY <2>3, <2>4, <2>5, <2>6
  <2> QED
    BY <2>4, <2>6, <2>7 DEF Of
<1>4. ControlOK'
  BY <1>1, <1>2, <1>3 DEF Inductive, TypeOK, ControlOK, taint
<1>5. InHand'
  BY <1>1, <1>2, <1>3 DEF Inductive, InHand, taint
<1> QED
  BY <1>1, <1>4, <1>5, DataKept DEF Inductive, TypeOK

LEMMA ArgumentFacts ==
    ASSUME Inductive, NEW x \in todo, Argument(x)
    PROVE  /\ M' = M
           /\ UNCHANGED <<input, TaintedValues, FunctionsReturningTaint,
                          Worklist, KilledStores, ValueLevel, changed, stage,
                          pc, cur, toScan, scanned>>
           /\ todo' \subseteq todo /\ pc = "args"
           /\ x[1] \in Of(M, "call") /\ x[2] \in 1..ArgSize(M, x[1])
           /\ <<CalledOperand(M, x[1]), x[2]>> \in FunctionsTaintingPointerParams
           /\ M.func[x[1]] \in M.funcs /\ Actual(x) \in Values(M)
           /\ \A n \in Int :
                 Typed(PutIfAbsent(FunctionLevel, M.func[x[1]], n), M.funcs, Int)
<1>1. M' = M
  BY SameModule DEF Argument
<1>2. DataOK /\ input \in Inputs
  BY DEF Inductive, TypeOK, DataOK
<1>3. /\ todo' \subseteq todo /\ pc = "args"
      /\ x[1] \in M.insts /\ M.kind[x[1]] = "call"
      /\ x[2] \in 1..ArgSize(M, x[1])
      /\ <<CalledOperand(M, x[1]), x[2]>> \in FunctionsTaintingPointerParams
  BY DEF Argument, Inductive, InHand, TypeOK, ControlOK
<1>4. x[1] \in Of(M, "call")
  BY <1>3 DEF Of
<1>5. M.func[x[1]] \in M.funcs /\ Actual(x) \in Values(M)
  BY <1>2, <1>3, <1>4, InstFacts DEF Actual
<1>6. \A n \in Int :
         Typed(PutIfAbsent(FunctionLevel, M.func[x[1]], n), M.funcs, Int)
  BY <1>2, <1>5, SetLevelFacts, Zenon
<1> QED
  BY <1>1, <1>3, <1>4, <1>5, <1>6 DEF Argument

LEMMA PassThroughStep ==
    ASSUME Inductive, PassThrough
    PROVE  Inductive' /\ Grows
<1>1. PICK x \in todo :
        LET through == <<M.func[x[1]], M.origin[Actual(x)]>> IN
        /\ Argument(x) /\ M.origin[Actual(x)] # 0
        /\ FunctionsTaintingPointerParams' =
              FunctionsTaintingPointerParams \cup {through}
        /\ IF through \in FunctionsTaintingPointerParams
           THEN UNCHANGED <<discovered, FunctionLevel>>
           ELSE /\ discovered' = TRUE
                /\ FunctionLevel' = PutIfAbsent(FunctionLevel, M.func[x[1]],
                                       LevelAbove(CalledOperand(M, x[1])))
        /\ UNCHANGED <<TaintedPointers, PointerTaintOrigin>>
  BY DEF PassThrough
<1>2. DataOK
  BY DEF Inductive, TypeOK
<1>3. /\ M' = M
      /\ UNCHANGED <<input, TaintedValues, FunctionsReturningTaint, Worklist,
                     KilledStores, ValueLevel, changed, stage, pc, cur, toScan,
                     scanned>>
      /\ todo' \subseteq todo /\ pc = "args"
      /\ M.func[x[1]] \in M.funcs /\ Actual(x) \in Values(M)
  BY <1>1, ArgumentFacts
<1>4. Typed(FunctionLevel', M'.funcs, Int)
  <2>1. Typed(PutIfAbsent(FunctionLevel, M.func[x[1]],
                          LevelAbove(CalledOperand(M, x[1]))), M.funcs, Int)
    BY <1>1, <1>2, LevelFacts, ArgumentFacts, Zenon
  <2> QED
    BY <1>1, <1>2, <1>3, <2>1 DEF DataOK
<1>5. FunctionsTaintingPointerParams' \subseteq M'.funcs \X (Nat \ {0})
  <2>1. M.origin[Actual(x)] \in Nat \ {0}
    BY <1>1, <1>2, <1>3, ModuleFacts DEF ModuleOK, DataOK
  <2> QED
    BY <1>1, <1>2, <1>3, <2>1 DEF DataOK
<1>6. DataOK'
  BY <1>1, <1>2, <1>3, <1>4, <1>5 DEF DataOK
<1>7. Grows
  BY <1>1, <1>3 DEF Grows
<1>8. OriginsTainted' /\ OriginsNotKilled'
  BY <1>1, <1>3, OriginsKept
<1>9. changed' \in BOOLEAN /\ discovered' \in BOOLEAN
  BY <1>1, <1>3 DEF Inductive, TypeOK, ControlOK
<1> QED
  BY <1>3, <1>6, <1>7, <1>8, <1>9, LoopStep

\* The origin it gives a variable is a call, which kills nothing.
LEMMA TaintVariableStep ==
    ASSUME Inductive, TaintVariable
    PROVE  Inductive' /\ Grows
<1>1. PICK x \in todo : \E var \in PointedVar(M, Actual(x)) :
        LET new == Reached(var, CalledOperand(M, x[1]), x[2]) \ TaintedPointers IN
        /\ Argument(x) /\ M.origin[Actual(x)] = 0
        /\ IF var \in TaintedPointers
           THEN UNCHANGED <<TaintedPointers, PointerTaintOrigin, FunctionLevel>>
           ELSE /\ TaintedPointers' = TaintedPointers \cup new
                /\ PointerTaintOrigin' =
                      [p \in DOMAIN PointerTaintOrigin \cup new |->
                          IF p \in new THEN x[1] ELSE PointerTaintOrigin[p]]
                /\ FunctionLevel' = PutIfAbsent(FunctionLevel, M.func[x[1]],
                                       LevelAbove(CalledOperand(M, x[1])))
        /\ UNCHANGED <<FunctionsTaintingPointerParams, discovered>>
  BY DEF TaintVariable
<1>2. PICK var \in PointedVar(M, Actual(x)) :
        LET new == Reached(var, CalledOperand(M, x[1]), x[2]) \ TaintedPointers IN
        /\ Argument(x) /\ M.origin[Actual(x)] = 0
        /\ IF var \in TaintedPointers
           THEN UNCHANGED <<TaintedPointers, PointerTaintOrigin, FunctionLevel>>
           ELSE /\ TaintedPointers' = TaintedPointers \cup new
                /\ PointerTaintOrigin' =
                      [p \in DOMAIN PointerTaintOrigin \cup new |->
                          IF p \in new THEN x[1] ELSE PointerTaintOrigin[p]]
                /\ FunctionLevel' = PutIfAbsent(FunctionLevel, M.func[x[1]],
                                       LevelAbove(CalledOperand(M, x[1])))
        /\ UNCHANGED <<FunctionsTaintingPointerParams, discovered>>
  BY <1>1
<1> DEFINE new == Reached(var, CalledOperand(M, x[1]), x[2]) \ TaintedPointers
<1>3. DataOK /\ ModuleOK(M)
  BY ModuleFacts DEF Inductive, TypeOK, DataOK
<1>4. /\ M' = M
      /\ UNCHANGED <<input, TaintedValues, FunctionsReturningTaint, Worklist,
                     KilledStores, ValueLevel, changed, stage, pc, cur, toScan,
                     scanned>>
      /\ todo' \subseteq todo /\ pc = "args"
      /\ x[1] \in M.insts /\ M.kind[x[1]] = "call"
  BY <1>2, ArgumentFacts DEF Of
<1>5. new \subseteq Values(M)
  <2>1. ASSUME NEW g \in Of(M, "gep")
        PROVE  M.strip[M.ops[g][1]] \in Values(M)
    <3>1. M.ops[g] \in Seq(Values(M)) /\ Len(M.ops[g]) >= 1
      BY <1>3 DEF Of, ModuleOK
    <3>2. M.ops[g][1] \in Values(M)
      BY <3>1
    <3> QED
      BY <1>3, <3>2 DEF ModuleOK
  <2>2. Of(M, "alloca") \subseteq Values(M)
    BY DEF Of, Values
  <2>3. var \in Values(M)
    BY <2>1, <2>2 DEF PointedVar
  <2> QED
    BY <2>2, <2>3 DEF Reached, FieldTargets
<1>6. Typed(FunctionLevel', M'.funcs, Int)
  <2>1. Typed(PutIfAbsent(FunctionLevel, M.func[x[1]],
                          LevelAbove(CalledOperand(M, x[1]))), M.funcs, Int)
    BY <1>2, <1>3, LevelFacts, ArgumentFacts, Zenon
  <2> QED
    BY <1>2, <1>3, <1>4, <2>1 DEF DataOK
<1> HIDE DEF new
<1>7. PointerTaintOrigin \in [TaintedPointers -> M.insts]
  BY <1>3 DEF DataOK
<1>8. /\ TaintedPointers' \subseteq Values(M)' /\ TaintedPointers \subseteq TaintedPointers'
      /\ PointerTaintOrigin' \in [TaintedPointers' -> M'.insts]
      /\ \A p \in TaintedPointers' :
            \/ p \in TaintedPointers /\ PointerTaintOrigin'[p] = PointerTaintOrigin[p]
            \/ PointerTaintOrigin'[p] = x[1]
  BY <1>2, <1>3, <1>4, <1>5, <1>7 DEF DataOK, new
<1>9. DataOK'
  BY <1>2, <1>3, <1>4, <1>6, <1>8 DEF DataOK
<1>10. Grows
  BY <1>2, <1>4, <1>8 DEF Grows
<1>11. OriginsTainted'
  BY <1>4, <1>8 DEF Inductive, OriginsTainted
<1>12. OriginsNotKilled'
  <2>1. x[1] \notin KilledStores
    BY <1>3, <1>4 DEF DataOK, Of
  <2> QED
    BY <1>4, <1>8, <2>1 DEF Inductive, OriginsNotKilled
<1>13. changed' \in BOOLEAN /\ discovered' \in BOOLEAN
  BY <1>2, <1>4 DEF Inductive, TypeOK, ControlOK
<1> QED
  BY <1>4, <1>9, <1>10, <1>11, <1>12, <1>13, LoopStep

LEMMA OtherArgumentStep ==
    ASSUME Inductive, OtherArgument
    PROVE  Inductive' /\ Grows
<1>1. PICK x \in todo :
        /\ Argument(x)
        /\ UNCHANGED <<TaintedPointers, FunctionsTaintingPointerParams,
                       PointerTaintOrigin, FunctionLevel, discovered>>
  BY DEF OtherArgument
<1>2. /\ M' = M
      /\ UNCHANGED <<input, TaintedValues, FunctionsReturningTaint, Worklist,
                     KilledStores, ValueLevel, changed, stage, pc, cur, toScan,
                     scanned>>
      /\ todo' \subseteq todo /\ pc = "args"
  BY <1>1, ArgumentFacts
<1>3. DataOK'
  BY <1>1, <1>2 DEF Inductive, TypeOK, DataOK
<1>4. Grows
  BY <1>1, <1>2 DEF Grows
<1>5. OriginsTainted' /\ OriginsNotKilled'
  BY <1>1, <1>2, OriginsKept
<1>6. changed' \in BOOLEAN /\ discovered' \in BOOLEAN
  BY <1>1, <1>2 DEF Inductive, TypeOK, ControlOK
<1> QED
  BY <1>2, <1>3, <1>4, <1>5, <1>6, LoopStep

-----------------------------------------------------------------------------
(* Every step, and the theorems *)

LEMMA StepInductive ==
    ASSUME Inductive, [Next]_vars
    PROVE  Inductive' /\ Grows
<1>1. CASE UNCHANGED vars
  <2>1. /\ UNCHANGED <<input, taint, Worklist, KilledStores, maps, flags>>
        /\ UNCHANGED <<stage, pc, cur, todo, toScan, scanned>>
    BY <1>1 DEF vars, control
  <2>2. DataOK' /\ OriginsTainted' /\ OriginsNotKilled' /\ Grows
    BY <2>1, DataKept
  <2>3. M' = M
    BY <2>1, SameModule
  <2>4. ControlOK'
    BY <2>1, <2>3 DEF Inductive, TypeOK, ControlOK, taint, flags
  <2>5. \A c, v : TargetParts(c, v)' = TargetParts(c, v)
    BY <2>1, SameParts
  <2>6. InHand'
    BY <2>1, <2>3, <2>5 DEF Inductive, InHand, taint
  <2> QED
    BY <2>2, <2>4, <2>6 DEF Inductive, TypeOK
<1>2. CASE Seed
  BY <1>2, SeedInstructionStep, SeedArgumentStep, LoopEndsStep DEF Seed
<1>3. CASE Drain
  BY <1>3, TakeValueStep, PassToTargetStep, ReturnStep, StoreToGlobalStep,
     StoreToParamStep, StoreToLocalStep, OtherUseStep, SkipTaintedStep,
     UpwardUseStep, LoopEndsStep DEF Drain, MainUser
<1>4. CASE Scan
  BY <1>4, IdentifyKillsStep, CollectPointersStep, TakePointerStep,
     ScanLoadStep, LoopEndsStep, MainDoneStep DEF Scan
<1>5. CASE Round
  BY <1>5, BeginRoundStep, TaintCallStep, CallersDoneStep, PassThroughStep,
     TaintVariableStep, OtherArgumentStep, LoopEndsStep DEF Round
<1>6. CASE Report
  BY <1>6, LoopEndsStep
<1> QED
  BY <1>1, <1>2, <1>3, <1>4, <1>5, <1>6 DEF Next, Done

\* Everything the pass relies on holds in every state of every run: the types,
\* what its loops have in hand and the origins of the pointers' taint.
THEOREM AlwaysInductive == Spec => []Inductive
<1>1. Init => Inductive
  BY InitInductive
<1>2. Inductive /\ [Next]_vars => Inductive'
  BY StepInductive
<1> QED
  BY <1>1, <1>2, PTL DEF Spec

\* The containers of the pass hold values of the module, and the worklist
\* only values that are marked as tainted.
THEOREM TypeCorrect == Spec => []TypeOK
<1>1. Inductive => TypeOK
  BY DEF Inductive
<1> QED
  BY <1>1, AlwaysInductive, PTL

\* A store that gave a pointer its taint is never counted as a store that
\* kills it, in whatever order uses, scans and kills come.
THEOREM OriginsSurvive == Spec => []OriginsNotKilled
<1>1. Inductive => OriginsNotKilled
  BY DEF Inductive
<1> QED
  BY <1>1, AlwaysInductive, PTL

-----------------------------------------------------------------------------
(* Levels *)

\* The level of a value that is tainted and has one stays.
Frozen ==
    \A v \in Leveled : v \in DOMAIN ValueLevel' /\ ValueLevel'[v] = ValueLevel[v]

\* A level is set for a value that is not tainted yet, or that has none.
LEMMA SetLevelFreezes ==
    ASSUME NEW v, NEW n, ValueLevel' = Put(ValueLevel, v, n), v \notin TaintedValues
    PROVE  Frozen
BY DEF Put, Frozen, Leveled

LEMMA AddLevelFreezes ==
    ASSUME NEW v, NEW n, ValueLevel' = PutIfAbsent(ValueLevel, v, n)
    PROVE  Frozen
BY DEF Put, PutIfAbsent, Frozen, Leveled

LEMMA SameLevelsFreeze ==
    ASSUME ValueLevel' = ValueLevel
    PROVE  Frozen
BY DEF Frozen, Leveled

LEMMA PropagateFreezes ==
    ASSUME NEW u, Propagate(u)
    PROVE  Frozen
<1>1. CASE u \notin TaintedValues
  BY <1>1, SetLevelFreezes DEF Propagate
<1>2. CASE u \in TaintedValues
  BY <1>2, AddLevelFreezes, SameLevelsFreeze DEF Propagate
<1> QED
  BY <1>1, <1>2

LEMMA StepFreezes ==
    ASSUME Inductive, [Next]_vars
    PROVE  Frozen
<1>1. CASE SeedInstruction
  <2>1. PICK x \in todo : /\ pc = "seed" /\ x[2] = 0
                          /\ ValueLevel' = Put(ValueLevel, x[1], 0)
    BY <1>1 DEF SeedInstruction
  <2> QED
    BY <2>1, SetLevelFreezes DEF Inductive, InHand
<1>2. CASE SeedArgument
  <2>1. PICK param, level :
          ValueLevel' = IF param \in TaintedValues THEN ValueLevel
                        ELSE Put(ValueLevel, param, level)
    BY <1>2 DEF SeedArgument
  <2> QED
    BY <2>1, SetLevelFreezes, SameLevelsFreeze
<1>3. CASE PassToTarget
  <2>1. PICK c, param, level, lower, reported :
          /\ reported \in {ValueLevel, PutIfAbsent(ValueLevel, c, level)}
          /\ \/ ValueLevel' = reported
             \/ /\ param \notin TaintedValues
                /\ ValueLevel' = Put(reported, param, lower)
    BY <1>3 DEF PassToTarget
  <2> QED
    BY <2>1 DEF Put, PutIfAbsent, Frozen, Leveled
<1>4. CASE StoreToLocal \/ OtherUse
  BY <1>4, PropagateFreezes DEF StoreToLocal, OtherUse
<1>5. CASE ScanLoad
  <2>1. PICK l : ValueLevel' = IF l \in TaintedValues THEN ValueLevel
                               ELSE ensureLevelSet(l)
    BY <1>5 DEF ScanLoad
  <2> QED
    BY <2>1, AddLevelFreezes, SameLevelsFreeze DEF ensureLevelSet
<1>6. CASE TaintCall
  <2>1. PICK c : ValueLevel' = LevelsOfCall(c)
    BY <1>6 DEF TaintCall
  <2> QED
    BY <2>1, SetLevelFreezes, SameLevelsFreeze DEF LevelsOfCall
<1>7. CASE UpwardUse
  <2>1. PICK u, level : /\ u \notin TaintedValues
                        /\ ValueLevel' = Put(ValueLevel, u, level)
    BY <1>7 DEF UpwardUse
  <2> QED
    BY <2>1, SetLevelFreezes
<1>8. CASE \/ SeedDone \/ TakeValue \/ Return \/ StoreToGlobal \/ StoreToParam
           \/ SkipTainted \/ UsersDone
  BY <1>8, SameLevelsFreeze
  DEF SeedDone, TakeValue, Return, StoreToGlobal, StoreToParam, SkipTainted,
      UsersDone, User, maps
<1>9. CASE Scan /\ ~ScanLoad
  BY <1>9, SameLevelsFreeze
  DEF Scan, IdentifyKills, CollectPointers, TakePointer, LoadsDone, ScanDone,
      MainDone, maps
<1>10. CASE Round /\ ~TaintCall
  BY <1>10, SameLevelsFreeze
  DEF Round, BeginRound, CallersDone, PassThrough, TaintVariable,
      OtherArgument, Argument, ArgumentsDone, EndRound, maps
<1>11. CASE Report \/ UNCHANGED vars
  BY <1>11, SameLevelsFreeze DEF Report, maps, vars
<1> QED
  BY <1>1, <1>2, <1>3, <1>4, <1>5, <1>6, <1>7, <1>8, <1>9, <1>10, <1>11
  DEF Next, Seed, Drain, MainUser, Scan, Round, Done

\* The statistics count every value under the level that was printed when it
\* was tainted: no step overwrites the level of a value that has been tainted.
THEOREM LevelsStay == Spec => LevelsFrozen
<1>1. Inductive /\ [Next]_vars =>
         [\A v \in Leveled : v \in DOMAIN ValueLevel'
                             /\ ValueLevel'[v] = ValueLevel[v]]_vars
  BY StepFreezes DEF Frozen
<1> QED
  BY <1>1, AlwaysInductive, PTL DEF Spec, LevelsFrozen

-----------------------------------------------------------------------------
(* The pass follows the data flow: TaintTracker implements TaintFlow *)

\* What a step newly records, the constant reaches.
NewReached ==
    /\ \A v \in TaintedValues' \ TaintedValues : Flow!ValueReached(Flow!known, v)
    /\ \A p \in TaintedPointers' \ TaintedPointers : Flow!PointerReached(Flow!known, p)
    /\ \A f \in FunctionsReturningTaint' \ FunctionsReturningTaint :
          Flow!FunctionReached(Flow!known, f)
    /\ \A x \in FunctionsTaintingPointerParams' \ FunctionsTaintingPointerParams :
          Flow!ParamReached(Flow!known, x)

\* The two specifications speak of the same LLVM module.
LEMMA SameM ==
    /\ Flow!m = M
    /\ Flow!known.tainted = TaintedValues
    /\ Flow!known.pointers = TaintedPointers
    /\ Flow!known.returning = FunctionsReturningTaint
    /\ Flow!known.storing = FunctionsTaintingPointerParams
    /\ \A x, i : Flow!Operands(x, i) = Operands(x, i)
    /\ \A x, kind : Flow!Of(x, kind) = Of(x, kind)
    /\ \A x, s : Flow!StoredValue(x, s) = StoredValue(x, s)
    /\ \A x, s : Flow!StorePointer(x, s) = StorePointer(x, s)
    /\ \A x, c : Flow!ArgSize(x, c) = ArgSize(x, c)
    /\ \A x, c : Flow!CalledOperand(x, c) = CalledOperand(x, c)
    /\ \A x, c : Flow!IsDirect(x, c) = IsDirect(x, c)
    /\ \A x, f : Flow!CallsTo(x, f) = CallsTo(x, f)
    /\ \A x, l : Flow!LoadedPointers(x, l) = LoadedPointers(x, l)
    /\ \A x, v : Flow!PointedVar(x, v) = PointedVar(x, v)
    /\ \A x, s, acc : Flow!FieldTargets(x, s, acc) = FieldTargets(x, s, acc)
<1>1. Flow!m = M
  BY DEF Flow!m, M
<1>11. /\ Flow!known.tainted = TaintedValues
       /\ Flow!known.pointers = TaintedPointers
       /\ Flow!known.returning = FunctionsReturningTaint
       /\ Flow!known.storing = FunctionsTaintingPointerParams
  BY DEF Flow!known
<1>2. \A x, i : Flow!Operands(x, i) = Operands(x, i)
  BY DEF Flow!Operands, Operands
<1>3. \A x, kind : Flow!Of(x, kind) = Of(x, kind)
  BY DEF Flow!Of, Of
<1>4. /\ \A x, s : Flow!StoredValue(x, s) = StoredValue(x, s)
      /\ \A x, s : Flow!StorePointer(x, s) = StorePointer(x, s)
  BY DEF Flow!StoredValue, StoredValue, Flow!StorePointer, StorePointer
<1>5. /\ \A x, c : Flow!ArgSize(x, c) = ArgSize(x, c)
      /\ \A x, c : Flow!CalledOperand(x, c) = CalledOperand(x, c)
  BY DEF Flow!ArgSize, ArgSize, Flow!CalledOperand, CalledOperand
<1>6. \A x, c : Flow!IsDirect(x, c) = IsDirect(x, c)
  BY <1>5 DEF Flow!IsDirect, IsDirect
<1>7. \A x, f : Flow!CallsTo(x, f) = CallsTo(x, f)
  BY <1>3, <1>5 DEF Flow!CallsTo, CallsTo
<1>8. \A x, l : Flow!LoadedPointers(x, l) = LoadedPointers(x, l)
  BY <1>3 DEF Flow!LoadedPointers, LoadedPointers
<1>9. \A x, v : Flow!PointedVar(x, v) = PointedVar(x, v)
  BY <1>3 DEF Flow!PointedVar, PointedVar
<1>10. \A x, s, acc : Flow!FieldTargets(x, s, acc) = FieldTargets(x, s, acc)
  <2>1. \A x, v : Flow!Users(x, v) = Users(x, v)
    BY <1>2 DEF Flow!Users, Users
  <2> QED
    BY <1>3, <1>4, <2>1 DEF Flow!FieldTargets, FieldTargets
<1> QED
  BY <1>1, <1>2, <1>3, <1>4, <1>5, <1>6, <1>7, <1>8, <1>9, <1>10, <1>11

\* A use of a value that carries the constant
LEMMA UseReached ==
    ASSUME NEW v, NEW i \in Users(M, v), Flow!Carries(Flow!known, i, v)
    PROVE  /\ Flow!ValueReached(Flow!known, i)
           /\ M.kind[i] = "ret" => Flow!FunctionReached(Flow!known, M.func[i])
           /\ IsStoreOf(i, v) => /\ Flow!PointerReached(Flow!known, StorePointer(M, i))
                                 /\ \A x \in ParamOf(i) :
                                       Flow!ParamReached(Flow!known, x)
<1>1. i \in M.insts /\ v \in Operands(M, i)
  BY DEF Users
<1>2. Flow!ValueReached(Flow!known, i)
  BY <1>1, SameM DEF Flow!ValueReached
<1>3. M.kind[i] = "ret" => Flow!FunctionReached(Flow!known, M.func[i])
  BY <1>1, SameM DEF Flow!FunctionReached, Of
<1>4. IsStoreOf(i, v) => Flow!PointerReached(Flow!known, StorePointer(M, i))
  BY <1>1, SameM DEF Flow!PointerReached, IsStoreOf, Of
<1>5. IsStoreOf(i, v) => \A x \in ParamOf(i) : Flow!ParamReached(Flow!known, x)
  BY <1>1, SameM DEF Flow!ParamReached, IsStoreOf, Of, ParamOf, StoresThrough
<1> QED
  BY <1>2, <1>3, <1>4, <1>5

LEMMA UserReached ==
    ASSUME Inductive, NEW x \in todo, NEW mode, User(x, mode)
    PROVE  x[1] \in Users(M, cur) /\ Flow!Carries(Flow!known, x[1], cur)
BY UserFacts, SameM DEF Flow!Carries

\* The function that a part of a call stands for is one the call may enter.
LEMMA TargetReached ==
    ASSUME input \in Inputs, NEW c \in Of(M, "call"), NEW v,
           NEW n \in TargetParts(c, v), TargetOf(c, n) \in M.defined
    PROVE  Flow!MayEnter(c, TargetOf(c, n))
<1>1. CASE IsDirect(M, c)
  BY <1>1, SameM DEF TargetOf, Flow!MayEnter
<1>2. CASE ~IsDirect(M, c)
  <2>1. input.indirect /\ \E s \in IndirectTargets(c) : M.pos[s] + 1 = n
    BY <1>2 DEF TargetParts
  <2> DEFINE s == CHOOSE s \in IndirectTargets(c) : M.pos[s] + 1 = n
  <2>2. s \in IndirectTargets(c)
    BY <2>1
  <2>3. s \in Of(M, "store") /\ TargetOf(c, n) = StoredValue(M, s)
    BY <1>2, <2>2 DEF IndirectTargets, TargetOf
  <2> QED
    BY <1>2, <2>1, <2>3, SameM DEF Flow!MayEnter
<1> QED
  BY <1>1, <1>2

LEMMA SeedReached ==
    ASSUME Inductive, SeedInstruction \/ SeedArgument
    PROVE  NewReached
<1>1. input \in Inputs
  BY DEF Inductive, TypeOK, DataOK
<1>2. ASSUME NEW i \in M.insts, M.func[i] = input.function
      PROVE  Flow!Carries(Flow!known, i, input.constant)
  BY <1>2, SameM DEF Flow!Carries
<1>3. CASE SeedInstruction
  <2>1. PICK x \in todo :
          LET i == x[1]
              isConst(k) == k \in DOMAIN M.ops[i] /\ M.ops[i][k] = input.constant
              toGlobal == M.kind[i] = "store" /\ StorePointer(M, i) \in M.globals
          IN
          /\ pc = "seed" /\ Taint(i)
          /\ FunctionsReturningTaint' = FunctionsReturningTaint \cup
                (IF M.kind[i] = "ret" /\ isConst(1) THEN {M.func[i]} ELSE {})
          /\ IF IsParamStore(i) /\ ~toGlobal
             THEN FunctionsTaintingPointerParams' =
                      FunctionsTaintingPointerParams \cup ParamOf(i)
             ELSE UNCHANGED FunctionsTaintingPointerParams
          /\ IF M.kind[i] = "store" /\ ~toGlobal /\ ~IsParamStore(i)
             THEN TaintPointer(StorePointer(M, i), i)
             ELSE UNCHANGED <<TaintedPointers, PointerTaintOrigin>>
    BY <1>3 DEF SeedInstruction
  <2> DEFINE i == x[1]
  <2>2. /\ i \in Users(M, input.constant) /\ i \in M.insts
        /\ Flow!Carries(Flow!known, i, input.constant)
    BY <1>1, <1>2, <2>1, SeedFacts DEF Inductive, InHand, Users
  <2>3. M.kind[i] = "store" => IsStoreOf(i, input.constant)
    <3>1. ASSUME M.kind[i] = "store"
          PROVE  StoredValue(M, i) = input.constant
      <4>1. M.ops[i] \in Seq(Values(M)) /\ Len(M.ops[i]) = 2
            /\ M.ops[i][2] \notin M.consts
        BY <1>1, <2>2, <3>1, ModuleFacts DEF ModuleOK
      <4>2. input.constant \in M.consts
        BY <1>1, ModuleFacts DEF InputOK, M
      <4>3. PICK k \in DOMAIN M.ops[i] : M.ops[i][k] = input.constant
        BY <2>2 DEF Users, Operands
      <4>4. k = 1
        BY <4>1, <4>2, <4>3
      <4> QED
        BY <4>3, <4>4 DEF StoredValue
    <3> QED
      BY <3>1 DEF IsStoreOf
  <2>4. \A v \in TaintedValues' \ TaintedValues : Flow!ValueReached(Flow!known, v)
    BY <2>1, <2>2, UseReached DEF Taint
  <2>5. \A p \in TaintedPointers' \ TaintedPointers :
           Flow!PointerReached(Flow!known, p)
    BY <2>1, <2>2, <2>3, UseReached DEF TaintPointer
  <2>6. \A f \in FunctionsReturningTaint' \ FunctionsReturningTaint :
           Flow!FunctionReached(Flow!known, f)
    BY <2>1, <2>2, UseReached
  <2>7. \A y \in FunctionsTaintingPointerParams' \ FunctionsTaintingPointerParams :
           Flow!ParamReached(Flow!known, y)
    BY <2>1, <2>2, <2>3, UseReached DEF IsParamStore
  <2> QED
    BY <2>4, <2>5, <2>6, <2>7 DEF NewReached
<1>4. CASE SeedArgument
  <2>1. PICK x \in todo :
          /\ pc = "seed" /\ x[2] # 0
          /\ TaintParam(M.params[CalledOperand(M, x[1])][x[2]],
                        CalledOperand(M, x[1]), getLevel(x[1]))
          /\ UNCHANGED <<TaintedPointers, FunctionsReturningTaint,
                         FunctionsTaintingPointerParams>>
    BY <1>4 DEF SeedArgument
  <2>2. x \in SeedParts(input)
    BY <2>1 DEF Inductive, InHand
  <2>3. Flow!MayEnter(x[1], CalledOperand(M, x[1]))
    BY <1>1, <2>1, <2>2, SeedFacts, SameM DEF Flow!MayEnter
  <2>4. Flow!ValueReached(Flow!known, M.params[CalledOperand(M, x[1])][x[2]])
    <3>1. Flow!Carries(Flow!known, x[1], input.constant)
      BY <1>1, <1>2, <2>2, SeedFacts DEF Of
    <3> QED
      BY <1>1, <2>1, <2>2, <2>3, <3>1, SeedFacts, SameM DEF Flow!ValueReached
  <2> QED
    BY <2>1, <2>4 DEF NewReached, TaintParam, Taint
<1> QED
  BY <1>3, <1>4

LEMMA MainUserReached ==
    ASSUME Inductive, MainUser
    PROVE  NewReached
<1>1. input \in Inputs
  BY DEF Inductive, TypeOK, DataOK
<1>2. CASE PassToTarget
  <2>1. PICK x \in todo :
          LET f == TargetOf(x[1], x[2])
              k == CHOOSE k \in ArgIndices(x[1], cur) : TRUE
          IN
          /\ x[2] # 0 /\ User(x, "main")
          /\ \/ /\ f \in M.defined /\ k <= Len(M.params[f])
                /\ TaintParam(M.params[f][k], f, getLevel(cur))
             \/ UNCHANGED TaintedValues
    BY <1>2 DEF PassToTarget
  <2>2. UNCHANGED <<TaintedPointers, FunctionsReturningTaint,
                    FunctionsTaintingPointerParams>>
    BY <1>2 DEF PassToTarget
  <2> DEFINE c == x[1]
             f == TargetOf(c, x[2])
             k == CHOOSE k \in ArgIndices(c, cur) : TRUE
  <2>3. /\ c \in Of(M, "call") /\ x[2] \in TargetParts(c, cur)
        /\ Flow!Carries(Flow!known, c, cur)
    BY <2>1, UserFacts, SameM DEF Of, Flow!Carries
  <2>4. input.interproc /\ k \in 1..ArgSize(M, c) /\ M.ops[c][k] = cur
    BY <1>1, <2>3, PartFacts
  <2>5. CASE /\ f \in M.defined /\ k <= Len(M.params[f])
             /\ TaintParam(M.params[f][k], f, getLevel(cur))
    <3>1. Flow!MayEnter(c, f)
      BY <1>1, <2>3, <2>5, TargetReached
    <3> HIDE DEF k, f
    <3>2. Flow!ValueReached(Flow!known, M.params[f][k])
      BY <2>3, <2>4, <2>5, <3>1, SameM DEF Flow!ValueReached
    <3> QED
      BY <2>2, <2>5, <3>2 DEF NewReached, TaintParam, Taint
  <2>6. CASE UNCHANGED TaintedValues
    BY <2>2, <2>6 DEF NewReached
  <2> QED
    BY <2>1, <2>5, <2>6
<1>3. CASE Return
  BY <1>3, UserReached, UseReached DEF Return, NewReached, IsReturnOf
<1>4. CASE StoreToGlobal
  BY <1>4 DEF StoreToGlobal, NewReached, taint
<1>5. CASE StoreToParam
  BY <1>5, UserReached, UseReached DEF StoreToParam, NewReached
<1>6. CASE StoreToLocal
  BY <1>6, UserReached, UseReached
  DEF StoreToLocal, NewReached, TaintPointer, Propagate, Taint
<1>7. CASE OtherUse
  BY <1>7, UserReached, UseReached DEF OtherUse, NewReached, Propagate, Taint
<1> QED
  BY <1>2, <1>3, <1>4, <1>5, <1>6, <1>7 DEF MainUser

LEMMA UpwardUserReached ==
    ASSUME Inductive, UpwardUse
    PROVE  NewReached
<1>1. PICK x \in todo :
        LET u == x[1]
            params == IF IsStoreOf(u, cur) /\ IsParamStore(u) THEN ParamOf(u)
                      ELSE {}
            returning == IF IsReturnOf(u, cur) THEN {M.func[u]} ELSE {}
        IN
        /\ User(x, "up") /\ Taint(u)
        /\ IF IsStoreOf(u, cur) THEN TaintPointer(StorePointer(M, u), u)
           ELSE UNCHANGED <<TaintedPointers, PointerTaintOrigin>>
        /\ FunctionsTaintingPointerParams' =
              FunctionsTaintingPointerParams \cup params
        /\ FunctionsReturningTaint' = FunctionsReturningTaint \cup returning
  BY DEF UpwardUse
<1>2. x[1] \in Users(M, cur) /\ Flow!Carries(Flow!known, x[1], cur)
  BY <1>1, UserReached
<1>3. \A v \in TaintedValues' \ TaintedValues : Flow!ValueReached(Flow!known, v)
  BY <1>1, <1>2, UseReached DEF Taint
<1>4. \A p \in TaintedPointers' \ TaintedPointers : Flow!PointerReached(Flow!known, p)
  BY <1>1, <1>2, UseReached DEF TaintPointer
<1>5. \A f \in FunctionsReturningTaint' \ FunctionsReturningTaint :
         Flow!FunctionReached(Flow!known, f)
  BY <1>1, <1>2, UseReached DEF IsReturnOf
<1>6. \A y \in FunctionsTaintingPointerParams' \ FunctionsTaintingPointerParams :
         Flow!ParamReached(Flow!known, y)
  BY <1>1, <1>2, UseReached
<1> QED
  BY <1>3, <1>4, <1>5, <1>6 DEF NewReached

LEMMA ScanLoadReached ==
    ASSUME Inductive, ScanLoad
    PROVE  NewReached
<1>1. PICK x \in todo :
        /\ pc = "loads"
        /\ TaintedValues' \subseteq TaintedValues \cup {x[1]}
        /\ UNCHANGED <<TaintedPointers, FunctionsReturningTaint,
                       FunctionsTaintingPointerParams>>
  BY DEF ScanLoad, Taint
<1>2. /\ x[1] \in Of(M, "load") /\ cur \in TaintedPointers
      /\ cur \in LoadedPointers(M, x[1])
  BY <1>1 DEF Inductive, TypeOK, ControlOK, InHand, Of
<1>3. Flow!ValueReached(Flow!known, x[1])
  BY <1>2, SameM DEF Flow!ValueReached
<1> QED
  BY <1>1, <1>3 DEF NewReached

LEMMA TaintCallReached ==
    ASSUME Inductive, TaintCall
    PROVE  NewReached
<1>1. PICK x \in todo :
        /\ pc = "callers"
        /\ TaintedValues' \subseteq TaintedValues \cup {x[1]}
        /\ UNCHANGED <<TaintedPointers, FunctionsReturningTaint,
                       FunctionsTaintingPointerParams>>
  BY DEF TaintCall, Taint
<1>2. /\ CalledOperand(M, x[1]) \in FunctionsReturningTaint
      /\ x[1] \in CallsTo(M, CalledOperand(M, x[1]))
  BY <1>1 DEF Inductive, TypeOK, ControlOK, InHand, CallsTo, Of
<1>3. Flow!ValueReached(Flow!known, x[1])
  BY <1>2, SameM DEF Flow!ValueReached
<1> QED
  BY <1>1, <1>3 DEF NewReached

LEMMA ArgumentReached ==
    ASSUME Inductive, PassThrough \/ TaintVariable \/ OtherArgument
    PROVE  NewReached
<1>1. ASSUME NEW x \in todo, Argument(x)
      PROVE  /\ input.upward /\ x[1] \in Of(M, "call")
             /\ x[2] \in 1..ArgSize(M, x[1])
             /\ <<CalledOperand(M, x[1]), x[2]>> \in FunctionsTaintingPointerParams
             /\ UNCHANGED <<TaintedValues, FunctionsReturningTaint>>
  BY <1>1, ArgumentFacts DEF Argument, Inductive, InHand
<1>2. CASE PassThrough
  <2>1. PICK x \in todo :
          /\ Argument(x)
          /\ FunctionsTaintingPointerParams' = FunctionsTaintingPointerParams
                \cup {<<M.func[x[1]], M.origin[Actual(x)]>>}
          /\ UNCHANGED TaintedPointers
    BY <1>2 DEF PassThrough
  <2>2. Flow!ParamReached(Flow!known, <<M.func[x[1]], M.origin[Actual(x)]>>)
    BY <1>1, <2>1, SameM DEF Flow!ParamReached, Actual
  <2> QED
    BY <1>1, <2>1, <2>2 DEF NewReached
<1>3. CASE TaintVariable
  <2>1. PICK x \in todo : \E var \in PointedVar(M, Actual(x)) :
          /\ Argument(x)
          /\ TaintedPointers' \subseteq TaintedPointers
                \cup Reached(var, CalledOperand(M, x[1]), x[2])
          /\ UNCHANGED FunctionsTaintingPointerParams
    BY <1>3 DEF TaintVariable
  <2>2. PICK var \in PointedVar(M, Actual(x)) :
          TaintedPointers' \subseteq TaintedPointers
                \cup Reached(var, CalledOperand(M, x[1]), x[2])
    BY <2>1
  <2>3. \A acc : FieldTargets(M, var, acc) \subseteq FieldTargets(M, var, {})
    BY DEF FieldTargets
  <2>4. ASSUME NEW p \in Reached(var, CalledOperand(M, x[1]), x[2])
        PROVE  Flow!PointedByArgument(x[1], x[2], p)
    <3>1. p = var \/ p \in FieldTargets(M, var, {})
      BY <2>3 DEF Reached
    <3> QED
      BY <3>1, SameM DEF Flow!PointedByArgument, Actual
  <2>5. ASSUME NEW p \in Reached(var, CalledOperand(M, x[1]), x[2])
        PROVE  Flow!PointerReached(Flow!known, p)
    BY <1>1, <2>1, <2>4, SameM DEF Flow!PointerReached
  <2> QED
    BY <1>1, <2>1, <2>2, <2>5 DEF NewReached
<1>4. CASE OtherArgument
  BY <1>1, <1>4 DEF OtherArgument, NewReached
<1> QED
  BY <1>2, <1>3, <1>4

\* The other steps record nothing.
LEMMA NothingNew ==
    ASSUME UNCHANGED taint
    PROVE  NewReached
BY DEF taint, NewReached

LEMMA StepReached ==
    ASSUME Inductive, Next
    PROVE  NewReached /\ input' = input
<1>1. CASE Seed
  BY <1>1, SeedReached, NothingNew
  DEF Seed, SeedInstruction, SeedArgument, SeedDone
<1>2. CASE MainUser
  <2>1. input' = input
    BY <1>2 DEF MainUser, PassToTarget, Return, StoreToGlobal, StoreToParam,
                StoreToLocal, OtherUse, User
  <2> QED
    BY <1>2, <2>1, MainUserReached
<1>3. CASE Drain /\ ~MainUser
  BY <1>3, UpwardUserReached, NothingNew
  DEF Drain, TakeValue, SkipTainted, UpwardUse, UsersDone, User
<1>4. CASE Scan
  BY <1>4, ScanLoadReached, NothingNew
  DEF Scan, IdentifyKills, CollectPointers, TakePointer, ScanLoad, LoadsDone,
      ScanDone, MainDone
<1>5. CASE Round
  BY <1>5, TaintCallReached, ArgumentReached, NothingNew
  DEF Round, BeginRound, TaintCall, CallersDone, PassThrough, TaintVariable,
      OtherArgument, Argument, ArgumentsDone, EndRound
<1>6. CASE Report \/ Done
  BY <1>6, NothingNew DEF Report, Done, vars
<1> QED
  BY <1>1, <1>2, <1>3, <1>4, <1>5, <1>6 DEF Next

\* TaintTracker implements TaintFlow: the pass records only values, pointers,
\* functions and parameters that the constant reaches along the data flow of
\* the module, and forgets none of them.
THEOREM Refinement == Spec => FollowsDataFlow
<1>1. Init => Flow!Init
  BY DEF Init, Flow!Init
<1>2. Inductive /\ [Next]_vars => [Flow!Next]_(Flow!vars)
  <2>1. ASSUME Inductive, Next
        PROVE  Flow!Next
    BY <2>1, StepInductive, StepReached DEF Flow!Next, NewReached, Grows
  <2>2. ASSUME UNCHANGED vars
        PROVE  UNCHANGED Flow!vars
    BY <2>2 DEF vars, taint, Flow!vars
  <2> QED
    BY <2>1, <2>2
<1> QED
  BY <1>1, <1>2, AlwaysInductive, PTL DEF Spec, FollowsDataFlow, Flow!Spec

-----------------------------------------------------------------------------
(* The extent of the data flow bounds what is recorded *)

\* From more the constant reaches more.
LEMMA ReachesMore ==
    ASSUME NEW extent, Flow!Within(extent)
    PROVE  /\ \A v : Flow!ValueReached(Flow!known, v) => Flow!ValueReached(extent, v)
           /\ \A p : Flow!PointerReached(Flow!known, p) => Flow!PointerReached(extent, p)
           /\ \A f : Flow!FunctionReached(Flow!known, f) => Flow!FunctionReached(extent, f)
           /\ \A x : Flow!ParamReached(Flow!known, x) => Flow!ParamReached(extent, x)
<1>1. /\ Flow!known.tainted \subseteq extent.tainted
      /\ Flow!known.pointers \subseteq extent.pointers
      /\ Flow!known.returning \subseteq extent.returning
      /\ Flow!known.storing \subseteq extent.storing
  BY SameM DEF Flow!Within
<1>2. ASSUME NEW i, NEW v, Flow!Carries(Flow!known, i, v)
      PROVE  Flow!Carries(extent, i, v)
  BY <1>1, <1>2 DEF Flow!Carries
<1>3. \A v : Flow!ValueReached(Flow!known, v) => Flow!ValueReached(extent, v)
  BY <1>1, <1>2 DEF Flow!ValueReached
<1>4. \A p : Flow!PointerReached(Flow!known, p) => Flow!PointerReached(extent, p)
  BY <1>1, <1>2 DEF Flow!PointerReached
<1>5. \A f : Flow!FunctionReached(Flow!known, f) => Flow!FunctionReached(extent, f)
  BY <1>2 DEF Flow!FunctionReached
<1>6. \A x : Flow!ParamReached(Flow!known, x) => Flow!ParamReached(extent, x)
  BY <1>1, <1>2 DEF Flow!ParamReached
<1> QED
  BY <1>3, <1>4, <1>5, <1>6

\* The module is the same throughout a run, and with it its data flow.
LEMMA SameExtents ==
    ASSUME input' = input
    PROVE  /\ Flow!Extents' = Flow!Extents
           /\ \A extent \in Flow!Extents : Flow!Closed(extent)' => Flow!Closed(extent)
<1>1. Flow!m' = Flow!m
  BY DEF Flow!m
<1>2. Flow!Extents' = Flow!Extents
  BY <1>1 DEF Flow!Extents
<1>3. ASSUME NEW extent \in Flow!Extents
      PROVE  Flow!Closed(extent)' <=> Flow!Closed(extent)
  BY <1>1
  DEF Flow!Closed, Flow!ValueReached, Flow!PointerReached, Flow!FunctionReached,
      Flow!ParamReached, Flow!Carries, Flow!MayEnter, Flow!PointedByArgument
<1> QED
  BY <1>2, <1>3

\* What a step records of an extent that it may not leave stays in there.
LEMMA StepStays ==
    ASSUME Inductive, Inductive', StaysInExtent, Next
    PROVE  StaysInExtent'
<1> SUFFICES ASSUME NEW extent \in Flow!Extents, Flow!Closed(extent)
             PROVE  Flow!Within(extent)'
  <2>1. Flow!Extents' = Flow!Extents
        /\ \A extent \in Flow!Extents : Flow!Closed(extent)' => Flow!Closed(extent)
    BY StepReached, SameExtents
  <2> QED
    BY <2>1 DEF StaysInExtent
<1>1. M' = M /\ Flow!Within(extent)
  BY StepReached DEF StaysInExtent, M
<1>2. TaintedValues' \subseteq Locals(M)
  BY <1>1 DEF Inductive, TypeOK, DataOK, Locals
<1>3. TaintedPointers' \subseteq Values(M)
  BY <1>1 DEF Inductive, TypeOK, DataOK
<1>4. FunctionsReturningTaint' \subseteq M.funcs
      /\ FunctionsTaintingPointerParams' \subseteq M.funcs \X (Nat \ {0})
  BY <1>1 DEF Inductive, TypeOK, DataOK
<1>5. Flow!Values(M) = Values(M) /\ Flow!Locals(M) = Locals(M)
  BY DEF Flow!Values, Values, Flow!Locals, Locals
<1>6. /\ \A v \in TaintedValues' \ TaintedValues : Flow!ValueReached(extent, v)
      /\ \A p \in TaintedPointers' \ TaintedPointers : Flow!PointerReached(extent, p)
      /\ \A f \in FunctionsReturningTaint' \ FunctionsReturningTaint :
            Flow!FunctionReached(extent, f)
      /\ \A x \in FunctionsTaintingPointerParams' \ FunctionsTaintingPointerParams :
            Flow!ParamReached(extent, x)
  BY <1>1, StepReached, ReachesMore DEF NewReached
<1>7. /\ TaintedValues' \subseteq extent.tainted
      /\ TaintedPointers' \subseteq extent.pointers
      /\ FunctionsReturningTaint' \subseteq extent.returning
      /\ FunctionsTaintingPointerParams' \subseteq extent.storing
  BY <1>1, <1>2, <1>3, <1>4, <1>5, <1>6, SameM DEF Flow!Closed, Flow!Within
<1> QED
  BY <1>7 DEF Flow!Within

\* Whatever the pass records, in whatever order it works, lies in the least
\* part of the module that the data flow does not lead out of.
THEOREM NothingOutsideTheFlow == Spec => []StaysInExtent
<1>1. Init => StaysInExtent
  BY DEF Init, StaysInExtent, Flow!Within
<1>2. Inductive /\ StaysInExtent /\ [Next]_vars => StaysInExtent'
  <2>1. ASSUME Inductive, StaysInExtent, Next
        PROVE  StaysInExtent'
    BY <2>1, StepInductive, StepStays
  <2>2. ASSUME StaysInExtent, UNCHANGED vars
        PROVE  StaysInExtent'
    <3>1. input' = input /\ taint' = taint
      BY <2>2 DEF vars
    <3> QED
      BY <2>2, <3>1, SameExtents DEF StaysInExtent, Flow!Within, taint
  <2> QED
    BY <2>1, <2>2
<1> QED
  BY <1>1, <1>2, AlwaysInductive, PTL DEF Spec
=============================================================================
