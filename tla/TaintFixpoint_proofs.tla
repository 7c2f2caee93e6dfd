------------------------ MODULE TaintFixpoint_proofs ------------------------
(***************************************************************************)
(* The loops of TaintTracker miss nothing: theorems about the worklist,    *)
(* the scans for loads, the fixpoint that the main loop comes to, the      *)
(* upward rounds and the levels, for every set of modules and inputs.      *)
(***************************************************************************)
EXTENDS TaintTracker_proofs

-----------------------------------------------------------------------------
(* What every step does to the records *)

\* The pointers that are tainted keep the origin of their taint, and a kill
\* stays one.
Remembers ==
    /\ \A p \in TaintedPointers : PointerTaintOrigin'[p] = PointerTaintOrigin[p]
    /\ KilledStores \subseteq KilledStores'

LEMMA TaintPointerRemembers ==
    ASSUME Inductive, NEW p, NEW s, TaintPointer(p, s)
    PROVE  \A q \in TaintedPointers : PointerTaintOrigin'[q] = PointerTaintOrigin[q]
BY DEF TaintPointer, Put, Inductive, TypeOK, DataOK

LEMMA StepRemembers ==
    ASSUME Inductive, [Next]_vars
    PROVE  Remembers /\ input' = input
<1>1. CASE SeedInstruction
  <2>1. PICK x \in todo :
          \/ TaintPointer(StorePointer(M, x[1]), x[1])
          \/ UNCHANGED <<TaintedPointers, PointerTaintOrigin>>
    BY <1>1, Zenon DEF SeedInstruction
  <2>2. UNCHANGED <<input, KilledStores>>
    BY <1>1 DEF SeedInstruction
  <2> QED
    BY <2>1, <2>2, TaintPointerRemembers DEF Remembers
<1>2. CASE StoreToLocal
  <2>1. PICK x \in todo : TaintPointer(StorePointer(M, x[1]), x[1])
    BY <1>2 DEF StoreToLocal
  <2>2. UNCHANGED <<input, KilledStores>>
    BY <1>2 DEF StoreToLocal, User
  <2> QED
    BY <2>1, <2>2, TaintPointerRemembers DEF Remembers
<1>3. CASE UpwardUse
  <2>1. PICK x \in todo :
          \/ TaintPointer(StorePointer(M, x[1]), x[1])
          \/ UNCHANGED <<TaintedPointers, PointerTaintOrigin>>
    BY <1>3 DEF UpwardUse
  <2>2. UNCHANGED <<input, KilledStores>>
    BY <1>3 DEF UpwardUse, User
  <2> QED
    BY <2>1, <2>2, TaintPointerRemembers DEF Remembers
<1>4. CASE TaintVariable
  <2>1. PICK x \in todo : \E var \in PointedVar(M, Actual(x)) :
          LET new == Reached(var, CalledOperand(M, x[1]), x[2]) \ TaintedPointers IN
          \/ UNCHANGED PointerTaintOrigin
          \/ PointerTaintOrigin' =
                [p \in DOMAIN PointerTaintOrigin \cup new |->
                    IF p \in new THEN x[1] ELSE PointerTaintOrigin[p]]
    BY <1>4 DEF TaintVariable
  <2>2. PICK var \in PointedVar(M, Actual(x)) :
          LET new == Reached(var, CalledOperand(M, x[1]), x[2]) \ TaintedPointers IN
          \/ UNCHANGED PointerTaintOrigin
          \/ PointerTaintOrigin' =
                [p \in DOMAIN PointerTaintOrigin \cup new |->
                    IF p \in new THEN x[1] ELSE PointerTaintOrigin[p]]
    BY <2>1
  <2>3. UNCHANGED <<input, KilledStores>>
    BY <1>4 DEF TaintVariable, Argument
  <2> DEFINE new == Reached(var, CalledOperand(M, x[1]), x[2]) \ TaintedPointers
  <2>4. new \cap TaintedPointers = {}
    OBVIOUS
  <2> HIDE DEF new
  <2>5. PointerTaintOrigin \in [TaintedPointers -> M.insts]
    BY DEF Inductive, TypeOK, DataOK
  <2>6. \/ UNCHANGED PointerTaintOrigin
        \/ PointerTaintOrigin' =
              [p \in DOMAIN PointerTaintOrigin \cup new |->
                  IF p \in new THEN x[1] ELSE PointerTaintOrigin[p]]
    BY <2>2 DEF new
  <2> QED
    BY <2>3, <2>4, <2>5, <2>6 DEF Remembers
<1>5. CASE \/ SeedArgument \/ SeedDone \/ TakeValue \/ PassToTarget \/ Return
           \/ StoreToGlobal \/ StoreToParam \/ OtherUse \/ SkipTainted \/ UsersDone
  BY <1>5 DEF SeedArgument, SeedDone, TakeValue, PassToTarget, Return,
     StoreToGlobal, StoreToParam, OtherUse, SkipTainted, UsersDone, User, maps, Remembers
<1>6. CASE Scan
  BY <1>6 DEF Scan, IdentifyKills, CollectPointers, TakePointer, ScanLoad,
     LoadsDone, ScanDone, MainDone, maps, Remembers
<1>7. CASE Round /\ ~TaintVariable
  BY <1>7 DEF Round, BeginRound, TaintCall, CallersDone, PassThrough,
     OtherArgument, Argument, ArgumentsDone, EndRound, maps, Remembers
<1>8. CASE Report \/ UNCHANGED vars
  BY <1>8 DEF Report, maps, vars, Remembers
<1> QED
  BY <1>1, <1>2, <1>3, <1>4, <1>5, <1>6, <1>7, <1>8
  DEF Next, Seed, Drain, MainUser, Round, Done

-----------------------------------------------------------------------------
(* The worklist *)

LEMMA TaintQueues ==
    ASSUME Inductive, NEW v, Taint(v)
    PROVE  Waiting' = Waiting \cup {v} /\ TaintedValues' = TaintedValues \cup {v}
<1>1. Worklist \in Seq(TaintedValues)
  BY DEF Inductive, TypeOK, DataOK
<1>2. /\ DOMAIN Worklist' = DOMAIN Worklist \cup {Len(Worklist) + 1}
      /\ \A n \in DOMAIN Worklist : Worklist'[n] = Worklist[n]
      /\ Worklist'[Len(Worklist) + 1] = v
      /\ Len(Worklist) + 1 \notin DOMAIN Worklist
  BY <1>1 DEF Taint
<1> QED
  BY <1>2 DEF Taint, Waiting, ToSet

\* A value that a step taints joins the worklist, and what waits goes on waiting.
Queues == /\ Waiting \subseteq Waiting'
          /\ TaintedValues' \subseteq TaintedValues \cup Waiting'

LEMMA SameQueues ==
    ASSUME UNCHANGED <<TaintedValues, Worklist>>
    PROVE  Queues
BY DEF Queues, Waiting

LEMMA PropagateQueues ==
    ASSUME Inductive, NEW u, Propagate(u)
    PROVE  Queues
BY TaintQueues, SameQueues DEF Propagate, Queues

LEMMA TaintParamQueues ==
    ASSUME Inductive, NEW param, NEW f, NEW level, TaintParam(param, f, level)
    PROVE  Queues
BY TaintQueues, SameQueues DEF TaintParam, Queues

LEMMA StepQueues ==
    ASSUME Inductive, [Next]_vars, ~TakeValue
    PROVE  Queues
<1>1. CASE SeedInstruction \/ UpwardUse
  <2>1. PICK v : Taint(v)
    BY <1>1 DEF SeedInstruction, UpwardUse
  <2> QED
    BY <2>1, TaintQueues DEF Queues
<1>2. CASE SeedArgument
  <2>1. PICK param, f, level : TaintParam(param, f, level)
    BY <1>2 DEF SeedArgument
  <2> QED
    BY <2>1, TaintParamQueues
<1>3. CASE PassToTarget
  <2>1. \/ \E param, f, level : TaintParam(param, f, level)
        \/ UNCHANGED <<TaintedValues, Worklist>>
    BY <1>3, Zenon DEF PassToTarget
  <2> QED
    BY <2>1, TaintParamQueues, SameQueues
<1>4. CASE StoreToLocal \/ OtherUse
  BY <1>4, PropagateQueues DEF StoreToLocal, OtherUse
<1>5. CASE ScanLoad \/ TaintCall
  <2>1. (\E v : Taint(v)) \/ UNCHANGED <<TaintedValues, Worklist>>
    BY <1>5 DEF ScanLoad, TaintCall
  <2> QED
    BY <2>1, TaintQueues, SameQueues DEF Queues
<1>6. CASE \/ SeedDone \/ Return \/ StoreToGlobal \/ StoreToParam
           \/ SkipTainted \/ UsersDone
  BY <1>6, SameQueues DEF SeedDone, Return, StoreToGlobal, StoreToParam,
     SkipTainted, UsersDone, User, taint
<1>7. CASE Scan /\ ~ScanLoad
  BY <1>7, SameQueues DEF Scan, IdentifyKills, CollectPointers, TakePointer,
     LoadsDone, ScanDone, MainDone, taint
<1>8. CASE Round /\ ~TaintCall
  BY <1>8, SameQueues DEF Round, BeginRound, CallersDone, PassThrough,
     TaintVariable, OtherArgument, Argument, ArgumentsDone, EndRound, taint
<1>9. CASE Report \/ UNCHANGED vars
  BY <1>9, SameQueues DEF Report, taint, vars
<1> QED
  BY <1>1, <1>2, <1>3, <1>4, <1>5, <1>6, <1>7, <1>8, <1>9
  DEF Next, Seed, Drain, MainUser, Scan, Round, Done

-----------------------------------------------------------------------------
(* The scans for loads *)

\* Load l from p is tainted, or the scan has a reason to leave it out.
Settled(l, p) ==
    \/ l \in TaintedValues
    \/ isLoadBeforeTaintOrigin(l, p)
    \/ stage = "main" /\ AfterKill(l, p)

\* A load once settled stays settled for as long as the stage lasts.
LEMMA SettledStays ==
    ASSUME Inductive, [Next]_vars, stage' = stage,
           NEW p \in TaintedPointers, NEW l, Settled(l, p)
    PROVE  Settled(l, p)'
<1>1. Grows /\ Inductive' /\ Remembers /\ M' = M
  BY StepInductive, StepRemembers, SameModule
<1>2. /\ DOMAIN PointerTaintOrigin = TaintedPointers
      /\ DOMAIN PointerTaintOrigin' = TaintedPointers'
  BY <1>1 DEF Inductive, TypeOK, DataOK
<1>3. PointerTaintOrigin'[p] = PointerTaintOrigin[p] /\ p \in TaintedPointers'
  BY <1>1 DEF Grows, Remembers
<1>4. isLoadBeforeTaintOrigin(l, p) => isLoadBeforeTaintOrigin(l, p)'
  BY <1>1, <1>2, <1>3 DEF isLoadBeforeTaintOrigin
<1>5. AfterKill(l, p) => AfterKill(l, p)'
  BY <1>1 DEF AfterKill, Remembers
<1>6. l \in TaintedValues => l \in TaintedValues'
  BY <1>1 DEF Grows
<1> QED
  BY <1>4, <1>5, <1>6 DEF Settled

\* The steps that touch neither what is scanned nor a scan in progress
LEMMA ScanElsewhere ==
    ASSUME Inductive, [Next]_vars,
           ~TakePointer, ~ScanLoad, ~LoadsDone, ~MainDone
    PROVE  /\ UNCHANGED <<scanned, stage>>
           /\ pc # "loads" \/ UNCHANGED <<pc, cur, todo>>
<1>1. CASE Seed
  BY <1>1 DEF Seed, SeedInstruction, SeedArgument, SeedDone
<1>2. CASE MainUser
  BY <1>2 DEF MainUser, PassToTarget, Return, StoreToGlobal, StoreToParam,
     StoreToLocal, OtherUse, User
<1>3. CASE TakeValue \/ SkipTainted \/ UpwardUse \/ UsersDone
  BY <1>3 DEF TakeValue, SkipTainted, UpwardUse, UsersDone, User
<1>4. CASE IdentifyKills \/ CollectPointers \/ ScanDone
  BY <1>4 DEF IdentifyKills, CollectPointers, ScanDone
<1>5. CASE Round
  BY <1>5 DEF Round, BeginRound, TaintCall, CallersDone, PassThrough,
     TaintVariable, OtherArgument, Argument, ArgumentsDone, EndRound
<1>6. CASE Report \/ UNCHANGED vars
  BY <1>6 DEF Report, vars, control
<1> QED
  BY <1>1, <1>2, <1>3, <1>4, <1>5, <1>6 DEF Next, Drain, Scan, Done

LEMMA ScanCoversStep ==
    ASSUME Inductive, ScanCovers, [Next]_vars
    PROVE  ScanCovers'
<1>1. input' = input /\ M' = M /\ scanned \subseteq TaintedPointers
  BY StepRemembers, SameModule DEF Inductive, TypeOK, ControlOK
<1>2. ASSUME NEW p \in scanned, NEW l \in Of(M, "load"), p \in LoadedPointers(M, l)
      PROVE  Settled(l, p) \/ (pc = "loads" /\ cur = p /\ <<l, 0>> \in todo)
  BY <1>2 DEF ScanCovers, Settled
<1>3. SUFFICES ASSUME NEW p \in scanned', NEW l \in Of(M, "load"),
                      p \in LoadedPointers(M, l)
               PROVE  \/ Settled(l, p)'
                      \/ pc' = "loads" /\ cur' = p /\ <<l, 0>> \in todo'
  BY <1>1 DEF ScanCovers, Settled
<1>4. CASE TakePointer
  <2>1. PICK q \in toScan :
          /\ pc = "scan" /\ cur' = q /\ scanned' = scanned \cup {q}
          /\ todo' = {<<k, 0>> : k \in {k \in Of(M, "load") :
                                            q \in LoadedPointers(M, k)}}
          /\ pc' = "loads" /\ stage' = stage
    BY <1>4 DEF TakePointer
  <2>2. CASE p = q
    BY <1>3, <2>1, <2>2
  <2>3. CASE p # q
    BY <1>1, <1>2, <1>3, <2>1, <2>3, SettledStays
  <2> QED
    BY <2>2, <2>3
<1>5. CASE ScanLoad
  <2>1. PICK x \in todo :
          /\ pc = "loads" /\ todo' = todo \ {x}
          /\ IF x[1] \in TaintedValues \/ IsSkipped(x[1])
             THEN TRUE ELSE Taint(x[1])
          /\ UNCHANGED <<stage, pc, cur, scanned>>
    BY <1>5 DEF ScanLoad
  <2>2. CASE Settled(l, p)
    BY <1>1, <1>3, <2>1, <2>2, SettledStays
  <2>3. CASE ~Settled(l, p)
    <3>1. cur = p /\ <<l, 0>> \in todo
      BY <1>2, <1>3, <2>1, <2>3
    <3>2. CASE x = <<l, 0>>
      <4>1. ~IsSkipped(l) /\ l \notin TaintedValues
        BY <2>3, <3>1 DEF Settled, IsSkipped
      <4>2. Taint(l)
        BY <2>1, <3>2, <4>1
      <4> QED
        BY <4>2 DEF Taint, Settled
    <3>3. CASE x # <<l, 0>>
      BY <2>1, <3>1, <3>3
    <3> QED
      BY <3>2, <3>3
  <2> QED
    BY <2>2, <2>3
<1>6. CASE LoadsDone
  <2>1. UNCHANGED <<stage, scanned>> /\ todo = {}
    BY <1>6 DEF LoadsDone
  <2> QED
    BY <1>1, <1>2, <1>3, <2>1, SettledStays
<1>7. CASE MainDone
  <2>1. scanned' = {} \/ UNCHANGED <<stage, scanned>>
    BY <1>7 DEF MainDone
  <2>2. pc # "loads"
    BY <1>7 DEF MainDone
  <2> QED
    BY <1>1, <1>2, <1>3, <2>1, <2>2, SettledStays
<1>8. CASE ~TakePointer /\ ~ScanLoad /\ ~LoadsDone /\ ~MainDone
  BY <1>1, <1>2, <1>3, <1>8, ScanElsewhere, SettledStays
<1> QED
  BY <1>4, <1>5, <1>6, <1>7, <1>8

\* The scans find every load they must: no load from a tainted pointer that
\* has been scanned stays untainted but those before the pointer's taint and,
\* in the main stage, those after a kill (scanLoadsFromTaintedPointers).
THEOREM ScansMissNothing == Spec => []ScanCovers
<1>1. Init => ScanCovers
  BY DEF Init, ScanCovers
<1>2. Inductive /\ ScanCovers /\ [Next]_vars => ScanCovers'
  BY ScanCoversStep
<1> QED
  BY <1>1, <1>2, AlwaysInductive, PTL DEF Spec

-----------------------------------------------------------------------------
(* The drain of the main loop *)

LEMMA SameUserParts ==
    ASSUME input' = input, NEW v
    PROVE  UserParts(v)' = UserParts(v)
BY SameModule, SameParts DEF UserParts

\* The loop with "break" finds one position at most.
LEMMA OneArgIndex ==
    ASSUME input \in Inputs, NEW c \in Of(M, "call"), NEW v,
           NEW j \in ArgIndices(c, v), NEW k \in ArgIndices(c, v)
    PROVE  j = k
<1>1. ArgSize(M, c) \in Nat
  BY InstFacts
<1>2. /\ j \in 1..ArgSize(M, c) /\ M.ops[c][j] = v
      /\ \A i \in 1..(j - 1) : M.ops[c][i] # v
      /\ k \in 1..ArgSize(M, c) /\ M.ops[c][k] = v
      /\ \A i \in 1..(k - 1) : M.ops[c][i] # v
  BY DEF ArgIndices
<1>3. ~(j < k) /\ ~(k < j)
  BY <1>1, <1>2
<1> QED
  BY <1>1, <1>2, <1>3

\* What has been done for a use stays done.
LEMMA PartHandledStays ==
    ASSUME Inductive, [Next]_vars, NEW v, NEW x, PartHandled(v, x)
    PROVE  PartHandled(v, x)'
<1>1. Grows /\ M' = M /\ input' = input
  BY StepInductive, StepRemembers, SameModule
<1>2. ArgIndices(x[1], v)' = ArgIndices(x[1], v)
  BY <1>1 DEF ArgIndices
<1>3. TargetOf(x[1], x[2])' = TargetOf(x[1], x[2])
  BY <1>1 DEF TargetOf, IndirectTargets, TargetEntry, FunctionStores
<1>4. CASE x[2] # 0
  BY <1>1, <1>2, <1>3, <1>4 DEF PartHandled, ReachesParam, Grows
<1>5. CASE x[2] = 0
  <2>1. /\ IsReturnOf(x[1], v)' = IsReturnOf(x[1], v)
        /\ IsStoreOf(x[1], v)' = IsStoreOf(x[1], v)
        /\ IsParamStore(x[1])' = IsParamStore(x[1])
        /\ ParamOf(x[1])' = ParamOf(x[1])
    BY <1>1 DEF IsReturnOf, IsStoreOf, IsParamStore, ParamOf, StoresThrough
  <2> QED
    BY <1>1, <1>5, <2>1 DEF PartHandled, Grows
<1> QED
  BY <1>4, <1>5

LEMMA PassToTargetHandles ==
    ASSUME Inductive, PassToTarget
    PROVE  \E x \in todo : todo' = todo \ {x} /\ PartHandled(cur, x)'
<1>1. PICK x \in todo :
        LET f == TargetOf(x[1], x[2])
            k == CHOOSE k \in ArgIndices(x[1], cur) : TRUE
        IN
        /\ x[2] # 0 /\ User(x, "main")
        /\ f \in M.defined /\ k <= Len(M.params[f]) =>
              TaintParam(M.params[f][k], f, getLevel(cur))
  BY DEF PassToTarget
<1>2. /\ M' = M /\ input' = input /\ cur' = cur /\ todo' = todo \ {x}
      /\ x[1] \in Of(M, "call")
  BY <1>1, UserFacts DEF User, Of
<1>3. input \in Inputs
  BY DEF Inductive, TypeOK, DataOK
<1> DEFINE f == TargetOf(x[1], x[2])
           k == CHOOSE k \in ArgIndices(x[1], cur) : TRUE
<1>4. ASSUME NEW j \in ArgIndices(x[1], cur)
      PROVE  j = k
  <2>1. k \in ArgIndices(x[1], cur)
    OBVIOUS
  <2> QED
    BY <1>2, <1>3, <2>1, OneArgIndex
<1>5. f \in M.defined /\ k <= Len(M.params[f]) => M.params[f][k] \in TaintedValues'
  BY <1>1 DEF TaintParam, Taint
<1>6. ArgIndices(x[1], cur)' = ArgIndices(x[1], cur) /\ f' = f
  <2>1. ArgIndices(x[1], cur)' = ArgIndices(x[1], cur)
    BY <1>2 DEF ArgIndices
  <2>2. f' = f
    BY <1>2 DEF TargetOf, IndirectTargets, TargetEntry, FunctionStores
  <2> QED
    BY <2>1, <2>2
<1> HIDE DEF k
<1>7. \A j \in ArgIndices(x[1], cur) : ReachesParam(f, j)'
  BY <1>2, <1>4, <1>5, <1>6 DEF ReachesParam
<1>8. PartHandled(cur, x)'
  BY <1>1, <1>6, <1>7 DEF PartHandled
<1> QED
  BY <1>2, <1>8

LEMMA MainUserHandles ==
    ASSUME Inductive, MainUser
    PROVE  \E x \in todo : todo' = todo \ {x} /\ PartHandled(cur, x)'
<1>1. CASE PassToTarget
  BY <1>1, PassToTargetHandles
<1>2. ASSUME NEW x \in todo, x[2] = 0, User(x, "main"),
             /\ IsReturnOf(x[1], cur) => M.func[x[1]] \in FunctionsReturningTaint'
             /\ IsStoreOf(x[1], cur) =>
                   \/ StorePointer(M, x[1]) \in M.globals
                   \/ /\ IsParamStore(x[1])
                      /\ ParamOf(x[1]) \subseteq FunctionsTaintingPointerParams'
                   \/ /\ ~IsParamStore(x[1])
                      /\ StorePointer(M, x[1]) \in TaintedPointers'
                      /\ x[1] \in TaintedValues'
             /\ IsReturnOf(x[1], cur) \/ IsStoreOf(x[1], cur) \/ x[1] \in TaintedValues'
      PROVE  todo' = todo \ {x} /\ PartHandled(cur, x)'
  <2>1. M' = M /\ cur' = cur /\ todo' = todo \ {x}
    BY <1>2, UserFacts DEF User
  <2>2. /\ IsReturnOf(x[1], cur)' = IsReturnOf(x[1], cur)
        /\ IsStoreOf(x[1], cur)' = IsStoreOf(x[1], cur)
        /\ IsParamStore(x[1])' = IsParamStore(x[1])
        /\ ParamOf(x[1])' = ParamOf(x[1])
    BY <2>1 DEF IsReturnOf, IsStoreOf, IsParamStore, ParamOf, StoresThrough
  <2>3. ~(IsReturnOf(x[1], cur) /\ IsStoreOf(x[1], cur))
    BY DEF IsReturnOf, IsStoreOf
  <2> QED
    BY <1>2, <2>1, <2>2, <2>3 DEF PartHandled
<1>3. CASE Return
  <2>1. PICK x \in todo :
          /\ x[2] = 0 /\ IsReturnOf(x[1], cur) /\ User(x, "main")
          /\ M.func[x[1]] \in FunctionsReturningTaint'
    BY <1>3 DEF Return
  <2> QED
    BY <1>2, <2>1 DEF IsReturnOf, IsStoreOf
<1>4. CASE StoreToGlobal
  <2>1. PICK x \in todo :
          /\ x[2] = 0 /\ IsStoreOf(x[1], cur) /\ User(x, "main")
          /\ StorePointer(M, x[1]) \in M.globals
    BY <1>4 DEF StoreToGlobal
  <2> QED
    BY <1>2, <2>1 DEF IsReturnOf, IsStoreOf
<1>5. CASE StoreToParam
  <2>1. PICK x \in todo :
          /\ x[2] = 0 /\ IsStoreOf(x[1], cur) /\ User(x, "main")
          /\ IsParamStore(x[1])
          /\ ParamOf(x[1]) \subseteq FunctionsTaintingPointerParams'
    BY <1>5 DEF StoreToParam
  <2> QED
    BY <1>2, <2>1 DEF IsReturnOf, IsStoreOf
<1>6. CASE StoreToLocal
  <2>1. PICK x \in todo :
          /\ x[2] = 0 /\ IsStoreOf(x[1], cur) /\ User(x, "main")
          /\ ~IsParamStore(x[1]) /\ TaintPointer(StorePointer(M, x[1]), x[1])
          /\ Propagate(x[1])
    BY <1>6 DEF StoreToLocal
  <2>2. StorePointer(M, x[1]) \in TaintedPointers' /\ x[1] \in TaintedValues'
    BY <2>1 DEF TaintPointer, Propagate, Taint
  <2> QED
    BY <1>2, <2>1, <2>2 DEF IsReturnOf, IsStoreOf
<1>7. CASE OtherUse
  <2>1. PICK x \in todo :
          /\ x[2] = 0 /\ ~IsReturnOf(x[1], cur) /\ ~IsStoreOf(x[1], cur)
          /\ User(x, "main") /\ Propagate(x[1])
    BY <1>7 DEF OtherUse
  <2>2. x[1] \in TaintedValues'
    BY <2>1 DEF Propagate, Taint
  <2> QED
    BY <1>2, <2>1, <2>2
<1> QED
  BY <1>1, <1>3, <1>4, <1>5, <1>6, <1>7 DEF MainUser

\* The value taken from the worklist is the only one that stops waiting.
LEMMA TakeValueWaiting ==
    ASSUME Inductive, TakeValue
    PROVE  Waiting \subseteq Waiting' \cup {cur'}
<1>1. Worklist \in Seq(TaintedValues) /\ Worklist # <<>>
  BY DEF Inductive, TypeOK, DataOK, TakeValue
<1>2. Len(Worklist) \in Nat \ {0} /\ DOMAIN Worklist = 1..Len(Worklist)
  BY <1>1
<1>3. /\ DOMAIN Worklist' = 1..(Len(Worklist) - 1)
      /\ \A n \in 1..(Len(Worklist) - 1) : Worklist'[n] = Worklist[n]
  BY <1>1, <1>2 DEF TakeValue
<1>4. cur' = Worklist[Len(Worklist)]
  BY DEF TakeValue
<1>5. ASSUME NEW n \in DOMAIN Worklist
      PROVE  Worklist[n] \in Waiting' \cup {cur'}
  <2>1. CASE n = Len(Worklist)
    BY <1>4, <2>1
  <2>2. CASE n # Len(Worklist)
    <3>1. n \in DOMAIN Worklist' /\ Worklist'[n] = Worklist[n]
      BY <1>2, <1>3, <2>2
    <3> QED
      BY <3>1 DEF Waiting, ToSet
  <2> QED
    BY <2>1, <2>2
<1> QED
  BY <1>5 DEF Waiting, ToSet

\* The steps that touch neither the drain's loop nor the stage
LEMMA DrainElsewhere ==
    ASSUME Inductive, [Next]_vars,
           ~TakeValue, ~MainUser, ~UsersDone, ~SkipTainted, ~UpwardUse
    PROVE  /\ stage' = "main" => stage = "main"
           /\ pc # "users" \/ UNCHANGED <<pc, cur, todo>>
<1>1. CASE Seed
  BY <1>1 DEF Seed, SeedInstruction, SeedArgument, SeedDone
<1>2. CASE Scan
  BY <1>2 DEF Scan, IdentifyKills, CollectPointers, TakePointer, ScanLoad,
     LoadsDone, ScanDone, MainDone
<1>3. CASE Round
  BY <1>3 DEF Round, BeginRound, TaintCall, CallersDone, PassThrough,
     TaintVariable, OtherArgument, Argument, ArgumentsDone, EndRound
<1>4. CASE Report \/ UNCHANGED vars
  BY <1>4 DEF Report, vars, control
<1> QED
  BY <1>1, <1>2, <1>3, <1>4 DEF Next, Drain, Done

LEMMA WorklistCoversStep ==
    ASSUME Inductive, WorklistCovers, [Next]_vars
    PROVE  WorklistCovers'
<1>1. input' = input /\ M' = M
  BY StepRemembers, SameModule
<1>2. SUFFICES ASSUME stage' = "main", NEW v \in TaintedValues' \ Waiting',
                      NEW x \in UserParts(v)
               PROVE  \/ PartHandled(v, x)'
                      \/ pc' = "users" /\ v = cur' /\ x \in todo'
  BY <1>1, SameUserParts DEF WorklistCovers
<1>3. ASSUME stage = "main", v \in TaintedValues \ Waiting
      PROVE  PartHandled(v, x)' \/ (pc = "users" /\ v = cur /\ x \in todo)
  BY <1>2, <1>3, PartHandledStays DEF WorklistCovers
<1>4. ~TakeValue => v \in TaintedValues \ Waiting
  BY <1>2, StepQueues DEF Queues
<1>5. CASE TakeValue
  <2>1. /\ TaintedValues' = TaintedValues /\ stage = "main" /\ pc = "drain"
        /\ pc' = "users" /\ todo' = UserParts(cur')
    BY <1>2, <1>5 DEF TakeValue, taint
  <2>2. v \in TaintedValues /\ (v \in Waiting => v = cur')
    BY <1>2, <1>5, <2>1, TakeValueWaiting
  <2> QED
    BY <1>2, <1>3, <2>1, <2>2
<1>6. CASE MainUser
  <2>1. UNCHANGED <<stage, pc, cur>>
    BY <1>6 DEF MainUser, PassToTarget, Return, StoreToGlobal, StoreToParam,
       StoreToLocal, OtherUse, User
  <2>2. PICK y \in todo : todo' = todo \ {y} /\ PartHandled(cur, y)'
    BY <1>6, MainUserHandles
  <2>3. CASE v = cur /\ x = y
    BY <2>1, <2>2, <2>3
  <2>4. CASE ~(v = cur /\ x = y)
    BY <1>2, <1>3, <1>4, <1>6, <2>1, <2>2, <2>4 DEF MainUser, TakeValue,
       PassToTarget, Return, StoreToGlobal, StoreToParam, StoreToLocal, OtherUse, User
  <2> QED
    BY <2>3, <2>4
<1>7. CASE UsersDone
  <2>1. stage' = stage /\ todo = {} /\ ~TakeValue
    BY <1>7 DEF UsersDone, TakeValue
  <2> QED
    BY <1>2, <1>3, <1>4, <2>1
<1>8. CASE SkipTainted \/ UpwardUse
  BY <1>2, <1>8 DEF SkipTainted, UpwardUse, User
<1>9. CASE ~TakeValue /\ ~MainUser /\ ~UsersDone /\ ~SkipTainted /\ ~UpwardUse
  BY <1>2, <1>3, <1>4, <1>9, DrainElsewhere
<1> QED
  BY <1>5, <1>6, <1>7, <1>8, <1>9

\* "while (!Worklist.empty())" in the main loop passes every tainted value on
\* to each of its users, whatever is tainted, and queued, on the way.
THEOREM WorklistMissesNothing == Spec => []WorklistCovers
<1>1. Init => WorklistCovers
  BY DEF Init, WorklistCovers
<1>2. Inductive /\ WorklistCovers /\ [Next]_vars => WorklistCovers'
  BY WorklistCoversStep
<1> QED
  BY <1>1, <1>2, AlwaysInductive, PTL DEF Spec

-----------------------------------------------------------------------------
(* The fixpoint *)

\* What a scan is given covers the tainted pointers, and the main loop does
\* not end with a value waiting: whoever queues one in a scan sets changed.
ScanState ==
    /\ pc \in {"scan", "loads"} =>
          /\ TaintedPointers \subseteq scanned \cup toScan
          /\ stage = "main" => Worklist = <<>> \/ changed
    /\ pc \in {"check", "report", "done"} =>
          Worklist = <<>> /\ TaintedPointers \subseteq scanned
    /\ pc = "round" => Worklist = <<>>

\* The steps that lead to, or stay in, another part of the program
LEMMA LeadsElsewhere ==
    ASSUME [Next]_vars, ~UNCHANGED vars,
           ~IdentifyKills, ~CollectPointers, ~TakePointer, ~ScanLoad, ~LoadsDone,
           ~MainDone, ~EndRound, ~Report
    PROVE  pc' \in {"seed", "drain", "users", "callers", "args"}
<1>1. CASE Seed
  BY <1>1 DEF Seed, SeedInstruction, SeedArgument, SeedDone
<1>2. CASE Drain
  BY <1>2 DEF Drain, MainUser, PassToTarget, Return, StoreToGlobal, StoreToParam,
     StoreToLocal, OtherUse, TakeValue, SkipTainted, UpwardUse, UsersDone, User
<1>3. CASE ScanDone
  BY <1>3 DEF ScanDone
<1>4. CASE Round
  BY <1>4 DEF Round, BeginRound, TaintCall, CallersDone, PassThrough,
     TaintVariable, OtherArgument, Argument, ArgumentsDone
<1> QED
  BY <1>1, <1>2, <1>3, <1>4 DEF Next, Scan, Done

LEMMA ScanStateStep ==
    ASSUME Inductive, ScanState, [Next]_vars
    PROVE  ScanState'
<1>1. CASE IdentifyKills
  BY <1>1 DEF IdentifyKills, taint, ScanState
<1>2. CASE CollectPointers
  <2>1. /\ pc' \in {"check", "scan"} /\ (pc' = "check" => toScan' = {})
        /\ Worklist' = <<>> /\ toScan' = TaintedPointers \ scanned
        /\ UNCHANGED <<TaintedPointers, scanned, stage>>
    BY <1>2 DEF CollectPointers, taint
  <2> QED
    BY <2>1 DEF ScanState
<1>3. CASE TakePointer
  <2>1. PICK p \in toScan :
          /\ toScan' = toScan \ {p} /\ scanned' = scanned \cup {p}
          /\ pc = "scan" /\ pc' = "loads"
          /\ UNCHANGED <<TaintedPointers, Worklist, changed, stage>>
    BY <1>3 DEF TakePointer, taint, flags
  <2> QED
    BY <2>1 DEF ScanState
<1>4. CASE ScanLoad
  <2>1. /\ changed' \/ UNCHANGED <<Worklist, changed>>
        /\ pc = "loads"
        /\ UNCHANGED <<TaintedPointers, pc, stage, scanned, toScan>>
    BY <1>4 DEF ScanLoad
  <2> QED
    BY <2>1 DEF ScanState
<1>5. CASE LoadsDone
  BY <1>5 DEF LoadsDone, taint, flags, ScanState
<1>6. CASE MainDone
  <2>1. /\ pc' = "round" \/ (pc' = "report" /\ UNCHANGED scanned)
        /\ pc = "scan" /\ stage = "main" /\ toScan = {} /\ ~changed
        /\ UNCHANGED <<TaintedPointers, Worklist>>
    BY <1>6 DEF MainDone, Again, taint
  <2> QED
    BY <2>1 DEF ScanState
<1>7. CASE EndRound
  <2>1. /\ pc = "check" /\ pc' \in {"round", "report"}
        /\ UNCHANGED <<TaintedPointers, Worklist, scanned>>
    BY <1>7 DEF EndRound, taint
  <2> QED
    BY <2>1 DEF ScanState
<1>8. CASE Report
  BY <1>8 DEF Report, taint, ScanState
<1>9. CASE UNCHANGED vars
  BY <1>9 DEF vars, taint, flags, control, ScanState
<1> QED
  BY <1>1, <1>2, <1>3, <1>4, <1>5, <1>6, <1>7, <1>8, <1>9, LeadsElsewhere
  DEF ScanState

LEMMA ScanStateHolds == Spec => []ScanState
<1>1. Init => ScanState
  BY DEF Init, ScanState
<1>2. Inductive /\ ScanState /\ [Next]_vars => ScanState'
  BY ScanStateStep
<1> QED
  BY <1>1, <1>2, AlwaysInductive, PTL DEF Spec

\* "Iterate until we reach a fixed point" is what the main loop does: it ends
\* with nothing waiting, every tainted pointer scanned and every use of a
\* tainted value passed on, for every module and every order of the users.
THEOREM MainLoopEndsAtFixpoint == Spec => []MainFixpoint
<1>1. TypeOK /\ InHand /\ WorklistCovers /\ ScanState => MainFixpoint
  <2>1. SUFFICES ASSUME WorklistCovers, ScanState, InHand,
                        (stage = "main" /\ pc \in {"report", "done"}) \/ pc = "round"
                 PROVE  /\ Worklist = <<>>
                        /\ stage = "main" => TaintedPointers \subseteq scanned
                        /\ stage = "main" =>
                              \A v \in TaintedValues :
                                 \A x \in UserParts(v) : PartHandled(v, x)
    BY DEF MainFixpoint
  <2>2. Worklist = <<>> /\ (stage = "main" => TaintedPointers \subseteq scanned)
    BY <2>1 DEF ScanState, InHand
  <2>3. Waiting = {}
    BY <2>2 DEF Waiting, ToSet
  <2> QED
    BY <2>1, <2>2, <2>3 DEF WorklistCovers
<1>2. Inductive => TypeOK /\ InHand
  BY DEF Inductive
<1> QED
  BY <1>1, <1>2, AlwaysInductive, WorklistMissesNothing, ScanStateHolds, PTL

-----------------------------------------------------------------------------
(* The drain of the upward rounds *)

\* A return is tainted only with the function it returns from.
ReturnsRecorded ==
    \A u \in TaintedValues \cap Of(M, "ret") : M.func[u] \in FunctionsReturningTaint

LEMMA SeedRecordsReturns ==
    ASSUME Inductive, SeedInstruction, ReturnsRecorded
    PROVE  ReturnsRecorded'
<1>1. PICK x \in todo :
        LET i == x[1]
            isConst(k) == k \in DOMAIN M.ops[i] /\ M.ops[i][k] = input.constant
        IN
        /\ Taint(i) /\ pc = "seed"
        /\ FunctionsReturningTaint' = FunctionsReturningTaint \cup
              (IF M.kind[i] = "ret" /\ isConst(1) THEN {M.func[i]} ELSE {})
  BY DEF SeedInstruction
<1>2. x \in SeedParts(input) /\ input \in Inputs
  BY <1>1 DEF Inductive, TypeOK, DataOK, InHand
<1>3. x[1] \in M.insts /\ input.constant \in Operands(M, x[1])
  BY <1>2, SeedFacts
<1>4. ASSUME M.kind[x[1]] = "ret"
      PROVE  1 \in DOMAIN M.ops[x[1]] /\ M.ops[x[1]][1] = input.constant
  <2>1. M.ops[x[1]] \in Seq(Values(M)) /\ Len(M.ops[x[1]]) <= 1
    BY <1>2, <1>3, <1>4, ModuleFacts DEF ModuleOK
  <2>2. PICK k \in DOMAIN M.ops[x[1]] : M.ops[x[1]][k] = input.constant
    BY <1>3 DEF Operands
  <2>3. k = 1
    BY <2>1, <2>2
  <2> QED
    BY <2>2, <2>3
<1>5. M.kind[x[1]] = "ret" => M.func[x[1]] \in FunctionsReturningTaint'
  BY <1>1, <1>4
<1>6. TaintedValues' = TaintedValues \cup {x[1]}
  BY <1>1 DEF Taint
<1>7. FunctionsReturningTaint \subseteq FunctionsReturningTaint'
  BY <1>1
<1>8. M' = M
  BY SameModule DEF SeedInstruction
<1> QED
  BY <1>5, <1>6, <1>7, <1>8 DEF ReturnsRecorded, Of

\* A step that takes taint into a function taints a parameter of it, and gives
\* both a level.
LEMMA NewParams ==
    ASSUME Inductive, SeedArgument \/ PassToTarget
    PROVE  /\ \A v \in TaintedValues' \ TaintedValues :
                 /\ v \in M.args /\ v \in DOMAIN ValueLevel'
                 /\ M.func[v] \in DOMAIN FunctionLevel'
           /\ DOMAIN FunctionLevel \subseteq DOMAIN FunctionLevel'
<1>1. input \in Inputs /\ ModuleOK(M) /\ LocalOK(M)
  BY ModuleFacts DEF Inductive, TypeOK, DataOK, ModuleOK
<1>2. ASSUME NEW f \in M.funcs, NEW k \in Nat \ {0}, k <= Len(M.params[f])
      PROVE  M.params[f][k] \in M.args /\ M.func[M.params[f][k]] = f
  <2>1. M.params[f] \in Seq(M.args)
    BY <1>1 DEF ModuleOK
  <2>2. k \in DOMAIN M.params[f]
    BY <2>1, <1>2
  <2> QED
    BY <1>1, <1>2, <2>2, ParamFacts DEF LocalOK
<1>3. ASSUME NEW f \in M.funcs, NEW k \in Nat \ {0}, k <= Len(M.params[f]), NEW level,
             TaintParam(M.params[f][k], f, level),
             M.params[f][k] \in TaintedValues \/ M.params[f][k] \in DOMAIN ValueLevel'
      PROVE  /\ \A v \in TaintedValues' \ TaintedValues :
                   /\ v \in M.args /\ v \in DOMAIN ValueLevel'
                   /\ M.func[v] \in DOMAIN FunctionLevel'
             /\ DOMAIN FunctionLevel \subseteq DOMAIN FunctionLevel'
  BY <1>2, <1>3 DEF TaintParam, Taint, Put
<1>4. CASE SeedArgument
  <2>1. PICK x \in todo :
          LET f == CalledOperand(M, x[1])
              param == M.params[f][x[2]]
          IN
          /\ pc = "seed" /\ x[2] # 0
          /\ TaintParam(param, f, getLevel(x[1]))
          /\ ValueLevel' = IF param \in TaintedValues THEN ValueLevel
                           ELSE Put(ValueLevel, param, getLevel(x[1]) - 1)
    BY <1>4 DEF SeedArgument
  <2>2. x \in SeedParts(input)
    BY <2>1 DEF Inductive, InHand
  <2>3. /\ CalledOperand(M, x[1]) \in M.funcs
        /\ x[2] \in Nat \ {0} /\ x[2] <= Len(M.params[CalledOperand(M, x[1])])
    BY <1>1, <2>1, <2>2, SeedFacts DEF ModuleOK
  <2> DEFINE param == M.params[CalledOperand(M, x[1])][x[2]]
  <2>4. param \in TaintedValues \/ param \in DOMAIN ValueLevel'
    BY <2>1 DEF Put
  <2> QED
    BY <1>3, <2>1, <2>3, <2>4
<1>5. CASE PassToTarget
  <2>1. PICK x \in todo :
          LET f == TargetOf(x[1], x[2])
              k == CHOOSE k \in ArgIndices(x[1], cur) : TRUE
              param == M.params[f][k]
              level == getLevel(cur)
              reported == IF IsDirect(M, x[1])
                          THEN PutIfAbsent(ValueLevel, x[1], level) ELSE ValueLevel
          IN
          /\ x[2] # 0 /\ User(x, "main")
          /\ IF f \in M.defined /\ k <= Len(M.params[f])
             THEN /\ TaintParam(param, f, level)
                  /\ ValueLevel' = IF param \in TaintedValues THEN reported
                                   ELSE Put(reported, param, level - 1)
             ELSE UNCHANGED <<TaintedValues, FunctionLevel>>
    BY <1>5 DEF PassToTarget
  <2> DEFINE f == TargetOf(x[1], x[2])
             k == CHOOSE k \in ArgIndices(x[1], cur) : TRUE
  <2>2. x[1] \in Of(M, "call") /\ x[2] \in TargetParts(x[1], cur)
    BY <2>1, UserFacts DEF Of
  <2>3. k \in Nat \ {0}
    BY <1>1, <2>2, PartFacts
  <2>4. CASE f \in M.defined /\ k <= Len(M.params[f])
    <3>1. f \in M.funcs /\ TaintParam(M.params[f][k], f, getLevel(cur))
      BY <1>1, <2>1, <2>4 DEF ModuleOK
    <3>2. M.params[f][k] \in TaintedValues \/ M.params[f][k] \in DOMAIN ValueLevel'
      BY <2>1, <2>4 DEF Put
    <3> HIDE DEF f, k
    <3> QED
      BY <1>3, <2>3, <2>4, <3>1, <3>2
  <2>5. CASE ~(f \in M.defined /\ k <= Len(M.params[f]))
    BY <2>1, <2>5
  <2> QED
    BY <2>4, <2>5
<1> QED
  BY <1>4, <1>5

LEMMA ReturnsRecordedStep ==
    ASSUME Inductive, ReturnsRecorded, [Next]_vars
    PROVE  ReturnsRecorded'
<1>1. Grows /\ M' = M /\ input \in Inputs
  BY StepInductive, StepRemembers, SameModule DEF Inductive, TypeOK, DataOK
<1>2. ASSUME \A u \in TaintedValues' \ TaintedValues :
                 u \in Of(M, "ret") => M.func[u] \in FunctionsReturningTaint'
      PROVE  ReturnsRecorded'
  BY <1>1, <1>2 DEF ReturnsRecorded, Grows
<1>3. CASE SeedInstruction
  BY <1>3, SeedRecordsReturns
<1>4. CASE SeedArgument \/ PassToTarget
  <2>1. TaintedValues' \subseteq TaintedValues \cup M.args
    BY <1>4, NewParams
  <2>2. M.args \cap M.insts = {}
    BY <1>1, ModuleFacts DEF ModuleOK
  <2> QED
    BY <1>2, <2>1, <2>2 DEF Of
<1>5. CASE StoreToLocal \/ OtherUse
  <2>1. PICK x \in todo : /\ User(x, "main") /\ Propagate(x[1])
                          /\ M.kind[x[1]] = "store" \/ ~IsReturnOf(x[1], cur)
    BY <1>5 DEF StoreToLocal, OtherUse, IsStoreOf
  <2>2. x[1] \in Users(M, cur)
    BY <2>1, UserFacts
  <2>3. x[1] \notin Of(M, "ret")
    BY <2>1, <2>2 DEF Of, IsReturnOf, Users
  <2>4. TaintedValues' \subseteq TaintedValues \cup {x[1]}
    BY <2>1 DEF Propagate, Taint
  <2> QED
    BY <1>2, <2>3, <2>4
<1>6. CASE UpwardUse
  <2>1. PICK x \in todo :
          /\ User(x, "up") /\ Taint(x[1])
          /\ IsReturnOf(x[1], cur) => M.func[x[1]] \in FunctionsReturningTaint'
    BY <1>6 DEF UpwardUse
  <2>2. x[1] \in Users(M, cur)
    BY <2>1, UserFacts
  <2> QED
    BY <1>2, <2>1, <2>2 DEF Taint, Of, IsReturnOf, Users
<1>7. CASE ScanLoad
  <2>1. PICK x \in todo : pc = "loads" /\ (Taint(x[1]) \/ UNCHANGED TaintedValues)
    BY <1>7 DEF ScanLoad
  <2>2. M.kind[x[1]] = "load"
    BY <2>1 DEF Inductive, InHand
  <2> QED
    BY <1>2, <2>1, <2>2 DEF Taint, Of
<1>8. CASE TaintCall
  <2>1. PICK x \in todo : pc = "callers" /\ (Taint(x[1]) \/ UNCHANGED TaintedValues)
    BY <1>8 DEF TaintCall
  <2>2. M.kind[x[1]] = "call"
    BY <2>1 DEF Inductive, InHand
  <2> QED
    BY <1>2, <2>1, <2>2 DEF Taint, Of
<1>9. CASE UNCHANGED TaintedValues
  BY <1>2, <1>9
<1>10. CASE \/ SeedDone \/ TakeValue \/ Return \/ StoreToGlobal \/ StoreToParam
            \/ SkipTainted \/ UsersDone \/ (Scan /\ ~ScanLoad)
  BY <1>9, <1>10 DEF SeedDone, TakeValue, Return, StoreToGlobal, StoreToParam,
     SkipTainted, UsersDone, Scan, IdentifyKills, CollectPointers, TakePointer,
     LoadsDone, ScanDone, MainDone, User, taint
<1>11. CASE (Round /\ ~TaintCall) \/ Report \/ UNCHANGED vars
  BY <1>9, <1>11 DEF Round, BeginRound, CallersDone, PassThrough,
     TaintVariable, OtherArgument, Argument, ArgumentsDone, EndRound, Report,
     taint, vars
<1> QED
  BY <1>3, <1>4, <1>5, <1>6, <1>7, <1>8, <1>10, <1>11
  DEF Next, Seed, Drain, MainUser, Scan, Round, Done

\* The upward drain has nothing left to do for user u of v.
UpwardHandled(v, u) ==
    \/ IsReturnOf(u, v) /\ M.func[u] \in FunctionsReturningTaint
    \/ ~IsReturnOf(u, v) /\ u \in TaintedValues
    \/ IsStoreOf(u, v) /\ (StorePointer(M, u) \in M.globals \/ IsParamStore(u))

LEMMA UpwardHandledStays ==
    ASSUME Inductive, [Next]_vars, NEW v, NEW u, UpwardHandled(v, u)
    PROVE  UpwardHandled(v, u)'
<1>1. Grows /\ M' = M
  BY StepInductive, StepRemembers, SameModule
<1>2. /\ IsReturnOf(u, v)' = IsReturnOf(u, v)
      /\ IsStoreOf(u, v)' = IsStoreOf(u, v)
      /\ IsParamStore(u)' = IsParamStore(u)
  BY <1>1 DEF IsReturnOf, IsStoreOf, IsParamStore, StoresThrough
<1> QED
  BY <1>1, <1>2 DEF UpwardHandled, Grows

\* What the main loop leaves behind is what the upward drain would.
LEMMA UpwardTakesOver ==
    ASSUME Inductive, ScanState, WorklistCovers, MainDone,
           NEW v \in TaintedValues, NEW u \in Users(M, v)
    PROVE  UpwardHandled(v, u)
<1>1. Worklist = <<>> /\ stage = "main" /\ pc = "scan"
  BY DEF MainDone, Again, ScanState
<1>2. Waiting = {}
  BY <1>1 DEF Waiting, ToSet
<1>3. <<u, 0>> \in UserParts(v)
  BY DEF UserParts
<1>4. PartHandled(v, <<u, 0>>)
  BY <1>1, <1>2, <1>3 DEF WorklistCovers
<1>5. /\ IsReturnOf(u, v) => M.func[u] \in FunctionsReturningTaint
      /\ \/ IsReturnOf(u, v) \/ u \in TaintedValues
         \/ IsStoreOf(u, v) /\ (StorePointer(M, u) \in M.globals \/ IsParamStore(u))
  BY <1>4 DEF PartHandled
<1> QED
  BY <1>5 DEF UpwardHandled

LEMMA UpwardCoversStep ==
    ASSUME Inductive, ScanState, WorklistCovers, ReturnsRecorded, UpwardCovers,
           [Next]_vars
    PROVE  UpwardCovers'
<1>1. Inductive' /\ Grows /\ input' = input /\ M' = M
  BY StepInductive, StepRemembers, SameModule
<1>2. SUFFICES ASSUME stage' = "up", NEW v \in TaintedValues' \ Waiting',
                      NEW u \in Users(M, v)
               PROVE  \/ UpwardHandled(v, u)'
                      \/ pc' = "users" /\ v = cur' /\ <<u, 0>> \in todo'
  BY <1>1 DEF UpwardCovers, UpwardHandled
<1>3. ASSUME stage = "up", v \in TaintedValues \ Waiting
      PROVE  UpwardHandled(v, u)' \/ (pc = "users" /\ v = cur /\ <<u, 0>> \in todo)
  <2>1. UpwardHandled(v, u) \/ (pc = "users" /\ v = cur /\ <<u, 0>> \in todo)
    BY <1>2, <1>3 DEF UpwardCovers, UpwardHandled
  <2> QED
    BY <2>1, UpwardHandledStays
<1>4. ~TakeValue => v \in TaintedValues \ Waiting
  BY <1>2, StepQueues DEF Queues
<1>5. CASE TakeValue
  <2>1. /\ TaintedValues' = TaintedValues /\ stage = "up" /\ pc = "drain"
        /\ pc' = "users" /\ todo' = {<<w, 0>> : w \in Users(M, cur')}
    BY <1>2, <1>5, <1>1 DEF TakeValue, taint
  <2>2. v \in TaintedValues /\ (v \in Waiting => v = cur')
    BY <1>2, <1>5, <2>1, TakeValueWaiting
  <2> QED
    BY <1>2, <1>3, <2>1, <2>2
<1>6. CASE SkipTainted \/ UpwardUse
  <2>1. PICK x \in todo :
          /\ User(x, "up")
          /\ \/ x[1] \in TaintedValues
             \/ /\ Taint(x[1])
                /\ IsReturnOf(x[1], cur) => M.func[x[1]] \in FunctionsReturningTaint'
    BY <1>6 DEF SkipTainted, UpwardUse
  <2>2. /\ pc = "users" /\ stage = "up" /\ todo' = todo \ {x}
        /\ UNCHANGED <<pc, cur>> /\ ~TakeValue
    BY <2>1 DEF User, TakeValue
  <2>3. CASE v = cur /\ x = <<u, 0>>
    <3>1. u \in TaintedValues'
      BY <1>1, <2>1, <2>3 DEF Grows, Taint
    <3>2. IsReturnOf(u, v) => M.func[u] \in FunctionsReturningTaint'
      <4>1. CASE u \in TaintedValues
        <5>1. IsReturnOf(u, v) => u \in TaintedValues \cap Of(M, "ret")
          BY <1>2, <4>1 DEF IsReturnOf, Of, Users
        <5> QED
          BY <1>1, <5>1 DEF ReturnsRecorded, Grows
      <4>2. CASE u \notin TaintedValues
        BY <2>1, <2>3, <4>2
      <4> QED
        BY <4>1, <4>2
    <3>3. IsReturnOf(u, v)' = IsReturnOf(u, v)
      BY <1>1 DEF IsReturnOf
    <3> QED
      BY <1>1, <3>1, <3>2, <3>3 DEF UpwardHandled
  <2>4. CASE ~(v = cur /\ x = <<u, 0>>)
    BY <1>3, <1>4, <2>2, <2>4
  <2> QED
    BY <2>3, <2>4
<1>7. CASE UsersDone
  <2>1. stage' = stage /\ todo = {} /\ ~TakeValue
    BY <1>7 DEF UsersDone, TakeValue
  <2> QED
    BY <1>2, <1>3, <1>4, <2>1
<1>8. CASE MainUser
  BY <1>2, <1>8 DEF MainUser, PassToTarget, Return, StoreToGlobal, StoreToParam,
     StoreToLocal, OtherUse, User
<1>9. CASE MainDone
  <2>1. v \in TaintedValues
    BY <1>2, <1>9 DEF MainDone, taint
  <2> QED
    BY <1>2, <1>9, <2>1, UpwardTakesOver, UpwardHandledStays
<1>10. CASE /\ ~TakeValue /\ ~MainUser /\ ~UsersDone /\ ~SkipTainted
            /\ ~UpwardUse /\ ~MainDone
  <2>1. stage' = stage
    <3>1. CASE TakePointer \/ ScanLoad \/ LoadsDone
      BY <3>1 DEF TakePointer, ScanLoad, LoadsDone
    <3> QED
      BY <1>10, <3>1, ScanElsewhere
  <2> QED
    BY <1>2, <1>3, <1>4, <1>10, <2>1, DrainElsewhere
<1> QED
  BY <1>5, <1>6, <1>7, <1>8, <1>9, <1>10

LEMMA ReturnsAlwaysRecorded == Spec => []ReturnsRecorded
<1>1. Init => ReturnsRecorded
  BY DEF Init, ReturnsRecorded
<1>2. Inductive /\ ReturnsRecorded /\ [Next]_vars => ReturnsRecorded'
  BY ReturnsRecordedStep
<1> QED
  BY <1>1, <1>2, AlwaysInductive, PTL DEF Spec

\* The upward drain skips users that are tainted and does for the others less
\* than the main one, and still leaves no use of a tainted value behind, not
\* even of one that the main stage tainted.
THEOREM UpwardMissesNothing == Spec => []UpwardCovers
<1>1. Init => UpwardCovers
  BY DEF Init, UpwardCovers
<1>2. Inductive /\ ScanState /\ WorklistCovers /\ ReturnsRecorded /\ UpwardCovers
        /\ [Next]_vars => UpwardCovers'
  BY UpwardCoversStep
<1> QED
  BY <1>1, <1>2, AlwaysInductive, ScanStateHolds, WorklistMissesNothing,
     ReturnsAlwaysRecorded, PTL DEF Spec

-----------------------------------------------------------------------------
(* The rounds *)

\* The argument in position k of call c has been followed to where it points.
Followed(c, k) ==
    LET arg == M.ops[c][k] IN
    IF M.origin[arg] # 0
    THEN <<M.func[c], M.origin[arg]>> \in FunctionsTaintingPointerParams
    ELSE PointedVar(M, arg) \subseteq TaintedPointers

\* 5a has found, or is about to find, every call of the functions that the
\* round started with.
CallersFound ==
    stage = "up" /\ pc # "round" =>
        \A c \in Of(M, "call") : CalledOperand(M, c) \in before[1] =>
            c \in TaintedValues \/ (pc = "callers" /\ <<c, 0>> \in todo)

\* 5b has followed, or is about to follow, every argument that it must, or
\* the round has discovered a function and another one comes.
ArgumentsFollowed ==
    stage = "up" /\ pc \notin {"round", "callers"} /\ ~discovered =>
        \A x \in FunctionsTaintingPointerParams : \A c \in CallsTo(M, x[1]) :
            x[2] <= ArgSize(M, c) =>
                Followed(c, x[2]) \/ (pc = "args" /\ <<c, x[2]>> \in todo)

\* The rounds end when one of them changes nothing.
RoundsOver == stage = "up" /\ pc \in {"report", "done"} => ~RoundAgain

\* Outside the steps of a round that change it, what a round compares and
\* what it has in hand stay as they are.
LEMMA RoundElsewhere ==
    ASSUME Inductive, [Next]_vars, ~MainDone, ~BeginRound, ~CallersDone, ~EndRound
    PROVE  /\ UNCHANGED <<stage, before>>
           /\ pc \in {"round", "callers"} => UNCHANGED pc
           /\ pc \notin {"round", "callers"} => pc' \notin {"round", "callers"}
           /\ TaintCall \/ pc # "callers" \/ UNCHANGED todo
<1>1. CASE Seed
  BY <1>1 DEF Seed, SeedInstruction, SeedArgument, SeedDone, flags
<1>2. CASE MainUser
  BY <1>2 DEF MainUser, PassToTarget, Return, StoreToGlobal, StoreToParam,
     StoreToLocal, OtherUse, User
<1>3. CASE TakeValue \/ SkipTainted \/ UpwardUse \/ UsersDone
  BY <1>3 DEF TakeValue, SkipTainted, UpwardUse, UsersDone, User, flags
<1>4. CASE Scan
  <2>1. /\ UNCHANGED <<stage, before>> /\ pc \in {"drain", "scan", "loads"}
        /\ pc' \in {"drain", "scan", "loads", "check"}
    BY <1>4 DEF Scan, IdentifyKills, CollectPointers, TakePointer, ScanLoad,
       LoadsDone, ScanDone, flags
  <2> QED
    BY <2>1
<1>5. CASE TaintCall
  BY <1>5 DEF TaintCall, flags
<1>6. CASE PassThrough \/ TaintVariable \/ OtherArgument \/ ArgumentsDone
  BY <1>6 DEF PassThrough, TaintVariable, OtherArgument, Argument, ArgumentsDone, flags
<1>7. CASE Report \/ UNCHANGED vars
  BY <1>7 DEF Report, vars, control, flags
<1> QED
  BY <1>1, <1>2, <1>3, <1>4, <1>5, <1>6, <1>7 DEF Next, Drain, Round, Done

LEMMA CallersFoundStep ==
    ASSUME Inductive, CallersFound, [Next]_vars
    PROVE  CallersFound'
<1>1. Grows /\ M' = M
  BY StepInductive, StepRemembers, SameModule
<1>2. SUFFICES ASSUME stage' = "up", pc' # "round", NEW c \in Of(M, "call"),
                      CalledOperand(M, c) \in before'[1]
               PROVE  c \in TaintedValues' \/ (pc' = "callers" /\ <<c, 0>> \in todo')
  BY <1>1 DEF CallersFound
<1>3. ASSUME stage = "up", pc # "round", before' = before
      PROVE  c \in TaintedValues' \/ (pc = "callers" /\ <<c, 0>> \in todo)
  BY <1>1, <1>2, <1>3 DEF CallersFound, Grows
<1>4. CASE BeginRound
  <2>1. /\ before'[1] = FunctionsReturningTaint /\ pc' = "callers"
        /\ todo' = {<<d, 0>> : d \in {d \in Of(M, "call") :
                       CalledOperand(M, d) \in FunctionsReturningTaint}}
    BY <1>4 DEF BeginRound
  <2> QED
    BY <1>2, <2>1
<1>5. CASE TaintCall
  <2>1. PICK x \in todo :
          /\ pc = "callers" /\ todo' = todo \ {x}
          /\ UNCHANGED <<pc, stage, before>>
          /\ x[1] \in TaintedValues \/ Taint(x[1])
    BY <1>5 DEF TaintCall, flags
  <2>2. x[1] \in TaintedValues'
    BY <1>1, <2>1 DEF Grows, Taint
  <2> QED
    BY <1>2, <1>3, <2>1, <2>2
<1>6. CASE CallersDone
  BY <1>2, <1>3, <1>6 DEF CallersDone, flags
<1>7. CASE EndRound
  BY <1>2, <1>3, <1>7 DEF EndRound, flags
<1>8. CASE MainDone
  BY <1>2, <1>8 DEF MainDone
<1>9. CASE ~BeginRound /\ ~TaintCall /\ ~CallersDone /\ ~EndRound /\ ~MainDone
  BY <1>2, <1>3, <1>9, RoundElsewhere
<1> QED
  BY <1>4, <1>5, <1>6, <1>7, <1>8, <1>9

LEMMA OnePointedVar ==
    ASSUME NEW v, NEW a \in PointedVar(M, v), NEW b \in PointedVar(M, v)
    PROVE  a = b
BY DEF PointedVar, Of

LEMMA FollowedStays ==
    ASSUME Inductive, [Next]_vars, NEW c, NEW k, Followed(c, k)
    PROVE  Followed(c, k)'
<1>1. Grows /\ M' = M
  BY StepInductive, StepRemembers, SameModule
<1> QED
  BY <1>1 DEF Followed, Grows

\* Each case of 5b follows the argument that it takes.
LEMMA ArgumentIsFollowed ==
    ASSUME Inductive, [Next]_vars, PassThrough \/ TaintVariable \/ OtherArgument
    PROVE  \E x \in todo : /\ todo' = todo \ {x} /\ UNCHANGED <<stage, pc>>
                           /\ Followed(x[1], x[2])'
<1>1. Grows /\ M' = M
  BY StepInductive, StepRemembers, SameModule
<1>2. CASE PassThrough
  <2>1. PICK x \in todo :
          /\ Argument(x) /\ M.origin[Actual(x)] # 0
          /\ <<M.func[x[1]], M.origin[Actual(x)]>> \in FunctionsTaintingPointerParams'
    BY <1>2 DEF PassThrough
  <2>2. todo' = todo \ {x} /\ UNCHANGED <<stage, pc>>
    BY <2>1 DEF Argument
  <2> QED
    BY <1>1, <2>1, <2>2 DEF Followed, Actual
<1>3. CASE TaintVariable
  <2>1. PICK x \in todo : \E var \in PointedVar(M, Actual(x)) :
          /\ Argument(x) /\ M.origin[Actual(x)] = 0
          /\ var \in TaintedPointers \/
             TaintedPointers' = TaintedPointers \cup
                (Reached(var, CalledOperand(M, x[1]), x[2]) \ TaintedPointers)
    BY <1>3 DEF TaintVariable
  <2>2. PICK var \in PointedVar(M, Actual(x)) :
          /\ Argument(x) /\ M.origin[Actual(x)] = 0
          /\ var \in TaintedPointers \/
             TaintedPointers' = TaintedPointers \cup
                (Reached(var, CalledOperand(M, x[1]), x[2]) \ TaintedPointers)
    BY <2>1
  <2>3. var \in TaintedPointers'
    BY <1>1, <2>2 DEF Reached, Grows
  <2>4. PointedVar(M, Actual(x)) \subseteq TaintedPointers'
    BY <2>3, OnePointedVar
  <2>5. todo' = todo \ {x} /\ UNCHANGED <<stage, pc>>
    BY <2>2 DEF Argument
  <2> QED
    BY <1>1, <2>2, <2>4, <2>5 DEF Followed, Actual
<1>4. CASE OtherArgument
  <2>1. PICK x \in todo :
          Argument(x) /\ M.origin[Actual(x)] = 0 /\ PointedVar(M, Actual(x)) = {}
    BY <1>4 DEF OtherArgument
  <2>2. todo' = todo \ {x} /\ UNCHANGED <<stage, pc>>
    BY <2>1 DEF Argument
  <2> QED
    BY <1>1, <2>1, <2>2 DEF Followed, Actual
<1> QED
  BY <1>2, <1>3, <1>4

\* Upward, a step that finds another function to climb from says so, and no
\* step but the first of a round takes it back.
LEMMA DiscoveriesKept ==
    ASSUME Inductive, [Next]_vars, stage = "up", ~BeginRound, ~discovered'
    PROVE  ~discovered /\ UNCHANGED FunctionsTaintingPointerParams
<1>0. discovered \in BOOLEAN
  BY DEF Inductive, TypeOK, ControlOK
<1>1. CASE Seed
  BY <1>1 DEF Inductive, InHand, Seed, SeedInstruction, SeedArgument, SeedDone
<1>2. CASE MainUser
  BY <1>2 DEF MainUser, PassToTarget, Return, StoreToGlobal, StoreToParam,
     StoreToLocal, OtherUse, User
<1>3. CASE UpwardUse
  <2>1. PICK x \in todo :
          LET u == x[1]
              params == IF IsStoreOf(u, cur) /\ IsParamStore(u) THEN ParamOf(u)
                        ELSE {}
              returning == IF IsReturnOf(u, cur) THEN {M.func[u]} ELSE {}
          IN
          /\ FunctionsTaintingPointerParams' =
                FunctionsTaintingPointerParams \cup params
          /\ discovered' = (\/ discovered
                            \/ ~(params \subseteq FunctionsTaintingPointerParams)
                            \/ ~(returning \subseteq FunctionsReturningTaint))
    BY <1>3 DEF UpwardUse
  <2> QED
    BY <1>0, <2>1
<1>4. CASE PassThrough
  <2>1. PICK x \in todo :
          LET through == <<M.func[x[1]], M.origin[Actual(x)]>> IN
          /\ FunctionsTaintingPointerParams' =
                FunctionsTaintingPointerParams \cup {through}
          /\ through \in FunctionsTaintingPointerParams => UNCHANGED discovered
          /\ through \notin FunctionsTaintingPointerParams => discovered' = TRUE
    BY <1>4 DEF PassThrough
  <2> QED
    BY <1>0, <2>1
<1>5. CASE TakeValue \/ SkipTainted \/ UsersDone
  BY <1>5 DEF TakeValue, SkipTainted, UsersDone, taint, flags
<1>6. CASE Scan
  BY <1>6 DEF Scan, IdentifyKills, CollectPointers, TakePointer, ScanLoad,
     LoadsDone, ScanDone, MainDone, taint, flags
<1>7. CASE Round /\ ~PassThrough
  <2>1. ~BeginRound
    OBVIOUS
  <2>2. UNCHANGED <<FunctionsTaintingPointerParams, discovered>>
    <3>1. CASE TaintCall
      BY <3>1 DEF TaintCall, flags
    <3>2. CASE CallersDone \/ ArgumentsDone \/ EndRound
      BY <3>2 DEF CallersDone, ArgumentsDone, EndRound, taint, flags
    <3>3. CASE TaintVariable \/ OtherArgument
      BY <3>3 DEF TaintVariable, OtherArgument
    <3> QED
      BY <1>7, <2>1, <3>1, <3>2, <3>3 DEF Round
  <2> QED
    BY <2>2
<1>8. CASE Report \/ UNCHANGED vars
  BY <1>8 DEF Report, vars, taint, flags
<1> QED
  BY <1>1, <1>2, <1>3, <1>4, <1>5, <1>6, <1>7, <1>8 DEF Next, Drain, Done

\* No other step is in the loop of 5b.
LEMMA ArgumentsElsewhere ==
    ASSUME [Next]_vars, pc = "args", ~UNCHANGED vars,
           ~PassThrough, ~TaintVariable, ~OtherArgument
    PROVE  ArgumentsDone
<1>1. ~Seed /\ ~Report
  BY DEF Seed, SeedInstruction, SeedArgument, SeedDone, Report
<1>2. ~Drain
  BY DEF Drain, TakeValue, MainUser, PassToTarget, Return, StoreToGlobal,
     StoreToParam, StoreToLocal, OtherUse, SkipTainted, UpwardUse, UsersDone, User
<1>3. ~Scan
  BY DEF Scan, IdentifyKills, CollectPointers, TakePointer, ScanLoad, LoadsDone,
     ScanDone, MainDone
<1>4. ~BeginRound /\ ~TaintCall /\ ~CallersDone /\ ~EndRound
  BY DEF BeginRound, TaintCall, CallersDone, EndRound
<1> QED
  BY <1>1, <1>2, <1>3, <1>4 DEF Next, Round, Done

LEMMA ArgumentsFollowedStep ==
    ASSUME Inductive, ArgumentsFollowed, [Next]_vars
    PROVE  ArgumentsFollowed'
<1>1. Grows /\ M' = M /\ input \in Inputs
  BY StepInductive, StepRemembers, SameModule DEF Inductive, TypeOK, DataOK
<1>2. SUFFICES ASSUME stage' = "up", pc' \notin {"round", "callers"}, ~discovered',
                      NEW x \in FunctionsTaintingPointerParams',
                      NEW c \in CallsTo(M, x[1]), x[2] <= ArgSize(M, c)
               PROVE  \/ Followed(c, x[2])'
                      \/ pc' = "args" /\ <<c, x[2]>> \in todo'
  BY <1>1 DEF ArgumentsFollowed
<1>3. CASE MainDone
  BY <1>2, <1>3 DEF MainDone
<1>4. CASE BeginRound
  BY <1>2, <1>4 DEF BeginRound
<1>5. CASE CallersDone
  <2>1. /\ todo' = {y \in Of(M, "call") \X {z[2] : z \in FunctionsTaintingPointerParams} :
                     /\ <<CalledOperand(M, y[1]), y[2]>> \in FunctionsTaintingPointerParams
                     /\ y[2] <= ArgSize(M, y[1])}
        /\ pc' = "args" /\ UNCHANGED FunctionsTaintingPointerParams
    BY <1>5 DEF CallersDone, taint
  <2>2. x \in FunctionsTaintingPointerParams /\ x = <<x[1], x[2]>>
    BY <2>1 DEF Inductive, TypeOK, DataOK
  <2>3. <<c, x[2]>> \in Of(M, "call") \X {z[2] : z \in FunctionsTaintingPointerParams}
    BY <2>2 DEF CallsTo
  <2>4. CalledOperand(M, c) = x[1]
    BY DEF CallsTo
  <2> QED
    BY <1>2, <2>1, <2>2, <2>3, <2>4
<1>6. CASE ~MainDone /\ ~BeginRound /\ ~CallersDone
  <2>1. stage = "up" /\ pc \notin {"round", "callers"}
    <3>1. CASE EndRound
      BY <1>2, <3>1 DEF EndRound
    <3> QED
      BY <1>2, <1>6, <3>1, RoundElsewhere
  <2>2. ~discovered /\ x \in FunctionsTaintingPointerParams
    BY <1>2, <1>6, <2>1, DiscoveriesKept
  <2>3. Followed(c, x[2])' \/ (pc = "args" /\ <<c, x[2]>> \in todo)
    BY <1>2, <2>1, <2>2, FollowedStays DEF ArgumentsFollowed
  <2>4. CASE PassThrough \/ TaintVariable \/ OtherArgument
    <3>1. PICK y \in todo : /\ todo' = todo \ {y} /\ UNCHANGED <<stage, pc>>
                            /\ Followed(y[1], y[2])'
      BY <2>4, ArgumentIsFollowed
    <3>2. CASE y = <<c, x[2]>>
      BY <3>1, <3>2
    <3>3. CASE y # <<c, x[2]>>
      BY <2>3, <3>1, <3>3
    <3> QED
      BY <3>2, <3>3
  <2>5. CASE ArgumentsDone
    BY <2>3, <2>5 DEF ArgumentsDone
  <2>6. CASE UNCHANGED vars
    BY <2>3, <2>6 DEF vars, control
  <2> QED
    BY <2>3, <2>4, <2>5, <2>6, ArgumentsElsewhere
<1> QED
  BY <1>3, <1>4, <1>5, <1>6

LEMMA RoundsOverStep ==
    ASSUME Inductive, RoundsOver, [Next]_vars
    PROVE  RoundsOver'
<1>1. CASE EndRound
  <2>1. /\ RoundAgain => pc' = "round"
        /\ UNCHANGED <<discovered, before, FunctionsReturningTaint,
                       FunctionsTaintingPointerParams>>
    BY <1>1 DEF EndRound, taint, flags
  <2> QED
    BY <2>1 DEF RoundsOver, RoundAgain, ParamFuncs
<1>2. CASE Report \/ UNCHANGED vars
  <2>1. /\ UNCHANGED <<stage, discovered, before, FunctionsReturningTaint,
                       FunctionsTaintingPointerParams>>
        /\ pc = "report" \/ UNCHANGED pc
    BY <1>2 DEF Report, vars, control, taint, flags
  <2> QED
    BY <2>1 DEF RoundsOver, RoundAgain, ParamFuncs
<1>3. CASE MainDone
  BY <1>3 DEF MainDone, RoundsOver
<1>4. CASE Scan /\ ~MainDone
  <2>1. pc' \notin {"report", "done"}
    BY <1>4 DEF Scan, IdentifyKills, CollectPointers, TakePointer, ScanLoad,
       LoadsDone, ScanDone
  <2> QED
    BY <2>1 DEF RoundsOver
<1> QED
  BY <1>1, <1>2, <1>3, <1>4, LeadsElsewhere DEF RoundsOver, Scan

\* No caller is left out when the rounds end (1248-1578): "while
\* (discoveredNewFunctions)" stops only after a round in which 5a and 5b had
\* nothing more to find.
THEOREM RoundsReachEveryCaller == Spec => []UpwardClosed
<1>1. Init => CallersFound /\ ArgumentsFollowed /\ RoundsOver
  BY DEF Init, CallersFound, ArgumentsFollowed, RoundsOver
<1>2. /\ Inductive /\ CallersFound /\ [Next]_vars => CallersFound'
      /\ Inductive /\ ArgumentsFollowed /\ [Next]_vars => ArgumentsFollowed'
      /\ Inductive /\ RoundsOver /\ [Next]_vars => RoundsOver'
  BY CallersFoundStep, ArgumentsFollowedStep, RoundsOverStep
<1>3. CallersFound /\ ArgumentsFollowed /\ RoundsOver /\ ScanState => UpwardClosed
  <2>1. SUFFICES ASSUME CallersFound, ArgumentsFollowed, RoundsOver, ScanState,
                        stage = "up", pc \in {"report", "done"}
                 PROVE  UpwardClosed
    BY DEF UpwardClosed
  <2>2. ~discovered /\ before = <<FunctionsReturningTaint, ParamFuncs>>
    BY <2>1 DEF RoundsOver, RoundAgain
  <2>3. Worklist = <<>> /\ TaintedPointers \subseteq scanned
    BY <2>1 DEF ScanState
  <2>4. \A f \in FunctionsReturningTaint : CallsTo(M, f) \subseteq TaintedValues
    BY <2>1, <2>2 DEF CallersFound, CallsTo
  <2>5. \A x \in FunctionsTaintingPointerParams : \A c \in CallsTo(M, x[1]) :
           x[2] <= ArgSize(M, c) => Followed(c, x[2])
    BY <2>1, <2>2 DEF ArgumentsFollowed
  <2> QED
    BY <2>3, <2>4, <2>5 DEF UpwardClosed, Followed
<1> QED
  BY <1>1, <1>2, <1>3, AlwaysInductive, ScanStateHolds, PTL DEF Spec

-----------------------------------------------------------------------------
(* The levels *)

\* Function f has a level, or the taint came to it through a global.
Known(f) == f \in DOMAIN FunctionLevel \/ ThroughGlobal(f)

\* Taint stays in functions that are known.
FunctionsKnown ==
    /\ \A v \in TaintedValues : Known(M.func[v])
    /\ \A p \in TaintedPointers \cap Locals(M) : Known(M.func[p])

\* What an operand is of, without casts, is in the function of its user.
LEMMA StripStays ==
    ASSUME input \in Inputs, NEW i \in M.insts, NEW v \in Operands(M, i),
           M.strip[v] \in Locals(M)
    PROVE  M.func[M.strip[v]] = M.func[i]
<1>1. LocalOK(M) /\ v \in Values(M)
  BY ModuleFacts, InstFacts DEF ModuleOK, Operands
<1> QED
  BY <1>1 DEF LocalOK

LEMMA StorePointerStays ==
    ASSUME input \in Inputs, NEW s \in Of(M, "store"), StorePointer(M, s) \in Locals(M)
    PROVE  M.func[StorePointer(M, s)] = M.func[s]
<1>1. s \in M.insts /\ M.ops[s] \in Seq(Values(M)) /\ Len(M.ops[s]) = 2
  BY ModuleFacts DEF ModuleOK, Of
<1>2. M.ops[s][2] \in Operands(M, s)
  BY <1>1 DEF Operands
<1> QED
  BY <1>1, <1>2, StripStays DEF StorePointer

\* The base of a gep, without casts
LEMMA BaseStays ==
    ASSUME input \in Inputs, NEW g \in Of(M, "gep"), M.strip[M.ops[g][1]] \in Locals(M)
    PROVE  M.func[M.strip[M.ops[g][1]]] = M.func[g]
<1>1. g \in M.insts /\ M.ops[g] \in Seq(Values(M)) /\ Len(M.ops[g]) >= 1
  BY ModuleFacts DEF ModuleOK, Of
<1>2. M.ops[g][1] \in Operands(M, g)
  BY <1>1 DEF Operands
<1> QED
  BY <1>1, <1>2, StripStays

\* A pointer that a load reads from, in a function, is in the load's.
LEMMA LoadedPointerStays ==
    ASSUME input \in Inputs, NEW l \in Of(M, "load"),
           NEW p \in LoadedPointers(M, l), p \in Locals(M)
    PROVE  M.func[p] = M.func[l]
<1>1. l \in M.insts /\ M.ops[l] \in Seq(Values(M)) /\ Len(M.ops[l]) = 1
  BY ModuleFacts DEF ModuleOK, Of
<1>2. M.ops[l][1] \in Operands(M, l)
  BY <1>1 DEF Operands
<1> DEFINE ptr == M.strip[M.ops[l][1]]
<1>3. ptr \in Locals(M) => M.func[ptr] = M.func[l]
  BY <1>1, <1>2, StripStays
<1>4. p = ptr \/ (ptr \in Of(M, "gep") /\ p = M.strip[M.ops[ptr][1]])
  BY DEF LoadedPointers
<1>5. ptr \in Of(M, "gep") => ptr \in Locals(M)
  BY DEF Of, Locals
<1> HIDE DEF ptr
<1> QED
  BY <1>3, <1>4, <1>5, BaseStays

\* What step 5b taints for a call is in the caller.
LEMMA ReachedStays ==
    ASSUME input \in Inputs, NEW i \in M.insts, NEW arg \in Operands(M, i),
           NEW var \in PointedVar(M, arg), NEW f, NEW k,
           NEW p \in Reached(var, f, k), p \in Locals(M)
    PROVE  M.func[p] = M.func[i]
<1>1. LocalOK(M)
  BY ModuleFacts DEF ModuleOK
<1>2. Of(M, "gep") \subseteq M.insts /\ Of(M, "alloca") \subseteq M.insts
      /\ M.insts \subseteq Locals(M)
  BY DEF Of, Locals
<1>3. var \in Locals(M) => M.func[var] = M.func[i]
  <2>1. arg \in Locals(M) => M.func[arg] = M.func[i]
    BY <1>1 DEF LocalOK
  <2>2. \/ var = arg
        \/ arg \in Of(M, "gep") /\ var = M.strip[M.ops[arg][1]]
    BY DEF PointedVar
  <2> QED
    BY <1>2, <2>1, <2>2, BaseStays
<1>4. CASE p = var
  BY <1>3, <1>4
<1>5. CASE p # var
  <2>1. var \in M.structs /\ p \in Of(M, "alloca")
    BY <1>5 DEF Reached, FieldTargets
  <2>2. PICK g \in Of(M, "gep") \cap Users(M, var), st \in Of(M, "store") :
          M.ops[st][2] = g /\ M.strip[StoredValue(M, st)] = p
    BY <1>5 DEF Reached, FieldTargets
  <2>3. var \in Locals(M)
    BY <1>1, <1>2, <2>1 DEF LocalOK
  <2>4. M.func[g] = M.func[var]
    BY <1>1, <1>2, <2>2, <2>3 DEF LocalOK, Users
  <2>5. st \in M.insts /\ M.ops[st] \in Seq(Values(M)) /\ Len(M.ops[st]) = 2
    BY ModuleFacts DEF ModuleOK, Of
  <2>6. M.ops[st][2] \in Operands(M, st) /\ StoredValue(M, st) \in Operands(M, st)
    BY <2>5 DEF Operands, StoredValue
  <2>7. M.func[g] = M.func[st]
    BY <1>1, <1>2, <2>2, <2>5, <2>6 DEF LocalOK
  <2>8. M.func[p] = M.func[st]
    BY <2>2, <2>5, <2>6, StripStays
  <2> QED
    BY <1>3, <2>3, <2>4, <2>7, <2>8
<1> QED
  BY <1>4, <1>5

\* No function loses its level.
LEMMA FunctionLevelsGrow ==
    ASSUME Inductive, [Next]_vars
    PROVE  DOMAIN FunctionLevel \subseteq DOMAIN FunctionLevel'
<1>1. CASE SeedArgument \/ PassToTarget
  BY <1>1, NewParams
<1>2. CASE SeedInstruction \/ TaintCall \/ PassThrough \/ TaintVariable
  <2>1. \/ \E f, n : FunctionLevel' \in {Put(FunctionLevel, f, n),
                                         PutIfAbsent(FunctionLevel, f, n)}
        \/ UNCHANGED FunctionLevel
    BY <1>2 DEF SeedInstruction, TaintCall, PassThrough, TaintVariable
  <2> QED
    BY <2>1 DEF Put, PutIfAbsent
<1>3. CASE \/ SeedDone \/ TakeValue \/ Return \/ StoreToGlobal \/ StoreToParam
           \/ StoreToLocal \/ OtherUse \/ SkipTainted \/ UpwardUse \/ UsersDone
  BY <1>3 DEF SeedDone, TakeValue, Return, StoreToGlobal, StoreToParam,
     StoreToLocal, OtherUse, SkipTainted, UpwardUse, UsersDone, maps
<1>4. CASE Scan
  BY <1>4 DEF Scan, IdentifyKills, CollectPointers, TakePointer, ScanLoad,
     LoadsDone, ScanDone, MainDone, maps
<1>5. CASE \/ BeginRound \/ CallersDone \/ OtherArgument \/ ArgumentsDone
           \/ EndRound \/ Report \/ UNCHANGED vars
  BY <1>5 DEF BeginRound, CallersDone, OtherArgument, ArgumentsDone, EndRound,
     Report, maps, vars
<1> QED
  BY <1>1, <1>2, <1>3, <1>4, <1>5 DEF Next, Seed, Drain, MainUser, Round, Done

LEMMA KnownStays ==
    ASSUME Inductive, [Next]_vars, NEW f
    PROVE  /\ Known(f) => Known(f)'
           /\ ThroughGlobal(f) => ThroughGlobal(f)'
<1>1. Grows /\ M' = M /\ DOMAIN FunctionLevel \subseteq DOMAIN FunctionLevel'
  BY StepInductive, StepRemembers, SameModule, FunctionLevelsGrow
<1>2. ThroughGlobal(f) => ThroughGlobal(f)'
  BY <1>1 DEF ThroughGlobal, Grows
<1> QED
  BY <1>1, <1>2 DEF Known

\* What a step must do for what it taints
NewKnown ==
    /\ \A v \in TaintedValues' \ TaintedValues :
          /\ Known(M.func[v])'
          /\ v \in DOMAIN ValueLevel' \/ (v \in Of(M, "load") /\ ThroughGlobal(M.func[v])')
    /\ \A p \in (TaintedPointers' \ TaintedPointers) \cap Locals(M) : Known(M.func[p])'

\* A use of a value of a function is in the same function.
LEMMA UserKnown ==
    ASSUME Inductive, FunctionsKnown, [Next]_vars,
           NEW x \in todo, NEW mode, User(x, mode)
    PROVE  /\ Known(M.func[x[1]])'
           /\ M.kind[x[1]] = "store" /\ StorePointer(M, x[1]) \in Locals(M) =>
                 Known(M.func[StorePointer(M, x[1])])'
<1>1. /\ cur \in TaintedValues /\ x[1] \in Users(M, cur) /\ x[1] \in M.insts
      /\ M' = M
  BY UserFacts
<1>2. input \in Inputs /\ cur \in Locals(M) /\ LocalOK(M)
  BY <1>1, ModuleFacts DEF Inductive, TypeOK, DataOK, ModuleOK, Locals
<1>3. M.func[x[1]] = M.func[cur]
  BY <1>1, <1>2 DEF LocalOK, Users
<1>4. Known(M.func[cur])
  BY <1>1 DEF FunctionsKnown
<1>5. \A f : Known(f) => Known(f)'
  BY KnownStays
<1>6. Known(M.func[x[1]])'
  BY <1>1, <1>3, <1>4, <1>5
<1>7. M.kind[x[1]] = "store" /\ StorePointer(M, x[1]) \in Locals(M) =>
         M.func[StorePointer(M, x[1])] = M.func[x[1]]
  BY <1>1, <1>2, StorePointerStays DEF Of
<1>8. StorePointer(M, x[1])' = StorePointer(M, x[1])
  BY <1>1 DEF StorePointer
<1> QED
  BY <1>1, <1>3, <1>4, <1>5, <1>6, <1>7, <1>8

LEMMA DrainKnown ==
    ASSUME Inductive, FunctionsKnown, [Next]_vars,
           StoreToLocal \/ OtherUse \/ UpwardUse
    PROVE  NewKnown
<1>1. PICK x \in todo : \E mode :
        /\ User(x, mode)
        /\ TaintedValues' \subseteq TaintedValues \cup {x[1]}
        /\ x[1] \in TaintedValues' \ TaintedValues => x[1] \in DOMAIN ValueLevel'
        /\ \/ UNCHANGED TaintedPointers
           \/ /\ M.kind[x[1]] = "store"
              /\ TaintedPointers' = TaintedPointers \cup {StorePointer(M, x[1])}
  <2>1. CASE StoreToLocal
    <3>1. PICK x \in todo :
            /\ IsStoreOf(x[1], cur) /\ User(x, "main")
            /\ TaintPointer(StorePointer(M, x[1]), x[1]) /\ Propagate(x[1])
      BY <2>1 DEF StoreToLocal
    <3> QED
      BY <3>1 DEF Propagate, Taint, Put, TaintPointer, IsStoreOf
  <2>2. CASE OtherUse
    <3>1. PICK x \in todo : /\ User(x, "main") /\ Propagate(x[1])
                            /\ UNCHANGED TaintedPointers
      BY <2>2 DEF OtherUse
    <3> QED
      BY <3>1 DEF Propagate, Taint, Put
  <2>3. CASE UpwardUse
    <3>1. PICK x \in todo :
            /\ User(x, "up") /\ Taint(x[1])
            /\ ValueLevel' = Put(ValueLevel, x[1], getLevel(cur))
            /\ IF IsStoreOf(x[1], cur) THEN TaintPointer(StorePointer(M, x[1]), x[1])
               ELSE UNCHANGED TaintedPointers
      BY <2>3 DEF UpwardUse
    <3> QED
      BY <3>1 DEF Taint, Put, TaintPointer, IsStoreOf
  <2> QED
    BY <2>1, <2>2, <2>3
<1>2. /\ Known(M.func[x[1]])'
      /\ M.kind[x[1]] = "store" /\ StorePointer(M, x[1]) \in Locals(M) =>
            Known(M.func[StorePointer(M, x[1])])'
  BY <1>1, UserKnown
<1>3. M' = M /\ StorePointer(M, x[1])' = StorePointer(M, x[1])
  BY StepRemembers, SameModule DEF StorePointer
<1>4. \A v \in TaintedValues' \ TaintedValues :
          Known(M.func[v])' /\ v \in DOMAIN ValueLevel'
  BY <1>1, <1>2
<1>5. \A p \in (TaintedPointers' \ TaintedPointers) \cap Locals(M) : Known(M.func[p])'
  BY <1>1, <1>2, <1>3
<1> QED
  BY <1>4, <1>5 DEF NewKnown

LEMMA SeedKnown ==
    ASSUME Inductive, SeedInstruction
    PROVE  NewKnown
<1>1. PICK x \in todo :
        /\ pc = "seed" /\ Taint(x[1])
        /\ FunctionLevel' = Put(FunctionLevel, M.func[x[1]], 0)
        /\ ValueLevel' = Put(ValueLevel, x[1], 0)
        /\ \/ UNCHANGED TaintedPointers
           \/ /\ M.kind[x[1]] = "store"
              /\ TaintPointer(StorePointer(M, x[1]), x[1])
        /\ UNCHANGED input
  BY DEF SeedInstruction
<1>2. x \in SeedParts(input) /\ input \in Inputs
  BY <1>1 DEF Inductive, InHand, TypeOK, DataOK
<1>3. x[1] \in M.insts /\ M' = M
  BY <1>1, <1>2, SeedFacts, SameModule
<1>4. /\ M.func[x[1]] \in DOMAIN FunctionLevel' /\ x[1] \in DOMAIN ValueLevel'
      /\ TaintedValues' = TaintedValues \cup {x[1]}
  BY <1>1 DEF Put, Taint
<1>5. M.kind[x[1]] = "store" /\ StorePointer(M, x[1]) \in Locals(M) =>
         M.func[StorePointer(M, x[1])] = M.func[x[1]]
  BY <1>2, <1>3, StorePointerStays DEF Of
<1>6. \/ UNCHANGED TaintedPointers
      \/ /\ M.kind[x[1]] = "store"
         /\ TaintedPointers' = TaintedPointers \cup {StorePointer(M, x[1])}
  BY <1>1 DEF TaintPointer
<1> QED
  BY <1>3, <1>4, <1>5, <1>6 DEF NewKnown, Known

LEMMA ScanLoadKnown ==
    ASSUME Inductive, FunctionsKnown, [Next]_vars, ScanLoad
    PROVE  NewKnown
<1>1. PICK x \in todo :
        /\ pc = "loads"
        /\ ValueLevel' = IF x[1] \in TaintedValues THEN ValueLevel
                         ELSE ensureLevelSet(x[1])
        /\ Taint(x[1]) \/ UNCHANGED TaintedValues
        /\ UNCHANGED <<TaintedPointers, FunctionLevel>>
  BY DEF ScanLoad
<1>2. /\ x[1] \in Of(M, "load") /\ cur \in TaintedPointers
      /\ cur \in LoadedPointers(M, x[1]) /\ input \in Inputs
  BY <1>1 DEF Inductive, InHand, TypeOK, ControlOK, DataOK, Of
<1>3. M' = M
  BY StepRemembers, SameModule
<1>4. SUFFICES ASSUME Taint(x[1]), x[1] \notin TaintedValues
               PROVE  /\ Known(M.func[x[1]])'
                      /\ x[1] \in DOMAIN ValueLevel' \/ ThroughGlobal(M.func[x[1]])'
  BY <1>1, <1>2 DEF NewKnown, Taint
<1>5. x[1] \in TaintedValues'
  BY <1>4 DEF Taint
<1>6. CASE ~(LoadedPointers(M, x[1]) \subseteq Locals(M))
  <2>1. ThroughGlobal(M.func[x[1]])'
    BY <1>2, <1>3, <1>5, <1>6 DEF ThroughGlobal
  <2> QED
    BY <2>1 DEF Known
<1>7. CASE LoadedPointers(M, x[1]) \subseteq Locals(M)
  <2>1. M.func[cur] = M.func[x[1]]
    BY <1>2, <1>7, LoadedPointerStays
  <2>2. Known(M.func[x[1]])
    BY <1>2, <1>7, <2>1 DEF FunctionsKnown
  <2>3. /\ Known(M.func[x[1]])'
        /\ ThroughGlobal(M.func[x[1]]) => ThroughGlobal(M.func[x[1]])'
    <3>1. \A f : (Known(f) => Known(f)') /\ (ThroughGlobal(f) => ThroughGlobal(f)')
      BY KnownStays
    <3> QED
      BY <1>3, <2>2, <3>1
  <2>4. M.func[x[1]] \in DOMAIN FunctionLevel => x[1] \in DOMAIN ValueLevel'
    BY <1>1, <1>4 DEF ensureLevelSet, PutIfAbsent, Put
  <2> QED
    BY <2>2, <2>3, <2>4 DEF Known
<1> QED
  BY <1>6, <1>7

LEMMA TaintVariableKnown ==
    ASSUME Inductive, TaintVariable
    PROVE  NewKnown
<1>1. PICK x \in todo : \E var \in PointedVar(M, Actual(x)) :
        LET new == Reached(var, CalledOperand(M, x[1]), x[2]) \ TaintedPointers IN
        /\ Argument(x)
        /\ \/ UNCHANGED TaintedPointers
           \/ /\ TaintedPointers' = TaintedPointers \cup new
              /\ FunctionLevel' = PutIfAbsent(FunctionLevel, M.func[x[1]],
                                     LevelAbove(CalledOperand(M, x[1])))
  BY DEF TaintVariable
<1>2. PICK var \in PointedVar(M, Actual(x)) :
        LET new == Reached(var, CalledOperand(M, x[1]), x[2]) \ TaintedPointers IN
        /\ Argument(x)
        /\ \/ UNCHANGED TaintedPointers
           \/ /\ TaintedPointers' = TaintedPointers \cup new
              /\ FunctionLevel' = PutIfAbsent(FunctionLevel, M.func[x[1]],
                                     LevelAbove(CalledOperand(M, x[1])))
  BY <1>1
<1>3. /\ UNCHANGED TaintedValues /\ M' = M /\ pc = "args"
      /\ x \in M.insts \X Nat /\ input \in Inputs
      /\ M.kind[x[1]] = "call" /\ x[2] \in 1..ArgSize(M, x[1])
  BY <1>2, SameModule DEF Argument, Inductive, InHand, TypeOK, ControlOK, DataOK
<1>4. Actual(x) \in Operands(M, x[1])
  BY <1>3, InstFacts DEF Actual, Operands, Of
<1>5. CASE UNCHANGED TaintedPointers
  BY <1>3, <1>5 DEF NewKnown
<1>6. CASE ~UNCHANGED TaintedPointers
  <2>1. M.func[x[1]] \in DOMAIN FunctionLevel'
    BY <1>2, <1>6 DEF PutIfAbsent, Put
  <2>2. TaintedPointers' \ TaintedPointers \subseteq
           Reached(var, CalledOperand(M, x[1]), x[2])
    BY <1>2, <1>6
  <2>3. \A p \in (TaintedPointers' \ TaintedPointers) \cap Locals(M) :
           M.func[p] = M.func[x[1]]
    BY <1>3, <1>4, <2>2, ReachedStays
  <2> QED
    BY <1>3, <2>1, <2>3 DEF NewKnown, Known
<1> QED
  BY <1>5, <1>6

LEMMA StepKnown ==
    ASSUME Inductive, FunctionsKnown, [Next]_vars
    PROVE  NewKnown
<1>1. M' = M
  BY StepRemembers, SameModule
<1>2. CASE SeedInstruction
  BY <1>2, SeedKnown
<1>3. CASE SeedArgument \/ PassToTarget
  <2>1. UNCHANGED TaintedPointers
    BY <1>3 DEF SeedArgument, PassToTarget
  <2> QED
    BY <1>1, <1>3, <2>1, NewParams DEF NewKnown, Known
<1>4. CASE StoreToLocal \/ OtherUse \/ UpwardUse
  BY <1>4, DrainKnown
<1>5. CASE ScanLoad
  BY <1>5, ScanLoadKnown
<1>6. CASE TaintCall
  <2>1. PICK x \in todo :
          /\ \/ UNCHANGED TaintedValues
             \/ /\ x[1] \notin TaintedValues /\ Taint(x[1])
                /\ FunctionLevel' = PutIfAbsent(FunctionLevel, M.func[x[1]],
                                       LevelAbove(CalledOperand(M, x[1])))
          /\ ValueLevel' = LevelsOfCall(x[1])
          /\ UNCHANGED TaintedPointers
    BY <1>6 DEF TaintCall
  <2>2. \A v \in TaintedValues' \ TaintedValues :
           v \in DOMAIN ValueLevel' /\ M.func[v] \in DOMAIN FunctionLevel'
    BY <2>1 DEF Taint, LevelsOfCall, PutIfAbsent, Put
  <2> QED
    BY <1>1, <2>1, <2>2 DEF NewKnown, Known
<1>7. CASE TaintVariable
  BY <1>7, TaintVariableKnown
<1>8. CASE UNCHANGED <<TaintedValues, TaintedPointers>>
  BY <1>8 DEF NewKnown
<1>9. CASE \/ SeedDone \/ TakeValue \/ Return \/ StoreToGlobal \/ StoreToParam
           \/ SkipTainted \/ UsersDone \/ (Scan /\ ~ScanLoad)
  <2>1. UNCHANGED <<TaintedValues, TaintedPointers>>
    BY <1>9 DEF SeedDone, TakeValue, Return, StoreToGlobal, StoreToParam,
       SkipTainted, UsersDone, Scan, IdentifyKills, CollectPointers, TakePointer,
       LoadsDone, ScanDone, MainDone, User, taint
  <2> QED
    BY <1>8, <2>1
<1>10. CASE (Round /\ ~TaintCall /\ ~TaintVariable) \/ Report \/ UNCHANGED vars
  <2>1. UNCHANGED <<TaintedValues, TaintedPointers>>
    BY <1>10 DEF Round, BeginRound, CallersDone, PassThrough, OtherArgument,
       Argument, ArgumentsDone, EndRound, Report, taint, vars
  <2> QED
    BY <1>8, <2>1
<1> QED
  BY <1>2, <1>3, <1>4, <1>5, <1>6, <1>7, <1>9, <1>10
  DEF Next, Seed, Drain, MainUser, Scan, Round, Done

LEMMA LevelsCompleteStep ==
    ASSUME Inductive, FunctionsKnown, LevelsComplete, [Next]_vars
    PROVE  FunctionsKnown' /\ LevelsComplete'
<1>1. NewKnown /\ Frozen /\ M' = M
  BY StepKnown, StepFreezes, StepRemembers, SameModule
<1>2. \A f : (Known(f) => Known(f)') /\ (ThroughGlobal(f) => ThroughGlobal(f)')
  BY KnownStays
<1>3. FunctionsKnown'
  <2>1. ASSUME NEW v \in TaintedValues'
        PROVE  Known(M.func[v])'
    <3>1. CASE v \in TaintedValues
      BY <1>1, <1>2, <3>1 DEF FunctionsKnown
    <3>2. CASE v \notin TaintedValues
      BY <1>1, <3>2 DEF NewKnown
    <3> QED
      BY <3>1, <3>2
  <2>2. ASSUME NEW p \in TaintedPointers' \cap Locals(M)
        PROVE  Known(M.func[p])'
    <3>1. CASE p \in TaintedPointers
      BY <1>1, <1>2, <3>1 DEF FunctionsKnown
    <3>2. CASE p \notin TaintedPointers
      BY <1>1, <3>2 DEF NewKnown
    <3> QED
      BY <3>1, <3>2
  <2> QED
    BY <1>1, <2>1, <2>2 DEF FunctionsKnown
<1>4. LevelsComplete'
  <2>1. SUFFICES ASSUME NEW v \in TaintedValues', v \notin DOMAIN ValueLevel'
                 PROVE  v \in Of(M, "load") /\ ThroughGlobal(M.func[v])'
    BY <1>1 DEF LevelsComplete
  <2>2. CASE v \in TaintedValues
    <3>1. v \notin DOMAIN ValueLevel
      BY <1>1, <2>1, <2>2 DEF Frozen, Leveled
    <3> QED
      BY <1>1, <1>2, <2>2, <3>1 DEF LevelsComplete
  <2>3. CASE v \notin TaintedValues
    BY <1>1, <2>1, <2>3 DEF NewKnown
  <2> QED
    BY <2>2, <2>3
<1> QED
  BY <1>3, <1>4

\* The statistics, which go through ValueLevel, leave out no tainted value
\* but loads in a function that the taint came to through a global: every
\* other way into a function gives it a level first (482-490).
THEOREM StatisticsMissOnlyGlobals == Spec => []LevelsComplete
<1>1. Init => FunctionsKnown /\ LevelsComplete
  BY DEF Init, FunctionsKnown, LevelsComplete
<1>2. Inductive /\ FunctionsKnown /\ LevelsComplete /\ [Next]_vars
        => FunctionsKnown' /\ LevelsComplete'
  BY LevelsCompleteStep
<1> QED
  BY <1>1, <1>2, AlwaysInductive, PTL DEF Spec
=============================================================================
