--------------------------- MODULE TaintProperties ---------------------------
(***************************************************************************)
(* What TaintTrackerPass::run must do, stated over TaintTracker.           *)
(***************************************************************************)
EXTENDS TaintTracker, SequencesExt

Waiting == ToSet(Worklist)

Typed(map, K, V) == DOMAIN map \subseteq K /\ map \in [DOMAIN map -> V]

DataOK ==
    /\ input \in Inputs
    /\ TaintedValues \subseteq M.insts \cup M.args
    /\ TaintedPointers \subseteq Values(M)
    /\ Worklist \in Seq(TaintedValues)
    /\ KilledStores \subseteq Of(M, "store")
    /\ FunctionsReturningTaint \subseteq M.funcs
    /\ FunctionsTaintingPointerParams \subseteq M.funcs \X (Nat \ {0})
    /\ PointerTaintOrigin \in [TaintedPointers -> M.insts]
    /\ Typed(ValueLevel, M.insts \cup M.args, Int)
    /\ Typed(FunctionLevel, M.funcs, Int)

ControlOK ==
    /\ scanned \subseteq TaintedPointers /\ toScan \subseteq TaintedPointers
    /\ todo \subseteq M.insts \X Nat
    /\ changed \in BOOLEAN /\ discovered \in BOOLEAN
    /\ stage \in {"main", "up"}
    /\ pc \in {"seed", "drain", "users", "scan", "loads", "round", "callers",
               "args", "check", "report", "done"}

\* The variables keep the types of the code's containers: sets of the
\* module's values, maps from them, a worklist of values that are tainted.
TypeOK == DataOK /\ ControlOK

\* What the loop in progress has in hand is what its body takes it for: a
\* seed still to be taken is not tainted, the value whose users are visited
\* is, the loads still to be looked at are loads from a tainted pointer, the
\* calls still to be looked at are of functions that do return, or store, the
\* constant.
InHand ==
    /\ pc = "seed" =>
          /\ stage = "main" /\ todo \subseteq SeedParts(input)
          /\ \A x \in todo : x[2] = 0 => x[1] \notin TaintedValues
    /\ stage = "up" => input.upward
    /\ pc \in {"round", "callers", "args", "check"} => stage = "up"
    /\ pc = "users" =>
          /\ cur \in TaintedValues
          /\ \A x \in todo : /\ x[1] \in Users(M, cur)
                             /\ x[2] # 0 => /\ M.kind[x[1]] = "call"
                                            /\ x[2] \in TargetParts(x[1], cur)
    /\ pc = "loads" =>
          /\ cur \in TaintedPointers
          /\ \A x \in todo : M.kind[x[1]] = "load" /\ cur \in LoadedPointers(M, x[1])
    /\ pc = "callers" =>
          \A x \in todo : /\ M.kind[x[1]] = "call"
                          /\ CalledOperand(M, x[1]) \in FunctionsReturningTaint
    /\ pc = "args" =>
          \A x \in todo :
             /\ M.kind[x[1]] = "call" /\ x[2] \in 1..ArgSize(M, x[1])
             /\ <<CalledOperand(M, x[1]), x[2]>> \in FunctionsTaintingPointerParams

-----------------------------------------------------------------------------
(* The main fixpoint *)

ReachesParam(f, k) ==
    f \in M.defined /\ k <= Len(M.params[f]) => M.params[f][k] \in TaintedValues

\* The pass has done for part x of the use of v all that it must.
PartHandled(v, x) ==
    LET u == x[1]
        toGlobal == IsStoreOf(u, v) /\ StorePointer(M, u) \in M.globals
        toParam == IsStoreOf(u, v) /\ ~toGlobal /\ IsParamStore(u)
    IN
    IF x[2] # 0
    THEN \A k \in ArgIndices(u, v) : ReachesParam(TargetOf(u, x[2]), k)
    ELSE /\ IsReturnOf(u, v) => M.func[u] \in FunctionsReturningTaint
         /\ toParam => ParamOf(u) \subseteq FunctionsTaintingPointerParams
         /\ IsStoreOf(u, v) /\ ~toGlobal /\ ~toParam =>
               StorePointer(M, u) \in TaintedPointers
         /\ ~IsReturnOf(u, v) /\ ~toGlobal /\ ~toParam => u \in TaintedValues

\* Draining the worklist misses nothing: a tainted value that is not waiting
\* has been passed on to every user, but for the users of the one in hand.
WorklistCovers ==
    stage = "main" =>
        \A v \in TaintedValues \ Waiting : \A x \in UserParts(v) :
            PartHandled(v, x) \/ (pc = "users" /\ v = cur /\ x \in todo)

\* A load from a scanned pointer is tainted unless it comes before the
\* pointer's taint or, in the main stage, after a kill; but for the loads
\* that the scan in progress has yet to reach.
ScanCovers ==
    \A p \in scanned : \A l \in Of(M, "load") :
        p \in LoadedPointers(M, l) =>
            \/ l \in TaintedValues
            \/ isLoadBeforeTaintOrigin(l, p)
            \/ stage = "main" /\ AfterKill(l, p)
            \/ pc = "loads" /\ cur = p /\ <<l, 0>> \in todo

\* "Iterate until we reach a fixed point": when the main loop ends nothing
\* waits, every tainted pointer has been scanned and every use passed on.
MainFixpoint ==
    (stage = "main" /\ pc \in {"report", "done"}) \/ pc = "round" =>
        /\ Worklist = <<>>
        /\ stage = "main" => TaintedPointers \subseteq scanned
        /\ stage = "main" => \A v \in TaintedValues :
                                \A x \in UserParts(v) : PartHandled(v, x)

\* "Check that this store itself is not tainted": the store that tainted a
\* pointer is never taken for one that kills its taint.
OriginsNotKilled ==
    \A p \in TaintedPointers : PointerTaintOrigin[p] \notin KilledStores

\* Why: the origin of a pointer's taint is tainted itself or is a call, and
\* a store is taken for a kill only after its pointer was tainted.
OriginsTainted ==
    /\ \A p \in TaintedPointers : \/ PointerTaintOrigin[p] \in TaintedValues
                                  \/ M.kind[PointerTaintOrigin[p]] = "call"
    /\ \A s \in KilledStores : StorePointer(M, s) \in TaintedPointers

\* The inductive invariant behind the theorems
Inductive == TypeOK /\ InHand /\ OriginsTainted /\ OriginsNotKilled

-----------------------------------------------------------------------------
(* Upward *)

\* When the rounds end, no caller is left out: every call of a function that
\* returns the constant is tainted, and the argument of every call of a
\* function that stores it through a parameter has been followed.
UpwardClosed ==
    stage = "up" /\ pc \in {"report", "done"} =>
        /\ Worklist = <<>> /\ TaintedPointers \subseteq scanned
        /\ \A f \in FunctionsReturningTaint : CallsTo(M, f) \subseteq TaintedValues
        /\ \A x \in FunctionsTaintingPointerParams : \A c \in CallsTo(M, x[1]) :
              x[2] <= ArgSize(M, c) =>
                 LET arg == M.ops[c][x[2]] IN
                 IF M.origin[arg] # 0
                 THEN <<M.func[c], M.origin[arg]>> \in FunctionsTaintingPointerParams
                 ELSE PointedVar(M, arg) \subseteq TaintedPointers

\* The upward drain, which skips users that are tainted already (1495), leaves
\* no user of a tainted value untainted but the returns and the stores out of
\* the function, and no return unrecorded; whichever stage tainted the value,
\* but for the users still to be visited.
UpwardCovers ==
    stage = "up" =>
        \A v \in TaintedValues \ Waiting : \A u \in Users(M, v) :
            \/ pc = "users" /\ v = cur /\ <<u, 0>> \in todo
            \/ IsReturnOf(u, v) /\ M.func[u] \in FunctionsReturningTaint
            \/ ~IsReturnOf(u, v) /\ u \in TaintedValues
            \/ IsStoreOf(u, v) /\ (StorePointer(M, u) \in M.globals \/ IsParamStore(u))

\* The taint came to function f with a load from what is in no function.
ThroughGlobal(f) ==
    \E l \in TaintedValues \cap Of(M, "load") :
        M.func[l] = f /\ ~(LoadedPointers(M, l) \subseteq Locals(M))

\* What the statistics leave out: they go through ValueLevel, and every tainted
\* value is in it but for loads in a function that had no level when the load
\* was found (482-490), because the taint came there through a global.
LevelsComplete ==
    \A v \in TaintedValues \ DOMAIN ValueLevel :
        v \in Of(M, "load") /\ ThroughGlobal(M.func[v])

-----------------------------------------------------------------------------
(* Said of the code and not so *)

\* "Track stores that kill taint (overwrite with non-tainted value)": a store
\* taken for a kill stores a value that the pass has not found tainted.
KillsStoreUntainted ==
    \A s \in KilledStores : StoredValue(M, s) \notin TaintedValues

\* "Find first and last tainted instruction for each max-level function"
\* (1735): the span reported for a function of the largest level has every
\* tainted instruction of the function.
SpanCoversTainted ==
    pc = "done" => \A i \in TaintedValues \cap M.insts :
        M.func[i] \in report.full \/ <<M.func[i], i>> \in report.spans

\* "This uses the same propagation logic as the main worklist": when a round
\* has drained the worklist, a store of a tainted value through a pointer
\* parameter has been recorded, as the main loop would have it.
UpwardStoresRecorded ==
    pc = "check" => \A v \in TaintedValues : \A u \in Users(M, v) :
        IsStoreOf(u, v) /\ IsParamStore(u) =>
            ParamOf(u) \subseteq FunctionsTaintingPointerParams

-----------------------------------------------------------------------------
(* Steps *)

\* The level printed when a value is tainted is the one the statistics count
\* it under: no later step changes it.
LevelsFrozen ==
    [][\A v \in Leveled : v \in DOMAIN ValueLevel' /\ ValueLevel'[v] = ValueLevel[v]]_vars

Flow == INSTANCE TaintFlow WITH
            tainted <- TaintedValues, pointers <- TaintedPointers,
            returning <- FunctionsReturningTaint,
            storing <- FunctionsTaintingPointerParams

\* The pass follows the data flow of the module and nothing else.
FollowsDataFlow == Flow!Spec

\* What is recorded lies in every extent, however large, that the data flow does
\* not lead out of, hence in the least one; the order of the loops, kills,
\* levels and the rounds can leave something out but never add to it.
StaysInExtent ==
    \A extent \in Flow!Extents : Flow!Closed(extent) => Flow!Within(extent)

\* Nothing that is recorded is forgotten.
Grows ==
    /\ TaintedValues \subseteq TaintedValues'
    /\ TaintedPointers \subseteq TaintedPointers'
    /\ FunctionsReturningTaint \subseteq FunctionsReturningTaint'
    /\ FunctionsTaintingPointerParams \subseteq FunctionsTaintingPointerParams'

\* One of the two conditions to go round again is withdrawn and none is raised.
CalmsDown ==
    /\ changed' => changed
    /\ RoundAgain' => RoundAgain
    /\ changed' # changed \/ RoundAgain' # RoundAgain

\* How much of a round of the main loop, or of the upward rounds, is left.
\* Upward the scan comes back to the worklist, until it has nothing to scan.
StepsLeft ==
    LET scanLast == stage = "main" \/ ~(TaintedPointers \subseteq scanned)
        left == [seed |-> 10, callers |-> 9, args |-> 8,
                 users |-> IF scanLast THEN 7 ELSE 5,
                 drain |-> IF scanLast THEN 6 ELSE 4,
                 loads |-> IF scanLast THEN 5 ELSE 7,
                 scan |-> IF scanLast THEN 4 ELSE 6,
                 check |-> 3, round |-> 2, report |-> 1, done |-> 0]
    IN left[pc]

\* A step finds something that was not recorded; or the pass goes upward; or a
\* reason to go on is gone; or another pointer is scanned; or the worklist is
\* shorter; or the round is nearer its end.  What comes earlier in this list
\* outweighs what comes later, and stays as it is unless it gets better.
Descends ==
    \/ Grows /\ taint' # taint
    \/ /\ taint' = taint
       /\ \/ stage = "main" /\ stage' = "up"
          \/ /\ stage' = stage
             /\ \/ CalmsDown
                \/ /\ changed' = changed /\ RoundAgain' = RoundAgain
                   /\ \/ scanned' # scanned /\ scanned \subseteq scanned'
                      \/ /\ scanned' = scanned
                         /\ \/ Len(Worklist') < Len(Worklist)
                            \/ /\ Worklist' = Worklist
                               /\ \/ StepsLeft' < StepsLeft
                                  \/ /\ pc' = pc /\ todo' # todo
                                     /\ todo' \subseteq todo

\* The three nested loops, "while (changed)", the drain of the worklist and
\* "while (discoveredNewFunctions)", never turn without getting anywhere: each
\* step of the pass brings its end nearer, however the data flow is cyclic.
NeverInVain == [][Descends]_vars

\* Both loops reach their fixed point: the pass ends on every module, with
\* recursion, cyclic data flow and pointers that are tainted again and again.
Termination == <>(pc = "done")
=============================================================================
