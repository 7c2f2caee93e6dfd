---------------------------- MODULE TaintTracker ----------------------------
(***************************************************************************)
(* TaintTrackerPass::run: the worklist algorithm that follows a constant   *)
(* through a module.  One run is sequential; what varies from run to run   *)
(* is the module, the options and the addresses the allocator gave to the  *)
(* values, which decide the order of every "sorted" iteration.             *)
(*                                                                         *)
(* The pass alternates between draining the worklist and scanning the      *)
(* module for loads from tainted pointers (stage "main"); then, if asked,  *)
(* it climbs from the functions that return the constant or store it       *)
(* through a pointer parameter to their callers, round after round (stage  *)
(* "up").  pc names the loop the run is in:                                *)
(*   seed     the constant is looked for in the source function            *)
(*   drain    the head of "while (!Worklist.empty())"                      *)
(*   users    the loop over the users of cur                               *)
(*   scan     the loop over PointersToScan                                 *)
(*   loads    the walk over the module for loads from cur                  *)
(*   round    the head of "while (discoveredNewFunctions)"                 *)
(*   callers  step 5a, callers of functions that return taint              *)
(*   args     step 5b, callers of functions that taint pointer parameters  *)
(*   check    the end of a round                                           *)
(*   report   the statistics                                               *)
(***************************************************************************)
EXTENDS IR, FiniteSets

CONSTANTS Modules, \* LLVM modules, by name
          Inputs   \* the runs considered: module, addresses and parameters

\* addr orders the values as std::less orders their pointers.
InputOK(x) ==
    LET m == Modules[x.module] IN
    /\ x.module \in DOMAIN Modules
    /\ x.addr \in [Values(m) -> Nat]
    /\ \A u, v \in Values(m) : x.addr[u] = x.addr[v] => u = v
    /\ x.function \in m.funcs
    /\ x.constant \in m.consts
    /\ x.opcode \in STRING
    /\ x.occurrence \in Nat
    /\ {x.interproc, x.indirect, x.upward} \subseteq BOOLEAN

ASSUME ModulesAssumption == \A n \in DOMAIN Modules : ModuleOK(Modules[n])
ASSUME InputsAssumption == \A x \in Inputs : InputOK(x)

VARIABLES
    input,          \* the module and the parameters of the pass
    TaintedValues, TaintedPointers, Worklist, KilledStores,
    FunctionsReturningTaint,
    FunctionsTaintingPointerParams, \* pairs <<function, parameter>>
    FunctionParamFieldAccess,       \* triples <<function, parameter, field>>
    PointerTaintOrigin, ValueLevel, FunctionLevel, \* DenseMaps
    scanned,        \* ScannedPointers, then UpwardScannedPointers
    stage, pc,
    cur,            \* the value, or pointer, being processed
    todo,           \* what is left of the innermost loop: <<instruction, n>>
    toScan,         \* what is left of PointersToScan
    changed, discovered,
    before,         \* the two sets whose sizes a round compares
    report

taint == <<TaintedValues, TaintedPointers, FunctionsReturningTaint,
           FunctionsTaintingPointerParams>>
maps == <<FunctionParamFieldAccess, PointerTaintOrigin, ValueLevel,
          FunctionLevel>>
flags == <<changed, discovered, before>>
control == <<stage, pc, cur, todo, toScan, scanned>>
vars == <<input, taint, Worklist, KilledStores, maps, flags, control, report>>

M == Modules[input.module]

-----------------------------------------------------------------------------
(* Maps, levels and the order of the loops *)

\* map[key] = value on a DenseMap
Put(map, key, value) ==
    [k \in DOMAIN map \cup {key} |-> IF k = key THEN value ELSE map[k]]

\* "if (!map.count(key)) map[key] = value"
PutIfAbsent(map, key, value) ==
    IF key \in DOMAIN map THEN map ELSE Put(map, key, value)

getLevel(v) ==
    IF v \in DOMAIN ValueLevel THEN ValueLevel[v]
    ELSE IF v \in M.insts \cup M.args /\ M.func[v] \in DOMAIN FunctionLevel
         THEN FunctionLevel[M.func[v]] ELSE 0

\* The level of the function a caller is reached from, plus one
LevelAbove(f) ==
    IF f \in DOMAIN FunctionLevel THEN FunctionLevel[f] + 1 ELSE 1

\* Variant: the level is only looked up
ensureLevelRead(i) == ValueLevel

ensureLevelSet(i) ==
    IF M.func[i] \in DOMAIN FunctionLevel
    THEN PutIfAbsent(ValueLevel, i, FunctionLevel[M.func[i]]) ELSE ValueLevel

InModuleOrder(x, y) ==
    \/ M.pos[x[1]] < M.pos[y[1]]
    \/ x[1] = y[1] /\ x[2] < y[2]

\* getSortedUsers.  A user's parts are done in turn, the general propagation
\* (part 0) after the parts that propagate to the parameters of its targets.
InAddressOrder(x, y) ==
    \/ input.addr[x[1]] < input.addr[y[1]]
    \/ x[1] = y[1] /\ x[2] # 0 /\ (y[2] = 0 \/ x[2] < y[2])

\* Steps 5a and 5b go through the callees by address, then walk the module.
InCalleeOrder(x, y) ==
    LET a == input.addr[CalledOperand(M, x[1])]
        b == input.addr[CalledOperand(M, y[1])]
    IN a < b \/ (a = b /\ InModuleOrder(x, y))

IsNext(x, Precedes(_, _)) ==
    /\ x \in todo
    /\ \A y \in todo \ {x} : Precedes(x, y)

-----------------------------------------------------------------------------
(* The targets of an indirect call *)

\* FunctionPointerTargets: the functions stored to a pointer, in the order
\* of the module.  A store is recorded under its pointer and under what is
\* left of it when casts are stripped.
FunctionStores(p) ==
    {s \in Of(M, "store") :
        StoredValue(M, s) \in M.funcs /\ p \in {M.ops[s][2], StorePointer(M, s)}}

\* The entry the pass uses for a call through a load from p: p's own, that of
\* p without casts, or the first whose gep has the pattern of p's.
TargetEntry(p) ==
    IF FunctionStores(p) # {} THEN {p}
    ELSE IF FunctionStores(M.strip[p]) # {} THEN {M.strip[p]}
    ELSE LET similar == {g \in Of(M, "gep") :
                            /\ p \in Of(M, "gep")
                            /\ FunctionStores(g) # {}
                            /\ sameGEPPattern(M, g, p)}
         IN {g \in similar : \A h \in similar : input.addr[g] <= input.addr[h]}

IndirectTargets(c) ==
    {s \in Of(M, "store") :
        \E l \in Of(M, "load") : /\ l = CalledOperand(M, c)
                                 /\ \E p \in TargetEntry(M.ops[l][1]) :
                                       s \in FunctionStores(p)}

\* Variant: the parameter after the argument's
ArgIndicesOffByOne(c, v) ==
    {k \in 2..ArgSize(M, c) :
        M.ops[c][k - 1] = v /\ \A j \in 1..(k - 2) : M.ops[c][j] # v}

\* The first argument of c that is v, as the loop with "break" finds it
ArgIndices(c, v) ==
    {k \in 1..ArgSize(M, c) :
        M.ops[c][k] = v /\ \A j \in 1..(k - 1) : M.ops[c][j] # v}

\* The parts in which the loop over the users of v handles call c: one for
\* each function whose parameter v may reach, numbered in the order of the
\* loop over Targets.
TargetParts(c, v) ==
    IF ~input.interproc \/ ArgIndices(c, v) = {} THEN {}
    ELSE IF IsDirect(M, c)
         THEN IF CalledOperand(M, c) \in M.defined THEN {1} ELSE {}
         ELSE IF input.indirect THEN {M.pos[s] + 1 : s \in IndirectTargets(c)}
         ELSE {}

TargetOf(c, n) ==
    IF IsDirect(M, c) THEN CalledOperand(M, c)
    ELSE StoredValue(M, CHOOSE s \in IndirectTargets(c) : M.pos[s] + 1 = n)

UserParts(v) ==
    {<<u, 0>> : u \in Users(M, v)}
        \cup UNION {{<<c, n>> : n \in TargetParts(c, v)} :
                        c \in Users(M, v) \cap Of(M, "call")}

-----------------------------------------------------------------------------
(* 1. Seeding *)

\* Occurrence i.k of the constant: operand k of instruction i is it
SeedSites(x) ==
    LET m == Modules[x.module]
    IN UNION {{<<i, k>> : k \in {k \in DOMAIN m.ops[i] :
                                    m.ops[i][k] = x.constant}} :
              i \in {i \in m.insts : /\ m.func[i] = x.function
                                     /\ x.opcode \in {"", m.kind[i]}}}

\* The instructions that OccurrenceIndex selects: all, or the one with the
\* n-th occurrence, n - 1 of them before it.
Selected(x) ==
    LET m == Modules[x.module]
        sites == SeedSites(x)
        Earlier(s) == {r \in sites : \/ m.pos[r[1]] < m.pos[s[1]]
                                     \/ r[1] = s[1] /\ r[2] < s[2]}
    IN {s[1] : s \in {t \in sites :
                        \/ x.occurrence = 0
                        \/ x.occurrence = Cardinality(Earlier(t)) + 1}}

\* Part 0 of a selected instruction is the instruction, part k the argument
\* k of a direct call, if it is the constant and the pass goes downward.
SeedParts(x) ==
    LET m == Modules[x.module]
    IN {<<i, 0>> : i \in Selected(x)}
       \cup UNION {{<<c, k>> : k \in {k \in 1..ArgSize(m, c) :
                                        /\ m.ops[c][k] = x.constant
                                        /\ k <= Len(m.params[CalledOperand(m, c)])}} :
                   c \in {i \in Selected(x) : /\ x.interproc
                                              /\ m.kind[i] = "call"
                                              /\ CalledOperand(m, i) \in m.defined}}

NoReport == [level |-> 0, top |-> {}, spans |-> {}, full |-> {}]

Init ==
    /\ input \in Inputs
    /\ TaintedValues = {} /\ TaintedPointers = {} /\ Worklist = <<>>
    /\ KilledStores = {}
    /\ FunctionsReturningTaint = {} /\ FunctionsTaintingPointerParams = {}
    /\ FunctionParamFieldAccess = {}
    /\ PointerTaintOrigin = <<>> /\ ValueLevel = <<>> /\ FunctionLevel = <<>>
    /\ scanned = {} /\ stage = "main" /\ pc = "seed" /\ cur = input.function
    /\ todo = SeedParts(input) /\ toScan = {}
    /\ changed = FALSE /\ discovered = FALSE /\ before = <<{}, {}>>
    /\ report = NoReport

\* getPointerParameterOrigin found parameter k of the store's function
StoresThrough(s) == M.origin[M.ops[s][2]]
IsParamStore(s) == M.kind[s] = "store" /\ StoresThrough(s) # 0
ParamOf(s) == {<<M.func[s], StoresThrough(s)>>}
AccessOf(s) ==
    {<<M.func[s], StoresThrough(s), f>> : f \in M.access[M.ops[s][2]]}

TaintPointer(p, origin) ==
    /\ TaintedPointers' = TaintedPointers \cup {p}
    /\ PointerTaintOrigin' = IF p \in TaintedPointers THEN PointerTaintOrigin
                             ELSE Put(PointerTaintOrigin, p, origin)

\* Variant: it joins the worklist without being marked
TaintUnmarked(v) ==
    Worklist' = Append(Worklist, v) /\ UNCHANGED TaintedValues

\* A new tainted value joins the worklist.
Taint(v) ==
    /\ TaintedValues' = TaintedValues \cup {v}
    /\ Worklist' = Append(Worklist, v)

SeedInstruction ==
    \E x \in todo :
      LET i == x[1] 
          isConst(k) == k \in DOMAIN M.ops[i] /\ M.ops[i][k] = input.constant
          toGlobal == M.kind[i] = "store" /\ StorePointer(M, i) \in M.globals
      IN
      /\ pc = "seed" /\ IsNext(x, InModuleOrder) /\ x[2] = 0
      /\ todo' = todo \ {x}
      /\ Taint(i)
      /\ FunctionLevel' = Put(FunctionLevel, M.func[i], 0)
      /\ ValueLevel' = Put(ValueLevel, i, 0)
      /\ FunctionsReturningTaint' = FunctionsReturningTaint \cup
            (IF M.kind[i] = "ret" /\ isConst(1) THEN {M.func[i]} ELSE {})
      /\ IF IsParamStore(i) /\ ~toGlobal
         THEN /\ FunctionsTaintingPointerParams' =
                    FunctionsTaintingPointerParams \cup ParamOf(i)
              /\ FunctionParamFieldAccess' =
                    FunctionParamFieldAccess \cup AccessOf(i)
         ELSE UNCHANGED <<FunctionsTaintingPointerParams,
                          FunctionParamFieldAccess>>
      /\ IF M.kind[i] = "store" /\ ~toGlobal /\ ~IsParamStore(i)
         THEN TaintPointer(StorePointer(M, i), i)
         ELSE UNCHANGED <<TaintedPointers, PointerTaintOrigin>>
      /\ UNCHANGED <<input, KilledStores, flags, stage, pc, cur, toScan,
                     scanned, report>>

\* A formal parameter becomes tainted: one level down.
TaintParam(param, f, level) ==
    IF param \in TaintedValues
    THEN UNCHANGED <<TaintedValues, Worklist, FunctionLevel>>
    ELSE /\ Taint(param)
         /\ FunctionLevel' = Put(FunctionLevel, f, level - 1)

SeedArgument ==
    \E x \in todo :
      LET f == CalledOperand(M, x[1])
          param == M.params[f][x[2]]
      IN
      /\ pc = "seed" /\ IsNext(x, InModuleOrder) /\ x[2] # 0
      /\ todo' = todo \ {x}
      /\ TaintParam(param, f, getLevel(x[1]))
      /\ ValueLevel' = IF param \in TaintedValues THEN ValueLevel
                       ELSE Put(ValueLevel, param, getLevel(x[1]) - 1)
      /\ UNCHANGED <<input, TaintedPointers, FunctionsReturningTaint,
                     FunctionsTaintingPointerParams, KilledStores,
                     FunctionParamFieldAccess, PointerTaintOrigin, flags,
                     stage, pc, cur, toScan, scanned, report>>

SeedDone ==
    /\ pc = "seed" /\ todo = {}
    /\ pc' = "drain"
    /\ UNCHANGED <<input, taint, Worklist, KilledStores, maps, flags, stage,
                   cur, todo, toScan, scanned, report>>

-----------------------------------------------------------------------------
(* 2. Draining the worklist *)

TakeValue ==
    /\ pc = "drain" /\ Worklist # <<>>
    /\ cur' = Worklist[Len(Worklist)]
    /\ Worklist' = SubSeq(Worklist, 1, Len(Worklist) - 1)
    /\ todo' = IF stage = "main" THEN UserParts(cur')
               ELSE {<<u, 0>> : u \in Users(M, cur')}
    /\ pc' = "users"
    /\ UNCHANGED <<input, taint, KilledStores, maps, flags, stage, toScan,
                   scanned, report>>

\* The next part of the loop over the users of cur: x
User(x, mode) ==
    /\ pc = "users" /\ stage = mode /\ IsNext(x, InAddressOrder)
    /\ todo' = todo \ {x}
    /\ UNCHANGED <<input, KilledStores, stage, pc, cur, toScan, scanned, before,
                   report>>

\* A call passes cur to a function whose body the pass follows.
PassToTarget ==
    \E x \in todo :
      LET f == TargetOf(x[1], x[2])
          k == CHOOSE k \in ArgIndices(x[1], cur) : TRUE
          param == M.params[f][k]
          level == getLevel(cur)
          reported == IF IsDirect(M, x[1])
                      THEN PutIfAbsent(ValueLevel, x[1], level) ELSE ValueLevel
      IN
      /\ x[2] # 0 /\ User(x, "main")
      /\ IF f \in M.defined /\ k <= Len(M.params[f])
         THEN /\ TaintParam(param, f, level)
              /\ ValueLevel' = IF param \in TaintedValues THEN reported
                               ELSE Put(reported, param, level - 1)
              /\ changed' = (changed \/ param \notin TaintedValues)
         ELSE /\ ValueLevel' = reported
              /\ UNCHANGED <<TaintedValues, Worklist, FunctionLevel, changed>>
      /\ UNCHANGED <<TaintedPointers, FunctionsReturningTaint,
                     FunctionsTaintingPointerParams, FunctionParamFieldAccess,
                     PointerTaintOrigin, discovered>>

\* Variant: taint stops at calls
PropagateToNonCalls(u) ==
    /\ IF u \in TaintedValues \cup Of(M, "call")
       THEN UNCHANGED <<TaintedValues, Worklist>> ELSE Taint(u)
    /\ ValueLevel' = PutIfAbsent(ValueLevel, u, getLevel(cur))

\* cur flows to its user u, at cur's level.
Propagate(u) ==
    /\ IF u \in TaintedValues THEN UNCHANGED <<TaintedValues, Worklist>>
       ELSE Taint(u)
    /\ ValueLevel' =
          IF u \notin TaintedValues THEN Put(ValueLevel, u, getLevel(cur))
          ELSE IF /\ M.kind[u] = "call" /\ CalledOperand(M, u) \in M.defined
                  /\ ArgIndices(u, cur) # {}
               THEN PutIfAbsent(ValueLevel, u, getLevel(cur))
          ELSE ValueLevel

IsReturnOf(u, v) == M.kind[u] = "ret" /\ v \in Operands(M, u)
IsStoreOf(u, v) == M.kind[u] = "store" /\ StoredValue(M, u) = v

Return ==
    \E x \in todo :
      /\ x[2] = 0 /\ IsReturnOf(x[1], cur) /\ User(x, "main")
      /\ FunctionsReturningTaint' =
            FunctionsReturningTaint \cup {M.func[x[1]]}
      /\ UNCHANGED <<TaintedValues, TaintedPointers, Worklist, maps, changed,
                     FunctionsTaintingPointerParams, discovered>>

StoreToGlobal ==
    \E x \in todo :
      /\ x[2] = 0 /\ IsStoreOf(x[1], cur) /\ User(x, "main")
      /\ StorePointer(M, x[1]) \in M.globals
      /\ UNCHANGED <<taint, Worklist, maps, changed, discovered>>

StoreToParam ==
    \E x \in todo :
      /\ x[2] = 0 /\ IsStoreOf(x[1], cur) /\ User(x, "main")
      /\ StorePointer(M, x[1]) \notin M.globals /\ IsParamStore(x[1])
      /\ FunctionsTaintingPointerParams' =
            FunctionsTaintingPointerParams \cup ParamOf(x[1])
      /\ UNCHANGED <<TaintedValues, TaintedPointers, Worklist, maps, changed,
                     FunctionsReturningTaint, discovered>>

StoreToLocal ==
    \E x \in todo :
      LET ptr == StorePointer(M, x[1]) IN
      /\ x[2] = 0 /\ IsStoreOf(x[1], cur) /\ User(x, "main")
      /\ ptr \notin M.globals /\ ~IsParamStore(x[1])
      /\ TaintPointer(ptr, x[1])
      /\ changed' = (changed \/ ptr \notin TaintedPointers)
      /\ Propagate(x[1])
      /\ UNCHANGED <<FunctionsReturningTaint, FunctionsTaintingPointerParams,
                     FunctionParamFieldAccess, FunctionLevel, discovered>>

OtherUse ==
    \E x \in todo :
      /\ x[2] = 0 /\ ~IsReturnOf(x[1], cur) /\ ~IsStoreOf(x[1], cur)
      /\ User(x, "main")
      /\ Propagate(x[1])
      /\ UNCHANGED <<TaintedPointers, FunctionsReturningTaint, changed,
                     FunctionsTaintingPointerParams, PointerTaintOrigin,
                     FunctionParamFieldAccess, FunctionLevel, discovered>>

UsersDone ==
    /\ pc = "users" /\ todo = {}
    /\ pc' = "drain"
    /\ UNCHANGED <<input, taint, Worklist, KilledStores, maps, flags, stage,
                   cur, todo, toScan, scanned, report>>

-----------------------------------------------------------------------------
(* Kill stores and loads *)

\* Variant: without the check that the store itself is not tainted
KillsOrigin(s) ==
    /\ StorePointer(M, s) \in TaintedPointers
    /\ StoredValue(M, s) \notin TaintedValues

\* A store of an untainted value to a tainted pointer, unless it comes before
\* the origin of the pointer's taint in the same block
Kills(s) ==
    LET ptr == StorePointer(M, s) IN
    /\ ptr \in TaintedPointers
    /\ StoredValue(M, s) \notin TaintedValues /\ s \notin TaintedValues
    /\ ptr \in DOMAIN PointerTaintOrigin =>
          LET origin == PointerTaintOrigin[ptr]
          IN SameBlock(M, s, origin) => M.pos[origin] <= M.pos[s]

IdentifyKills ==
    /\ pc = "drain" /\ Worklist = <<>> /\ stage = "main"
    /\ KilledStores' = KilledStores \cup {s \in Of(M, "store") : Kills(s)}
    /\ toScan' = TaintedPointers \ scanned
    /\ pc' = "scan"
    /\ UNCHANGED <<input, taint, Worklist, maps, flags, stage, cur, todo,
                   scanned, report>>

\* Variant: every load is taken for one from p
TakePointerAnyLoad ==
    \E p \in toScan :
      /\ pc = "scan"
      /\ \A q \in toScan : input.addr[p] <= input.addr[q]
      /\ cur' = p
      /\ toScan' = toScan \ {p} /\ scanned' = scanned \cup {p}
      /\ todo' = {<<l, 0>> : l \in Of(M, "load")}
      /\ pc' = "loads"
      /\ UNCHANGED <<input, taint, Worklist, KilledStores, maps, flags, stage,
                     report>>

TakePointer ==
    \E p \in toScan :
      /\ pc = "scan"
      /\ \A q \in toScan : input.addr[p] <= input.addr[q]
      /\ cur' = p
      /\ toScan' = toScan \ {p} /\ scanned' = scanned \cup {p}
      /\ todo' = {<<l, 0>> : l \in {l \in Of(M, "load") :
                                        p \in LoadedPointers(M, l)}}
      /\ pc' = "loads"
      /\ UNCHANGED <<input, taint, Worklist, KilledStores, maps, flags, stage,
                     report>>

isLoadBeforeTaintOrigin(l, p) ==
    /\ p \in DOMAIN PointerTaintOrigin
    /\ SameBlock(M, l, PointerTaintOrigin[p])
    /\ M.pos[l] < M.pos[PointerTaintOrigin[p]]

AfterKill(l, p) ==
    \E s \in KilledStores : /\ StorePointer(M, s) = p /\ SameBlock(M, l, s)
                            /\ M.pos[s] < M.pos[l]

\* Variant: the kill need not come before the load
IsSkippedByAnyKill(l) ==
    \/ isLoadBeforeTaintOrigin(l, cur)
    \/ stage = "main" /\ \E s \in KilledStores : StorePointer(M, s) = cur

\* scanLoadsFromTaintedPointers, for a load from cur; upward, the pass gives
\* it no KilledStores.
IsSkipped(l) ==
    \/ stage = "main" /\ AfterKill(l, cur)
    \/ isLoadBeforeTaintOrigin(l, cur)

ScanLoad ==
    \E x \in todo :
      LET l == x[1] IN
      /\ pc = "loads" /\ IsNext(x, InModuleOrder)
      /\ todo' = todo \ {x}
      /\ ValueLevel' = IF l \in TaintedValues THEN ValueLevel
                       ELSE ensureLevelSet(l)
      /\ IF l \in TaintedValues \/ IsSkipped(l)
         THEN UNCHANGED <<TaintedValues, Worklist, changed>>
         ELSE Taint(l) /\ changed' = TRUE
      /\ UNCHANGED <<input, TaintedPointers, FunctionsReturningTaint,
                     FunctionsTaintingPointerParams, KilledStores,
                     FunctionParamFieldAccess, PointerTaintOrigin,
                     FunctionLevel, discovered, before, stage, pc, cur, toScan,
                     scanned, report>>

LoadsDone ==
    /\ pc = "loads" /\ todo = {}
    /\ pc' = "scan"
    /\ UNCHANGED <<input, taint, Worklist, KilledStores, maps, flags, stage,
                   cur, todo, toScan, scanned, report>>

\* The condition of "while (changed)"; variant: a tainted load is not a change
AgainForPointers == changed /\ Worklist = <<>>
Again == changed

\* The end of an iteration of that loop, or of the upward scan
ScanDone ==
    /\ pc = "scan" /\ toScan = {}
    /\ stage = "up" \/ Again
    /\ pc' = "drain" /\ changed' = FALSE
    /\ UNCHANGED <<input, taint, Worklist, KilledStores, maps, discovered,
                   before, stage, cur, todo, toScan, scanned, report>>

MainDone ==
    /\ pc = "scan" /\ toScan = {} /\ stage = "main" /\ ~Again
    /\ IF input.upward /\ \/ FunctionsReturningTaint # {}
                          \/ FunctionsTaintingPointerParams # {}
       THEN pc' = "round" /\ stage' = "up" /\ scanned' = {}
       ELSE pc' = "report" /\ UNCHANGED <<stage, scanned>>
    /\ UNCHANGED <<input, taint, Worklist, KilledStores, maps, flags, cur,
                   todo, toScan, report>>

-----------------------------------------------------------------------------
(* 5. Upward: from callees to callers *)

ParamFuncs == {x[1] : x \in FunctionsTaintingPointerParams}

BeginRound ==
    /\ pc = "round"
    /\ discovered' = FALSE
    /\ before' = <<FunctionsReturningTaint, ParamFuncs>>
    /\ todo' = {<<c, 0>> : c \in {c \in Of(M, "call") :
                            CalledOperand(M, c) \in FunctionsReturningTaint}}
    /\ pc' = "callers"
    /\ UNCHANGED <<input, taint, Worklist, KilledStores, maps, changed, stage,
                   cur, toScan, scanned, report>>

\* The levels after a call that returns the constant is found.  Variant: also
\* those of a call that was tainted before.
LevelsOfAnyCall(c) == Put(ValueLevel, c, LevelAbove(CalledOperand(M, c)))
LevelsOfCall(c) ==
    IF c \in TaintedValues THEN ValueLevel
    ELSE Put(ValueLevel, c, LevelAbove(CalledOperand(M, c)))

\* 5a. A call of a function that returns the constant
TaintCall ==
    \E x \in todo :
      LET c == x[1] IN
      /\ pc = "callers" /\ IsNext(x, InCalleeOrder)
      /\ todo' = todo \ {x}
      /\ IF c \in TaintedValues
         THEN UNCHANGED <<TaintedValues, Worklist, FunctionLevel>>
         ELSE /\ Taint(c)
              /\ FunctionLevel' = PutIfAbsent(FunctionLevel, M.func[c],
                                     LevelAbove(CalledOperand(M, c)))
      /\ ValueLevel' = LevelsOfCall(c)
      /\ UNCHANGED <<input, TaintedPointers, FunctionsReturningTaint,
                     FunctionsTaintingPointerParams, KilledStores,
                     FunctionParamFieldAccess, PointerTaintOrigin, flags,
                     stage, pc, cur, toScan, scanned, report>>

\* 5b goes through a copy of FunctionsTaintingPointerParams.
CallersDone ==
    /\ pc = "callers" /\ todo = {}
    /\ todo' = {y \in Of(M, "call") \X {x[2] : x \in FunctionsTaintingPointerParams} :
                  /\ <<CalledOperand(M, y[1]), y[2]>> \in FunctionsTaintingPointerParams
                  /\ y[2] <= ArgSize(M, y[1])}
    /\ pc' = "args"
    /\ UNCHANGED <<input, taint, Worklist, KilledStores, maps, flags, stage,
                   cur, toScan, scanned, report>>

\* The argument in position k of call c, which the callee may store to
Argument(x) ==
    /\ pc = "args" /\ IsNext(x, InCalleeOrder)
    /\ todo' = todo \ {x}
    /\ UNCHANGED <<input, TaintedValues, FunctionsReturningTaint, Worklist,
                   KilledStores, FunctionParamFieldAccess, ValueLevel, changed,
                   before, stage, pc, cur, toScan, scanned, report>>

Actual(x) == M.ops[x[1]][x[2]]

\* Case 1: it comes from a pointer parameter of the caller.
PassThrough ==
    \E x \in todo :
      LET caller == M.func[x[1]]
          through == <<caller, M.origin[Actual(x)]>>
      IN
      /\ Argument(x) /\ M.origin[Actual(x)] # 0
      /\ FunctionsTaintingPointerParams' =
            FunctionsTaintingPointerParams \cup {through}
      /\ IF through \in FunctionsTaintingPointerParams
         THEN UNCHANGED <<discovered, FunctionLevel>>
         ELSE /\ discovered' = TRUE
              /\ FunctionLevel' = PutIfAbsent(FunctionLevel, caller,
                                     LevelAbove(CalledOperand(M, x[1])))
      /\ UNCHANGED <<TaintedPointers, PointerTaintOrigin>>

\* var and, if it is a struct, the variables its fields point to: those of
\* the fields that f is known to store through in its parameter k.
Reached(var, f, k) ==
    LET accessed == {a[3] : a \in {a \in FunctionParamFieldAccess :
                                      a[1] = f /\ a[2] = k}}
    IN {var} \cup (IF var \in M.structs
                   THEN FieldTargets(M, var, accessed) ELSE {})

\* Case 2: it is the address of a variable of the caller, or in it.
TaintVariable ==
    pc = "args" /\ \E x \in todo : \E var \in PointedVar(M, Actual(x)) :
      LET f == CalledOperand(M, x[1])
          new == Reached(var, f, x[2]) \ TaintedPointers
      IN
      /\ Argument(x) /\ M.origin[Actual(x)] = 0
      /\ IF var \in TaintedPointers
         THEN UNCHANGED <<TaintedPointers, PointerTaintOrigin, FunctionLevel>>
         ELSE /\ TaintedPointers' = TaintedPointers \cup new
              /\ PointerTaintOrigin' =
                    [p \in DOMAIN PointerTaintOrigin \cup new |->
                        IF p \in new THEN x[1] ELSE PointerTaintOrigin[p]]
              /\ FunctionLevel' = PutIfAbsent(FunctionLevel, M.func[x[1]],
                                              LevelAbove(f))
      /\ UNCHANGED <<FunctionsTaintingPointerParams, discovered>>

\* Neither: nothing is done.
OtherArgument ==
    \E x \in todo :
      /\ Argument(x)
      /\ M.origin[Actual(x)] = 0 /\ PointedVar(M, Actual(x)) = {}
      /\ UNCHANGED <<TaintedPointers, FunctionsTaintingPointerParams,
                     PointerTaintOrigin, FunctionLevel, discovered>>

ArgumentsDone ==
    /\ pc = "args" /\ todo = {}
    /\ pc' = "drain"
    /\ UNCHANGED <<input, taint, Worklist, KilledStores, maps, flags, stage,
                   cur, todo, toScan, scanned, report>>

\* Variant: "break" for "continue"
SkipTaintedBreak ==
    \E x \in todo :
      /\ pc = "users" /\ stage = "up" /\ IsNext(x, InAddressOrder)
      /\ x[1] \in TaintedValues
      /\ todo' = {}
      /\ UNCHANGED <<input, taint, Worklist, KilledStores, maps, flags, stage, pc,
                     cur, toScan, scanned, report>>

SkipTainted ==
    \E x \in todo :
      /\ User(x, "up") /\ x[1] \in TaintedValues
      /\ UNCHANGED <<taint, Worklist, maps, changed, discovered>>

\* A user that was not tainted: it is, and processStoreForTaint and the
\* handling of returns follow.
UpwardUse ==
    \E x \in todo :
      LET u == x[1]
          params == IF IsStoreOf(u, cur) /\ IsParamStore(u) THEN ParamOf(u)
                    ELSE {}
          returning == IF IsReturnOf(u, cur) THEN {M.func[u]} ELSE {}
      IN
      /\ User(x, "up") /\ u \notin TaintedValues
      /\ Taint(u)
      /\ ValueLevel' = Put(ValueLevel, u, getLevel(cur))
      /\ IF IsStoreOf(u, cur) THEN TaintPointer(StorePointer(M, u), u)
         ELSE UNCHANGED <<TaintedPointers, PointerTaintOrigin>>
      /\ FunctionsTaintingPointerParams' =
            FunctionsTaintingPointerParams \cup params
      /\ FunctionParamFieldAccess' =
            FunctionParamFieldAccess \cup (IF params = {} THEN {} ELSE AccessOf(u))
      /\ FunctionsReturningTaint' = FunctionsReturningTaint \cup returning
      /\ discovered' = (\/ discovered
                        \/ ~(params \subseteq FunctionsTaintingPointerParams)
                        \/ ~(returning \subseteq FunctionsReturningTaint))
      /\ UNCHANGED <<FunctionLevel, changed>>

CollectPointers ==
    /\ pc = "drain" /\ Worklist = <<>> /\ stage = "up"
    /\ toScan' = TaintedPointers \ scanned
    /\ pc' = IF toScan' = {} THEN "check" ELSE "scan"
    /\ UNCHANGED <<input, taint, Worklist, KilledStores, maps, flags, stage,
                   cur, todo, scanned, report>>

\* Variants: only the numbers of functions are compared; any function counts
RoundAgainBySizes == before # <<FunctionsReturningTaint, ParamFuncs>>
RoundAgainIfAny == discovered \/ FunctionsReturningTaint # {}

\* The sets only grow, so their sizes differ when they do.
RoundAgain ==
    discovered \/ before # <<FunctionsReturningTaint, ParamFuncs>>

EndRound ==
    /\ pc = "check"
    /\ pc' = IF RoundAgain THEN "round" ELSE "report"
    /\ UNCHANGED <<input, taint, Worklist, KilledStores, maps, flags, stage,
                   cur, todo, toScan, scanned, report>>

-----------------------------------------------------------------------------
(* The statistics *)

Leveled == TaintedValues \cap DOMAIN ValueLevel
AtLevel(n) == {v \in Leveled : ValueLevel[v] = n}
InstsOf(f) == {i \in M.insts : M.func[i] = f}

\* The instructions of f from the first to the last of those at level n
Span(f, n) ==
    LET tainted == AtLevel(n) \cap InstsOf(f)
    IN {i \in InstsOf(f) : /\ \E j \in tainted : M.pos[j] <= M.pos[i]
                           /\ \E j \in tainted : M.pos[i] <= M.pos[j]}

Visited == {M.func[v] : v \in Leveled}

\* The functions with an instruction at the largest level and the span in
\* each; whole, the other functions visited.
SpansReport(max) ==
    LET top == {M.func[i] : i \in AtLevel(max) \cap M.insts}
    IN [level |-> max, top |-> top,
        spans |-> UNION {{f} \X Span(f, max) : f \in top},
        full |-> Visited \ top]

\* With arguments only at the largest level every function is reported whole.
ArgumentsReport(max) ==
    [level |-> max, top |-> {M.func[a] : a \in AtLevel(max)}, spans |-> {},
     full |-> Visited]

Report ==
    /\ pc = "report" /\ pc' = "done"
    /\ \/ Leveled = {} /\ UNCHANGED report
       \/ \E v \in Leveled :
            LET max == ValueLevel[v] IN
            /\ \A w \in Leveled : ValueLevel[w] <= max
            /\ report' = IF AtLevel(max) \cap M.insts # {} THEN SpansReport(max)
                         ELSE ArgumentsReport(max)
    /\ UNCHANGED <<input, taint, Worklist, KilledStores, maps, flags, stage,
                   cur, todo, toScan, scanned>>

Done == pc = "done" /\ UNCHANGED vars

Seed == SeedInstruction \/ SeedArgument \/ SeedDone
MainUser == PassToTarget \/ Return \/ StoreToGlobal \/ StoreToParam
                \/ StoreToLocal \/ OtherUse
Drain == TakeValue \/ MainUser \/ SkipTainted \/ UpwardUse \/ UsersDone
Scan == IdentifyKills \/ CollectPointers \/ TakePointer \/ ScanLoad
            \/ LoadsDone \/ ScanDone \/ MainDone
Round == BeginRound \/ TaintCall \/ CallersDone \/ PassThrough
            \/ TaintVariable \/ OtherArgument \/ ArgumentsDone \/ EndRound

Next == Seed \/ Drain \/ Scan \/ Round \/ Report \/ Done

\* The pass is one thread and never waits.
Spec == Init /\ [][Next]_vars /\ WF_vars(Next)
=============================================================================
