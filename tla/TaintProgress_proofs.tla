------------------------ MODULE TaintProgress_proofs ------------------------
(***************************************************************************)
(* No step of TaintTracker is in vain: the measure behind its termination, *)
(* for every set of modules and inputs.                                    *)
(***************************************************************************)
EXTENDS TaintFixpoint_proofs

-----------------------------------------------------------------------------
(* The rounds *)

\* A round begins only with a reason to: in the main stage nothing has been
\* compared yet.
RoundWanted ==
    /\ stage = "main" => before = <<{}, {}>>
    /\ pc = "round" => RoundAgain

LEMMA RoundWantedStep ==
    ASSUME Inductive, RoundWanted, [Next]_vars
    PROVE  RoundWanted'
<1>1. CASE MainDone
  <2>1. /\ pc' = "round" => FunctionsReturningTaint # {} \/ FunctionsTaintingPointerParams # {}
        /\ pc' # "round" => stage' = stage
        /\ stage = "main" /\ pc' \in {"round", "report"} /\ UNCHANGED before
        /\ pc' = "round" => stage' = "up"
        /\ UNCHANGED <<FunctionsReturningTaint, FunctionsTaintingPointerParams>>
    BY <1>1 DEF MainDone, taint, flags
  <2>2. before = <<{}, {}>>
    BY <2>1 DEF RoundWanted
  <2>3. FunctionsTaintingPointerParams # {} => ParamFuncs # {}
    BY DEF ParamFuncs
  <2>4. pc' = "round" => <<{}, {}>> # <<FunctionsReturningTaint, ParamFuncs>>
    BY <2>1, <2>3
  <2>5. ParamFuncs' = ParamFuncs
    BY <2>1 DEF ParamFuncs
  <2> QED
    BY <2>1, <2>2, <2>4, <2>5 DEF RoundWanted, RoundAgain
<1>2. CASE EndRound
  <2>1. /\ pc = "check" /\ (pc' = "round" => RoundAgain)
        /\ UNCHANGED <<stage, before, discovered, FunctionsReturningTaint,
                       FunctionsTaintingPointerParams>>
    BY <1>2 DEF EndRound, taint, flags
  <2>2. stage = "up"
    BY <2>1 DEF Inductive, InHand
  <2> QED
    BY <2>1, <2>2 DEF RoundWanted, RoundAgain, ParamFuncs
<1>3. CASE BeginRound
  <2>1. pc = "round" /\ pc' = "callers" /\ UNCHANGED stage
    BY <1>3 DEF BeginRound
  <2>2. stage = "up"
    BY <2>1 DEF Inductive, InHand
  <2> QED
    BY <2>1, <2>2 DEF RoundWanted
<1>4. CASE CallersDone
  <2>1. pc' = "args" /\ UNCHANGED <<stage, before>>
    BY <1>4 DEF CallersDone, flags
  <2> QED
    BY <2>1 DEF RoundWanted
<1>5. CASE ~MainDone /\ ~BeginRound /\ ~CallersDone /\ ~EndRound
  <2>1. UNCHANGED <<stage, before>>
    BY <1>5, RoundElsewhere
  <2>2. CASE pc = "round"
    <3>1. UNCHANGED vars
      <4>1. ~Seed /\ ~Report
        BY <2>2 DEF Seed, SeedInstruction, SeedArgument, SeedDone, Report
      <4>2. ~Drain
        BY <2>2 DEF Drain, TakeValue, MainUser, PassToTarget, Return, StoreToGlobal,
           StoreToParam, StoreToLocal, OtherUse, SkipTainted, UpwardUse, UsersDone, User
      <4>3. ~Scan
        BY <2>2 DEF Scan, IdentifyKills, CollectPointers, TakePointer, ScanLoad,
           LoadsDone, ScanDone, MainDone
      <4>4. ~TaintCall /\ ~PassThrough /\ ~TaintVariable /\ ~OtherArgument /\ ~ArgumentsDone
        BY <2>2 DEF TaintCall, PassThrough, TaintVariable, OtherArgument, Argument,
           ArgumentsDone
      <4> QED
        BY <1>5, <4>1, <4>2, <4>3, <4>4 DEF Next, Round, Done
    <3> QED
      BY <3>1 DEF vars, taint, flags, control, RoundWanted, RoundAgain, ParamFuncs
  <2>3. CASE pc # "round"
    <3>1. pc' # "round"
      BY <1>5, <2>3, RoundElsewhere DEF Inductive, TypeOK, ControlOK
    <3> QED
      BY <2>1, <3>1 DEF RoundWanted
  <2> QED
    BY <2>2, <2>3
<1> QED
  BY <1>1, <1>2, <1>3, <1>4, <1>5

-----------------------------------------------------------------------------
(* The steps of the loops over todo *)

LEMMA SameRounds ==
    ASSUME taint' = taint, UNCHANGED <<before, discovered>>
    PROVE  RoundAgain' = RoundAgain
BY DEF taint, RoundAgain, ParamFuncs

\* Such a step takes one thing from todo; what else it may change it changes
\* with something new on the record.
TakesOne ==
    /\ \E x \in todo : todo' = todo \ {x}
    /\ UNCHANGED <<stage, pc, scanned, before>>
    /\ taint' = taint => UNCHANGED <<Worklist, changed, discovered>>

LEMMA TakesOneDescends ==
    ASSUME Inductive, [Next]_vars, TakesOne
    PROVE  Descends
<1>1. Grows
  BY StepInductive
<1>2. CASE taint' = taint
  <2>1. UNCHANGED <<stage, pc, scanned, Worklist, changed>> /\ RoundAgain' = RoundAgain
    BY <1>2, SameRounds DEF TakesOne
  <2>2. todo' # todo /\ todo' \subseteq todo
    BY DEF TakesOne
  <2> QED
    BY <1>2, <2>1, <2>2 DEF Descends
<1> QED
  BY <1>1, <1>2 DEF Descends

LEMMA TaintRecords ==
    ASSUME NEW v, v \notin TaintedValues, Taint(v)
    PROVE  taint' # taint
BY DEF Taint, taint

LEMMA SeedTakesOne ==
    ASSUME Inductive, SeedInstruction \/ SeedArgument
    PROVE  TakesOne
<1>1. CASE SeedInstruction
  <2>1. PICK x \in todo : pc = "seed" /\ x[2] = 0 /\ todo' = todo \ {x} /\ Taint(x[1])
    BY <1>1 DEF SeedInstruction
  <2>2. x[1] \notin TaintedValues
    BY <2>1 DEF Inductive, InHand
  <2>3. UNCHANGED <<stage, pc, scanned, before>>
    BY <1>1 DEF SeedInstruction, flags
  <2> QED
    BY <2>1, <2>2, <2>3, TaintRecords DEF TakesOne
<1>2. CASE SeedArgument
  <2>1. PICK x \in todo :
          /\ todo' = todo \ {x}
          /\ TaintParam(M.params[CalledOperand(M, x[1])][x[2]], CalledOperand(M, x[1]),
                        getLevel(x[1]))
    BY <1>2 DEF SeedArgument
  <2>2. UNCHANGED <<stage, pc, scanned, before, changed, discovered>>
    BY <1>2 DEF SeedArgument, flags
  <2>3. taint' = taint => UNCHANGED Worklist
    BY <2>1, TaintRecords DEF TaintParam
  <2> QED
    BY <2>1, <2>2, <2>3 DEF TakesOne
<1> QED
  BY <1>1, <1>2

LEMMA MainUserTakesOne ==
    ASSUME Inductive, MainUser
    PROVE  TakesOne
<1>1. PICK y \in todo : User(y, "main")
  BY DEF MainUser, PassToTarget, Return, StoreToGlobal, StoreToParam, StoreToLocal, OtherUse
<1>2. (\E x \in todo : todo' = todo \ {x}) /\ UNCHANGED <<stage, pc, scanned, before>>
  BY <1>1 DEF User
<1>3. UNCHANGED discovered
  BY DEF MainUser, PassToTarget, Return, StoreToGlobal, StoreToParam, StoreToLocal, OtherUse
<1>4. taint' = taint => UNCHANGED <<Worklist, changed>>
  <2>1. CASE PassToTarget
    <3>1. \/ UNCHANGED <<Worklist, changed>>
          \/ \E param, f, level : /\ TaintParam(param, f, level)
                                  /\ changed' = (changed \/ param \notin TaintedValues)
      BY <2>1, Zenon DEF PassToTarget
    <3>2. CASE \E param, f, level : /\ TaintParam(param, f, level)
                                    /\ changed' = (changed \/ param \notin TaintedValues)
      <4>1. PICK param, f, level : /\ TaintParam(param, f, level)
                                   /\ changed' = (changed \/ param \notin TaintedValues)
        BY <3>2
      <4>2. CASE param \in TaintedValues
        <5>1. changed \in BOOLEAN
          BY DEF Inductive, TypeOK, ControlOK
        <5> QED
          BY <4>1, <4>2, <5>1 DEF TaintParam
      <4>3. CASE param \notin TaintedValues
        BY <4>1, <4>3, TaintRecords DEF TaintParam
      <4> QED
        BY <4>2, <4>3
    <3> QED
      BY <3>1, <3>2
  <2>2. CASE StoreToLocal
    <3>1. PICK x \in todo :
            /\ TaintPointer(StorePointer(M, x[1]), x[1])
            /\ changed' = (changed \/ StorePointer(M, x[1]) \notin TaintedPointers)
            /\ Propagate(x[1])
      BY <2>2 DEF StoreToLocal
    <3>2. StorePointer(M, x[1]) \notin TaintedPointers => taint' # taint
      BY <3>1 DEF TaintPointer, taint
    <3>3. taint' = taint => UNCHANGED Worklist
      BY <3>1, TaintRecords DEF Propagate
    <3>4. changed \in BOOLEAN
      BY DEF Inductive, TypeOK, ControlOK
    <3> QED
      BY <3>1, <3>2, <3>3, <3>4
  <2>3. CASE OtherUse
    <3>1. PICK x \in todo : Propagate(x[1]) /\ UNCHANGED changed
      BY <2>3 DEF OtherUse
    <3> QED
      BY <3>1, TaintRecords DEF Propagate
  <2>4. CASE Return \/ StoreToGlobal \/ StoreToParam
    BY <2>4 DEF Return, StoreToGlobal, StoreToParam
  <2> QED
    BY <2>1, <2>2, <2>3, <2>4 DEF MainUser
<1> QED
  BY <1>2, <1>3, <1>4 DEF TakesOne

LEMMA UpwardUserTakesOne ==
    ASSUME Inductive, SkipTainted \/ UpwardUse
    PROVE  TakesOne
<1>1. PICK y \in todo : User(y, "up")
  BY DEF SkipTainted, UpwardUse
<1>2. (\E x \in todo : todo' = todo \ {x}) /\ UNCHANGED <<stage, pc, scanned, before>>
  BY <1>1 DEF User
<1>3. CASE SkipTainted
  BY <1>2, <1>3 DEF SkipTainted, TakesOne
<1>4. CASE UpwardUse
  <2>1. PICK x \in todo : x[1] \notin TaintedValues /\ Taint(x[1])
    BY <1>4 DEF UpwardUse
  <2> QED
    BY <1>2, <2>1, TaintRecords DEF TakesOne
<1> QED
  BY <1>3, <1>4

LEMMA ScanLoadTakesOne ==
    ASSUME ScanLoad
    PROVE  TakesOne
<1>1. PICK x \in todo :
        /\ todo' = todo \ {x}
        /\ IF x[1] \in TaintedValues \/ IsSkipped(x[1])
           THEN UNCHANGED <<TaintedValues, Worklist, changed>>
           ELSE Taint(x[1]) /\ changed' = TRUE
  BY DEF ScanLoad
<1>2. UNCHANGED <<stage, pc, scanned, before, discovered>>
  BY DEF ScanLoad
<1> QED
  BY <1>1, <1>2, TaintRecords DEF TakesOne

LEMMA RoundTakesOne ==
    ASSUME TaintCall \/ PassThrough \/ TaintVariable \/ OtherArgument
    PROVE  TakesOne
<1>1. CASE TaintCall
  <2>1. PICK x \in todo :
          /\ todo' = todo \ {x}
          /\ UNCHANGED Worklist \/ (x[1] \notin TaintedValues /\ Taint(x[1]))
    BY <1>1 DEF TaintCall
  <2>2. UNCHANGED <<stage, pc, scanned, flags>>
    BY <1>1 DEF TaintCall
  <2> QED
    BY <2>1, <2>2, TaintRecords DEF TakesOne, flags
<1>2. CASE PassThrough \/ TaintVariable \/ OtherArgument
  <2>1. PICK x \in todo : Argument(x)
    BY <1>2 DEF PassThrough, TaintVariable, OtherArgument
  <2>2. /\ \E y \in todo : todo' = todo \ {y}
        /\ UNCHANGED <<stage, pc, scanned, before, Worklist, changed>>
    BY <2>1 DEF Argument
  <2>3. taint' = taint => UNCHANGED discovered
    BY <1>2 DEF PassThrough, TaintVariable, OtherArgument, taint
  <2> QED
    BY <2>2, <2>3 DEF TakesOne
<1> QED
  BY <1>1, <1>2

-----------------------------------------------------------------------------
(* The scans *)

\* No pointer is given to a scan that has been scanned before.
ScansOnce == toScan \cap scanned = {}

LEMMA ScansOnceStep ==
    ASSUME ScansOnce, [Next]_vars
    PROVE  ScansOnce'
<1>1. CASE IdentifyKills \/ CollectPointers
  BY <1>1 DEF IdentifyKills, CollectPointers, taint, ScansOnce
<1>2. CASE TakePointer
  <2>1. PICK p \in toScan : toScan' = toScan \ {p} /\ scanned' = scanned \cup {p}
    BY <1>2 DEF TakePointer
  <2> QED
    BY <2>1 DEF ScansOnce
<1>3. CASE MainDone
  <2>1. UNCHANGED toScan /\ (scanned' = {} \/ UNCHANGED scanned)
    BY <1>3 DEF MainDone
  <2> QED
    BY <2>1 DEF ScansOnce
<1>4. CASE UNCHANGED <<toScan, scanned>>
  BY <1>4 DEF ScansOnce
<1>5. CASE Seed
  BY <1>4, <1>5 DEF Seed, SeedInstruction, SeedArgument, SeedDone
<1>6. CASE Drain
  BY <1>4, <1>6 DEF Drain, TakeValue, MainUser, PassToTarget, Return, StoreToGlobal,
     StoreToParam, StoreToLocal, OtherUse, SkipTainted, UpwardUse, UsersDone, User
<1>7. CASE ScanLoad \/ LoadsDone \/ ScanDone
  BY <1>4, <1>7 DEF ScanLoad, LoadsDone, ScanDone
<1>8. CASE Round
  BY <1>4, <1>8 DEF Round, BeginRound, TaintCall, CallersDone, PassThrough,
     TaintVariable, OtherArgument, Argument, ArgumentsDone, EndRound
<1>9. CASE Report \/ UNCHANGED vars
  BY <1>4, <1>9 DEF Report, vars, control
<1> QED
  BY <1>1, <1>2, <1>3, <1>5, <1>6, <1>7, <1>8, <1>9 DEF Next, Scan, Done

-----------------------------------------------------------------------------
(* The steps between the loops *)

ScanLast == stage = "main" \/ ~(TaintedPointers \subseteq scanned)

\* The ways from one part of the program to a later one
Onward ==
    \/ pc = "seed" /\ pc' = "drain"
    \/ pc = "users" /\ pc' = "drain"
    \/ pc = "drain" /\ pc' = "scan" /\ ScanLast
    \/ pc = "drain" /\ pc' = "check"
    \/ pc = "loads" /\ pc' = "scan"
    \/ pc = "scan" /\ pc' = "drain" /\ ~ScanLast
    \/ pc = "scan" /\ pc' = "report"
    \/ pc = "callers" /\ pc' = "args"
    \/ pc = "args" /\ pc' = "drain"
    \/ pc = "check" /\ pc' \in {"round", "report"}
    \/ pc = "report" /\ pc' = "done"

LEMMA StepsLeftFacts ==
    /\ pc = "seed" => StepsLeft = 10
    /\ pc = "callers" => StepsLeft = 9
    /\ pc = "args" => StepsLeft = 8
    /\ pc = "users" => StepsLeft = IF ScanLast THEN 7 ELSE 5
    /\ pc = "drain" => StepsLeft = IF ScanLast THEN 6 ELSE 4
    /\ pc = "loads" => StepsLeft = IF ScanLast THEN 5 ELSE 7
    /\ pc = "scan" => StepsLeft = IF ScanLast THEN 4 ELSE 6
    /\ pc = "check" => StepsLeft = 3
    /\ pc = "round" => StepsLeft = 2
    /\ pc = "report" => StepsLeft = 1
    /\ pc = "done" => StepsLeft = 0
BY DEF StepsLeft, ScanLast

LEMMA StepsLeftAfter ==
    ASSUME UNCHANGED <<TaintedPointers, scanned, stage>>
    PROVE  /\ pc' = "args" => StepsLeft' = 8
           /\ pc' = "drain" => StepsLeft' = IF ScanLast THEN 6 ELSE 4
           /\ pc' = "scan" => StepsLeft' = IF ScanLast THEN 4 ELSE 6
           /\ pc' = "check" => StepsLeft' = 3
           /\ pc' = "round" => StepsLeft' = 2
           /\ pc' = "report" => StepsLeft' = 1
           /\ pc' = "done" => StepsLeft' = 0
BY DEF StepsLeft, ScanLast

LEMMA OnwardDescends ==
    ASSUME Onward, UNCHANGED <<taint, stage, flags, scanned, Worklist>>
    PROVE  Descends
<1>1. /\ UNCHANGED <<taint, TaintedPointers, changed, before, discovered>>
      /\ RoundAgain' = RoundAgain
  BY SameRounds DEF taint, flags
<1>2. StepsLeft' < StepsLeft
  BY <1>1, StepsLeftFacts, StepsLeftAfter DEF Onward
<1> QED
  BY <1>1, <1>2 DEF Descends

LEMMA TakeDescends ==
    ASSUME Inductive, ScansOnce, TakeValue \/ TakePointer
    PROVE  Descends
<1>1. /\ UNCHANGED <<taint, stage, changed, before, discovered>>
      /\ RoundAgain' = RoundAgain
  BY SameRounds DEF TakeValue, TakePointer, flags
<1>2. CASE TakeValue
  <2>1. Worklist # <<>> /\ Worklist' = SubSeq(Worklist, 1, Len(Worklist) - 1)
        /\ UNCHANGED scanned
    BY <1>2 DEF TakeValue
  <2>2. Worklist \in Seq(TaintedValues)
    BY DEF Inductive, TypeOK, DataOK
  <2>3. Len(Worklist') < Len(Worklist)
    BY <2>1, <2>2
  <2> QED
    BY <1>1, <2>1, <2>3 DEF Descends
<1>3. CASE TakePointer
  <2>1. PICK p \in toScan : scanned' = scanned \cup {p}
    BY <1>3 DEF TakePointer
  <2>2. scanned' # scanned /\ scanned \subseteq scanned'
    BY <2>1 DEF ScansOnce
  <2> QED
    BY <1>1, <2>2 DEF Descends
<1> QED
  BY <1>2, <1>3

LEMMA ScanDoneDescends ==
    ASSUME Inductive, ScanState, ScanDone
    PROVE  Descends
<1>1. /\ UNCHANGED <<taint, Worklist, stage, scanned, before, discovered>>
      /\ pc = "scan" /\ pc' = "drain" /\ toScan = {} /\ changed' = FALSE
      /\ stage = "up" \/ changed
  BY DEF ScanDone, Again
<1>2. RoundAgain' = RoundAgain /\ changed \in BOOLEAN
  BY <1>1, SameRounds DEF Inductive, TypeOK, ControlOK
<1>3. CASE changed
  BY <1>1, <1>2, <1>3 DEF Descends, CalmsDown
<1>4. CASE ~changed
  <2>1. ~ScanLast
    BY <1>1, <1>4 DEF ScanState, ScanLast
  <2>2. Onward /\ UNCHANGED flags
    BY <1>1, <1>2, <1>4, <2>1 DEF Onward, flags
  <2> QED
    BY <1>1, <2>2, OnwardDescends
<1> QED
  BY <1>3, <1>4

LEMMA MainDoneDescends ==
    ASSUME MainDone
    PROVE  Descends
<1>1. /\ UNCHANGED <<taint, flags, Worklist>> /\ stage = "main" /\ pc = "scan"
      /\ \/ stage' = "up"
         \/ pc' = "report" /\ UNCHANGED <<stage, scanned>>
  BY DEF MainDone
<1>2. CASE stage' = "up"
  BY <1>1, <1>2 DEF Descends
<1>3. CASE stage' # "up"
  BY <1>1, <1>3, OnwardDescends DEF Onward
<1> QED
  BY <1>2, <1>3

LEMMA BeginRoundDescends ==
    ASSUME Inductive, RoundWanted, BeginRound
    PROVE  Descends
<1>1. /\ UNCHANGED <<taint, changed, stage>> /\ pc = "round" /\ discovered' = FALSE
      /\ before' = <<FunctionsReturningTaint, ParamFuncs>>
  BY DEF BeginRound
<1>2. RoundAgain
  BY <1>1 DEF RoundWanted
<1>3. ~RoundAgain'
  BY <1>1 DEF RoundAgain, ParamFuncs, taint
<1> QED
  BY <1>1, <1>2, <1>3 DEF Descends, CalmsDown

LEMMA OnwardSteps ==
    ASSUME Inductive,
           \/ SeedDone \/ UsersDone \/ IdentifyKills \/ CollectPointers \/ LoadsDone
           \/ CallersDone \/ ArgumentsDone \/ EndRound \/ Report
    PROVE  Descends
<1>1. CASE SeedDone \/ UsersDone \/ LoadsDone \/ ArgumentsDone
  BY <1>1, OnwardDescends DEF SeedDone, UsersDone, LoadsDone, ArgumentsDone, Onward
<1>2. CASE IdentifyKills
  BY <1>2, OnwardDescends DEF IdentifyKills, Onward, ScanLast
<1>3. CASE CollectPointers
  <2>1. /\ pc = "drain" /\ toScan' = TaintedPointers \ scanned
        /\ pc' = IF toScan' = {} THEN "check" ELSE "scan"
        /\ UNCHANGED <<taint, Worklist, flags, stage, scanned>>
    BY <1>3 DEF CollectPointers
  <2>2. toScan' # {} => ScanLast
    BY <2>1 DEF ScanLast
  <2> QED
    BY <2>1, <2>2, OnwardDescends DEF Onward
<1>4. CASE CallersDone \/ EndRound \/ Report
  BY <1>4, OnwardDescends DEF CallersDone, EndRound, Report, Onward
<1> QED
  BY <1>1, <1>2, <1>3, <1>4

-----------------------------------------------------------------------------
(* All steps *)

LEMMA StepDescends ==
    ASSUME Inductive, ScanState, RoundWanted, ScansOnce, Next, vars' # vars
    PROVE  Descends
<1>1. CASE Seed
  BY <1>1, SeedTakesOne, TakesOneDescends, OnwardSteps DEF Seed
<1>2. CASE Drain
  BY <1>2, MainUserTakesOne, UpwardUserTakesOne, TakesOneDescends, TakeDescends,
     OnwardSteps DEF Drain
<1>3. CASE Scan
  BY <1>3, ScanLoadTakesOne, TakesOneDescends, TakeDescends, ScanDoneDescends,
     MainDoneDescends, OnwardSteps DEF Scan
<1>4. CASE Round
  BY <1>4, RoundTakesOne, TakesOneDescends, BeginRoundDescends, OnwardSteps DEF Round
<1>5. CASE Report
  BY <1>5, OnwardSteps
<1>6. ~Done
  BY DEF Done
<1> QED
  BY <1>1, <1>2, <1>3, <1>4, <1>5, <1>6 DEF Next

\* The loops of the pass get somewhere with every step, in every module and for
\* every order of addresses: a fixpoint is reached (945-1236), and the rounds
\* (1248-1578) end, because what they record, what they have scanned and the
\* worklist leave no room to go round in vain.
THEOREM NothingIsInVain == Spec => NeverInVain
<1>1. Init => RoundWanted /\ ScansOnce
  BY DEF Init, RoundWanted, ScansOnce
<1>2. /\ Inductive /\ RoundWanted /\ [Next]_vars => RoundWanted'
      /\ ScansOnce /\ [Next]_vars => ScansOnce'
  BY RoundWantedStep, ScansOnceStep
<1>3. Inductive /\ ScanState /\ RoundWanted /\ ScansOnce /\ [Next]_vars => [Descends]_vars
  BY StepDescends
<1> QED
  BY <1>1, <1>2, <1>3, AlwaysInductive, ScanStateHolds, PTL DEF Spec, NeverInVain
=============================================================================
