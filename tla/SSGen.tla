-------------------------------- MODULE SSGen --------------------------------
(***************************************************************************)
(* ss-gen.sh: for each input.txt of a tunable the analysis (ss-analysis.sh *)
(* into output.txt) and the mapping (ir_to_assembly.py into                *)
(* func_offset.json), one after the other; an input that fails does not    *)
(* keep the rest from being tried.  Several drivers, each with the inputs  *)
(* of a tunable of its own, and ir_to_assembly.py --generate-cache share   *)
(* the symbol cache.  Either file of an input is what some run of its      *)
(* driver wrote, whole or not.                                             *)
(***************************************************************************)
EXTENDS SymbolCache

CONSTANTS Drivers, Generators,
          Inputs,               \* the inputs of each driver, a sequence
          MaxStarts, MaxKills   \* bounds

AllInputs == UNION {{Inputs[d][n] : n \in DOMAIN Inputs[d]} : d \in Drivers}

ASSUME SSGenAssumption ==
    /\ Processes = Drivers \cup Generators /\ Drivers \cap Generators = {}
    /\ \A d \in Drivers : Inputs[d] \in Seq(AllInputs) /\ Inputs[d] # <<>>
    /\ \A d, e \in Drivers : \A m \in DOMAIN Inputs[d], n \in DOMAIN Inputs[e] :
           Inputs[d][m] = Inputs[e][n] => d = e /\ m = n
    /\ {MaxStarts, MaxKills} \subseteq Nat
    /\ NoFile \notin [by : Nat, whole : BOOLEAN]

VARIABLES
    driver,       \* of each driver [run, at, step, rc]
    starts,       \* the processes started so far; its number names a run
    output, json, \* of each input NoFile or [by, whole], "by" a run
    kills

filesVars == <<output, json>>
vars == <<cacheVars, driver, starts, filesVars, kills>>

Busy == {"shell", "opt", "load", "map", "dump"}
Idle == {"off", "ended", "killed"}

Init ==
    /\ CacheInit
    /\ driver = [d \in Drivers |-> [run |-> 0, at |-> 1, step |-> "off", rc |-> 0]]
    /\ starts = 0
    /\ output = [i \in AllInputs |-> NoFile] /\ json = [i \in AllInputs |-> NoFile]
    /\ kills = 0

At(d, step) == driver[d].step = step
Input(d) == Inputs[d][driver[d].at]
Goto(d, step) == driver' = [driver EXCEPT ![d].step = step]

StartDriver(d) ==
    /\ driver[d].step \in Idle
    /\ starts < MaxStarts /\ starts' = starts + 1
    /\ driver' = [driver EXCEPT ![d] = [run |-> starts + 1, at |-> 1, step |-> "shell", rc |-> 0]]
    /\ UNCHANGED <<cacheVars, filesVars, kills>>

\* Variant: the code of the last input
EndInputLast(d, rc) ==
    driver' = [driver EXCEPT ![d] =
        [run |-> @.run,
         at |-> IF @.at < Len(Inputs[d]) THEN @.at + 1 ELSE @.at,
         step |-> IF @.at < Len(Inputs[d]) THEN "shell" ELSE "ended",
         rc |-> rc]]

\* Variant: an input that failed is tried again
EndInputRetry(d, rc) ==
    driver' = [driver EXCEPT ![d] =
        [run |-> @.run,
         at |-> IF rc = 0 /\ @.at < Len(Inputs[d]) THEN @.at + 1 ELSE @.at,
         step |-> IF rc # 0 \/ @.at < Len(Inputs[d]) THEN "shell" ELSE "ended",
         rc |-> @.rc]]

\* Variant: one input too many
EndInputPast(d, rc) ==
    driver' = [driver EXCEPT ![d] =
        [run |-> @.run,
         at |-> IF @.at <= Len(Inputs[d]) THEN @.at + 1 ELSE @.at,
         step |-> IF @.at <= Len(Inputs[d]) THEN "shell" ELSE "ended",
         rc |-> IF rc # 0 THEN rc ELSE @.rc]]

\* run_one "$input" || rc=$?, and the next input or exit "$rc"
EndInput(d, rc) ==
    driver' = [driver EXCEPT ![d] =
        [run |-> @.run,
         at |-> IF @.at < Len(Inputs[d]) THEN @.at + 1 ELSE @.at,
         step |-> IF @.at < Len(Inputs[d]) THEN "shell" ELSE "ended",
         rc |-> IF rc # 0 THEN rc ELSE @.rc]]

-----------------------------------------------------------------------------
(* Stage 1 *)

\* The redirection makes the file empty before ss-analysis.sh runs.
Stage1(d) ==
    /\ At(d, "shell") /\ Goto(d, "opt")
    /\ output' = [output EXCEPT ![Input(d)] = [by |-> driver[d].run, whole |-> FALSE]]
    /\ UNCHANGED <<cacheVars, starts, json, kills>>

\* opt ends well, and ir_to_assembly.py starts.
Stage1Ok(d) ==
    /\ At(d, "opt") /\ Goto(d, "load") /\ StartLoad(d, "load")
    /\ output' = [output EXCEPT ![Input(d)].whole = TRUE]
    /\ UNCHANGED <<starts, json, kills>>

\* Variant: the output of a stage that failed stays
Stage1FailsKept(d, rc) ==
    /\ At(d, "opt") /\ EndInput(d, rc)
    /\ UNCHANGED <<cacheVars, starts, output, json, kills>>

\* The output is removed, the json of an earlier run is not.
Stage1Fails(d, rc) ==
    /\ At(d, "opt") /\ EndInput(d, rc)
    /\ output' = [output EXCEPT ![Input(d)] = NoFile]
    /\ UNCHANGED <<cacheVars, starts, json, kills>>

-----------------------------------------------------------------------------
(* Stage 2 *)

Load(d) ==
    /\ At(d, "load") /\ LoadStep(d)
    /\ UNCHANGED <<driver, starts, filesVars, kills>>

\* sys.exit(1), or an exception of subprocess.run
LoadFails(d) ==
    /\ At(d, "load") /\ proc[d] = Off /\ outcome[d] = "error" /\ EndInput(d, 1)
    /\ UNCHANGED <<cacheVars, starts, filesVars, kills>>

LoadOk(d) ==
    /\ At(d, "load") /\ proc[d] = Off /\ outcome[d] = "ok" /\ Goto(d, "map")
    /\ UNCHANGED <<cacheVars, starts, filesVars, kills>>

\* An assertion on the report fails: the json is not touched.
MapFails(d) ==
    /\ At(d, "map") /\ EndInput(d, 1)
    /\ UNCHANGED <<cacheVars, starts, filesVars, kills>>

\* write_func_offset_json opens the json.
Map(d) ==
    /\ At(d, "map") /\ Goto(d, "dump")
    /\ json' = [json EXCEPT ![Input(d)] = [by |-> driver[d].run, whole |-> FALSE]]
    /\ UNCHANGED <<cacheVars, starts, output, kills>>

\* It is written: a report with an error gives an empty list, and exit 0 too.
Dump(d) ==
    /\ At(d, "dump") /\ EndInput(d, 0)
    /\ json' = [json EXCEPT ![Input(d)].whole = TRUE]
    /\ UNCHANGED <<cacheVars, starts, output, kills>>

-----------------------------------------------------------------------------
(* Around it *)

\* ir_to_assembly.py --generate-cache makes every file anew.
Generate(g) ==
    /\ starts < MaxStarts /\ starts' = starts + 1
    /\ StartLoad(g, "generate")
    /\ UNCHANGED <<driver, filesVars, kills>>

GenerateStep(g) ==
    LoadStep(g) /\ UNCHANGED <<driver, starts, filesVars, kills>>

\* The driver is killed with all it has started.
KillDriver(d) ==
    /\ driver[d].step \in Busy /\ kills < MaxKills /\ kills' = kills + 1
    /\ Goto(d, "killed") /\ KillLoad(d)
    /\ UNCHANGED <<starts, filesVars>>

\* Only ir_to_assembly.py is: the driver goes on.
KillStage2(d) ==
    /\ driver[d].step \in {"load", "map", "dump"} /\ kills < MaxKills /\ kills' = kills + 1
    /\ EndInput(d, 137) /\ KillLoad(d)
    /\ UNCHANGED <<starts, filesVars>>

KillGenerate(g) ==
    /\ proc[g] # Off /\ kills < MaxKills /\ kills' = kills + 1
    /\ KillLoad(g)
    /\ UNCHANGED <<driver, starts, filesVars>>

DriverStep(d) ==
    \/ Stage1(d) \/ Stage1Fails(d, 124)
    \/ Load(d) \/ LoadFails(d) \/ LoadOk(d) \/ MapFails(d) \/ Map(d) \/ Dump(d)

Next ==
    \/ \E d \in Drivers : \/ StartDriver(d) \/ DriverStep(d)
                          \/ Stage1Ok(d) \/ Stage1Fails(d, 1)
                          \/ KillDriver(d) \/ KillStage2(d)
    \/ \E g \in Generators : Generate(g) \/ GenerateStep(g) \/ KillGenerate(g)

\* opt may run for ever; --timeout ends it (124), and the scripts go on.
Spec == Init /\ [][Next]_vars /\ \A d \in Drivers : WF_vars(DriverStep(d))

-----------------------------------------------------------------------------
(* Properties *)

FileType == [by : Nat, whole : BOOLEAN]

\* The type of every variable.
TypeOK ==
    /\ CacheTypeOK
    /\ driver \in [Drivers -> [run : Nat, at : Nat, step : Busy \cup Idle, rc : {0, 1, 124, 137}]]
    /\ \A d \in Drivers : driver[d].at \in DOMAIN Inputs[d]
    /\ starts \in Nat /\ kills \in Nat
    /\ output \in [AllInputs -> {NoFile} \cup FileType]
    /\ json \in [AllInputs -> {NoFile} \cup FileType]

InputsOf(d) == {Inputs[d][n] : n \in DOMAIN Inputs[d]}

\* The output and the json of input i are what this run of d wrote, in full.
Fresh(d, i) ==
    /\ output[i] = [by |-> driver[d].run, whole |-> TRUE]
    /\ json[i] = [by |-> driver[d].run, whole |-> TRUE]

\* The exit code of ss-gen.sh tells of every input, not of the last: 0 means that
\* each has an output and a json of this run, and another code that one has not,
\* whose json is an earlier run's, missing or short.
ExitTells ==
    \A d \in Drivers : At(d, "ended") =>
        (driver[d].rc = 0 <=> \A i \in InputsOf(d) : Fresh(d, i))

\* An output.txt that a driver leaves when it ends is a whole report of this run:
\* neither what the pass had printed when it failed or was stopped, nor the
\* report of an earlier run, which the next reader would take for its result.
OutputsWhole ==
    \A d \in Drivers : At(d, "ended") =>
        \A i \in InputsOf(d) :
            output[i] # NoFile => output[i] = [by |-> driver[d].run, whole |-> TRUE]

\* Process p is nearer the end of its loads: a file further, or further in one.
LoadsOn(p) ==
    LET before == [none |-> 0, check |-> 1, tool |-> 2, write |-> 3]
        was == proc[p]
        is == proc'[p]
    IN \/ is = Off \/ was.at < is.at
       \/ is.at = was.at /\ before[was.step] < before[is.step]
       \/ /\ is.at = was.at /\ is.step = was.step
          /\ was.pos < is.pos /\ is.pos <= Chunks + 1

\* The run of d is nearer its end: an input further, or further in the two
\* stages of one.
GoesOn(d) ==
    LET before == [shell |-> 0, opt |-> 1, load |-> 2, map |-> 3, dump |-> 4]
        was == driver[d]
        is == driver'[d]
    IN \/ is.step \in Idle
       \/ /\ is.run = was.run /\ is.step \in Busy
          /\ \/ was.at < is.at
             \/ is.at = was.at /\ before[was.step] < before[is.step]
             \/ is = was /\ LoadsOn(d)

\* A driver tries each input once, and each stage of it once, whatever fails, is
\* killed or finds the cache in use: a step of it brings its end nearer, and
\* nothing another process does sends it back.
NeverBack ==
    [][\A d \in Drivers :
          driver[d].step \in Busy =>
              (driver'[d] = driver[d] /\ proc'[d] = proc[d]) \/ GoesOn(d)]_vars

\* ss-gen.sh ends, unless it is killed.
DriverEnds == \A d \in Drivers : driver[d].step \in Busy ~> driver[d].step \in Idle
=============================================================================
