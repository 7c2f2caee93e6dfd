----------------------------- MODULE LocateConst -----------------------------
(***************************************************************************)
(* locate-const-in-ir.py, which writes the input.txt files of a tunable:   *)
(* it compiles a source file of the kernel, changes the definition of the  *)
(* constant in a header, compiles again and compares; and                  *)
(* build-with-wllvm.sh, which compiles what make thinks is out of date     *)
(* into the bitcode that the analysis reads.                               *)
(*                                                                         *)
(* Everything but the run in progress is a file, so a run that is killed   *)
(* leaves what it was doing to the next.  The text of a header, and of     *)
(* what is compiled from it, is the set of the constants whose definition  *)
(* is not the original one.  Time is counted in changes by sed: a file     *)
(* compiled after the n-th change is newer than a header changed then.     *)
(***************************************************************************)
EXTENDS Naturals, Sequences, SequencesExt

CONSTANTS Tunables, Headers, Sources,
          Consts,
          Versions,  \* of each tunable, the contents its mutation.toml may have:
                     \* sequences of [source, header, const]
          Hunks,     \* of each source file and constant, the number of the
                     \* instructions that the constant changes
          NoFile, Idle,
          MaxRuns, MaxCrashes, MaxEdits  \* bounds

Mutation == [source : Sources, header : Headers, const : Consts]

\* What is in a .bak, and a run that is on
Copies == [text : SUBSET Consts, mtime : Nat]
RunsOn == [tunable : Tunables, left : Seq(Mutation), next : Nat \ {0}, hunks : Nat,
           at : {"origin", "backup", "sed", "build", "restore", "diff", "emit"},
           failed : BOOLEAN]

ASSUME LocateAssumption ==
    /\ \A t \in Tunables : Versions[t] \subseteq Seq(Mutation)
    /\ \A t \in Tunables : Versions[t] # {} /\ <<>> \notin Versions[t]
    /\ Hunks \in [Sources -> [Consts -> Nat]]
    /\ NoFile \notin Copies /\ Idle \notin RunsOn
    /\ {MaxRuns, MaxCrashes, MaxEdits} \subseteq Nat

VARIABLES
    header, mtime,  \* the text of each header and the time of its last change
    bak,            \* the .bak of each header: NoFile or [text, mtime]
    obj,            \* the .o of each source file: NoFile or [text, time]
    vmlinux,        \* vmlinux-xk-dataset.bc: NoFile or the text of each source file
    toml,           \* the mutation.toml of each tunable
    inputs,         \* its input.txt files, by number
    run,            \* Idle, or [tunable, left, next, at, failed, hunks]
    origin, mutated,\* the .ll.origin and .ll.mutated of the mutation in hand
    last,           \* the last run of each tunable: [cfg, exit]
    torn,           \* the headers a killed run left changed
    seds, runs, crashes, edits

tree == <<header, mtime, bak, seds>>
lls == <<origin, mutated>>
counters == <<runs, crashes, edits>>
vars == <<tree, obj, vmlinux, toml, inputs, run, lls, last, torn, counters>>

Includes(s) ==
    {h \in Headers : \E t \in Tunables : \E cfg \in Versions[t] :
        \E n \in DOMAIN cfg : cfg[n].source = s /\ cfg[n].header = h}

\* What compiling a source file now would give
Text(s) == UNION {header[h] : h \in Includes(s)}

\* make keeps a .o that is no older than what it was compiled from.
UpToDate(s) == /\ obj[s] # NoFile
               /\ \A h \in Includes(s) : mtime[h] <= obj[s].time

NoInputs == <<>>

Init ==
    /\ header = [h \in Headers |-> {}] /\ mtime = [h \in Headers |-> 0]
    /\ bak = [h \in Headers |-> NoFile] /\ obj = [s \in Sources |-> NoFile]
    /\ vmlinux = NoFile
    /\ toml \in [Tunables -> UNION {Versions[t] : t \in Tunables}]
    /\ \A t \in Tunables : toml[t] \in Versions[t]
    /\ inputs = [t \in Tunables |-> NoInputs] /\ run = Idle
    /\ origin = {} /\ mutated = {}
    /\ last = [t \in Tunables |-> [cfg |-> toml[t], exit |-> "none"]]
    /\ torn = {}
    /\ seds = 0 /\ runs = 0 /\ crashes = 0 /\ edits = 0

-----------------------------------------------------------------------------
(* main and process_mutation *)

At(place) == run # Idle /\ run.at = place
Current == Head(run.left)

\* Variant: the inputs are counted from 0
FirstOfZero(t) == [tunable |-> t, left |-> toml[t], next |-> 0, at |-> "origin",
                   failed |-> FALSE, hunks |-> 0]

FirstOf(t) == [tunable |-> t, left |-> toml[t], next |-> 1, at |-> "origin",
               failed |-> FALSE, hunks |-> 0]

Exit(how) == run' = Idle /\ last' = [last EXCEPT ![run.tunable].exit = how]
Continue(place) == run' = [run EXCEPT !.at = place] /\ UNCHANGED last

\* Variant: the inputs of an earlier run stay
StartOver(t) ==
    /\ run = Idle /\ runs < MaxRuns /\ runs' = runs + 1
    /\ run' = FirstOf(t)
    /\ last' = [last EXCEPT ![t] = [cfg |-> toml[t], exit |-> "running"]]
    /\ UNCHANGED <<tree, obj, vmlinux, toml, inputs, lls, torn, crashes, edits>>

\* The inputs of an earlier run are removed.
Start(t) ==
    /\ run = Idle /\ runs < MaxRuns /\ runs' = runs + 1
    /\ run' = FirstOf(t)
    /\ last' = [last EXCEPT ![t] = [cfg |-> toml[t], exit |-> "running"]]
    /\ inputs' = [inputs EXCEPT ![t] = NoInputs]
    /\ UNCHANGED <<tree, obj, vmlinux, toml, lls, torn, crashes, edits>>

\* build_obj_to_ll: the .o is removed, made anew and disassembled.  Any of the
\* commands may fail.
Built == obj' = [obj EXCEPT ![Current.source] =
                    [text |-> Text(Current.source), time |-> seds]]
BuildFails == Built \/ obj' = [obj EXCEPT ![Current.source] = NoFile]

\* Variant: the .o is not removed, and make finds it newer than the headers
BuildOriginKept ==
    LET s == Current.source
        text == IF UpToDate(s) THEN obj[s].text ELSE Text(s) IN
    /\ At("origin")
    /\ \/ /\ obj' = [obj EXCEPT ![s] = [text |-> text, time |-> seds]]
          /\ origin' = text /\ Continue("backup")
       \/ BuildFails /\ Exit("error") /\ UNCHANGED origin
    /\ UNCHANGED <<tree, vmlinux, toml, inputs, mutated, torn, counters>>

BuildOrigin ==
    /\ At("origin")
    /\ \/ Built /\ origin' = Text(Current.source) /\ Continue("backup")
       \/ BuildFails /\ Exit("error") /\ UNCHANGED origin
    /\ UNCHANGED <<tree, vmlinux, toml, inputs, mutated, torn, counters>>

\* Variant: the copy is made of the header as sed leaves it
BackupLate ==
    LET h == Current.header IN
    /\ At("backup") /\ run' = [run EXCEPT !.at = "sed"]
    /\ bak' = [bak EXCEPT ![h] = [text |-> header[h] \cup {Current.const}, mtime |-> mtime[h]]]
    /\ UNCHANGED <<header, mtime, seds, obj, vmlinux, toml, inputs, lls, last, torn, counters>>

\* shutil.copy2 keeps the time of the header, and writes over an older .bak.
Backup ==
    LET h == Current.header IN
    /\ At("backup") /\ run' = [run EXCEPT !.at = "sed"]
    /\ bak' = [bak EXCEPT ![h] = [text |-> header[h], mtime |-> mtime[h]]]
    /\ UNCHANGED <<header, mtime, seds, obj, vmlinux, toml, inputs, lls, last, torn, counters>>

\* sed writes the header anew even if its pattern, the original definition,
\* matches nothing: because the toml is wrong, or a killed run has changed it
\* before.  "diff -q" then finds the header equal to its .bak.
Sed ==
    LET h == Current.header IN
    /\ At("sed") /\ seds' = seds + 1
    /\ \E matched \in SUBSET {Current.const} :
           header' = [header EXCEPT ![h] = @ \cup matched]
    /\ mtime' = [mtime EXCEPT ![h] = seds + 1]
    /\ run' = IF header'[h] = bak[h].text
              THEN [run EXCEPT !.at = "restore", !.failed = TRUE]
              ELSE [run EXCEPT !.at = "build"]
    /\ UNCHANGED <<bak, obj, vmlinux, toml, inputs, lls, last, torn, counters>>

\* Variant: an error leaves at once
BuildMutatedLeaving ==
    /\ At("build")
    /\ \/ Built /\ mutated' = Text(Current.source) /\ Continue("restore")
       \/ BuildFails /\ Exit("error") /\ UNCHANGED mutated
    /\ UNCHANGED <<tree, vmlinux, toml, inputs, origin, torn, counters>>

BuildMutated ==
    /\ At("build")
    /\ \/ /\ Built /\ mutated' = Text(Current.source)
          /\ run' = [run EXCEPT !.at = "restore"]
       \/ /\ BuildFails /\ UNCHANGED mutated
          /\ run' = [run EXCEPT !.at = "restore", !.failed = TRUE]
    /\ UNCHANGED <<tree, vmlinux, toml, inputs, origin, last, torn, counters>>

\* "finally": the .bak is moved over the header, with the time it had.
Restore ==
    LET h == Current.header IN
    /\ At("restore")
    /\ header' = [header EXCEPT ![h] = bak[h].text]
    /\ mtime' = [mtime EXCEPT ![h] = bak[h].mtime]
    /\ bak' = [bak EXCEPT ![h] = NoFile]
    /\ IF run.failed THEN Exit("error") ELSE Continue("diff")
    /\ UNCHANGED <<seds, obj, vmlinux, toml, inputs, lls, torn, counters>>

\* diff_ll and parse_diff: the changed instructions; none of them is an error.
Diff ==
    LET hunks == IF Current.const \in mutated \ origin
                 THEN Hunks[Current.source][Current.const] ELSE 0 IN
    /\ At("diff")
    /\ IF hunks = 0 THEN Exit("error")
       ELSE run' = [run EXCEPT !.at = "emit", !.hunks = hunks] /\ UNCHANGED last
    /\ UNCHANGED <<tree, obj, vmlinux, toml, inputs, lls, torn, counters>>

\* One input.txt for each; after the last the next mutation follows.
Emit ==
    LET input == [source |-> Current.source, const |-> Current.const, text |-> origin]
        files == inputs[run.tunable]
        next == [run EXCEPT !.next = @ + 1, !.hunks = @ - 1] IN
    /\ At("emit")
    /\ inputs' = [inputs EXCEPT ![run.tunable] =
           [n \in DOMAIN files \cup {run.next} |-> IF n = run.next THEN input ELSE files[n]]]
    /\ CASE run.hunks > 1 -> run' = next /\ UNCHANGED last
         [] run.hunks = 1 /\ Len(run.left) > 1 ->
                run' = [next EXCEPT !.left = Tail(@), !.at = "origin"] /\ UNCHANGED last
         [] OTHER -> Exit("ok")
    /\ UNCHANGED <<tree, obj, vmlinux, toml, lls, torn, counters>>

-----------------------------------------------------------------------------
(* Around it *)

\* The process is killed, and with it the "finally".
Crash ==
    /\ run # Idle /\ crashes < MaxCrashes /\ crashes' = crashes + 1
    /\ torn' = torn \cup {h \in Headers : header[h] # {}}
    /\ Exit("killed")
    /\ UNCHANGED <<tree, obj, vmlinux, toml, inputs, lls, runs, edits>>

EditToml(t) ==
    /\ edits < MaxEdits /\ edits' = edits + 1
    /\ \E cfg \in Versions[t] \ {toml[t]} : toml' = [toml EXCEPT ![t] = cfg]
    /\ UNCHANGED <<tree, obj, vmlinux, inputs, run, lls, last, torn, runs, crashes>>

\* build-with-wllvm.sh, while nobody has the tree: an existing bitcode is kept,
\* and so is every .o that make finds up to date.
BuildKernel ==
    /\ run = Idle /\ vmlinux = NoFile
    /\ obj' = [s \in Sources |-> IF UpToDate(s) THEN obj[s]
                                 ELSE [text |-> Text(s), time |-> seds]]
    /\ vmlinux' = [s \in Sources |-> obj'[s].text]
    /\ UNCHANGED <<tree, toml, inputs, run, lls, last, torn, counters>>

Next ==
    \/ \E t \in Tunables : Start(t) \/ EditToml(t)
    \/ BuildOrigin \/ Backup \/ Sed \/ BuildMutated \/ Restore \/ Diff \/ Emit
    \/ Crash \/ BuildKernel

Spec == Init /\ [][Next]_vars

-----------------------------------------------------------------------------
(* Properties *)

\* The type of every variable.
TypeOK ==
    /\ header \in [Headers -> SUBSET Consts] /\ mtime \in [Headers -> Nat]
    /\ bak \in [Headers -> Copies \cup {NoFile}]
    /\ obj \in [Sources -> [text : SUBSET Consts, time : Nat] \cup {NoFile}]
    /\ vmlinux \in [Sources -> SUBSET Consts] \cup {NoFile}
    /\ toml \in [Tunables -> Seq(Mutation)]
    /\ inputs \in [Tunables ->
           Seq([source : Sources, const : Consts, text : SUBSET Consts])]
    /\ run \in RunsOn \cup {Idle} /\ (run # Idle => run.left # <<>>)
    /\ origin \in SUBSET Consts /\ mutated \in SUBSET Consts
    /\ last \in [Tunables -> [cfg : Seq(Mutation),
                             exit : {"none", "running", "ok", "error", "killed"}]]
    /\ \A t \in Tunables : toml[t] \in Versions[t] /\ last[t].cfg \in Versions[t]
    /\ torn \subseteq Headers
    /\ {seds, runs, crashes, edits} \subseteq Nat

\* However a run ends short of being killed, and whatever run was killed on
\* other headers before, the kernel tree has its original headers again
\* ("finally" in process_mutation).
HeadersRestored ==
    run = Idle => \A h \in Headers \ torn : header[h] = {}

\* What an input.txt names is located in the original kernel: neither an earlier
\* mutation nor a .o that one left behind shows in the .ll.origin
\* (build_obj_to_ll removes the .o) unless a killed run left a header changed.
InputsOriginal ==
    \A t \in Tunables : \A n \in DOMAIN inputs[t] :
        Includes(inputs[t][n].source) \cap torn = {} => inputs[t][n].text = {}

\* The inputs that a mutation.toml asks for, in order
Expected(cfg) ==
    FlattenSeq([n \in DOMAIN cfg |->
        [k \in 1..Hunks[cfg[n].source][cfg[n].const] |->
            [source |-> cfg[n].source, const |-> cfg[n].const]]])

\* The numbered inputs of a tunable are those of the mutation.toml of its last
\* run and of no earlier one, without a gap and in its order, as far as the
\* run came; all of them once a run has ended well ("stale numbering otherwise").
InputsNumbered ==
    \A t \in Tunables :
        LET expected == Expected(last[t].cfg)
            named == [n \in DOMAIN inputs[t] |->
                        [source |-> inputs[t][n].source, const |-> inputs[t][n].const]] IN
        /\ last[t].exit # "none" => IsPrefix(named, expected)
        /\ last[t].exit = "ok" => named = expected

\* No step takes the last original copy of a header, the header itself or its
\* .bak, unless a killed run left the header changed: the copy is made before
\* sed and moved back, never written over.
HasOriginal(h) == header[h] = {} \/ (bak[h] # NoFile /\ bak[h].text = {})
OriginalKept ==
    [][\A h \in Headers \ torn : HasOriginal(h) => HasOriginal(h)']_vars

\* "Requires $LINUX_WLLVM to be configured (...; the build does not need to
\* have completed past `make olddefconfig`)": a kernel built after the inputs
\* is the original kernel, if no run was killed.
KernelOriginal ==
    (vmlinux # NoFile /\ torn = {}) => \A s \in Sources : vmlinux[s] = {}
=============================================================================
