# A verification of linux-analysis in TLA+

linux-analysis derives the "safe spans" of kernel tunables: an LLVM pass
follows a constant through the bitcode of the kernel, a script translates the
span of instructions it reached to offsets in the binary, and drivers run the
two for one input or for the whole dataset.  The inputs themselves are found by
a script that changes a constant in a kernel header, compiles, and compares.
The modules here model the pass, the search for the inputs, both drivers and the
symbol cache they share, check them with TLC on small instances, and prove with
TLAPS, for every instance, every safety property that TLC finds to hold.

## The system

| Component | State | Operations | What is hard |
|---|---|---|---|
| `passes/TaintTrackerPass` | tainted values and pointers, a worklist, kill stores, functions that return or store the constant, levels | seed, drain the worklist, find kills, scan for loads; climb to callers round by round; statistics | three nested fixpoints whose order depends on the addresses of values; decisions taken in the middle of the fixpoint and never withdrawn; two copies of the propagation (main and upward) that must agree |
| `scripts/ss-analysis-parallel.py` | `output.txt` of every input, the pool's jobs and results | one worker per job: skip, open, start `opt`, wait, kill, remove | processes that outlive the driver, time limits that race an answer, files taken for results by a later run |
| `scripts/ss-gen.sh`, `ss-analysis.sh` | `output.txt`, `func_offset.json` | stage 1, stage 2, loop over a tunable | a stage that fails between two files; stale results; exit codes |
| `scripts/ir_to_assembly.py`, symbol cache | cache files of `nm` and `readelf` | generate, load | made and read by concurrent processes; a file that exists is taken for whole |
| `scripts/ir_to_assembly.py`, mapping | none beyond a run | parse the report, look up symbols and DWARF lines, write JSON | offsets paired from two lookups; symbols of one name |
| `scripts/locate-const-in-ir.py` | a kernel header and its `.bak`, the `.o` files, the dataset's inputs | build, back up, change, build, restore, compare, write inputs | a kill between change and restore; files that outlive the restore; an input must name the instruction it was made for |
| `scripts/build-with-wllvm.sh` | `.o` files, `vmlinux-xk-dataset.bc` | make, extract | what make takes for up to date |
| setup scripts, `_lib.sh`, CMake | none | install, copy | outside a model checker's reach: input and output only |
| `dataset`, `mapping`, `statistics` | data | none | none |

How they interact: `locate-const-in-ir.py` writes the `input.txt` files, in the
same kernel tree from which `build-with-wllvm.sh` makes the bitcode; the drivers
turn an input into the parameters of the pass and start `opt` with it;
the pass prints a report to `output.txt`; `ir_to_assembly.py` reads that file
and writes `func_offset.json`.  They share nothing but those files: a file that
exists is what a later step, or a later run, takes for a result.

What makes each correct:

* the pass: it misses no use and no load that its rules say it follows, records
  nothing that the constant does not reach, ends, and counts every value under
  one level;
* the parallel driver: one writer per output, a success means a whole report, a
  time limit leaves nothing behind, a finished report is never lost, a run ends;
* the two-stage driver: a result belongs to the last run, or is absent;
* the caches: a file is whole, or absent, unless its last writer is at work or was killed;
* the mapping: both ends of a span come from one function;
* locate-const: the header is the original one whenever no run is in progress, and
  the inputs are those of the last run, each of which selects its own instruction.

## Modules

| Module | Models |
|---|---|
| `IR` | what the pass asks of LLVM: values, operands, users, the order of the module. External, but for the small searches the pass makes in it |
| `TaintTracker` | `TaintTrackerPass::run`, one action per loop body |
| `TaintFlow` | the abstract specification: the constant spreads along the data flow, one step at a time, in any order |
| `TaintProperties` | the properties of `TaintTracker`, the inductive invariant, the refinement mapping |
| `TaintTracker_proofs` | types, origins of taint, levels, the refinement and what it bounds: theorems and proofs |
| `TaintFixpoint_proofs` | nothing is missed: the fixpoints of the main loop and of the rounds |
| `TaintProgress_proofs` | no step is in vain: what makes the nested loops end |
| `PointerOrigin` | `getPointerParameterOrigin` and `extractStructFieldIndices`, as recursive operators |
| `Fixtures` | builds module records for TLC from listings, with the searches of `PointerOrigin` |
| `MCTaintLocal`, `MCTaintCalls`, `MCTaintUpward` | families of modules and options for TLC |
| `Located` | from an instruction to the run that starts there: `locate`, `extract_opcode` and `write_input` of `locate-const-in-ir.py`, the parameters the drivers write, and the pass's parsing of them |
| `Located_proofs` | the run for an instruction starts with it: theorem and proof |
| `LocateConst` | the runs of `locate-const-in-ir.py` over the mutations of a tunable, and the kernel build that shares its tree |
| `DataInduction` | induction on the natural numbers for sets, and what `FlattenSeq` returns |
| `LocateConst_proofs` | the theorems about headers and inputs and their proofs |
| `SymbolCache` | the cache files of `ir_to_assembly.py`, the processes that make and read them |
| `SSGen` | `ss-gen.sh` and the single file mode of `ir_to_assembly.py`, on top of `SymbolCache` |
| `SSGen_proofs` | the theorems about the symbol cache and the drivers and their proofs |
| `ParallelRunner` | `ss-analysis-parallel.py`, `opt` and the pool around it |
| `ParallelRunner_proofs` | the theorems about the dataset and their proofs |
| `MCRunner`, `MCLocate`, `MCSSGen` | the instances of these for TLC |

### TaintTracker and the code

A variable is named after the variable of `run` it stands for.  A module of
LLVM is a record, `input.addr` gives the values their addresses: every "sorted"
loop of the code sorts by address, so the addresses are part of the input and TLC
tries the orders that matter.  `pc` and `stage` say which loop the run is in,
`cur` the element in hand and `todo` what is left of the innermost loop.  An
action is one iteration of a loop with all it changes: for example
`StoreToLocal` marks the pointer, its origin, `changed` and goes on to the
general propagation; `UpwardUse` taints the user, runs `processStoreForTaint`
and the handling of returns.  A user that passes the value to several targets
is several parts, so that each parameter tainted is a step.

A level is an integer, the report a record of the functions and spans that the
statistics would print.  Left out: printing, debug locations, and
`derivesFromPointerParameter`, which nothing calls.
Argument numbers start at 1.

`origin` and `access` of a module record are what `getPointerParameterOrigin` and
`extractStructFieldIndices` return.  They are recursive searches; they are modelled
in `PointerOrigin`, which fills the records that TLC checks, and are uninterpreted in
the proofs, which therefore hold whatever the two searches return.

### Located and the code

`MCTaintLocal` does not choose the parameters of the pass: it takes an instruction
with the constant, writes its `input.txt` (`write_input`), makes the parameters of
it (`pass_args`, the text between `<` and `>`) and parses them (`parse`, with the
defaults of the registration callback).  A line of a `.ll` file is the opcode, the
mark `tail` and the operands; `normalize` makes every register `%X`, and leaves
constants and globals.  The script counts lines that read alike; the pass counts
operands of instructions of one opcode.  `MaxNumber` bounds the numbers that a
parameter may be (an `unsigned` in the code); `NamesOK` says that the lines of no function
go beyond it, that no name is empty and that no constant is written like a register.

### LocateConst and the code

Everything but the run in progress is a file.  The text of a header, a `.o` or a
`.ll` is the set of constants whose definition is not the original one; time is the
number of changes made by `sed`, which is all that make's comparison needs.  One
action per command of `process_mutation`; each of them may fail, and then the
`finally` comes next if the header has been copied.  `Crash` is a kill that no
`finally` sees.  `torn` remembers the headers that a kill left changed: the
properties say that nothing else goes wrong.  `BuildKernel` runs while nobody has
the tree; it keeps a `.o` that is no older than its headers.  Kconfig options that
change between the two would make it compile more; those of the docstring's case
do not change.

### SymbolCache, SSGen and the code

A cache file is the set of its chunks: each writer has its own position, so an
`open(..., 'w')` by another leaves a hole where the first goes on.  A load takes the
files in order, the two of vmlinux and then the modules': an existing file is read as
it is, a missing one is made by a tool that may fail (None), hang (an exception) or
succeed.  `opener` is a history variable: who opened a file last, until it closes it
or is killed.

A driver is a program counter over its inputs.  `output` and `json` carry the run
that wrote them and whether they are whole.  The steps of stage 2 are those of
`SymbolCache`, then the report (an assertion may fail), then the two steps of writing
the JSON.  `KillDriver` takes the driver with its children, `KillStage2` only
`ir_to_assembly.py`.  Two drivers do not have the same tunable.

### ParallelRunner and the code

A worker is a program counter: `free`, `open` (the output was absent), `wait`
(`proc.wait`), `kill` (`TimeoutExpired` was raised), `remove`.  `opt` is an
environment process: it may succeed, fail or never end.  `KillRun` ends the driver
and its workers, `LoseWorker` one worker; either leaves `opt` running, since it has
a session of its own.  Only `output` and the `opt` processes survive a run.  Two drivers on one dataset
at once are not modelled: the code has nothing for it and no document asks for it.

## Runs

| Run | Question | Bounds |
|---|---|---|
| `taint_local` | one function: does the main loop miss a load or a use, take a store for a kill wrongly, or not end? Does an input select its instruction? | two variables and a global, a store whose value (the constant too) and pointer vary, a later store in the same or another block, a later load and return, a tail call; every input that names an instruction with the constant, 6 orders of three addresses, both upward settings; 195,834 states |
| `taint_calls` | calls: parameters, indirect targets, recursion, callers and pass-through pointers; do the rounds reach every caller, and does every step bring the end nearer? | modules of the source, a recursive callee (called directly, through a pointer, or through a pointer stored in a field of a struct), a recursive caller that swaps its arguments, an outer caller with a struct that points to a variable, a declaration; three sets of options, with and without an opcode, both orders of two addresses; 65,380 states |
| `taint_upward` | does the upward drain, which skips tainted users, still reach every user and every return, and give every value a level? | a source function that stores to a variable or a global, a caller that indexes and stores, its caller, a function that reads the global, keeps it in a variable and returns it; 6 orders of three addresses; 13,344 states |
| `kills_stale` | is a kill store ever one of a tainted value? Yes | as `taint_local` |
| `span_level` | does the span reported for a function hold its tainted instructions? No | as `taint_calls` |
| `occurrence` | does the run for an instruction start with that instruction? No | as `taint_local` |
| `upward_stores` | does the upward loop record what the main loop records? No | as `taint_upward` |
| `runner` | safety of the parallel driver: is every job done once and reported? Does a run end? | 2 inputs, 2 workers, 3 runs, 2 killed runs, 2 lost workers; 12,166 states |
| `runner_success` | is a success always a whole report? No | the same, no kill and no loss |
| `locate` | are headers restored, originals kept, inputs numbered and located in the original kernel? | two tunables on one header, a second header, a source file that both change, constants with 2, 1 and 0 instructions; 3 runs, 1 kill, 1 edit of a `mutation.toml`, 1 kernel build; 530,263 states |
| `locate_build` | is a kernel built after the inputs the original one? No | the same |
| `ss_gen` | does the exit code tell, are outputs whole, does the cache settle, does a driver go on to its end and never back? | two drivers (two inputs and one), a cache generator, three cache files of two chunks; 2 starts and 2 kills in all, of any of them; 309,687 states |

Why the bounds are enough.  The loops of the pass look at one value, one
instruction, one pair of a store and a load at a time; the smallest modules in which
one decision can disturb another (a kill before its value is tainted, a
pointer tainted in two ways, a function found by two paths, a call that is its own
caller) are in the families.  In the driver an accident of one run shows in the
next, so two or three runs and an accident of each kind suffice; two workers and two
inputs let another worker meet what the first left.  For `locate` the third run meets
what the second made of what a killed first one left; two mutations of one tunable and
a tunable on the same header show what one leaves to the next.  In `ss_gen` two
processes and two chunks are the least that leave a hole in a cache file; two starts
are two drivers, a driver and the generator, or a driver run again over old results.
What more processes do to the cache is proved.

Deadlock is checked in every run but `runner`, where a lost worker really does leave
the driver waiting for ever (the pool replaces the worker and forgets its job), and
`locate` and `ss_gen`, where nothing is left to do when the bounds are used up.

The runs that are to find a violation show where the code does not do what
one of its comments says; `PROJECT.json` quotes them under "findings".

## Fairness

The pass is one thread that never waits: weak fairness of `Next`.  In the driver a
worker that can take a step takes it (weak fairness of each worker's `Work` and of
`EndRun`): they are processes of an operating system.  Nothing makes `opt` end, so
`RunEnds` rests on the time limit alone.  It is the same with `ss-gen.sh`: weak fairness
of each driver's `DriverStep`, which has the time limit of stage 1 (exit code 124) but
not the success or failure of `opt`; `nm` and `readelf` have the limits that
`subprocess.run` is given.  `LocateConst` has no liveness property and no fairness.

## Proofs

`TaintTracker_proofs` proves, for every set of modules that satisfies `ModuleOK`
and every set of inputs that satisfies `InputOK`:

* `AlwaysInductive`: `Inductive` always holds.
* `TypeCorrect`: `TypeOK` always holds.
* `OriginsSurvive`: the store that tainted a pointer is never taken for a kill.
* `LevelsStay`: the level of a tainted value never changes.
* `Refinement`: `TaintTracker` implements `TaintFlow`.
* `NothingOutsideTheFlow`: what is recorded lies in every extent that the data flow
  does not lead out of (`StaysInExtent`).

`ModuleOK` is what LLVM's verifier guarantees: instructions have distinct
positions, a store has a value and a pointer that is no integer constant, a return
at most one operand, an instruction is not an argument; and a use of an instruction
or an argument is in its own function, casts included (`LocalOK`).

The argument.  `OriginsNotKilled` is not inductive: a step that adds kill stores
must know that an origin is a tainted value (then `Kills` rejects it) or a call (no
store), and a step that taints a pointer must know that no store to it was taken for
a kill before.  That is `OriginsTainted`.  It needs the types, and it needs `InHand`:
what the loops hold in `cur` and `todo` is what their bodies assume, tainted values,
loads from a tainted pointer, calls of a function that returns or stores the
constant.  `Inductive` is the conjunction of the four.  There is one lemma per action
and conjunct that it disturbs; the actions that leave a conjunct's variables alone
are dealt with together.  The two action properties are proved from the same
invariant: `LevelsFrozen` because a value joins `TaintedValues` in the step that
levels it, or before any level, and later writes go through `PutIfAbsent`; the
refinement because each action adds to the four recorded sets only what the
corresponding `...Reached` predicate of `TaintFlow` allows, which for the users of
`cur` is what `InHand` says.

`StaysInExtent` turns the refinement into a bound on the result.  An extent is what
could be recorded of a module; it is `Closed` if nothing outside it is reached from it.
The intersection of the closed extents is the least one, so that the property gives
the most the pass may ever record without a word on steps, orders, levels or kills.
From a larger extent more is reached (`ReachesMore`), and this is all that is needed
next to the refinement.  The quantifier over extents is beyond TLC (the parameter
numbers are not bounded), and what the run checks is `FollowsDataFlow`, from which it
follows.  The pass does record less than the bound: kills, the execution order and the
upward stores leave things out.

`TaintFixpoint_proofs` proves, under the same assumptions, that the pass misses
nothing its rules say it follows:

* `ScansMissNothing` (`ScanCovers`), `WorklistMissesNothing` (`WorklistCovers`) and
  `MainLoopEndsAtFixpoint` (`MainFixpoint`) for the main loop;
* `UpwardMissesNothing` (`UpwardCovers`) and `RoundsReachEveryCaller` (`UpwardClosed`)
  for the rounds;
* `StatisticsMissOnlyGlobals` (`LevelsComplete`) for the levels.

Next to `Inductive` they rest on two facts about every step.  `Remembers`: no step
changes the origin of a pointer's taint or withdraws a kill, so that a load once
`Settled` stays so.  `Queues`: what a step taints joins the worklist, so that a value
that does not wait has been taken from it, and its users are in hand or handled.
`MainFixpoint` then needs `ScanState`, that the scan is given every tainted pointer
and that whoever queues a value in a scan sets `changed`.  `UpwardCovers` needs
`ReturnsRecorded`, that a return is tainted only together with its function: a tainted
user is skipped upward, so nothing would be recorded later.  `UpwardClosed` needs
three more: 5a has found, or has in hand, every call of the functions the round
started with (`CallersFound`); 5b has followed, or has in hand, every argument, or
has set `discovered` (`ArgumentsFollowed`); and the rounds end only when the two sets
are what they were before (`RoundsOver`).  A round that adds a parameter to a function
already in the map, which the two numbers do not show, sets `discovered`: this is
where the proof needs it.

`LevelsComplete` was first stated of loads of a global alone, and TLC agreed on the
modules it was given.  The proof failed at a store to a local variable: a value loaded
from a global, kept in a variable and loaded again has no level either.  `MCTaintUpward`
now has such a function, and the property says which functions these are
(`ThroughGlobal`).  The proof follows taint from function to function
(`FunctionsKnown`): it enters one with a level or through a global, and `LocalOK` keeps
it from entering in any other way.

`TaintProgress_proofs` proves:

* `NothingIsInVain`: every step brings the end of the pass nearer (`NeverInVain`).

This is the part of `Termination` that is due to the code.  `Descends` compares two
states by a list, of which the earlier entries outweigh the later ones: the four
recorded sets grow; the stage goes up; `changed`, or the reason for another round
(`RoundAgain`), is withdrawn; another pointer is scanned; the worklist is shorter; the
loop is nearer its end (`StepsLeft`); less is left of the loop in hand.  A module is
finite, so each entry can get better only so often while those before it stay.
`Taint` queues only what it taints, so the worklist grows only with the first entry.
The hard places are the two loop heads, which go back to the start of the loop and must
be shown to have spent a reason for it: `RoundWanted` says that a round begins
with a reason that its end can withdraw, `ScansOnce` that what a scan holds is not in
`scanned` yet, `ScanState` that a scan which has come to its end has left no tainted
pointer out.
That a measure which gets smaller ends is an induction, and that the pass takes its
next step at all is fairness: both stay with TLC (`Termination`).

`Located_proofs` proves, for modules that satisfy `NamesOK` too:

* `AlikeAlwaysSeeded`: the run for an instruction starts with it and with no other,
  where the lines counted read alike and have the constant once (`AlikeIsSeeded`).

Its invariant is `SeededSoFar`: while the pass seeds, the tainted instructions are
those selected but for the ones still to be taken.  The rest is counting
(`SelectedIs`): a line that reads like one with the constant has the constant, so the
script counts the candidates of the pass (`LocateCounts`); each has one place for it
(`OnePlace`), so as many sites come before an instruction's as candidates
(`SitesBefore`); and no two candidates have as many before them (`RankTells`).
`ToString`, which TLC gives, is assumed to write different numbers differently.

`SSGen_proofs` proves, for any processes, drivers, inputs and files, any number of
chunks, and without the bounds on starts and kills playing a part:

* `CacheSettlesAlways`: a cache file is absent or whole once the last to open it has
  closed it.
* `DriversTyped`: `TypeOK` always holds.
* `ExitCodeTells`: the exit code is 0 if and only if every input has an output and a
  JSON that this run wrote in full.
* `OutputsAreWhole`: an output that an ended driver leaves is whole and its own.
* `DriversNeverBack`: every step of a driver brings its end nearer, and no other
  process moves it (`NeverBack`).

`CacheSettles` is not inductive: the step that closes a file must know what its
process has written, though others wrote to the file in between.  `Held` says that
the last opener is in the middle of that file, `Filling` that all chunks it is past
are there (it found the file empty, and nobody empties it without becoming the last
opener), `Present` that a file someone writes to exists.  `CacheInv` is the
conjunction with the types.  There is one lemma per step of a process; those that
write nothing share `Elsewhere`.

`NeverBack` is to `DriverEnds` what `NeverInVain` is to `Termination`: the next input, or
the next stage of the same, or the next file of the cache, or the next step or chunk of
the same; it needs the types alone.

The three in between rest on `DriverInv`: `Progress` says what a run has left so far (its
code tells of the inputs it is done with, the JSON of the others is not its own yet,
the files of the input in hand are what the stage makes of them), and needs that a run
has a number that no file carries yet (`NoneAhead`, `Started`).  The inputs of one
driver are distinct and no other driver has them, which `SSGenAssumption` states
because it is what the directories of tunables give; it also says that a missing file
is not a file.

`ParallelRunner_proofs` proves, for any inputs and workers and any bounds:

* `TypeCorrect`: `TypeOK` always holds.
* `OneWriterAlways`: no two `opt` processes write one `output.txt`.
* `OkIsWholeAlways`: a completed job has left a whole report.
* `TimedOutRemovedAlways`: a job that timed out leaves neither file nor process.
* `ReportsKeptAlways`: a whole report is never truncated or removed, but by its own
  timeout.
* `JobsKeptAlways`: a job is queued, held by one worker or reported, and no more jobs
  are missing than workers were lost (`JobsKept`).

None of them is inductive.  A result stays true of the file because nobody holds its
job any more (`JobsDistinct`, `JobsPending`, `Quiet`) and no process is left to change
the file (`Results`); a process is known to its worker or is an orphan (`Owned`), has
a file, which is whole if it exited with 0 (`Processes`); so a job that found no file
finds no orphan either (`Places`).  `IInv` is the conjunction with the types, and
there is one lemma per action.  The invariant holds of the instance of `MCRunner` too.
`JobsKept` counts: a step of a worker hands its job on (`WorkMissesNone`), a lost worker
takes one (`LossMissesOne`), so that the number of missing jobs grows only with
`losses`; this is why a run that lost no worker has a tuple for every job to wait for.

`LocateConst_proofs` proves, for any tunables, headers, source files and contents of
the `mutation.toml` files, and any bounds:

* `LocateTyped`: `TypeOK` always holds.
* `HeadersComeBack`: the headers are the original ones whenever no run is on, but for
  those a kill left changed (`HeadersRestored`).
* `InputsAreOriginal`: what an input names was located in the original kernel, under
  the same condition (`InputsOriginal`).
* `OriginalAlwaysKept`: no step takes the last original copy of a header
  (`OriginalKept`, an action property).
* `InputsAreNumbered`: the inputs are those of the `mutation.toml` of the last run
  (`InputsNumbered`).

The first four rest on `TreeInv`: a run between the copy and the `finally` has a
`.bak` (`Saved`), which is the original if no kill left the header changed, while every
other header is (`Untouched`); so what is compiled first is of the original kernel
(`OriginClean`).  The last one needs to know where each mutation has its inputs in the
list that the whole file asks for.  `Expected` flattens a sequence of sequences, which
is defined by recursion over the data: the library's induction theorems have an
operator for a parameter, which the provers cannot instantiate, so `DataInduction` has
one with a set for it (`SetInduction`, from the well-foundedness of the numbers) and
derives from it that the parts of the flattened sequence are the given ones, one after
the other (`FlattenSeqFlattens`).  `Offsets` are the cuts between them, and `NumberInv`
says that the inputs written and those the mutation in hand has still to come end at
the next cut.

Every invariant and every action property that a passing run checks is now a theorem.
Only model-checked: `Termination`, `RunEnds` and `DriverEnds` (liveness is outside the
proof system), and what the two recursive searches of `PointerOrigin` compute.

## Findings

Each is a run that finds its property violated; `PROJECT.json` quotes the lines.

* `kills_stale`: a kill store stays one when its value becomes tainted.
* `span_level`: the span of a recursive function leaves out tainted instructions of a
  smaller level.
* `upward_stores`: a store tainted through its address is skipped upward before what
  it stores is looked at.
* `occurrence`: a void tail call is named by the opcode "tail", for which the pass
  finds nothing (thirteen inputs of the dataset have it), and occurrences are counted
  in two ways.
* `runner_success`: a partial output counts as a success in the next run.
* `locate_build`: the `.o` with the changed constant is newer than the restored header
  and goes into a kernel built later.

## Not modelled

* The lookups of `ir_to_assembly.py` (230-1334): they match the text of `readelf` and
  `nm` for one kernel, with corrections by hand for single tunables.  A model would
  have to invent that text.
* Its batch mode (1430-1538): the single file mode in threads that share only a log.
* `changed_int` and the filters of `diff_ll`: token matching on IR text.
* The setup scripts, the CMake file, the data.
* A parallel driver and `ss-gen.sh` on the same tunable at once, and the outputs that
  stay under a number when the inputs are renumbered.

## What is left

The pass, its abstract specification, the search for the inputs, both drivers and the
symbol cache are modelled, and every safety property that holds of them is proved.  Not
done, in the order of what it would tell:

1. Determinism: two runs of `TaintTracker` side by side with different addresses.
2. `LocateConst` with `ParallelRunner`: renumbered inputs and the outputs of their
   numbers.
3. `PointerOrigin` against a reference reachability over bounded modules.
4. A measure for a run of the parallel driver as a whole.  `JobsKept` and the types give
   what `RunEnds` needs of the code, but no property states it as one order.
