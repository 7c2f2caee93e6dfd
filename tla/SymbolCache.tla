----------------------------- MODULE SymbolCache -----------------------------
(***************************************************************************)
(* The symbol cache of ir_to_assembly.py: the output of nm and readelf for *)
(* vmlinux and for each module, one file each, in a directory that every   *)
(* process on the machine uses.  A file that exists is read; one that does *)
(* not is made, by a tool that may fail, and written with open(..., 'w').  *)
(*                                                                         *)
(* Each writer has its own position in the file, so the contents of a file *)
(* are the set of the chunks it holds: a second open empties it under a    *)
(* first writer, who goes on after a hole.  A read is one step.            *)
(***************************************************************************)
EXTENDS Naturals, Sequences

CONSTANTS Processes,
          Order,    \* the cache files in the order they are loaded: the two of
                    \* vmlinux, then those of the modules
          Chunks,   \* what a file is written in
          NoFile, Nobody, Killed

Files == {Order[n] : n \in DOMAIN Order}
Whole == 1..Chunks

ASSUME CacheAssumption ==
    /\ Order \in Seq(Files) /\ Len(Order) >= 2
    /\ Chunks \in Nat \ {0}
    /\ \A chunks \in SUBSET Whole : chunks # NoFile
    /\ {Nobody, Killed} \cap Processes = {} /\ Nobody # Killed

VARIABLES
    cache,   \* each file: NoFile or its chunks
    proc,    \* each process: [mode, at, step, pos], "at" counting through Order
    got,     \* what it has loaded: [Files -> SUBSET Whole], {} for None or ""
    outcome, \* how its main went as far as the loads: "none", "ok", "error"
    opener   \* of each file the last process to open it, until it closes it, and
             \* Killed if it did not come to that

cacheVars == <<cache, proc, got, outcome, opener>>

Off == [mode |-> "off", at |-> 0, step |-> "none", pos |-> 0]
Nothing == [f \in Files |-> {}]

CacheInit ==
    /\ cache = [f \in Files |-> NoFile]
    /\ proc = [p \in Processes |-> Off]
    /\ got = [p \in Processes |-> Nothing]
    /\ outcome = [p \in Processes |-> "none"]
    /\ opener = [f \in Files |-> Nobody]

\* A process in the middle of file f
In(p, step) == proc[p].mode # "off" /\ proc[p].step = step
File(p) == Order[proc[p].at]

FirstStep(mode) == IF mode = "load" THEN "check" ELSE "tool"

\* main: ir_to_assembly.py on an output.txt, or with --generate-cache
StartLoad(p, mode) ==
    /\ proc[p] = Off
    /\ proc' = [proc EXCEPT ![p] = [mode |-> mode, at |-> 1, step |-> FirstStep(mode), pos |-> 0]]
    /\ got' = [got EXCEPT ![p] = Nothing]
    /\ outcome' = [outcome EXCEPT ![p] = "none"]
    /\ UNCHANGED <<cache, opener>>

\* The loads are over; what they gave is not followed into the json.
Finish(p, how) ==
    /\ proc' = [proc EXCEPT ![p] = Off]
    /\ got' = [got EXCEPT ![p] = Nothing]
    /\ outcome' = [outcome EXCEPT ![p] = how]

\* The next file.  After the two of vmlinux a load that has nothing of either is
\* an error; a module without output is left out.
Advance(p, text) ==
    LET n == proc[p].at
        mode == proc[p].mode
        texts == [got[p] EXCEPT ![File(p)] = text] IN
    IF mode = "load" /\ n = 2 /\ {} \in {texts[Order[1]], texts[Order[2]]}
    THEN Finish(p, "error")
    ELSE IF n = Len(Order) THEN Finish(p, "ok")
    ELSE /\ proc' = [proc EXCEPT ![p] = [mode |-> mode, at |-> n + 1,
                                         step |-> FirstStep(mode), pos |-> 0]]
         /\ got' = [got EXCEPT ![p] = texts]
         /\ UNCHANGED outcome

\* load_nm_cache and load_readelf_cache: what is there is taken for the output.
Read(p) ==
    /\ In(p, "check") /\ cache[File(p)] # NoFile
    /\ Advance(p, cache[File(p)])
    /\ UNCHANGED <<cache, opener>>

Miss(p) ==
    /\ In(p, "check") /\ cache[File(p)] = NoFile
    /\ proc' = [proc EXCEPT ![p].step = "tool"]
    /\ UNCHANGED <<cache, got, outcome, opener>>

\* generate_nm_cache and generate_readelf_cache.  The tool fails: None.
ToolFails(p) ==
    /\ In(p, "tool") /\ Advance(p, {})
    /\ UNCHANGED <<cache, opener>>

\* subprocess.run raises after 120 or 300 seconds, and nobody catches it.
ToolTimesOut(p) ==
    /\ In(p, "tool") /\ Finish(p, "error")
    /\ UNCHANGED <<cache, opener>>

Open(p) ==
    /\ In(p, "tool")
    /\ cache' = [cache EXCEPT ![File(p)] = {}]
    /\ opener' = [opener EXCEPT ![File(p)] = p]
    /\ proc' = [proc EXCEPT ![p].step = "write", ![p].pos = 1]
    /\ UNCHANGED <<got, outcome>>

Write(p) ==
    /\ In(p, "write") /\ proc[p].pos <= Chunks
    /\ cache' = [cache EXCEPT ![File(p)] = @ \cup {proc[p].pos}]
    /\ proc' = [proc EXCEPT ![p].pos = @ + 1]
    /\ UNCHANGED <<got, outcome, opener>>

\* Variant: the file is left before its last buffer is written
CloseEarly(p) ==
    /\ In(p, "write") /\ proc[p].pos >= Chunks
    /\ opener' = [opener EXCEPT ![File(p)] = IF @ = p THEN Nobody ELSE @]
    /\ Advance(p, Whole)
    /\ UNCHANGED cache

\* The end of "with open": the caller gets the output of the tool, not the file.
Close(p) ==
    /\ In(p, "write") /\ proc[p].pos > Chunks
    /\ opener' = [opener EXCEPT ![File(p)] = IF @ = p THEN Nobody ELSE @]
    /\ Advance(p, Whole)
    /\ UNCHANGED cache

LoadStep(p) ==
    \/ Read(p) \/ Miss(p) \/ ToolFails(p) \/ ToolTimesOut(p)
    \/ Open(p) \/ Write(p) \/ Close(p)

\* The process is killed; what it has written stays.
KillLoad(p) ==
    /\ opener' = [f \in Files |-> IF opener[f] = p THEN Killed ELSE opener[f]]
    /\ Finish(p, "error")
    /\ UNCHANGED cache

-----------------------------------------------------------------------------
(* Properties *)

Steps == {"none", "check", "tool", "write"}

\* The type of every variable of the cache.
CacheTypeOK ==
    /\ cache \in [Files -> {NoFile} \cup SUBSET Whole]
    /\ proc \in [Processes -> [mode : {"off", "load", "generate"}, at : Nat,
                               step : Steps, pos : Nat]]
    /\ \A p \in Processes : proc[p] = Off \/ (proc[p].mode # "off" /\ proc[p].at \in DOMAIN Order)
    /\ got \in [Processes -> [Files -> SUBSET Whole]]
    /\ outcome \in [Processes -> {"none", "ok", "error"}]
    /\ opener \in [Files -> Processes \cup {Nobody, Killed}]

\* However many processes fill the same file at once, and whichever of them are
\* killed, a file is there in full when the last process to open it has closed
\* it: those that opened it before write only what belongs there, and only the
\* death of the last leaves it short for every later reader.
CacheSettles ==
    \A f \in Files : opener[f] = Nobody => cache[f] \in {NoFile, Whole}
=============================================================================
