---------------------------- MODULE SSGen_proofs ----------------------------
(***************************************************************************)
(* The symbol cache settles, and the exit code and the files of a driver   *)
(* tell what it did, for any number of processes, files, chunks, inputs,   *)
(* starts and kills.                                                       *)
(***************************************************************************)
EXTENDS SSGen, TLAPS

\* The last process to open a file, while it has not closed it or been killed,
\* is in the middle of it.
Held ==
    \A f \in Files : \A p \in Processes :
        opener[f] = p => In(p, "write") /\ File(p) = f

\* It has found the file empty, and since then put in it all that it is past:
\* what others write to it in between takes nothing away.
Filling ==
    \A f \in Files : \A p \in Processes :
        opener[f] = p => \A k \in 1..Chunks : k < proc[p].pos => k \in cache[f]

\* A file that anyone writes to is there: none is ever removed.
Present ==
    \A p \in Processes :
        In(p, "write") => cache[File(p)] # NoFile /\ proc[p].pos >= 1

CacheInv == CacheTypeOK /\ Held /\ Filling /\ Present /\ CacheSettles

-----------------------------------------------------------------------------
(* The steps of one process *)

LEMMA FileInFiles ==
    ASSUME CacheTypeOK, NEW p \in Processes, proc[p].mode # "off"
    PROVE  File(p) \in Files /\ proc[p].at \in 1..Len(Order)
BY CacheAssumption DEF CacheTypeOK, File, Files, Off

LEMMA OffType ==
    Off \in [mode : {"off", "load", "generate"}, at : Nat, step : Steps, pos : Nat]
BY DEF Off, Steps

\* The process that ends a load, or goes on to its next file, writes nothing.
LEMMA FinishType ==
    ASSUME CacheTypeOK, NEW p \in Processes, NEW how \in {"ok", "error"}, Finish(p, how)
    PROVE  /\ proc' \in [Processes -> [mode : {"off", "load", "generate"}, at : Nat,
                                       step : Steps, pos : Nat]]
           /\ proc'[p] = Off
           /\ \A q \in Processes \ {p} : proc'[q] = proc[q]
           /\ got' \in [Processes -> [Files -> SUBSET Whole]]
           /\ outcome' \in [Processes -> {"none", "ok", "error"}]
BY OffType DEF CacheTypeOK, Finish, Nothing

LEMMA AdvanceType ==
    ASSUME CacheTypeOK, NEW p \in Processes, NEW text \in SUBSET Whole,
           proc[p].mode # "off", Advance(p, text)
    PROVE  /\ proc' \in [Processes -> [mode : {"off", "load", "generate"}, at : Nat,
                                       step : Steps, pos : Nat]]
           /\ proc'[p] = Off \/ (proc'[p].mode # "off" /\ proc'[p].at \in DOMAIN Order)
           /\ proc'[p].step # "write"
           /\ \A q \in Processes \ {p} : proc'[q] = proc[q]
           /\ got' \in [Processes -> [Files -> SUBSET Whole]]
           /\ outcome' \in [Processes -> {"none", "ok", "error"}]
<1>1. CASE Finish(p, "error") \/ Finish(p, "ok")
  <2>1. PICK how \in {"ok", "error"} : Finish(p, how)
    BY <1>1
  <2>. QED
    BY <2>1, FinishType DEF Off
<1>2. CASE ~(Finish(p, "error") \/ Finish(p, "ok"))
  <2>. DEFINE n == proc[p].at
              mode == proc[p].mode
              next == [mode |-> mode, at |-> n + 1, step |-> FirstStep(mode), pos |-> 0]
              texts == [got[p] EXCEPT ![File(p)] = text]
  <2>1. /\ proc' = [proc EXCEPT ![p] = next]
        /\ got' = [got EXCEPT ![p] = texts]
        /\ outcome' = outcome
        /\ n # Len(Order)
    BY <1>2 DEF Advance
  <2>2. n \in 1..Len(Order) /\ File(p) \in Files
    BY FileInFiles
  <2>3. mode \in {"load", "generate"}
    BY DEF CacheTypeOK
  <2>4. /\ next \in [mode : {"off", "load", "generate"}, at : Nat, step : Steps, pos : Nat]
        /\ next.step # "write" /\ next.mode # "off" /\ next.at \in 1..Len(Order)
    BY <2>1, <2>2, <2>3, CacheAssumption DEF FirstStep, Steps
  <2>5. texts \in [Files -> SUBSET Whole]
    BY <2>2 DEF CacheTypeOK
  <2>6. DOMAIN Order = 1..Len(Order)
    BY CacheAssumption
  <2>. HIDE DEF next, texts
  <2>7. proc'[p] = next /\ \A q \in Processes \ {p} : proc'[q] = proc[q]
    BY <2>1 DEF CacheTypeOK
  <2>8. proc' \in [Processes -> [mode : {"off", "load", "generate"}, at : Nat,
                                 step : Steps, pos : Nat]]
    BY <2>1, <2>4 DEF CacheTypeOK
  <2>9. got' \in [Processes -> [Files -> SUBSET Whole]]
    BY <2>1, <2>5 DEF CacheTypeOK
  <2>. QED
    BY <2>1, <2>4, <2>6, <2>7, <2>8, <2>9 DEF CacheTypeOK
<1>. QED
  BY <1>1, <1>2

\* A process that does not write, and leaves cache and opener alone, preserves
\* the invariant.
LEMMA Elsewhere ==
    ASSUME CacheInv, NEW p \in Processes, ~In(p, "write"),
           UNCHANGED <<cache, opener>>, CacheTypeOK',
           proc'[p].step # "write",
           \A q \in Processes \ {p} : proc'[q] = proc[q]
    PROVE  CacheInv'
<1>1. \A f \in Files : opener[f] # p
  BY DEF CacheInv, Held
<1>2. Held'
  BY <1>1 DEF CacheInv, Held, In, File
<1>3. Filling'
  BY <1>1 DEF CacheInv, Filling
<1>4. Present'
  BY DEF CacheInv, Present, In, File
<1>5. CacheSettles'
  BY DEF CacheInv, CacheSettles
<1>. QED
  BY <1>2, <1>3, <1>4, <1>5 DEF CacheInv

LEMMA StartLoadStep ==
    ASSUME CacheInv, NEW p \in Processes, NEW mode \in {"load", "generate"},
           StartLoad(p, mode)
    PROVE  CacheInv'
<1>. DEFINE first == [mode |-> mode, at |-> 1, step |-> FirstStep(mode), pos |-> 0]
<1>1. /\ first \in [mode : {"off", "load", "generate"}, at : Nat, step : Steps, pos : Nat]
      /\ first.step # "write" /\ first.mode # "off" /\ first.at \in DOMAIN Order
  BY CacheAssumption DEF FirstStep, Steps
<1>2. proc' = [proc EXCEPT ![p] = first]
  BY DEF StartLoad
<1>. HIDE DEF first
<1>3. CacheTypeOK'
  <2>1. got' \in [Processes -> [Files -> SUBSET Whole]]
    BY DEF StartLoad, CacheInv, CacheTypeOK, Nothing
  <2>2. outcome' \in [Processes -> {"none", "ok", "error"}]
    BY DEF StartLoad, CacheInv, CacheTypeOK
  <2>3. cache' = cache /\ opener' = opener
    BY DEF StartLoad
  <2>. QED
    BY <1>1, <1>2, <2>1, <2>2, <2>3 DEF CacheInv, CacheTypeOK
<1>4. ~In(p, "write")
  BY DEF StartLoad, In, Off
<1>5. proc'[p] = first /\ \A q \in Processes \ {p} : proc'[q] = proc[q]
  BY <1>2 DEF CacheInv, CacheTypeOK
<1>. QED
  BY <1>1, <1>3, <1>4, <1>5, Elsewhere DEF StartLoad

LEMMA ReadStep ==
    ASSUME CacheInv, NEW p \in Processes, Read(p) \/ ToolFails(p)
    PROVE  CacheInv'
<1>1. proc[p].mode # "off" /\ ~In(p, "write") /\ UNCHANGED <<cache, opener>>
  BY DEF Read, ToolFails, In
<1>2. File(p) \in Files
  BY <1>1, FileInFiles DEF CacheInv
<1>3. PICK text \in SUBSET Whole : Advance(p, text)
  BY <1>2 DEF Read, ToolFails, CacheInv, CacheTypeOK
<1>4. CacheTypeOK' /\ proc'[p].step # "write" /\ \A q \in Processes \ {p} : proc'[q] = proc[q]
  BY <1>1, <1>3, AdvanceType DEF CacheInv, CacheTypeOK
<1>. QED
  BY <1>1, <1>4, Elsewhere

LEMMA MissStep ==
    ASSUME CacheInv, NEW p \in Processes, Miss(p)
    PROVE  CacheInv'
<1>1. ~In(p, "write") /\ UNCHANGED <<cache, got, outcome, opener>>
  BY DEF Miss, In
<1>. DEFINE Places == [mode : {"off", "load", "generate"}, at : Nat, step : Steps, pos : Nat]
            next == [proc[p] EXCEPT !.step = "tool"]
<1>2. /\ proc'[p].step = "tool" /\ proc'[p].mode = proc[p].mode /\ proc'[p].at = proc[p].at
      /\ \A q \in Processes \ {p} : proc'[q] = proc[q]
      /\ proc' \in [Processes -> Places]
  <2>1. proc \in [Processes -> Places] /\ proc' = [proc EXCEPT ![p] = next]
    BY DEF Miss, CacheInv, CacheTypeOK
  <2>2. next \in Places /\ next.step = "tool" /\ next.mode = proc[p].mode
        /\ next.at = proc[p].at
    BY <2>1 DEF Steps
  <2>. HIDE DEF next, Places
  <2>. QED
    BY <2>1, <2>2
<1>3. proc[p].mode # "off" /\ proc[p] # Off
  BY DEF Miss, In, Off
<1>4. CacheTypeOK'
  BY <1>1, <1>2, <1>3 DEF CacheInv, CacheTypeOK
<1>. QED
  BY <1>1, <1>2, <1>4, Elsewhere

LEMMA ToolTimesOutStep ==
    ASSUME CacheInv, NEW p \in Processes, ToolTimesOut(p)
    PROVE  CacheInv'
<1>1. ~In(p, "write") /\ UNCHANGED <<cache, opener>> /\ Finish(p, "error")
  BY DEF ToolTimesOut, In
<1>2. CacheTypeOK' /\ proc'[p] = Off /\ \A q \in Processes \ {p} : proc'[q] = proc[q]
  BY <1>1, FinishType DEF CacheInv, CacheTypeOK
<1>. QED
  BY <1>1, <1>2, Elsewhere DEF Off

LEMMA OpenStep ==
    ASSUME CacheInv, NEW p \in Processes, Open(p)
    PROVE  CacheInv'
<1>0. proc \in [Processes -> [mode : {"off", "load", "generate"}, at : Nat,
                              step : Steps, pos : Nat]]
  BY DEF CacheInv, CacheTypeOK
<1>. DEFINE f == File(p)
<1>1. proc[p].mode # "off" /\ proc[p] # Off /\ proc[p].step = "tool"
  BY DEF Open, In, Off
<1>2. f \in Files
  BY <1>1, FileInFiles DEF CacheInv
<1>3. /\ proc'[p].step = "write" /\ proc'[p].pos = 1
      /\ proc'[p].mode = proc[p].mode /\ proc'[p].at = proc[p].at
      /\ \A q \in Processes \ {p} : proc'[q] = proc[q]
      /\ proc' \in [Processes -> [mode : {"off", "load", "generate"}, at : Nat,
                                  step : Steps, pos : Nat]]
  <2>1. PICK new : new = [proc[p] EXCEPT !.step = "write", !.pos = 1]
    OBVIOUS
  <2>2. /\ new.step = "write" /\ new.pos = 1
        /\ new.mode = proc[p].mode /\ new.at = proc[p].at
        /\ new \in [mode : {"off", "load", "generate"}, at : Nat, step : Steps, pos : Nat]
    BY <1>0, <2>1 DEF Steps
  <2>3. proc' = [proc EXCEPT ![p] = new]
    BY <1>0, <2>1 DEF Open
  <2>4. /\ proc'[p] = new /\ \A q \in Processes \ {p} : proc'[q] = proc[q]
        /\ proc' \in [Processes -> [mode : {"off", "load", "generate"}, at : Nat,
                                    step : Steps, pos : Nat]]
    BY <1>0, <2>2, <2>3
  <2>. QED
    BY <2>2, <2>4
<1>4. /\ cache'[f] = {} /\ \A g \in Files \ {f} : cache'[g] = cache[g]
      /\ opener'[f] = p /\ \A g \in Files \ {f} : opener'[g] = opener[g]
      /\ cache' \in [Files -> {NoFile} \cup SUBSET Whole]
      /\ opener' \in [Files -> Processes \cup {Nobody, Killed}]
      /\ UNCHANGED <<got, outcome>>
  BY <1>2 DEF Open, CacheInv, CacheTypeOK
<1>5. \A q \in Processes : File(q)' = File(q)
  BY <1>3 DEF File
<1>. HIDE DEF f
<1>6. CacheTypeOK'
  <2>1. \A q \in Processes :
            proc'[q] = Off \/ (proc'[q].mode # "off" /\ proc'[q].at \in DOMAIN Order)
    BY <1>1, <1>3 DEF CacheInv, CacheTypeOK
  <2>2. /\ got' \in [Processes -> [Files -> SUBSET Whole]]
        /\ outcome' \in [Processes -> {"none", "ok", "error"}]
    BY <1>4 DEF CacheInv, CacheTypeOK
  <2>. QED
    BY <1>3, <1>4, <2>1, <2>2 DEF CacheTypeOK
<1>7. \A g \in Files : opener[g] # p
  BY <1>1 DEF CacheInv, Held, In
<1>8. Held'
  <2>. SUFFICES ASSUME NEW g \in Files, NEW q \in Processes, opener'[g] = q
                PROVE  In(q, "write")' /\ File(q)' = g
    BY DEF Held
  <2>1. CASE g = f
    BY <2>1, <1>1, <1>3, <1>4, <1>5 DEF In, f
  <2>2. CASE g # f
    BY <2>2, <1>3, <1>4, <1>5, <1>7 DEF CacheInv, Held, In
  <2>. QED
    BY <2>1, <2>2
<1>9. Filling'
  <2>. SUFFICES ASSUME NEW g \in Files, NEW q \in Processes, opener'[g] = q,
                       NEW k \in 1..Chunks, k < proc'[q].pos
                PROVE  k \in cache'[g]
    BY DEF Filling
  <2>1. CASE g = f
    BY <2>1, <1>3, <1>4
  <2>2. CASE g # f
    BY <2>2, <1>3, <1>4, <1>7 DEF CacheInv, Filling
  <2>. QED
    BY <2>1, <2>2
<1>10. Present'
  <2>. SUFFICES ASSUME NEW q \in Processes, In(q, "write")'
                PROVE  cache'[File(q)] # NoFile /\ proc'[q].pos >= 1
    BY <1>5 DEF Present
  <2>0. {} # NoFile
    BY CacheAssumption
  <2>1. CASE q = p
    BY <2>0, <2>1, <1>3, <1>4 DEF f
  <2>2. CASE q # p
    <3>1. In(q, "write") /\ proc'[q] = proc[q]
      BY <2>2, <1>3 DEF In
    <3>2. cache[File(q)] # NoFile /\ proc[q].pos >= 1
      BY <3>1 DEF CacheInv, Present
    <3>3. File(q) \in Files
      BY <3>1, FileInFiles DEF CacheInv, In
    <3>. QED
      BY <3>1, <3>2, <3>3, <2>0, <1>4
  <2>. QED
    BY <2>1, <2>2
<1>11. CacheSettles'
  <2>1. opener'[f] # Nobody
    BY <1>4, CacheAssumption
  <2>. QED
    BY <2>1, <1>4 DEF CacheInv, CacheSettles
<1>. QED
  BY <1>6, <1>8, <1>9, <1>10, <1>11 DEF CacheInv

LEMMA WriteStep ==
    ASSUME CacheInv, NEW p \in Processes, Write(p)
    PROVE  CacheInv'
<1>. DEFINE f == File(p)
<1>1. /\ proc[p].mode # "off" /\ proc[p] # Off /\ proc[p].step = "write"
      /\ In(p, "write")
  BY DEF Write, In, Off
<1>2. f \in Files
  BY <1>1, FileInFiles DEF CacheInv
<1>3. cache[f] \in SUBSET Whole /\ proc[p].pos \in Whole
  <2>1. cache[f] # NoFile /\ proc[p].pos >= 1
    BY <1>1 DEF CacheInv, Present
  <2>2. proc[p].pos \in Nat /\ proc[p].pos <= Chunks
    BY DEF Write, CacheInv, CacheTypeOK
  <2>3. Chunks \in Nat
    BY CacheAssumption
  <2>4. cache[f] \in SUBSET Whole
    BY <1>2, <2>1 DEF CacheInv, CacheTypeOK
  <2>. QED
    BY <2>1, <2>2, <2>3, <2>4 DEF Whole
<1>4. /\ proc'[p].step = "write" /\ proc'[p].pos = proc[p].pos + 1
      /\ proc'[p].mode = proc[p].mode /\ proc'[p].at = proc[p].at
      /\ \A q \in Processes \ {p} : proc'[q] = proc[q]
      /\ proc' \in [Processes -> [mode : {"off", "load", "generate"}, at : Nat,
                                  step : Steps, pos : Nat]]
  <2>. DEFINE next == [proc[p] EXCEPT !.pos = @ + 1]
  <2>1. proc' = [proc EXCEPT ![p] = next]
    BY DEF Write
  <2>2. /\ next \in [mode : {"off", "load", "generate"}, at : Nat, step : Steps, pos : Nat]
        /\ next.step = proc[p].step /\ next.pos = proc[p].pos + 1
        /\ next.mode = proc[p].mode /\ next.at = proc[p].at
    BY DEF CacheInv, CacheTypeOK
  <2>. HIDE DEF next
  <2>. QED
    BY <1>1, <2>1, <2>2 DEF CacheInv, CacheTypeOK
<1>5. /\ cache'[f] = cache[f] \cup {proc[p].pos}
      /\ \A g \in Files \ {f} : cache'[g] = cache[g]
      /\ UNCHANGED <<got, outcome, opener>>
  BY <1>2 DEF Write, CacheInv, CacheTypeOK
<1>6. cache' \in [Files -> {NoFile} \cup SUBSET Whole]
  BY <1>2, <1>3 DEF Write, CacheInv, CacheTypeOK
<1>7. \A q \in Processes : File(q)' = File(q) /\ In(q, "write")' = In(q, "write")
  BY <1>1, <1>4 DEF File, In
<1>. HIDE DEF f
<1>8. CacheTypeOK'
  <2>1. \A q \in Processes :
            proc'[q] = Off \/ (proc'[q].mode # "off" /\ proc'[q].at \in DOMAIN Order)
    BY <1>1, <1>4 DEF CacheInv, CacheTypeOK
  <2>2. /\ got' \in [Processes -> [Files -> SUBSET Whole]]
        /\ outcome' \in [Processes -> {"none", "ok", "error"}]
        /\ opener' \in [Files -> Processes \cup {Nobody, Killed}]
    BY <1>5 DEF CacheInv, CacheTypeOK
  <2>. QED
    BY <1>4, <1>6, <2>1, <2>2 DEF CacheTypeOK
<1>9. Held'
  BY <1>5, <1>7 DEF CacheInv, Held
<1>10. Filling'
  <2>. SUFFICES ASSUME NEW g \in Files, NEW q \in Processes, opener[g] = q,
                       NEW k \in 1..Chunks, k < proc'[q].pos
                PROVE  k \in cache'[g]
    BY <1>5 DEF Filling
  <2>1. CASE q = p
    <3>1. g = f
      BY <2>1 DEF CacheInv, Held, f
    <3>2. k < proc[p].pos => k \in cache[f]
      BY <2>1, <3>1 DEF CacheInv, Filling
    <3>3. k < proc[p].pos \/ k = proc[p].pos
      BY <2>1, <1>3, <1>4, CacheAssumption DEF Whole
    <3>. QED
      BY <3>1, <3>2, <3>3, <1>5
  <2>2. CASE q # p
    <3>1. k \in cache[g]
      BY <2>2, <1>4 DEF CacheInv, Filling
    <3>. QED
      BY <3>1, <1>5
  <2>. QED
    BY <2>1, <2>2
<1>11. Present'
  <2>. SUFFICES ASSUME NEW q \in Processes, In(q, "write")
                PROVE  cache'[File(q)] # NoFile /\ proc'[q].pos >= 1
    BY <1>7 DEF Present
  <2>1. cache[File(q)] # NoFile /\ proc[q].pos >= 1 /\ File(q) \in Files
    BY FileInFiles DEF CacheInv, Present, In
  <2>2. cache'[f] # NoFile
    BY <1>3, <1>5, CacheAssumption
  <2>3. proc'[q].pos >= 1
    BY <2>1, <1>3, <1>4, CacheAssumption DEF Whole
  <2>. QED
    BY <2>1, <2>2, <2>3, <1>5
<1>12. CacheSettles'
  <2>. SUFFICES ASSUME NEW g \in Files, opener[g] = Nobody
                PROVE  cache'[g] \in {NoFile, Whole}
    BY <1>5 DEF CacheSettles
  <2>1. cache[g] \in {NoFile, Whole}
    BY DEF CacheInv, CacheSettles
  <2>2. cache[f] # NoFile
    BY <1>1 DEF CacheInv, Present, f
  <2>. QED
    BY <2>1, <2>2, <1>3, <1>5
<1>. QED
  BY <1>8, <1>9, <1>10, <1>11, <1>12 DEF CacheInv

LEMMA CloseStep ==
    ASSUME CacheInv, NEW p \in Processes, Close(p)
    PROVE  CacheInv'
<1>. DEFINE f == File(p)
<1>1. proc[p].mode # "off" /\ In(p, "write") /\ Advance(p, Whole) /\ cache' = cache
  BY DEF Close, In
<1>2. f \in Files
  BY <1>1, FileInFiles DEF CacheInv
<1>3. /\ opener'[f] = IF opener[f] = p THEN Nobody ELSE opener[f]
      /\ \A g \in Files \ {f} : opener'[g] = opener[g]
      /\ opener' \in [Files -> Processes \cup {Nobody, Killed}]
  BY <1>2 DEF Close, CacheInv, CacheTypeOK
<1>4. CacheTypeOK' /\ proc'[p].step # "write" /\ \A q \in Processes \ {p} : proc'[q] = proc[q]
  <2>1. /\ proc' \in [Processes -> [mode : {"off", "load", "generate"}, at : Nat,
                                    step : Steps, pos : Nat]]
        /\ proc'[p] = Off \/ (proc'[p].mode # "off" /\ proc'[p].at \in DOMAIN Order)
        /\ proc'[p].step # "write"
        /\ \A q \in Processes \ {p} : proc'[q] = proc[q]
        /\ got' \in [Processes -> [Files -> SUBSET Whole]]
        /\ outcome' \in [Processes -> {"none", "ok", "error"}]
    BY <1>1, AdvanceType DEF CacheInv
  <2>2. \A q \in Processes :
            proc'[q] = Off \/ (proc'[q].mode # "off" /\ proc'[q].at \in DOMAIN Order)
    BY <2>1 DEF CacheInv, CacheTypeOK
  <2>3. cache' \in [Files -> {NoFile} \cup SUBSET Whole]
    BY <1>1 DEF CacheInv, CacheTypeOK
  <2>. QED
    BY <1>3, <2>1, <2>2, <2>3 DEF CacheTypeOK
<1>5. \A g \in Files : opener'[g] # p /\ (opener'[g] # Nobody => opener'[g] = opener[g])
  <2>1. \A g \in Files : opener[g] = p => g = f
    BY DEF CacheInv, Held
  <2>2. Nobody # p
    BY CacheAssumption
  <2>. QED
    BY <1>3, <2>1, <2>2
<1>6. Held'
  BY <1>4, <1>5, CacheAssumption DEF CacheInv, Held, In, File
<1>7. Filling'
  BY <1>1, <1>4, <1>5, CacheAssumption DEF CacheInv, Filling
<1>8. Present'
  BY <1>1, <1>4 DEF CacheInv, Present, In, File
<1>9. CacheSettles'
  <2>. SUFFICES ASSUME NEW g \in Files, opener'[g] = Nobody
                PROVE  cache[g] \in {NoFile, Whole}
    BY <1>1 DEF CacheSettles
  <2>1. CASE opener[g] = Nobody
    BY <2>1 DEF CacheInv, CacheSettles
  <2>2. CASE opener[g] # Nobody
    <3>1. g = f /\ opener[f] = p
      BY <2>2, <1>3
    <3>2. proc[p].pos > Chunks /\ proc[p].pos \in Nat /\ Chunks \in Nat
      BY CacheAssumption DEF Close, CacheInv, CacheTypeOK
    <3>3. \A k \in 1..Chunks : k \in cache[f]
      BY <1>2, <3>1, <3>2 DEF CacheInv, Filling
    <3>4. cache[f] \in SUBSET Whole
      BY <1>1, <1>2 DEF CacheInv, CacheTypeOK, Present
    <3>. QED
      BY <3>1, <3>3, <3>4 DEF Whole
  <2>. QED
    BY <2>1, <2>2
<1>. QED
  BY <1>4, <1>6, <1>7, <1>8, <1>9 DEF CacheInv

LEMMA KillLoadStep ==
    ASSUME CacheInv, NEW p \in Processes, KillLoad(p)
    PROVE  CacheInv'
<1>1. cache' = cache /\ Finish(p, "error")
  BY DEF KillLoad
<1>2. \A g \in Files : opener'[g] = IF opener[g] = p THEN Killed ELSE opener[g]
  BY DEF KillLoad
<1>3. opener' \in [Files -> Processes \cup {Nobody, Killed}]
  BY DEF KillLoad, CacheInv, CacheTypeOK
<1>4. /\ proc'[p] = Off /\ proc'[p].step # "write"
      /\ \A q \in Processes \ {p} : proc'[q] = proc[q]
      /\ CacheTypeOK'
  <2>1. /\ proc' \in [Processes -> [mode : {"off", "load", "generate"}, at : Nat,
                                    step : Steps, pos : Nat]]
        /\ proc'[p] = Off /\ \A q \in Processes \ {p} : proc'[q] = proc[q]
        /\ got' \in [Processes -> [Files -> SUBSET Whole]]
        /\ outcome' \in [Processes -> {"none", "ok", "error"}]
    BY <1>1, FinishType DEF CacheInv
  <2>2. CacheTypeOK'
    BY <1>1, <1>3, <2>1 DEF CacheInv, CacheTypeOK
  <2>. QED
    BY <2>1, <2>2 DEF Off
<1>5. \A g \in Files : /\ opener'[g] # p
                       /\ opener'[g] \in Processes \cup {Nobody} => opener'[g] = opener[g]
  BY <1>2, CacheAssumption
<1>6. Held'
  BY <1>4, <1>5 DEF CacheInv, Held, In, File
<1>7. Filling'
  BY <1>1, <1>4, <1>5 DEF CacheInv, Filling
<1>8. Present'
  BY <1>1, <1>4 DEF CacheInv, Present, In, File
<1>9. CacheSettles'
  BY <1>1, <1>5 DEF CacheInv, CacheSettles
<1>. QED
  BY <1>4, <1>6, <1>7, <1>8, <1>9 DEF CacheInv

LEMMA LoadStepInv ==
    ASSUME CacheInv, NEW p \in Processes, LoadStep(p)
    PROVE  CacheInv'
BY ReadStep, MissStep, ToolTimesOutStep, OpenStep, WriteStep, CloseStep DEF LoadStep

LEMMA CacheStutter ==
    ASSUME CacheInv, UNCHANGED cacheVars
    PROVE  CacheInv'
BY DEF CacheInv, CacheTypeOK, Held, Filling, Present, CacheSettles, In, File, cacheVars

-----------------------------------------------------------------------------
(* The drivers *)

LEMMA CacheInvInit == Init => CacheInv
<1>. SUFFICES ASSUME Init PROVE CacheInv
  OBVIOUS
<1>1. CacheTypeOK
  BY OffType, CacheAssumption DEF Init, CacheInit, CacheTypeOK, Nothing
<1>2. \A f \in Files : \A p \in Processes : opener[f] # p
  BY CacheAssumption DEF Init, CacheInit
<1>3. \A p \in Processes : ~In(p, "write")
  BY DEF Init, CacheInit, In, Off
<1>. QED
  BY <1>1, <1>2, <1>3 DEF Init, CacheInit, CacheInv, Held, Filling, Present, CacheSettles

LEMMA CacheInvStep == CacheInv /\ [Next]_vars => CacheInv'
<1>. SUFFICES ASSUME CacheInv, [Next]_vars PROVE CacheInv'
  OBVIOUS
<1>1. ASSUME NEW d \in Drivers, StartDriver(d) \/ DriverStep(d) \/ Stage1Ok(d)
             \/ Stage1Fails(d, 1) \/ KillDriver(d) \/ KillStage2(d)
      PROVE  CacheInv'
  <2>. d \in Processes
    BY SSGenAssumption
  <2>1. CASE Load(d)
    BY <2>1, LoadStepInv DEF Load
  <2>2. CASE Stage1Ok(d)
    BY <2>2, StartLoadStep DEF Stage1Ok
  <2>3. CASE KillDriver(d) \/ KillStage2(d)
    BY <2>3, KillLoadStep DEF KillDriver, KillStage2
  <2>4. CASE \/ StartDriver(d) \/ Stage1(d) \/ Stage1Fails(d, 124) \/ Stage1Fails(d, 1)
             \/ LoadFails(d) \/ LoadOk(d) \/ MapFails(d) \/ Map(d) \/ Dump(d)
    <3>1. UNCHANGED cacheVars
      BY <2>4 DEF StartDriver, Stage1, Stage1Fails, LoadFails, LoadOk, MapFails, Map, Dump
    <3>. QED
      BY <3>1, CacheStutter
  <2>. QED
    BY <1>1, <2>1, <2>2, <2>3, <2>4 DEF DriverStep
<1>2. ASSUME NEW g \in Generators, Generate(g) \/ GenerateStep(g) \/ KillGenerate(g)
      PROVE  CacheInv'
  <2>. g \in Processes
    BY SSGenAssumption
  <2>. QED
    BY <1>2, StartLoadStep, LoadStepInv, KillLoadStep DEF Generate, GenerateStep, KillGenerate
<1>3. CASE UNCHANGED vars
  BY <1>3, CacheStutter DEF vars
<1>. QED
  BY <1>1, <1>2, <1>3 DEF Next

\* Whatever the processes that share the symbol cache do, and whenever they are
\* killed, a cache file is absent or whole once the last to open it has closed
\* it (generate_nm_cache, generate_readelf_cache).
THEOREM CacheSettlesAlways == Spec => []CacheSettles
<1>1. CacheInv => CacheSettles
  BY DEF CacheInv
<1>. QED
  BY <1>1, CacheInvInit, CacheInvStep, PTL DEF Spec

-----------------------------------------------------------------------------
(* The files of a driver *)

DriverType == [run : Nat, at : Nat, step : Busy \cup Idle, rc : {0, 1, 124, 137}]

\* The numbers of the inputs that this run of d is done with
Past(d) == {n \in DOMAIN Inputs[d] : n < driver[d].at \/ At(d, "ended")}

\* What a run of d has left so far: its code tells of every input it is done
\* with, none of those has an output that is short or old, the json of the
\* others is not its own yet, and the files of the input in hand are as the
\* stage makes them.
Progress(d) ==
    driver[d].step \in Busy \cup {"ended"} =>
        /\ driver[d].rc = 0 <=> \A n \in Past(d) : Fresh(d, Inputs[d][n])
        /\ \A n \in Past(d) :
              output[Inputs[d][n]] \in {NoFile, [by |-> driver[d].run, whole |-> TRUE]}
        /\ \A n \in DOMAIN Inputs[d] \ Past(d) :
              \/ json[Inputs[d][n]] = NoFile
              \/ json[Inputs[d][n]].by # driver[d].run
              \/ At(d, "dump") /\ n = driver[d].at
        /\ At(d, "opt") => output[Input(d)] = [by |-> driver[d].run, whole |-> FALSE]
        /\ driver[d].step \in {"load", "map", "dump"} =>
              output[Input(d)] = [by |-> driver[d].run, whole |-> TRUE]
        /\ At(d, "dump") => json[Input(d)] = [by |-> driver[d].run, whole |-> FALSE]

\* A json is by a run that has been started.
NoneAhead == \A i \in AllInputs : json[i] = NoFile \/ json[i].by <= starts

\* A run that is on has a number of its own.
Started == \A d \in Drivers : driver[d].run <= starts

DriverInv == TypeOK /\ NoneAhead /\ Started /\ \A d \in Drivers : Progress(d)

LEMMA InputFacts ==
    ASSUME NEW d \in Drivers
    PROVE  /\ Len(Inputs[d]) \in Nat \ {0} /\ DOMAIN Inputs[d] = 1..Len(Inputs[d])
           /\ \A n \in DOMAIN Inputs[d] : Inputs[d][n] \in AllInputs
<1>1. Inputs[d] \in Seq(AllInputs) /\ Inputs[d] # <<>>
  BY SSGenAssumption
<1> QED
  BY <1>1

\* No two drivers, and no two places of one, have an input in common.
LEMMA InputsApart ==
    ASSUME NEW d \in Drivers, NEW e \in Drivers,
           NEW m \in DOMAIN Inputs[d], NEW n \in DOMAIN Inputs[e],
           Inputs[d][m] = Inputs[e][n]
    PROVE  d = e /\ m = n
BY SSGenAssumption

LEMMA GotoFacts ==
    ASSUME TypeOK, NEW d \in Drivers, NEW step \in Busy \cup Idle, Goto(d, step)
    PROVE  /\ driver' \in [Drivers -> DriverType]
           /\ driver'[d].step = step /\ driver'[d].run = driver[d].run
           /\ driver'[d].at = driver[d].at /\ driver'[d].rc = driver[d].rc
           /\ \A e \in Drivers \ {d} : driver'[e] = driver[e]
<1> DEFINE next == [driver[d] EXCEPT !.step = step]
<1>1. driver \in [Drivers -> DriverType]
  BY DEF TypeOK, DriverType
<1>2. driver' = [driver EXCEPT ![d] = next]
  BY DEF Goto
<1>3. /\ next \in DriverType /\ next.step = step /\ next.run = driver[d].run
      /\ next.at = driver[d].at /\ next.rc = driver[d].rc
  BY <1>1 DEF DriverType
<1> HIDE DEF next
<1> QED
  BY <1>1, <1>2, <1>3

LEMMA EndInputFacts ==
    ASSUME TypeOK, NEW d \in Drivers, NEW rc \in {0, 1, 124, 137}, EndInput(d, rc)
    PROVE  /\ driver' \in [Drivers -> DriverType]
           /\ driver'[d].run = driver[d].run
           /\ driver'[d].rc = IF rc # 0 THEN rc ELSE driver[d].rc
           /\ \/ /\ driver[d].at < Len(Inputs[d])
                 /\ driver'[d].at = driver[d].at + 1 /\ driver'[d].step = "shell"
              \/ /\ driver[d].at = Len(Inputs[d])
                 /\ driver'[d].at = driver[d].at /\ driver'[d].step = "ended"
           /\ \A e \in Drivers \ {d} : driver'[e] = driver[e]
<1> DEFINE now == driver[d]
           next == [run |-> now.run,
                    at |-> IF now.at < Len(Inputs[d]) THEN now.at + 1 ELSE now.at,
                    step |-> IF now.at < Len(Inputs[d]) THEN "shell" ELSE "ended",
                    rc |-> IF rc # 0 THEN rc ELSE now.rc]
<1>1. driver \in [Drivers -> DriverType] /\ now.at \in 1..Len(Inputs[d])
      /\ Len(Inputs[d]) \in Nat
  BY InputFacts DEF TypeOK, DriverType
<1>2. driver' = [driver EXCEPT ![d] = next]
  BY DEF EndInput
<1>3. /\ next \in DriverType /\ next.run = now.run
      /\ next.rc = IF rc # 0 THEN rc ELSE now.rc
      /\ \/ now.at < Len(Inputs[d]) /\ next.at = now.at + 1 /\ next.step = "shell"
         \/ now.at = Len(Inputs[d]) /\ next.at = now.at /\ next.step = "ended"
  BY <1>1 DEF DriverType, Busy, Idle
<1> HIDE DEF next
<1>4. driver'[d] = next /\ \A e \in Drivers \ {d} : driver'[e] = driver[e]
  BY <1>1, <1>2
<1>5. driver' \in [Drivers -> DriverType]
  BY <1>1, <1>2, <1>3
<1> QED
  BY <1>3, <1>4, <1>5

\* A driver whose record and files stay as they are has made the same progress.
LEMMA ProgressKept ==
    ASSUME NEW d \in Drivers, Progress(d), TypeOK, driver'[d] = driver[d],
           \A n \in DOMAIN Inputs[d] : /\ output'[Inputs[d][n]] = output[Inputs[d][n]]
                                       /\ json'[Inputs[d][n]] = json[Inputs[d][n]]
    PROVE  Progress(d)'
<1>1. driver[d].at \in DOMAIN Inputs[d]
  BY DEF TypeOK
<1>2. Input(d)' = Input(d) /\ Past(d)' = Past(d) /\ \A step : At(d, step)' = At(d, step)
  BY DEF Input, Past, At
<1>3. output'[Input(d)] = output[Input(d)] /\ json'[Input(d)] = json[Input(d)]
  BY <1>1 DEF Input
<1>4. \A n \in DOMAIN Inputs[d] : Fresh(d, Inputs[d][n])' = Fresh(d, Inputs[d][n])
  BY DEF Fresh
<1>5. Past(d) \subseteq DOMAIN Inputs[d]
  BY DEF Past
<1> QED
  BY <1>2, <1>3, <1>4, <1>5 DEF Progress

\* The other drivers do not see a step of d, which writes to its own input.
LEMMA OthersProgress ==
    ASSUME DriverInv, NEW d \in Drivers,
           \A e \in Drivers \ {d} : driver'[e] = driver[e],
           \A i \in AllInputs \ {Input(d)} : output'[i] = output[i] /\ json'[i] = json[i]
    PROVE  \A e \in Drivers \ {d} : Progress(e)'
<1> SUFFICES ASSUME NEW e \in Drivers \ {d} PROVE Progress(e)'
  OBVIOUS
<1>1. driver[d].at \in DOMAIN Inputs[d]
  BY DEF DriverInv, TypeOK
<1>2. \A n \in DOMAIN Inputs[e] : Inputs[e][n] \in AllInputs \ {Input(d)}
  BY <1>1, InputFacts, InputsApart DEF Input
<1> QED
  BY <1>2, ProgressKept DEF DriverInv

\* Between two inputs nothing is in hand.
LEMMA InputEnds ==
    ASSUME DriverInv, NEW d \in Drivers, driver[d].step \in Busy,
           NEW rc \in {0, 1, 124, 137}, EndInput(d, rc),
           \A i \in AllInputs \ {Input(d)} : output'[i] = output[i] /\ json'[i] = json[i],
           output'[Input(d)] \in {NoFile, [by |-> driver[d].run, whole |-> TRUE]},
           rc = 0 <=> /\ output'[Input(d)] = [by |-> driver[d].run, whole |-> TRUE]
                      /\ json'[Input(d)] = [by |-> driver[d].run, whole |-> TRUE]
    PROVE  Progress(d)'
<1>00. Progress(d) /\ driver[d].step \in Busy \cup {"ended"}
  BY DEF DriverInv
<1>0. PICK run, at, i : run = driver[d].run /\ at = driver[d].at /\ i = Inputs[d][at]
  OBVIOUS
<1>1. at \in DOMAIN Inputs[d] /\ DOMAIN Inputs[d] = 1..Len(Inputs[d]) /\ Len(Inputs[d]) \in Nat
  BY <1>0, InputFacts DEF DriverInv, TypeOK
<1>2. /\ driver'[d].run = run
      /\ driver'[d].rc = IF rc # 0 THEN rc ELSE driver[d].rc
      /\ \/ /\ at < Len(Inputs[d])
            /\ driver'[d].at = at + 1 /\ driver'[d].step = "shell"
         \/ /\ at = Len(Inputs[d])
            /\ driver'[d].at = at /\ driver'[d].step = "ended"
  BY <1>0, EndInputFacts DEF DriverInv
<1>3. driver[d].step # "ended" /\ Past(d) = {n \in DOMAIN Inputs[d] : n < at}
  BY <1>0 DEF Past, At, Busy
<1>4. Past(d)' = Past(d) \cup {at} /\ at \notin Past(d)
  BY <1>1, <1>2, <1>3 DEF Past, At
<1>5. \A n \in DOMAIN Inputs[d] \ {at} :
         /\ output'[Inputs[d][n]] = output[Inputs[d][n]]
         /\ json'[Inputs[d][n]] = json[Inputs[d][n]]
  BY <1>0, <1>1, InputFacts, InputsApart DEF Input
<1>6. \A n \in Past(d) : Fresh(d, Inputs[d][n])' = Fresh(d, Inputs[d][n])
  BY <1>0, <1>2, <1>4, <1>5, <1>3 DEF Fresh
<1>7. rc = 0 <=> Fresh(d, i)'
  BY <1>0, <1>2 DEF Fresh, Input
<1>8. driver'[d].rc = 0 <=> \A n \in Past(d)' : Fresh(d, Inputs[d][n])'
  <2>1. driver[d].rc = 0 <=> \A n \in Past(d) : Fresh(d, Inputs[d][n])
    BY <1>00 DEF Progress
  <2>2. driver'[d].rc = 0 <=> rc = 0 /\ driver[d].rc = 0
    BY <1>2
  <2> QED
    BY <1>0, <1>4, <1>6, <1>7, <2>1, <2>2
<1>9. \A n \in Past(d)' :
         output'[Inputs[d][n]] \in {NoFile, [by |-> run, whole |-> TRUE]}
  <2>1. \A n \in Past(d) :
           output[Inputs[d][n]] \in {NoFile, [by |-> run, whole |-> TRUE]}
    BY <1>00, <1>0 DEF Progress
  <2> QED
    BY <1>0, <1>3, <1>4, <1>5, <2>1 DEF Input
<1>10. \A n \in DOMAIN Inputs[d] \ Past(d)' :
         json'[Inputs[d][n]] = NoFile \/ json'[Inputs[d][n]].by # run
  <2>1. ASSUME NEW n \in DOMAIN Inputs[d] \ (Past(d) \cup {at})
        PROVE  json[Inputs[d][n]] = NoFile \/ json[Inputs[d][n]].by # run
    <3>1. n \in DOMAIN Inputs[d] \ Past(d) /\ n # driver[d].at
      BY <1>0
    <3>2. \/ json[Inputs[d][n]] = NoFile
          \/ json[Inputs[d][n]].by # driver[d].run
          \/ At(d, "dump") /\ n = driver[d].at
      BY <1>00, <3>1, Zenon DEF Progress
    <3> QED
      BY <1>0, <3>1, <3>2
  <2> QED
    BY <1>4, <1>5, <2>1
<1>11. driver'[d].step \in {"shell", "ended"}
  BY <1>2
<1> QED
  BY <1>2, <1>8, <1>9, <1>10, <1>11 DEF Progress, At

\* The driver goes on with the input in hand.
LEMMA InputGoesOn ==
    ASSUME DriverInv, NEW d \in Drivers, driver[d].step \in Busy,
           NEW step \in {"opt", "load", "map", "dump"}, Goto(d, step),
           \A i \in AllInputs \ {Input(d)} : output'[i] = output[i] /\ json'[i] = json[i],
           output'[Input(d)] = [by |-> driver[d].run, whole |-> step # "opt"],
           IF step = "dump"
           THEN json'[Input(d)] = [by |-> driver[d].run, whole |-> FALSE]
           ELSE json'[Input(d)] = NoFile \/ json'[Input(d)].by # driver[d].run
    PROVE  Progress(d)'
<1>00. Progress(d) /\ driver[d].step \in Busy \cup {"ended"}
  BY DEF DriverInv
<1>0. PICK run, at, i : run = driver[d].run /\ at = driver[d].at /\ i = Inputs[d][at]
  OBVIOUS
<1>1. at \in DOMAIN Inputs[d] /\ DOMAIN Inputs[d] = 1..Len(Inputs[d]) /\ Len(Inputs[d]) \in Nat
  BY <1>0, InputFacts DEF DriverInv, TypeOK
<1>2. /\ driver'[d].step = step /\ driver'[d].run = run
      /\ driver'[d].at = at /\ driver'[d].rc = driver[d].rc
  BY <1>0, GotoFacts DEF DriverInv, Busy
<1>3. Past(d)' = Past(d) /\ Past(d) \subseteq DOMAIN Inputs[d] \ {at}
  BY <1>0, <1>1, <1>2 DEF Past, At, Busy
<1>4. \A n \in DOMAIN Inputs[d] \ {at} :
         /\ output'[Inputs[d][n]] = output[Inputs[d][n]]
         /\ json'[Inputs[d][n]] = json[Inputs[d][n]]
  BY <1>0, <1>1, InputFacts, InputsApart DEF Input
<1>5. \A n \in Past(d) : Fresh(d, Inputs[d][n])' = Fresh(d, Inputs[d][n])
  BY <1>0, <1>2, <1>3, <1>4 DEF Fresh
<1>6. driver'[d].rc = 0 <=> \A n \in Past(d)' : Fresh(d, Inputs[d][n])'
  <2>1. driver[d].rc = 0 <=> \A n \in Past(d) : Fresh(d, Inputs[d][n])
    BY <1>00 DEF Progress
  <2> QED
    BY <1>2, <1>3, <1>5, <2>1
<1>7. \A n \in Past(d)' :
         output'[Inputs[d][n]] \in {NoFile, [by |-> run, whole |-> TRUE]}
  <2>1. \A n \in Past(d) :
           output[Inputs[d][n]] \in {NoFile, [by |-> run, whole |-> TRUE]}
    BY <1>00, <1>0 DEF Progress
  <2> QED
    BY <1>3, <1>4, <2>1
<1>8. \A n \in DOMAIN Inputs[d] \ Past(d)' :
         \/ json'[Inputs[d][n]] = NoFile \/ json'[Inputs[d][n]].by # run
         \/ step = "dump" /\ n = at
  <2>1. ASSUME NEW n \in DOMAIN Inputs[d] \ (Past(d) \cup {at})
        PROVE  json[Inputs[d][n]] = NoFile \/ json[Inputs[d][n]].by # run
    <3>1. n \in DOMAIN Inputs[d] \ Past(d) /\ n # driver[d].at
      BY <1>0
    <3>2. \/ json[Inputs[d][n]] = NoFile
          \/ json[Inputs[d][n]].by # driver[d].run
          \/ At(d, "dump") /\ n = driver[d].at
      BY <1>00, <3>1, Zenon DEF Progress
    <3> QED
      BY <1>0, <3>1, <3>2
  <2>2. step # "dump" => json'[Inputs[d][at]] = NoFile \/ json'[Inputs[d][at]].by # run
    BY <1>0 DEF Input
  <2> QED
    BY <1>3, <1>4, <2>1, <2>2
<1>9. /\ step = "opt" => output'[i] = [by |-> run, whole |-> FALSE]
      /\ step # "opt" => output'[i] = [by |-> run, whole |-> TRUE]
      /\ step = "dump" => json'[i] = [by |-> run, whole |-> FALSE]
      /\ Input(d)' = i
  BY <1>0, <1>2 DEF Input
<1> QED
  BY <1>2, <1>6, <1>7, <1>8, <1>9 DEF Progress, At

\* A step of driver d, given what it does to its record and its files.
LEMMA DriverMoves ==
    ASSUME DriverInv, CacheTypeOK', NEW d \in Drivers,
           driver' \in [Drivers -> DriverType], driver'[d].at \in DOMAIN Inputs[d],
           \A e \in Drivers \ {d} : driver'[e] = driver[e],
           starts' \in Nat, kills' \in Nat, starts <= starts', driver'[d].run <= starts',
           output' \in [AllInputs -> {NoFile} \cup FileType],
           json' \in [AllInputs -> {NoFile} \cup FileType],
           \A i \in AllInputs \ {Input(d)} : output'[i] = output[i] /\ json'[i] = json[i],
           json'[Input(d)] = NoFile \/ json'[Input(d)].by <= starts',
           Progress(d)'
    PROVE  DriverInv'
<1>1. TypeOK'
  BY DEF DriverInv, TypeOK, DriverType
<1>2. starts \in Nat /\ driver \in [Drivers -> DriverType]
      /\ json \in [AllInputs -> {NoFile} \cup FileType]
  BY DEF DriverInv, TypeOK, DriverType
<1>3. NoneAhead'
  <2> SUFFICES ASSUME NEW i \in AllInputs, i # Input(d), json[i] # NoFile
               PROVE  json[i].by <= starts'
    BY DEF NoneAhead
  <2>1. json[i].by \in Nat /\ json[i].by <= starts
    BY <1>2 DEF DriverInv, NoneAhead, FileType
  <2> QED
    BY <1>2, <2>1
<1>4. Started'
  <2> SUFFICES ASSUME NEW e \in Drivers, e # d PROVE driver[e].run <= starts'
    BY DEF Started
  <2>1. driver[e].run \in Nat /\ driver[e].run <= starts
    BY <1>2 DEF DriverInv, Started, DriverType
  <2> QED
    BY <1>2, <2>1
<1>5. \A e \in Drivers : Progress(e)'
  BY OthersProgress
<1> QED
  BY <1>1, <1>3, <1>4, <1>5 DEF DriverInv

\* What a step of d that keeps its run and its place, or moves to the next
\* input, need not say again.
LEMMA DriverFacts ==
    ASSUME DriverInv, NEW d \in Drivers
    PROVE  /\ starts \in Nat /\ kills \in Nat /\ driver[d].run \in Nat
           /\ driver[d].run <= starts
           /\ driver[d].at \in DOMAIN Inputs[d] /\ Input(d) \in AllInputs
           /\ output \in [AllInputs -> {NoFile} \cup FileType]
           /\ json \in [AllInputs -> {NoFile} \cup FileType]
           /\ json[Input(d)] = NoFile \/ json[Input(d)].by <= starts
           /\ \A whole \in BOOLEAN : /\ [by |-> driver[d].run, whole |-> whole] \in FileType
                                     /\ [by |-> driver[d].run, whole |-> whole] # NoFile
<1>1. /\ starts \in Nat /\ kills \in Nat /\ driver[d].run \in Nat
      /\ driver[d].at \in DOMAIN Inputs[d]
      /\ output \in [AllInputs -> {NoFile} \cup FileType]
      /\ json \in [AllInputs -> {NoFile} \cup FileType]
  BY DEF DriverInv, TypeOK
<1>2. Input(d) \in AllInputs
  BY <1>1, InputFacts DEF Input
<1>3. driver[d].run <= starts /\ (json[Input(d)] = NoFile \/ json[Input(d)].by <= starts)
  BY <1>2 DEF DriverInv, Started, NoneAhead
<1>4. \A whole \in BOOLEAN : /\ [by |-> driver[d].run, whole |-> whole] \in FileType
                             /\ [by |-> driver[d].run, whole |-> whole] # NoFile
  BY <1>1, SSGenAssumption DEF FileType
<1> QED
  BY <1>1, <1>2, <1>3, <1>4

LEMMA StartDriverStep ==
    ASSUME DriverInv, CacheTypeOK', NEW d \in Drivers, StartDriver(d)
    PROVE  DriverInv'
<1> DEFINE first == [run |-> starts + 1, at |-> 1, step |-> "shell", rc |-> 0]
<1>1. driver' = [driver EXCEPT ![d] = first] /\ starts' = starts + 1
      /\ UNCHANGED <<output, json, kills>>
  BY DEF StartDriver, filesVars
<1>2. driver \in [Drivers -> DriverType] /\ starts \in Nat
  BY DEF DriverInv, TypeOK, DriverType
<1>3. /\ first \in DriverType /\ first.run = starts + 1 /\ first.at = 1
      /\ first.step = "shell" /\ first.rc = 0
  BY <1>2 DEF DriverType, Busy
<1> HIDE DEF first
<1>4. /\ driver' \in [Drivers -> DriverType] /\ driver'[d] = first
      /\ \A e \in Drivers \ {d} : driver'[e] = driver[e]
  BY <1>1, <1>2, <1>3
<1>5. 1 \in DOMAIN Inputs[d] /\ DOMAIN Inputs[d] \subseteq Nat \ {0}
  BY InputFacts
<1>6. Past(d)' = {}
  BY <1>3, <1>4, <1>5 DEF Past, At
<1>7. \A n \in DOMAIN Inputs[d] :
         json[Inputs[d][n]] = NoFile \/ json[Inputs[d][n]].by # starts + 1
  <2> SUFFICES ASSUME NEW i \in AllInputs PROVE json[i] = NoFile \/ json[i].by # starts + 1
    BY InputFacts
  <2>1. json[i] = NoFile \/ (json[i].by \in Nat /\ json[i].by <= starts)
    BY DEF DriverInv, TypeOK, NoneAhead, FileType
  <2> QED
    BY <1>2, <2>1
<1>8. Progress(d)'
  BY <1>1, <1>3, <1>4, <1>6, <1>7 DEF Progress, At
<1>9. /\ kills' \in Nat /\ starts' \in Nat /\ starts <= starts'
      /\ driver'[d].run <= starts' /\ driver'[d].at \in DOMAIN Inputs[d]
      /\ output' \in [AllInputs -> {NoFile} \cup FileType]
      /\ json' \in [AllInputs -> {NoFile} \cup FileType]
  BY <1>1, <1>2, <1>3, <1>4, <1>5, DriverFacts
<1>10. json'[Input(d)] = NoFile \/ json'[Input(d)].by <= starts'
  <2>1. json[Input(d)] = NoFile \/ (json[Input(d)].by \in Nat /\ json[Input(d)].by <= starts)
    BY DriverFacts DEF FileType
  <2> QED
    BY <1>1, <1>2, <2>1
<1> QED
  BY <1>1, <1>4, <1>8, <1>9, <1>10, DriverMoves

\* A file that is complete
LEMMA Completed ==
    ASSUME NEW r, NEW n, r = [by |-> n, whole |-> FALSE]
    PROVE  [r EXCEPT !.whole = TRUE] = [by |-> n, whole |-> TRUE]
<1>1. r \in [by : {n}, whole : BOOLEAN]
  OBVIOUS
<1>2. PICK t : t = [r EXCEPT !.whole = TRUE]
  OBVIOUS
<1>3. t \in [by : {n}, whole : BOOLEAN] /\ t.by = n /\ t.whole = TRUE
  BY <1>1, <1>2
<1>4. t = [by |-> n, whole |-> TRUE]
  BY <1>3
<1> QED
  BY <1>2, <1>4

\* A step within an input
LEMMA GotoStep ==
    ASSUME DriverInv, CacheTypeOK', NEW d \in Drivers,
           Stage1(d) \/ Stage1Ok(d) \/ LoadOk(d) \/ Map(d)
    PROVE  DriverInv'
<1>1. PICK run, i : run = driver[d].run /\ i = Input(d)
  OBVIOUS
<1>2. /\ starts' = starts /\ kills' = kills
  BY DEF Stage1, Stage1Ok, LoadOk, Map
<1>3. /\ i \in AllInputs /\ run \in Nat
      /\ output \in [AllInputs -> {NoFile} \cup FileType]
      /\ json \in [AllInputs -> {NoFile} \cup FileType]
      /\ json[i] = NoFile \/ json[i].by <= starts
      /\ \A whole \in BOOLEAN : [by |-> run, whole |-> whole] \in FileType
      /\ driver[d].at \in DOMAIN Inputs[d] /\ run <= starts
      /\ starts \in Nat /\ kills \in Nat
  BY <1>1, DriverFacts
<1>4. \E step \in {"opt", "load", "map", "dump"} :
        /\ Goto(d, step) /\ driver[d].step \in Busy
        /\ output' = [output EXCEPT ![i] = [by |-> run, whole |-> step # "opt"]]
        /\ \/ step # "dump" /\ json' = json /\ (json[i] = NoFile \/ json[i].by # run)
           \/ /\ step = "dump"
              /\ json' = [json EXCEPT ![i] = [by |-> run, whole |-> FALSE]]
  <2>1. driver[d].at \notin Past(d) \/ At(d, "ended")
    BY <1>3, InputFacts DEF Past
  <2>2. driver[d].step \in Busy \ {"dump"} => json[i] = NoFile \/ json[i].by # run
    BY <1>1, <1>3, <2>1 DEF DriverInv, Progress, At, Busy, Input
  <2>3. CASE Stage1(d)
    BY <1>1, <2>2, <2>3 DEF Stage1, At, Busy
  <2>4. CASE Stage1Ok(d)
    <3>1. /\ At(d, "opt") /\ Goto(d, "load") /\ json' = json
          /\ output' = [output EXCEPT ![i].whole = TRUE]
      BY <1>1, <2>4 DEF Stage1Ok
    <3>2. output[i] = [by |-> run, whole |-> FALSE]
      BY <1>1, <3>1 DEF DriverInv, Progress, At, Busy
    <3>3. [output[i] EXCEPT !.whole = TRUE] = [by |-> run, whole |-> TRUE]
      BY <3>2, Completed
    <3>4. output' = [output EXCEPT ![i] = [by |-> run, whole |-> TRUE]]
      BY <3>1, <3>3
    <3> QED
      BY <2>2, <3>1, <3>4 DEF At, Busy
  <2>5. CASE LoadOk(d)
    <3>1. At(d, "load") /\ Goto(d, "map") /\ json' = json /\ output' = output
      BY <2>5 DEF LoadOk, filesVars
    <3>2. output[i] = [by |-> run, whole |-> TRUE]
      BY <1>1, <3>1 DEF DriverInv, Progress, At, Busy
    <3>3. output' = [output EXCEPT ![i] = [by |-> run, whole |-> TRUE]]
      BY <1>3, <3>1, <3>2
    <3> QED
      BY <2>2, <3>1, <3>3 DEF At, Busy
  <2>6. CASE Map(d)
    <3>1. /\ At(d, "map") /\ Goto(d, "dump") /\ output' = output
          /\ json' = [json EXCEPT ![i] = [by |-> run, whole |-> FALSE]]
      BY <1>1, <2>6 DEF Map
    <3>2. output[i] = [by |-> run, whole |-> TRUE]
      BY <1>1, <3>1 DEF DriverInv, Progress, At, Busy
    <3>3. output' = [output EXCEPT ![i] = [by |-> run, whole |-> TRUE]]
      BY <1>3, <3>1, <3>2
    <3> QED
      BY <3>1, <3>3 DEF At, Busy
  <2> QED
    BY <2>3, <2>4, <2>5, <2>6
<1>5. PICK step \in {"opt", "load", "map", "dump"} :
        /\ Goto(d, step) /\ driver[d].step \in Busy
        /\ output' = [output EXCEPT ![i] = [by |-> run, whole |-> step # "opt"]]
        /\ \/ step # "dump" /\ json' = json /\ (json[i] = NoFile \/ json[i].by # run)
           \/ /\ step = "dump"
              /\ json' = [json EXCEPT ![i] = [by |-> run, whole |-> FALSE]]
  BY <1>4
<1>6. /\ output' \in [AllInputs -> {NoFile} \cup FileType]
      /\ json' \in [AllInputs -> {NoFile} \cup FileType]
      /\ \A j \in AllInputs \ {i} : output'[j] = output[j] /\ json'[j] = json[j]
      /\ output'[i] = [by |-> run, whole |-> step # "opt"]
      /\ IF step = "dump" THEN json'[i] = [by |-> run, whole |-> FALSE]
         ELSE json'[i] = NoFile \/ json'[i].by # run
      /\ json'[i] = NoFile \/ json'[i].by <= starts
  <2>1. PICK o : o = [by |-> run, whole |-> step # "opt"]
    OBVIOUS
  <2>2. o \in FileType
    BY <1>3, <2>1
  <2>3. /\ output' \in [AllInputs -> {NoFile} \cup FileType]
        /\ \A j \in AllInputs \ {i} : output'[j] = output[j]
        /\ output'[i] = o
    BY <1>3, <1>5, <2>1, <2>2
  <2>4. PICK w : w = [by |-> run, whole |-> FALSE]
    OBVIOUS
  <2>5. w \in FileType /\ w.by = run
    BY <1>3, <2>4
  <2>6. /\ json' \in [AllInputs -> {NoFile} \cup FileType]
        /\ \A j \in AllInputs \ {i} : json'[j] = json[j]
        /\ IF step = "dump" THEN json'[i] = w
           ELSE json'[i] = json[i] /\ (json[i] = NoFile \/ json[i].by # run)
    BY <1>3, <1>5, <2>4, <2>5
  <2> QED
    BY <1>3, <2>1, <2>3, <2>4, <2>5, <2>6
<1>7. Progress(d)'
  BY <1>1, <1>5, <1>6, InputGoesOn
<1>8. /\ driver' \in [Drivers -> DriverType] /\ driver'[d].run = run
      /\ driver'[d].at = driver[d].at
      /\ \A e \in Drivers \ {d} : driver'[e] = driver[e]
  BY <1>1, <1>5, GotoFacts DEF DriverInv, Busy
<1>9. starts' \in Nat /\ kills' \in Nat /\ starts <= starts' /\ driver'[d].run <= starts'
  BY <1>2, <1>3, <1>8
<1> QED
  BY <1>1, <1>2, <1>3, <1>6, <1>7, <1>8, <1>9, DriverMoves

\* A step that ends an input, given what it leaves in its files
LEMMA EndStep ==
    ASSUME DriverInv, CacheTypeOK', NEW d \in Drivers, driver[d].step \in Busy,
           NEW rc \in {0, 1, 124, 137}, EndInput(d, rc),
           starts' = starts, kills' \in Nat,
           output' \in [AllInputs -> {NoFile} \cup FileType],
           json' \in [AllInputs -> {NoFile} \cup FileType],
           \A i \in AllInputs \ {Input(d)} : output'[i] = output[i] /\ json'[i] = json[i],
           output'[Input(d)] \in {NoFile, [by |-> driver[d].run, whole |-> TRUE]},
           rc = 0 <=> /\ output'[Input(d)] = [by |-> driver[d].run, whole |-> TRUE]
                      /\ json'[Input(d)] = [by |-> driver[d].run, whole |-> TRUE],
           json'[Input(d)] = NoFile \/ json'[Input(d)].by <= starts
    PROVE  DriverInv'
<1>1. Progress(d)'
  BY InputEnds
<1>2. /\ driver' \in [Drivers -> DriverType] /\ driver'[d].run = driver[d].run
      /\ driver'[d].at = driver[d].at
            \/ (driver[d].at < Len(Inputs[d]) /\ driver'[d].at = driver[d].at + 1)
      /\ \A e \in Drivers \ {d} : driver'[e] = driver[e]
  BY EndInputFacts DEF DriverInv
<1>3. starts \in Nat /\ driver[d].run <= starts /\ driver[d].at \in DOMAIN Inputs[d]
  BY DriverFacts
<1>4. driver'[d].at \in DOMAIN Inputs[d]
  BY <1>2, <1>3, InputFacts
<1>5. starts' \in Nat /\ starts <= starts' /\ driver'[d].run <= starts'
  BY <1>2, <1>3
<1> QED
  BY <1>1, <1>2, <1>4, <1>5, DriverMoves

\* Stage 2 fails or is killed: the json is not this run's, or it is short.
LEMMA Stage2FailsStep ==
    ASSUME DriverInv, CacheTypeOK', NEW d \in Drivers,
           LoadFails(d) \/ MapFails(d) \/ KillStage2(d)
    PROVE  DriverInv'
<1>1. /\ driver[d].step \in {"load", "map", "dump"} /\ starts' = starts
      /\ UNCHANGED <<output, json>> /\ kills' \in {kills, kills + 1}
      /\ \E rc \in {1, 137} : EndInput(d, rc)
  BY DEF LoadFails, MapFails, KillStage2, At, filesVars
<1>0. Progress(d) /\ driver[d].step \in Busy \cup {"ended"}
  BY <1>1 DEF DriverInv, Busy
<1>2. /\ starts \in Nat /\ kills \in Nat /\ driver[d].at \in DOMAIN Inputs[d]
      /\ output \in [AllInputs -> {NoFile} \cup FileType]
      /\ json \in [AllInputs -> {NoFile} \cup FileType]
      /\ json[Input(d)] = NoFile \/ json[Input(d)].by <= starts
      /\ [by |-> driver[d].run, whole |-> TRUE] # NoFile
  BY DriverFacts
<1>3. output[Input(d)] = [by |-> driver[d].run, whole |-> TRUE]
  BY <1>1 DEF DriverInv, Progress, Busy
<1>4. json[Input(d)] # [by |-> driver[d].run, whole |-> TRUE]
  <2>1. driver[d].at \notin Past(d)
    BY <1>1, <1>2, InputFacts DEF Past, At
  <2>2. CASE At(d, "dump")
    <3>1. json[Input(d)] = [by |-> driver[d].run, whole |-> FALSE]
      BY <1>0, <2>2 DEF Progress
    <3> QED
      BY <3>1
  <2>3. CASE ~At(d, "dump")
    <3>1. driver[d].at \in DOMAIN Inputs[d] \ Past(d)
      BY <1>2, <2>1
    <3>2. \/ json[Inputs[d][driver[d].at]] = NoFile
          \/ json[Inputs[d][driver[d].at]].by # driver[d].run
      BY <1>0, <2>3, <3>1, Zenon DEF Progress
    <3> QED
      BY <1>2, <3>2 DEF Input
  <2> QED
    BY <2>2, <2>3
<1>5. PICK rc \in {1, 137} : EndInput(d, rc)
  BY <1>1
<1>6. driver[d].step \in Busy /\ kills' \in Nat
  BY <1>1, <1>2 DEF Busy
<1> QED
  BY <1>1, <1>2, <1>3, <1>4, <1>5, <1>6, EndStep

\* Stage 1 fails: the output is removed.
LEMMA Stage1FailsStep ==
    ASSUME DriverInv, CacheTypeOK', NEW d \in Drivers, NEW rc \in {1, 124},
           Stage1Fails(d, rc)
    PROVE  DriverInv'
<1>1. /\ driver[d].step \in Busy /\ EndInput(d, rc) /\ starts' = starts
      /\ output' = [output EXCEPT ![Input(d)] = NoFile] /\ json' = json /\ kills' = kills
  BY DEF Stage1Fails, At, Busy
<1>2. /\ kills \in Nat /\ Input(d) \in AllInputs
      /\ output \in [AllInputs -> {NoFile} \cup FileType]
      /\ json \in [AllInputs -> {NoFile} \cup FileType]
      /\ json[Input(d)] = NoFile \/ json[Input(d)].by <= starts
      /\ [by |-> driver[d].run, whole |-> TRUE] # NoFile
  BY DriverFacts
<1>3. /\ output' \in [AllInputs -> {NoFile} \cup FileType]
      /\ output'[Input(d)] = NoFile
      /\ \A i \in AllInputs \ {Input(d)} : output'[i] = output[i]
  BY <1>1, <1>2
<1>4. /\ rc \in {0, 1, 124, 137} /\ kills' \in Nat
      /\ json' \in [AllInputs -> {NoFile} \cup FileType]
      /\ \A i \in AllInputs \ {Input(d)} : json'[i] = json[i]
      /\ json'[Input(d)] = NoFile \/ json'[Input(d)].by <= starts
  BY <1>1, <1>2
<1>5. rc = 0 <=> /\ output'[Input(d)] = [by |-> driver[d].run, whole |-> TRUE]
                 /\ json'[Input(d)] = [by |-> driver[d].run, whole |-> TRUE]
  BY <1>2, <1>3
<1>6. output'[Input(d)] \in {NoFile, [by |-> driver[d].run, whole |-> TRUE]}
  BY <1>3
<1>7. \A i \in AllInputs \ {Input(d)} : output'[i] = output[i] /\ json'[i] = json[i]
  BY <1>3, <1>4
<1>8. /\ driver[d].step \in Busy /\ EndInput(d, rc) /\ starts' = starts
      /\ output' \in [AllInputs -> {NoFile} \cup FileType]
  BY <1>1, <1>3
<1> QED
  BY <1>4, <1>5, <1>6, <1>7, <1>8, EndStep

\* The json is complete.
LEMMA DumpStep ==
    ASSUME DriverInv, CacheTypeOK', NEW d \in Drivers, Dump(d)
    PROVE  DriverInv'
<1>1. /\ At(d, "dump") /\ EndInput(d, 0) /\ starts' = starts /\ output' = output
      /\ json' = [json EXCEPT ![Input(d)].whole = TRUE] /\ kills' = kills
  BY DEF Dump
<1>2. /\ kills \in Nat /\ Input(d) \in AllInputs /\ driver[d].run <= starts
      /\ output \in [AllInputs -> {NoFile} \cup FileType]
      /\ json \in [AllInputs -> {NoFile} \cup FileType]
      /\ [by |-> driver[d].run, whole |-> TRUE] \in FileType
  BY DriverFacts
<1>3. /\ output[Input(d)] = [by |-> driver[d].run, whole |-> TRUE]
      /\ json[Input(d)] = [by |-> driver[d].run, whole |-> FALSE]
      /\ driver[d].step \in Busy
  BY <1>1 DEF DriverInv, Progress, Busy, At
<1>4. [json[Input(d)] EXCEPT !.whole = TRUE] = [by |-> driver[d].run, whole |-> TRUE]
  BY <1>3, Completed
<1>5. PICK w : w = [by |-> driver[d].run, whole |-> TRUE]
  OBVIOUS
<1>6. /\ json' = [json EXCEPT ![Input(d)] = w]
      /\ w \in FileType /\ w.by = driver[d].run
  BY <1>1, <1>2, <1>4, <1>5
<1>7. /\ json' \in [AllInputs -> {NoFile} \cup FileType]
      /\ json'[Input(d)] = w
      /\ \A i \in AllInputs \ {Input(d)} : json'[i] = json[i]
  BY <1>2, <1>6
<1> QED
  BY <1>1, <1>2, <1>3, <1>5, <1>6, <1>7, EndStep

\* A driver that is killed promises nothing.
LEMMA KillDriverStep ==
    ASSUME DriverInv, CacheTypeOK', NEW d \in Drivers, KillDriver(d)
    PROVE  DriverInv'
<1>1. /\ Goto(d, "killed") /\ starts' = starts /\ UNCHANGED <<output, json>>
      /\ kills' = kills + 1
  BY DEF KillDriver, filesVars
<1>2. /\ driver' \in [Drivers -> DriverType] /\ driver'[d].run = driver[d].run
      /\ driver'[d].at = driver[d].at /\ driver'[d].step = "killed"
      /\ \A e \in Drivers \ {d} : driver'[e] = driver[e]
  BY <1>1, GotoFacts DEF DriverInv, Idle
<1>3. Progress(d)'
  BY <1>2 DEF Progress, Busy
<1>4. /\ starts \in Nat /\ kills \in Nat /\ driver[d].at \in DOMAIN Inputs[d]
      /\ driver[d].run <= starts
      /\ output \in [AllInputs -> {NoFile} \cup FileType]
      /\ json \in [AllInputs -> {NoFile} \cup FileType]
      /\ json[Input(d)] = NoFile \/ json[Input(d)].by <= starts
  BY DriverFacts
<1>5. /\ starts' \in Nat /\ kills' \in Nat /\ starts <= starts'
      /\ driver'[d].run <= starts'
  BY <1>1, <1>2, <1>4
<1> QED
  BY <1>1, <1>2, <1>3, <1>4, <1>5, DriverMoves

\* A step of the cache alone, or of a generator
LEMMA ElsewhereStep ==
    ASSUME DriverInv, CacheTypeOK', UNCHANGED <<driver, output, json>>,
           starts' \in {starts, starts + 1}, kills' \in {kills, kills + 1}
    PROVE  DriverInv'
<1>1. starts \in Nat /\ kills \in Nat /\ json \in [AllInputs -> {NoFile} \cup FileType]
      /\ driver \in [Drivers -> DriverType]
  BY DEF DriverInv, TypeOK, DriverType
<1>2. TypeOK'
  BY <1>1 DEF DriverInv, TypeOK
<1>3. NoneAhead'
  <2> SUFFICES ASSUME NEW i \in AllInputs, json[i] # NoFile PROVE json[i].by <= starts'
    BY DEF NoneAhead
  <2>1. json[i].by \in Nat /\ json[i].by <= starts
    BY <1>1 DEF DriverInv, NoneAhead, FileType
  <2> QED
    BY <1>1, <2>1
<1>4. Started'
  <2> SUFFICES ASSUME NEW e \in Drivers PROVE driver[e].run <= starts'
    BY DEF Started
  <2>1. driver[e].run \in Nat /\ driver[e].run <= starts
    BY <1>1 DEF DriverInv, Started, DriverType
  <2> QED
    BY <1>1, <2>1
<1>5. \A e \in Drivers : Progress(e)'
  BY ProgressKept DEF DriverInv
<1> QED
  BY <1>2, <1>3, <1>4, <1>5 DEF DriverInv

LEMMA DriverInvInit == Init => DriverInv
<1> SUFFICES ASSUME Init PROVE DriverInv
  OBVIOUS
<1>1. CacheTypeOK
  BY CacheInvInit DEF CacheInv
<1>2. \A d \in Drivers : 1 \in DOMAIN Inputs[d]
  BY InputFacts
<1>3. TypeOK
  BY <1>1, <1>2 DEF Init, TypeOK, Busy, Idle
<1>4. \A d \in Drivers : Progress(d)
  BY DEF Init, Progress, Busy
<1> QED
  BY <1>3, <1>4 DEF Init, DriverInv, NoneAhead, Started

LEMMA DriverInvStep ==
    ASSUME DriverInv, CacheInv, [Next]_vars
    PROVE  DriverInv'
<1>0. CacheTypeOK'
  BY CacheInvStep DEF CacheInv
<1>1. ASSUME NEW d \in Drivers, StartDriver(d) \/ DriverStep(d) \/ Stage1Ok(d)
             \/ Stage1Fails(d, 1) \/ KillDriver(d) \/ KillStage2(d)
      PROVE  DriverInv'
  <2>1. CASE StartDriver(d)
    BY <1>0, <2>1, StartDriverStep
  <2>2. CASE Stage1(d) \/ Stage1Ok(d) \/ LoadOk(d) \/ Map(d)
    BY <1>0, <2>2, GotoStep
  <2>3. CASE Stage1Fails(d, 124) \/ Stage1Fails(d, 1)
    BY <1>0, <2>3, Stage1FailsStep
  <2>4. CASE LoadFails(d) \/ MapFails(d) \/ KillStage2(d)
    BY <1>0, <2>4, Stage2FailsStep
  <2>5. CASE Dump(d)
    BY <1>0, <2>5, DumpStep
  <2>6. CASE KillDriver(d)
    BY <1>0, <2>6, KillDriverStep
  <2>7. CASE Load(d)
    BY <1>0, <2>7, ElsewhereStep DEF Load, filesVars
  <2> QED
    BY <1>1, <2>1, <2>2, <2>3, <2>4, <2>5, <2>6, <2>7 DEF DriverStep
<1>2. ASSUME NEW g \in Generators, Generate(g) \/ GenerateStep(g) \/ KillGenerate(g)
      PROVE  DriverInv'
  <2>1. /\ UNCHANGED <<driver, output, json>>
        /\ starts' \in {starts, starts + 1} /\ kills' \in {kills, kills + 1}
    BY <1>2 DEF Generate, GenerateStep, KillGenerate, filesVars
  <2> QED
    BY <1>0, <2>1, ElsewhereStep
<1>3. CASE UNCHANGED vars
  BY <1>0, <1>3, ElsewhereStep DEF vars, filesVars
<1> QED
  BY <1>1, <1>2, <1>3 DEF Next

LEMMA DriversProgress == Spec => []DriverInv
<1>1. DriverInv /\ CacheInv /\ [Next]_vars => DriverInv'
  BY DriverInvStep
<1> QED
  BY <1>1, CacheInvInit, CacheInvStep, DriverInvInit, PTL DEF Spec

\* The variables of the drivers, the files and the cache keep their types: a
\* driver never goes past its last input (run_one in ss-gen.sh).
THEOREM DriversTyped == Spec => []TypeOK
<1>1. DriverInv => TypeOK
  BY DEF DriverInv
<1> QED
  BY <1>1, DriversProgress, PTL

\* When ss-gen.sh ends with 0 every input has an output and a json that this
\* run wrote in full, and when it ends with another code one of them has not
\* ("run_one ... || rc=$?"), whatever was killed in between.
THEOREM ExitCodeTells == Spec => []ExitTells
<1>1. DriverInv => ExitTells
  <2> SUFFICES ASSUME DriverInv, NEW d \in Drivers, At(d, "ended")
               PROVE  driver[d].rc = 0 <=> \A i \in InputsOf(d) : Fresh(d, i)
    BY DEF ExitTells
  <2>1. Past(d) = DOMAIN Inputs[d]
    BY DEF Past
  <2>2. driver[d].rc = 0 <=> \A n \in Past(d) : Fresh(d, Inputs[d][n])
    BY DEF DriverInv, Progress, At
  <2> QED
    BY <2>1, <2>2 DEF InputsOf
<1> QED
  BY <1>1, DriversProgress, PTL

\* No output.txt that an ended driver leaves is short or of an earlier run:
\* the redirection empties it, and a stage 1 that fails removes it.
THEOREM OutputsAreWhole == Spec => []OutputsWhole
<1>1. DriverInv => OutputsWhole
  <2> SUFFICES ASSUME DriverInv, NEW d \in Drivers, At(d, "ended"),
                      NEW i \in InputsOf(d), output[i] # NoFile
               PROVE  output[i] = [by |-> driver[d].run, whole |-> TRUE]
    BY DEF OutputsWhole
  <2>1. PICK n \in Past(d) : i = Inputs[d][n]
    BY DEF Past, InputsOf
  <2> QED
    BY <2>1 DEF DriverInv, Progress, At
<1> QED
  BY <1>1, DriversProgress, PTL

-----------------------------------------------------------------------------
(* A driver never goes back *)

\* What ends one file of a load goes on to the next, or ends the load.
LEMMA AdvanceOn ==
    ASSUME CacheTypeOK, NEW p \in Processes, NEW text, Advance(p, text)
    PROVE  LoadsOn(p) /\ \A q \in Processes \ {p} : proc'[q] = proc[q]
<1>1. DOMAIN proc = Processes /\ proc[p].at \in Nat
  BY DEF CacheTypeOK
<1>2. CASE \E how : Finish(p, how)
  BY <1>1, <1>2 DEF Finish, LoadsOn, CacheTypeOK
<1>3. CASE \E mode, step : proc' = [proc EXCEPT ![p] =
               [mode |-> mode, at |-> proc[p].at + 1, step |-> step, pos |-> 0]]
  <2>1. PICK mode, step : proc' = [proc EXCEPT ![p] =
               [mode |-> mode, at |-> proc[p].at + 1, step |-> step, pos |-> 0]]
    BY <1>3
  <2>2. proc[p].at < proc'[p].at /\ \A q \in Processes \ {p} : proc'[q] = proc[q]
    BY <1>1, <2>1 DEF CacheTypeOK
  <2> QED
    BY <2>2 DEF LoadsOn
<1> QED
  BY <1>2, <1>3 DEF Advance

LEMMA LoadStepOn ==
    ASSUME CacheTypeOK, NEW p \in Processes, LoadStep(p)
    PROVE  LoadsOn(p) /\ \A q \in Processes \ {p} : proc'[q] = proc[q]
<1>1. CASE Read(p) \/ ToolFails(p) \/ Close(p)
  BY <1>1, AdvanceOn DEF Read, ToolFails, Close
<1>2. CASE ToolTimesOut(p)
  BY <1>2 DEF ToolTimesOut, Finish, LoadsOn, CacheTypeOK
<1>3. CASE Miss(p)
  BY <1>3 DEF Miss, In, LoadsOn, CacheTypeOK
<1>4. CASE Open(p)
  BY <1>4 DEF Open, In, LoadsOn, CacheTypeOK
<1>5. CASE Write(p)
  BY <1>5, CacheAssumption DEF Write, In, LoadsOn, CacheTypeOK
<1> QED
  BY <1>1, <1>2, <1>3, <1>4, <1>5 DEF LoadStep

\* A step of a driver takes it on.
LEMMA OwnStepOn ==
    ASSUME TypeOK, NEW d \in Drivers, driver[d].step \in Busy,
           \/ DriverStep(d) \/ Stage1Ok(d) \/ Stage1Fails(d, 1)
           \/ KillDriver(d) \/ KillStage2(d)
    PROVE  GoesOn(d)
<1>0. /\ driver[d].at \in Nat /\ d \in Processes
      /\ CacheTypeOK
  BY SSGenAssumption DEF TypeOK
<1>1. ASSUME NEW rc \in {0, 1, 124, 137}, EndInput(d, rc)
      PROVE  GoesOn(d)
  BY <1>0, <1>1, EndInputFacts DEF GoesOn, Busy, Idle
<1>2. CASE Stage1(d)
  <2>1. Goto(d, "opt") /\ driver[d].step = "shell"
    BY <1>2 DEF Stage1, At
  <2> QED
    BY <2>1, GotoFacts DEF GoesOn, Busy
<1>3. CASE Stage1Ok(d)
  <2>1. Goto(d, "load") /\ driver[d].step = "opt"
    BY <1>3 DEF Stage1Ok, At
  <2> QED
    BY <2>1, GotoFacts DEF GoesOn, Busy
<1>4. CASE LoadOk(d)
  <2>1. Goto(d, "map") /\ driver[d].step = "load"
    BY <1>4 DEF LoadOk, At
  <2> QED
    BY <2>1, GotoFacts DEF GoesOn, Busy
<1>5. CASE Map(d)
  <2>1. Goto(d, "dump") /\ driver[d].step = "map"
    BY <1>5 DEF Map, At
  <2> QED
    BY <2>1, GotoFacts DEF GoesOn, Busy
<1>6. CASE KillDriver(d)
  <2>1. Goto(d, "killed") /\ "killed" \in Idle
    BY <1>6 DEF KillDriver, Idle
  <2> QED
    BY <2>1, GotoFacts DEF GoesOn
<1>7. CASE Load(d)
  BY <1>0, <1>7, LoadStepOn DEF Load, GoesOn
<1>8. CASE \/ Stage1Fails(d, 124) \/ Stage1Fails(d, 1) \/ LoadFails(d)
           \/ MapFails(d) \/ Dump(d) \/ KillStage2(d)
  BY <1>1, <1>8 DEF Stage1Fails, LoadFails, MapFails, Dump, KillStage2
<1> QED
  BY <1>2, <1>3, <1>4, <1>5, <1>6, <1>7, <1>8 DEF DriverStep

\* The process of a load is the only one whose place it changes.
LEMMA LoadsApart ==
    ASSUME CacheTypeOK, NEW p \in Processes, NEW q \in Processes \ {p},
           \/ \E mode : StartLoad(p, mode)
           \/ LoadStep(p) \/ KillLoad(p) \/ UNCHANGED cacheVars
    PROVE  proc'[q] = proc[q]
<1>1. CASE LoadStep(p)
  BY <1>1, LoadStepOn
<1>2. CASE (\E mode : StartLoad(p, mode)) \/ KillLoad(p) \/ UNCHANGED cacheVars
  BY <1>2 DEF StartLoad, KillLoad, Finish, cacheVars, CacheTypeOK
<1> QED
  BY <1>1, <1>2

\* A step of another driver leaves it where it is.
LEMMA OtherStepOff ==
    ASSUME TypeOK, NEW d \in Drivers, NEW e \in Drivers \ {d},
           \/ StartDriver(e) \/ DriverStep(e) \/ Stage1Ok(e) \/ Stage1Fails(e, 1)
           \/ KillDriver(e) \/ KillStage2(e)
    PROVE  driver'[d] = driver[d] /\ proc'[d] = proc[d]
<1>1. d \in Processes /\ e \in Processes /\ d # e /\ CacheTypeOK
  BY SSGenAssumption DEF TypeOK
<1>2. driver'[d] = driver[d]
  BY DEF TypeOK, StartDriver, DriverStep, Stage1, Stage1Ok, Stage1Fails, Load,
         LoadFails, LoadOk, MapFails, Map, Dump, KillDriver, KillStage2, Goto, EndInput
<1>3. \/ StartLoad(e, "load") \/ LoadStep(e) \/ KillLoad(e) \/ UNCHANGED cacheVars
  BY DEF StartDriver, DriverStep, Stage1, Stage1Ok, Stage1Fails, Load,
         LoadFails, LoadOk, MapFails, Map, Dump, KillDriver, KillStage2
<1> QED
  BY <1>1, <1>2, <1>3, LoadsApart

\* No input and no stage of one is tried twice by a run of ss-gen.sh, and each
\* step of it brings its end nearer, whatever shares the cache with it.
THEOREM DriversNeverBack == Spec => NeverBack
<1> DEFINE Stays(d) == driver'[d] = driver[d] /\ proc'[d] = proc[d]
<1>1. ASSUME DriverInv, [Next]_vars, NEW d \in Drivers, driver[d].step \in Busy
      PROVE  Stays(d) \/ GoesOn(d)
  <2>0. TypeOK /\ CacheTypeOK /\ d \in Processes
    BY <1>1, SSGenAssumption DEF DriverInv, TypeOK
  <2>1. ASSUME NEW e \in Drivers,
               \/ StartDriver(e) \/ DriverStep(e) \/ Stage1Ok(e)
               \/ Stage1Fails(e, 1) \/ KillDriver(e) \/ KillStage2(e)
        PROVE  Stays(d) \/ GoesOn(d)
    <3>1. CASE e # d
      BY <2>0, <2>1, <3>1, OtherStepOff
    <3>2. CASE e = d
      <4>1. ~StartDriver(d)
        BY <1>1 DEF StartDriver, Busy, Idle
      <4> QED
        BY <1>1, <2>0, <2>1, <3>2, <4>1, OwnStepOn
    <3> QED
      BY <3>1, <3>2
  <2>2. ASSUME NEW g \in Generators, Generate(g) \/ GenerateStep(g) \/ KillGenerate(g)
        PROVE  Stays(d)
    <3>1. g \in Processes /\ g # d
      BY SSGenAssumption
    <3>2. \/ StartLoad(g, "generate") \/ LoadStep(g) \/ KillLoad(g)
      BY <2>2 DEF Generate, GenerateStep, KillGenerate
    <3>3. driver' = driver
      BY <2>2 DEF Generate, GenerateStep, KillGenerate
    <3> QED
      BY <2>0, <3>1, <3>2, <3>3, LoadsApart
  <2>3. CASE UNCHANGED vars
    BY <2>3 DEF vars, cacheVars
  <2> QED
    BY <1>1, <2>1, <2>2, <2>3 DEF Next
<1>2. DriverInv /\ [Next]_vars =>
        [\A d \in Drivers :
            driver[d].step \in Busy =>
                (driver'[d] = driver[d] /\ proc'[d] = proc[d]) \/ GoesOn(d)]_vars
  BY <1>1
<1> QED
  BY <1>2, DriversProgress, PTL DEF Spec, NeverBack
=============================================================================
