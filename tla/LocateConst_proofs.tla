-------------------------- MODULE LocateConst_proofs --------------------------
(***************************************************************************)
(* The headers come back, no step takes the last original copy of one, and *)
(* the inputs of a tunable are the ones its mutation.toml asks for, located*)
(* in the original kernel: for any tunables, headers, sources, constants,  *)
(* mutation.toml files, runs, kills and edits.                             *)
(***************************************************************************)
EXTENDS LocateConst, DataInduction

-----------------------------------------------------------------------------
(* Where in the inputs each mutation has its own *)

Names == [source : Sources, const : Consts]
Entry(mutation) == [source |-> mutation.source, const |-> mutation.const]
Count(mutation) == Hunks[mutation.source][mutation.const]

\* Mutation n has the inputs after off[n] up to off[n + 1].
Cuts(off, cfg) ==
    /\ off \in [1..(Len(cfg) + 1) -> Nat]
    /\ off[1] = 0 /\ off[Len(cfg) + 1] = Len(Expected(cfg))
    /\ \A n \in 1..Len(cfg) :
          /\ off[n + 1] = off[n] + Count(cfg[n])
          /\ \A k \in (off[n] + 1)..off[n + 1] :
                k <= Len(Expected(cfg)) /\ Expected(cfg)[k] = Entry(cfg[n])

Offsets(cfg) == CHOOSE off : Cuts(off, cfg)

LEMMA MutationFacts ==
    ASSUME NEW x \in Mutation
    PROVE  /\ x.source \in Sources /\ x.header \in Headers /\ x.const \in Consts
           /\ Count(x) \in Nat /\ Entry(x) \in Names
BY LocateAssumption DEF Mutation, Count, Entry, Names

\* What one mutation gives
Part(x) == [k \in 1..Hunks[x.source][x.const] |-> [source |-> x.source, const |-> x.const]]

LEMMA PartFacts ==
    ASSUME NEW x \in Mutation
    PROVE  /\ Part(x) \in Seq(Names) /\ Len(Part(x)) = Count(x)
           /\ \A k \in 1..Count(x) : Part(x)[k] = Entry(x)
<1>1. PICK part : part = Part(x)
  OBVIOUS
<1>2. PICK c, e : c = Count(x) /\ e = Entry(x)
  OBVIOUS
<1>3. part = [k \in 1..c |-> e]
  BY <1>1, <1>2 DEF Part, Count, Entry
<1>4. c \in Nat /\ e \in Names
  BY <1>2, MutationFacts
<1>5. part \in Seq(Names) /\ Len(part) = c
  <2>1. part \in [1..c -> Names]
    BY <1>3, <1>4
  <2> QED
    BY <1>4, <2>1, FunctionIsSeq
<1>6. \A k \in 1..c : part[k] = e
  BY <1>3
<1> QED
  BY <1>1, <1>2, <1>5, <1>6

\* There are such cuts: the lengths of what the first mutations give.
LEMMA ExpectedCuts ==
    ASSUME NEW cfg \in Seq(Mutation), cfg # <<>>
    PROVE  Expected(cfg) \in Seq(Names) /\ Cuts(Offsets(cfg), cfg)
<1>0. PICK L \in Nat \ {0} : L = Len(cfg) /\ DOMAIN cfg = 1..L
  OBVIOUS
<1>1. PICK seqs : seqs = [n \in DOMAIN cfg |->
              [k \in 1..Hunks[cfg[n].source][cfg[n].const] |->
                  [source |-> cfg[n].source, const |-> cfg[n].const]]]
  OBVIOUS
<1>2. ASSUME NEW n \in 1..L
      PROVE  /\ seqs[n] \in Seq(Names) /\ Len(seqs[n]) = Count(cfg[n])
             /\ \A k \in 1..Count(cfg[n]) : seqs[n][k] = Entry(cfg[n])
  <2>1. seqs[n] = Part(cfg[n])
    BY <1>0, <1>1 DEF Part
  <2>2. cfg[n] \in Mutation
    BY <1>0
  <2> QED
    BY <2>1, <2>2, PartFacts
<1>3. seqs \in Seq(Seq(Names)) /\ Len(seqs) = L
  <2>1. seqs \in [1..L -> Seq(Names)]
    <3>1. DOMAIN seqs = 1..L /\ seqs = [n \in DOMAIN seqs |-> seqs[n]]
      BY <1>0, <1>1
    <3> QED
      BY <1>2, <3>1
  <2> QED
    BY <2>1, FunctionIsSeq
<1>4. PICK g \in [1..L -> Seq(Names)] : Flattens(g, seqs, L) /\ FlattenSeq(seqs) = g[L]
  BY <1>3, FlattenSeqFlattens
<1>5. Expected(cfg) = g[L]
  BY <1>1, <1>4 DEF Expected
<1>6. PICK off : off = [n \in 1..(L + 1) |-> IF n = 1 THEN 0 ELSE Len(g[n - 1])]
  OBVIOUS
<1>7. \A n \in 1..L : g[n] \in Seq(Names) /\ Len(g[n]) \in Nat
  BY <1>4
<1>8. off \in [1..(L + 1) -> Nat] /\ off[1] = 0
  BY <1>6, <1>7
<1>9. \A n \in 1..L : off[n + 1] = Len(g[n])
  BY <1>6
<1>10. \A n \in 1..L : off[n + 1] = off[n] + Count(cfg[n])
  <2> SUFFICES ASSUME NEW n \in 1..L PROVE off[n + 1] = off[n] + Count(cfg[n])
    OBVIOUS
  <2>1. Count(cfg[n]) \in Nat
    BY <1>0, MutationFacts
  <2>2. CASE n = 1
    <3>1. g[1] = seqs[1]
      BY <1>4 DEF Flattens
    <3> QED
      BY <1>2, <1>8, <1>9, <2>1, <2>2, <3>1
  <2>3. CASE n # 1
    <3>1. n \in 2..L /\ n - 1 \in 1..L /\ (n - 1) + 1 = n
      BY <2>3
    <3>2. g[n] = g[n - 1] \o seqs[n]
      BY <1>4, <3>1 DEF Flattens
    <3>3. Len(g[n]) = Len(g[n - 1]) + Len(seqs[n])
      BY <1>2, <1>7, <3>1, <3>2
    <3>4. off[n] = Len(g[n - 1])
      BY <1>9, <3>1
    <3> QED
      BY <1>2, <1>9, <3>3, <3>4
  <2> QED
    BY <2>2, <2>3
<1> DEFINE Placed(i) == \A n \in 1..i : \A k \in (off[n] + 1)..off[n + 1] :
                           k <= Len(g[i]) /\ g[i][k] = Entry(cfg[n])
           D == {j \in Nat : j + 1 <= L => Placed(j + 1)}
<1>11. 0 \in D
  <2>1. g[1] = seqs[1] /\ off[2] = Len(g[1]) /\ off[1] = 0
    BY <1>4, <1>8, <1>9 DEF Flattens
  <2>2. Count(cfg[1]) \in Nat /\ Len(seqs[1]) = Count(cfg[1])
    BY <1>0, <1>2, MutationFacts
  <2>3. Placed(1)
    BY <1>2, <2>1, <2>2
  <2> HIDE DEF Placed
  <2>4. 0 + 1 = 1
    OBVIOUS
  <2>5. 0 \in Nat /\ (0 + 1 <= L => Placed(0 + 1))
    BY <2>3, <2>4
  <2> QED
    BY <2>5, Zenon
<1>12. ASSUME NEW j \in Nat, j \in D PROVE j + 1 \in D
  <2> SUFFICES ASSUME j + 2 <= L, NEW n \in 1..(j + 2),
                      NEW k \in (off[n] + 1)..off[n + 1]
               PROVE  k <= Len(g[j + 2]) /\ g[j + 2][k] = Entry(cfg[n])
    OBVIOUS
  <2>1. /\ j + 1 \in 1..L /\ j + 2 \in 1..L /\ j + 2 \in 2..L /\ j + 1 <= L
        /\ (j + 2) - 1 = j + 1 /\ (j + 1) + 1 = j + 2
    OBVIOUS
  <2>2. PICK a, b : a = g[j + 1] /\ b = seqs[j + 2]
    OBVIOUS
  <2>3. /\ a \in Seq(Names) /\ b \in Seq(Names) /\ Len(b) = Count(cfg[j + 2])
        /\ \A l \in 1..Len(b) : b[l] = Entry(cfg[j + 2])
    BY <1>2, <1>7, <2>1, <2>2
  <2>4. g[j + 2] = a \o b
    BY <1>4, <2>1, <2>2 DEF Flattens
  <2>5. /\ Len(a \o b) = Len(a) + Len(b) /\ Len(a) \in Nat /\ Len(b) \in Nat
        /\ \A l \in 1..Len(a) + Len(b) :
              (a \o b)[l] = IF l <= Len(a) THEN a[l] ELSE b[l - Len(a)]
    <3>1. Len(a) \in Nat /\ Len(b) \in Nat
      BY <2>3
    <3>2. /\ Len(a \o b) = Len(a) + Len(b)
          /\ \A l \in 1..Len(a) + Len(b) :
                (a \o b)[l] = IF l <= Len(a) THEN a[l] ELSE b[l - Len(a)]
      BY <2>3, ConcatProperties, Zenon
    <3> QED
      BY <3>1, <3>2, Zenon
  <2>6. n \in 1..L /\ n + 1 \in 1..(L + 1) /\ off[n] \in Nat /\ off[n + 1] \in Nat
    BY <1>8, <2>1
  <2>7. CASE n = j + 2
    <3>1. off[n] = Len(a) /\ off[n + 1] = Len(a) + Len(b)
      BY <1>9, <1>10, <2>1, <2>2, <2>3, <2>6, <2>7
    <3>2. k \in 1..(Len(a) + Len(b)) /\ ~(k <= Len(a)) /\ k - Len(a) \in 1..Len(b)
      BY <2>5, <2>6, <3>1
    <3>3. b[k - Len(a)] = Entry(cfg[n])
      BY <2>3, <2>7, <3>2
    <3>4. (a \o b)[k] = b[k - Len(a)]
      BY <2>5, <3>2
    <3> QED
      BY <2>4, <2>5, <3>2, <3>3, <3>4
  <2>8. CASE n # j + 2
    <3>1. n \in 1..(j + 1)
      BY <2>8
    <3>2. k <= Len(a) /\ a[k] = Entry(cfg[n])
      BY <1>12, <2>1, <2>2, <3>1
    <3>3. k \in 1..(Len(a) + Len(b))
      BY <2>5, <2>6, <3>2
    <3>4. (a \o b)[k] = a[k]
      BY <2>5, <3>2, <3>3
    <3> QED
      BY <2>4, <2>5, <3>2, <3>3, <3>4
  <2> QED
    BY <2>7, <2>8
<1>13. Placed(L)
  <2> HIDE DEF D
  <2>1. \A j \in Nat : j \in D
    BY <1>11, <1>12, SetInduction
  <2>2. PICK j \in Nat : j + 1 = L
    <3>1. L - 1 \in Nat /\ (L - 1) + 1 = L
      OBVIOUS
    <3> QED
      BY <3>1
  <2>3. j + 1 <= L => Placed(j + 1)
    BY <2>1 DEF D
  <2>4. j + 1 <= L
    BY <2>2
  <2> HIDE DEF Placed
  <2> QED
    BY <2>2, <2>3, <2>4
<1>14. Cuts(off, cfg)
  BY <1>0, <1>5, <1>8, <1>9, <1>10, <1>13 DEF Cuts
<1> QED
  BY <1>4, <1>5, <1>14 DEF Offsets

-----------------------------------------------------------------------------
(* The headers, the origin and the inputs *)

Places == {"origin", "backup", "sed", "build", "restore", "diff", "emit"}
Exits == {"none", "running", "ok", "error", "killed"}
LastType == [Tunables -> [cfg : Seq(Mutation), exit : Exits]]

\* Between the copy and the "finally"
Changing == run # Idle /\ run.at \in {"sed", "build", "restore"}

\* A run that changes a header has a copy of it.
Saved == Changing => bak[Current.header] # NoFile

\* A header that no killed run left changed is the original, or this run is
\* changing it and the copy is the original.
Untouched ==
    \A h \in Headers \ torn :
        IF Changing /\ h = Current.header
        THEN bak[h].text = {} /\ (run.at = "sed" => header[h] = {})
        ELSE header[h] = {}

\* The .ll.origin of a run past its first step is of the original kernel.
OriginClean ==
    run # Idle /\ run.at # "origin" /\ Includes(Current.source) \cap torn = {}
        => origin = {}

\* The next input has the first free number.
NextFree == run # Idle => run.next = Len(inputs[run.tunable]) + 1

TreeInv == TypeOK /\ Saved /\ Untouched /\ OriginClean /\ InputsOriginal /\ NextFree

LEMMA RunFacts ==
    ASSUME TypeOK, run # Idle
    PROVE  /\ run \in RunsOn /\ run.tunable \in Tunables /\ run.left \in Seq(Mutation)
           /\ run.left # <<>> /\ run.next \in Nat \ {0} /\ run.hunks \in Nat
           /\ run.at \in Places /\ run.failed \in BOOLEAN
           /\ Current \in Mutation /\ Current.source \in Sources
           /\ Current.header \in Headers /\ Current.const \in Consts
<1>1. /\ run \in RunsOn /\ run.tunable \in Tunables /\ run.left \in Seq(Mutation)
      /\ run.left # <<>> /\ run.next \in Nat \ {0} /\ run.hunks \in Nat
      /\ run.at \in Places /\ run.failed \in BOOLEAN
  BY DEF TypeOK, RunsOn, Places
<1>2. Current \in Mutation
  BY <1>1 DEF Current
<1> QED
  BY <1>1, <1>2, MutationFacts

\* A run that goes on to another place of the same mutation
LEMMA RunGoes ==
    ASSUME TypeOK, run # Idle, NEW p \in Places,
           \/ run' = [run EXCEPT !.at = p]
           \/ run' = [run EXCEPT !.at = p, !.failed = TRUE]
    PROVE  /\ run' \in RunsOn /\ run' # Idle /\ run'.at = p /\ run'.left # <<>>
           /\ run'.tunable = run.tunable /\ run'.left = run.left
           /\ run'.next = run.next /\ run'.hunks = run.hunks /\ Current' = Current
<1>1. run \in RunsOn /\ run.left # <<>>
  BY RunFacts
<1>2. /\ run' \in RunsOn /\ run'.at = p /\ run'.tunable = run.tunable
      /\ run'.left = run.left /\ run'.next = run.next /\ run'.hunks = run.hunks
  BY <1>1 DEF RunsOn, Places
<1>3. run' # Idle
  BY <1>2, LocateAssumption
<1>4. Current' = Current
  BY <1>2 DEF Current
<1> QED
  BY <1>1, <1>2, <1>3, <1>4

LEMMA ExitFacts ==
    ASSUME TypeOK, run # Idle, NEW how \in Exits, Exit(how)
    PROVE  /\ run' = Idle /\ last' \in LastType
           /\ last'[run.tunable].exit = how
           /\ \A t \in Tunables : last'[t].cfg = last[t].cfg
           /\ \A t \in Tunables \ {run.tunable} : last'[t] = last[t]
<1>1. run.tunable \in Tunables /\ last \in LastType
  BY RunFacts DEF TypeOK, LastType, Exits
<1> QED
  BY <1>1 DEF Exit, LastType

\* The types of what a step of a run writes to
FilesTyped ==
    /\ header \in [Headers -> SUBSET Consts] /\ mtime \in [Headers -> Nat]
    /\ bak \in [Headers -> Copies \cup {NoFile}]
    /\ obj \in [Sources -> [text : SUBSET Consts, time : Nat] \cup {NoFile}]
    /\ vmlinux \in [Sources -> SUBSET Consts] \cup {NoFile}
    /\ origin \in SUBSET Consts /\ mutated \in SUBSET Consts
    /\ torn \subseteq Headers
    /\ {seds, runs, crashes, edits} \subseteq Nat

LEMMA InputsOriginalKept ==
    ASSUME InputsOriginal, inputs' = inputs, torn \subseteq torn'
    PROVE  InputsOriginal'
BY DEF InputsOriginal, Includes

\* A step that ends the run, if it leaves the headers as they were
LEMMA RunEnds ==
    ASSUME TreeInv, run # Idle, NEW how \in Exits, Exit(how), FilesTyped',
           toml' = toml, InputsOriginal',
           inputs' \in [Tunables -> Seq([source : Sources, const : Consts, text : SUBSET Consts])],
           \A h \in Headers \ torn' : header'[h] = {}
    PROVE  TreeInv'
<1>1. /\ run' = Idle /\ last' \in LastType
      /\ \A t \in Tunables : last'[t].cfg = last[t].cfg
  BY ExitFacts DEF TreeInv
<1>2. TypeOK'
  BY <1>1 DEF TreeInv, TypeOK, FilesTyped, LastType, Exits
<1>3. Saved' /\ Untouched' /\ OriginClean' /\ NextFree'
  BY <1>1 DEF Saved, Untouched, Changing, OriginClean, NextFree
<1> QED
  BY <1>2, <1>3 DEF TreeInv

\* A step of a run that stays with its mutation
LEMMA RunStays ==
    ASSUME TreeInv, run # Idle, FilesTyped', last' = last, toml' = toml,
           inputs' = inputs, torn' = torn, run' \in RunsOn, run' # Idle,
           run'.left # <<>>, run'.tunable = run.tunable, run'.next = run.next,
           Saved', Untouched', OriginClean'
    PROVE  TreeInv'
<1>1. TypeOK'
  BY DEF TreeInv, TypeOK, FilesTyped
<1>2. NextFree'
  BY DEF TreeInv, NextFree
<1>3. InputsOriginal'
  BY InputsOriginalKept DEF TreeInv
<1> QED
  BY <1>1, <1>2, <1>3 DEF TreeInv

LEMMA FilesAre == ASSUME TypeOK PROVE FilesTyped
BY DEF TypeOK, FilesTyped

LEMMA TextTyped ==
    ASSUME TypeOK, NEW s \in Sources
    PROVE  Text(s) \in SUBSET Consts /\ Includes(s) \subseteq Headers
BY DEF TypeOK, Text, Includes

\* build_obj_to_ll writes the .o and nothing else.
LEMMA BuildTyped ==
    ASSUME TypeOK, run # Idle, BuildFails
    PROVE  obj' \in [Sources -> [text : SUBSET Consts, time : Nat] \cup {NoFile}]
<1>1. Current.source \in Sources
  BY RunFacts
<1>2. Text(Current.source) \in SUBSET Consts /\ seds \in Nat
  BY <1>1, TextTyped DEF TypeOK
<1>3. PICK o : o = [text |-> Text(Current.source), time |-> seds]
  OBVIOUS
<1>4. o \in [text : SUBSET Consts, time : Nat]
  BY <1>2, <1>3
<1>5. \/ obj' = [obj EXCEPT ![Current.source] = o]
      \/ obj' = [obj EXCEPT ![Current.source] = NoFile]
  BY <1>3 DEF BuildFails, Built
<1> QED
  BY <1>1, <1>4, <1>5 DEF TypeOK

LEMMA BuildOriginStep == ASSUME TreeInv, BuildOrigin PROVE TreeInv'
<1>0. TypeOK /\ run # Idle /\ run.at = "origin" /\ FilesTyped
  BY FilesAre DEF TreeInv, BuildOrigin, At
<1>1. BuildFails /\ UNCHANGED <<tree, vmlinux, toml, inputs, mutated, torn, counters>>
  BY DEF BuildOrigin, BuildFails
<1>2. obj' \in [Sources -> [text : SUBSET Consts, time : Nat] \cup {NoFile}]
  BY <1>0, <1>1, BuildTyped
<1>3. \A h \in Headers \ torn : header[h] = {}
  BY <1>0 DEF TreeInv, Untouched, Changing
<1>4. CASE Exit("error") /\ UNCHANGED origin
  <2>1. FilesTyped'
    BY <1>0, <1>1, <1>2, <1>4 DEF FilesTyped, tree, counters
  <2>2. InputsOriginal'
    BY <1>1, InputsOriginalKept DEF TreeInv
  <2>3. "error" \in Exits
    BY DEF Exits
  <2>4. inputs' \in [Tunables -> Seq([source : Sources, const : Consts, text : SUBSET Consts])]
    BY <1>0, <1>1 DEF TypeOK
  <2>5. \A h \in Headers \ torn' : header'[h] = {}
    BY <1>1, <1>3 DEF tree
  <2>6. toml' = toml
    BY <1>1
  <2> QED
    BY <1>0, <1>4, <2>1, <2>2, <2>3, <2>4, <2>5, <2>6, RunEnds
<1>5. CASE origin' = Text(Current.source) /\ Continue("backup")
  <2>0. "backup" \in Places
    BY DEF Places
  <2>1. /\ run' \in RunsOn /\ run' # Idle /\ run'.at = "backup" /\ run'.left # <<>>
        /\ run'.tunable = run.tunable /\ run'.next = run.next
        /\ Current' = Current /\ last' = last
    BY <1>0, <1>5, <2>0, RunGoes DEF Continue
  <2>2. Current.source \in Sources
    BY <1>0, RunFacts
  <2>3. FilesTyped'
    BY <1>0, <1>1, <1>2, <1>5, <2>2, TextTyped DEF FilesTyped, tree, counters
  <2>4. Saved' /\ Untouched'
    BY <1>1, <1>3, <2>1 DEF Saved, Untouched, Changing, tree
  <2>5. OriginClean'
    <3>1. Includes(Current.source) \cap torn = {} => Text(Current.source) = {}
      BY <1>0, <1>3, <2>2, TextTyped DEF Text
    <3> QED
      BY <1>1, <1>5, <2>1, <3>1 DEF OriginClean, Includes
  <2> QED
    BY <1>0, <1>1, <2>1, <2>3, <2>4, <2>5, RunStays
<1> QED
  BY <1>4, <1>5 DEF BuildOrigin

\* An error, or a kill, while no header is changed, or with the ones that are in torn
LEMMA RunFails ==
    ASSUME TreeInv, run # Idle, NEW how \in Exits, Exit(how), FilesTyped',
           UNCHANGED <<toml, inputs>>, torn \subseteq torn',
           \A h \in Headers \ torn' : header'[h] = {}
    PROVE  TreeInv'
<1>1. InputsOriginal'
  BY InputsOriginalKept DEF TreeInv
<1>2. inputs' \in [Tunables -> Seq([source : Sources, const : Consts, text : SUBSET Consts])]
  BY DEF TreeInv, TypeOK
<1> QED
  BY <1>1, <1>2, RunEnds

LEMMA BackupStep == ASSUME TreeInv, Backup PROVE TreeInv'
<1>0. TypeOK /\ run # Idle /\ run.at = "backup" /\ FilesTyped
  BY FilesAre DEF TreeInv, Backup, At
<1>1. PICK h : h = Current.header
  OBVIOUS
<1>2. PICK b : b = [text |-> header[h], mtime |-> mtime[h]]
  OBVIOUS
<1>3. /\ run' = [run EXCEPT !.at = "sed"] /\ bak' = [bak EXCEPT ![h] = b]
      /\ UNCHANGED <<header, mtime, seds, obj, vmlinux, toml, inputs, lls, last, torn, counters>>
  BY <1>1, <1>2 DEF Backup
<1>4. "sed" \in Places
  BY DEF Places
<1>5. /\ run' \in RunsOn /\ run' # Idle /\ run'.at = "sed" /\ run'.left # <<>>
      /\ run'.tunable = run.tunable /\ run'.next = run.next /\ Current' = Current
  BY <1>0, <1>3, <1>4, RunGoes
<1>6. h \in Headers
  BY <1>0, <1>1, RunFacts
<1>7. b \in Copies /\ b.text = header[h] /\ b # NoFile
  BY <1>0, <1>2, <1>6, LocateAssumption DEF FilesTyped, Copies
<1>8. /\ bak' \in [Headers -> Copies \cup {NoFile}] /\ bak'[h] = b
  BY <1>0, <1>3, <1>6, <1>7 DEF FilesTyped
<1>9. FilesTyped'
  BY <1>0, <1>3, <1>8 DEF FilesTyped, lls, counters
<1>10. Saved'
  BY <1>1, <1>5, <1>7, <1>8 DEF Saved
<1>11. Untouched'
  <2>1. \A k \in Headers \ torn : header[k] = {}
    BY <1>0 DEF TreeInv, Untouched, Changing
  <2> QED
    BY <1>1, <1>3, <1>5, <1>6, <1>7, <1>8, <2>1 DEF Untouched, Changing
<1>12. OriginClean'
  BY <1>0, <1>3, <1>5 DEF TreeInv, OriginClean, lls, Includes
<1> QED
  BY <1>0, <1>3, <1>5, <1>9, <1>10, <1>11, <1>12, RunStays

LEMMA SedStep == ASSUME TreeInv, Sed PROVE TreeInv'
<1>0. TypeOK /\ run # Idle /\ run.at = "sed" /\ FilesTyped
  BY FilesAre DEF TreeInv, Sed, At
<1>1. PICK h : h = Current.header
  OBVIOUS
<1>2. PICK matched \in SUBSET {Current.const} : header' = [header EXCEPT ![h] = @ \cup matched]
  BY <1>1 DEF Sed
<1>3. PICK p \in {"restore", "build"} :
        \/ run' = [run EXCEPT !.at = p]
        \/ run' = [run EXCEPT !.at = p, !.failed = TRUE]
  BY DEF Sed
<1>4. /\ seds' = seds + 1 /\ mtime' = [mtime EXCEPT ![h] = seds + 1]
      /\ UNCHANGED <<bak, obj, vmlinux, toml, inputs, lls, last, torn, counters>>
  BY <1>1 DEF Sed
<1>5. /\ run' \in RunsOn /\ run' # Idle /\ run'.at = p /\ run'.left # <<>>
      /\ run'.tunable = run.tunable /\ run'.next = run.next /\ Current' = Current
  <2>1. p \in Places
    BY DEF Places
  <2> QED
    BY <1>0, <1>3, <2>1, RunGoes
<1>6. h \in Headers /\ matched \subseteq Consts
  BY <1>0, <1>1, <1>2, RunFacts
<1>7. /\ header' \in [Headers -> SUBSET Consts] /\ mtime' \in [Headers -> Nat] /\ seds' \in Nat
      /\ \A k \in Headers \ {h} : header'[k] = header[k]
  BY <1>0, <1>2, <1>4, <1>6 DEF FilesTyped
<1>8. FilesTyped'
  BY <1>0, <1>4, <1>7 DEF FilesTyped, lls, counters
<1>9. Saved'
  BY <1>0, <1>4, <1>5 DEF TreeInv, Saved, Changing
<1>10. Untouched'
  BY <1>0, <1>1, <1>4, <1>5, <1>7 DEF TreeInv, Untouched, Changing
<1>11. OriginClean'
  BY <1>0, <1>4, <1>5 DEF TreeInv, OriginClean, lls, Includes
<1> QED
  BY <1>0, <1>4, <1>5, <1>8, <1>9, <1>10, <1>11, RunStays

LEMMA BuildMutatedStep == ASSUME TreeInv, BuildMutated PROVE TreeInv'
<1>0. TypeOK /\ run # Idle /\ run.at = "build" /\ FilesTyped
  BY FilesAre DEF TreeInv, BuildMutated, At
<1>1. /\ BuildFails /\ mutated' \in {mutated, Text(Current.source)}
      /\ \/ run' = [run EXCEPT !.at = "restore"]
         \/ run' = [run EXCEPT !.at = "restore", !.failed = TRUE]
      /\ UNCHANGED <<tree, vmlinux, toml, inputs, origin, last, torn, counters>>
  BY DEF BuildMutated, BuildFails
<1>2. obj' \in [Sources -> [text : SUBSET Consts, time : Nat] \cup {NoFile}]
  BY <1>0, <1>1, BuildTyped
<1>3. /\ run' \in RunsOn /\ run' # Idle /\ run'.at = "restore" /\ run'.left # <<>>
      /\ run'.tunable = run.tunable /\ run'.next = run.next /\ Current' = Current
  <2>1. "restore" \in Places
    BY DEF Places
  <2> QED
    BY <1>0, <1>1, <2>1, RunGoes
<1>4. mutated' \in SUBSET Consts
  <2>1. Text(Current.source) \in SUBSET Consts
    BY <1>0, RunFacts, TextTyped
  <2> QED
    BY <1>0, <1>1, <2>1 DEF FilesTyped
<1>5. FilesTyped'
  BY <1>0, <1>1, <1>2, <1>4 DEF FilesTyped, tree, counters
<1>6. Saved' /\ Untouched'
  BY <1>0, <1>1, <1>3 DEF TreeInv, Saved, Untouched, Changing, tree
<1>7. OriginClean'
  BY <1>0, <1>1, <1>3 DEF TreeInv, OriginClean, Includes
<1> QED
  BY <1>0, <1>1, <1>3, <1>5, <1>6, <1>7, RunStays

LEMMA RestoreStep == ASSUME TreeInv, Restore PROVE TreeInv'
<1>0. TypeOK /\ run # Idle /\ run.at = "restore" /\ FilesTyped
  BY FilesAre DEF TreeInv, Restore, At
<1>1. PICK h : h = Current.header
  OBVIOUS
<1>2. /\ header' = [header EXCEPT ![h] = bak[h].text]
      /\ mtime' = [mtime EXCEPT ![h] = bak[h].mtime]
      /\ bak' = [bak EXCEPT ![h] = NoFile]
      /\ UNCHANGED <<seds, obj, vmlinux, toml, inputs, lls, torn, counters>>
  BY <1>1 DEF Restore
<1>3. h \in Headers
  BY <1>0, <1>1, RunFacts
<1>4. bak[h] \in Copies
  BY <1>0, <1>1, <1>3 DEF TreeInv, Saved, Changing, FilesTyped
<1>5. /\ header' \in [Headers -> SUBSET Consts] /\ mtime' \in [Headers -> Nat]
      /\ bak' \in [Headers -> Copies \cup {NoFile}]
  BY <1>0, <1>2, <1>3, <1>4 DEF FilesTyped, Copies
<1>6. FilesTyped'
  BY <1>0, <1>2, <1>5 DEF FilesTyped, lls, counters
<1>7. \A k \in Headers \ torn : header'[k] = {}
  BY <1>0, <1>1, <1>2, <1>3 DEF TreeInv, Untouched, Changing, FilesTyped
<1>8. CASE Exit("error")
  <2>1. "error" \in Exits
    BY DEF Exits
  <2> QED
    BY <1>0, <1>2, <1>6, <1>7, <1>8, <2>1, RunFails
<1>9. CASE Continue("diff")
  <2>1. /\ run' \in RunsOn /\ run' # Idle /\ run'.at = "diff" /\ run'.left # <<>>
        /\ run'.tunable = run.tunable /\ run'.next = run.next
        /\ Current' = Current /\ last' = last
    <3>1. "diff" \in Places
      BY DEF Places
    <3> QED
      BY <1>0, <1>9, <3>1, RunGoes DEF Continue
  <2>2. Saved' /\ Untouched'
    BY <1>2, <1>7, <2>1 DEF Saved, Untouched, Changing
  <2>3. OriginClean'
    BY <1>0, <1>2, <2>1 DEF TreeInv, OriginClean, lls, Includes
  <2> QED
    BY <1>0, <1>2, <1>6, <2>1, <2>2, <2>3, RunStays
<1> QED
  BY <1>8, <1>9 DEF Restore

LEMMA DiffStep == ASSUME TreeInv, Diff PROVE TreeInv'
<1>0. TypeOK /\ run # Idle /\ run.at = "diff" /\ FilesTyped
  BY FilesAre DEF TreeInv, Diff, At
<1>1. /\ UNCHANGED <<tree, obj, vmlinux, toml, inputs, lls, torn, counters>>
      /\ \/ Exit("error")
         \/ last' = last /\ run' = [run EXCEPT !.at = "emit", !.hunks = Count(Current)]
  BY DEF Diff, Count
<1>2. FilesTyped'
  BY <1>0, <1>1 DEF FilesTyped, tree, lls, counters
<1>3. \A h \in Headers \ torn : header'[h] = {}
  BY <1>0, <1>1 DEF TreeInv, Untouched, Changing, tree
<1>4. CASE Exit("error")
  <2>1. "error" \in Exits
    BY DEF Exits
  <2> QED
    BY <1>0, <1>1, <1>2, <1>3, <1>4, <2>1, RunFails
<1>5. CASE last' = last /\ run' = [run EXCEPT !.at = "emit", !.hunks = Count(Current)]
  <2>1. run \in RunsOn /\ run.left # <<>> /\ Count(Current) \in Nat
    BY <1>0, RunFacts, MutationFacts
  <2>2. /\ run' \in RunsOn /\ run'.at = "emit" /\ run'.left = run.left
        /\ run'.tunable = run.tunable /\ run'.next = run.next
    BY <1>5, <2>1 DEF RunsOn
  <2>3. run' # Idle /\ Current' = Current
    BY <2>2, LocateAssumption DEF Current
  <2>4. Saved' /\ Untouched'
    BY <1>1, <1>3, <2>2 DEF Saved, Untouched, Changing
  <2>5. OriginClean'
    BY <1>0, <1>1, <2>2, <2>3 DEF TreeInv, OriginClean, lls, Includes
  <2> QED
    BY <1>0, <1>1, <1>2, <1>5, <2>1, <2>2, <2>3, <2>4, <2>5, RunStays
<1> QED
  BY <1>1, <1>4, <1>5

InputType == [source : Sources, const : Consts, text : SUBSET Consts]

\* An input under the first free number makes the sequence longer by one.
Extended(files, next, x) ==
    [n \in DOMAIN files \cup {next} |-> IF n = next THEN x ELSE files[n]]

Appends(new, files, x) ==
    /\ new \in Seq(InputType) /\ Len(new) = Len(files) + 1
    /\ DOMAIN new = 1..(Len(files) + 1) /\ new[Len(files) + 1] = x
    /\ \A n \in 1..Len(files) : new[n] = files[n]

LEMMA EmitInputs ==
    ASSUME NEW files \in Seq(InputType), NEW x \in InputType
    PROVE  Appends(Extended(files, Len(files) + 1, x), files, x)
<1>0. PICK next, new : next = Len(files) + 1 /\ new = Extended(files, next, x)
  OBVIOUS
<1>1. Len(files) \in Nat /\ DOMAIN files = 1..Len(files)
  OBVIOUS
<1>2. DOMAIN files \cup {next} = 1..next /\ next \in Nat
  BY <1>0, <1>1
<1>3. \A n \in 1..Len(files) : files[n] \in InputType /\ n \in 1..next /\ n # next
  BY <1>0, <1>1
<1>4. new = [n \in 1..next |-> IF n = next THEN x ELSE files[n]]
  BY <1>0, <1>2 DEF Extended
<1>5. \A n \in 1..next : n # next => n \in 1..Len(files)
  BY <1>0, <1>1
<1>6. new \in [1..next -> InputType]
  BY <1>3, <1>4, <1>5
<1>7. new \in Seq(InputType) /\ Len(new) = next
  BY <1>2, <1>6, FunctionIsSeq
<1>8. next \in 1..next /\ new[next] = x
  BY <1>0, <1>1, <1>4
<1>9. \A n \in 1..Len(files) : new[n] = files[n]
  BY <1>3, <1>4
<1> QED
  BY <1>0, <1>6, <1>7, <1>8, <1>9 DEF Appends

\* What every Emit does to the inputs
LEMMA EmitFacts ==
    ASSUME TypeOK, NextFree, Emit
    PROVE  /\ inputs' \in [Tunables -> Seq(InputType)]
           /\ Len(inputs'[run.tunable]) = Len(inputs[run.tunable]) + 1
           /\ inputs'[run.tunable][Len(inputs[run.tunable]) + 1] =
                [source |-> Current.source, const |-> Current.const, text |-> origin]
           /\ \A n \in 1..Len(inputs[run.tunable]) :
                inputs'[run.tunable][n] = inputs[run.tunable][n]
           /\ DOMAIN inputs'[run.tunable] = 1..(Len(inputs[run.tunable]) + 1)
           /\ \A t \in Tunables \ {run.tunable} : inputs'[t] = inputs[t]
<1>0. run # Idle
  BY DEF Emit, At
<1>1. PICK t, files, x, new :
        /\ t = run.tunable /\ files = inputs[t]
        /\ x = [source |-> Current.source, const |-> Current.const, text |-> origin]
        /\ new = Extended(files, run.next, x)
  OBVIOUS
<1>2. inputs' = [inputs EXCEPT ![t] = new]
  BY <1>1 DEF Emit, Extended
<1>3. inputs \in [Tunables -> Seq(InputType)] /\ t \in Tunables
  BY <1>0, <1>1, RunFacts DEF TypeOK, InputType
<1>4. x \in InputType
  BY <1>0, <1>1, RunFacts DEF TypeOK, InputType
<1>5. files \in Seq(InputType) /\ run.next = Len(files) + 1
  BY <1>0, <1>1, <1>3 DEF NextFree
<1>6. /\ new \in Seq(InputType) /\ Len(new) = Len(files) + 1
      /\ DOMAIN new = 1..(Len(files) + 1) /\ new[Len(files) + 1] = x
      /\ \A n \in 1..Len(files) : new[n] = files[n]
  <2>1. Appends(Extended(files, Len(files) + 1, x), files, x)
    BY <1>4, <1>5, EmitInputs
  <2>2. new = Extended(files, Len(files) + 1, x)
    BY <1>1, <1>5
  <2>3. Appends(new, files, x)
    BY <2>1, <2>2, Zenon
  <2> QED
    BY <2>3 DEF Appends
<1>7. /\ inputs' \in [Tunables -> Seq(InputType)] /\ inputs'[t] = new
      /\ \A u \in Tunables \ {t} : inputs'[u] = inputs[u]
  BY <1>2, <1>3, <1>6
<1> QED
  BY <1>1, <1>6, <1>7

\* Where the run is after it: with the rest of the mutation, with the next, or
\* at the end
LEMMA EmitRun ==
    ASSUME TypeOK, Emit
    PROVE  \/ /\ run.hunks > 1 /\ last' = last /\ run' \in RunsOn /\ run' # Idle
              /\ run'.tunable = run.tunable /\ run'.left = run.left
              /\ run'.next = run.next + 1 /\ run'.hunks = run.hunks - 1
              /\ run'.at = "emit" /\ Current' = Current
           \/ /\ run.hunks = 1 /\ Len(run.left) > 1 /\ last' = last
              /\ run' \in RunsOn /\ run' # Idle
              /\ run'.tunable = run.tunable /\ run'.left = Tail(run.left)
              /\ run'.left # <<>> /\ run'.next = run.next + 1 /\ run'.at = "origin"
           \/ ~(run.hunks > 1) /\ ~(run.hunks = 1 /\ Len(run.left) > 1) /\ Exit("ok")
<1>0. run # Idle /\ run.at = "emit"
  BY DEF Emit, At
<1>1. /\ run \in RunsOn /\ run.left # <<>> /\ run.next \in Nat /\ run.hunks \in Nat
      /\ run.left \in Seq(Mutation)
  BY <1>0, RunFacts
<1>2. PICK next : next = [run EXCEPT !.next = @ + 1, !.hunks = @ - 1]
  OBVIOUS
<1>3. \/ run.hunks > 1 /\ run' = next /\ last' = last
      \/ /\ run.hunks = 1 /\ Len(run.left) > 1 /\ last' = last
         /\ run' = [next EXCEPT !.left = Tail(@), !.at = "origin"]
      \/ ~(run.hunks > 1) /\ ~(run.hunks = 1 /\ Len(run.left) > 1) /\ Exit("ok")
  BY <1>2 DEF Emit
<1>4. CASE run.hunks > 1 /\ run' = next /\ last' = last
  <2>1. run.hunks - 1 \in Nat /\ run.next + 1 \in Nat \ {0}
    BY <1>1, <1>4
  <2>2. /\ run' \in RunsOn /\ run'.tunable = run.tunable /\ run'.left = run.left
        /\ run'.next = run.next + 1 /\ run'.hunks = run.hunks - 1 /\ run'.at = "emit"
    BY <1>0, <1>1, <1>2, <1>4, <2>1 DEF RunsOn
  <2> QED
    BY <1>4, <2>2, LocateAssumption DEF Current
<1>5. CASE /\ run.hunks = 1 /\ Len(run.left) > 1 /\ last' = last
           /\ run' = [next EXCEPT !.left = Tail(@), !.at = "origin"]
  <2>1. run.hunks - 1 \in Nat /\ run.next + 1 \in Nat \ {0}
    BY <1>1, <1>5
  <2>2. Tail(run.left) \in Seq(Mutation) /\ Tail(run.left) # <<>>
    <3>1. Len(run.left) > 1
      BY <1>5
    <3> QED
      BY <1>1, <3>1, TailFacts
  <2>3. /\ run' \in RunsOn /\ run'.tunable = run.tunable /\ run'.left = Tail(run.left)
        /\ run'.next = run.next + 1 /\ run'.at = "origin"
    BY <1>1, <1>2, <1>5, <2>1, <2>2 DEF RunsOn
  <2> QED
    BY <1>5, <2>2, <2>3, LocateAssumption
<1> QED
  BY <1>3, <1>4, <1>5

LEMMA EmitStep == ASSUME TreeInv, Emit PROVE TreeInv'
<1>0. /\ TypeOK /\ run # Idle /\ run.at = "emit" /\ FilesTyped /\ NextFree
      /\ run.tunable \in Tunables /\ Current.source \in Sources
  BY FilesAre, RunFacts DEF TreeInv, Emit, At
<1>1. UNCHANGED <<tree, obj, vmlinux, toml, lls, torn, counters>>
  BY DEF Emit
<1>2. FilesTyped'
  BY <1>0, <1>1 DEF FilesTyped, tree, lls, counters
<1>3. \A h \in Headers \ torn : header'[h] = {}
  BY <1>0, <1>1 DEF TreeInv, Untouched, Changing, tree
<1>4. PICK t, l, x :
        /\ t = run.tunable /\ l = Len(inputs[t])
        /\ x = [source |-> Current.source, const |-> Current.const, text |-> origin]
  OBVIOUS
<1>5. /\ inputs' \in [Tunables -> Seq(InputType)] /\ Len(inputs'[t]) = l + 1
      /\ inputs'[t][l + 1] = x /\ DOMAIN inputs'[t] = 1..(l + 1)
      /\ \A n \in 1..l : inputs'[t][n] = inputs[t][n]
      /\ \A u \in Tunables \ {t} : inputs'[u] = inputs[u]
  BY <1>0, <1>4, EmitFacts
<1>6. inputs[t] \in Seq(InputType) /\ l \in Nat /\ DOMAIN inputs[t] = 1..l /\ t \in Tunables
  <2>1. inputs[t] \in Seq(InputType) /\ t \in Tunables
    BY <1>0, <1>4 DEF TypeOK, InputType
  <2>2. Len(inputs[t]) \in Nat /\ DOMAIN inputs[t] = 1..Len(inputs[t])
    BY <2>1
  <2> QED
    BY <1>4, <2>1, <2>2
<1>7. InputsOriginal'
  <2> SUFFICES ASSUME NEW u \in Tunables, NEW n \in DOMAIN inputs'[u],
                      Includes(inputs'[u][n].source) \cap torn = {}
               PROVE  inputs'[u][n].text = {}
    BY <1>1 DEF InputsOriginal, Includes
  <2>1. CASE u # t
    BY <1>5, <2>1 DEF TreeInv, InputsOriginal
  <2>2. CASE u = t /\ n \in 1..l
    BY <1>5, <1>6, <2>2 DEF TreeInv, InputsOriginal
  <2>3. CASE u = t /\ n = l + 1
    BY <1>0, <1>4, <1>5, <2>3 DEF TreeInv, OriginClean
  <2>4. u = t => n \in 1..l \/ n = l + 1
    BY <1>5, <1>6
  <2> QED
    BY <2>1, <2>2, <2>3, <2>4
<1>8. CASE Exit("ok")
  <2>1. "ok" \in Exits
    BY DEF Exits
  <2>2. inputs' \in [Tunables -> Seq([source : Sources, const : Consts, text : SUBSET Consts])]
    BY <1>5 DEF InputType
  <2>3. toml' = toml /\ torn' = torn
    BY <1>1
  <2> QED
    BY <1>0, <1>2, <1>3, <1>7, <1>8, <2>1, <2>2, <2>3, RunEnds
<1>9. CASE ~Exit("ok")
  <2>1. /\ last' = last /\ run' \in RunsOn /\ run' # Idle /\ run'.tunable = t
        /\ run'.next = run.next + 1 /\ run'.left # <<>>
        /\ run'.at = "origin" \/ (run'.at = "emit" /\ Current' = Current)
    BY <1>0, <1>4, <1>9, EmitRun, RunFacts
  <2>2. TypeOK'
    BY <1>0, <1>1, <1>2, <1>5, <2>1 DEF TypeOK, FilesTyped, InputType
  <2>3. Saved' /\ Untouched'
    BY <1>1, <1>3, <2>1 DEF Saved, Untouched, Changing
  <2>4. OriginClean'
    BY <1>0, <1>1, <2>1 DEF TreeInv, OriginClean, lls, Includes
  <2>5. NextFree'
    BY <1>0, <1>4, <1>5, <1>6, <2>1 DEF NextFree
  <2> QED
    BY <1>7, <2>2, <2>3, <2>4, <2>5 DEF TreeInv
<1> QED
  BY <1>8, <1>9

LEMMA CrashStep == ASSUME TreeInv, Crash PROVE TreeInv'
<1>0. TypeOK /\ run # Idle /\ FilesTyped
  BY FilesAre DEF TreeInv, Crash
<1>1. /\ torn' = torn \cup {h \in Headers : header[h] # {}} /\ crashes' = crashes + 1
      /\ Exit("killed") /\ UNCHANGED <<tree, obj, vmlinux, toml, inputs, lls, runs, edits>>
  BY DEF Crash
<1>2. FilesTyped'
  BY <1>0, <1>1 DEF FilesTyped, tree, lls
<1>3. \A h \in Headers \ torn' : header'[h] = {}
  BY <1>1 DEF tree
<1>4. "killed" \in Exits
  BY DEF Exits
<1> QED
  BY <1>0, <1>1, <1>2, <1>3, <1>4, RunFails

\* What Start does to the run in hand and to the inputs
LEMMA StartFacts ==
    ASSUME TypeOK, NEW t \in Tunables, Start(t)
    PROVE  /\ run' \in RunsOn /\ run' # Idle /\ run'.tunable = t /\ run'.left = toml[t]
           /\ run'.left # <<>> /\ run'.next = 1 /\ run'.at = "origin"
           /\ toml[t] \in Seq(Mutation) /\ toml[t] \in Versions[t]
           /\ inputs' \in [Tunables -> Seq(InputType)] /\ inputs'[t] = <<>>
           /\ \A u \in Tunables \ {t} : inputs'[u] = inputs[u] /\ last'[u] = last[u]
           /\ last' \in LastType /\ last'[t] = [cfg |-> toml[t], exit |-> "running"]
<1>1. /\ run' = FirstOf(t) /\ inputs' = [inputs EXCEPT ![t] = <<>>]
      /\ last' = [last EXCEPT ![t] = [cfg |-> toml[t], exit |-> "running"]]
  BY DEF Start, NoInputs
<1>2. /\ toml[t] \in Seq(Mutation) /\ toml[t] \in Versions[t] /\ toml[t] # <<>>
      /\ inputs \in [Tunables -> Seq(InputType)] /\ last \in LastType
  BY LocateAssumption DEF TypeOK, InputType, LastType, Exits
<1>3. /\ run' \in RunsOn /\ run'.tunable = t /\ run'.left = toml[t]
      /\ run'.next = 1 /\ run'.at = "origin"
  BY <1>1, <1>2 DEF FirstOf, RunsOn
<1>4. run' # Idle
  BY <1>3, LocateAssumption
<1>5. /\ inputs' \in [Tunables -> Seq(InputType)] /\ inputs'[t] = <<>>
      /\ \A u \in Tunables \ {t} : inputs'[u] = inputs[u]
  BY <1>1, <1>2
<1>6. PICK r : r = [cfg |-> toml[t], exit |-> "running"]
  OBVIOUS
<1>7. r \in [cfg : Seq(Mutation), exit : Exits]
  BY <1>2, <1>6 DEF Exits
<1>8. /\ last' \in LastType /\ last'[t] = r
      /\ \A u \in Tunables \ {t} : last'[u] = last[u]
  BY <1>1, <1>2, <1>6, <1>7 DEF LastType
<1> QED
  BY <1>2, <1>3, <1>4, <1>5, <1>6, <1>8

LEMMA StartStep == ASSUME TreeInv, NEW t \in Tunables, Start(t) PROVE TreeInv'
<1>0. TypeOK /\ run = Idle /\ FilesTyped
  BY FilesAre DEF TreeInv, Start
<1>1. /\ run' \in RunsOn /\ run' # Idle /\ run'.tunable = t /\ run'.left = toml[t]
      /\ run'.left # <<>> /\ run'.next = 1 /\ run'.at = "origin"
      /\ toml[t] \in Versions[t]
      /\ inputs' \in [Tunables -> Seq(InputType)] /\ inputs'[t] = <<>>
      /\ \A u \in Tunables \ {t} : inputs'[u] = inputs[u] /\ last'[u] = last[u]
      /\ last' \in LastType /\ last'[t] = [cfg |-> toml[t], exit |-> "running"]
  BY <1>0, StartFacts
<1>2. runs' = runs + 1 /\ UNCHANGED <<tree, obj, vmlinux, toml, lls, torn, crashes, edits>>
  BY DEF Start
<1>3. FilesTyped'
  BY <1>0, <1>2 DEF FilesTyped, tree, lls
<1>4. \A u \in Tunables : toml'[u] \in Versions[u] /\ last'[u].cfg \in Versions[u]
  <2> SUFFICES ASSUME NEW u \in Tunables
               PROVE  toml'[u] \in Versions[u] /\ last'[u].cfg \in Versions[u]
    OBVIOUS
  <2>1. toml'[u] \in Versions[u] /\ last[u].cfg \in Versions[u]
    BY <1>0, <1>2 DEF TypeOK
  <2>2. CASE u = t
    BY <1>1, <2>1, <2>2
  <2>3. CASE u # t
    BY <1>1, <2>1, <2>3
  <2> QED
    BY <2>2, <2>3
<1>5. TypeOK'
  BY <1>0, <1>1, <1>2, <1>3, <1>4 DEF TypeOK, FilesTyped, InputType, LastType, Exits
<1>6. Saved' /\ Untouched' /\ OriginClean'
  BY <1>0, <1>1, <1>2 DEF TreeInv, Saved, Untouched, Changing, OriginClean, tree
<1>7. NextFree'
  BY <1>1 DEF NextFree
<1>8. InputsOriginal'
  <2> SUFFICES ASSUME NEW u \in Tunables, NEW n \in DOMAIN inputs'[u],
                      Includes(inputs'[u][n].source) \cap torn = {}
               PROVE  inputs'[u][n].text = {}
    BY <1>2 DEF InputsOriginal, Includes
  <2>1. u # t
    BY <1>1
  <2> QED
    BY <1>1, <2>1 DEF TreeInv, InputsOriginal
<1> QED
  BY <1>5, <1>6, <1>7, <1>8 DEF TreeInv

\* A step beside the run: an edit, a build of the kernel, or none
LEMMA BesideStep ==
    ASSUME TreeInv, FilesTyped', UNCHANGED <<tree, inputs, run, lls, last, torn>>,
           toml' \in [Tunables -> Seq(Mutation)],
           \A t \in Tunables : toml'[t] \in Versions[t]
    PROVE  TreeInv'
<1>1. TypeOK'
  BY DEF TreeInv, TypeOK, FilesTyped
<1>2. Saved' /\ Untouched' /\ OriginClean' /\ InputsOriginal' /\ NextFree'
  BY DEF TreeInv, Saved, Untouched, Changing, OriginClean, InputsOriginal, NextFree,
         Current, Includes, tree, lls
<1> QED
  BY <1>1, <1>2 DEF TreeInv

LEMMA EditTomlStep == ASSUME TreeInv, NEW t \in Tunables, EditToml(t) PROVE TreeInv'
<1>0. TypeOK /\ FilesTyped
  BY FilesAre DEF TreeInv
<1>1. PICK cfg \in Versions[t] : toml' = [toml EXCEPT ![t] = cfg]
  BY DEF EditToml
<1>2. cfg \in Seq(Mutation)
  BY LocateAssumption
<1>3. /\ toml' \in [Tunables -> Seq(Mutation)]
      /\ \A u \in Tunables : toml'[u] \in Versions[u]
  BY <1>0, <1>1, <1>2 DEF TypeOK
<1>4. FilesTyped'
  BY <1>0 DEF EditToml, FilesTyped, tree, lls
<1>5. UNCHANGED <<tree, inputs, run, lls, last, torn>>
  BY DEF EditToml
<1> QED
  BY <1>3, <1>4, <1>5, BesideStep

LEMMA BuildKernelStep == ASSUME TreeInv, BuildKernel PROVE TreeInv'
<1>0. TypeOK /\ FilesTyped
  BY FilesAre DEF TreeInv
<1>1. PICK fresh : fresh = [s \in Sources |-> [text |-> Text(s), time |-> seds]]
  OBVIOUS
<1>2. fresh \in [Sources -> [text : SUBSET Consts, time : Nat]]
  BY <1>0, <1>1, TextTyped DEF FilesTyped
<1>3. obj' = [s \in Sources |-> IF UpToDate(s) THEN obj[s] ELSE fresh[s]]
  BY <1>1 DEF BuildKernel
<1>4. obj' \in [Sources -> [text : SUBSET Consts, time : Nat]]
  BY <1>0, <1>2, <1>3 DEF FilesTyped, UpToDate
<1>5. vmlinux' \in [Sources -> SUBSET Consts]
  BY <1>4 DEF BuildKernel
<1>6. UNCHANGED <<tree, toml, inputs, run, lls, last, torn, counters>>
  BY DEF BuildKernel
<1>7. FilesTyped'
  BY <1>0, <1>4, <1>5, <1>6 DEF FilesTyped, tree, lls, counters
<1>8. toml' \in [Tunables -> Seq(Mutation)] /\ \A t \in Tunables : toml'[t] \in Versions[t]
  BY <1>0, <1>6 DEF TypeOK
<1> QED
  BY <1>6, <1>7, <1>8, BesideStep

LEMMA StutterStep == ASSUME TreeInv, UNCHANGED vars PROVE TreeInv'
<1>0. TypeOK /\ FilesTyped
  BY FilesAre DEF TreeInv
<1>1. FilesTyped'
  BY <1>0 DEF vars, tree, lls, counters, FilesTyped
<1>2. toml' \in [Tunables -> Seq(Mutation)] /\ \A t \in Tunables : toml'[t] \in Versions[t]
  BY <1>0 DEF TypeOK, vars
<1>3. UNCHANGED <<tree, inputs, run, lls, last, torn>>
  BY DEF vars
<1> QED
  BY <1>1, <1>2, <1>3, BesideStep

LEMMA TreeInvInit == Init => TreeInv
<1> SUFFICES ASSUME Init PROVE TreeInv
  OBVIOUS
<1>1. \A t \in Tunables : toml[t] \in Versions[t] /\ toml[t] \in Seq(Mutation)
  BY LocateAssumption DEF Init
<1>2. toml \in [Tunables -> Seq(Mutation)]
  BY <1>1 DEF Init
<1>3. /\ last \in LastType
      /\ \A t \in Tunables : last[t].cfg = toml[t]
  <2>1. \A t \in Tunables : [cfg |-> toml[t], exit |-> "none"] \in [cfg : Seq(Mutation), exit : Exits]
    BY <1>1 DEF Exits
  <2> QED
    BY <2>1 DEF Init, LastType
<1>4. inputs \in [Tunables -> Seq([source : Sources, const : Consts, text : SUBSET Consts])]
  BY DEF Init, NoInputs
<1>5. TypeOK
  <2>1. FilesTyped
    BY DEF Init, FilesTyped
  <2>2. run = Idle
    BY DEF Init
  <2> QED
    BY <1>1, <1>2, <1>3, <1>4, <2>1, <2>2 DEF FilesTyped, TypeOK, LastType, Exits
<1>6. InputsOriginal
  BY DEF Init, NoInputs, InputsOriginal
<1> QED
  BY <1>5, <1>6 DEF Init, TreeInv, Saved, Untouched, Changing, OriginClean, NextFree

LEMMA TreeInvStep == TreeInv /\ [Next]_vars => TreeInv'
<1> SUFFICES ASSUME TreeInv, [Next]_vars PROVE TreeInv'
  OBVIOUS
<1>1. ASSUME NEW t \in Tunables, Start(t) PROVE TreeInv'
  BY <1>1, StartStep
<1>2. ASSUME NEW t \in Tunables, EditToml(t) PROVE TreeInv'
  BY <1>2, EditTomlStep
<1>3. CASE BuildOrigin
  BY <1>3, BuildOriginStep
<1>4. CASE Backup
  BY <1>4, BackupStep
<1>5. CASE Sed
  BY <1>5, SedStep
<1>6. CASE BuildMutated
  BY <1>6, BuildMutatedStep
<1>7. CASE Restore
  BY <1>7, RestoreStep
<1>8. CASE Diff
  BY <1>8, DiffStep
<1>9. CASE Emit
  BY <1>9, EmitStep
<1>10. CASE Crash
  BY <1>10, CrashStep
<1>11. CASE BuildKernel
  BY <1>11, BuildKernelStep
<1>12. CASE UNCHANGED vars
  BY <1>12, StutterStep
<1> QED
  BY <1>1, <1>2, <1>3, <1>4, <1>5, <1>6, <1>7, <1>8, <1>9, <1>10, <1>11, <1>12 DEF Next

LEMMA TreeInvAlways == Spec => []TreeInv
BY TreeInvInit, TreeInvStep, PTL DEF Spec

\* Every variable keeps its type; in particular the input.txt files of a tunable
\* are numbered from 1 without a gap.
THEOREM LocateTyped == Spec => []TypeOK
<1>1. TreeInv => TypeOK
  BY DEF TreeInv
<1> QED
  BY <1>1, TreeInvAlways, PTL

\* After any run that was not killed, however it ended, the headers are the
\* original ones again, those aside that a killed run left changed ("finally"
\* in process_mutation).
THEOREM HeadersComeBack == Spec => []HeadersRestored
<1>1. TreeInv => HeadersRestored
  BY DEF TreeInv, Untouched, Changing, HeadersRestored
<1> QED
  BY <1>1, TreeInvAlways, PTL

\* Every input.txt of a source file whose headers no killed run left changed was
\* located in the original kernel (build_obj_to_ll compiles it anew).
THEOREM InputsAreOriginal == Spec => []InputsOriginal
<1>1. TreeInv => InputsOriginal
  BY DEF TreeInv
<1> QED
  BY <1>1, TreeInvAlways, PTL

\* No step of any run takes the last original copy of a header, the header or
\* its .bak: shutil.copy2 comes before sed, and os.replace after it.
THEOREM OriginalAlwaysKept == Spec => OriginalKept
<1>1. ASSUME TreeInv, TreeInv', [Next]_vars, NEW h \in Headers \ torn, HasOriginal(h)
      PROVE  HasOriginal(h)'
  <2>1. CASE h \notin torn'
    <3>1. /\ Changing' /\ h = Current'.header => bak'[h].text = {} /\ bak'[h] # NoFile
          /\ ~(Changing' /\ h = Current'.header) => header'[h] = {}
      BY <1>1, <2>1 DEF TreeInv, Untouched, Saved
    <3> QED
      BY <3>1 DEF HasOriginal
  <2>2. CASE h \in torn'
    <3>1. Crash
      BY <1>1, <2>2 DEF Next, vars, Start, EditToml, BuildOrigin, Backup, Sed,
         BuildMutated, Restore, Diff, Emit, BuildKernel
    <3>2. header' = header /\ bak' = bak
      BY <3>1 DEF Crash, tree
    <3> QED
      BY <1>1, <3>2 DEF HasOriginal
  <2> QED
    BY <2>1, <2>2
<1>2. TreeInv /\ TreeInv' /\ [Next]_vars
        => [\A h \in Headers \ torn : HasOriginal(h) => HasOriginal(h)']_vars
  BY <1>1
<1> QED
  BY <1>2, TreeInvAlways, PTL DEF Spec, OriginalKept

-----------------------------------------------------------------------------
(* The numbers of the inputs *)

\* The inputs that the mutation in hand has still to come
Remaining == IF run.at = "emit" THEN run.hunks ELSE Count(Current)

\* The number of the mutation in hand in the mutation.toml of the run
Nth(cfg) == Len(cfg) - Len(run.left) + 1

\* A run has the rest of its mutation.toml before it, and with what the mutation
\* in hand has still to come the inputs reach as far as they should.
Counted ==
    run # Idle =>
        LET cfg == last[run.tunable].cfg IN
        /\ last[run.tunable].exit = "running"
        /\ Len(run.left) <= Len(cfg)
        /\ \A k \in 1..Len(run.left) : run.left[k] = cfg[Nth(cfg) + k - 1]
        /\ Len(inputs[run.tunable]) + Remaining = Offsets(cfg)[Nth(cfg) + 1]
        /\ run.at = "emit" => run.hunks \in 1..Count(Current)

Follows(t) ==
    LET expected == Expected(last[t].cfg) IN
    /\ Len(inputs[t]) <= Len(expected)
    /\ \A n \in 1..Len(inputs[t]) : Entry(inputs[t][n]) = expected[n]
    /\ last[t].exit = "ok" => Len(inputs[t]) = Len(expected)

NumberInv ==
    Counted /\ \A t \in Tunables : last[t].exit # "none" => Follows(t)

\* A configuration is not empty, and its inputs have their cuts.
LEMMA ConfigFacts ==
    ASSUME TypeOK, NEW t \in Tunables
    PROVE  /\ last[t].cfg \in Seq(Mutation) /\ last[t].cfg # <<>>
           /\ Cuts(Offsets(last[t].cfg), last[t].cfg)
           /\ Expected(last[t].cfg) \in Seq(Names)
<1>1. last[t].cfg \in Seq(Mutation) /\ last[t].cfg # <<>>
  BY LocateAssumption DEF TypeOK
<1> QED
  BY <1>1, ExpectedCuts

LEMMA CountFacts ==
    ASSUME TypeOK, Counted, run # Idle, NEW cfg, cfg = last[run.tunable].cfg
    PROVE  /\ cfg \in Seq(Mutation) /\ Len(cfg) \in Nat
           /\ Nth(cfg) \in 1..Len(cfg) /\ Current = cfg[Nth(cfg)]
           /\ Len(run.left) \in 1..Len(cfg) /\ Current = run.left[1]
           /\ Cuts(Offsets(cfg), cfg) /\ Count(Current) \in Nat
           /\ Len(inputs[run.tunable]) \in Nat
<1>1. /\ run.left \in Seq(Mutation) /\ run.left # <<>> /\ run.tunable \in Tunables
      /\ Current \in Mutation
  BY RunFacts
<1>2. cfg \in Seq(Mutation) /\ Cuts(Offsets(cfg), cfg)
  BY <1>1, ConfigFacts
<1>3. Len(run.left) \in Nat \ {0} /\ Len(cfg) \in Nat
  BY <1>1, <1>2
<1>4. /\ Len(run.left) <= Len(cfg)
      /\ \A k \in 1..Len(run.left) : run.left[k] = cfg[Nth(cfg) + k - 1]
  BY DEF Counted
<1>5. Nth(cfg) \in 1..Len(cfg) /\ Nth(cfg) + 1 - 1 = Nth(cfg) /\ 1 \in 1..Len(run.left)
  <2>1. PICK a, b \in Nat : a = Len(run.left) /\ b = Len(cfg) /\ a <= b /\ a > 0
    BY <1>3, <1>4
  <2>2. PICK n \in 1..b : n = b - a + 1
    <3>1. a <= b /\ a > 0
      BY <2>1
    <3>2. b - a + 1 \in 1..b
      BY <3>1
    <3> QED
      BY <3>2
  <2>3. Nth(cfg) = n
    BY <2>1, <2>2 DEF Nth
  <2>4. n + 1 - 1 = n /\ 1 \in 1..a
    BY <2>1, <2>2
  <2> QED
    BY <2>1, <2>2, <2>3, <2>4
<1>6. run.left[1] = cfg[Nth(cfg)]
  BY <1>4, <1>5
<1>7. Current = run.left[1]
  BY <1>1 DEF Current
<1>8. inputs[run.tunable] \in Seq(InputType)
  BY <1>1 DEF TypeOK, InputType
<1>9. Count(Current) \in Nat /\ Len(inputs[run.tunable]) \in Nat
  BY <1>1, <1>8, MutationFacts
<1> QED
  BY <1>2, <1>3, <1>4, <1>5, <1>6, <1>7, <1>9

\* A step that stays with the mutation and writes no input
LEMMA StaysNumbered ==
    ASSUME NumberInv, run # Idle, UNCHANGED <<inputs, last>>, run'.tunable = run.tunable,
           run'.left = run.left, Remaining' = Remaining,
           run'.at = "emit" => run'.hunks \in 1..Count(Current)
    PROVE  NumberInv'
<1>1. \A t \in Tunables : Follows(t)' <=> Follows(t)
  BY DEF Follows
<1>2. Counted'
  BY DEF NumberInv, Counted, Nth, Current
<1> QED
  BY <1>1, <1>2 DEF NumberInv

\* A run that fails or is killed
LEMMA FailsNumbered ==
    ASSUME TypeOK, NumberInv, run # Idle, NEW how \in {"error", "killed"}, Exit(how),
           inputs' = inputs
    PROVE  NumberInv'
<1>0. how \in Exits
  BY DEF Exits
<1>1. /\ run' = Idle /\ last'[run.tunable].exit = how
      /\ \A t \in Tunables : last'[t].cfg = last[t].cfg
      /\ \A t \in Tunables \ {run.tunable} : last'[t] = last[t]
  BY <1>0, ExitFacts
<1>2. ASSUME NEW t \in Tunables, last'[t].exit # "none" PROVE Follows(t)'
  <2>1. last[t].exit # "none" /\ (last'[t].exit = "ok" => last[t].exit = "ok")
    BY <1>1, <1>2 DEF NumberInv, Counted
  <2> QED
    BY <1>1, <2>1 DEF NumberInv, Follows
<1> QED
  BY <1>1, <1>2 DEF NumberInv, Counted

LEMMA StartNumbered ==
    ASSUME TypeOK, NumberInv, NEW t \in Tunables, Start(t), TypeOK'
    PROVE  NumberInv'
<1>1. /\ run' \in RunsOn /\ run' # Idle /\ run'.tunable = t /\ run'.left = toml[t]
      /\ run'.left # <<>> /\ run'.at = "origin" /\ inputs'[t] = <<>>
      /\ toml[t] \in Seq(Mutation)
      /\ \A u \in Tunables \ {t} : inputs'[u] = inputs[u] /\ last'[u] = last[u]
      /\ last'[t] = [cfg |-> toml[t], exit |-> "running"]
  BY StartFacts
<1>2. PICK cfg : cfg = toml[t]
  OBVIOUS
<1>3. cfg \in Seq(Mutation) /\ cfg # <<>> /\ Expected(cfg) \in Seq(Names) /\ Cuts(Offsets(cfg), cfg)
  BY <1>1, <1>2, ExpectedCuts
<1>4. last'[t].cfg = cfg /\ last'[t].exit = "running"
  BY <1>1, <1>2
<1>5. Len(cfg) \in Nat \ {0} /\ Len(Expected(cfg)) \in Nat /\ Len(inputs'[t]) = 0
  BY <1>1, <1>3
<1>6. Counted'
  <2>1. Nth(cfg)' = 1
    BY <1>1, <1>2, <1>5 DEF Nth
  <2>2. Current' = cfg[1] /\ Count(cfg[1]) \in Nat
    BY <1>1, <1>2, <1>3, <1>5, MutationFacts DEF Current
  <2>3. Remaining' = Count(cfg[1])
    BY <1>1, <2>2 DEF Remaining
  <2>4. /\ 1 \in 1..Len(cfg) /\ Offsets(cfg)[1] = 0
        /\ Offsets(cfg)[1 + 1] = Offsets(cfg)[1] + Count(cfg[1])
    BY <1>3, <1>5 DEF Cuts
  <2>5. Len(inputs'[t]) + Count(cfg[1]) = Offsets(cfg)[1 + 1]
    BY <1>5, <2>2, <2>4
  <2>6. \A k \in 1..Len(cfg) : cfg[k] = cfg[1 + k - 1]
    BY <1>5
  <2> QED
    BY <1>1, <1>2, <1>4, <1>5, <2>1, <2>3, <2>5, <2>6 DEF Counted
<1>7. Follows(t)'
  BY <1>4, <1>5 DEF Follows
<1>8. \A u \in Tunables \ {t} : last'[u].exit # "none" => Follows(u)'
  BY <1>1 DEF NumberInv, Follows
<1> QED
  BY <1>6, <1>7, <1>8 DEF NumberInv

LEMMA EmitNumbered ==
    ASSUME TypeOK, NextFree, NumberInv, Emit
    PROVE  NumberInv'
<1>0. run # Idle /\ run.at = "emit" /\ run.tunable \in Tunables
  BY RunFacts DEF Emit, At
<1>1. PICK t, cfg, off, l, n, h :
        /\ t = run.tunable /\ cfg = last[t].cfg /\ off = Offsets(cfg)
        /\ l = Len(inputs[t]) /\ n = Nth(cfg) /\ h = run.hunks
  OBVIOUS
<1>2. /\ cfg \in Seq(Mutation) /\ Len(cfg) \in Nat /\ n \in 1..Len(cfg)
      /\ Current = cfg[n] /\ Len(run.left) \in 1..Len(cfg) /\ Cuts(off, cfg)
      /\ Count(Current) \in Nat /\ l \in Nat
  BY <1>0, <1>1, CountFacts DEF NumberInv
<1>3. /\ last[t].exit = "running" /\ h \in 1..Count(Current) /\ l + h = off[n + 1]
      /\ \A k \in 1..Len(run.left) : run.left[k] = cfg[n + k - 1]
  BY <1>0, <1>1 DEF NumberInv, Counted, Remaining
<1>4. /\ off \in [1..(Len(cfg) + 1) -> Nat] /\ off[n + 1] = off[n] + Count(cfg[n])
      /\ \A k \in (off[n] + 1)..off[n + 1] :
            k <= Len(Expected(cfg)) /\ Expected(cfg)[k] = Entry(cfg[n])
      /\ off[Len(cfg) + 1] = Len(Expected(cfg))
  BY <1>2 DEF Cuts
<1>5. off[n] \in Nat
  BY <1>2, <1>4
<1>6. l + 1 \in (off[n] + 1)..off[n + 1]
  BY <1>2, <1>3, <1>4, <1>5
<1>7. l + 1 <= Len(Expected(cfg)) /\ Expected(cfg)[l + 1] = Entry(Current)
  BY <1>2, <1>4, <1>6
<1>8. /\ Len(inputs'[t]) = l + 1
      /\ Entry(inputs'[t][l + 1]) = Entry(Current)
      /\ \A k \in 1..l : inputs'[t][k] = inputs[t][k]
      /\ \A u \in Tunables \ {t} : inputs'[u] = inputs[u]
  BY <1>1, EmitFacts DEF Entry
<1>9. ASSUME NEW k \in 1..(l + 1) PROVE Entry(inputs'[t][k]) = Expected(cfg)[k]
  <2>1. CASE k = l + 1
    BY <1>7, <1>8, <2>1
  <2>2. CASE k # l + 1
    <3>1. k \in 1..l
      BY <1>2, <2>2
    <3>2. Entry(inputs[t][k]) = Expected(cfg)[k]
      BY <1>0, <1>1, <1>3, <3>1 DEF NumberInv, Follows
    <3> QED
      BY <1>8, <3>1, <3>2
  <2> QED
    BY <2>1, <2>2
<1>10. CASE run.hunks > 1 \/ (run.hunks = 1 /\ Len(run.left) > 1)
  <2>1. last' = last /\ run' # Idle /\ run'.tunable = t
    BY <1>0, <1>1, <1>10, EmitRun
  <2>2. Follows(t)'
    BY <1>1, <1>3, <1>7, <1>8, <1>9, <2>1 DEF Follows
  <2>3. \A u \in Tunables \ {t} : last'[u].exit # "none" => Follows(u)'
    BY <1>8, <2>1 DEF NumberInv, Follows
  <2>4. Counted'
    <3>1. CASE run.hunks > 1
      <4>1. /\ run'.left = run.left /\ run'.hunks = h - 1 /\ run'.at = "emit"
            /\ Current' = Current
        BY <1>1, <3>1, EmitRun
      <4>2. Nth(cfg)' = n /\ Remaining' = h - 1
        BY <1>1, <4>1 DEF Nth, Remaining
      <4>3. (l + 1) + (h - 1) = off[n + 1] /\ h - 1 \in 1..Count(Current)
        <5>1. l \in Nat /\ h > 1 /\ Count(Current) \in Nat /\ l + h = off[n + 1]
              /\ h \in 1..Count(Current)
          BY <1>1, <1>2, <1>3, <3>1
        <5>2. PICK c, o : c = Count(Current) /\ o = off[n + 1]
          OBVIOUS
        <5>3. l \in Nat /\ c \in Nat /\ h \in 1..c /\ h > 1 /\ l + h = o
          BY <5>1, <5>2
        <5>4. (l + 1) + (h - 1) = o /\ h - 1 \in 1..c
          BY <5>3
        <5> QED
          BY <5>2, <5>4
      <4>4. last'[t].cfg = cfg /\ last'[t].exit = "running" /\ Offsets(cfg) = off
        BY <1>1, <1>3, <2>1
      <4>5. Len(run'.left) <= Len(cfg)
        BY <1>2, <4>1
      <4>6. \A k \in 1..Len(run'.left) : run'.left[k] = cfg[n + k - 1]
        BY <1>3, <4>1
      <4>7. Len(inputs'[t]) + Remaining' = off[n + 1]
        BY <1>8, <4>2, <4>3
      <4>8. run'.hunks \in 1..Count(Current')
        BY <4>1, <4>3
      <4> QED
        BY <2>1, <4>2, <4>4, <4>5, <4>6, <4>7, <4>8 DEF Counted
    <3>2. CASE ~(run.hunks > 1)
      <4>1. run.hunks = 1 /\ Len(run.left) > 1
        BY <1>10, <3>2
      <4>2. run'.left = Tail(run.left) /\ run'.at = "origin"
        BY <4>1, EmitRun
      <4>3. /\ Len(run'.left) = Len(run.left) - 1
            /\ \A k \in 1..(Len(run.left) - 1) : run'.left[k] = run.left[k + 1]
            /\ run'.left # <<>> /\ run'.left \in Seq(Mutation)
        BY <1>0, <4>1, <4>2, RunFacts, TailFacts
      <4>4. Nth(cfg)' = n + 1 /\ Len(run'.left) \in 1..Len(cfg) /\ n + 1 \in 1..Len(cfg)
        <5>1. PICK a, b \in Nat : a = Len(run.left) /\ b = Len(cfg) /\ a > 1 /\ a <= b
          BY <1>2, <4>1
        <5>2. n = b - a + 1 /\ Nth(cfg)' = b - (a - 1) + 1 /\ Len(run'.left) = a - 1
          BY <1>1, <4>3, <5>1 DEF Nth
        <5>3. b - (a - 1) + 1 = (b - a + 1) + 1 /\ a - 1 \in 1..b /\ (b - a + 1) + 1 \in 1..b
          BY <5>1
        <5> QED
          BY <5>1, <5>2, <5>3
      <4>5. \A k \in 1..Len(run'.left) : run'.left[k] = cfg[(n + 1) + k - 1]
        <5> SUFFICES ASSUME NEW k \in 1..Len(run'.left)
                     PROVE  run'.left[k] = cfg[(n + 1) + k - 1]
          OBVIOUS
        <5>1. k + 1 \in 1..Len(run.left) /\ k \in 1..(Len(run.left) - 1)
          BY <1>2, <4>3
        <5>2. n + (k + 1) - 1 = (n + 1) + k - 1
          BY <1>2
        <5> QED
          BY <1>3, <4>3, <5>1, <5>2
      <4>6. Current' = cfg[n + 1]
        <5>1. 1 \in 1..Len(run'.left) /\ (n + 1) + 1 - 1 = n + 1
          BY <1>2, <4>4
        <5>2. run'.left[1] = cfg[n + 1]
          BY <4>5, <5>1
        <5> QED
          BY <4>3, <5>2 DEF Current
      <4>7. Remaining' = Count(cfg[n + 1]) /\ Count(cfg[n + 1]) \in Nat
        BY <1>2, <4>2, <4>4, <4>6, MutationFacts DEF Remaining
      <4>8. off[(n + 1) + 1] = off[n + 1] + Count(cfg[n + 1])
        BY <1>2, <4>4 DEF Cuts
      <4>9. l + 1 = off[n + 1]
        BY <1>1, <1>3, <4>1
      <4>10. (l + 1) + Count(cfg[n + 1]) = off[(n + 1) + 1]
        BY <4>8, <4>9
      <4> QED
        BY <1>1, <1>3, <1>8, <2>1, <4>2, <4>4, <4>5, <4>7, <4>10 DEF Counted
    <3> QED
      BY <3>1, <3>2
  <2> QED
    BY <2>2, <2>3, <2>4 DEF NumberInv
<1>11. CASE ~(run.hunks > 1 \/ (run.hunks = 1 /\ Len(run.left) > 1))
  <2>1. Exit("ok") /\ "ok" \in Exits
    BY <1>11, EmitRun DEF Exits
  <2>2. /\ run' = Idle /\ last'[t].cfg = cfg /\ last'[t].exit = "ok"
        /\ \A u \in Tunables \ {t} : last'[u] = last[u]
    BY <1>0, <1>1, <2>1, ExitFacts
  <2>3. h = 1 /\ Len(run.left) = 1
    <3>1. PICK a, b \in Nat \ {0} : a = h /\ b = Len(run.left)
      BY <1>2, <1>3
    <3>2. ~(a > 1) /\ ~(a = 1 /\ b > 1)
      BY <1>1, <1>11, <3>1
    <3>3. a = 1 /\ b = 1
      BY <3>2
    <3> QED
      BY <3>1, <3>3
  <2>4. n = Len(cfg)
    <3>1. PICK b \in Nat : b = Len(cfg)
      BY <1>2
    <3>2. n = b - 1 + 1
      BY <1>1, <2>3, <3>1 DEF Nth
    <3> QED
      BY <3>1, <3>2
  <2>7. l + 1 = Len(Expected(cfg))
    BY <1>3, <1>4, <2>3, <2>4
  <2>5. Follows(t)'
    BY <1>7, <1>8, <1>9, <2>2, <2>7 DEF Follows
  <2>6. \A u \in Tunables \ {t} : last'[u].exit # "none" => Follows(u)'
    BY <1>8, <2>2 DEF NumberInv, Follows
  <2> QED
    BY <2>2, <2>5, <2>6 DEF NumberInv, Counted
<1> QED
  BY <1>10, <1>11

LEMMA GoesNumbered ==
    ASSUME TypeOK, NumberInv, run # Idle, run.at # "emit", UNCHANGED <<inputs, last>>,
           NEW p \in Places \ {"emit"},
           \/ run' = [run EXCEPT !.at = p]
           \/ run' = [run EXCEPT !.at = p, !.failed = TRUE]
    PROVE  NumberInv'
<1>1. /\ run'.at = p /\ run'.tunable = run.tunable /\ run'.left = run.left
      /\ Current' = Current
  BY RunGoes
<1>2. Remaining' = Remaining
  BY <1>1 DEF Remaining
<1> QED
  BY <1>1, <1>2, StaysNumbered

LEMMA DiffNumbered == ASSUME TypeOK, NumberInv, Diff PROVE NumberInv'
<1>1. run # Idle /\ run.at = "diff" /\ inputs' = inputs
  BY DEF Diff, At
<1>2. CASE Exit("error")
  BY <1>1, <1>2, FailsNumbered
<1>3. CASE ~Exit("error")
  <2>1. /\ last' = last /\ run' = [run EXCEPT !.at = "emit", !.hunks = Count(Current)]
        /\ Count(Current) # 0
    BY <1>3 DEF Diff, Count
  <2>2. run \in RunsOn /\ Count(Current) \in Nat
    BY <1>1, RunFacts, MutationFacts
  <2>3. /\ run'.tunable = run.tunable /\ run'.left = run.left /\ run'.at = "emit"
        /\ run'.hunks = Count(Current)
    BY <2>1, <2>2 DEF RunsOn
  <2>4. Remaining' = Remaining
    BY <1>1, <2>3 DEF Remaining
  <2>5. run'.hunks \in 1..Count(Current)
    BY <2>1, <2>2, <2>3
  <2> QED
    BY <1>1, <2>1, <2>3, <2>4, <2>5, StaysNumbered
<1> QED
  BY <1>2, <1>3

LEMMA BesideNumbered ==
    ASSUME NumberInv, UNCHANGED <<inputs, run, last>>
    PROVE  NumberInv'
<1>1. \A t \in Tunables : Follows(t)' <=> Follows(t)
  BY DEF Follows
<1>2. Counted' <=> Counted
  BY DEF Counted, Nth, Remaining, Current
<1> QED
  BY <1>1, <1>2 DEF NumberInv

LEMMA NumberInvStep ==
    ASSUME TreeInv, TreeInv', NumberInv, [Next]_vars
    PROVE  NumberInv'
<1>0. TypeOK /\ TypeOK' /\ NextFree
  BY DEF TreeInv
<1>1. ASSUME NEW t \in Tunables, Start(t) PROVE NumberInv'
  BY <1>0, <1>1, StartNumbered
<1>2. CASE BuildOrigin \/ Restore
  <2>1. run # Idle /\ run.at # "emit" /\ inputs' = inputs
    BY <1>2 DEF BuildOrigin, Restore, At
  <2>2. CASE Exit("error")
    BY <1>0, <2>1, <2>2, FailsNumbered
  <2>3. ASSUME NEW p \in {"backup", "diff"}, Continue(p) PROVE NumberInv'
    <3>1. p \in Places \ {"emit"}
      BY DEF Places
    <3> QED
      BY <1>0, <2>1, <2>3, <3>1, GoesNumbered DEF Continue
  <2> QED
    BY <1>2, <2>2, <2>3 DEF BuildOrigin, Restore
<1>3. CASE Backup \/ Sed \/ BuildMutated
  <2>1. run # Idle /\ run.at # "emit" /\ UNCHANGED <<inputs, last>>
    BY <1>3 DEF Backup, Sed, BuildMutated, At
  <2>2. PICK p \in {"sed", "build", "restore"} :
          \/ run' = [run EXCEPT !.at = p]
          \/ run' = [run EXCEPT !.at = p, !.failed = TRUE]
    BY <1>3 DEF Backup, Sed, BuildMutated
  <2>3. p \in Places \ {"emit"}
    BY DEF Places
  <2> QED
    BY <1>0, <2>1, <2>2, <2>3, GoesNumbered
<1>4. CASE Diff
  BY <1>0, <1>4, DiffNumbered
<1>5. CASE Emit
  BY <1>0, <1>5, EmitNumbered
<1>6. CASE Crash
  BY <1>0, <1>6, FailsNumbered DEF Crash
<1>7. CASE BuildKernel
  BY <1>7, BesideNumbered DEF BuildKernel
<1>8. ASSUME NEW t \in Tunables, EditToml(t) PROVE NumberInv'
  BY <1>8, BesideNumbered DEF EditToml
<1>9. CASE UNCHANGED vars
  BY <1>9, BesideNumbered DEF vars
<1> QED
  BY <1>1, <1>2, <1>3, <1>4, <1>5, <1>6, <1>7, <1>8, <1>9 DEF Next

LEMMA NumberInvInit == Init => NumberInv
BY DEF Init, NumberInv, Counted

\* Inputs that follow the mutation.toml one by one are a prefix of what it asks for.
LEMMA FollowsIsPrefix ==
    ASSUME TypeOK, NEW t \in Tunables, Follows(t), NEW named, NEW expected,
           expected = Expected(last[t].cfg),
           named = [n \in DOMAIN inputs[t] |->
                      [source |-> inputs[t][n].source, const |-> inputs[t][n].const]]
    PROVE  /\ IsPrefix(named, expected)
           /\ last[t].exit = "ok" => named = expected
<1>1. inputs[t] \in Seq(InputType)
  BY DEF TypeOK, InputType
<1>2. PICK l \in Nat : l = Len(inputs[t]) /\ DOMAIN inputs[t] = 1..l
  BY <1>1
<1>3. expected \in Seq(Names)
  BY ConfigFacts
<1>4. \A n \in 1..l : named[n] = expected[n]
  BY <1>2 DEF Follows, Entry
<1>5. l <= Len(expected) /\ (last[t].exit = "ok" => l = Len(expected)) /\ Len(expected) \in Nat
  BY <1>2, <1>3 DEF Follows
<1>6. named \in Seq(Names) /\ Len(named) = l
  <2>1. named \in [1..l -> Names]
    <3>1. \A n \in 1..l : inputs[t][n] \in InputType
      BY <1>1, <1>2
    <3>2. \A n \in 1..l : [source |-> inputs[t][n].source, const |-> inputs[t][n].const] \in Names
      BY <3>1 DEF InputType, Names
    <3> QED
      BY <1>2, <3>2
  <2> QED
    BY <2>1, FunctionIsSeq
<1>7. Agrees(named, expected)
  BY <1>4, <1>5, <1>6 DEF Agrees
<1>8. IsPrefix(named, expected) /\ (Len(named) = Len(expected) => named = expected)
  <2>1. named \in Seq(Names)
    BY <1>6
  <2> QED
    BY <1>3, <1>7, <2>1, SamePrefix, Zenon
<1>9. last[t].exit = "ok" => Len(named) = Len(expected)
  BY <1>5, <1>6
<1> QED
  BY <1>8, <1>9

\* The inputs of a tunable are what the mutation.toml of its last run asks for,
\* in its order and as far as the run came, all of them once it has ended well:
\* those of an earlier run are removed first ("stale numbering otherwise").
THEOREM InputsAreNumbered == Spec => []InputsNumbered
<1>1. TreeInv /\ TreeInv' /\ NumberInv /\ [Next]_vars => NumberInv'
  BY NumberInvStep
<1>2. TreeInv /\ NumberInv => InputsNumbered
  BY FollowsIsPrefix DEF TreeInv, NumberInv, InputsNumbered
<1> QED
  BY <1>1, <1>2, NumberInvInit, TreeInvAlways, PTL DEF Spec

=============================================================================
