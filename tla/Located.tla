------------------------------- MODULE Located -------------------------------
(***************************************************************************)
(* From an instruction to the run that starts there: locate-const-in-ir.py *)
(* describes the instruction whose constant it saw change in an input.txt, *)
(* the drivers make the parameters of the pass of it, and the pass parses  *)
(* them and looks for the instruction again.  The two count occurrences    *)
(* differently: one compares lines of text, the other operands.            *)
(***************************************************************************)
EXTENDS TaintProperties, TLC

CONSTANT MaxNumber \* the largest number that a parameter can be

\* _normalize_ir: what is left of a line.  Every register reads %X.
normalize(m, i) ==
    <<m.kind[i], i \in m.tails,
      [k \in DOMAIN m.ops[i] |-> IF m.ops[i][k] \in m.insts \cup m.args THEN "%X"
                                 ELSE m.ops[i][k]]>>

\* Variant: the lines before it are counted, and not the line itself
locateFromZero(m, i) ==
    Cardinality({j \in m.insts : /\ m.func[j] = m.func[i] /\ m.pos[j] < m.pos[i]
                                 /\ normalize(m, j) = normalize(m, i)})

\* The lines of the function, down to the instruction's, that read like it.
\* Its own line is told from them by its !dbg metadata.
locate(m, i) ==
    Cardinality({j \in m.insts : /\ m.func[j] = m.func[i] /\ m.pos[j] <= m.pos[i]
                                 /\ normalize(m, j) = normalize(m, i)})

\* The word after "%N =", "tail" skipped, or the first word of the line
extract_opcode(m, i) == IF i \in m.tails THEN "tail" ELSE m.kind[i]

write_input(m, i, value) ==
    [FUNCTION_NAME |-> m.func[i], SOURCE_OP |-> extract_opcode(m, i),
     CONSTANT_VALUE |-> value, OCCURENCE |-> ToString(locate(m, i))]

-----------------------------------------------------------------------------
(* The parameters of the pass *)

Modes == [interproc : BOOLEAN, indirect : BOOLEAN, upward : BOOLEAN]

Flag(b) == IF b THEN "true" ELSE "false"

\* The text between < and > that both drivers write, split at the semicolons
pass_args(file, mode) ==
    <<file.FUNCTION_NAME, file.SOURCE_OP, file.CONSTANT_VALUE, "false",
      Flag(mode.interproc), Flag(mode.indirect), Flag(mode.upward),
      file.OCCURENCE, "true">>

IsNumber(s) == \E n \in 0..MaxNumber : ToString(n) = s
Number(s) == CHOOSE n \in 0..MaxNumber : ToString(n) = s

\* What the registration callback makes of the parameters: one that is empty
\* or missing, or a number that is none, leaves the default.  Of the numbers
\* the integer constants of the module stand for their own text.
parse(m, n, addr, Params) ==
    LET given(k) == Len(Params) >= k /\ Params[k] # ""
        isTrue(k) == given(k) /\ Params[k] \in {"true", "1", "TRUE", "yes"}
    IN [module |-> n, addr |-> addr,
        function |-> IF given(1) THEN Params[1] ELSE "gss_fill_context",
        opcode |-> IF given(2) THEN Params[2] ELSE "",
        constant |-> IF given(3) /\ Params[3] \in m.consts
                     THEN Params[3] ELSE "3600",
        interproc |-> isTrue(5), indirect |-> isTrue(6), upward |-> isTrue(7),
        occurrence |-> IF given(8) /\ IsNumber(Params[8]) THEN Number(Params[8])
                       ELSE 1]

\* The names in a .ll file: none is empty, a constant is not written like a
\* register, and the lines of a function can be numbered.
NamesOK(m) ==
    /\ "" \notin m.funcs
    /\ m.consts \cap (Locals(m) \cup {"%X"}) = {}
    /\ IsFiniteSet(m.insts)
    /\ \A i \in m.insts : locate(m, i) <= MaxNumber

ASSUME NumberAssumption ==
    /\ MaxNumber \in Nat
    /\ \A n \in 0..MaxNumber : /\ ToString(n) # ""
                               /\ \A k \in 0..MaxNumber : ToString(n) = ToString(k) => n = k
ASSUME NamesAssumption == \A n \in DOMAIN Modules : NamesOK(Modules[n])

-----------------------------------------------------------------------------
(* Properties *)

\* The run is one for instruction i: its parameters are those of i's input.txt.
IsRunFor(i) ==
    /\ input.constant \in Operands(M, i)
    /\ \E mode \in Modes :
          input = parse(M, input.module, input.addr,
                        pass_args(write_input(M, i, input.constant), mode))

Seeded == pc = "seed" /\ todo = {}
StartsWith(i) == TaintedValues \cap M.insts = {i}

\* The instructions among which the pass counts occurrences all read alike
\* and have the constant once.
Alike(i) ==
    /\ i \notin M.tails
    /\ \A j \in M.insts :
          M.func[j] = M.func[i] /\ M.kind[j] = M.kind[i] /\ input.constant \in Operands(M, j) =>
             /\ normalize(M, j) = normalize(M, i)
             /\ Cardinality({k \in DOMAIN M.ops[j] : M.ops[j][k] = input.constant}) = 1

\* The occurrence that locate-const-in-ir.py writes (112-139) is the one that
\* the pass finds (744-781), where the lines it counts are alike.
AlikeIsSeeded ==
    Seeded => \A i \in M.insts : IsRunFor(i) /\ Alike(i) => StartsWith(i)

\* "the changed instruction names the (function, opcode, value, occurrence)
\* tuple consumed by ss-analysis": the run for an instruction starts with that
\* instruction, and with no other.  FALSE of the code: a store of the constant
\* to a register and one to a global both are occurrence 1 for the script, and
\* a tail call without a result has the opcode "tail", which the pass knows not.
ChangedIsSeeded ==
    Seeded => \A i \in M.insts : IsRunFor(i) => StartsWith(i)
=============================================================================
