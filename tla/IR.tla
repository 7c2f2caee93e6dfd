--------------------------------- MODULE IR ---------------------------------
(***************************************************************************)
(* The part of an LLVM module (llvm::Module) that TaintTrackerPass reads.  *)
(* LLVM is not part of the repository: what is here is what the pass asks  *)
(* of it.  A module is a record m:                                         *)
(*   insts, args, globals, funcs, consts   its values, by name; consts are *)
(*              the integer constants, none of which is a pointer          *)
(*   defined    the functions that are not declarations                    *)
(*   func, bb   the function and basic block of an instruction; func also  *)
(*              gives an Argument's parent                                 *)
(*   pos        the place of an instruction in the walk "for F in M, for   *)
(*              BB in F, for I in BB"                                      *)
(*   kind, ops  an instruction's class and its operands.  A store is       *)
(*              <<value, pointer>>, a load <<pointer>>, a gep <<base, ..>>,*)
(*              a call its arguments and last the called operand           *)
(*   params     the formal arguments of a function                         *)
(*   strip      Value::stripPointerCasts                                   *)
(*   origin     what getPointerParameterOrigin returns for a value: the    *)
(*              position of a pointer parameter of the value's function,   *)
(*              or 0 for nullptr                                           *)
(*   access     the indices extractStructFieldIndices returns, as a set    *)
(*   structs    the allocas of a struct type                               *)
(*   field      the last index of a gep, -1 if it is not a constant        *)
(*   elem       the source element type of a gep                           *)
(*   tails      the calls without a result that are marked tail            *)
(* Argument numbers start at 1 here and at 0 in the code.                  *)
(***************************************************************************)
EXTENDS Integers, Sequences

Kinds == {"alloca", "load", "store", "gep", "call", "ret", "phi", "cast", "op"}

Values(m) == m.insts \cup m.args \cup m.globals \cup m.funcs \cup m.consts

Operands(m, i) == {m.ops[i][k] : k \in DOMAIN m.ops[i]}

Of(m, kind) == {i \in m.insts : m.kind[i] = kind}

\* Instructions and arguments belong to a function: an instruction uses those
\* of its own, and no cast leads out of it.
Locals(m) == m.insts \cup m.args
LocalOK(m) ==
    /\ m.structs \subseteq Of(m, "alloca")
    /\ \A f \in m.funcs : \A k \in DOMAIN m.params[f] : m.func[m.params[f][k]] = f
    /\ \A i \in m.insts : \A v \in Operands(m, i) \cap Locals(m) : m.func[v] = m.func[i]
    /\ \A v \in Values(m) : m.strip[v] \in Locals(m) =>
           v \in Locals(m) /\ m.func[m.strip[v]] = m.func[v]

\* What the types of LLVM guarantee of a module that the verifier accepts.
ModuleOK(m) ==
    /\ m.defined \subseteq m.funcs
    /\ m.insts \cap m.args = {}
    /\ m.pos \in [m.insts -> Nat]
    /\ \A i, j \in m.insts : m.pos[i] = m.pos[j] => i = j
    /\ m.kind \in [m.insts -> Kinds]
    /\ m.ops \in [m.insts -> Seq(Values(m))]
    /\ m.func \in [m.insts \cup m.args -> m.funcs]
    /\ m.params \in [m.funcs -> Seq(m.args)]
    /\ m.strip \in [Values(m) -> Values(m)]
    /\ m.origin \in [Values(m) -> Nat]
    /\ \A i \in m.insts :
          /\ m.kind[i] = "store" => Len(m.ops[i]) = 2 /\ m.ops[i][2] \notin m.consts
          /\ m.kind[i] = "load" => Len(m.ops[i]) = 1
          /\ m.kind[i] = "gep" => Len(m.ops[i]) >= 1
          /\ m.kind[i] = "call" => Len(m.ops[i]) >= 1
          /\ m.kind[i] = "ret" => Len(m.ops[i]) <= 1
    /\ LocalOK(m)

\* Value::users, as the set of the instructions among them
Users(m, v) == {i \in m.insts : v \in Operands(m, i)}

StoredValue(m, s) == m.ops[s][1]
StorePointer(m, s) == m.strip[m.ops[s][2]]

\* Two geps with the same indices into the same type.  An index that is no
\* constant is like any other that is none.
sameGEPPattern(m, g, h) ==
    /\ Len(m.ops[g]) = Len(m.ops[h]) /\ m.elem[g] = m.elem[h]
    /\ \A k \in 2..Len(m.ops[g]) :
          \/ m.ops[g][k] = m.ops[h][k]
          \/ {m.ops[g][k], m.ops[h][k]} \cap m.consts = {}

\* CallInst::arg_size, and getCalledFunction: the callee of a direct call
ArgSize(m, c) == Len(m.ops[c]) - 1
CalledOperand(m, c) == m.ops[c][Len(m.ops[c])]
IsDirect(m, c) == CalledOperand(m, c) \in m.funcs

CallsTo(m, f) == {c \in Of(m, "call") : CalledOperand(m, c) = f}

SameBlock(m, i, j) == m.func[i] = m.func[j] /\ m.bb[i] = m.bb[j]

\* The pointers a tainted pointer must be among for a load to read it: the
\* pointer it loads from or, for a gep, the gep's base.
LoadedPointers(m, l) ==
    LET ptr == m.strip[m.ops[l][1]]
    IN {ptr} \cup {m.strip[m.ops[g][1]] : g \in {x \in Of(m, "gep") : x = ptr}}

\* Case 2 of the upward search: the variable whose address an argument is
PointedVar(m, v) ==
    {a \in Of(m, "alloca") : a = v}
        \cup {m.strip[m.ops[g][1]] : g \in {x \in Of(m, "gep") : x = v}}

\* The allocas whose address is stored in a field of the struct s, for the
\* fields in "accessed" (for every field if it is empty).
FieldTargets(m, s, accessed) ==
    {a \in Of(m, "alloca") :
        \E g \in Of(m, "gep") \cap Users(m, s), st \in Of(m, "store") :
            /\ accessed = {} \/ m.field[g] \in accessed
            /\ m.ops[st][2] = g
            /\ m.strip[StoredValue(m, st)] = a}
=============================================================================
