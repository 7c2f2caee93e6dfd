------------------------------ MODULE TaintFlow ------------------------------
(***************************************************************************)
(* What the taint analysis promises, whatever order it works in: it follows*)
(* the constant along the module's data flow and nothing else.  Every      *)
(* value, pointer, function and pointer parameter it ever records is one   *)
(* that the constant reaches from what is recorded already, in one of the  *)
(* ways named below, and nothing recorded is forgotten.  The specification *)
(* leaves out levels, the worklist, kill stores, execution order and the   *)
(* occurrence: TaintTracker records less than this allows, never more.     *)
(***************************************************************************)
EXTENDS IR

CONSTANT Modules    \* LLVM modules, by name

VARIABLES input,     \* the module, source function and constant
          tainted,   \* instructions and arguments that carry the constant
          pointers,  \* pointers to memory that holds it
          returning, \* functions that return it
          storing    \* <<f, k>>: f stores it through its pointer parameter k

vars == <<input, tainted, pointers, returning, storing>>

known == [tainted |-> tainted, pointers |-> pointers,
          returning |-> returning, storing |-> storing]

m == Modules[input.module]

-----------------------------------------------------------------------------
(* One step along the data flow, from what is known *)

\* The constant itself in the source function, or a value that carries it
Carries(from, i, v) ==
    \/ v \in from.tainted
    \/ v = input.constant /\ m.func[i] = input.function

\* The functions that a call may enter: its callee or, for a call through a
\* pointer, a function that the module stores somewhere
MayEnter(c, f) ==
    /\ f \in m.defined
    /\ \/ CalledOperand(m, c) = f
       \/ /\ input.indirect /\ ~IsDirect(m, c)
          /\ \E s \in Of(m, "store") : StoredValue(m, s) = f

ValueReached(from, v) ==
    \/ v \in m.insts /\ \E u \in Operands(m, v) : Carries(from, v, u)
    \/ /\ input.interproc
       /\ \E c \in Of(m, "call") : \E f \in m.defined :
             /\ MayEnter(c, f)
             /\ \E k \in 1..ArgSize(m, c) :
                   /\ Carries(from, c, m.ops[c][k])
                   /\ k <= Len(m.params[f]) /\ v = m.params[f][k]
    \/ v \in Of(m, "load") /\ LoadedPointers(m, v) \cap from.pointers # {}
    \/ \E f \in from.returning : v \in CallsTo(m, f)

\* c hands the address of var, or of a struct one of whose fields points to
\* var, to a function that stores through that parameter.
PointedByArgument(c, k, var) ==
    \E x \in PointedVar(m, m.ops[c][k]) :
        var = x \/ var \in FieldTargets(m, x, {})

PointerReached(from, p) ==
    \/ \E s \in Of(m, "store") :
          Carries(from, s, StoredValue(m, s)) /\ p = StorePointer(m, s)
    \/ input.upward /\ \E c \in Of(m, "call") : \E k \in 1..ArgSize(m, c) :
          /\ <<CalledOperand(m, c), k>> \in from.storing
          /\ PointedByArgument(c, k, p)

FunctionReached(from, f) ==
    \E r \in Of(m, "ret") :
        m.func[r] = f /\ \E v \in Operands(m, r) : Carries(from, r, v)

ParamReached(from, x) ==
    \/ \E s \in Of(m, "store") :
          /\ Carries(from, s, StoredValue(m, s))
          /\ x = <<m.func[s], m.origin[m.ops[s][2]]>>
    \/ input.upward /\ \E c \in Of(m, "call") : \E k \in 1..ArgSize(m, c) :
          /\ <<CalledOperand(m, c), k>> \in from.storing
          /\ x = <<m.func[c], m.origin[m.ops[c][k]]>>

-----------------------------------------------------------------------------
(* The specification *)

Init ==
    /\ tainted = {} /\ pointers = {} /\ returning = {} /\ storing = {}

Next ==
    /\ UNCHANGED input
    /\ tainted \subseteq tainted' /\ pointers \subseteq pointers'
    /\ returning \subseteq returning' /\ storing \subseteq storing'
    /\ \A v \in tainted' \ tainted : ValueReached(known, v)
    /\ \A p \in pointers' \ pointers : PointerReached(known, p)
    /\ \A f \in returning' \ returning : FunctionReached(known, f)
    /\ \A x \in storing' \ storing : ParamReached(known, x)

Spec == Init /\ [][Next]_vars

-----------------------------------------------------------------------------
(* The extent of the data flow *)

\* What could be recorded of the module
Extents == [tainted : SUBSET Locals(m), pointers : SUBSET Values(m),
            returning : SUBSET m.funcs, storing : SUBSET (m.funcs \X (Nat \ {0}))]

\* The data flow does not lead out of it.
Closed(extent) ==
    /\ \A v \in Locals(m) : ValueReached(extent, v) => v \in extent.tainted
    /\ \A p \in Values(m) : PointerReached(extent, p) => p \in extent.pointers
    /\ \A f \in m.funcs : FunctionReached(extent, f) => f \in extent.returning
    /\ \A x \in m.funcs \X (Nat \ {0}) :
          ParamReached(extent, x) => x \in extent.storing

Within(extent) ==
    /\ tainted \subseteq extent.tainted /\ pointers \subseteq extent.pointers
    /\ returning \subseteq extent.returning /\ storing \subseteq extent.storing
=============================================================================
