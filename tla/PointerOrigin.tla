---------------------------- MODULE PointerOrigin ----------------------------
(***************************************************************************)
(* The recursive searches that TaintTrackerPass makes from a pointer back  *)
(* to what it was computed from: getPointerParameterOrigin, which finds    *)
(* the pointer parameter it comes from, and extractStructFieldIndices,     *)
(* which collects the struct fields on the way.  Both thread a set of      *)
(* visited values through the whole search, so a value reached twice is    *)
(* followed once.  m.ptrs are the arguments of pointer type; the users of  *)
(* an alloca are visited from the last to the first, the order of LLVM's   *)
(* use lists.                                                              *)
(***************************************************************************)
EXTENDS IR, SequencesExt, FiniteSets

\* The stores among the users of an alloca.  It may be the value stored as
\* well as the pointer stored to: the code does not tell them apart.
AllocaStores(m, a) ==
    LET stores == Of(m, "store") \cap Users(m, a)
        After(s) == {t \in stores : m.pos[t] > m.pos[s]}
    IN [n \in 1..Cardinality(stores) |->
            CHOOSE s \in stores : Cardinality(After(s)) = n - 1]

ArgNo(m, a) == CHOOSE k \in DOMAIN m.params[m.func[a]] : m.params[m.func[a]][k] = a

Found(n, visited) == [origin |-> n, visited |-> visited]

\* The result for one value: the parameter's number, or 0, and the values
\* visited.  FirstOf tries a sequence of values and stops at the first hit;
\* AllOf, for a phi, follows every one and keeps the first hit.
RECURSIVE Search(_, _, _), FirstOf(_, _, _), AllOf(_, _, _)

Search(m, v, visited) ==
    LET seen == visited \cup {v}
        s == m.strip[v]
        ptr == m.strip[m.ops[s][1]]
    IN
    IF v \in visited THEN Found(0, visited)
    ELSE IF s \in m.args /\ s \in m.ptrs THEN Found(ArgNo(m, s), seen)
    ELSE IF s \in Of(m, "phi") THEN AllOf(m, m.ops[s], seen)
    ELSE IF s \in Of(m, "gep") THEN Search(m, m.ops[s][1], seen)
    ELSE IF s \in Of(m, "load")
         THEN IF ptr \in Of(m, "alloca")
              THEN FirstOf(m, [n \in DOMAIN AllocaStores(m, ptr) |->
                                  m.strip[StoredValue(m, AllocaStores(m, ptr)[n])]],
                           seen)
              ELSE Search(m, ptr, seen)
    ELSE Found(0, seen)

\* A parameter stored directly is found even if it was visited before.
FirstOf(m, vs, visited) ==
    IF vs = <<>> THEN Found(0, visited)
    ELSE IF Head(vs) \in m.args /\ Head(vs) \in m.ptrs
         THEN Found(ArgNo(m, Head(vs)), visited)
    ELSE LET r == Search(m, Head(vs), visited)
         IN IF r.origin # 0 THEN r ELSE FirstOf(m, Tail(vs), r.visited)

AllOf(m, vs, visited) ==
    IF vs = <<>> THEN Found(0, visited)
    ELSE LET r == Search(m, Head(vs), visited)
             rest == AllOf(m, Tail(vs), r.visited)
         IN IF r.origin # 0 THEN Found(r.origin, rest.visited) ELSE rest

getPointerParameterOrigin(m, v) == Search(m, v, {}).origin

-----------------------------------------------------------------------------

\* The fields, outermost first, and the values visited.  A load from an
\* alloca takes the first stored value with any field.
RECURSIVE Fields(_, _, _), FieldsOfFirst(_, _, _)

Fields(m, v, visited) ==
    LET seen == visited \cup {v}
        ptr == m.ops[v][1]
        base == Fields(m, ptr, seen)
    IN
    IF v \in visited THEN [fields |-> <<>>, visited |-> visited]
    ELSE IF v \in Of(m, "gep")
         THEN [base EXCEPT !.fields =
                  IF m.field[v] >= 0 THEN Append(@, m.field[v]) ELSE @]
    ELSE IF v \in Of(m, "load")
         THEN IF ptr \in Of(m, "alloca")
              THEN FieldsOfFirst(m, AllocaStores(m, ptr), seen) ELSE base
    ELSE [fields |-> <<>>, visited |-> seen]

FieldsOfFirst(m, stores, visited) ==
    IF stores = <<>> THEN [fields |-> <<>>, visited |-> visited]
    ELSE LET r == Fields(m, m.strip[StoredValue(m, Head(stores))], visited)
         IN IF r.fields # <<>> THEN r
            ELSE FieldsOfFirst(m, Tail(stores), r.visited)

extractStructFieldIndices(m, v) == Fields(m, v, {}).fields
=============================================================================
