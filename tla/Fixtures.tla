------------------------------ MODULE Fixtures ------------------------------
(***************************************************************************)
(* LLVM modules for model checking: Build turns a listing of instructions  *)
(* <<name, function, block, kind, operands>> in module order into the      *)
(* record of IR, computing "origin" and "access" with the searches of      *)
(* PointerOrigin.                                                          *)
(***************************************************************************)
EXTENDS PointerOrigin, FiniteSets, TLC

\* TLC evaluates a function built with @@ once, not at every application.
Tabulate(f) == f @@ <<>>

\* functions: pairs <<name, formal arguments>>; attr: globals, ptrs, structs,
\* tails and field.  "listing" has every value at least once.
Build(code, functions, attr) ==
    LET insts == {code[n][1] : n \in DOMAIN code}
        At(i) == CHOOSE n \in DOMAIN code : code[n][1] = i
        funcs == {functions[n][1] : n \in DOMAIN functions}
        params == Tabulate([f \in funcs |->
                    (CHOOSE p \in ToSet(functions) : p[1] = f)[2]])
        args == UNION {ToSet(params[f]) : f \in funcs}
        globals == ToSet(attr.globals)
        listing == Tabulate(
                     FlattenSeq([n \in DOMAIN code |-> <<code[n][1]>> \o code[n][5]])
                     \o FlattenSeq([n \in DOMAIN functions |->
                            <<functions[n][1]>> \o functions[n][2]])
                     \o attr.globals)
        all == ToSet(listing)
        kind == Tabulate([i \in insts |-> code[At(i)][4]])
        ops == Tabulate([i \in insts |-> code[At(i)][5]])
        strip[v \in all] == IF v \in insts /\ kind[v] = "cast"
                            THEN strip[ops[v][1]] ELSE v
        geps == {i \in insts : kind[i] = "gep"}
        m == [insts |-> insts, args |-> args, globals |-> globals,
              funcs |-> funcs,
              consts |-> all \ (insts \cup args \cup globals \cup funcs),
              defined |-> {code[n][2] : n \in DOMAIN code},
              pos |-> Tabulate([i \in insts |-> At(i)]),
              kind |-> kind, ops |-> ops,
              bb |-> Tabulate([i \in insts |-> code[At(i)][3]]),
              func |-> Tabulate([v \in insts \cup args |->
                          IF v \in insts THEN code[At(v)][2]
                          ELSE CHOOSE f \in funcs : v \in ToSet(params[f])]),
              params |-> params, strip |-> Tabulate([v \in all |-> strip[v]]),
              ptrs |-> attr.ptrs, structs |-> attr.structs,
              field |-> Tabulate([g \in geps |->
                            IF g \in DOMAIN attr.field THEN attr.field[g] ELSE -1]),
              elem |-> Tabulate([g \in geps |-> ops[g][1] \in attr.structs]),
              tails |-> attr.tails,
              listing |-> listing, origin |-> {}, access |-> {}]
    IN [m EXCEPT !.origin = Tabulate([v \in all |-> getPointerParameterOrigin(m, v)]),
                 !.access = Tabulate([v \in all |-> ToSet(extractStructFieldIndices(m, v))])]

NoAttr == [globals |-> <<>>, ptrs |-> {}, structs |-> {}, tails |-> {},
           field |-> <<>>]

\* The addresses: the values in the sequence "shuffled" in every order, below
\* the others in module order.
Addresses(m, shuffled) ==
    LET n == Len(shuffled)
        In(v, s) == CHOOSE k \in DOMAIN s :
                        s[k] = v /\ \A j \in 1..(k - 1) : s[j] # v
    IN {Tabulate([v \in Values(m) |->
                  IF v \in ToSet(shuffled) THEN p[In(v, shuffled)]
                  ELSE n + In(v, m.listing)]) :
          p \in {p \in [1..n -> 1..n] : \A i, j \in 1..n : i # j => p[i] # p[j]}}
=============================================================================
