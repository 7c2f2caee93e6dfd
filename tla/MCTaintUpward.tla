---------------------------- MODULE MCTaintUpward ----------------------------
(***************************************************************************)
(* A caller of the source function f uses what f returns both as an index  *)
(* and as the value of a store through its pointer parameter, as in        *)
(* x[f() + 1] = f(), compares the two and returns one; o calls the caller  *)
(* with the address of a field of a variable or of a global, which x, that *)
(* has no part in it, reads, keeps in a variable and returns.              *)
(***************************************************************************)
EXTENDS TaintProperties, Fixtures

Indexed(value, index, ptr, target) ==
    Build(<< <<"fr", "f", 1, "ret", <<"K">> >>,
             <<"cv", "c", 1, "alloca", <<>> >>,
             <<"cc", "c", 1, "call", <<"f">> >>,
             <<"cs", "c", 1, "store", <<"cc", "cv">> >>,
             <<"l1", "c", 1, "load", <<"cv">> >>,
             <<"l2", "c", 1, "load", <<"cv">> >>,
             <<"cg", "c", 1, "gep", <<ptr, index>> >>,
             <<"ct", "c", 1, "store", <<value, "cg">> >>,
             <<"ce", "c", 1, "op", <<"l1", "l2">> >>,
             <<"cr", "c", 1, "ret", <<"l1">> >>,
             <<"ov", "o", 1, "alloca", <<>> >>,
             <<"og", "o", 1, "gep", <<target, "zero">> >>,
             <<"oc", "o", 1, "call", <<"og", "c">> >>,
             <<"ol", "o", 1, "load", <<"ov">> >>,
             <<"xl", "x", 1, "load", <<"G">> >>,
             <<"xv", "x", 1, "alloca", <<>> >>,
             <<"xs", "x", 1, "store", <<"xl", "xv">> >>,
             <<"xm", "x", 1, "load", <<"xv">> >>,
             <<"xr", "x", 1, "ret", <<"xm">> >> >>,
          << <<"f", <<>> >>, <<"c", <<"cx">> >>, <<"o", <<>> >>, <<"x", <<>> >> >>,
          [NoAttr EXCEPT !.ptrs = {"cx"}, !.globals = <<"G">>])

Variants == [value : {"l1", "l2", "cc"}, index : {"l1", "l2", "one"},
             ptr : {"cx", "cv"}, target : {"ov", "G"}]

Listed == Tabulate([c \in Variants |-> Indexed(c.value, c.index, c.ptr, c.target)])

MCModules == LET modules == Listed IN modules

Chosen ==
    LET modules == Listed IN
    UNION {{[module |-> c, addr |-> addr, function |-> "f", constant |-> "K",
             opcode |-> "ret", occurrence |-> 1, interproc |-> FALSE,
             indirect |-> FALSE, upward |-> TRUE] :
               addr \in Addresses(modules[c], <<"cg", "cs", "ct">>)} : c \in Variants}

MCInputs == LET inputs == Chosen IN inputs
=============================================================================
