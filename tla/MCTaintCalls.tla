---------------------------- MODULE MCTaintCalls ----------------------------
(***************************************************************************)
(* Five functions: the source f calls h, directly or through a pointer or  *)
(* a field that looks like the one h was stored to, and stores the         *)
(* constant through its own parameter; h calls itself; g                   *)
(* calls f and, with its arguments swapped, itself; k calls g with a       *)
(* struct that points to a variable; e is a declaration.  What is passed,  *)
(* stored and returned varies.                                             *)
(***************************************************************************)
EXTENDS TaintProperties, Fixtures

Chain(first, second, target, kept, back) ==
    Build(<< <<"hs", "h", 1, "store", <<"hu", "hp">> >>,
             <<"hc", "h", 1, "call", <<"hn", "hp", "hu", "h">> >>,
             <<"hr", "h", 1, "ret", <<"hu">> >>,
             <<"fv", "f", 1, "alloca", <<>> >>,
             <<"ft", "f", 1, "alloca", <<>> >>,
             <<"fh", "f", 1, "store", <<"h", "ft">> >>,
             <<"fl", "f", 1, "load", <<"ft">> >>,
             <<"fg", "f", 1, "gep", <<"ft", "zero">> >>,
             <<"fi", "f", 1, "store", <<"h", "fg">> >>,
             <<"fo", "f", 1, "gep", <<"fv", "zero">> >>,
             <<"fm", "f", 1, "load", <<"fo">> >>,
             <<"fa", "f", 1, "op", <<"K", "one">> >>,
             <<"fc", "f", 1, "call", <<first, second, "one", target>> >>,
             <<"fs", "f", 1, "store", <<"K", "fx">> >>,
             <<"fb", "f", 1, "store", <<"fa", kept>> >>,
             <<"fe", "f", 1, "call", <<"fa", "e">> >>,
             <<"fr", "f", 1, "ret", <<back>> >>,
             <<"gc", "g", 1, "call", <<"gx", "f">> >>,
             <<"gs", "g", 1, "call", <<"gy", "gx", "g">> >>,
             <<"gr", "g", 1, "ret", <<"gc">> >>,
             <<"kv", "k", 1, "alloca", <<>> >>,
             <<"kw", "k", 1, "alloca", <<>> >>,
             <<"kg", "k", 1, "gep", <<"kv", "zero">> >>,
             <<"ks", "k", 1, "store", <<"kw", "kg">> >>,
             <<"kc", "k", 1, "call", <<"kw", "kv", "g">> >>,
             <<"kl", "k", 2, "load", <<"kw">> >>,
             <<"kb", "k", 2, "store", <<"kc", "kg">> >>,
             <<"kr", "k", 2, "ret", <<"kc">> >> >>,
          << <<"h", <<"hu", "hp", "hn">> >>, <<"f", <<"fx">> >>,
             <<"g", <<"gx", "gy">> >>, <<"k", <<>> >>, <<"e", <<"ep">> >> >>,
          [globals |-> <<"G">>, ptrs |-> {"hp", "fx", "gx", "gy"},
           structs |-> {"kv"}, tails |-> {}, field |-> [i \in {"kg"} |-> 0]])

Variants == [first : {"fa", "K"}, second : {"fx", "fv", "fa"},
             target : {"h", "fl", "fm"}, kept : {"fx", "fv", "G"},
             back : {"fc", "fa"}]

Listed ==
    Tabulate([c \in Variants |-> Chain(c.first, c.second, c.target, c.kept, c.back)])

MCModules == LET modules == Listed IN modules

\* interproc, indirect and upward: down only, up only, all
Modes == {<<TRUE, FALSE, FALSE>>, <<FALSE, FALSE, TRUE>>, <<TRUE, TRUE, TRUE>>}

Chosen ==
    LET modules == Listed IN
    UNION {{[module |-> c, addr |-> addr, function |-> "f", constant |-> "K",
             opcode |-> opcode, occurrence |-> 0, interproc |-> mode[1],
             indirect |-> mode[2], upward |-> mode[3]] :
               mode \in Modes, opcode \in {"", "store"},
               addr \in Addresses(modules[c], <<"fc", "fb">>)} : c \in Variants}

MCInputs == LET inputs == Chosen IN inputs
=============================================================================
