---------------------------- MODULE MCTaintLocal ----------------------------
(***************************************************************************)
(* One function with two variables, a global, two loads, three stores and  *)
(* a tail call.  Every combination of what they read and write is a        *)
(* module: straight-line and two-block code, kills, stores to the global,  *)
(* cyclic flow through memory.  The runs are those for every instruction   *)
(* that has the constant, and those for occurrences among all of them.     *)
(***************************************************************************)
EXTENDS Located, Fixtures

Local(value, ptr, kill, reload, block, result) ==
    Build(<< <<"p", "f", 1, "alloca", <<>> >>,
             <<"q", "f", 1, "alloca", <<>> >>,
             <<"s1", "f", 1, "store", <<"K", "p">> >>,
             <<"l1", "f", 1, "load", <<"p">> >>,
             <<"a", "f", 1, "op", <<"l1", "one">> >>,
             <<"s2", "f", 1, "store", <<value, ptr>> >>,
             <<"s3", "f", block, "store", <<"one", kill>> >>,
             <<"l2", "f", block, "load", <<reload>> >>,
             <<"t", "f", block, "call", <<result, "e">> >>,
             <<"r", "f", block, "ret", <<result>> >> >>,
          << <<"f", <<>> >>, <<"e", <<"x">> >> >>,
          [NoAttr EXCEPT !.globals = <<"G">>, !.tails = {"t"}])

All == [value : {"a", "one", "l2", "K"}, ptr : {"p", "q", "G"}, kill : {"p", "q"},
        reload : {"p", "q", "G"}, block : {1, 2}, result : {"l2", "K"}]

\* A second store of the constant matters to the seeding only.
Variants == {c \in All : c.value = "K" => c.kill = "p" /\ c.block = 1}

\* TLC evaluates Listed and Chosen once; a definition that replaces a constant
\* it would evaluate again at every use.  The LETs below keep the statistics of
\* TLC from following each use into Fixtures.
Listed ==
    Tabulate([c \in Variants |->
        Local(c.value, c.ptr, c.kill, c.reload, c.block, c.result)])

MCModules == LET modules == Listed IN modules

\* The runs for an instruction, with the options of ss-analysis.sh, and those
\* for an occurrence among all the instructions
Upward == [interproc |-> FALSE, indirect |-> FALSE, upward |-> TRUE]
Runs(m) ==
    {pass_args(write_input(m, i, "K"), Upward) : i \in Users(m, "K")}
        \cup {<<"f", "", "K", "", "", "", up, n>> :
                  up \in {"yes", ""}, n \in {"0", "1", "2"}}

Chosen ==
    LET modules == Listed IN
    UNION {{parse(modules[c], c, addr, params) :
               params \in Runs(modules[c]),
               addr \in Addresses(modules[c], <<"l1", "p", "q">>)} : c \in Variants}

MCInputs == LET inputs == Chosen IN inputs
=============================================================================
