------------------------------ MODULE MCLocate ------------------------------
(***************************************************************************)
(* Two tunables whose constants are defined in one header, a source file   *)
(* that both mutate, one with two instructions for the constant and one    *)
(* with none; a second header with a constant of its own.                  *)
(***************************************************************************)
EXTENDS LocateConst

Mutate(s, h, c) == [source |-> s, header |-> h, const |-> c]

MCVersions ==
    "t1" :> {<<Mutate("s1", "h1", "c1"), Mutate("s2", "h2", "c3")>>,
             <<Mutate("s2", "h1", "c1")>>}
    @@ "t2" :> {<<Mutate("s1", "h1", "c2")>>, <<Mutate("s2", "h1", "c2")>>}

MCHunks ==
    [s \in Sources |-> [c \in Consts |->
        CASE s = "s1" /\ c = "c1" -> 2
          [] s = "s2" /\ c = "c2" -> 0
          [] OTHER -> 1]]
=============================================================================
