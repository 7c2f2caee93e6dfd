------------------------------ MODULE MCSSGen ------------------------------
(***************************************************************************)
(* A driver with two inputs and one with one; the two files of vmlinux and *)
(* one of a module, each written in two chunks.                            *)
(***************************************************************************)
EXTENDS SSGen, TLC

MCOrder == <<"nm", "readelf", "module.nm">>
MCInputs == "d1" :> <<"i1", "i2">> @@ "d2" :> <<"i3">>
=============================================================================
