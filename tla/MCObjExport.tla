----------------------------- MODULE MCObjExport -----------------------------
(* Exporters that are alike, for model checking. *)
EXTENDS ObjExport, TLC

Alike == Permutations(Exporters)
=============================================================================
