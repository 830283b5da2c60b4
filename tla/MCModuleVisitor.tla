--------------------------- MODULE MCModuleVisitor ---------------------------
(* Files of a few events; names are interchangeable.                       *)
EXTENDS ModuleVisitor, TLC

MCSymmetry == Permutations(Ident)
=============================================================================
