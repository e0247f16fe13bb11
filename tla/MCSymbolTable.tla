--------------------------- MODULE MCSymbolTable ---------------------------
(***************************************************************************)
(* Two predefined functions, and symbols that a program binds, which are   *)
(* only ever compared with each other.                                     *)
(***************************************************************************)
EXTENDS SymbolTable, TLC

CONSTANTS cons, vector, h1, h2, h3

MCBuiltins == <<cons, vector>>
Symmetry == Permutations({h1, h2, h3})
=============================================================================
