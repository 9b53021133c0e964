--------------------------- MODULE MCVariableTree ---------------------------
(***************************************************************************)
(* Every tree of up to five variables, built as the program builds it,     *)
(* with memory of base four, and every two calls on its states.            *)
(***************************************************************************)
EXTENDS VariableTree

(* A type whose bounds are narrower than its byte, the widest type, which  *)
(* is signed, and the one that has no memory at all.                       *)
NarrowWideAndNone == {"bool", "int", "cmtype"}
=============================================================================
