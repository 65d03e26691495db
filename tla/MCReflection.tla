---------------------------- MODULE MCReflection ----------------------------
(* TLC instances of Reflection.                                             *)
EXTENDS Reflection

CONSTANTS r1, r2
=============================================================================
