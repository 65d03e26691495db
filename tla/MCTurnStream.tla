---------------------------- MODULE MCTurnStream ----------------------------
(* TLC instances of TurnStream.                                             *)
EXTENDS TurnStream

CONSTANTS m1, m2, x, y, z
=============================================================================
