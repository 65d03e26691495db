----------------------------- MODULE MCSpawner -----------------------------
(* TLC instances of Spawner.                                                *)
EXTENDS Spawner

CONSTANTS d1, d2, p1, p2, p3
=============================================================================
