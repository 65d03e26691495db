------------------------------ MODULE MCDaemon ------------------------------
(* TLC instances of Daemon.                                                 *)
EXTENDS Daemon

CONSTANTS c1, t1, i1, e1, e2

MCPeriod == [j \in {t1, i1} |-> IF j = t1 THEN 3 ELSE 4]
MCSource == [j \in {c1} |-> 2]
MCStart == [e \in {e1, e2} |-> IF e = e1 THEN 6 ELSE 7]
=============================================================================
