----------------------------- MODULE MCSessions -----------------------------
(* TLC instances of Sessions.                                               *)
EXTENDS Sessions

CONSTANTS a2a, mcp, mcpOther, t1, t2, q1, q2
=============================================================================
