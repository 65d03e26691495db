---------------------------- MODULE MCApprovals ----------------------------
(* TLC instances of Approvals.                                              *)
EXTENDS Approvals, TLC

CONSTANTS cli, server, op1, op2, k1, k2
=============================================================================
