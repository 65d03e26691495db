--------------------------- MODULE MCGraphClient ----------------------------
(* TLC instances of GraphClient.                                            *)
EXTENDS GraphClient
=============================================================================
