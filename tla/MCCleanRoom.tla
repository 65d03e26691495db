---------------------------- MODULE MCCleanRoom -----------------------------
(* TLC instances of CleanRoom.                                              *)
EXTENDS CleanRoom

CONSTANTS anna, ben, cleo, x, y, b1, b2, k1, k2, none

MCOwner == [i \in {x, y} |-> IF i = x THEN anna ELSE ben]

\* Anna shares her item with Ben, Ben whatever he has with Cleo.
MCShare ==
    [p \in {anna, ben, cleo} |-> [q \in {anna, ben, cleo} |->
        CASE p = anna /\ q = ben  -> {<<x, "own">>}
          [] p = ben  /\ q = cleo -> {x, y} \X Ways
          [] OTHER                -> {}]]

\* Everybody would accept Anna's item of her, Cleo everything of Ben's, and Anna what
\* is Ben's own, which he does not share with her.
MCAccept ==
    [q \in {anna, ben, cleo} |-> [p \in {anna, ben, cleo} |->
        CASE p = anna             -> {x}
          [] p = ben /\ q = cleo  -> {x, y}
          [] p = ben /\ q = anna  -> {y}
          [] OTHER                -> {}]]
=============================================================================
