-------------------------- MODULE CleanRoomProofs ---------------------------
(* Proofs about CleanRoom: the type invariant, that items only travel along *)
(* the rules, and that a purge is final.                                    *)
EXTENDS CleanRoom, TLAPS

-----------------------------------------------------------------------------
(* The type invariant                                                      *)

LEMMA TypeInit == Init => TypeOK
<1> SUFFICES ASSUME Init PROVE TypeOK
    OBVIOUS
<1>1. /\ memory \in [Personas -> SUBSET [bundle : Bundles, item : Items]]
      /\ file \in [Bundles -> File \cup {NoFile}]
      /\ revoked \subseteq Bundles
      /\ purged \subseteq Personas \X Bundles
      /\ late \in [Personas -> SUBSET [bundle : Bundles, item : Items]]
      BY DEF Init
<1>2. Idle \in Command
      BY DEF Idle, Command
<1>3. cmd = [c \in Commands |-> Idle] /\ \A c \in Commands : At(c, "idle")
      BY DEF Init, At, Idle
<1>4. cmd \in [Commands -> Command]
      BY <1>2, <1>3
<1>5. \A c \in Commands : ~At(c, "export") /\ ~At(c, "import")
      BY <1>3 DEF At
<1>6. QED
      BY <1>1, <1>3, <1>4, <1>5 DEF TypeOK

LEMMA TypeStep == TypeOK /\ [Next]_vars => TypeOK'
<1> SUFFICES ASSUME TypeOK, [Next]_vars PROVE TypeOK'
    OBVIOUS
<1> USE DEF TypeOK, At, Command, File, purges
<1>1. ASSUME NEW c \in Commands, NEW p \in Personas, NEW q \in Personas, Collect(c, p, q)
      PROVE  TypeOK'
  <2> DEFINE held == {h[1] : h \in Holdings(p) \cap Share[p][q]}
  <2>1. held \subseteq Items
        BY ConstantsAssumption
  <2> HIDE DEF held
  <2>2. cmd' = [cmd EXCEPT ![c] = [Idle EXCEPT !.at = "export", !.persona = p, !.about = q,
                                               !.items = held]]
        BY <1>1 DEF Collect, held
  <2>3. cmd'[c] = [at |-> "export", persona |-> p, about |-> q, items |-> held, bundles |-> {}]
        BY <2>2 DEF Idle
  <2>4. cmd' \in [Commands -> Command]
    <3>1. cmd'[c] \in Command
          BY <2>1, <2>3
    <3>2. cmd' = [cmd EXCEPT ![c] = cmd'[c]]
          BY <2>2
    <3>3. QED
          BY <3>1, <3>2
  <2>5. \A k \in Commands \ {c} : cmd'[k] = cmd[k]
        BY <2>2
  <2>6. \A k \in Commands :
            /\ ~At(k, "idle")' => cmd'[k].persona \in Personas
            /\ At(k, "export")' => cmd'[k].about \in Personas
            /\ At(k, "import")' => cmd'[k].about \in Bundles /\ Exported(cmd'[k].about)
        BY <2>3, <2>5 DEF Exported
  <2>7. UNCHANGED <<memory, file, revoked, purges>>
        BY <1>1 DEF Collect
  <2>8. QED
        BY <2>4, <2>6, <2>7 DEF Exported
<1>2. ASSUME NEW c \in Commands, NEW b \in Bundles, WriteBundle(c, b) PROVE TypeOK'
      BY <1>2 DEF WriteBundle, Finish, Idle, Exported
<1>3. ASSUME NEW c \in Commands, NEW b \in Bundles, NEW p \in Personas, BeginImport(c, b, p)
      PROVE  TypeOK'
      BY <1>3, ConstantsAssumption DEF BeginImport, Idle, Exported
<1>4. ASSUME NEW c \in Commands, NEW x \in Items, StoreItem(c, x) PROVE TypeOK'
      BY <1>4 DEF StoreItem, Exported
<1>5. ASSUME NEW b \in Bundles, NEW p \in Personas, Revoke(b, p) PROVE TypeOK'
      BY <1>5 DEF Revoke, Exported
<1>6. ASSUME NEW c \in Commands, NEW p \in Personas, BeginPurge(c, p) PROVE TypeOK'
      BY <1>6 DEF BeginPurge, Idle, Exported
<1>7. ASSUME NEW c \in Commands, NEW b \in Bundles, PurgeBundle(c, b) PROVE TypeOK'
  <2>1. cmd[c].persona \in Personas /\ Unstored(cmd[c].persona, b) \subseteq [bundle : Bundles, item : Items]
        BY <1>7 DEF PurgeBundle, Unstored
  <2>2. /\ memory' \in [Personas -> SUBSET [bundle : Bundles, item : Items]]
        /\ late' \in [Personas -> SUBSET [bundle : Bundles, item : Items]]
        /\ purged' \subseteq Personas \X Bundles
        BY <1>7, <2>1 DEF PurgeBundle
  <2>3. QED
        BY <1>7, <2>2 DEF PurgeBundle, Exported
<1>8. ASSUME NEW c \in Commands, Done(c) \/ Dies(c) PROVE TypeOK'
      BY <1>8 DEF Done, Dies, Finish, Idle, Exported
<1>9. CASE UNCHANGED vars
      BY <1>9 DEF vars, Exported
<1>10. QED
      BY <1>1, <1>2, <1>3, <1>4, <1>5, <1>6, <1>7, <1>8, <1>9 DEF Next, GoesOn

\* The commands, bundles and memories keep their types (core/cleanroom.py).
THEOREM TypeCorrect == Spec => []TypeOK
<1>1. QED
      BY TypeInit, TypeStep, PTL DEF Spec

-----------------------------------------------------------------------------
(* Along the rules.  Of an item and a set of personas that is closed for   *)
(* it, all that is on its way is kept within, too: a bundle has a source   *)
(* in the set and a share rule that admits it, and so has one about to be  *)
(* written; what is about to be stored has an importer in the set.         *)

Grants(p, q, x) ==
    \E way \in Ways : (way = "own" => Owner[x] = p) /\ <<x, way>> \in Share[p][q]

Within(S, x) ==
    /\ \A p \in Personas : \A f \in memory[p] : f.item = x => p \in S
    /\ \A b \in Bundles :
          Exported(b) /\ x \in file[b].items =>
              file[b].source \in S /\ Grants(file[b].source, file[b].audience, x)
    /\ \A c \in Commands :
          x \in cmd[c].items =>
              /\ At(c, "export") => cmd[c].persona \in S /\ Grants(cmd[c].persona, cmd[c].about, x)
              /\ At(c, "import") => cmd[c].persona \in S

AllWithin ==
    \A x \in Items, S \in SUBSET Personas : Owner[x] \in S /\ Closed(S, x) => Within(S, x)

LEMMA WithinInit == Init => AllWithin
BY DEF Init, AllWithin, Within, Exported, Idle, At

\* What is collected is held within the set, and by a rule.
LEMMA CollectedWithin ==
    ASSUME TypeOK, NEW x \in Items, NEW S \in SUBSET Personas, Owner[x] \in S, Within(S, x),
           NEW p \in Personas, NEW q \in Personas,
           x \in {h[1] : h \in Holdings(p) \cap Share[p][q]}
    PROVE  p \in S /\ Grants(p, q, x)
<1>1. PICK h \in Holdings(p) \cap Share[p][q] : x = h[1]
      OBVIOUS
<1>2. \/ h = <<x, "own">> /\ Owner[x] = p
      \/ h = <<x, "imported">> /\ \E f \in memory[p] : f.item = x
      BY <1>1 DEF Holdings
<1>3. QED
      BY <1>1, <1>2 DEF Grants, Within, Ways

LEMMA WithinStep == TypeOK /\ AllWithin /\ [Next]_vars => AllWithin'
<1> SUFFICES ASSUME TypeOK, [Next]_vars, NEW x \in Items, NEW S \in SUBSET Personas,
                    Owner[x] \in S, Closed(S, x), Within(S, x)
             PROVE  Within(S, x)'
    BY DEF AllWithin, Closed
<1> USE DEF Within
<1>1. ASSUME NEW c \in Commands, NEW p \in Personas, NEW q \in Personas, Collect(c, p, q)
      PROVE  Within(S, x)'
  <2> DEFINE held == {h[1] : h \in Holdings(p) \cap Share[p][q]}
  <2>1. x \in held => p \in S /\ Grants(p, q, x)
        BY CollectedWithin
  <2> HIDE DEF held
  <2>2. cmd' = [cmd EXCEPT ![c] = [Idle EXCEPT !.at = "export", !.persona = p, !.about = q,
                                               !.items = held]]
        BY <1>1 DEF Collect, held
  <2>3. \A k \in Commands : x \in cmd'[k].items =>
            /\ At(k, "export")' => cmd'[k].persona \in S /\ Grants(cmd'[k].persona, cmd'[k].about, x)
            /\ At(k, "import")' => cmd'[k].persona \in S
        BY <2>1, <2>2 DEF TypeOK, Command, At, Idle
  <2>4. QED
        BY <1>1, <2>3 DEF Collect, Exported, Grants
<1>2. ASSUME NEW c \in Commands, NEW b \in Bundles, WriteBundle(c, b) PROVE Within(S, x)'
      BY <1>2 DEF WriteBundle, Finish, Idle, TypeOK, Command, At, Exported, Grants
<1>3. ASSUME NEW c \in Commands, NEW b \in Bundles, NEW p \in Personas, BeginImport(c, b, p)
      PROVE  Within(S, x)'
  <2>1. x \in file[b].items \cap Accept[p][file[b].source] => p \in S
        BY <1>3 DEF BeginImport, Closed, Grants
  <2>2. QED
        BY <1>3, <2>1 DEF BeginImport, Idle, TypeOK, Command, At, Exported, Grants
<1>4. ASSUME NEW c \in Commands, NEW y \in Items, StoreItem(c, y) PROVE Within(S, x)'
  <2>1. \A p \in Personas : \A f \in memory'[p] : f.item = x => p \in S
        BY <1>4 DEF StoreItem, TypeOK
  <2>2. QED
        BY <1>4, <2>1 DEF StoreItem, TypeOK, Command, At, Exported, Grants
<1>5. ASSUME NEW b \in Bundles, NEW p \in Personas, Revoke(b, p) PROVE Within(S, x)'
      BY <1>5 DEF Revoke, At, Exported, Grants
<1>6. ASSUME NEW c \in Commands, NEW p \in Personas, BeginPurge(c, p) PROVE Within(S, x)'
      BY <1>6 DEF BeginPurge, Idle, TypeOK, Command, At, Exported, Grants
<1>7. ASSUME NEW c \in Commands, NEW b \in Bundles, PurgeBundle(c, b) PROVE Within(S, x)'
  <2>1. \A p \in Personas : memory'[p] \subseteq memory[p]
        BY <1>7 DEF PurgeBundle, TypeOK
  <2>2. \A p \in Personas : \A f \in memory'[p] : f.item = x => p \in S
        BY <2>1
  <2>3. \A k \in Commands : cmd'[k].at = cmd[k].at /\ cmd'[k].persona = cmd[k].persona
                            /\ cmd'[k].about = cmd[k].about /\ cmd'[k].items = cmd[k].items
        BY <1>7 DEF PurgeBundle, TypeOK, Command
  <2>4. QED
        BY <1>7, <2>2, <2>3 DEF PurgeBundle, At, Exported, Grants
<1>8. ASSUME NEW c \in Commands, Done(c) \/ Dies(c) PROVE Within(S, x)'
  <2>1. UNCHANGED <<memory, file>> /\ cmd' = [cmd EXCEPT ![c] = Idle]
        BY <1>8 DEF Done, Dies, Finish
  <2>2. \A k \in Commands : cmd'[k] = cmd[k] \/ cmd'[k].items = {}
        BY <2>1 DEF Idle, TypeOK
  <2>3. QED
        BY <2>1, <2>2 DEF At, Exported, Grants
<1>9. CASE UNCHANGED vars
      BY <1>9 DEF vars, At, Exported, Grants
<1>10. QED
      BY <1>1, <1>2, <1>3, <1>4, <1>5, <1>6, <1>7, <1>8, <1>9 DEF Next, GoesOn

\* An item is only found where share and accept rules lead from its owner
\* (core/cleanroom.py, export_shared and import_shared).
THEOREM RulesRespected == Spec => []SharedAlongRules
<1>1. AllWithin => SharedAlongRules
      BY DEF AllWithin, Within, SharedAlongRules
<1>2. QED
      BY <1>1, TypeInit, TypeStep, WithinInit, WithinStep, PTL DEF Spec

-----------------------------------------------------------------------------
(* Purged for good.  A purge is of revoked bundles, and what its persona   *)
(* has of one afterwards, or imports under way have still to store of it,  *)
(* is what they had to store at the purge: no other import begins.         *)

PurgeInv ==
    /\ \A c \in Commands : At(c, "purge") => cmd[c].bundles \subseteq revoked
    /\ \A p \in Personas, b \in Bundles :
          <<p, b>> \in purged =>
              /\ b \in revoked
              /\ Of(b, memory[p]) \subseteq late[p]
              /\ Unstored(p, b) \subseteq late[p]

LEMMA PurgeInit == Init => PurgeInv
BY DEF Init, PurgeInv, At, Idle

\* A step after which imports have no more to store than before, and that purges nothing.
LEMMA PurgeFrame ==
    ASSUME PurgeInv, UNCHANGED <<memory, purges>>, revoked \subseteq revoked',
           \A c \in Commands : At(c, "purge")' => cmd'[c].bundles \subseteq revoked',
           \A p \in Personas, b \in Bundles :
              <<p, b>> \in purged => Unstored(p, b)' \subseteq Unstored(p, b)
    PROVE  PurgeInv'
BY DEF PurgeInv, purges, Of

LEMMA PurgeStep == TypeOK /\ PurgeInv /\ [Next]_vars => PurgeInv'
<1> SUFFICES ASSUME TypeOK, PurgeInv, [Next]_vars PROVE PurgeInv'
    OBVIOUS
<1>1. ASSUME NEW c \in Commands, UNCHANGED <<memory, purges>>, revoked \subseteq revoked',
             NEW goal, cmd' = [cmd EXCEPT ![c] = goal],
             goal.at = "purge" => goal.bundles \subseteq revoked,
             goal.at = "import" => goal.about \notin revoked
      PROVE  PurgeInv'
  <2>1. \A k \in Commands \ {c} : cmd'[k] = cmd[k]
        BY <1>1 DEF TypeOK
  <2>2. cmd'[c] = goal
        BY <1>1 DEF TypeOK
  <2>3. \A k \in Commands : At(k, "purge")' => cmd'[k].bundles \subseteq revoked'
        BY <1>1, <2>1, <2>2 DEF At, PurgeInv
  <2>4. ASSUME NEW p \in Personas, NEW b \in Bundles, <<p, b>> \in purged
        PROVE  Unstored(p, b)' \subseteq Unstored(p, b)
    <3>1. ~Importing(c, p, b)'
          BY <1>1, <2>2, <2>4 DEF Importing, At, PurgeInv
    <3>2. \A k \in Commands : Importing(k, p, b)' => Importing(k, p, b) /\ cmd'[k] = cmd[k]
          BY <2>1, <3>1 DEF Importing, At
    <3>3. QED
          BY <3>2 DEF Unstored
  <2>5. QED
        BY <1>1, <2>3, <2>4, PurgeFrame
<1>2. ASSUME NEW c \in Commands, NEW p \in Personas, NEW q \in Personas, Collect(c, p, q)
      PROVE  PurgeInv'
      BY <1>1, <1>2 DEF Collect, Idle
<1>3. ASSUME NEW c \in Commands, NEW b \in Bundles, NEW p \in Personas, BeginImport(c, b, p)
      PROVE  PurgeInv'
      BY <1>1, <1>3 DEF BeginImport, Idle
<1>4. ASSUME NEW c \in Commands, NEW p \in Personas, BeginPurge(c, p) PROVE PurgeInv'
      BY <1>1, <1>4 DEF BeginPurge, Idle
<1>5. ASSUME NEW c \in Commands, NEW b \in Bundles, WriteBundle(c, b) PROVE PurgeInv'
      BY <1>1, <1>5 DEF WriteBundle, Finish, Idle
<1>6. ASSUME NEW c \in Commands, Done(c) \/ Dies(c) PROVE PurgeInv'
      BY <1>1, <1>6 DEF Done, Dies, Finish, Idle
<1>7. ASSUME NEW c \in Commands, NEW x \in Items, StoreItem(c, x) PROVE PurgeInv'
  <2> DEFINE p == cmd[c].persona
             b == cmd[c].about
             fact == [bundle |-> b, item |-> x]
  <2>1. /\ memory' = [memory EXCEPT ![p] = @ \cup {fact}] /\ p \in Personas /\ b \in Bundles
        /\ cmd' = [cmd EXCEPT ![c].items = @ \ {x}] /\ UNCHANGED <<file, revoked, purged, late>>
        BY <1>7 DEF StoreItem, TypeOK, At, purges
  <2>2. Importing(c, p, b) /\ x \in cmd[c].items
        BY <1>7 DEF StoreItem, Importing
  <2>3. fact \in Unstored(p, b)
        BY <2>2 DEF Unstored
  <2> HIDE DEF p, b, fact
  <2>4. \A k \in Commands : /\ cmd'[k].at = cmd[k].at /\ cmd'[k].persona = cmd[k].persona
                            /\ cmd'[k].about = cmd[k].about /\ cmd'[k].items \subseteq cmd[k].items
                            /\ cmd'[k].bundles = cmd[k].bundles
        BY <2>1 DEF TypeOK, Command
  <2>5. \A q \in Personas, d \in Bundles : Unstored(q, d)' \subseteq Unstored(q, d)
        BY <2>4 DEF Unstored, Importing, At
  <2>6. ASSUME NEW q \in Personas, NEW d \in Bundles, <<q, d>> \in purged
        PROVE  Of(d, memory'[q]) \subseteq late[q]
    <3>1. Of(d, memory[q]) \subseteq late[q] /\ Unstored(q, d) \subseteq late[q]
          BY <2>6 DEF PurgeInv
    <3>2. fact.bundle = b
          BY DEF fact
    <3>3. CASE q = p /\ d = b
          BY <2>1, <2>3, <3>1, <3>3 DEF Of, TypeOK
    <3>4. CASE ~(q = p /\ d = b)
          BY <2>1, <3>1, <3>2, <3>4 DEF Of, TypeOK
    <3>5. QED
          BY <3>3, <3>4
  <2>7. QED
        BY <2>1, <2>4, <2>5, <2>6 DEF PurgeInv, At
<1>8. ASSUME NEW b \in Bundles, NEW p \in Personas, Revoke(b, p) PROVE PurgeInv'
  <2>1. UNCHANGED <<memory, cmd, purges>> /\ revoked \subseteq revoked'
        BY <1>8 DEF Revoke
  <2>2. QED
        BY <2>1, PurgeFrame DEF PurgeInv, At, Unstored, Importing
<1>9. ASSUME NEW c \in Commands, NEW b \in Bundles, PurgeBundle(c, b) PROVE PurgeInv'
  <2> DEFINE p == cmd[c].persona
  <2>1. /\ memory' = [memory EXCEPT ![p] = @ \ Of(b, @)]
        /\ late' = [late EXCEPT ![p] = (@ \ Of(b, @)) \cup Unstored(p, b)]
        /\ purged' = purged \cup {<<p, b>>} /\ p \in Personas /\ b \in revoked
        /\ cmd' = [cmd EXCEPT ![c].bundles = @ \ {b}] /\ UNCHANGED revoked
        BY <1>9 DEF PurgeBundle, TypeOK, At, PurgeInv
  <2>2. \A k \in Commands : /\ cmd'[k].at = cmd[k].at /\ cmd'[k].persona = cmd[k].persona
                            /\ cmd'[k].about = cmd[k].about /\ cmd'[k].items = cmd[k].items
                            /\ cmd'[k].bundles \subseteq cmd[k].bundles
        BY <2>1 DEF TypeOK, Command
  <2> HIDE DEF p
  <2>3. \A q \in Personas, d \in Bundles : Unstored(q, d)' = Unstored(q, d)
        BY <2>2 DEF Unstored, Importing, At
  <2>4. ASSUME NEW q \in Personas, NEW d \in Bundles, <<q, d>> \in purged'
        PROVE  /\ d \in revoked
               /\ Of(d, memory'[q]) \subseteq late'[q]
               /\ Unstored(q, d)' \subseteq late'[q]
    <3>1. CASE q = p /\ d = b
      <4>1. Of(d, memory'[q]) = {}
            BY <2>1, <3>1 DEF Of, TypeOK
      <4>2. Unstored(q, d) \subseteq late'[q]
            BY <2>1, <3>1 DEF TypeOK
      <4>3. QED
            BY <2>1, <2>3, <3>1, <4>1, <4>2
    <3>2. CASE ~(q = p /\ d = b)
      <4>1. d \in revoked /\ Of(d, memory[q]) \subseteq late[q] /\ Unstored(q, d) \subseteq late[q]
            BY <2>1, <2>4, <3>2 DEF PurgeInv
      <4>2. \A f \in Unstored(q, d) : f.bundle = d
            BY DEF Unstored
      <4>3. Of(d, late[q]) \subseteq late'[q] /\ memory'[q] \subseteq memory[q]
            BY <2>1, <3>2 DEF Of, TypeOK
      <4>4. Of(d, memory'[q]) \subseteq late'[q] /\ Unstored(q, d) \subseteq late'[q]
            BY <4>1, <4>2, <4>3 DEF Of
      <4>5. QED
            BY <2>3, <4>1, <4>4
    <3>3. QED
          BY <3>1, <3>2
  <2>5. QED
        BY <2>1, <2>2, <2>4 DEF PurgeInv, At
<1>10. CASE UNCHANGED vars
       BY <1>10, PurgeFrame DEF vars, PurgeInv, At, Unstored, Importing
<1>11. QED
       BY <1>2, <1>3, <1>4, <1>5, <1>6, <1>7, <1>8, <1>9, <1>10 DEF Next, GoesOn

\* What a sync purged never comes back, whatever imports and syncs interleave, but for
\* what imports under way then had still to store (core/cleanroom.py, purge_revoked and
\* the revocation test of import_shared).
THEOREM PurgesFinal == Spec => []PurgedForGood
<1>1. PurgeInv => PurgedForGood
      BY DEF PurgeInv, PurgedForGood
<1>2. QED
      BY <1>1, TypeInit, TypeStep, PurgeInit, PurgeStep, PTL DEF Spec
=============================================================================
