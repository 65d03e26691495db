----------------------------- MODULE CleanRoom ------------------------------
(***************************************************************************)
(* The clean room of core/cleanroom.py: personas, isolated otherwise, hand *)
(* knowledge to each other as bundles in a shared directory.  A persona    *)
(* exports what its share rules admit, another imports what its accept     *)
(* rules take, the exporter may revoke, and a sync purges what was         *)
(* revoked from the importer's memory.                                     *)
(*                                                                         *)
(* The commands are processes; each operation on a memory is one           *)
(* transaction, and what happens to files between two of them is one step. *)
(***************************************************************************)
EXTENDS FiniteSets

CONSTANTS
    Personas,
    Items,      \* pieces of knowledge
    Owner,      \* whose each is,
    Bundles,    \* bundle ids (uuid4: never used twice)
    Share,      \* [p][q]: what p's share rule for audience q admits, as it is held:
                \* <<item, way>>, its own or imported from a bundle
    Accept,     \* [q][p]: the items (kind, profile) q's accept rule for p takes
    Commands,   \* processes
    NoBundle

Ways == {"own", "imported"}

ASSUME ConstantsAssumption ==
    /\ Owner \in [Items -> Personas]
    /\ NoBundle \notin Bundles
    /\ Share \in [Personas -> [Personas -> SUBSET (Items \X Ways)]]
    /\ Accept \in [Personas -> [Personas -> SUBSET Items]]

VARIABLES
    memory,   \* per persona: the imported facts, [bundle, item] for its key
    file,     \* per bundle: the file in the shared directory
    revoked,  \* the bundles with a revocation record
    cmd,      \* per command: where it is
    purged,   \* history: <<persona, bundle>> purged at least once
    late      \* history, per persona: the facts that imports under way at the last
              \* purge of their bundle had still to store

purges == <<purged, late>>
vars == <<memory, file, revoked, cmd, purges>>

NoFile == [source |-> NoBundle, audience |-> NoBundle, items |-> {}]

\* A command: what it does, for whom, with which bundle or audience, and what of it
\* is left to do (items to write, or bundles to purge).
Idle == [at |-> "idle", persona |-> NoBundle, about |-> NoBundle, items |-> {}, bundles |-> {}]

Init ==
    /\ memory = [p \in Personas |-> {}]
    /\ file = [b \in Bundles |-> NoFile]
    /\ revoked = {}
    /\ cmd = [c \in Commands |-> Idle]
    /\ purged = {}
    /\ late = [p \in Personas |-> {}]

-----------------------------------------------------------------------------
Exported(b) == file[b] # NoFile
At(c, place) == cmd[c].at = place
Finish(c) == cmd' = [cmd EXCEPT ![c] = Idle]

\* What p holds.
Holdings(p) == {x \in Items : Owner[x] = p} \X {"own"}
               \cup {f.item : f \in memory[p]} \X {"imported"}

\* export_shared up to the read of the memory: there is a rule for the audience, and
\* it picks from all facts, imported ones included (`include' defaults to `*').
Collect(c, p, q) ==
    /\ At(c, "idle") /\ p # q
    /\ Share[p][q] # {}
    /\ cmd' = [cmd EXCEPT ![c] = [Idle EXCEPT !.at = "export", !.persona = p, !.about = q,
                 !.items = {h[1] : h \in Holdings(p) \cap Share[p][q]}]]
    /\ UNCHANGED <<memory, file, revoked, purges>>

\* The bundle is written under a fresh id.
WriteBundle(c, b) ==
    /\ At(c, "export") /\ ~Exported(b)
    /\ file' = [file EXCEPT ![b] =
          [source |-> cmd[c].persona, audience |-> cmd[c].about, items |-> cmd[c].items]]
    /\ Finish(c)
    /\ UNCHANGED <<memory, revoked, purges>>

\* Mutant of BeginImport: the revocation is not looked up.
BeginImportRevoked(c, b, p) ==
    /\ At(c, "idle") /\ Exported(b)
    /\ file[b].audience = p
    /\ cmd' = [cmd EXCEPT ![c] = [Idle EXCEPT !.at = "import", !.persona = p, !.about = b,
                 !.items = file[b].items \cap Accept[p][file[b].source]]]
    /\ UNCHANGED <<memory, file, revoked, purges>>

\* Mutant of BeginImport: a bundle for somebody else is taken too.
BeginImportAnyAudience(c, b, p) ==
    /\ At(c, "idle") /\ Exported(b) /\ b \notin revoked
    /\ cmd' = [cmd EXCEPT ![c] = [Idle EXCEPT !.at = "import", !.persona = p, !.about = b,
                 !.items = file[b].items \cap Accept[p][file[b].source]]]
    /\ UNCHANGED <<memory, file, revoked, purges>>

\* Mutant of BeginImport: a bundle that is not there is read.
BeginImportUnread(c, b, p) ==
    /\ At(c, "idle") /\ b \notin revoked
    /\ cmd' = [cmd EXCEPT ![c] = [Idle EXCEPT !.at = "import", !.persona = p, !.about = b]]
    /\ UNCHANGED <<memory, file, revoked, purges>>

\* import_shared up to its first write: the bundle is read, has no revocation record,
\* is addressed to the persona, and the accept rule for its source takes some kinds.
BeginImport(c, b, p) ==
    /\ At(c, "idle") /\ Exported(b) /\ b \notin revoked
    /\ file[b].audience = p
    /\ Accept[p][file[b].source] # {}
    /\ cmd' = [cmd EXCEPT ![c] = [Idle EXCEPT !.at = "import", !.persona = p, !.about = b,
                 !.items = file[b].items \cap Accept[p][file[b].source]]]
    /\ UNCHANGED <<memory, file, revoked, purges>>

\* store_fact of the next item, under cleanroom/<bundle>/<item>.
StoreItem(c, x) ==
    /\ At(c, "import") /\ x \in cmd[c].items
    /\ memory' = [memory EXCEPT ![cmd[c].persona] = @ \cup {[bundle |-> cmd[c].about, item |-> x]}]
    /\ cmd' = [cmd EXCEPT ![c].items = @ \ {x}]
    /\ UNCHANGED <<file, revoked, purges>>

\* revoke: by the persona that exported the bundle.
Revoke(b, p) ==
    /\ Exported(b)
    /\ file[b].source = p
    /\ revoked' = revoked \cup {b}
    /\ UNCHANGED <<memory, file, cmd, purges>>

\* purge_revoked: the revocation records are listed once.
BeginPurge(c, p) ==
    /\ At(c, "idle") /\ revoked # {}
    /\ cmd' = [cmd EXCEPT ![c] = [Idle EXCEPT !.at = "purge", !.persona = p, !.bundles = revoked]]
    /\ UNCHANGED <<memory, file, revoked, purges>>

\* The facts of bundle b in a set of them, and those its imports by p have still to store.
Of(b, facts) == {f \in facts : f.bundle = b}
Importing(c, p, b) == At(c, "import") /\ cmd[c].persona = p /\ cmd[c].about = b
Unstored(p, b) ==
    {[bundle |-> b, item |-> x] : x \in {y \in Items :
        \E c \in Commands : Importing(c, p, b) /\ y \in cmd[c].items}}

\* delete_facts_by_prefix for the next of them.
PurgeBundle(c, b) ==
    /\ At(c, "purge") /\ b \in cmd[c].bundles
    /\ LET p == cmd[c].persona
       IN  /\ memory' = [memory EXCEPT ![p] = @ \ Of(b, @)]
           /\ purged' = purged \cup {<<p, b>>}
           /\ late' = [late EXCEPT ![p] = (@ \ Of(b, @)) \cup Unstored(p, b)]
    /\ cmd' = [cmd EXCEPT ![c].bundles = @ \ {b}]
    /\ UNCHANGED <<file, revoked>>

\* An import or a purge is through.
Done(c) ==
    /\ cmd[c].at \in {"import", "purge"} /\ cmd[c].items = {} /\ cmd[c].bundles = {}
    /\ Finish(c)
    /\ UNCHANGED <<memory, file, revoked, purges>>

\* A command dies, or a transaction of it fails: what it has written stays.
Dies(c) ==
    /\ ~At(c, "idle")
    /\ Finish(c)
    /\ UNCHANGED <<memory, file, revoked, purges>>

\* A command that has begun goes on.
GoesOn(c) ==
    \/ \E b \in Bundles : WriteBundle(c, b)
    \/ \E x \in Items : StoreItem(c, x)
    \/ \E b \in Bundles : PurgeBundle(c, b)
    \/ Done(c)

Next ==
    \/ \E c \in Commands, p, q \in Personas : Collect(c, p, q)
    \/ \E c \in Commands, b \in Bundles, p \in Personas : BeginImport(c, b, p)
    \/ \E b \in Bundles, p \in Personas : Revoke(b, p)
    \/ \E c \in Commands, p \in Personas : BeginPurge(c, p)
    \/ \E c \in Commands : GoesOn(c) \/ Dies(c)

Spec == Init /\ [][Next]_vars

-----------------------------------------------------------------------------
(* Properties                                                              *)

File == [source : Personas, audience : Personas, items : SUBSET Items]
Command ==
    [at : {"idle", "export", "import", "purge"}, persona : Personas \cup {NoBundle},
     about : Personas \cup Bundles \cup {NoBundle}, items : SUBSET Items,
     bundles : SUBSET Bundles]

\* Type invariant.
TypeOK ==
    /\ memory \in [Personas -> SUBSET [bundle : Bundles, item : Items]]
    /\ file \in [Bundles -> File \cup {NoFile}]
    /\ revoked \subseteq Bundles
    /\ cmd \in [Commands -> Command]
    /\ purged \subseteq Personas \X Bundles
    /\ late \in [Personas -> SUBSET [bundle : Bundles, item : Items]]
    /\ \A c \in Commands :
          /\ ~At(c, "idle") => cmd[c].persona \in Personas
          /\ At(c, "export") => cmd[c].about \in Personas
          /\ At(c, "import") => cmd[c].about \in Bundles /\ Exported(cmd[c].about)

\* A set of personas that no rules let an item leave: whoever in it may hold the item
\* (only its owner the original) shares it with nobody outside who would accept it.
Closed(S, x) ==
    \A p \in S, q \in Personas, way \in Ways :
        (way = "own" => Owner[x] = p) /\ <<x, way>> \in Share[p][q] /\ x \in Accept[q][p] => q \in S

\* "total isolation is the default": an item is only ever found where a chain of share
\* and accept rules leads from its owner, through every persona on the way, however
\* exports, imports and purges interleave; that is, no set of personas that is closed
\* for it loses it.  (The rules of the owner alone do not bound this: what was imported
\* is exported again.)
SharedAlongRules ==
    \A x \in Items, S \in SUBSET Personas :
        Owner[x] \in S /\ Closed(S, x) =>
            \A p \in Personas : (\E f \in memory[p] : f.item = x) => p \in S

\* What a sync purged comes back only through an import that had passed the revocation
\* test and was still storing then, and of it only what that had still to store: no later
\* import brings anything back, and once such imports are over, one more sync is final.
PurgedForGood ==
    \A p \in Personas, b \in Bundles :
        <<p, b>> \in purged => b \in revoked /\ Of(b, memory[p]) \subseteq late[p]
=============================================================================
