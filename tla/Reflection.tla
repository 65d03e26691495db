----------------------------- MODULE Reflection -----------------------------
(***************************************************************************)
(* Reflection of core/learning.py: the interactions not yet consolidated   *)
(* are summarized into a fact, and a marker fact remembers up to when.     *)
(* It is run by scheduled jobs of the daemon and by `assistant reflect',   *)
(* beside whatever else writes to the persona's memory (core/memory.py).   *)
(*                                                                         *)
(* A memory operation is one transaction.  Interactions are numbered by    *)
(* created_at, the start of the transaction that writes them; they are     *)
(* seen once it commits, in any order.                                     *)
(***************************************************************************)
EXTENDS Integers, FiniteSets

CONSTANTS
    Reflectors,  \* the tasks and processes that run reflections
    NumRows,     \* bound: the interactions are 1..NumRows
    Limit,       \* how many interactions are read, the newest first
    FactLimit,   \* how many facts are searched for the marker, likewise
    DigestLines  \* how many lines fit in the digest made without a model

Rows == 1..NumRows

ASSUME ConstantsAssumption ==
    NumRows \in Nat /\ Limit \in Nat \ {0} /\ FactLimit \in Nat \ {0} /\ DigestLines \in Nat \ {0}

VARIABLES
    committed,     \* the interactions in the table
    until,         \* the value of the marker fact, 0 before there is one
    age,           \* how many facts were written since the marker (FactLimit: or more)
    consolidated,  \* history: the interactions some stored summary tells of
    repeated,      \* history: those told of again since the marker last caught up
    missed,        \* history: those a marker was moved past without any
    disturbed,     \* history: something happened to a pass since then
    refl           \* per reflector: where its pass is

vars == <<committed, until, age, consolidated, repeated, missed, disturbed, refl>>

\* A pass: the marker it found, the interactions it consolidates, and of those up to
\* the newest of them the ones that its summary does not tell of.
Idle == [at |-> "idle", base |-> 0, new |-> {}, left |-> {}]

Init ==
    /\ committed = {}
    /\ until = 0
    /\ age = 0
    /\ consolidated = {} /\ repeated = {} /\ missed = {}
    /\ disturbed = FALSE
    /\ refl = [r \in Reflectors |-> Idle]

-----------------------------------------------------------------------------
Newest(n, rows) == {i \in rows : Cardinality({j \in rows : j > i}) < n}
Latest(rows) == CHOOSE i \in rows : \A j \in rows : j <= i
UpTo(n) == {i \in Rows : i <= n}

At(r, place) == refl[r].at = place

\* Another fact is stored.
Older == IF age < FactLimit THEN age + 1 ELSE age

\* No pass is under way, and the marker has caught up with what is told of.
CaughtUp == (\A r \in Reflectors : At(r, "idle")) /\ consolidated \subseteq UpTo(until)

\* A pass ends: the history starts over if the marker has caught up now.
Recovers(unless) ==
    IF CaughtUp' THEN disturbed' = FALSE /\ repeated' = {}
                 ELSE disturbed' = unless /\ UNCHANGED repeated

\* list_facts: the marker is found only among the facts updated last.
Begin(r) ==
    /\ At(r, "idle")
    /\ refl' = [refl EXCEPT ![r] = [Idle EXCEPT !.at = "list",
                                                !.base = IF age < FactLimit THEN until ELSE 0]]
    /\ disturbed' = (disturbed \/ (until > 0 /\ age >= FactLimit)
                               \/ \E q \in Reflectors \ {r} : ~At(q, "idle"))
    /\ UNCHANGED <<committed, until, age, consolidated, repeated, missed>>

\* Mutant of List: interactions as old as the marker count as new.
ListFromMarker(r) ==
    /\ At(r, "list")
    /\ LET base == refl[r].base
           new == {i \in Newest(Limit, committed) : i >= base}
       IN  refl' = [refl EXCEPT ![r] =
              IF new = {} THEN Idle
              ELSE [at |-> "summarize", base |-> base, new |-> new,
                    left |-> {i \in UpTo(Latest(new)) : i > base} \ new]]
    /\ UNCHANGED <<committed, until, age, consolidated, missed>>
    /\ Recovers(disturbed)

\* Mutant of List: nothing new does not end the pass.
ListOfNothing(r) ==
    /\ At(r, "list")
    /\ LET base == refl[r].base
           new == {i \in Newest(Limit, committed) : i > base}
       IN  refl' = [refl EXCEPT ![r] =
              [at |-> "summarize", base |-> base, new |-> new,
               left |-> {i \in Rows : i > base /\ \E j \in new : i < j} \ new]]
    /\ UNCHANGED <<committed, until, age, consolidated, repeated, missed, disturbed>>

\* list_interactions, and what of it is after the marker; nothing new ends the pass.
List(r) ==
    /\ At(r, "list")
    /\ LET base == refl[r].base
           new == {i \in Newest(Limit, committed) : i > base}
       IN  refl' = [refl EXCEPT ![r] =
              IF new = {} THEN Idle
              ELSE [at |-> "summarize", base |-> base, new |-> new,
                    left |-> {i \in UpTo(Latest(new)) : i > base} \ new]]
    /\ UNCHANGED <<committed, until, age, consolidated, missed>>
    /\ Recovers(disturbed)

\* What the summary tells of: all of it, or the lines that fit in the digest.
Kept(new, model) == IF model THEN new ELSE Newest(DigestLines, new)

\* Mutant of StoreSummary: the marker is moved before the summary is stored.
MarkerFirst(r) ==
    /\ At(r, "summarize")
    /\ until' = Latest(refl[r].new)
    /\ refl' = [refl EXCEPT ![r].at = "mark"]
    /\ UNCHANGED <<committed, age, consolidated, repeated, missed, disturbed>>

\* The summarizer answers (or the digest is made), and the summary is stored.
StoreSummary(r) ==
    /\ At(r, "summarize")
    /\ \E model \in BOOLEAN :
          LET kept == Kept(refl[r].new, model)
          IN  /\ consolidated' = consolidated \cup kept
              /\ repeated' = repeated \cup (consolidated \cap kept)
              /\ refl' = [refl EXCEPT ![r].at = "mark", ![r].left = @ \cup (refl[r].new \ kept)]
    /\ age' = Older
    /\ UNCHANGED <<committed, until, missed, disturbed>>

\* The marker is moved (after the episode, whose failure is swallowed).
StoreMarker(r) ==
    /\ At(r, "mark")
    /\ until' = Latest(refl[r].new)
    /\ age' = 0
    /\ missed' = missed \cup refl[r].left
    /\ refl' = [refl EXCEPT ![r] = Idle]
    /\ UNCHANGED <<committed, consolidated>>
    /\ Recovers(disturbed)

\* The pass ends at any of its awaits: a refused model call, a database error, a
\* cancelled job, a process that dies.
Fails(r) ==
    /\ ~At(r, "idle")
    /\ refl' = [refl EXCEPT ![r] = Idle]
    /\ UNCHANGED <<committed, until, age, consolidated, missed>>
    /\ Recovers(disturbed \/ At(r, "mark"))

\* store_interaction commits.
Commit(i) ==
    /\ i \notin committed
    /\ committed' = committed \cup {i}
    /\ UNCHANGED <<until, age, consolidated, repeated, missed, disturbed, refl>>

\* store_fact of anybody else.
OtherFact ==
    /\ age < FactLimit
    /\ age' = Older
    /\ UNCHANGED <<committed, until, consolidated, repeated, missed, disturbed, refl>>

\* delete_facts_by_prefix (a purge of core/cleanroom.py) of some of the newer facts.
FactsDeleted ==
    /\ age' \in 0..(age - 1)
    /\ UNCHANGED <<committed, until, consolidated, repeated, missed, disturbed, refl>>

Next ==
    \/ \E r \in Reflectors : Begin(r) \/ List(r) \/ StoreSummary(r) \/ StoreMarker(r) \/ Fails(r)
    \/ \E i \in Rows : Commit(i)
    \/ OtherFact \/ FactsDeleted

Spec == Init /\ [][Next]_vars

-----------------------------------------------------------------------------
(* Properties                                                              *)

Pass == [at : {"idle", "list", "summarize", "mark"}, base : 0..NumRows,
         new : SUBSET Rows, left : SUBSET Rows]

\* Type invariant.
TypeOK ==
    /\ committed \subseteq Rows /\ consolidated \subseteq Rows
    /\ repeated \subseteq Rows /\ missed \subseteq Rows
    /\ until \in 0..NumRows
    /\ age \in 0..FactLimit
    /\ disturbed \in BOOLEAN
    /\ refl \in [Reflectors -> Pass]
    /\ \A r \in Reflectors : refl[r].at \in {"summarize", "mark"} => refl[r].new # {}

\* The marker never passes an interaction that no stored summary tells of, whatever
\* passes overlap, fail in the middle or find an old marker, with three exceptions: it
\* committed only after the pass had read, more were new than one pass reads, or the
\* digest had no room for it (`missed' collects these).
NothingLost == UpTo(until) \subseteq consolidated \cup missed

\* "tracking the newest interaction timestamp already consolidated, so repeated
\* reflections never re-consolidate": so they do, unless a pass ends between its two
\* stores, two passes overlap, or so many facts are written that the marker is not found
\* (`disturbed'); and these cost a repetition only until a pass ends with none beside it
\* and the marker at what is told of: from there on it is as if nothing had happened.
ConsolidatedOnce == repeated = {} \/ disturbed
=============================================================================
