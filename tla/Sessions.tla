------------------------------ MODULE Sessions ------------------------------
(***************************************************************************)
(* Conversation sessions: the SessionRegistry of each serving surface       *)
(* (src/assistant/harnesses/sessions.py), the durable metadata rows they     *)
(* share (PostgresSessionStore of src/assistant/core/durable.py) and the     *)
(* requests that run turns on them (A2ATaskHandler.handle_message_stream and *)
(* the `ask' tools of the MCP server).                                       *)
(*                                                                           *)
(* A request is an asyncio task: it suspends in the session factory or the   *)
(* rebind factory, at the session's asyncio.Lock and during the turn.  The   *)
(* store is called synchronously, so a store call is part of the step around *)
(* it.  The A2A registry and the MCP registry of the same role share the     *)
(* store, as do the registries of other processes of the persona.            *)
(***************************************************************************)
EXTENDS Naturals, FiniteSets

CONSTANTS
    Registries,  \* the SessionRegistry instances over one persona database
    Foreign,     \* those of them that serve another role than the rest
    Threads,     \* thread_ids; bound: conversations ever started
    Requests,    \* the requests in flight at one time
    MaxSession,  \* Session objects in memory at one time
    StoreFails   \* BOOLEAN: the database may refuse a call

ASSUME ConstantsAssumption ==
    /\ Registries # {} /\ Threads # {}
    /\ Foreign \subseteq Registries
    /\ MaxSession \in Nat
    /\ StoreFails \in BOOLEAN

Role(r) == IF r \in Foreign THEN "other" ELSE "serving"
Roles == {"serving", "other"}

\* A Session object is named by a number, 0 for none.
Objects == 1..MaxSession

AnyThread == CHOOSE t \in Threads : TRUE
AnyRegistry == CHOOSE r \in Registries : TRUE

VARIABLES
    durable,  \* the persona's sessions.durable: a store and a rebind factory
    origin,   \* the role a thread was started under, "none" if it was not
    row,      \* the sessions table: the status of each thread's row
    rowRole,  \* the role column
    lapsed,   \* the threads whose expires_at has passed
    live,     \* live[r][t]: the registry's _sessions, 0 if t is not in it
    idle,     \* the registered Session objects not used for idle_ttl_seconds
    req       \* what each request is doing

table == <<row, rowRole, lapsed>>
vars == <<durable, origin, table, live, idle, req>>

NoRequest == [pc |-> "idle", reg |-> AnyRegistry, thread |-> AnyThread, session |-> 0]

Init ==
    /\ durable \in BOOLEAN
    /\ origin = [t \in Threads |-> "none"]
    /\ row = [t \in Threads |-> "none"]
    /\ rowRole = [t \in Threads |-> "none"]
    /\ lapsed = {}
    /\ live = [r \in Registries |-> [t \in Threads |-> 0]]
    /\ idle = {}
    /\ req = [q \in Requests |-> NoRequest]

-----------------------------------------------------------------------------
(* The store: each call may fail, which is logged and ignored.             *)

\* What a write leaves in x: the new value, or the old one if the call fails.
Write(x, new) == {new} \cup IF StoreFails THEN {x} ELSE {}

\* Mutant of RecordSession: a status no reader knows.
RecordSessionBound(t, r) ==
    /\ row' = [row EXCEPT ![t] = "bound"]
    /\ rowRole' = [rowRole EXCEPT ![t] = Role(r)]
    /\ lapsed' = lapsed \ {t}

\* record: delete the row, insert an active one.
RecordSession(t, r) ==
    \/ /\ durable
       /\ row' = [row EXCEPT ![t] = "active"]
       /\ rowRole' = [rowRole EXCEPT ![t] = Role(r)]
       /\ lapsed' = lapsed \ {t}
    \/ /\ ~durable \/ StoreFails
       /\ UNCHANGED table

\* touch: slides expires_at, whatever the status of the row.
TouchSession(t) ==
    /\ lapsed' \in (IF durable THEN Write(lapsed, lapsed \ {t}) ELSE {lapsed})
    /\ UNCHANGED <<row, rowRole>>

-----------------------------------------------------------------------------
(* SessionRegistry                                                         *)

\* expire_idle, which create and lookup run first.
Swept(r) == [live EXCEPT ![r] = [t \in Threads |-> IF @[t] \in idle THEN 0 ELSE @[t]]]

\* An object nothing refers to is garbage: its number may be used again.
Referenced == {live[r][t] : r \in Registries, t \in Threads}
              \cup {req[q].session : q \in Requests}
Unused == {s \in Objects : s \notin Referenced}
Fresh == {s \in Unused : \A i \in Unused : s <= i}

\* Only registered sessions are swept: what else idles does not matter.
StillIdle == idle \cap {live'[r][t] : r \in Registries, t \in Threads}

Idle(q) == req[q].pc = "idle"
Becomes(q, pc, r, t, s) ==
    req' = [req EXCEPT ![q] = [pc |-> pc, reg |-> r, thread |-> t, session |-> s]]
Done(q) == req' = [req EXCEPT ![q] = NoRequest]

\* A request without a contextId: create, up to the await of the factory, whose
\* harness takes a new thread_id.
BeginCreate(q, r, t) ==
    /\ Idle(q)
    /\ origin[t] = "none"
    /\ origin' = [origin EXCEPT ![t] = Role(r)]
    /\ live' = Swept(r)
    /\ idle' = StillIdle
    /\ Becomes(q, "creating", r, t, 0)
    /\ UNCHANGED <<durable, table>>

\* The new Session is registered, and returned to the request.
Register(q, s) ==
    LET r == req[q].reg
        t == req[q].thread
    IN  /\ live' = [live EXCEPT ![r][t] = s]
        /\ idle' = StillIdle
        /\ Becomes(q, "waiting", r, t, s)

EndCreate(q) ==
    /\ req[q].pc = "creating"
    /\ \E s \in Fresh : Register(q, s)
    /\ RecordSession(req[q].thread, req[q].reg)
    /\ UNCHANGED <<durable, origin>>

\* A request with a contextId: lookup finds a live session ...
ResolveLive(q, r, t) ==
    /\ Idle(q)
    /\ live' = Swept(r)
    /\ live'[r][t] # 0
    /\ idle' = StillIdle \ {live'[r][t]}
    /\ TouchSession(t)
    /\ Becomes(q, "waiting", r, t, live'[r][t])
    /\ UNCHANGED <<durable, origin>>

\* Mutants of Resumable: the role, or the expiry, is not compared.
ResumableAnyRole(r, t) == row[t] = "active" /\ t \notin lapsed
ResumableLapsed(r, t) == row[t] = "active" /\ rowRole[t] = Role(r)

Resumable(r, t) == row[t] = "active" /\ t \notin lapsed /\ rowRole[t] = Role(r)

\* ... or the row lets the thread be re-bound, up to the await of the factory.
ResolveRebind(q, r, t) ==
    /\ Idle(q)
    /\ live' = Swept(r)
    /\ live'[r][t] = 0
    /\ durable /\ Resumable(r, t)
    /\ idle' = StillIdle
    /\ Becomes(q, "rebinding", r, t, 0)
    /\ UNCHANGED <<durable, origin, table>>

\* ... or the id is unknown, and a lapsed row is marked expired.
ResolveUnknown(q, r, t) ==
    /\ Idle(q)
    /\ live' = Swept(r)
    /\ live'[r][t] = 0
    /\ ~(durable /\ Resumable(r, t)) \/ StoreFails
    /\ row' \in IF durable /\ row[t] = "active" /\ t \in lapsed
                THEN Write(row, [row EXCEPT ![t] = "expired"])
                ELSE {row}
    /\ idle' = StillIdle
    /\ UNCHANGED <<durable, origin, rowRole, lapsed, req>>

\* The re-bound session replaces whatever is registered for the thread by now.
EndRebind(q) ==
    /\ req[q].pc = "rebinding"
    /\ \E s \in Fresh : Register(q, s)
    /\ TouchSession(req[q].thread)
    /\ UNCHANGED <<durable, origin>>

Expire(r, t) ==
    /\ live[r][t] # 0
    /\ live' = [live EXCEPT ![r][t] = 0]
    /\ idle' = StillIdle
    /\ UNCHANGED <<durable, origin, table, req>>

-----------------------------------------------------------------------------
(* The turn of a request                                                   *)

Running(q) == req[q].pc = "running"

\* Mutants of AcquireLock: no lock; two waiters wait for each other.
AcquireNoLock(q) ==
    /\ req[q].pc = "waiting"
    /\ req' = [req EXCEPT ![q].pc = "running"]
    /\ UNCHANGED <<durable, origin, table, live, idle>>

AcquireLockAlone(q) ==
    /\ req[q].pc = "waiting"
    /\ ~\E p \in Requests \ {q} : req[p].session = req[q].session
    /\ req' = [req EXCEPT ![q].pc = "running"]
    /\ UNCHANGED <<durable, origin, table, live, idle>>

\* async with session.lock
AcquireLock(q) ==
    /\ req[q].pc = "waiting"
    /\ ~\E p \in Requests : Running(p) /\ req[p].session = req[q].session
    /\ req' = [req EXCEPT ![q].pc = "running"]
    /\ UNCHANGED <<durable, origin, table, live, idle>>

TurnEnds(q) ==
    /\ Running(q)
    /\ Done(q)
    /\ UNCHANGED <<durable, origin, table, live, idle>>

\* The client disconnects, the task is cancelled, or a factory raises.
Abandon(q) ==
    /\ ~Idle(q)
    /\ Done(q)
    /\ UNCHANGED <<durable, origin, table, live, idle>>

-----------------------------------------------------------------------------
(* Time, and the processes                                                 *)

\* now - last_used > idle_ttl_seconds: last_used is set by create, lookup and
\* resolve, not by the turn, which may well be running.
IdleTtlPasses(s) ==
    /\ \E r \in Registries, t \in Threads : live[r][t] = s
    /\ idle' = idle \cup {s}
    /\ UNCHANGED <<durable, origin, table, live, req>>

SessionTtlPasses(t) ==
    /\ row[t] # "none"
    /\ lapsed' = lapsed \cup {t}
    /\ UNCHANGED <<durable, origin, row, rowRole, live, idle, req>>

\* The process of a registry dies and starts again.
Restart(r) ==
    /\ live' = [live EXCEPT ![r] = [t \in Threads |-> 0]]
    /\ idle' = StillIdle
    /\ req' = [q \in Requests |-> IF req[q].reg = r THEN NoRequest ELSE req[q]]
    /\ UNCHANGED <<durable, origin, table>>

Step(q) ==
    \/ EndCreate(q)
    \/ EndRebind(q)
    \/ AcquireLock(q)
    \/ TurnEnds(q)

Next ==
    \/ \E q \in Requests, r \in Registries, t \in Threads :
         \/ BeginCreate(q, r, t)
         \/ ResolveLive(q, r, t)
         \/ ResolveRebind(q, r, t)
         \/ ResolveUnknown(q, r, t)
    \/ \E q \in Requests : Step(q)
    \/ \E q \in Requests : Abandon(q)
    \/ \E r \in Registries, t \in Threads : Expire(r, t)
    \/ \E s \in Objects : IdleTtlPasses(s)
    \/ \E t \in Threads : SessionTtlPasses(t)
    \/ \E r \in Registries : Restart(r)

Spec == Init /\ [][Next]_vars

\* Factories and turns end (their network calls have timeouts), and asyncio.Lock
\* wakes its waiters first come, first served, so a waiter that finds the lock
\* free again and again gets it.
Fairness ==
    \A q \in Requests :
        /\ WF_vars(EndCreate(q)) /\ WF_vars(EndRebind(q)) /\ WF_vars(TurnEnds(q))
        /\ SF_vars(AcquireLock(q))

FairSpec == Spec /\ Fairness

-----------------------------------------------------------------------------
(* Properties                                                              *)

Pcs == {"idle", "creating", "rebinding", "waiting", "running"}

\* Type invariant.
TypeOK ==
    /\ durable \in BOOLEAN
    /\ origin \in [Threads -> {"none"} \cup Roles]
    /\ row \in [Threads -> {"none", "active", "expired"}]
    /\ rowRole \in [Threads -> {"none"} \cup Roles]
    /\ lapsed \subseteq Threads
    /\ live \in [Registries -> [Threads -> 0..MaxSession]]
    /\ idle \subseteq Objects
    /\ req \in [Requests -> [pc : Pcs, reg : Registries, thread : Threads,
                             session : 0..MaxSession]]

\* A Session object serves one conversation of one registry: requests on it and
\* the registry entry agree on its thread, whatever was swept, replaced and
\* re-bound, so no request observes another thread's conversation.
SessionsApart ==
    /\ \A p, q \in Requests :
         req[p].session = req[q].session /\ req[p].session # 0 =>
            req[p].thread = req[q].thread /\ req[p].reg = req[q].reg
    /\ \A q \in Requests, r \in Registries, t \in Threads :
         live[r][t] = req[q].session /\ live[r][t] # 0 =>
            t = req[q].thread /\ r = req[q].reg

\* A thread is never continued under another role than the one it was started
\* under: neither in memory nor by a re-bind through the shared table.
RoleTrue ==
    /\ \A r \in Registries, t \in Threads : live[r][t] # 0 => origin[t] = Role(r)
    /\ \A q \in Requests : ~Idle(q) => origin[req[q].thread] = Role(req[q].reg)

\* A request continues its own conversation, as the role it was started under.
ConversationsKept == SessionsApart /\ RoleTrue

\* "runs on one session MUST be serialized": at most one turn runs on a thread.
TurnsSerialized ==
    \A p, q \in Requests :
        Running(p) /\ Running(q) /\ req[p].thread = req[q].thread => p = q

\* Without the durable tier they are: a session swept or expired under a running
\* turn cannot come back beside it.
SerializedInMemory == ~durable => TurnsSerialized

\* A conversation that is neither live, nor being built, nor resumable.
Gone(t) ==
    /\ origin[t] # "none"
    /\ \A r \in Registries : live[r][t] = 0
    /\ \A q \in Requests : req[q].thread = t => Idle(q)
    /\ row[t] # "active" \/ t \in lapsed

\* An expired or lapsed conversation stays gone: no later sweep, touch, restart or
\* late re-bind of another request revives it.
GoneForGood == [][\A t \in Threads : Gone(t) => Gone(t)']_vars

\* Every request ends: no way for a turn to end leaves the session lock held.
RequestsEnd == \A q \in Requests : ~Idle(q) ~> Idle(q)

=============================================================================
