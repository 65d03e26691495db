--------------------------- MODULE SessionsProofs ---------------------------
(***************************************************************************)
(* Safety of Sessions for any registries, threads and requests.            *)
(***************************************************************************)
EXTENDS Sessions, TLAPS

\* A request has a session from the moment one is returned to it, and a Session
\* object's lock is held by one request.
RequestInv ==
    /\ \A q \in Requests : req[q].session # 0 <=> req[q].pc \in {"waiting", "running"}
    /\ \A p, q \in Requests :
         Running(p) /\ Running(q) /\ req[p].session = req[q].session => p = q

\* An active row was recorded under the role its thread was started under.
RowInv ==
    \A t \in Threads : row[t] = "active" => rowRole[t] = origin[t] /\ origin[t] # "none"

\* Two registry entries never share an object.
LiveApart ==
    \A r1, r2 \in Registries, t1, t2 \in Threads :
        live[r1][t1] = live[r2][t2] /\ live[r1][t1] # 0 => r1 = r2 /\ t1 = t2

\* Without the durable tier a thread has one Session object, from its creation on.
OneObject ==
    ~durable =>
        /\ \A t \in Threads : row[t] = "none"
        /\ \A q \in Requests : req[q].pc # "rebinding"
        /\ \A p, q \in Requests :
             ~Idle(p) /\ ~Idle(q) /\ req[p].thread = req[q].thread /\ p # q =>
                req[p].pc # "creating" /\ req[p].session = req[q].session
        /\ \A q \in Requests, r \in Registries :
             ~Idle(q) /\ live[r][req[q].thread] # 0 =>
                req[q].pc # "creating" /\ live[r][req[q].thread] = req[q].session
        /\ \A r1, r2 \in Registries, t \in Threads :
             live[r1][t] # 0 /\ live[r2][t] # 0 => r1 = r2

Core == SessionsApart /\ RoleTrue /\ RequestInv /\ LiveApart /\ OneObject
IInv == TypeOK /\ Core /\ RowInv

Request == [pc : Pcs, reg : Registries, thread : Threads, session : 0..MaxSession]

LEMMA NoRequestTyped ==
           NoRequest \in Request /\ NoRequest.pc = "idle" /\ NoRequest.session = 0
BY ConstantsAssumption DEF NoRequest, Request, Pcs, AnyRegistry, AnyThread

\* The parts of a request's record.
LEMMA RequestTyped ==
    ASSUME TypeOK, NEW q \in Requests
    PROVE  /\ req[q].thread \in Threads /\ req[q].reg \in Registries
           /\ req[q].session \in 0..MaxSession /\ req[q].pc \in Pcs
BY DEF TypeOK

LEMMA RoleTyped == \A r \in Registries : Role(r) \in Roles /\ Role(r) # "none"
BY DEF Role, Roles

\* expire_idle only removes entries.
LEMMA SweptRemoves ==
    ASSUME TypeOK, NEW r \in Registries
    PROVE  /\ Swept(r) \in [Registries -> [Threads -> 0..MaxSession]]
           /\ \A r2 \in Registries, t \in Threads : Swept(r)[r2][t] \in {live[r2][t], 0}
BY ConstantsAssumption DEF TypeOK, Swept

\* Losing sessions and requests, whichever, keeps the invariant.
LEMMA DropCore ==
    ASSUME TypeOK, Core,
           \A r \in Registries, t \in Threads : live'[r][t] \in {live[r][t], 0},
           \A q \in Requests : req'[q] = req[q] \/ (req'[q].pc = "idle" /\ req'[q].session = 0),
           origin' = origin, durable' = durable,
           ~durable => \A t \in Threads : row'[t] = "none"
    PROVE  Core'
<1> USE DEF Core
<1>1. SessionsApart'
  BY DEF TypeOK, SessionsApart
<1>2. RoleTrue'
  BY DEF TypeOK, RoleTrue, Idle
<1>3. RequestInv'
  BY DEF TypeOK, RequestInv, Running
<1>4. LiveApart'
  BY DEF TypeOK, LiveApart
<1>5. OneObject'
  BY DEF TypeOK, OneObject, Idle
<1> QED BY <1>1, <1>2, <1>3, <1>4, <1>5

\* A request starts on a thread, with no session yet.
LEMMA StartCore ==
    ASSUME TypeOK, Core, NEW q \in Requests, NEW r \in Registries, NEW t \in Threads,
           NEW where \in {"creating", "rebinding"}, Idle(q),
           \A r2 \in Registries, t2 \in Threads : live'[r2][t2] \in {live[r2][t2], 0},
           Becomes(q, where, r, t, 0),
           origin' \in [Threads -> {"none"} \cup Roles],
           \A t2 \in Threads \ {t} : origin'[t2] = origin[t2],
           origin'[t] = Role(r),
           durable' = durable, row' = row,
           \/ where = "creating" /\ origin[t] = "none"
           \/ where = "rebinding" /\ durable /\ origin[t] = Role(r)
    PROVE  Core'
<1> USE DEF Core
<1>1. /\ req'[q].pc = where /\ req'[q].session = 0
      /\ req'[q].reg = r /\ req'[q].thread = t
      /\ \A p \in Requests \ {q} : req'[p] = req[p]
  BY DEF TypeOK, Becomes
<1>2. SessionsApart'
  BY <1>1, RequestTyped DEF SessionsApart
<1>3. RoleTrue'
  <2>1. \A r2 \in Registries, t2 \in Threads : live[r2][t2] # 0 => origin'[t2] = Role(r2)
    BY RoleTyped, RequestTyped DEF RoleTrue
  <2>2. \A p \in Requests \ {q} : ~Idle(p) => origin'[req[p].thread] = Role(req[p].reg)
    BY RoleTyped, RequestTyped DEF RoleTrue
  <2> QED BY <1>1, <2>1, <2>2, RequestTyped DEF RoleTrue, Idle
<1>4. RequestInv'
  BY <1>1 DEF RequestInv, Running
<1>5. LiveApart'
  BY DEF LiveApart
<1>6. OneObject'
  <2> SUFFICES ASSUME ~durable PROVE OneObject'
    BY DEF OneObject
  <2>1. where = "creating" /\ origin[t] = "none"
    OBVIOUS
  <2>2. \A r2 \in Registries : live[r2][t] = 0
    BY <2>1, RoleTyped, RequestTyped DEF RoleTrue
  <2>3. \A p \in Requests : ~Idle(p) => req[p].thread # t
    BY <2>1, RoleTyped, RequestTyped DEF RoleTrue
  <2> QED BY <1>1, <2>1, <2>2, <2>3, RequestTyped DEF OneObject, Idle
<1> QED BY <1>2, <1>3, <1>4, <1>5, <1>6

\* A fresh object is in no registry and in no request.
LEMMA FreshUnused ==
    ASSUME TypeOK, NEW s \in Fresh
    PROVE  /\ s \in Objects /\ s # 0
           /\ \A r \in Registries, t \in Threads : live[r][t] # s
           /\ \A q \in Requests : req[q].session # s
BY ConstantsAssumption DEF Fresh, Unused, Referenced, Objects, TypeOK

\* The session that a request was waiting for is registered.
LEMMA RegisterCore ==
    ASSUME TypeOK, Core, NEW q \in Requests, NEW s \in Fresh, Register(q, s),
           req[q].pc \in {"creating", "rebinding"},
           origin' = origin, durable' = durable,
           ~durable => \A t \in Threads : row'[t] = "none"
    PROVE  Core'
<1> USE DEF Core
<1> DEFINE r == req[q].reg
           t == req[q].thread
<1>1. r \in Registries /\ t \in Threads /\ ~Idle(q)
  BY DEF TypeOK, Idle
<1>2. /\ s \in Objects /\ s # 0
      /\ \A r2 \in Registries, t2 \in Threads : live[r2][t2] # s
      /\ \A p \in Requests : req[p].session # s
  BY FreshUnused
<1>3. /\ req'[q].pc = "waiting" /\ req'[q].session = s
      /\ req'[q].reg = r /\ req'[q].thread = t
      /\ \A p \in Requests \ {q} : req'[p] = req[p]
  BY DEF TypeOK, Register, Becomes
<1>4. /\ live'[r][t] = s
      /\ \A r2 \in Registries, t2 \in Threads :
           ~(r2 = r /\ t2 = t) => live'[r2][t2] = live[r2][t2]
  BY <1>1 DEF TypeOK, Register
<1> HIDE DEF r, t
<1>5. SessionsApart'
  BY <1>1, <1>2, <1>3, <1>4, RequestTyped DEF SessionsApart
<1>6. RoleTrue'
  <2>1. origin[t] = Role(r)
    BY <1>1, RequestTyped DEF RoleTrue, r, t
  <2> QED BY <1>1, <1>3, <1>4, <2>1, RequestTyped DEF RoleTrue, Idle
<1>7. RequestInv'
  BY <1>2, <1>3 DEF RequestInv, Running
<1>8. LiveApart'
  BY <1>1, <1>2, <1>4 DEF LiveApart
<1>9. OneObject'
  <2> SUFFICES ASSUME ~durable PROVE OneObject'
    BY DEF OneObject
  <2>1. req[q].pc = "creating"
    BY DEF OneObject
  <2>2. \A p \in Requests \ {q} : ~Idle(p) => req[p].thread # t
    BY <1>1, <2>1, RequestTyped DEF OneObject, t
  <2>3. \A r2 \in Registries : live[r2][t] = 0
    BY <1>1, <2>1, RequestTyped DEF OneObject, t
  <2>4. \A p \in Requests : req'[p].pc # "rebinding"
    BY <1>3, RequestTyped DEF OneObject
  <2>5. \A p1, p2 \in Requests :
          req'[p1].pc # "idle" /\ req'[p2].pc # "idle"
            /\ req'[p1].thread = req'[p2].thread /\ p1 # p2 =>
          req'[p1].pc # "creating" /\ req'[p1].session = req'[p2].session
    BY <1>3, <2>2, RequestTyped DEF OneObject, Idle
  <2>6. \A p \in Requests, r2 \in Registries :
          req'[p].pc # "idle" /\ live'[r2][req'[p].thread] # 0 =>
          req'[p].pc # "creating" /\ live'[r2][req'[p].thread] = req'[p].session
    BY <1>1, <1>3, <1>4, <2>2, <2>3, RequestTyped DEF OneObject, Idle
  <2>7. \A r1, r2 \in Registries, t2 \in Threads :
          live'[r1][t2] # 0 /\ live'[r2][t2] # 0 => r1 = r2
    BY <1>1, <1>4, <2>3, RequestTyped DEF OneObject
  <2> QED BY <2>4, <2>5, <2>6, <2>7, RequestTyped DEF OneObject, Idle
<1> QED BY <1>5, <1>6, <1>7, <1>8, <1>9

\* A request gets a session found live.
LEMMA ResolveLiveCore ==
    ASSUME TypeOK, Core, NEW q \in Requests, NEW r \in Registries, NEW t \in Threads,
           ResolveLive(q, r, t)
    PROVE  Core'
<1> USE DEF Core
<1> DEFINE s == live[r][t]
<1>1. \A r2 \in Registries, t2 \in Threads : live'[r2][t2] \in {live[r2][t2], 0}
  BY SweptRemoves DEF ResolveLive
<1>2. live'[r][t] = s /\ s # 0 /\ Idle(q)
  BY <1>1 DEF ResolveLive
<1>3. /\ req'[q].pc = "waiting" /\ req'[q].session = s
      /\ req'[q].reg = r /\ req'[q].thread = t
      /\ \A p \in Requests \ {q} : req'[p] = req[p]
  BY <1>2 DEF TypeOK, ResolveLive, Becomes
<1>4. UNCHANGED <<durable, origin, row>>
  BY DEF ResolveLive, TouchSession
<1> HIDE DEF s
<1>5. SessionsApart'
  <2>1. \A p \in Requests : req[p].session = s => req[p].thread = t /\ req[p].reg = r
    BY <1>2, RequestTyped DEF SessionsApart, s
  <2>2. \A r2 \in Registries, t2 \in Threads : live[r2][t2] = s => r2 = r /\ t2 = t
    BY <1>2 DEF LiveApart, s
  <2> QED BY <1>1, <1>2, <1>3, <2>1, <2>2, RequestTyped DEF SessionsApart
<1>6. RoleTrue'
  <2>1. origin[t] = Role(r)
    BY <1>2, RequestTyped DEF RoleTrue, s
  <2> QED BY <1>1, <1>3, <1>4, <2>1, RequestTyped DEF RoleTrue, Idle
<1>7. RequestInv'
  BY <1>2, <1>3 DEF RequestInv, Running
<1>8. LiveApart'
  BY <1>1 DEF LiveApart
<1>9. OneObject'
  <2> SUFFICES ASSUME ~durable PROVE OneObject'
    BY <1>4, RequestTyped DEF OneObject
  <2>1. \A p \in Requests : ~Idle(p) /\ req[p].thread = t =>
                              req[p].pc # "creating" /\ req[p].session = s
    BY <1>2, RequestTyped DEF OneObject, s
  <2>2. \A r2 \in Registries : live[r2][t] \in {s, 0}
    BY <1>2, RequestTyped DEF OneObject, s
  <2>3. \A p \in Requests : req'[p].pc # "rebinding"
    BY <1>3, RequestTyped DEF OneObject
  <2>4. \A p1, p2 \in Requests :
          req'[p1].pc # "idle" /\ req'[p2].pc # "idle"
            /\ req'[p1].thread = req'[p2].thread /\ p1 # p2 =>
          req'[p1].pc # "creating" /\ req'[p1].session = req'[p2].session
    BY <1>3, <2>1, RequestTyped DEF OneObject, Idle
  <2>5. \A p \in Requests, r2 \in Registries :
          req'[p].pc # "idle" /\ live'[r2][req'[p].thread] # 0 =>
          req'[p].pc # "creating" /\ live'[r2][req'[p].thread] = req'[p].session
    BY <1>1, <1>3, <2>2, RequestTyped DEF OneObject, Idle
  <2>6. \A r1, r2 \in Registries, t2 \in Threads :
          live'[r1][t2] # 0 /\ live'[r2][t2] # 0 => r1 = r2
    BY <1>1, RequestTyped DEF OneObject
  <2>7. \A t2 \in Threads : row'[t2] = "none"
    BY <1>4, RequestTyped DEF OneObject
  <2> QED BY <2>3, <2>4, <2>5, <2>6, <2>7, RequestTyped DEF OneObject, Idle
<1> QED BY <1>5, <1>6, <1>7, <1>8, <1>9

\* A request that waits takes the lock.
LEMMA AcquireLockCore ==
    ASSUME TypeOK, Core, NEW q \in Requests, AcquireLock(q)
    PROVE  Core'
<1> USE DEF Core
<1>1. /\ req'[q].pc = "running" /\ req'[q].session = req[q].session
      /\ req'[q].reg = req[q].reg /\ req'[q].thread = req[q].thread
      /\ \A p \in Requests \ {q} : req'[p] = req[p]
      /\ UNCHANGED <<durable, origin, row, live>>
  BY DEF TypeOK, AcquireLock, table
<1>2. SessionsApart'
  BY <1>1, RequestTyped DEF SessionsApart
<1>3. RoleTrue'
  BY <1>1, RequestTyped DEF RoleTrue, Idle, AcquireLock
<1>4. RequestInv'
  BY <1>1 DEF RequestInv, Running, AcquireLock
<1>5. LiveApart'
  BY <1>1 DEF LiveApart
<1>6. OneObject'
  BY <1>1, RequestTyped DEF OneObject, Idle, AcquireLock
<1> QED BY <1>2, <1>3, <1>4, <1>5, <1>6

LEMMA InitInv == Init => IInv
<1> SUFFICES ASSUME Init PROVE IInv
  OBVIOUS
<1>1. \A q \in Requests : req[q].pc = "idle" /\ req[q].session = 0
  BY DEF Init, NoRequest
<1>2. TypeOK
  <2>1. ASSUME NEW q \in Requests PROVE req[q] \in Request
    BY NoRequestTyped DEF Init
  <2>2. req \in [Requests -> Request]
    BY <2>1 DEF Init
  <2> QED BY <2>2, ConstantsAssumption DEF Init, TypeOK, Request, Objects
<1>3. Core
  BY <1>1 DEF Init, Core, SessionsApart, RoleTrue, RequestInv, LiveApart, OneObject,
              Idle, Running
<1>4. RowInv
  BY DEF Init, RowInv
<1> QED BY <1>2, <1>3, <1>4 DEF IInv

\* Typing of the pieces the actions share.
LEMMA BecomesTyped ==
    ASSUME TypeOK, NEW q \in Requests, NEW where \in Pcs, NEW r \in Registries,
           NEW t \in Threads, NEW s \in 0..MaxSession, Becomes(q, where, r, t, s)
    PROVE  req' \in [Requests -> Request]
BY DEF TypeOK, Becomes, Request

LEMMA StillIdleTyped == TypeOK => StillIdle \subseteq Objects
BY DEF TypeOK, StillIdle

LEMMA TouchTyped ==
    ASSUME TypeOK, NEW t \in Threads, TouchSession(t)
    PROVE  lapsed' \subseteq Threads /\ row' = row /\ rowRole' = rowRole
BY DEF TypeOK, TouchSession, Write

LEMMA BeginCreateInv ==
    ASSUME IInv, NEW q \in Requests, NEW r \in Registries, NEW t \in Threads,
           BeginCreate(q, r, t)
    PROVE  IInv'
<1> USE DEF IInv
<1>1. /\ origin' \in [Threads -> {"none"} \cup Roles]
      /\ \A t2 \in Threads \ {t} : origin'[t2] = origin[t2]
      /\ origin'[t] = Role(r)
  BY RoleTyped DEF TypeOK, BeginCreate
<1>2. TypeOK'
  BY <1>1, SweptRemoves, BecomesTyped, StillIdleTyped, ConstantsAssumption
     DEF TypeOK, BeginCreate, table, Pcs, Request
<1>3. Core'
  BY <1>1, SweptRemoves, StartCore DEF BeginCreate, table
<1>4. RowInv'
  BY <1>1, RoleTyped DEF RowInv, BeginCreate, table
<1> QED BY <1>2, <1>3, <1>4

LEMMA ResolveRebindInv ==
    ASSUME IInv, NEW q \in Requests, NEW r \in Registries, NEW t \in Threads,
           ResolveRebind(q, r, t)
    PROVE  IInv'
<1> USE DEF IInv
<1>1. durable /\ origin[t] = Role(r)
  BY DEF ResolveRebind, Resumable, RowInv
<1>2. TypeOK'
  BY SweptRemoves, BecomesTyped, StillIdleTyped, ConstantsAssumption
     DEF TypeOK, ResolveRebind, table, Pcs, Request
<1>3. Core'
  BY <1>1, SweptRemoves, StartCore DEF ResolveRebind, table, TypeOK
<1>4. RowInv'
  BY DEF RowInv, ResolveRebind, table
<1> QED BY <1>2, <1>3, <1>4

\* What registering a session does to the types.
LEMMA RegisterTyped ==
    ASSUME TypeOK, NEW q \in Requests, NEW s \in Fresh, Register(q, s)
    PROVE  /\ live' \in [Registries -> [Threads -> 0..MaxSession]]
           /\ idle' \subseteq Objects
           /\ req' \in [Requests -> Request]
<1>1. s \in 0..MaxSession
  BY FreshUnused, ConstantsAssumption DEF Objects
<1> QED
  BY <1>1, RequestTyped, BecomesTyped, StillIdleTyped DEF TypeOK, Register, Pcs

LEMMA EndCreateInv == \A q \in Requests : IInv /\ EndCreate(q) => IInv'
<1> SUFFICES ASSUME NEW q \in Requests, IInv, EndCreate(q) PROVE IInv'
  OBVIOUS
<1> USE DEF IInv
<1> DEFINE t == req[q].thread
           r == req[q].reg
<1>1. PICK s \in Fresh : Register(q, s)
  BY DEF EndCreate
<1>2. t \in Threads /\ r \in Registries /\ origin[t] = Role(r)
  BY RequestTyped DEF EndCreate, Core, RoleTrue, Idle
<1>3. /\ row' \in [Threads -> {"none", "active", "expired"}]
      /\ rowRole' \in [Threads -> {"none"} \cup Roles]
      /\ lapsed' \subseteq Threads
      /\ ~durable => UNCHANGED table
  BY <1>2, RoleTyped DEF TypeOK, EndCreate, RecordSession, table
<1>4. TypeOK'
  BY <1>1, <1>3, RegisterTyped DEF TypeOK, EndCreate, Request
<1>5. Core'
  <2>1. ~durable => \A t2 \in Threads : row'[t2] = "none"
    BY <1>3 DEF Core, OneObject, table
  <2> QED BY <1>1, <2>1, RegisterCore DEF EndCreate
<1>6. RowInv'
  BY <1>2, RoleTyped DEF TypeOK, RowInv, EndCreate, RecordSession, table
<1> QED BY <1>4, <1>5, <1>6

LEMMA EndRebindInv == \A q \in Requests : IInv /\ EndRebind(q) => IInv'
<1> SUFFICES ASSUME NEW q \in Requests, IInv, EndRebind(q) PROVE IInv'
  OBVIOUS
<1> USE DEF IInv
<1>1. PICK s \in Fresh : Register(q, s)
  BY DEF EndRebind
<1>2. lapsed' \subseteq Threads /\ row' = row /\ rowRole' = rowRole
  BY RequestTyped, TouchTyped DEF EndRebind
<1>3. TypeOK'
  BY <1>1, <1>2, RegisterTyped DEF TypeOK, EndRebind, Request
<1>4. Core'
  <2>1. ~durable => \A t2 \in Threads : row'[t2] = "none"
    BY <1>2 DEF Core, OneObject
  <2> QED BY <1>1, <2>1, RegisterCore DEF EndRebind
<1>5. RowInv'
  BY <1>2 DEF RowInv, EndRebind
<1> QED BY <1>3, <1>4, <1>5

LEMMA ResolveLiveInv ==
    ASSUME IInv, NEW q \in Requests, NEW r \in Registries, NEW t \in Threads,
           ResolveLive(q, r, t)
    PROVE  IInv'
<1> USE DEF IInv
<1>1. live' \in [Registries -> [Threads -> 0..MaxSession]]
  BY SweptRemoves DEF ResolveLive
<1>2. live'[r][t] \in 0..MaxSession
  BY <1>1
<1>3. lapsed' \subseteq Threads /\ row' = row /\ rowRole' = rowRole
  BY TouchTyped DEF ResolveLive
<1>4. TypeOK'
  BY <1>1, <1>2, <1>3, BecomesTyped, StillIdleTyped DEF TypeOK, ResolveLive, Pcs, Request
<1>5. Core'
  BY ResolveLiveCore
<1>6. RowInv'
  BY <1>3 DEF RowInv, ResolveLive
<1> QED BY <1>4, <1>5, <1>6

\* The steps that only lose sessions, requests and rows.
LEMMA DropInv ==
    ASSUME IInv,
           live' \in [Registries -> [Threads -> 0..MaxSession]],
           \A r \in Registries, t \in Threads : live'[r][t] \in {live[r][t], 0},
           \A q \in Requests : req'[q] = req[q] \/ req'[q] = NoRequest,
           req' = [q \in Requests |-> req'[q]],
           UNCHANGED <<durable, origin, rowRole>>,
           row' \in [Threads -> {"none", "active", "expired"}],
           \A t \in Threads : row'[t] = row[t] \/ (row[t] = "active" /\ row'[t] = "expired"),
           lapsed' \subseteq Threads, idle' \subseteq Objects
    PROVE  IInv'
<1> USE DEF IInv
<1>1. ASSUME NEW q \in Requests PROVE req'[q] \in Request
  <2>1. req[q] \in Request
    BY DEF TypeOK, Request
  <2>2. NoRequest \in Request
    BY RequestTyped, NoRequestTyped
  <2> QED BY <2>1, <2>2
<1>2. TypeOK'
  <2>1. req' \in [Requests -> Request]
    BY <1>1
  <2> QED BY <2>1 DEF TypeOK, Request
<1>3. Core'
  <2>1. ~durable => \A t \in Threads : row'[t] = "none"
    BY DEF Core, OneObject
  <2>2. \A q \in Requests : req'[q] = req[q] \/ (req'[q].pc = "idle" /\ req'[q].session = 0)
    BY DEF NoRequest
  <2> QED BY <2>1, <2>2, DropCore
<1>4. RowInv'
  BY DEF RowInv
<1> QED BY <1>2, <1>3, <1>4

LEMMA DoneDrops ==
    ASSUME TypeOK, NEW q \in Requests, Done(q)
    PROVE  /\ \A p \in Requests : req'[p] = req[p] \/ req'[p] = NoRequest
           /\ req' = [p \in Requests |-> req'[p]]
BY DEF TypeOK, Done

LEMMA NextInv == IInv /\ [Next]_vars => IInv'
<1> SUFFICES ASSUME IInv, [Next]_vars PROVE IInv'
  OBVIOUS
<1>0. TypeOK /\ req = [p \in Requests |-> req[p]]
  BY DEF IInv, TypeOK
<1>1. ASSUME NEW q \in Requests, NEW r \in Registries, NEW t \in Threads,
             \/ BeginCreate(q, r, t) \/ ResolveLive(q, r, t)
             \/ ResolveRebind(q, r, t) \/ ResolveUnknown(q, r, t)
      PROVE  IInv'
  <2>1. CASE ResolveUnknown(q, r, t)
    <3>1. row' \in [Threads -> {"none", "active", "expired"}]
          /\ \A t2 \in Threads : row'[t2] = row[t2] \/ (row[t2] = "active" /\ row'[t2] = "expired")
      BY <2>1, <1>0 DEF TypeOK, ResolveUnknown, Write
    <3> QED
      BY <2>1, <3>1, <1>0, SweptRemoves, StillIdleTyped, DropInv DEF ResolveUnknown, TypeOK
  <2> QED BY <1>1, <2>1, BeginCreateInv, ResolveLiveInv, ResolveRebindInv
<1>2. ASSUME NEW q \in Requests, Step(q) PROVE IInv'
  <2>1. CASE AcquireLock(q)
    <3>1. Core'
      BY <2>1, <1>0, AcquireLockCore DEF IInv
    <3>2. TypeOK'
      BY <2>1, <1>0 DEF TypeOK, AcquireLock, table, Pcs
    <3>3. RowInv'
      BY <2>1 DEF IInv, RowInv, AcquireLock, table
    <3> QED BY <3>1, <3>2, <3>3 DEF IInv
  <2>2. CASE TurnEnds(q)
    BY <2>2, <1>0, DoneDrops, DropInv DEF TurnEnds, TypeOK, table
  <2> QED BY <1>2, <2>1, <2>2, EndCreateInv, EndRebindInv DEF Step
<1>3. ASSUME NEW q \in Requests, Abandon(q) PROVE IInv'
  BY <1>3, <1>0, DoneDrops, DropInv DEF Abandon, TypeOK, table
<1>4. ASSUME NEW r \in Registries, NEW t \in Threads, Expire(r, t) PROVE IInv'
  <2>1. /\ live' \in [Registries -> [Threads -> 0..MaxSession]]
        /\ \A r2 \in Registries, t2 \in Threads : live'[r2][t2] \in {live[r2][t2], 0}
    BY <1>4, <1>0, ConstantsAssumption DEF Expire, TypeOK
  <2> QED BY <1>4, <2>1, <1>0, StillIdleTyped, DropInv DEF Expire, TypeOK, table
<1>5. ASSUME NEW s \in Objects, IdleTtlPasses(s) PROVE IInv'
  BY <1>5, <1>0, DropInv DEF IdleTtlPasses, TypeOK, table
<1>6. ASSUME NEW t \in Threads, SessionTtlPasses(t) PROVE IInv'
  BY <1>6, <1>0, DropInv DEF SessionTtlPasses, TypeOK
<1>7. ASSUME NEW r \in Registries, Restart(r) PROVE IInv'
  <2>1. /\ live' \in [Registries -> [Threads -> 0..MaxSession]]
        /\ \A r2 \in Registries, t2 \in Threads : live'[r2][t2] \in {live[r2][t2], 0}
    BY <1>7, <1>0, ConstantsAssumption DEF Restart, TypeOK
  <2>2. /\ \A p \in Requests : req'[p] = req[p] \/ req'[p] = NoRequest
        /\ req' = [p \in Requests |-> req'[p]]
    BY <1>7 DEF Restart
  <2> QED BY <1>7, <2>1, <2>2, <1>0, StillIdleTyped, DropInv DEF Restart, TypeOK, table
<1>8. CASE UNCHANGED vars
  BY <1>8, <1>0, DropInv DEF vars, table, TypeOK
<1> QED BY <1>1, <1>2, <1>3, <1>4, <1>5, <1>6, <1>7, <1>8 DEF Next

\* IInv holds in every reachable state.
THEOREM Invariance == Spec => []IInv
BY InitInv, NextInv, PTL DEF Spec

\* The variables keep their types.
THEOREM TypeCorrect == Spec => []TypeOK
<1>1. IInv => TypeOK
  BY DEF IInv
<1> QED BY <1>1, Invariance, PTL

\* A Session object serves one conversation of one registry, and no thread is ever
\* continued under another role.
THEOREM ConversationsApart == Spec => []ConversationsKept
<1>1. IInv => ConversationsKept
  BY DEF IInv, Core, ConversationsKept
<1> QED BY <1>1, Invariance, PTL

\* Without the durable tier, turns on one thread are serialized.
THEOREM InMemorySerialized == Spec => []SerializedInMemory
<1>1. IInv => SerializedInMemory
  <2> SUFFICES ASSUME IInv, ~durable, NEW p \in Requests, NEW q \in Requests,
                      Running(p), Running(q), req[p].thread = req[q].thread, p # q
               PROVE  FALSE
    BY DEF SerializedInMemory, TurnsSerialized
  <2>1. req[p].session = req[q].session
    BY DEF IInv, Core, OneObject, Running, Idle
  <2> QED BY <2>1 DEF IInv, Core, RequestInv
<1> QED BY <1>1, Invariance, PTL

\* Of the requests on a gone thread, none is in progress; a step of one in
\* progress is a step on another thread.
LEMMA GoneStep ==
    ASSUME IInv, [Next]_vars, NEW t \in Threads, Gone(t)
    PROVE  Gone(t)'
<1> USE DEF IInv
<1> TypeOK
  OBVIOUS
<1>1. ASSUME NEW q \in Requests, NEW r \in Registries, NEW t2 \in Threads,
             \/ BeginCreate(q, r, t2) \/ ResolveLive(q, r, t2)
             \/ ResolveRebind(q, r, t2) \/ ResolveUnknown(q, r, t2)
      PROVE  Gone(t)'
  <2>1. \A r2 \in Registries : live'[r2][t] = 0
    <3>1. live' = Swept(r)
      BY <1>1 DEF BeginCreate, ResolveLive, ResolveRebind, ResolveUnknown
    <3>2. \A r2 \in Registries : Swept(r)[r2][t] \in {live[r2][t], 0}
      BY SweptRemoves
    <3> QED BY <3>1, <3>2 DEF Gone
  <2>2. CASE ResolveUnknown(q, r, t2)
    BY <2>1, <2>2 DEF TypeOK, Gone, ResolveUnknown, Write, Idle
  <2>3. CASE ~ResolveUnknown(q, r, t2)
    <3>1. t2 # t
      BY <1>1, <2>1, <2>3 DEF Gone, BeginCreate, ResolveLive, ResolveRebind, Resumable
    <3>2. \A p \in Requests \ {q} : req'[p] = req[p]
      BY <1>1, <2>3 DEF TypeOK, BeginCreate, ResolveLive, ResolveRebind, Becomes
    <3>3. req'[q].thread = t2
      BY <1>1, <2>3 DEF TypeOK, BeginCreate, ResolveLive, ResolveRebind, Becomes
    <3>4. origin'[t] = origin[t] /\ row'[t] = row[t] /\ (t \in lapsed => t \in lapsed')
      BY <1>1, <2>3, <3>1
         DEF TypeOK, BeginCreate, ResolveLive, ResolveRebind, TouchSession, Write, table
    <3> QED BY <2>1, <3>1, <3>2, <3>3, <3>4 DEF Gone, Idle
  <2> QED BY <2>2, <2>3
<1>2. ASSUME NEW q \in Requests, Step(q) PROVE Gone(t)'
  <2>1. ~Idle(q) /\ req[q].thread # t /\ req[q].thread \in Threads /\ req[q].reg \in Registries
    BY <1>2, RequestTyped
       DEF Gone, Step, EndCreate, EndRebind, AcquireLock, TurnEnds, Running, Idle
  <2>2. CASE EndCreate(q) \/ EndRebind(q)
    <3>1. PICK s \in Fresh : Register(q, s)
      BY <2>2 DEF EndCreate, EndRebind
    <3>2. \A r2 \in Registries : live'[r2][t] = live[r2][t]
      BY <2>1, <3>1 DEF TypeOK, Register
    <3>3. \A p \in Requests : req'[p].thread = t => req'[p].pc = "idle"
      BY <2>1, <3>1 DEF TypeOK, Gone, Register, Becomes, Idle
    <3>4. origin'[t] = origin[t] /\ row'[t] = row[t] /\ (t \in lapsed => t \in lapsed')
      BY <2>1, <2>2
         DEF TypeOK, EndCreate, EndRebind, RecordSession, TouchSession, Write, table
    <3> QED BY <3>2, <3>3, <3>4 DEF Gone, Idle
  <2>3. CASE AcquireLock(q)
    <3>1. /\ \A p \in Requests \ {q} : req'[p] = req[p]
          /\ req'[q].thread = req[q].thread
      BY <2>3 DEF TypeOK, AcquireLock
    <3> QED BY <2>1, <2>3, <3>1 DEF Gone, AcquireLock, table, Idle
  <2>4. CASE TurnEnds(q)
    <3>1. \A p \in Requests : req'[p].thread = t => req'[p].pc = "idle"
      BY <2>1, <2>4 DEF TypeOK, Gone, TurnEnds, Done, NoRequest, Idle
    <3> QED BY <2>4, <3>1 DEF Gone, TurnEnds, table, Idle
  <2> QED BY <1>2, <2>2, <2>3, <2>4 DEF Step
<1>3. ASSUME NEW q \in Requests, Abandon(q) PROVE Gone(t)'
  <2>1. \A p \in Requests : req'[p].thread = t => req'[p].pc = "idle"
    BY <1>3 DEF TypeOK, Gone, Abandon, Done, NoRequest, Idle
  <2> QED BY <1>3, <2>1 DEF Gone, Abandon, table, Idle
<1>4. ASSUME NEW r \in Registries, NEW t2 \in Threads, Expire(r, t2) PROVE Gone(t)'
  BY <1>4 DEF TypeOK, Gone, Expire, table, Idle
<1>5. ASSUME NEW s \in Objects, IdleTtlPasses(s) PROVE Gone(t)'
  BY <1>5 DEF Gone, IdleTtlPasses, table, Idle
<1>6. ASSUME NEW t2 \in Threads, SessionTtlPasses(t2) PROVE Gone(t)'
  BY <1>6 DEF Gone, SessionTtlPasses, Idle
<1>7. ASSUME NEW r \in Registries, Restart(r) PROVE Gone(t)'
  <2>1. \A p \in Requests : req'[p].thread = t => req'[p].pc = "idle"
    BY <1>7 DEF Gone, Restart, NoRequest, Idle
  <2>2. \A r2 \in Registries : live'[r2][t] = 0
    BY <1>7 DEF TypeOK, Gone, Restart
  <2> QED BY <1>7, <2>1, <2>2 DEF Gone, Restart, table, Idle
<1>8. CASE UNCHANGED vars
  BY <1>8 DEF Gone, vars, table, Idle
<1> QED BY <1>1, <1>2, <1>3, <1>4, <1>5, <1>6, <1>7, <1>8 DEF Next

\* A conversation that is gone stays gone.
THEOREM GoneStaysGone == Spec => GoneForGood
<1>1. IInv /\ [Next]_vars => [\A t \in Threads : Gone(t) => Gone(t)']_vars
  BY GoneStep
<1> QED BY <1>1, Invariance, PTL DEF Spec, GoneForGood

\* Where turns of one thread do overlap (README, section 5), the persona has the durable
\* tier, and either they run in different registries or one of them runs on a session
\* its registry has dropped meanwhile: two turns on what a registry hands out for the
\* thread are serialized, with or without that tier.
THEOREM OverlapsAreDropped ==
    Spec => [](\A p, q \in Requests :
                 Running(p) /\ Running(q) /\ req[p].thread = req[q].thread /\ p # q =>
                    /\ durable
                    /\ \/ req[p].reg # req[q].reg
                       \/ \E d \in {p, q} : live[req[d].reg][req[d].thread] # req[d].session)
<1>1. IInv /\ SerializedInMemory =>
        \A p, q \in Requests :
          Running(p) /\ Running(q) /\ req[p].thread = req[q].thread /\ p # q =>
             /\ durable
             /\ \/ req[p].reg # req[q].reg
                \/ \E d \in {p, q} : live[req[d].reg][req[d].thread] # req[d].session
  <2> SUFFICES ASSUME IInv, SerializedInMemory, NEW p \in Requests, NEW q \in Requests,
                      Running(p), Running(q), req[p].thread = req[q].thread, p # q
               PROVE  /\ durable
                      /\ \/ req[p].reg # req[q].reg
                         \/ \E d \in {p, q} : live[req[d].reg][req[d].thread] # req[d].session
    OBVIOUS
  <2>1. durable
    BY DEF SerializedInMemory, TurnsSerialized
  <2>2. req[p].session # req[q].session
    BY DEF IInv, Core, RequestInv
  <2> QED BY <2>1, <2>2
<1> QED BY <1>1, Invariance, InMemorySerialized, PTL

=============================================================================
