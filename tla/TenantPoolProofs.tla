--------------------------- MODULE TenantPoolProofs ---------------------------
(***************************************************************************)
(* Theorems about TenantPool, for any tenants, tasks and connections, any   *)
(* set of hooks that the theorem names, and any nesting of scopes and       *)
(* transactions.                                                            *)
(***************************************************************************)
EXTENDS TenantPool, PgSessionProofs

-----------------------------------------------------------------------------
\* The tenant of a scope stack is a tenant or none.
LEMMA CurrentFacts ==
    ASSUME NEW sc \in Seq(Tenants)
    PROVE  Current(sc) \in Bindings
BY DEF Current, Bindings

\* before_acquire on a connection outside a transaction binds it to the
\* task's tenant, or to none, whatever it was bound to.
LEMMA BeforeAcquireBinds ==
    ASSUME NEW s \in Session, NEW b \in Bindings, ~InTx(s)
    PROVE  /\ before_acquire(s, b) \in Session
           /\ ~InTx(before_acquire(s, b))
           /\ "before_acquire" \in Hooks => SetsBind(before_acquire(s, b), b)
           /\ "before_acquire" \notin Hooks => before_acquire(s, b) = s
<1>1. CASE "before_acquire" \notin Hooks
  BY <1>1 DEF before_acquire
<1>2. CASE "before_acquire" \in Hooks /\ b # NoTenant
  <2>1. b \in Values /\ BindingOf(b) = b
    BY <1>2 DEF Bindings, Values, BindingOf
  <2>2. before_acquire(s, b) = WithSessionValue(s, b)
    BY <1>2 DEF before_acquire, apply_tenant_guc, SetSession
  <2> QED
    BY <1>2, <2>1, <2>2, WithSessionValueFacts
<1>3. CASE "before_acquire" \in Hooks /\ b = NoTenant
  <2>1. Empty \in Values /\ BindingOf(Empty) = b
    BY <1>3, SentinelAssumption DEF Values, BindingOf
  <2>2. before_acquire(s, b) = WithSessionValue(s, Empty)
    BY <1>3 DEF before_acquire, apply_tenant_guc, Reset
  <2> QED
    BY <1>3, <2>1, <2>2, WithSessionValueFacts
<1> QED
  BY <1>1, <1>2, <1>3

\* after_connect on a fresh connection binds it to the task's tenant or, if
\* the hook is not in force or the task has none, leaves it unbound.
LEMMA AfterConnectBinds ==
    ASSUME NEW b \in Bindings
    PROVE  LET s == after_connect(NewSession, b)
           IN  /\ s \in Session
               /\ ~InTx(s)
               /\ SetsBind(s, b) \/ SetsBind(s, NoTenant)
               /\ "after_connect" \in Hooks => SetsBind(s, b)
               /\ "after_connect" \notin Hooks => SetsBind(s, NoTenant)
<1>1. CASE "after_connect" \notin Hooks
  BY <1>1, NewSessionFacts DEF after_connect
<1>2. CASE b = NoTenant
  BY <1>2, NewSessionFacts DEF after_connect, mirror_guc_if_set
<1>3. CASE "after_connect" \in Hooks /\ b # NoTenant
  <2>1. b \in Values /\ BindingOf(b) = b
    BY <1>3 DEF Bindings, Values, BindingOf
  <2>2. after_connect(NewSession, b) = WithSessionValue(NewSession, b)
    BY <1>3 DEF after_connect, mirror_guc_if_set, SetSession
  <2> QED
    BY <1>3, <2>1, <2>2, NewSessionFacts, WithSessionValueFacts
<1> QED
  BY <1>1, <1>2, <1>3

\* after_release unbinds the connection.
LEMMA AfterReleaseUnbinds ==
    ASSUME NEW s \in Session, ~InTx(s)
    PROVE  /\ after_release(s) \in Session
           /\ ~InTx(after_release(s))
           /\ "after_release" \in Hooks => SetsBind(after_release(s), NoTenant)
           /\ SetsBind(s, NoTenant) => SetsBind(after_release(s), NoTenant)
<1>1. CASE "after_release" \notin Hooks
  BY <1>1 DEF after_release
<1>2. CASE "after_release" \in Hooks
  <2>1. Empty \in Values /\ BindingOf(Empty) = NoTenant
    BY SentinelAssumption DEF Values, BindingOf
  <2>2. after_release(s) = WithSessionValue(s, Empty)
    BY <1>2 DEF after_release, Reset
  <2> QED
    BY <1>2, <2>1, <2>2, WithSessionValueFacts
<1> QED
  BY <1>1, <1>2

-----------------------------------------------------------------------------
\* The records that conn takes are connections.
LEMMA ConnFacts ==
    /\ Closed \in Conn /\ Idle \in Conn /\ Returning \in Conn
    /\ Closed.status = "closed" /\ Idle.status = "idle"
    /\ Returning.status = "returning"
    /\ \A st \in {"checking", "connecting", "beginning", "held"},
          t \in Tasks, h \in {"conn", "tx"}, b \in Bindings :
         /\ Owned(st, t, h, b) \in Conn
         /\ Owned(st, t, h, b).status = st
         /\ Owned(st, t, h, b).lease = b
    /\ \A k : Dropped(k) \in Conn /\ Dropped(k) \in {Closed, Returning}
BY DEF Closed, Idle, Returning, Unowned, Owned, Conn, Bindings, Dropped

-----------------------------------------------------------------------------
(* The inductive invariant says of each connection, apart from the others   *)
(* and from the tasks, what its status makes true of its session.  The      *)
(* parts that need a hook are conditioned on it.  LeaseBinds is not         *)
(* inductive on its own: it says nothing of the values that a commit would  *)
(* bring back (SetsBind does), nor of connections about to be handed out.   *)

Fresh(k, s) == k.status \in {"closed", "connecting"} => s = NewSession

OutsideTx(k, s) == k.status \in {"idle", "checking"} => ~InTx(s)

Bound(k, s) ==
    k.status \in {"held", "beginning"} =>
        /\ "before_acquire" \in Hooks =>
             SetsBind(s, k.lease) \/ SetsBind(s, NoTenant)
        /\ {"before_acquire", "after_connect"} \subseteq Hooks => SetsBind(s, k.lease)

Unbound(k, s) ==
    k.status = "idle" /\ "after_release" \in Hooks =>
        SetsBind(s, NoTenant) \/ SetsBind(s, StartTenant)

\* No hook binds, and a transaction does so only locally.
Unhooked == Hooks \cap {"before_acquire", "after_connect"} = {}
NeverBound(s) == Unhooked => SetsBind(s, NoTenant)

ConnOK(k, s) ==
    /\ k \in Conn
    /\ s \in Session
    /\ Fresh(k, s) /\ OutsideTx(k, s) /\ Bound(k, s) /\ Unbound(k, s)
    /\ NeverBound(s)

TasksOK ==
    /\ pc \in [Tasks -> {"absent", "running", "acquiring"}]
    /\ scope \in [Tasks -> Seq(Tenants)]
    /\ request \in [Tasks -> Requests]

IInv ==
    /\ TasksOK
    /\ conn \in [Conns -> Conn]
    /\ session \in [Conns -> Session]
    /\ \A c \in Conns : ConnOK(conn[c], session[c])

\* A closed slot is as it should be.
LEMMA ClosedOK == ConnOK(Closed, NewSession)
BY ConnFacts, NewSessionFacts
DEF ConnOK, Fresh, OutsideTx, Bound, Unbound, NeverBound

\* So is an idle connection that after_connect has been run on, at the start
\* or by the background task.
LEMMA OpenedIdleOK ==
    ASSUME NEW b \in {NoTenant, StartTenant}
    PROVE  ConnOK(Idle, after_connect(NewSession, b))
BY ConnFacts, AfterConnectBinds, PoolAssumption
DEF ConnOK, Fresh, OutsideTx, Bound, Unbound, NeverBound, Unhooked, Bindings

\* A returning connection may be in any state.
LEMMA ReturningOK ==
    ASSUME NEW s \in Session, NeverBound(s)
    PROVE  ConnOK(Returning, s)
BY ConnFacts DEF ConnOK, Fresh, OutsideTx, Bound, Unbound

\* The hand-over of c to t: status st is held or beginning.
LEMMA HandedOverOK ==
    ASSUME NEW st \in {"held", "beginning"}, NEW t \in Tasks,
           NEW h \in {"conn", "tx"}, NEW b \in Bindings, NEW s \in Session,
           "before_acquire" \in Hooks => SetsBind(s, b) \/ SetsBind(s, NoTenant),
           {"before_acquire", "after_connect"} \subseteq Hooks => SetsBind(s, b),
           NeverBound(s)
    PROVE  ConnOK(Owned(st, t, h, b), s)
<1>1. /\ Owned(st, t, h, b) \in Conn
      /\ Owned(st, t, h, b).status = st
      /\ Owned(st, t, h, b).lease = b
  BY ConnFacts
<1> QED
  BY <1>1 DEF ConnOK, Fresh, OutsideTx, Bound, Unbound

\* Whatever a client does in transactions, the lease stays bound.
LEMMA UsedOK ==
    ASSUME NEW k \in Conn, NEW s \in Session, NEW r \in Session,
           k.status \in {"held", "beginning"}, ConnOK(k, s),
           \A b : SetsBind(s, b) => SetsBind(r, b)
    PROVE  ConnOK(k, r) /\ ConnOK([k EXCEPT !.status = "held"], r)
<1> DEFINE q == [k EXCEPT !.status = "held"]
<1>1. q \in Conn /\ q.status = "held" /\ q.lease = k.lease
  BY DEF Conn
<1>2. Bound(k, s)
  BY DEF ConnOK
<1>3. Bound(k, r) /\ Bound(q, r) /\ NeverBound(r)
  BY <1>1, <1>2 DEF Bound, ConnOK, NeverBound
<1> QED
  BY <1>1, <1>3 DEF ConnOK, Fresh, OutsideTx, Unbound

-----------------------------------------------------------------------------
(* From one connection to all of them.                                      *)

\* One connection changes.
LEMMA OneChanges ==
    ASSUME IInv, TasksOK', NEW c \in Conns, NEW k, NEW s, ConnOK(k, s),
           conn' = [conn EXCEPT ![c] = k],
           session' = [session EXCEPT ![c] = s]
    PROVE  IInv'
<1>1. k \in Conn /\ s \in Session
  BY DEF ConnOK
<1>2. conn' \in [Conns -> Conn] /\ session' \in [Conns -> Session]
  BY <1>1 DEF IInv
<1>3. ASSUME NEW d \in Conns PROVE ConnOK(conn'[d], session'[d])
  <2>1. CASE d = c
    BY <2>1 DEF IInv
  <2>2. CASE d # c
    BY <2>2 DEF IInv
  <2> QED
    BY <2>1, <2>2
<1> QED
  BY <1>2, <1>3 DEF IInv

\* No connection changes.
LEMMA NoneChanges ==
    ASSUME IInv, TasksOK', UNCHANGED <<conn, session>>
    PROVE  IInv'
BY DEF IInv

\* A set of connections is dropped.
LEMMA DropAllOK ==
    ASSUME IInv, TasksOK', NEW S, DropAll(S)
    PROVE  IInv'
<1>1. ASSUME NEW d \in Conns
      PROVE  ConnOK(conn'[d], session'[d])
  <2>1. ConnOK(conn[d], session[d]) /\ session[d] \in Session
    BY DEF IInv
  <2>2. CASE d \notin S
    BY <2>1, <2>2 DEF DropAll
  <2>3. CASE d \in S /\ Dropped(conn[d]) = Closed
    BY <2>3, ClosedOK DEF DropAll
  <2>4. CASE d \in S /\ Dropped(conn[d]) # Closed
    <3>1. conn'[d] = Returning /\ session'[d] = session[d]
      BY <2>4, ConnFacts DEF DropAll
    <3> QED
      BY <2>1, <3>1, ReturningOK DEF ConnOK
  <2> QED
    BY <2>2, <2>3, <2>4
<1>2. conn' \in [Conns -> Conn] /\ session' \in [Conns -> Session]
  BY <1>1 DEF DropAll, ConnOK
<1> QED
  BY <1>1, <1>2 DEF IInv

-----------------------------------------------------------------------------
(* One lemma per part of Next.                                              *)

LEMMA InitOK ==
    Init => IInv
<1> SUFFICES ASSUME Init PROVE IInv
  OBVIOUS
<1>1. PICK S \in SUBSET Conns :
        /\ conn = [c \in Conns |-> IF c \in S THEN Idle ELSE Closed]
        /\ session = [c \in Conns |->
             IF c \in S THEN after_connect(NewSession, StartTenant) ELSE NewSession]
  BY DEF Init
<1>2. ASSUME NEW c \in Conns PROVE ConnOK(conn[c], session[c])
  <2>1. CASE c \in S
    BY <1>1, <2>1, OpenedIdleOK
  <2>2. CASE c \notin S
    BY <1>1, <2>2, ClosedOK
  <2> QED
    BY <2>1, <2>2
<1>3. conn \in [Conns -> Conn] /\ session \in [Conns -> Session]
  BY <1>1, <1>2 DEF ConnOK
<1>4. NoRequest \in Requests
  BY DEF NoRequest, Requests
<1>5. TasksOK
  BY <1>4 DEF Init, TasksOK
<1> QED
  BY <1>2, <1>3, <1>5 DEF IInv

\* What a task does on its own.
LEMMA TaskStepOK ==
    ASSUME IInv, NEW t \in Tasks, TaskStep(t)
    PROVE  IInv'
<1>0. TasksOK /\ NoRequest \in Requests
  BY DEF IInv, NoRequest, Requests
<1>1. ASSUME NEW b \in Bindings, tenant_scope(t, b) PROVE IInv'
  <2>1. (IF b = NoTenant THEN <<>> ELSE <<b>>) \in Seq(Tenants)
    BY DEF Bindings
  <2> QED
    BY <1>0, <1>1, <2>1, NoneChanges DEF tenant_scope, TasksOK
<1>2. ASSUME NEW b \in Tenants, scope_tenant(t, b) PROVE IInv'
  BY <1>0, <1>2, NoneChanges DEF scope_tenant, TasksOK
<1>3. ASSUME ScopeEnds(t) PROVE IInv'
  <2>1. scope[t] \in Seq(Tenants) /\ scope[t] # <<>>
    BY <1>0, <1>3 DEF ScopeEnds, TasksOK
  <2>2. SubSeq(scope[t], 1, Len(scope[t]) - 1) \in Seq(Tenants)
    BY <2>1
  <2> QED
    BY <1>0, <1>3, <2>2, NoneChanges DEF ScopeEnds, TasksOK
<1>4. ASSUME NEW u \in Tasks, spawn_with_tenant(t, u) PROVE IInv'
  <2>1. current_tenant(t) \in Bindings
    BY <1>0, CurrentFacts DEF TasksOK, current_tenant
  <2>2. (IF current_tenant(t) = NoTenant THEN <<>> ELSE <<current_tenant(t)>>)
          \in Seq(Tenants)
    BY <2>1 DEF Bindings
  <2> QED
    BY <1>0, <1>4, <2>2, NoneChanges DEF spawn_with_tenant, TasksOK
<1>5. ASSUME NEW u \in Tasks, Spawn(t, u) PROVE IInv'
  BY <1>0, <1>5, NoneChanges DEF Spawn, TasksOK
<1>6. ASSUME TaskEnds(t) PROVE IInv'
  <2>1. TasksOK'
    BY <1>0, <1>6 DEF TaskEnds, TasksOK
  <2> QED
    BY <1>6, <2>1, DropAllOK DEF TaskEnds
<1>7. ASSUME NEW r \in Requests, Acquire(t, r) PROVE IInv'
  BY <1>0, <1>7, NoneChanges DEF Acquire, TasksOK
<1> QED
  BY <1>1, <1>2, <1>3, <1>4, <1>5, <1>6, <1>7 DEF TaskStep

\* The hand-over, with the session s that the hook leaves.
LEMMA HandOverOK ==
    ASSUME IInv, NEW t \in Tasks, NEW c \in Conns, NEW s \in Session,
           HandOver(t, c), session' = [session EXCEPT ![c] = s],
           "before_acquire" \in Hooks =>
             SetsBind(s, current_tenant(t)) \/ SetsBind(s, NoTenant),
           {"before_acquire", "after_connect"} \subseteq Hooks =>
             SetsBind(s, current_tenant(t)),
           NeverBound(s)
    PROVE  IInv'
<1>0. TasksOK /\ NoRequest \in Requests
  BY DEF IInv, NoRequest, Requests
<1>1. current_tenant(t) \in Bindings
  BY <1>0, CurrentFacts DEF TasksOK, current_tenant
<1>2. TasksOK'
  BY <1>0 DEF HandOver, Answered, TasksOK
<1>3. PICK st \in {"held", "beginning"}, h \in {"conn", "tx"} :
        conn' = [conn EXCEPT ![c] = Owned(st, t, h, current_tenant(t))]
  BY DEF HandOver
<1>4. ConnOK(Owned(st, t, h, current_tenant(t)), s)
  BY <1>1, HandedOverOK
<1> QED
  BY <1>2, <1>3, <1>4, OneChanges

\* Acquiring a connection.
LEMMA AcquireStepOK ==
    ASSUME IInv, NEW t \in Tasks, NEW c \in Conns, AcquireStep(t, c)
    PROVE  IInv'
<1>0. /\ TasksOK
      /\ session[c] \in Session /\ session = [session EXCEPT ![c] = session[c]]
      /\ ConnOK(conn[c], session[c])
      /\ current_tenant(t) \in Bindings
  BY CurrentFacts DEF IInv, TasksOK, current_tenant
<1> DEFINE checking == Owned("checking", t, "conn", NoTenant)
           connecting == Owned("connecting", t, "conn", NoTenant)
<1>1. /\ checking \in Conn /\ checking.status = "checking"
      /\ connecting \in Conn /\ connecting.status = "connecting"
  BY ConnFacts DEF Bindings
<1>2. ConnOK(connecting, NewSession)
  <2> HIDE DEF connecting
  <2> QED
    BY <1>1, NewSessionFacts
    DEF ConnOK, Fresh, OutsideTx, Bound, Unbound, NeverBound
<1>3. ASSUME PopIdle(t, c) PROVE IInv'
  <2>1. ~InTx(session[c])
    BY <1>0, <1>3, ConnFacts DEF PopIdle, ConnOK, OutsideTx
  <2>2. ConnOK(checking, session[c])
    <3> HIDE DEF checking
    <3> QED
      BY <1>0, <1>1, <2>1 DEF ConnOK, Fresh, OutsideTx, Bound, Unbound
  <2>3. TasksOK'
    BY <1>0, <1>3 DEF PopIdle, TasksOK
  <2> QED
    BY <1>0, <1>3, <2>2, <2>3, OneChanges DEF PopIdle
<1>4. ASSUME Connect(t, c) PROVE IInv'
  <2>1. session[c] = NewSession
    BY <1>0, <1>4, ConnFacts DEF Connect, ConnOK, Fresh
  <2>2. TasksOK'
    BY <1>0, <1>4 DEF Connect, TasksOK
  <2> QED
    BY <1>0, <1>2, <1>4, <2>1, <2>2, OneChanges DEF Connect
<1>5. ASSUME BeforeAcquire(t, c) PROVE IInv'
  <2>1. ~InTx(session[c])
    BY <1>0, <1>5 DEF BeforeAcquire, ConnOK, OutsideTx
  <2> DEFINE s == before_acquire(session[c], current_tenant(t))
  <2>2. /\ s \in Session /\ NeverBound(s)
        /\ "before_acquire" \in Hooks => SetsBind(s, current_tenant(t))
    BY <1>0, <2>1, BeforeAcquireBinds DEF ConnOK, NeverBound, Unhooked
  <2> QED
    BY <1>5, <2>2, HandOverOK DEF BeforeAcquire
<1>6. ASSUME BeforeAcquireFails(t, c) PROVE IInv'
  <2>1. TasksOK'
    BY <1>0, <1>6 DEF BeforeAcquireFails, TasksOK
  <2> QED
    BY <1>2, <1>6, <2>1, OneChanges DEF BeforeAcquireFails
<1>7. ASSUME AfterConnect(t, c) PROVE IInv'
  <2>1. session[c] = NewSession
    BY <1>0, <1>7 DEF AfterConnect, ConnOK, Fresh
  <2> DEFINE s == after_connect(NewSession, current_tenant(t))
  <2>2. /\ s \in Session
        /\ SetsBind(s, current_tenant(t)) \/ SetsBind(s, NoTenant)
        /\ "after_connect" \in Hooks => SetsBind(s, current_tenant(t))
        /\ NeverBound(s)
    BY <1>0, AfterConnectBinds DEF NeverBound, Unhooked
  <2> QED
    BY <1>7, <2>1, <2>2, HandOverOK DEF AfterConnect
<1> QED
  BY <1>3, <1>4, <1>5, <1>6, <1>7 DEF AcquireStep

LEMMA AcquireFailsOK ==
    ASSUME IInv, NEW t \in Tasks, AcquireFails(t)
    PROVE  IInv'
<1>1. TasksOK'
  BY DEF AcquireFails, Answered, IInv, TasksOK, NoRequest, Requests
<1> QED
  BY <1>1, DropAllOK DEF AcquireFails

\* Beginning a transaction for begin_tenant or Pool::begin.
LEMMA BeginStepOK ==
    ASSUME IInv, NEW t \in Tasks, NEW c \in Conns, BeginStep(t, c)
    PROVE  IInv'
<1> DEFINE k == conn[c]
           s == session[c]
           held == [k EXCEPT !.status = "held"]
<1>0. /\ TasksOK /\ NoRequest \in Requests
      /\ k \in Conn /\ s \in Session /\ ConnOK(k, s)
      /\ conn = [conn EXCEPT ![c] = k]
      /\ request[t].tenant \in Bindings
  BY DEF IInv, TasksOK, NoRequest, Requests, Bindings
<1>1. ASSUME Begin(t, c) PROVE IInv'
  <2>1. TasksOK'
    BY <1>0, <1>1 DEF Begin, Answered, TasksOK
  <2>2. k.status \in {"held", "beginning"}
    BY <1>1 DEF Begin, Beginning
  <2>3. ConnOK(k, Open(s)) /\ ConnOK(held, Open(s))
    BY <1>0, <2>2, OpenFacts, UsedOK
  <2>4. session' = [session EXCEPT ![c] = Open(s)]
    BY <1>1 DEF Begin
  <2>5. conn' = [conn EXCEPT ![c] = k] \/ conn' = [conn EXCEPT ![c] = held]
    BY <1>0, <1>1 DEF Begin
  <2> QED
    BY <2>1, <2>3, <2>4, <2>5, OneChanges
<1>2. ASSUME BeginSetsTenant(t, c) PROVE IInv'
  <2>1. TasksOK'
    BY <1>0, <1>2 DEF BeginSetsTenant, Answered, TasksOK
  <2>2. k.status \in {"held", "beginning"} /\ InTx(s)
    BY <1>2 DEF BeginSetsTenant, Beginning
  <2> DEFINE r == SetLocal(s, request[t].tenant)
  <2>3. r \in Session /\ \A b : SetsBind(s, b) => SetsBind(r, b)
    BY <1>0, <2>2, SetLocalFacts
  <2>4. ConnOK(held, r)
    BY <1>0, <2>2, <2>3, UsedOK
  <2>5. session' = [session EXCEPT ![c] = r] /\ conn' = [conn EXCEPT ![c] = held]
    BY <1>2 DEF BeginSetsTenant
  <2> QED
    BY <2>1, <2>4, <2>5, OneChanges
<1>3. ASSUME BeginFails(t, c) PROVE IInv'
  <2>1. TasksOK'
    BY <1>0, <1>3 DEF BeginFails, Answered, TasksOK
  <2> QED
    BY <1>3, <2>1, DropAllOK DEF BeginFails
<1> QED
  BY <1>1, <1>2, <1>3 DEF BeginStep

\* Using a connection: each operation keeps what the session binds.
LEMMA UseStepOK ==
    ASSUME IInv, NEW t \in Tasks, NEW c \in Conns, UseStep(t, c)
    PROVE  IInv'
<1> DEFINE k == conn[c]
           s == session[c]
<1>0. /\ TasksOK /\ k \in Conn /\ s \in Session /\ ConnOK(k, s)
      /\ conn = [conn EXCEPT ![c] = k]
  BY DEF IInv
<1>1. TasksOK'
  BY <1>0 DEF UseStep, OpenTx, StatementFails, set_tenant, CommitTx, RollbackTx,
              EndTx, Drop, TasksOK
<1>2. k.status = "held"
  BY DEF UseStep, OpenTx, StatementFails, set_tenant, CommitTx, RollbackTx,
         EndTx, Drop, Holds
<1>3. ASSUME NEW r \in Session, \A b : SetsBind(s, b) => SetsBind(r, b),
             session' = [session EXCEPT ![c] = r],
             conn' = conn \/ conn' = [conn EXCEPT ![c] = Returning]
      PROVE  IInv'
  <2>1. ConnOK(k, r)
    BY <1>0, <1>2, <1>3, UsedOK
  <2>2. ConnOK(Returning, r)
    BY <1>3, <2>1, ReturningOK DEF ConnOK
  <2> QED
    BY <1>0, <1>1, <1>3, <2>1, <2>2, OneChanges
<1>4. CASE OpenTx(t, c)
  BY <1>0, <1>3, <1>4, OpenFacts DEF OpenTx
<1>5. CASE StatementFails(t, c)
  BY <1>0, <1>3, <1>5, AbortFacts DEF StatementFails
<1>6. ASSUME NEW b \in Tenants, set_tenant(t, c, b) PROVE IInv'
  BY <1>0, <1>3, <1>6, SetLocalFacts DEF set_tenant, Bindings
<1>7. CASE CommitTx(t, c)
  BY <1>0, <1>3, <1>7, CommitFacts DEF CommitTx, EndTx
<1>8. CASE RollbackTx(t, c)
  BY <1>0, <1>3, <1>8, RollbackFacts DEF RollbackTx, EndTx
<1>9. CASE Drop(t, c)
  BY <1>1, <1>9, DropAllOK DEF Drop
<1> QED
  BY <1>4, <1>5, <1>6, <1>7, <1>8, <1>9 DEF UseStep

\* The pool's own steps on a connection of no task.
LEMMA PoolStepOK ==
    ASSUME IInv, NEW c \in Conns, ReturnStep(c) \/ Maintain(c) \/ Reap(c)
    PROVE  IInv'
<1>0. TasksOK /\ session[c] \in Session /\ NeverBound(session[c])
  BY DEF IInv, ConnOK
<1>1. TasksOK'
  BY <1>0 DEF ReturnStep, AfterRelease, AfterReleaseFails, Maintain, Reap, Close,
              TasksOK
<1>2. CASE AfterRelease(c)
  <2> DEFINE s == after_release(RollbackAll(session[c]))
  <2>1. /\ s \in Session /\ ~InTx(s)
        /\ "after_release" \in Hooks => SetsBind(s, NoTenant)
        /\ NeverBound(s)
    BY <1>0, RollbackAllFacts, AfterReleaseUnbinds DEF NeverBound
  <2>2. ConnOK(Idle, s)
    <3> HIDE DEF s
    <3> QED
      BY <2>1, ConnFacts DEF ConnOK, Fresh, OutsideTx, Bound, Unbound
  <2> QED
    BY <1>1, <1>2, <2>2, OneChanges DEF AfterRelease
<1>3. CASE AfterReleaseFails(c) \/ Reap(c)
  BY <1>1, <1>3, ClosedOK, OneChanges DEF AfterReleaseFails, Reap, Close
<1>4. CASE Maintain(c)
  BY <1>1, <1>4, OpenedIdleOK, OneChanges DEF Maintain
<1> QED
  BY <1>2, <1>3, <1>4 DEF ReturnStep

LEMMA StutterOK ==
    ASSUME IInv, UNCHANGED vars
    PROVE  IInv'
BY DEF IInv, TasksOK, vars

\* Every step keeps the invariant.
LEMMA StepOK ==
    IInv /\ [Next]_vars => IInv'
BY TaskStepOK, AcquireFailsOK, AcquireStepOK, BeginStepOK, UseStepOK,
   PoolStepOK, StutterOK DEF Next

-----------------------------------------------------------------------------
(* The theorems.                                                            *)

\* The invariant holds in every state of the pool, whatever its hooks.
THEOREM Invariance == Spec => []IInv
<1> QED
  BY InitOK, StepOK, PTL DEF Spec

\* Every variable stays in its type.
THEOREM TypeCorrect == Spec => []TypeOK
<1>1. IInv => TypeOK
  BY DEF IInv, TasksOK, TypeOK
<1> QED
  BY <1>1, Invariance, PTL

\* With pg-rls's before_acquire and after_connect in force, a connection
\* handed to a task answers, outside a transaction, as the tenant the task was
\* in when it got it, whoever had the connection before.
THEOREM LeaseBindsAlways ==
    ASSUME {"before_acquire", "after_connect"} \subseteq Hooks
    PROVE  Spec => []LeaseBinds
<1>1. IInv => LeaseBinds
  BY DEF IInv, ConnOK, Bound, LeaseBinds, HandedOut, SetsBind
<1> QED
  BY <1>1, Invariance, PTL

\* With before_acquire alone, as when the user's after_connect has replaced
\* pg-rls's, a connection may be unbound but never answers as another tenant.
THEOREM NeverAnotherTenantAlways ==
    ASSUME "before_acquire" \in Hooks
    PROVE  Spec => []NeverAnotherTenant
<1>1. IInv => NeverAnotherTenant
  BY DEF IInv, ConnOK, Bound, NeverAnotherTenant, HandedOut, SetsBind
<1> QED
  BY <1>1, Invariance, PTL

\* With after_release in force, no idle connection is in a transaction, and
\* none is bound to a tenant but those opened in the scope of StartTenant.
THEOREM IdleUnboundAlways ==
    ASSUME "after_release" \in Hooks
    PROVE  Spec => []IdleUnbound
<1>1. IInv => IdleUnbound
  BY ConnFacts DEF IInv, ConnOK, OutsideTx, Unbound, IdleUnbound, Visible, SetsBind
<1> QED
  BY <1>1, Invariance, PTL

\* Without hooks, when begin_tenant and set_tenant are all that is used, idle
\* connections are bound to nobody: SET LOCAL leaves nothing behind.
THEOREM IdleUnboundWithoutHooks ==
    ASSUME Hooks = {}
    PROVE  Spec => []IdleUnbound
<1>1. IInv => IdleUnbound
  BY ConnFacts DEF IInv, ConnOK, OutsideTx, NeverBound, Unhooked, IdleUnbound,
                   Visible, SetsBind
<1> QED
  BY <1>1, Invariance, PTL

\* A connection with an open transaction that stays, or comes to be, in its
\* owner's hands is under the same lease as before.
LEMMA LeaseStays ==
    ASSUME IInv, [Next]_vars, NEW c \in Conns,
           InTx(session[c]), conn'[c].status = "held"
    PROVE  conn'[c].lease = conn[c].lease
<1>0. conn[c] \in Conn /\ conn \in [Conns -> Conn]
  BY DEF IInv
<1>1. conn[c].status \notin {"idle", "checking", "closed", "connecting"}
  BY NewSessionFacts DEF IInv, ConnOK, Fresh, OutsideTx
<1>2. ASSUME NEW S, DropAll(S) PROVE conn'[c] = conn[c]
  <2>1. conn'[c] = (IF c \in S THEN Dropped(conn[c]) ELSE conn[c])
    BY <1>2 DEF DropAll
  <2>2. Dropped(conn[c]).status # "held"
    BY ConnFacts
  <2> QED
    BY <2>1, <2>2
<1>3. ASSUME NEW t \in Tasks, TaskStep(t) PROVE conn'[c] = conn[c]
  BY <1>2, <1>3 DEF TaskStep, tenant_scope, scope_tenant, ScopeEnds,
                    spawn_with_tenant, Spawn, TaskEnds, Acquire
<1>4. ASSUME NEW t \in Tasks, AcquireFails(t) PROVE conn'[c] = conn[c]
  BY <1>2, <1>4 DEF AcquireFails
<1>5. ASSUME NEW t \in Tasks, NEW d \in Conns, AcquireStep(t, d)
      PROVE  conn'[c] = conn[c]
  <2>1. conn[d].status \in {"idle", "checking", "closed", "connecting"}
    BY <1>5, ConnFacts DEF AcquireStep, PopIdle, Connect, BeforeAcquire,
                           BeforeAcquireFails, AfterConnect
  <2>2. c # d
    BY <1>1, <2>1
  <2>3. \E k : conn' = [conn EXCEPT ![d] = k]
    BY <1>5 DEF AcquireStep, PopIdle, Connect, BeforeAcquire,
                BeforeAcquireFails, AfterConnect, HandOver
  <2> QED
    BY <1>0, <2>2, <2>3
<1>6. ASSUME NEW t \in Tasks, NEW d \in Conns, BeginStep(t, d)
      PROVE  conn'[c].lease = conn[c].lease
  <2>1. CASE BeginFails(t, d)
    BY <1>2, <2>1 DEF BeginFails
  <2>2. CASE Begin(t, d) \/ BeginSetsTenant(t, d)
    BY <1>0, <2>2 DEF Begin, BeginSetsTenant, Conn
  <2> QED
    BY <1>6, <2>1, <2>2 DEF BeginStep
<1>7. ASSUME NEW t \in Tasks, NEW d \in Conns, UseStep(t, d)
      PROVE  conn'[c] = conn[c]
  <2>1. CASE Drop(t, d)
    BY <1>2, <2>1 DEF Drop
  <2>2. CASE \E s : EndTx(t, d, s)
    <3>1. conn' = conn \/ conn' = [conn EXCEPT ![d] = Returning]
      BY <2>2 DEF EndTx
    <3> QED
      BY <1>0, <3>1, ConnFacts
  <2>3. CASE UNCHANGED conn
    BY <2>3
  <2> QED
    BY <1>7, <2>1, <2>2, <2>3 DEF UseStep, OpenTx, StatementFails, set_tenant,
                                   CommitTx, RollbackTx
<1>8. ASSUME NEW d \in Conns, ReturnStep(d) \/ Maintain(d) \/ Reap(d)
      PROVE  conn'[c] = conn[c]
  <2>1. conn' = [conn EXCEPT ![d] = Idle] \/ conn' = [conn EXCEPT ![d] = Closed]
    BY <1>8 DEF ReturnStep, AfterRelease, AfterReleaseFails, Maintain, Reap, Close
  <2> QED
    BY <1>0, <2>1, ConnFacts
<1>9. CASE UNCHANGED vars
  BY <1>9 DEF vars
<1> QED
  BY <1>3, <1>4, <1>5, <1>6, <1>7, <1>8, <1>9 DEF Next

\* With before_acquire and after_connect in force, a connection that outlives
\* its last transaction answers again as the tenant of its lease.
THEOREM RestoredAfterTxAlways ==
    ASSUME {"before_acquire", "after_connect"} \subseteq Hooks
    PROVE  Spec => RestoredAfterTx
<1> DEFINE Restored ==
      \A c \in Conns :
         InTx(session[c]) /\ ~InTx(session'[c]) /\ conn'[c].status = "held"
           => Visible(session'[c]) = conn[c].lease
<1>1. ASSUME IInv, IInv', [Next]_vars PROVE Restored
  <2> SUFFICES ASSUME NEW c \in Conns, InTx(session[c]), ~InTx(session'[c]),
                      conn'[c].status = "held"
               PROVE  Visible(session'[c]) = conn[c].lease
    OBVIOUS
  <2>1. conn'[c].lease = conn[c].lease
    BY <1>1, LeaseStays
  <2>2. SetsBind(session'[c], conn'[c].lease)
    BY <1>1 DEF IInv, ConnOK, Bound
  <2> QED
    BY <2>1, <2>2 DEF SetsBind, Visible
<1> QED
  BY <1>1, Invariance, PTL DEF Spec, RestoredAfterTx
==============================================================================
