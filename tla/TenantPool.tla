------------------------------ MODULE TenantPool ------------------------------
(***************************************************************************)
(* Pool-scoped tenant isolation: the TENANT_ID task-local of every task,    *)
(* the three hooks of `with_tenant_hooks` on a sqlx pool, and the explicit  *)
(* transactions of tx.rs on the same connections.                           *)
(*                                                                         *)
(* A task is a chain of async calls with its own task-local; the pool has   *)
(* one slot per connection it may open, and a slot's status says what the   *)
(* connection in it is going through:                                       *)
(*   closed      no connection;                                             *)
(*   idle        in the idle queue;                                         *)
(*   checking    popped for its owner, before_acquire has not run yet;      *)
(*   connecting  just opened for its owner, after_connect has not run yet;  *)
(*   beginning   inside Pool::begin or begin_tenant of its owner;           *)
(*   held        handed out to its owner, who may run queries on it;        *)
(*   returning   dropped by its owner, in the hands of the task that sqlx   *)
(*               spawns to return it.                                       *)
(* The SQL that a hook runs is one step with the hook: until its await is   *)
(* over nobody else has the connection, and a hook that fails or that is    *)
(* cancelled in the middle of it gets the connection closed.                *)
(***************************************************************************)
EXTENDS PgSession

CONSTANTS Tasks, Conns,
          NoTask,
          Hooks,        \* the hooks of pg-rls in force on this pool
          StartTenant,  \* the tenant in scope where the pool was connected
          MaxScope,     \* bound: nesting of scope_tenant
          MaxDepth      \* bound: nesting of transactions and savepoints

AllHooks == {"before_acquire", "after_connect", "after_release"}

ASSUME PoolAssumption ==
    /\ NoTask \notin Tasks
    /\ Hooks \subseteq AllHooks
    /\ StartTenant \in Bindings
    /\ MaxScope \in Nat /\ MaxDepth \in Nat

VARIABLES
    pc,       \* pc[t]: absent, running, or acquiring (awaiting the pool)
    scope,    \* scope[t]: the TENANT_ID scopes t is in, innermost last
    request,  \* request[t]: what t is asking the pool for
    conn,     \* conn[c]: what the pool and its clients know of slot c
    session   \* session[c]: the server's side of the connection in slot c

vars == <<pc, scope, request, conn, session>>

\* pool.acquire() or a query on the pool; pool.begin(); begin_tenant(tenant)
Requests == [via : {"conn"}, tenant : {NoTenant}] \cup [via : {"tx"}, tenant : Bindings]
NoRequest == [via |-> "conn", tenant |-> NoTenant]

(* A connection that is of no task is closed, idle or returning.  handle     *)
(* says whether the owner holds the connection or a transaction that owns   *)
(* it; lease is a history of the owner's tenant when c was handed to it.    *)
Unowned(st) ==
    [status |-> st, owner |-> NoTask, handle |-> "conn", lease |-> NoTenant]
Owned(st, t, h, b) == [status |-> st, owner |-> t, handle |-> h, lease |-> b]

Closed == Unowned("closed")
Idle == Unowned("idle")
Returning == Unowned("returning")

Conn == [status : {"closed", "idle", "checking", "connecting",
                   "beginning", "held", "returning"},
         owner : Tasks \cup {NoTask},
         handle : {"conn", "tx"},
         lease : Bindings]

Current(sc) == IF sc = <<>> THEN NoTenant ELSE sc[Len(sc)]
current_tenant(t) == Current(scope[t])

-----------------------------------------------------------------------------
(* The hooks, as what their SQL does to the session they run on.            *)
\* Wrong: no RESET for a task without a tenant.
apply_tenant_guc_only_sets(s, tenant) ==
    IF tenant # NoTenant THEN SetSession(s, tenant) ELSE s

apply_tenant_guc(s, tenant) ==
    IF tenant # NoTenant THEN SetSession(s, tenant) ELSE Reset(s)

\* Wrong: the `if let` is lost, or the whole mirroring is.
mirror_guc_always(s, tenant) == SetSession(s, tenant)
mirror_guc_never(s, tenant) == s

mirror_guc_if_set(s, tenant) ==
    IF tenant # NoTenant THEN SetSession(s, tenant) ELSE s

before_acquire(s, tenant) ==
    IF "before_acquire" \in Hooks THEN apply_tenant_guc(s, tenant) ELSE s

\* The hook installed by with_tenant_hooks, or the user's own after_connect
\* that calls tenant_after_connect_hook.  Without either, nothing is mirrored.
after_connect(s, tenant) ==
    IF "after_connect" \in Hooks THEN mirror_guc_if_set(s, tenant) ELSE s

after_release(s) == IF "after_release" \in Hooks THEN Reset(s) ELSE s

-----------------------------------------------------------------------------
(* PoolOptions::connect opens the first connections inside its caller, so   *)
(* after_connect sees the caller's tenant, and releases them straight to    *)
(* the idle queue; connect_lazy opens none.                                 *)
Init ==
    /\ pc = [t \in Tasks |-> "absent"]
    /\ scope = [t \in Tasks |-> <<>>]
    /\ request = [t \in Tasks |-> NoRequest]
    /\ \E S \in SUBSET Conns :
         /\ conn = [c \in Conns |-> IF c \in S THEN Idle ELSE Closed]
         /\ session = [c \in Conns |->
              IF c \in S THEN after_connect(NewSession, StartTenant) ELSE NewSession]

-----------------------------------------------------------------------------
(* Tasks and their scopes.                                                  *)

\* tenant_scope: a request arrives, with or without Extension<TenantId>.
tenant_scope(t, extension) ==
    /\ pc[t] = "absent"
    /\ extension # NoTenant => MaxScope > 0
    /\ pc' = [pc EXCEPT ![t] = "running"]
    /\ scope' = [scope EXCEPT
          ![t] = IF extension = NoTenant THEN <<>> ELSE <<extension>>]
    /\ UNCHANGED <<request, conn, session>>

scope_tenant(t, tenant) ==
    /\ pc[t] = "running" /\ Len(scope[t]) < MaxScope
    /\ scope' = [scope EXCEPT ![t] = Append(scope[t], tenant)]
    /\ UNCHANGED <<pc, request, conn, session>>

\* The scoped future is over: what it returns, connections included, lives on.
ScopeEnds(t) ==
    /\ pc[t] = "running" /\ scope[t] # <<>>
    /\ scope' = [scope EXCEPT ![t] = SubSeq(scope[t], 1, Len(scope[t]) - 1)]
    /\ UNCHANGED <<pc, request, conn, session>>

spawn_with_tenant(t, child) ==
    /\ pc[t] = "running" /\ pc[child] = "absent"
    /\ pc' = [pc EXCEPT ![child] = "running"]
    /\ scope' = [scope EXCEPT
          ![child] = IF current_tenant(t) = NoTenant THEN <<>>
                     ELSE <<current_tenant(t)>>]
    /\ UNCHANGED <<request, conn, session>>

\* tokio::spawn: task-locals do not cross it.
Spawn(t, child) ==
    /\ pc[t] = "running" /\ pc[child] = "absent"
    /\ pc' = [pc EXCEPT ![child] = "running"]
    /\ scope' = [scope EXCEPT ![child] = <<>>]
    /\ UNCHANGED <<request, conn, session>>

\* What becomes of a connection whose owner drops it: one that was handed out
\* is given to a spawned task, one still being checked or opened is closed.
Dropped_leaks(k) ==  \* wrong: the slot of a connection being opened is lost
    IF k.status = "connecting" THEN k
    ELSE IF k.status \in {"held", "beginning"} THEN Returning ELSE Closed
Dropped(k) == IF k.status \in {"held", "beginning"} THEN Returning ELSE Closed

\* The connections in S are dropped; the others stay.
DropAll(S) ==
    /\ conn' = [c \in Conns |-> IF c \in S THEN Dropped(conn[c]) ELSE conn[c]]
    /\ session' = [c \in Conns |->
          IF c \in S /\ Dropped(conn[c]) = Closed THEN NewSession ELSE session[c]]

OwnedBy(t) == {c \in Conns : conn[c].owner = t}

\* The task returns, or is cancelled at any await.
TaskEnds(t) ==
    /\ pc[t] # "absent"
    /\ pc' = [pc EXCEPT ![t] = "absent"]
    /\ scope' = [scope EXCEPT ![t] = <<>>]
    /\ request' = [request EXCEPT ![t] = NoRequest]
    /\ DropAll(OwnedBy(t))

-----------------------------------------------------------------------------
(* Acquiring, as sqlx does it around the hooks.                             *)

Acquire(t, r) ==
    /\ pc[t] = "running"
    /\ pc' = [pc EXCEPT ![t] = "acquiring"]
    /\ request' = [request EXCEPT ![t] = r]
    /\ UNCHANGED <<scope, conn, session>>

Waiting(t) == pc[t] = "acquiring" /\ \A c \in OwnedBy(t) : conn[c].status = "held"

PopIdle(t, c) ==
    /\ Waiting(t) /\ conn[c] = Idle
    /\ conn' = [conn EXCEPT ![c] = Owned("checking", t, "conn", NoTenant)]
    /\ UNCHANGED <<pc, scope, request, session>>

\* A connection is opened only when no idle one was there to pop.
Connect(t, c) ==
    /\ Waiting(t) /\ conn[c] = Closed
    /\ \A d \in Conns : conn[d] # Idle
    /\ conn' = [conn EXCEPT ![c] = Owned("connecting", t, "conn", NoTenant)]
    /\ UNCHANGED <<pc, scope, request, session>>

\* t is done asking, with or without what it asked for.
Answered(t) ==
    /\ pc' = [pc EXCEPT ![t] = "running"]
    /\ request' = [request EXCEPT ![t] = NoRequest]

\* The acquisition of t succeeds with connection c.
HandOver(t, c) ==
    /\ IF request[t].via = "conn"
       THEN /\ conn' = [conn EXCEPT ![c] = Owned("held", t, "conn", current_tenant(t))]
            /\ Answered(t)
       ELSE /\ conn' = [conn EXCEPT ![c] = Owned("beginning", t, "tx", current_tenant(t))]
            /\ UNCHANGED <<pc, request>>
    /\ UNCHANGED scope

BeforeAcquire(t, c) ==
    /\ conn[c].status = "checking" /\ conn[c].owner = t
    /\ session' = [session EXCEPT ![c] = before_acquire(session[c], current_tenant(t))]
    /\ HandOver(t, c)

\* The ping or the hook fails: the connection is closed and its slot is used
\* to open another one at once.
BeforeAcquireFails(t, c) ==
    /\ conn[c].status = "checking" /\ conn[c].owner = t
    /\ conn' = [conn EXCEPT ![c] = Owned("connecting", t, "conn", NoTenant)]
    /\ session' = [session EXCEPT ![c] = NewSession]
    /\ UNCHANGED <<pc, scope, request>>

\* When the hook fails sqlx closes the connection and opens another one in
\* the same slot, which is where this connection is: no step of its own.
AfterConnect(t, c) ==
    /\ conn[c].status = "connecting" /\ conn[c].owner = t
    /\ session' = [session EXCEPT ![c] = after_connect(session[c], current_tenant(t))]
    /\ HandOver(t, c)

\* acquire_timeout expires, or connecting fails for good: acquire returns an
\* error and drops the connection it was working on.
AcquireFails_untimed(t) ==  \* wrong: no timeout while the pool is exhausted
    /\ pc[t] = "acquiring"
    /\ \E c \in OwnedBy(t) : conn[c].status \in {"checking", "connecting"}
    /\ Answered(t)
    /\ DropAll({c \in OwnedBy(t) : conn[c].status # "held"})
    /\ UNCHANGED scope
AcquireFails(t) ==
    /\ pc[t] = "acquiring"
    /\ \A c \in OwnedBy(t) : conn[c].status # "beginning"
    /\ Answered(t)
    /\ DropAll({c \in OwnedBy(t) : conn[c].status # "held"})
    /\ UNCHANGED scope

-----------------------------------------------------------------------------
(* begin_tenant: BEGIN, then set_config(.., true), then the transaction is  *)
(* handed out.  Pool::begin stops after the first step.                     *)

Beginning(t, c) == conn[c].status = "beginning" /\ conn[c].owner = t

Begin(t, c) ==
    /\ Beginning(t, c) /\ ~InTx(session[c])
    /\ session' = [session EXCEPT ![c] = Open(session[c])]
    /\ IF request[t].tenant = NoTenant
       THEN conn' = [conn EXCEPT ![c].status = "held"] /\ Answered(t)
       ELSE UNCHANGED <<conn, pc, request>>
    /\ UNCHANGED scope

\* Wrong: session-level, as the hooks set it.
BeginSetsTenant_session(t, c) ==
    /\ Beginning(t, c) /\ InTx(session[c])
    /\ session' = [session EXCEPT ![c] = SetSession(session[c], request[t].tenant)]
    /\ conn' = [conn EXCEPT ![c].status = "held"]
    /\ Answered(t)
    /\ UNCHANGED scope

BeginSetsTenant(t, c) ==
    /\ Beginning(t, c) /\ InTx(session[c])
    /\ session' = [session EXCEPT ![c] = SetLocal(session[c], request[t].tenant)]
    /\ conn' = [conn EXCEPT ![c].status = "held"]
    /\ Answered(t)
    /\ UNCHANGED scope

\* Either statement fails: `?` drops the transaction, and with it c.
BeginFails_ignored(t, c) ==  \* wrong: the transaction is returned anyway
    /\ Beginning(t, c) /\ InTx(session[c])
    /\ conn' = [conn EXCEPT ![c].status = "held"]
    /\ Answered(t)
    /\ UNCHANGED <<scope, session>>
BeginFails(t, c) ==
    /\ Beginning(t, c)
    /\ DropAll({c})
    /\ Answered(t)
    /\ UNCHANGED scope

-----------------------------------------------------------------------------
(* What a task does with a connection it holds.                             *)

Holds(t, c) == pc[t] = "running" /\ conn[c].status = "held" /\ conn[c].owner = t

\* Connection::begin, or Transaction::begin for a savepoint.
OpenTx(t, c) ==
    /\ Holds(t, c) /\ Depth(session[c]) < MaxDepth /\ ~session[c].aborted
    /\ session' = [session EXCEPT ![c] = Open(session[c])]
    /\ UNCHANGED <<pc, scope, request, conn>>

\* Wrong: set_config(.., false).
set_tenant_session(t, c, tenant) ==
    /\ Holds(t, c) /\ InTx(session[c]) /\ ~session[c].aborted
    /\ session' = [session EXCEPT ![c] = SetSession(session[c], tenant)]
    /\ UNCHANGED <<pc, scope, request, conn>>

set_tenant(t, c, tenant) ==
    /\ Holds(t, c) /\ InTx(session[c]) /\ ~session[c].aborted
    /\ session' = [session EXCEPT ![c] = SetLocal(session[c], tenant)]
    /\ UNCHANGED <<pc, scope, request, conn>>

\* A statement of the transaction fails, set_tenant's own included.
StatementFails(t, c) ==
    /\ Holds(t, c) /\ InTx(session[c])
    /\ session' = [session EXCEPT ![c] = Abort(session[c])]
    /\ UNCHANGED <<pc, scope, request, conn>>

\* When a transaction that owns its connection ends, the connection goes back.
EndTx(t, c, s) ==
    /\ Holds(t, c) /\ InTx(session[c])
    /\ session' = [session EXCEPT ![c] = s]
    /\ conn' = IF conn[c].handle = "tx" /\ ~InTx(s)
               THEN [conn EXCEPT ![c] = Returning] ELSE conn
    /\ UNCHANGED <<pc, scope, request>>

CommitTx(t, c) == EndTx(t, c, Commit(session[c]))
RollbackTx(t, c) == EndTx(t, c, Rollback(session[c]))

\* The connection, or the transaction owning it, is dropped; the rollbacks of
\* what was open are queued on it.
Drop(t, c) ==
    /\ Holds(t, c)
    /\ DropAll({c})
    /\ UNCHANGED <<pc, scope, request>>

-----------------------------------------------------------------------------
(* The task that sqlx spawns to return a connection: it has no task-local,  *)
(* and the queued rollbacks reach the server before the hook's statement.   *)

\* Wrong: the hook runs before the queued rollbacks, which never follow.
AfterRelease_unflushed(c) ==
    /\ conn[c] = Returning
    /\ conn' = [conn EXCEPT ![c] = Idle]
    /\ session' = [session EXCEPT ![c] = after_release(session[c])]
    /\ UNCHANGED <<pc, scope, request>>

AfterRelease(c) ==
    /\ conn[c] = Returning
    /\ conn' = [conn EXCEPT ![c] = Idle]
    /\ session' = [session EXCEPT ![c] = after_release(RollbackAll(session[c]))]
    /\ UNCHANGED <<pc, scope, request>>

\* c is closed for good; a connection opened here later is a new session.
Close(c) ==
    /\ conn' = [conn EXCEPT ![c] = Closed]
    /\ session' = [session EXCEPT ![c] = NewSession]
    /\ UNCHANGED <<pc, scope, request>>

\* The hook or the ping after it fails, or the connection is too old.
AfterReleaseFails(c) == conn[c] = Returning /\ Close(c)

\* idle_timeout, max_lifetime: the reaper closes an idle connection.
Reap(c) == conn[c] = Idle /\ Close(c)

\* min_connections: a background task, with no task-local, opens connections.
Maintain(c) ==
    /\ conn[c] = Closed
    /\ conn' = [conn EXCEPT ![c] = Idle]
    /\ session' = [session EXCEPT ![c] = after_connect(NewSession, NoTenant)]
    /\ UNCHANGED <<pc, scope, request>>

-----------------------------------------------------------------------------
TaskStep(t) ==
    \/ \E b \in Bindings : tenant_scope(t, b)
    \/ \E b \in Tenants : scope_tenant(t, b)
    \/ ScopeEnds(t)
    \/ \E u \in Tasks \ {t} : spawn_with_tenant(t, u) \/ Spawn(t, u)
    \/ TaskEnds(t)
    \/ \E r \in Requests : Acquire(t, r)

AcquireStep(t, c) ==
    \/ PopIdle(t, c) \/ Connect(t, c)
    \/ BeforeAcquire(t, c) \/ BeforeAcquireFails(t, c) \/ AfterConnect(t, c)

BeginStep(t, c) == Begin(t, c) \/ BeginSetsTenant(t, c) \/ BeginFails(t, c)

UseStep(t, c) ==
    \/ OpenTx(t, c) \/ StatementFails(t, c)
    \/ \E b \in Tenants : set_tenant(t, c, b)
    \/ CommitTx(t, c) \/ RollbackTx(t, c) \/ Drop(t, c)

ReturnStep(c) == AfterRelease(c) \/ AfterReleaseFails(c)

Next ==
    \/ \E t \in Tasks : TaskStep(t) \/ AcquireFails(t)
    \/ \E t \in Tasks, c \in Conns :
          AcquireStep(t, c) \/ BeginStep(t, c) \/ UseStep(t, c)
    \/ \E c \in Conns : ReturnStep(c) \/ Maintain(c) \/ Reap(c)

Spec == Init /\ [][Next]_vars

(* The server answers or the connection breaks, acquire_timeout expires,    *)
(* and the spawned return task is scheduled: none of them waits for a task. *)
Fairness ==
    /\ \A t \in Tasks : WF_vars(AcquireFails(t))
    /\ \A t \in Tasks, c \in Conns : WF_vars(BeginStep(t, c))
    /\ \A c \in Conns : WF_vars(ReturnStep(c))

FairSpec == Spec /\ Fairness

-----------------------------------------------------------------------------
TypeOK ==
    /\ pc \in [Tasks -> {"absent", "running", "acquiring"}]
    /\ scope \in [Tasks -> Seq(Tenants)]
    /\ request \in [Tasks -> Requests]
    /\ conn \in [Conns -> Conn]
    /\ session \in [Conns -> Session]

HandedOut(c) == conn[c].status \in {"held", "beginning"}

(* Whoever had the connection before, however it was come by (popped,       *)
(* reopened after a failed check, or fresh) and whatever transactions ran   *)
(* on it since: outside a transaction it answers as the tenant its owner    *)
(* was in when it was handed out, and as none if the owner was in none.     *)
(* Holds with before_acquire and after_connect in force (pool.rs:140-162).  *)
LeaseBinds ==
    \A c \in Conns : HandedOut(c) => BindingOf(session[c].base) = conn[c].lease

(* With the user's after_connect in place of pg-rls's (pool.rs:77-85) a     *)
(* fresh connection is not bound, but no connection ever answers as a       *)
(* tenant other than its owner's.                                           *)
NeverAnotherTenant ==
    \A c \in Conns : HandedOut(c) =>
        BindingOf(session[c].base) \in {conn[c].lease, NoTenant}

(* A connection waits in the idle queue outside any transaction and bound   *)
(* to no tenant, whether its last user relied on the hooks, on begin_tenant *)
(* or on both, and whatever was committed, undone, failed or abandoned      *)
(* (pool.rs:133-134, tx.rs:84-87).  The connections that PoolOptions::connect *)
(* opened inside a tenant's scope are the exception: they skip after_release *)
(* once, and carry that tenant.                                             *)
IdleUnbound ==
    \A c \in Conns : conn[c] = Idle =>
        /\ ~InTx(session[c])
        /\ Visible(session[c]) \in {NoTenant, StartTenant}

(* When the last transaction on a connection ends and its owner keeps the   *)
(* connection, queries answer again as the tenant of the lease: SET LOCAL   *)
(* never outlives its transaction (tx.rs:95-98).                            *)
RestoredAfterTx ==
    [][\A c \in Conns :
         InTx(session[c]) /\ ~InTx(session'[c]) /\ conn'[c].status = "held"
           => Visible(session'[c]) = conn[c].lease]_vars

(* Every acquisition is answered, even when every connection is held by     *)
(* tasks that wait for one more.                                            *)
AcquireAnswered ==
    \A t \in Tasks : pc[t] = "acquiring" ~> pc[t] # "acquiring"

(* If no task lasts for ever, no slot of the pool is lost for good, whatever *)
(* failed, timed out or was cancelled while somebody had it.                *)
SlotsRecycled ==
    (\A t \in Tasks : []<>(pc[t] = "absent"))
        => \A c \in Conns : []<>(conn[c] \in {Idle, Closed})

-----------------------------------------------------------------------------
(* What a client sees of c: the tenant it answers as, on the connection     *)
(* itself and in each transaction and savepoint open on it.                 *)
ViewOf(c) ==
    IF conn[c].status # "held" THEN <<>>
    ELSE [i \in 1 .. Depth(session[c]) + 1 |->
            IF i = 1 THEN BindingOf(session[c].base)
            ELSE LevelBinding(session[c].levels[i - 1])]

Isolation == INSTANCE TenantIsolation WITH view <- [c \in Conns |-> ViewOf(c)]

(* The pool with all its hooks implements TenantIsolation: what a client is *)
(* answered as depends on the scope at one moment, the hand-over, on the    *)
(* tenant it asked begin_tenant for, and on its own set_tenant since.       *)
ImplementsIsolation == Isolation!Spec

-----------------------------------------------------------------------------
(* Two readings of the documentation that the code does not bear out.       *)

(* pool.rs:3-4: "Every query made in the scoped async call chain is         *)
(* auto-isolated".  Outside a transaction, a query that a task makes now    *)
(* would answer as the tenant the task is in now.                           *)
QueriesFollowScope ==
    \A t \in Tasks, c \in Conns :
        Holds(t, c) /\ ~InTx(session[c]) => Visible(session[c]) = current_tenant(t)

(* tx.rs:42-43: set_tenant is for when you "need to scope a sub-block to a  *)
(* specific tenant".  When a savepoint ends, the transaction around it      *)
(* answers as it did when the savepoint was opened.                         *)
SavepointScopesTenant ==
    [][\A c \in Conns :
         Depth(session'[c]) = Depth(session[c]) - 1 /\ InTx(session'[c])
           => Visible(session'[c])
                = LevelBinding(session[c].levels[Depth(session[c]) - 1])]_vars
==============================================================================
