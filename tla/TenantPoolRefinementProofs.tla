---------------------- MODULE TenantPoolRefinementProofs ----------------------
(***************************************************************************)
(* TenantPool with pg-rls's before_acquire and after_connect in force       *)
(* implements TenantIsolation: for any tenants, tasks and connections, and  *)
(* any nesting of scopes and transactions.                                  *)
(***************************************************************************)
EXTENDS TenantPoolProofs, SequenceTheorems

-----------------------------------------------------------------------------
(* IInv says of each connection what its session is, by itself.  To map the *)
(* steps of an acquisition one must also know that the task it is for is    *)
(* still waiting, that it waits for one connection at a time, and how far    *)
(* begin_tenant has got: the tenant in scope at the hand-over is then the   *)
(* tenant in scope when the transaction is returned.                        *)

Busy(c) == conn[c].status \in {"checking", "connecting", "beginning"}

AskedFor(c) ==
    Busy(c) => conn[c].owner \in Tasks /\ pc[conn[c].owner] = "acquiring"

OneAtATime ==
    \A c, d \in Conns :
        Busy(c) /\ Busy(d) /\ conn[c].owner = conn[d].owner => c = d

HalfBegun(c) ==
    conn[c].status = "beginning" =>
        LET t == conn[c].owner
            s == session[c]
        IN  /\ request[t].via = "tx"
            /\ conn[c].lease = current_tenant(t)
            /\ InTx(s) => /\ request[t].tenant # NoTenant
                          /\ Len(s.levels) = 1 /\ s.levels[1].loc = NoTenant

NoScopeWhenAbsent == \A t \in Tasks : pc[t] = "absent" => scope[t] = <<>>

RInv ==
    /\ NoScopeWhenAbsent
    /\ OneAtATime
    /\ \A c \in Conns : AskedFor(c) /\ HalfBegun(c)

-----------------------------------------------------------------------------
\* Nothing is asked of a connection that is not busy.
LEMMA NotBusyOK ==
    ASSUME NEW c \in Conns, conn'[c].status \notin {"checking", "connecting", "beginning"}
    PROVE  ~Busy(c)' /\ AskedFor(c)' /\ HalfBegun(c)'
BY DEF Busy, AskedFor, HalfBegun

\* No connection becomes busy, none changes its owner.
LEMMA StillOneAtATime ==
    ASSUME RInv, \A d \in Conns : Busy(d)' => Busy(d) /\ conn'[d].owner = conn[d].owner
    PROVE  OneAtATime'
BY DEF RInv, OneAtATime

\* Only the tasks in A and the connections in C change, and no connection
\* outside C is busy for a task in A.
LEMMA RChange ==
    ASSUME RInv, NEW A, NEW C, NoScopeWhenAbsent', OneAtATime',
           \A u \in Tasks \ A :
              pc'[u] = pc[u] /\ scope'[u] = scope[u] /\ request'[u] = request[u],
           \A d \in Conns \ C :
              /\ conn'[d] = conn[d] /\ session'[d] = session[d]
              /\ Busy(d) => conn[d].owner \notin A,
           \A d \in C : AskedFor(d)' /\ HalfBegun(d)'
    PROVE  RInv'
<1> SUFFICES ASSUME NEW d \in Conns \ C
             PROVE  AskedFor(d)' /\ HalfBegun(d)'
  BY DEF RInv
<1>1. conn'[d] = conn[d] /\ session'[d] = session[d]
  OBVIOUS
<1>2. CASE ~Busy(d)
  BY <1>1, <1>2, NotBusyOK DEF Busy
<1>3. CASE Busy(d)
  <2> DEFINE o == conn[d].owner
  <2>1. AskedFor(d) /\ HalfBegun(d)
    BY DEF RInv
  <2>2. o \in Tasks \ A /\ pc[o] = "acquiring"
    BY <1>3, <2>1 DEF AskedFor
  <2>3. pc'[o] = pc[o] /\ scope'[o] = scope[o] /\ request'[o] = request[o]
    BY <2>2
  <2>4. AskedFor(d)'
    BY <1>1, <2>2, <2>3 DEF AskedFor
  <2>5. HalfBegun(d)'
    BY <1>1, <2>1, <2>3 DEF HalfBegun, current_tenant
  <2> QED
    BY <2>4, <2>5
<1> QED
  BY <1>2, <1>3

\* Only tasks that are not acquiring change.
LEMMA RTasksChange ==
    ASSUME RInv, NEW A, NoScopeWhenAbsent',
           \A u \in Tasks \ A :
              pc'[u] = pc[u] /\ scope'[u] = scope[u] /\ request'[u] = request[u],
           \A u \in A : pc[u] # "acquiring",
           UNCHANGED <<conn, session>>
    PROVE  RInv'
<1>1. OneAtATime'
  BY StillOneAtATime DEF Busy
<1>2. \A d \in Conns : Busy(d) => conn[d].owner \notin A
  BY DEF RInv, AskedFor
<1> DEFINE C == {}
<1>3. /\ \A d \in Conns \ C :
              /\ conn'[d] = conn[d] /\ session'[d] = session[d]
              /\ Busy(d) => conn[d].owner \notin A
      /\ \A d \in C : AskedFor(d)' /\ HalfBegun(d)'
  BY <1>2
<1> HIDE DEF C
<1> QED
  BY <1>1, <1>3, RChange

\* What t has is dropped, all of it or all that is not in its hands.
LEMMA RDropAll ==
    ASSUME RInv, NEW A, NEW S, DropAll(S), NoScopeWhenAbsent',
           \A u \in Tasks \ A :
              pc'[u] = pc[u] /\ scope'[u] = scope[u] /\ request'[u] = request[u],
           \A d \in Conns \ S : Busy(d) => conn[d].owner \notin A
    PROVE  RInv'
<1>1. \A d \in Conns \ S : conn'[d] = conn[d] /\ session'[d] = session[d]
  BY DEF DropAll
<1>2. \A d \in S \cap Conns : ~Busy(d)' /\ AskedFor(d)' /\ HalfBegun(d)'
  <2> SUFFICES ASSUME NEW d \in S \cap Conns
               PROVE  ~Busy(d)' /\ AskedFor(d)' /\ HalfBegun(d)'
    OBVIOUS
  <2>1. conn'[d] \in {Closed, Returning}
    BY ConnFacts DEF DropAll
  <2>2. conn'[d].status \notin {"checking", "connecting", "beginning"}
    BY <2>1, ConnFacts
  <2> QED
    BY <2>2, NotBusyOK
<1>3. OneAtATime'
  <2>1. \A d \in Conns : Busy(d)' => Busy(d) /\ conn'[d].owner = conn[d].owner
    BY <1>1, <1>2 DEF Busy
  <2> QED
    BY <2>1, StillOneAtATime
<1> DEFINE C == S \cap Conns
<1>4. /\ \A d \in Conns \ C :
              /\ conn'[d] = conn[d] /\ session'[d] = session[d]
              /\ Busy(d) => conn[d].owner \notin A
      /\ \A d \in C : AskedFor(d)' /\ HalfBegun(d)'
  BY <1>1, <1>2
<1> HIDE DEF C
<1> QED
  BY <1>3, <1>4, RChange

-----------------------------------------------------------------------------
\* Nobody has asked for anything yet.
LEMMA RInitOK ==
    Init => RInv
<1> SUFFICES ASSUME Init PROVE RInv
  OBVIOUS
<1>1. \A c \in Conns : conn[c] \in {Idle, Closed}
  BY DEF Init
<1>2. \A c \in Conns : ~Busy(c) /\ conn[c].status # "beginning"
  BY <1>1, ConnFacts DEF Busy
<1>3. NoScopeWhenAbsent
  BY DEF Init, NoScopeWhenAbsent
<1> QED
  BY <1>2, <1>3 DEF RInv, OneAtATime, AskedFor, HalfBegun

\* A task acts for itself: on its scopes, by asking, or by giving up all it has.
LEMMA RTaskStepOK ==
    ASSUME IInv, RInv, NEW t \in Tasks, TaskStep(t)
    PROVE  RInv'
<1>0. /\ pc \in [Tasks -> {"absent", "running", "acquiring"}]
      /\ scope \in [Tasks -> Seq(Tenants)] /\ request \in [Tasks -> Requests]
      /\ NoScopeWhenAbsent
  BY DEF IInv, TasksOK, RInv
<1>1. ASSUME NEW u \in Tasks, NEW sc, pc[u] = "absent",
             pc' = [pc EXCEPT ![u] = "running"],
             scope' = [scope EXCEPT ![u] = sc],
             UNCHANGED <<request, conn, session>>
      PROVE  RInv'
  <2>1. NoScopeWhenAbsent'
    BY <1>0, <1>1 DEF NoScopeWhenAbsent
  <2> DEFINE A == {u}
  <2>2. /\ \A v \in Tasks \ A :
             pc'[v] = pc[v] /\ scope'[v] = scope[v] /\ request'[v] = request[v]
        /\ \A v \in A : pc[v] # "acquiring"
    BY <1>0, <1>1
  <2> HIDE DEF A
  <2> QED
    BY <1>1, <2>1, <2>2, RTasksChange
<1>2. ASSUME NEW sc, pc[t] = "running", scope' = [scope EXCEPT ![t] = sc],
             UNCHANGED <<pc, request, conn, session>>
      PROVE  RInv'
  <2>1. NoScopeWhenAbsent'
    BY <1>0, <1>2 DEF NoScopeWhenAbsent
  <2> DEFINE A == {t}
  <2>2. /\ \A v \in Tasks \ A :
             pc'[v] = pc[v] /\ scope'[v] = scope[v] /\ request'[v] = request[v]
        /\ \A v \in A : pc[v] # "acquiring"
    BY <1>0, <1>2
  <2> HIDE DEF A
  <2> QED
    BY <1>2, <2>1, <2>2, RTasksChange
<1>3. ASSUME NEW b \in Bindings, tenant_scope(t, b) PROVE RInv'
  BY <1>1, <1>3 DEF tenant_scope
<1>4. ASSUME NEW b \in Tenants, scope_tenant(t, b) PROVE RInv'
  BY <1>2, <1>4 DEF scope_tenant
<1>5. ASSUME ScopeEnds(t) PROVE RInv'
  BY <1>2, <1>5 DEF ScopeEnds
<1>6. ASSUME NEW u \in Tasks, spawn_with_tenant(t, u) PROVE RInv'
  BY <1>1, <1>6 DEF spawn_with_tenant
<1>7. ASSUME NEW u \in Tasks, Spawn(t, u) PROVE RInv'
  BY <1>1, <1>7 DEF Spawn
<1>8. ASSUME TaskEnds(t) PROVE RInv'
  <2>1. NoScopeWhenAbsent'
    BY <1>0, <1>8 DEF TaskEnds, NoScopeWhenAbsent
  <2> DEFINE A == {t}
             S == OwnedBy(t)
  <2>2. /\ \A v \in Tasks \ A :
             pc'[v] = pc[v] /\ scope'[v] = scope[v] /\ request'[v] = request[v]
        /\ \A d \in Conns \ S : Busy(d) => conn[d].owner \notin A
        /\ DropAll(S)
    BY <1>0, <1>8 DEF TaskEnds, OwnedBy
  <2> HIDE DEF A, S
  <2> QED
    BY <2>1, <2>2, RDropAll
<1>9. ASSUME NEW r \in Requests, Acquire(t, r) PROVE RInv'
  <2>1. NoScopeWhenAbsent'
    BY <1>0, <1>9 DEF Acquire, NoScopeWhenAbsent
  <2> DEFINE A == {t}
  <2>2. /\ \A v \in Tasks \ A :
             pc'[v] = pc[v] /\ scope'[v] = scope[v] /\ request'[v] = request[v]
        /\ \A v \in A : pc[v] # "acquiring"
    BY <1>0, <1>9 DEF Acquire
  <2> HIDE DEF A
  <2> QED
    BY <1>9, <2>1, <2>2, RTasksChange DEF Acquire
<1> QED
  BY <1>3, <1>4, <1>5, <1>6, <1>7, <1>8, <1>9 DEF TaskStep

\* An acquisition that fails takes what was being acquired with it.
LEMMA RAcquireFailsOK ==
    ASSUME IInv, RInv, NEW t \in Tasks, AcquireFails(t)
    PROVE  RInv'
<1>0. pc \in [Tasks -> {"absent", "running", "acquiring"}]
      /\ request \in [Tasks -> Requests] /\ NoScopeWhenAbsent
  BY DEF IInv, TasksOK, RInv
<1>1. NoScopeWhenAbsent'
  BY <1>0 DEF AcquireFails, Answered, NoScopeWhenAbsent
<1> DEFINE A == {t}
           S == {c \in OwnedBy(t) : conn[c].status # "held"}
<1>2. /\ \A v \in Tasks \ A :
           pc'[v] = pc[v] /\ scope'[v] = scope[v] /\ request'[v] = request[v]
      /\ \A d \in Conns \ S : Busy(d) => conn[d].owner \notin A
      /\ DropAll(S)
  BY <1>0 DEF AcquireFails, Answered, OwnedBy, Busy
<1> HIDE DEF A, S
<1> QED
  BY <1>1, <1>2, RDropAll

\* Connection c changes, for a task in A if it was busy, and is not busy now.
LEMMA ROneRests ==
    ASSUME IInv, RInv, NEW A, NEW c \in Conns, NEW k,
           k.status \notin {"checking", "connecting", "beginning"},
           conn' = [conn EXCEPT ![c] = k],
           \A d \in Conns \ {c} : session'[d] = session[d],
           \A d \in Conns \ {c} : Busy(d) => conn[d].owner \notin A,
           NoScopeWhenAbsent',
           \A u \in Tasks \ A :
              pc'[u] = pc[u] /\ scope'[u] = scope[u] /\ request'[u] = request[u]
    PROVE  RInv'
<1>1. conn'[c] = k /\ \A d \in Conns \ {c} : conn'[d] = conn[d]
  BY DEF IInv
<1>2. ~Busy(c)' /\ AskedFor(c)' /\ HalfBegun(c)'
  BY <1>1, NotBusyOK
<1>3. OneAtATime'
  <2>1. \A d \in Conns : Busy(d)' => Busy(d) /\ conn'[d].owner = conn[d].owner
    BY <1>1, <1>2 DEF Busy
  <2> QED
    BY <2>1, StillOneAtATime
<1> DEFINE C == {c}
<1>4. /\ \A d \in Conns \ C :
              /\ conn'[d] = conn[d] /\ session'[d] = session[d]
              /\ Busy(d) => conn[d].owner \notin A
      /\ \A d \in C : AskedFor(d)' /\ HalfBegun(d)'
  BY <1>1, <1>2
<1> HIDE DEF C
<1> QED
  BY <1>3, <1>4, RChange

\* Connection c is busy for t, no other is, and no task changes.
LEMMA ROneIsBusy ==
    ASSUME IInv, RInv, NEW t \in Tasks, NEW c \in Conns, NEW k,
           conn' = [conn EXCEPT ![c] = k], k.owner = t,
           \A d \in Conns \ {c} : session'[d] = session[d],
           \A d \in Conns \ {c} : Busy(d) => conn[d].owner # t,
           pc[t] = "acquiring", UNCHANGED <<pc, scope, request>>,
           HalfBegun(c)'
    PROVE  RInv'
<1>1. conn'[c] = k /\ \A d \in Conns \ {c} : conn'[d] = conn[d]
  BY DEF IInv
<1>2. AskedFor(c)'
  BY <1>1 DEF AskedFor
<1>3. OneAtATime'
  <2> SUFFICES ASSUME NEW d \in Conns, NEW e \in Conns, Busy(d)', Busy(e)',
                      conn'[d].owner = conn'[e].owner
               PROVE  d = e
    BY DEF OneAtATime
  <2>1. CASE d # c /\ e # c
    BY <1>1, <2>1 DEF RInv, OneAtATime, Busy
  <2>2. CASE d = c /\ e # c
    BY <1>1, <2>2 DEF Busy
  <2>3. CASE d # c /\ e = c
    BY <1>1, <2>3 DEF Busy
  <2> QED
    BY <2>1, <2>2, <2>3
<1>4. NoScopeWhenAbsent'
  BY DEF RInv, NoScopeWhenAbsent
<1> DEFINE A == {}
           C == {c}
<1>5. /\ \A u \in Tasks \ A :
              pc'[u] = pc[u] /\ scope'[u] = scope[u] /\ request'[u] = request[u]
      /\ \A d \in Conns \ C :
              /\ conn'[d] = conn[d] /\ session'[d] = session[d]
              /\ Busy(d) => conn[d].owner \notin A
      /\ \A d \in C : AskedFor(d)' /\ HalfBegun(d)'
  BY <1>1, <1>2
<1> HIDE DEF A, C
<1> QED
  BY <1>3, <1>4, <1>5, RChange

\* What t asked for is there, or it has been told that it will not be.
LEMMA AnsweredOK ==
    ASSUME IInv, RInv, NEW t \in Tasks, Answered(t), UNCHANGED scope
    PROVE  /\ NoScopeWhenAbsent'
           /\ \A u \in Tasks \ {t} :
                 pc'[u] = pc[u] /\ scope'[u] = scope[u] /\ request'[u] = request[u]
<1>1. pc \in [Tasks -> {"absent", "running", "acquiring"}]
      /\ request \in [Tasks -> Requests] /\ NoScopeWhenAbsent
  BY DEF IInv, TasksOK, RInv
<1> QED
  BY <1>1 DEF Answered, NoScopeWhenAbsent

\* The connection that is busy for t is the only one.
LEMMA OnlyBusy ==
    ASSUME RInv, NEW t \in Tasks, NEW c \in Conns, Busy(c), conn[c].owner = t
    PROVE  /\ pc[t] = "acquiring"
           /\ \A d \in Conns \ {c} : Busy(d) => conn[d].owner # t
           /\ \A d \in Conns \ {c} : Busy(d) => conn[d].owner \notin {t}
BY DEF RInv, OneAtATime, AskedFor

\* Connection c, which was busy for t, rests now, and t is answered.
LEMMA RAnswered ==
    ASSUME IInv, RInv, NEW t \in Tasks, NEW c \in Conns, NEW k,
           Busy(c), conn[c].owner = t,
           k.status \notin {"checking", "connecting", "beginning"},
           conn' = [conn EXCEPT ![c] = k], Answered(t), UNCHANGED scope,
           \A d \in Conns \ {c} : session'[d] = session[d]
    PROVE  RInv'
<1> DEFINE A == {t}
<1>1. /\ NoScopeWhenAbsent'
      /\ \A u \in Tasks \ A :
            pc'[u] = pc[u] /\ scope'[u] = scope[u] /\ request'[u] = request[u]
      /\ \A d \in Conns \ {c} : Busy(d) => conn[d].owner \notin A
  BY AnsweredOK, OnlyBusy
<1> HIDE DEF A
<1> QED
  BY <1>1, ROneRests

\* The fields of a connection that belongs to a task.
LEMMA OwnedFacts ==
    ASSUME NEW st, NEW t, NEW h, NEW b
    PROVE  /\ Owned(st, t, h, b).status = st /\ Owned(st, t, h, b).owner = t
           /\ Owned(st, t, h, b).handle = h /\ Owned(st, t, h, b).lease = b
BY DEF Owned

\* The hand-over, with the session s that the hook leaves.
LEMMA RHandOverOK ==
    ASSUME IInv, RInv, NEW t \in Tasks, NEW c \in Conns, NEW s,
           Busy(c), conn[c].owner = t, ~InTx(s),
           HandOver(t, c), session' = [session EXCEPT ![c] = s]
    PROVE  RInv'
<1>0. /\ request[t] \in Requests
      /\ session'[c] = s /\ \A d \in Conns \ {c} : session'[d] = session[d]
  BY DEF IInv, TasksOK
<1> DEFINE held == Owned("held", t, "conn", current_tenant(t))
           beginning == Owned("beginning", t, "tx", current_tenant(t))
<1>1. CASE request[t].via = "conn"
  <2>1. conn' = [conn EXCEPT ![c] = held] /\ Answered(t) /\ UNCHANGED scope
    BY <1>1 DEF HandOver
  <2>2. held.status \notin {"checking", "connecting", "beginning"}
    BY OwnedFacts
  <2> HIDE DEF held
  <2> QED
    BY <1>0, <2>1, <2>2, RAnswered
<1>2. CASE request[t].via # "conn"
  <2>1. conn' = [conn EXCEPT ![c] = beginning] /\ UNCHANGED <<pc, scope, request>>
    BY <1>2 DEF HandOver
  <2>2. /\ beginning.owner = t /\ beginning.status = "beginning"
        /\ beginning.lease = current_tenant(t)
    BY OwnedFacts
  <2>3. request[t].via = "tx"
    BY <1>0, <1>2 DEF Requests
  <2>4. HalfBegun(c)'
    <3> HIDE DEF beginning
    <3>1. conn'[c] = beginning
      BY <2>1 DEF IInv
    <3> QED
      BY <1>0, <2>1, <2>2, <2>3, <3>1 DEF HalfBegun, current_tenant
  <2> HIDE DEF beginning
  <2> QED
    BY <1>0, <2>1, <2>2, <2>4, OnlyBusy, ROneIsBusy
<1> QED
  BY <1>1, <1>2

\* sqlx's steps of an acquisition: check or connect, run the hook, hand over.
LEMMA RAcquireStepOK ==
    ASSUME IInv, RInv, NEW t \in Tasks, NEW c \in Conns, AcquireStep(t, c)
    PROVE  RInv'
<1>0. /\ conn \in [Conns -> Conn] /\ session \in [Conns -> Session]
      /\ session[c] \in Session /\ ConnOK(conn[c], session[c])
      /\ current_tenant(t) \in Bindings
  BY CurrentFacts DEF IInv, TasksOK, current_tenant
<1>1. ASSUME NEW st \in {"checking", "connecting"}, pc[t] = "acquiring",
             conn' = [conn EXCEPT ![c] = Owned(st, t, "conn", NoTenant)],
             UNCHANGED <<pc, scope, request>>,
             \A d \in Conns \ {c} : session'[d] = session[d],
             \A d \in Conns \ {c} : Busy(d) => conn[d].owner # t
      PROVE  RInv'
  <2> DEFINE k == Owned(st, t, "conn", NoTenant)
  <2>1. k.owner = t /\ k.status # "beginning"
    BY OwnedFacts
  <2> HIDE DEF k
  <2>2. HalfBegun(c)'
    BY <1>0, <1>1, <2>1 DEF HalfBegun, k
  <2> QED
    BY <1>1, <2>1, <2>2, ROneIsBusy DEF k
<1>2. ASSUME Waiting(t) PROVE /\ pc[t] = "acquiring"
                              /\ \A d \in Conns : Busy(d) => conn[d].owner # t
  BY <1>2 DEF Waiting, OwnedBy, Busy
<1>3. CASE PopIdle(t, c)
  BY <1>1, <1>2, <1>3 DEF PopIdle
<1>4. CASE Connect(t, c)
  BY <1>1, <1>2, <1>4 DEF Connect
<1>5. CASE BeforeAcquireFails(t, c)
  <2>1. Busy(c) /\ conn[c].owner = t
    BY <1>5 DEF BeforeAcquireFails, Busy
  <2>2. \A d \in Conns \ {c} : session'[d] = session[d]
    BY <1>0, <1>5 DEF BeforeAcquireFails
  <2> QED
    BY <1>1, <1>5, <2>1, <2>2, OnlyBusy DEF BeforeAcquireFails
<1>6. CASE BeforeAcquire(t, c)
  <2> DEFINE s == before_acquire(session[c], current_tenant(t))
  <2>1. Busy(c) /\ conn[c].owner = t /\ ~InTx(session[c])
    BY <1>0, <1>6 DEF BeforeAcquire, Busy, ConnOK, OutsideTx
  <2>2. ~InTx(s)
    BY <1>0, <2>1, BeforeAcquireBinds
  <2> QED
    BY <1>6, <2>1, <2>2, RHandOverOK DEF BeforeAcquire
<1>7. CASE AfterConnect(t, c)
  <2> DEFINE s == after_connect(session[c], current_tenant(t))
  <2>1. Busy(c) /\ conn[c].owner = t /\ session[c] = NewSession
    BY <1>0, <1>7 DEF AfterConnect, Busy, ConnOK, Fresh
  <2>2. ~InTx(s)
    BY <1>0, <2>1, AfterConnectBinds
  <2> QED
    BY <1>7, <2>1, <2>2, RHandOverOK DEF AfterConnect
<1> QED
  BY <1>3, <1>4, <1>5, <1>6, <1>7 DEF AcquireStep

\* begin_tenant: BEGIN, then set_config, then the transaction is returned.
LEMMA RBeginStepOK ==
    ASSUME IInv, RInv, NEW t \in Tasks, NEW c \in Conns, BeginStep(t, c)
    PROVE  RInv'
<1> DEFINE k == conn[c]
           s == session[c]
           held == [k EXCEPT !.status = "held"]
<1>0. /\ conn \in [Conns -> Conn] /\ session \in [Conns -> Session]
      /\ k \in Conn /\ s \in Session /\ HalfBegun(c)
  BY DEF IInv, RInv
<1>1. k.status = "beginning" /\ k.owner = t /\ Busy(c)
  BY DEF BeginStep, Begin, BeginSetsTenant, BeginFails, Beginning, Busy
<1>2. held.status \notin {"checking", "connecting", "beginning"}
  BY <1>0 DEF Conn
<1>3. ASSUME conn' = [conn EXCEPT ![c] = held], Answered(t), UNCHANGED scope,
             \A d \in Conns \ {c} : session'[d] = session[d]
      PROVE  RInv'
  <2> HIDE DEF held
  <2> QED
    BY <1>1, <1>2, <1>3, RAnswered
<1>4. ASSUME Begin(t, c) PROVE RInv'
  <2>1. \A d \in Conns \ {c} : session'[d] = session[d]
    BY <1>0, <1>4 DEF Begin
  <2>2. CASE request[t].tenant = NoTenant
    BY <1>3, <1>4, <2>1, <2>2 DEF Begin
  <2>3. CASE request[t].tenant # NoTenant
    <3>1. UNCHANGED <<pc, scope, request, conn>> /\ session'[c] = Open(s) /\ ~InTx(s)
      BY <1>0, <1>4, <2>3 DEF Begin
    <3>2. /\ Len(Open(s).levels) = 1
          /\ Open(s).levels[1].loc = NoTenant
      <4>1. s.levels = <<>>
        BY <3>1 DEF InTx
      <4>2. Open(s).levels = Append(<<>>, [set |-> s.base, loc |-> NoTenant])
        BY <1>0, <3>1, <4>1 DEF Open, Session
      <4> QED
        BY <4>2
    <3>3. HalfBegun(c)'
      BY <1>0, <1>1, <2>3, <3>1, <3>2 DEF HalfBegun, current_tenant
    <3>4. conn' = [conn EXCEPT ![c] = k]
      BY <1>0, <3>1
    <3> HIDE DEF k
    <3> QED
      BY <1>1, <2>1, <3>1, <3>3, <3>4, OnlyBusy, ROneIsBusy DEF k
  <2> QED
    BY <2>2, <2>3
<1>5. ASSUME BeginSetsTenant(t, c) PROVE RInv'
  <2>1. \A d \in Conns \ {c} : session'[d] = session[d]
    BY <1>0, <1>5 DEF BeginSetsTenant
  <2> QED
    BY <1>3, <1>5, <2>1 DEF BeginSetsTenant
<1>6. ASSUME BeginFails(t, c) PROVE RInv'
  <2> DEFINE A == {t}
             S == {c}
  <2>1. /\ DropAll(S) /\ NoScopeWhenAbsent'
        /\ \A u \in Tasks \ A :
              pc'[u] = pc[u] /\ scope'[u] = scope[u] /\ request'[u] = request[u]
        /\ \A d \in Conns \ S : Busy(d) => conn[d].owner \notin A
    BY <1>1, <1>6, AnsweredOK, OnlyBusy DEF BeginFails
  <2> HIDE DEF A, S
  <2> QED
    BY <2>1, RDropAll
<1> QED
  BY <1>4, <1>5, <1>6 DEF BeginStep

\* No task changes, nor any connection but c, which is not busy.
LEMMA ROneUsed ==
    ASSUME IInv, RInv, NEW c \in Conns, NEW k,
           k.status \notin {"checking", "connecting", "beginning"},
           conn' = [conn EXCEPT ![c] = k],
           \A d \in Conns \ {c} : session'[d] = session[d],
           UNCHANGED <<pc, scope, request>>
    PROVE  RInv'
<1> DEFINE A == {}
<1>1. /\ \A u \in Tasks \ A :
            pc'[u] = pc[u] /\ scope'[u] = scope[u] /\ request'[u] = request[u]
      /\ \A d \in Conns \ {c} : Busy(d) => conn[d].owner \notin A
      /\ NoScopeWhenAbsent'
  BY DEF RInv, NoScopeWhenAbsent
<1> HIDE DEF A
<1> QED
  BY <1>1, ROneRests

\* A client uses what is in its hands, where nothing is asked for any more.
LEMMA RUseStepOK ==
    ASSUME IInv, RInv, NEW t \in Tasks, NEW c \in Conns, UseStep(t, c)
    PROVE  RInv'
<1>0. conn \in [Conns -> Conn] /\ session \in [Conns -> Session]
  BY DEF IInv
<1>1. conn[c].status = "held"
  BY DEF UseStep, OpenTx, StatementFails, set_tenant, CommitTx, RollbackTx,
         EndTx, Drop, Holds
<1>2. UNCHANGED <<pc, scope, request>>
  BY DEF UseStep, OpenTx, StatementFails, set_tenant, CommitTx, RollbackTx,
         EndTx, Drop
<1>3. CASE Drop(t, c)
  <2> DEFINE S == {c}
             A == {}
  <2>1. /\ DropAll(S) /\ NoScopeWhenAbsent'
        /\ \A u \in Tasks \ A :
              pc'[u] = pc[u] /\ scope'[u] = scope[u] /\ request'[u] = request[u]
        /\ \A d \in Conns \ S : Busy(d) => conn[d].owner \notin A
    BY <1>2, <1>3 DEF Drop, RInv, NoScopeWhenAbsent
  <2> HIDE DEF A, S
  <2> QED
    BY <2>1, RDropAll
<1>4. CASE ~Drop(t, c)
  <2>1. \A d \in Conns \ {c} : session'[d] = session[d]
    BY <1>0, <1>4 DEF UseStep, OpenTx, StatementFails, set_tenant, CommitTx,
                      RollbackTx, EndTx
  <2>2. conn' = [conn EXCEPT ![c] = conn[c]] \/ conn' = [conn EXCEPT ![c] = Returning]
    BY <1>0, <1>4 DEF UseStep, OpenTx, StatementFails, set_tenant, CommitTx,
                      RollbackTx, EndTx
  <2> QED
    BY <1>1, <1>2, <2>1, <2>2, ConnFacts, ROneUsed
<1> QED
  BY <1>3, <1>4

\* A connection that goes back, or is lost, is not asked for.
LEMMA RPoolStepOK ==
    ASSUME IInv, RInv, NEW c \in Conns, ReturnStep(c) \/ Maintain(c) \/ Reap(c)
    PROVE  RInv'
<1>1. /\ conn' = [conn EXCEPT ![c] = Idle] \/ conn' = [conn EXCEPT ![c] = Closed]
      /\ UNCHANGED <<pc, scope, request>>
  BY DEF ReturnStep, AfterRelease, AfterReleaseFails, Maintain, Reap, Close
<1>2. \A d \in Conns \ {c} : session'[d] = session[d]
  BY DEF ReturnStep, AfterRelease, AfterReleaseFails, Maintain, Reap, Close, IInv
<1> QED
  BY <1>1, <1>2, ConnFacts, ROneUsed

\* Every step of the pool preserves RInv.
LEMMA RStepOK ==
    IInv /\ RInv /\ [Next]_vars => RInv'
<1>1. ASSUME RInv, UNCHANGED vars PROVE RInv'
  BY <1>1 DEF RInv, NoScopeWhenAbsent, OneAtATime, AskedFor, HalfBegun, Busy,
              current_tenant, vars
<1> QED
  BY <1>1, RTaskStepOK, RAcquireFailsOK, RAcquireStepOK, RBeginStepOK, RUseStepOK,
     RPoolStepOK DEF Next

-----------------------------------------------------------------------------
(* The actions of TenantIsolation, as what they do to the view.             *)

Views == [c \in Conns |-> ViewOf(c)]

\* The views are a function on the connections, a stack for each that is held.
LEMMA ViewFacts ==
    /\ \A c \in Conns :
         Views[c] = IF conn[c].status = "held" THEN Stack(session[c]) ELSE <<>>
    /\ DOMAIN Views = Conns
BY DEF Views, ViewOf, Stack

\* Connection c changes, and its view with it.
LEMMA OneView ==
    ASSUME IInv, NEW c \in Conns, NEW k, NEW s,
           conn' = [conn EXCEPT ![c] = k], session' = [session EXCEPT ![c] = s]
    PROVE  Views' = [Views EXCEPT ![c] = IF k.status = "held" THEN Stack(s) ELSE <<>>]
<1>1. /\ conn'[c] = k /\ session'[c] = s
      /\ \A d \in Conns \ {c} : conn'[d] = conn[d] /\ session'[d] = session[d]
  BY DEF IInv
<1>2. ASSUME NEW d \in Conns
      PROVE  ViewOf(d)' = IF d = c THEN IF k.status = "held" THEN Stack(s) ELSE <<>>
                          ELSE ViewOf(d)
  <2>1. ViewOf(d)' = IF conn'[d].status = "held" THEN Stack(session'[d]) ELSE <<>>
    <3>1. CASE conn'[d].status = "held"
      BY <3>1 DEF ViewOf, Stack, Depth, BindingOf, LevelBinding
    <3>2. CASE conn'[d].status # "held"
      BY <3>2 DEF ViewOf
    <3> QED
      BY <3>1, <3>2
  <2>2. CASE d = c
    BY <1>1, <2>1, <2>2
  <2>3. CASE d # c
    BY <1>1, <2>3 DEF ViewOf
  <2> QED
    BY <2>2, <2>3
<1> QED
  BY <1>2, Zenon DEF Views

\* A connection that a client does not see may change at will.
LEMMA SameViews ==
    ASSUME \A d \in Conns :
              \/ conn'[d] = conn[d] /\ session'[d] = session[d]
              \/ conn[d].status # "held" /\ conn'[d].status # "held"
    PROVE  UNCHANGED Views
<1>1. ASSUME NEW d \in Conns PROVE ViewOf(d)' = ViewOf(d)
  BY DEF ViewOf
<1> QED
  BY <1>1, Zenon DEF Views

\* Entering or leaving a scope moves no view and answers no request.
LEMMA ChangesScope ==
    ASSUME NEW t \in Tasks, UNCHANGED <<request, Views>>,
           \/ \E b \in Tenants : scope' = [scope EXCEPT ![t] = Append(scope[t], b)]
           \/ /\ scope[t] # <<>>
              /\ scope' = [scope EXCEPT ![t] = SubSeq(scope[t], 1, Len(scope[t]) - 1)]
    PROVE  Isolation!Next
<1>1. Isolation!ChangeScope(t)
  BY DEF Isolation!ChangeScope, Views
<1> QED
  BY <1>1 DEF Isolation!Next

\* A task asks for a connection or a transaction.
LEMMA Asks ==
    ASSUME NEW t \in Tasks, NEW r \in Requests, request' = [request EXCEPT ![t] = r],
           UNCHANGED <<scope, Views>>
    PROVE  Isolation!Next
<1>1. Isolation!Ask(t)
  BY DEF Isolation!Ask, Views, Isolation!Requests, Isolation!Bindings, Requests, Bindings
<1> QED
  BY <1>1 DEF Isolation!Next

\* What is handed over answers the task's request, as its scope says.
LEMMA HandsOut ==
    ASSUME NEW t \in Tasks, NEW c \in Conns, Views[c] = <<>>,
           Views' = [Views EXCEPT ![c] =
              IF request[t].via = "conn" THEN <<current_tenant(t)>>
              ELSE IF request[t].tenant = NoTenant
              THEN <<current_tenant(t), current_tenant(t)>>
              ELSE <<current_tenant(t), request[t].tenant>>],
           request' = [request EXCEPT ![t] = NoRequest], UNCHANGED scope
    PROVE  Isolation!Next
<1>1. Isolation!Current(t) = current_tenant(t)
  BY DEF Isolation!Current, Isolation!Last, current_tenant, Current
<1>2. Isolation!HandOut(t, c)
  BY <1>1 DEF Isolation!HandOut, Isolation!Answer, Isolation!NoRequest, NoRequest, Views
<1> QED
  BY <1>2 DEF Isolation!Next

\* A transaction or savepoint begins as what encloses it.
LEMMA Enters ==
    ASSUME NEW c \in Conns, Views[c] # <<>>,
           Views' = [Views EXCEPT ![c] = Append(Views[c], Views[c][Len(Views[c])])],
           UNCHANGED <<scope, request>>
    PROVE  Isolation!Next
<1>1. Isolation!Enter(c)
  BY DEF Isolation!Enter, Isolation!Last, Views
<1> QED
  BY <1>1 DEF Isolation!Next

\* set_tenant replaces the top of the stack.
LEMMA Chooses ==
    ASSUME NEW c \in Conns, NEW b \in Tenants, Len(Views[c]) > 1,
           Views' = [Views EXCEPT ![c] = [Views[c] EXCEPT ![Len(Views[c])] = b]],
           UNCHANGED <<scope, request>>
    PROVE  Isolation!Next
<1>1. Isolation!Choose(c)
  BY DEF Isolation!Choose, Views
<1> QED
  BY <1>1 DEF Isolation!Next

\* The end of a transaction or savepoint uncovers what it covered.
LEMMA Leaves ==
    ASSUME NEW c \in Conns, Len(Views[c]) > 1,
           Views' = [Views EXCEPT ![c] = SubSeq(Views[c], 1, Len(Views[c]) - 1)],
           UNCHANGED <<scope, request>>
    PROVE  Isolation!Next
<1>1. Isolation!Leave(c)
  BY DEF Isolation!Leave, Views
<1> QED
  BY <1>1 DEF Isolation!Next

\* RELEASE SAVEPOINT hands the top of the stack down.
LEMMA Merges ==
    ASSUME NEW c \in Conns, Len(Views[c]) > 2,
           Views' = [Views EXCEPT
              ![c] = [SubSeq(Views[c], 1, Len(Views[c]) - 1)
                        EXCEPT ![Len(Views[c]) - 1] = Views[c][Len(Views[c])]]],
           UNCHANGED <<scope, request>>
    PROVE  Isolation!Next
<1>1. Isolation!Merge(c)
  BY DEF Isolation!Merge, Isolation!Last, Views
<1> QED
  BY <1>1 DEF Isolation!Next

\* What is given back answers as nobody.
LEMMA GivesBack ==
    ASSUME NEW c \in Conns, Views' = [Views EXCEPT ![c] = <<>>],
           UNCHANGED <<scope, request>>
    PROVE  Isolation!Next
<1>1. Isolation!GiveBack(c)
  BY DEF Isolation!GiveBack, Views
<1> QED
  BY <1>1 DEF Isolation!Next

\* A task that ends takes its scopes, its request and its views with it.
LEMMA Ends ==
    ASSUME NEW t \in Tasks, NEW S \in SUBSET Conns,
           scope' = [scope EXCEPT ![t] = <<>>],
           request' = [request EXCEPT ![t] = NoRequest],
           Views' = [c \in Conns |-> IF c \in S THEN <<>> ELSE Views[c]]
    PROVE  Isolation!Next
<1>1. Isolation!End(t, S)
  BY DEF Isolation!End, Isolation!NoRequest, NoRequest, Views
<1> QED
  BY <1>1 DEF Isolation!Next

-----------------------------------------------------------------------------
(* Each step of the pool is one of those, or none.                          *)

\* Each step of a task is a step of the abstract specification, or a stutter.
LEMMA TaskStepMaps ==
    ASSUME IInv, RInv, NEW t \in Tasks, TaskStep(t)
    PROVE  Isolation!Next \/ UNCHANGED <<scope, request, Views>>
<1>0. /\ scope \in [Tasks -> Seq(Tenants)] /\ request \in [Tasks -> Requests]
      /\ NoScopeWhenAbsent
  BY DEF IInv, TasksOK, RInv
<1>1. ASSUME UNCHANGED <<conn, session>> PROVE UNCHANGED Views
  BY <1>1, SameViews
\* A task starts in no scope or in one.
<1>2. ASSUME NEW u \in Tasks, NEW b \in Bindings, pc[u] = "absent",
             scope' = [scope EXCEPT ![u] = IF b = NoTenant THEN <<>> ELSE <<b>>],
             UNCHANGED <<request, conn, session>>
      PROVE  Isolation!Next \/ UNCHANGED <<scope, request, Views>>
  <2>1. scope[u] = <<>>
    BY <1>0, <1>2 DEF NoScopeWhenAbsent
  <2>2. CASE b = NoTenant
    <3>1. scope' = [scope EXCEPT ![u] = <<>>]
      BY <1>2, <2>2
    <3>2. scope' = scope
      BY <1>0, <2>1, <3>1
    <3> QED
      BY <1>1, <1>2, <3>2
  <2>3. CASE b # NoTenant
    <3>1. b \in Tenants
      BY <2>3 DEF Bindings
    <3>2. Append(scope[u], b) = <<b>>
      BY <2>1
    <3>3. scope' = [scope EXCEPT ![u] = Append(scope[u], b)]
      BY <1>2, <2>3, <3>2
    <3> QED
      BY <1>1, <1>2, <3>1, <3>3, ChangesScope
  <2> QED
    BY <2>2, <2>3
<1>3. ASSUME NEW b \in Bindings, tenant_scope(t, b)
      PROVE  Isolation!Next \/ UNCHANGED <<scope, request, Views>>
  BY <1>2, <1>3 DEF tenant_scope
<1>4. ASSUME NEW b \in Tenants, scope_tenant(t, b) PROVE Isolation!Next
  BY <1>1, <1>4, ChangesScope DEF scope_tenant
<1>5. ASSUME ScopeEnds(t) PROVE Isolation!Next
  BY <1>1, <1>5, ChangesScope DEF ScopeEnds
<1>6. ASSUME NEW u \in Tasks, spawn_with_tenant(t, u)
      PROVE  Isolation!Next \/ UNCHANGED <<scope, request, Views>>
  <2>1. current_tenant(t) \in Bindings
    BY <1>0, CurrentFacts DEF current_tenant
  <2> QED
    BY <1>2, <1>6, <2>1 DEF spawn_with_tenant
<1>7. ASSUME NEW u \in Tasks, Spawn(t, u)
      PROVE  Isolation!Next \/ UNCHANGED <<scope, request, Views>>
  <2>1. NoTenant \in Bindings
    BY DEF Bindings
  <2> QED
    BY <1>2, <1>7, <2>1 DEF Spawn
<1>8. ASSUME TaskEnds(t) PROVE Isolation!Next
  <2> DEFINE S == OwnedBy(t)
  <2>1. ASSUME NEW c \in Conns
        PROVE  ViewOf(c)' = IF c \in S THEN <<>> ELSE ViewOf(c)
    <3>1. CASE c \in S
      <4>1. conn'[c] \in {Closed, Returning}
        BY <1>8, <3>1, ConnFacts DEF TaskEnds, DropAll
      <4> QED
        BY <3>1, <4>1, ConnFacts DEF ViewOf
    <3>2. CASE c \notin S
      <4>1. conn'[c] = conn[c] /\ session'[c] = session[c]
        BY <1>8, <3>2 DEF TaskEnds, DropAll
      <4> QED
        BY <3>2, <4>1 DEF ViewOf
    <3> QED
      BY <3>1, <3>2
  <2>2. Views' = [c \in Conns |-> IF c \in S THEN <<>> ELSE Views[c]]
    <3> HIDE DEF S
    <3> QED
      BY <2>1, Zenon DEF Views
  <2>3. S \in SUBSET Conns
    BY DEF OwnedBy
  <2>4. /\ scope' = [scope EXCEPT ![t] = <<>>]
        /\ request' = [request EXCEPT ![t] = NoRequest]
    BY <1>8 DEF TaskEnds
  <2> HIDE DEF S
  <2> QED
    BY <2>2, <2>3, <2>4, Ends
<1>9. ASSUME NEW r \in Requests, Acquire(t, r) PROVE Isolation!Next
  BY <1>1, <1>9, Asks DEF Acquire
<1> QED
  BY <1>3, <1>4, <1>5, <1>6, <1>7, <1>8, <1>9 DEF TaskStep

\* t is told that it will not get what it asked for; what is dropped was not
\* in its hands.
LEMMA GivesUp ==
    ASSUME NEW t \in Tasks, NEW S, DropAll(S), \A c \in S : conn[c].status # "held",
           Answered(t), UNCHANGED scope
    PROVE  Isolation!Next
<1>1. UNCHANGED Views
  <2>1. ASSUME NEW c \in Conns
        PROVE  \/ conn'[c] = conn[c] /\ session'[c] = session[c]
               \/ conn[c].status # "held" /\ conn'[c].status # "held"
    <3>1. CASE c \in S
      <4>1. conn'[c] \in {Closed, Returning}
        BY <3>1, ConnFacts DEF DropAll
      <4> QED
        BY <3>1, <4>1, ConnFacts
    <3>2. CASE c \notin S
      BY <3>2 DEF DropAll
    <3> QED
      BY <3>1, <3>2
  <2> QED
    BY <2>1, SameViews
<1>2. NoRequest \in Requests /\ request' = [request EXCEPT ![t] = NoRequest]
  BY DEF NoRequest, Requests, Answered
<1> QED
  BY <1>1, <1>2, Asks

\* A failed acquisition answers the request with nothing.
LEMMA AcquireFailsMaps ==
    ASSUME NEW t \in Tasks, AcquireFails(t)
    PROVE  Isolation!Next
<1> DEFINE S == {c \in OwnedBy(t) : conn[c].status # "held"}
<1>1. /\ DropAll(S) /\ \A c \in S : conn[c].status # "held"
      /\ Answered(t) /\ UNCHANGED scope
  BY DEF AcquireFails
<1> HIDE DEF S
<1> QED
  BY <1>1, GivesUp

\* A connection that its hook has bound to the task's tenant is handed over.
LEMMA HandOverMaps ==
    ASSUME IInv, NEW t \in Tasks, NEW c \in Conns, NEW s \in Session,
           conn[c].status # "held", ~InTx(s), SetsBind(s, current_tenant(t)),
           HandOver(t, c), session' = [session EXCEPT ![c] = s]
    PROVE  Isolation!Next \/ UNCHANGED <<scope, request, Views>>
<1>1. Views[c] = <<>>
  BY ViewFacts
<1>2. CASE request[t].via = "conn"
  <2> DEFINE k == Owned("held", t, "conn", current_tenant(t))
  <2>1. /\ conn' = [conn EXCEPT ![c] = k] /\ UNCHANGED scope
        /\ request' = [request EXCEPT ![t] = NoRequest]
    BY <1>2 DEF HandOver, Answered
  <2>2. k.status = "held"
    BY OwnedFacts
  <2>3. Stack(s) = <<current_tenant(t)>>
    BY StackOutsideTx
  <2> HIDE DEF k
  <2>4. Views' = [Views EXCEPT ![c] = <<current_tenant(t)>>]
    BY <2>1, <2>2, <2>3, OneView
  <2> QED
    BY <1>1, <1>2, <2>1, <2>4, HandsOut
<1>3. CASE request[t].via # "conn"
  <2>1. /\ conn' = [conn EXCEPT ![c] = Owned("beginning", t, "tx", current_tenant(t))]
        /\ UNCHANGED <<scope, request>>
    BY <1>3 DEF HandOver
  <2>2. /\ conn'[c].status # "held"
        /\ \A d \in Conns \ {c} : conn'[d] = conn[d] /\ session'[d] = session[d]
    BY <2>1, OwnedFacts DEF IInv
  <2>3. UNCHANGED Views
    BY <2>2, SameViews
  <2> QED
    BY <2>1, <2>3
<1> QED
  BY <1>2, <1>3

\* What makes a connection answer as the tenant of its lease: both hooks; or,
\* without hooks that bind, that no task is in a scope and no lease has a tenant.
Scopeless == \A t \in Tasks : scope[t] = <<>>
LeasesBind ==
    \/ {"before_acquire", "after_connect"} \subseteq Hooks
    \/ Unhooked /\ Scopeless

LEMMA ScopelessFacts ==
    ASSUME Scopeless, NEW t \in Tasks
    PROVE  current_tenant(t) = NoTenant
BY DEF Scopeless, current_tenant, Current

\* An acquisition shows nothing to the client before the hand-over.
LEMMA AcquireStepMaps ==
    ASSUME LeasesBind, IInv, NEW t \in Tasks, NEW c \in Conns, AcquireStep(t, c)
    PROVE  Isolation!Next \/ UNCHANGED <<scope, request, Views>>
<1>0. /\ conn \in [Conns -> Conn] /\ session \in [Conns -> Session]
      /\ session[c] \in Session /\ ConnOK(conn[c], session[c])
      /\ current_tenant(t) \in Bindings
  BY CurrentFacts DEF IInv, TasksOK, current_tenant
<1>1. ASSUME NEW st \in {"checking", "connecting"}, conn[c].status # "held",
             conn' = [conn EXCEPT ![c] = Owned(st, t, "conn", NoTenant)],
             UNCHANGED <<scope, request>>,
             \A d \in Conns \ {c} : session'[d] = session[d]
      PROVE  UNCHANGED <<scope, request, Views>>
  <2>1. /\ conn'[c].status # "held"
        /\ \A d \in Conns \ {c} : conn'[d] = conn[d] /\ session'[d] = session[d]
    BY <1>0, <1>1, OwnedFacts
  <2> QED
    BY <1>1, <2>1, SameViews
<1>2. CASE PopIdle(t, c)
  BY <1>1, <1>2, ConnFacts DEF PopIdle
<1>3. CASE Connect(t, c)
  BY <1>1, <1>3, ConnFacts DEF Connect
<1>4. CASE BeforeAcquireFails(t, c)
  BY <1>0, <1>1, <1>4 DEF BeforeAcquireFails
<1>5. CASE BeforeAcquire(t, c)
  <2> DEFINE s == before_acquire(session[c], current_tenant(t))
  <2>1. conn[c].status # "held" /\ ~InTx(session[c])
    BY <1>0, <1>5 DEF BeforeAcquire, ConnOK, OutsideTx
  <2>2. s \in Session /\ ~InTx(s) /\ SetsBind(s, current_tenant(t))
    <3>1. CASE {"before_acquire", "after_connect"} \subseteq Hooks
      BY <1>0, <2>1, <3>1, BeforeAcquireBinds
    <3>2. CASE Unhooked /\ Scopeless
      BY <1>0, <2>1, <3>2, BeforeAcquireBinds, ScopelessFacts
      DEF ConnOK, NeverBound, Unhooked
    <3> QED
      BY <3>1, <3>2 DEF LeasesBind
  <2> QED
    BY <1>5, <2>1, <2>2, HandOverMaps DEF BeforeAcquire
<1>6. CASE AfterConnect(t, c)
  <2> DEFINE s == after_connect(session[c], current_tenant(t))
  <2>1. conn[c].status # "held" /\ session[c] = NewSession
    BY <1>0, <1>6 DEF AfterConnect, ConnOK, Fresh
  <2>2. s \in Session /\ ~InTx(s) /\ SetsBind(s, current_tenant(t))
    <3>1. CASE {"before_acquire", "after_connect"} \subseteq Hooks
      BY <1>0, <2>1, <3>1, AfterConnectBinds
    <3>2. CASE Unhooked /\ Scopeless
      BY <1>0, <2>1, <3>2, AfterConnectBinds, ScopelessFacts DEF Unhooked
    <3> QED
      BY <3>1, <3>2 DEF LeasesBind
  <2> QED
    BY <1>6, <2>1, <2>2, HandOverMaps DEF AfterConnect
<1> QED
  BY <1>2, <1>3, <1>4, <1>5, <1>6 DEF AcquireStep

\* Entering a transaction doubles a stack of one entry.
LEMMA Doubled ==
    ASSUME NEW S, NEW a \in S, NEW p \in Seq(S), Len(p) = 1, p[1] = a
    PROVE  Append(p, p[Len(p)]) = <<a, a>>
<1>1. p[Len(p)] = a
  <2>1. Len(p) = 1 /\ p[1] = a
    OBVIOUS
  <2> QED
    BY <2>1, Zenon
<1>2. /\ Append(p, a) \in Seq(S)
      /\ Len(Append(p, a)) = Len(p) + 1
      /\ Append(p, a)[Len(p) + 1] = a
  BY AppendProperties
<1>3. \A i \in 1 .. Len(p) : Append(p, a)[i] = p[i]
  BY AppendProperties
<1> DEFINE q == Append(p, a)
<1> HIDE DEF q
<1>4. q \in Seq(S) /\ Len(q) = 2 /\ q[1] = a /\ q[2] = a
  <2>1. 1 \in 1 .. Len(p) /\ Len(p) + 1 = 2
    OBVIOUS
  <2> QED
    BY <1>2, <1>3, <2>1 DEF q
<1>5. q = <<a, a>>
  BY <1>4
<1> QED
  BY <1>1, <1>5, Zenon DEF q

\* begin_tenant shows nothing to the client before it returns the transaction.
LEMMA BeginStepMaps ==
    ASSUME LeasesBind, IInv, RInv, NEW t \in Tasks, NEW c \in Conns, BeginStep(t, c)
    PROVE  Isolation!Next \/ UNCHANGED <<scope, request, Views>>
<1> DEFINE s == session[c]
           cur == current_tenant(t)
           held == [conn[c] EXCEPT !.status = "held"]
<1>0. /\ conn \in [Conns -> Conn] /\ session \in [Conns -> Session]
      /\ conn[c] \in Conn /\ s \in Session
      /\ request[t] \in Requests /\ HalfBegun(c) /\ Bound(conn[c], s)
      /\ NeverBound(s)
  BY DEF IInv, TasksOK, ConnOK, RInv
<1>1. conn[c].status = "beginning" /\ conn[c].owner = t
  BY DEF BeginStep, Begin, BeginSetsTenant, BeginFails, Beginning
<1>2. /\ Views[c] = <<>> /\ request[t].via # "conn"
      /\ SetsBind(s, cur)
  <2>1. Views[c] = <<>> /\ request[t].via # "conn" /\ conn[c].lease = cur
    BY <1>0, <1>1, ViewFacts DEF HalfBegun
  <2>2. CASE {"before_acquire", "after_connect"} \subseteq Hooks
    BY <1>0, <1>1, <2>1, <2>2 DEF Bound
  <2>3. CASE Unhooked /\ Scopeless
    BY <1>0, <2>1, <2>3, ScopelessFacts DEF NeverBound
  <2> QED
    BY <2>1, <2>2, <2>3 DEF LeasesBind
<1>3. held.status = "held"
  BY <1>0 DEF Conn
<1>4. CASE Begin(t, c)
  <2>1. session' = [session EXCEPT ![c] = Open(s)] /\ ~InTx(s) /\ UNCHANGED scope
    BY <1>4 DEF Begin
  <2>2. CASE request[t].tenant = NoTenant
    <3>1. /\ conn' = [conn EXCEPT ![c] = held]
          /\ request' = [request EXCEPT ![t] = NoRequest]
      BY <1>4, <2>2 DEF Begin, Answered
    <3>2. Stack(Open(s)) = <<cur, cur>>
      <4>1. Stack(s) = <<cur>>
        BY <1>0, <1>2, <2>1, StackOutsideTx
      <4>2. /\ Stack(s) \in Seq(Bindings) /\ cur \in Bindings
            /\ Len(Stack(s)) = 1 /\ Stack(s)[1] = cur
        BY <1>0, <4>1, StackFacts
      <4> HIDE DEF cur, s
      <4> QED
        BY <1>0, <4>2, StackOpen, Doubled
    <3>3. Views' = [Views EXCEPT ![c] = <<cur, cur>>]
      <4> HIDE DEF held
      <4> QED
        BY <1>3, <2>1, <3>1, <3>2, OneView
    <3> QED
      BY <1>2, <2>1, <2>2, <3>1, <3>3, HandsOut
  <2>3. CASE request[t].tenant # NoTenant
    <3>1. UNCHANGED <<scope, request, conn>>
      BY <1>4, <2>3 DEF Begin
    <3>2. \A d \in Conns \ {c} : session'[d] = session[d]
      BY <1>0, <2>1
    <3> QED
      BY <1>1, <3>1, <3>2, SameViews
  <2> QED
    BY <2>2, <2>3
<1>5. CASE BeginSetsTenant(t, c)
  <2> DEFINE tenant == request[t].tenant
             q == SetLocal(s, tenant)
  <2>1. /\ session' = [session EXCEPT ![c] = q] /\ InTx(s) /\ UNCHANGED scope
        /\ conn' = [conn EXCEPT ![c] = held]
        /\ request' = [request EXCEPT ![t] = NoRequest]
    BY <1>5 DEF BeginSetsTenant, Answered
  <2>2. tenant \in Tenants /\ Len(s.levels) = 1
    BY <1>0, <1>1, <2>1 DEF HalfBegun, Requests, Bindings
  <2>3. Stack(q) = <<cur, tenant>>
    <3>1. /\ Stack(s) \in Seq(Bindings) /\ Len(Stack(s)) = 2
      <4>1. Stack(s) \in Seq(Bindings) /\ Len(Stack(s)) = Len(s.levels) + 1
        BY <1>0, StackFacts
      <4> QED
        BY <2>2, <4>1
    <3>2. Stack(s)[1] = cur
      BY <1>0, <1>2, StackFacts DEF SetsBind
    <3>3. Stack(q) = [Stack(s) EXCEPT ![2] = tenant]
      BY <1>0, <2>1, <2>2, <3>1, StackSetLocal
    <3> HIDE DEF q, tenant
    <3>4. [Stack(s) EXCEPT ![2] = tenant] = <<cur, tenant>>
      BY <3>1, <3>2
    <3> QED
      BY <3>3, <3>4
  <2>4. Views' = [Views EXCEPT ![c] = <<cur, tenant>>]
    <3> HIDE DEF held, q
    <3> QED
      BY <1>3, <2>1, <2>3, OneView
  <2>5. tenant # NoTenant
    BY <2>2, SentinelAssumption
  <2> QED
    BY <1>2, <2>1, <2>4, <2>5, HandsOut
<1>6. CASE BeginFails(t, c)
  <2> DEFINE S == {c}
  <2>1. /\ DropAll(S) /\ \A d \in S : conn[d].status # "held"
        /\ Answered(t) /\ UNCHANGED scope
    BY <1>1, <1>6 DEF BeginFails
  <2> HIDE DEF S
  <2> QED
    BY <2>1, GivesUp
<1> QED
  BY <1>4, <1>5, <1>6 DEF BeginStep

\* What a client does with a connection is what it does to its stack.
LEMMA UseStepMaps ==
    ASSUME LeasesBind, IInv, NEW t \in Tasks, NEW c \in Conns, UseStep(t, c)
    PROVE  Isolation!Next \/ UNCHANGED <<scope, request, Views>>
<1> DEFINE s == session[c]
           n == Len(s.levels)
           v == Stack(s)
<1>0. /\ conn \in [Conns -> Conn] /\ session \in [Conns -> Session]
      /\ conn[c] \in Conn /\ s \in Session /\ Bound(conn[c], s) /\ NeverBound(s)
  BY DEF IInv, ConnOK
<1>1. conn[c].status = "held" /\ UNCHANGED <<scope, request>>
  BY DEF UseStep, OpenTx, StatementFails, set_tenant, CommitTx, RollbackTx,
         EndTx, Drop, Holds
<1>2. Views[c] = v /\ \E b \in Bindings : SetsBind(s, b)
  <2>1. conn[c].lease \in Bindings /\ NoTenant \in Bindings
    BY <1>0 DEF Conn, Bindings
  <2> QED
    BY <1>0, <1>1, <2>1, ViewFacts DEF LeasesBind, Bound, NeverBound
<1>3. /\ n \in Nat /\ v \in Seq(Bindings) /\ Len(v) = n + 1 /\ v # <<>>
      /\ InTx(s) <=> n > 0
  BY <1>0, StackFacts
<1>4. ASSUME NEW q, session' = [session EXCEPT ![c] = q], conn' = conn
      PROVE  Views' = [Views EXCEPT ![c] = Stack(q)]
  <2>1. conn' = [conn EXCEPT ![c] = conn[c]]
    BY <1>0, <1>4
  <2> QED
    BY <1>1, <1>4, <2>1, OneView
<1>5. CASE OpenTx(t, c)
  <2>1. Views' = [Views EXCEPT ![c] = Append(v, v[Len(v)])]
    BY <1>0, <1>4, <1>5, StackOpen DEF OpenTx
  <2> HIDE DEF v
  <2> QED
    BY <1>1, <1>2, <1>3, <2>1, Enters
<1>6. CASE StatementFails(t, c)
  <2>1. Views' = [Views EXCEPT ![c] = v]
    BY <1>0, <1>4, <1>6, StackAbort DEF StatementFails
  <2>2. Views' = Views
    BY <1>2, <2>1, ViewFacts, Zenon DEF Views
  <2> QED
    BY <1>1, <2>2
<1>7. ASSUME NEW b \in Tenants, set_tenant(t, c, b) PROVE Isolation!Next
  <2>1. /\ session' = [session EXCEPT ![c] = SetLocal(s, b)] /\ conn' = conn
        /\ InTx(s)
    BY <1>7 DEF set_tenant
  <2>2. Stack(SetLocal(s, b)) = [v EXCEPT ![Len(v)] = b]
    BY <1>0, <1>7, <2>1, StackSetLocal
  <2>3. Views' = [Views EXCEPT ![c] = Stack(SetLocal(s, b))]
    BY <1>4, <2>1
  <2>4. n > 0
    BY <1>3, <2>1
  <2> HIDE DEF v, n
  <2>5. Len(v) > 1
    BY <1>3, <2>4
  <2>6. Views' = [Views EXCEPT ![c] = [v EXCEPT ![Len(v)] = b]]
    BY <2>2, <2>3
  <2> QED
    BY <1>1, <1>2, <1>7, <2>5, <2>6, Chooses
\* A transaction that owns its connection gives it back with its end.
<1>8. ASSUME NEW q, EndTx(t, c, q), ~InTx(q), conn[c].handle = "tx"
      PROVE  Isolation!Next
  <2>1. session' = [session EXCEPT ![c] = q] /\ conn' = [conn EXCEPT ![c] = Returning]
    BY <1>8 DEF EndTx
  <2>2. Views' = [Views EXCEPT ![c] = <<>>]
    BY <2>1, ConnFacts, OneView
  <2> QED
    BY <1>1, <2>2, GivesBack
<1>9. ASSUME NEW q, EndTx(t, c, q), InTx(q) \/ conn[c].handle # "tx",
             Stack(q) = SubSeq(v, 1, Len(v) - 1)
      PROVE  Isolation!Next
  <2>1. session' = [session EXCEPT ![c] = q] /\ conn' = conn /\ InTx(s)
    BY <1>9 DEF EndTx
  <2>2. Views' = [Views EXCEPT ![c] = Stack(q)]
    BY <1>4, <2>1
  <2>3. n > 0
    BY <1>3, <2>1
  <2> HIDE DEF v, n
  <2>4. Len(v) > 1
    BY <1>3, <2>3
  <2>5. Views' = [Views EXCEPT ![c] = SubSeq(v, 1, Len(v) - 1)]
    BY <1>9, <2>2
  <2> QED
    BY <1>1, <1>2, <2>4, <2>5, Leaves
<1>10. CASE RollbackTx(t, c)
  <2>1. EndTx(t, c, Rollback(s)) /\ InTx(s)
    BY <1>10 DEF RollbackTx, EndTx
  <2>2. Stack(Rollback(s)) = SubSeq(v, 1, Len(v) - 1)
    BY <1>0, <2>1, StackRollback
  <2> QED
    BY <1>8, <1>9, <2>1, <2>2
<1>11. CASE CommitTx(t, c)
  <2>1. EndTx(t, c, Commit(s)) /\ InTx(s) /\ n > 0
    BY <1>3, <1>11 DEF CommitTx, EndTx
  <2>2. CASE s.aborted \/ n = 1
    <3>1. Stack(Commit(s)) = SubSeq(v, 1, Len(v) - 1)
      <4>1. CASE s.aborted
        BY <1>0, <2>1, <4>1, StackRollback DEF Commit
      <4>2. CASE n = 1
        BY <1>0, <1>2, <4>2, StackCommit
      <4> QED
        BY <2>2, <4>1, <4>2
    <3> DEFINE q == Commit(s)
    <3>2. EndTx(t, c, q) /\ Stack(q) = SubSeq(v, 1, Len(v) - 1)
      BY <2>1, <3>1
    <3> HIDE DEF q, v
    <3>3. CASE ~InTx(q) /\ conn[c].handle = "tx"
      BY <1>8, <3>2, <3>3
    <3>4. CASE InTx(q) \/ conn[c].handle # "tx"
      BY <1>9, <3>2, <3>4
    <3> QED
      BY <3>3, <3>4
  <2>3. CASE ~s.aborted /\ n # 1
    <3>1. n > 1
      <4>1. n \in Nat /\ n > 0 /\ n # 1
        BY <1>3, <2>1, <2>3
      <4> HIDE DEF n
      <4> QED
        BY <4>1
    <3>2. /\ Stack(Commit(s)) = [SubSeq(v, 1, Len(v) - 1) EXCEPT ![Len(v) - 1] = v[Len(v)]]
          /\ InTx(Commit(s))
      <4>1. s \in Session /\ ~s.aborted /\ Len(s.levels) > 1
        BY <1>0, <2>3, <3>1
      <4> HIDE DEF s
      <4> QED
        BY <4>1, StackRelease
    <3>3. session' = [session EXCEPT ![c] = Commit(s)] /\ conn' = conn
      BY <2>1, <3>2 DEF EndTx
    <3>4. /\ Views' = [Views EXCEPT
               ![c] = [SubSeq(v, 1, Len(v) - 1) EXCEPT ![Len(v) - 1] = v[Len(v)]]]
          /\ Len(v) > 2
      <4>1. Views' = [Views EXCEPT ![c] = Stack(Commit(s))]
        BY <1>4, <3>3
      <4> HIDE DEF n, v
      <4>2. Len(v) > 2
        BY <1>3, <3>1
      <4> QED
        BY <3>2, <4>1, <4>2
    <3> HIDE DEF v
    <3> QED
      BY <1>1, <1>2, <3>4, Merges
  <2> QED
    BY <2>2, <2>3
<1>12. CASE Drop(t, c)
  <2>1. conn'[c] \in {Closed, Returning}
    BY <1>12, ConnFacts DEF Drop, DropAll
  <2>2. \A d \in Conns \ {c} : conn'[d] = conn[d] /\ session'[d] = session[d]
    BY <1>12 DEF Drop, DropAll
  <2>3. ASSUME NEW d \in Conns
        PROVE  ViewOf(d)' = IF d = c THEN <<>> ELSE ViewOf(d)
    <3>1. CASE d = c
      BY <2>1, <3>1, ConnFacts DEF ViewOf
    <3>2. CASE d # c
      BY <2>2, <3>2 DEF ViewOf
    <3> QED
      BY <3>1, <3>2
  <2>4. Views' = [Views EXCEPT ![c] = <<>>]
    BY <2>3, Zenon DEF Views
  <2> QED
    BY <1>1, <2>4, GivesBack
<1> QED
  BY <1>5, <1>6, <1>7, <1>10, <1>11, <1>12 DEF UseStep

\* What happens to connections that no client holds is not seen.
LEMMA PoolStepMaps ==
    ASSUME IInv, NEW c \in Conns, ReturnStep(c) \/ Maintain(c) \/ Reap(c)
    PROVE  UNCHANGED <<scope, request, Views>>
<1>1. /\ conn[c].status # "held"
      /\ conn' = [conn EXCEPT ![c] = Idle] \/ conn' = [conn EXCEPT ![c] = Closed]
      /\ UNCHANGED <<scope, request>>
  BY ConnFacts DEF ReturnStep, AfterRelease, AfterReleaseFails, Maintain, Reap, Close
<1>2. \A d \in Conns \ {c} : conn'[d] = conn[d] /\ session'[d] = session[d]
  BY DEF ReturnStep, AfterRelease, AfterReleaseFails, Maintain, Reap, Close, IInv
<1>3. conn'[c].status # "held"
  BY <1>1, ConnFacts DEF IInv
<1> QED
  BY <1>1, <1>2, <1>3, SameViews

\* A pool with nothing handed out is a pool with nothing to see.
LEMMA InitMaps == Init => Isolation!Init
<1> SUFFICES ASSUME Init PROVE Isolation!Init
  OBVIOUS
<1>1. \A c \in Conns : conn[c] \in {Idle, Closed}
  BY DEF Init
<1>2. \A c \in Conns : ViewOf(c) = <<>>
  BY <1>1, ConnFacts DEF ViewOf
<1> QED
  BY <1>2 DEF Init, Isolation!Init, NoRequest, Isolation!NoRequest

LEMMA StepMaps ==
    ASSUME LeasesBind, IInv, RInv, [Next]_vars
    PROVE  [Isolation!Next]_Isolation!vars
<1> SUFFICES Isolation!Next \/ UNCHANGED <<scope, request, Views>>
  BY DEF Isolation!vars, Views
<1>1. CASE Next
  BY <1>1, TaskStepMaps, AcquireFailsMaps, AcquireStepMaps, BeginStepMaps,
     UseStepMaps, PoolStepMaps DEF Next
<1>2. CASE UNCHANGED vars
  BY <1>2, SameViews DEF vars
<1> QED
  BY <1>1, <1>2

-----------------------------------------------------------------------------
(* The theorems.                                                            *)

\* A task acquires one connection at a time, it is still waiting while a hook
\* or begin_tenant is at work for it, and the tenant it is in does not change
\* meanwhile: whatever the hooks in force.
THEOREM RInvariance == Spec => []RInv
<1> QED
  BY RInitOK, RStepOK, Invariance, PTL DEF Spec

\* With before_acquire and after_connect in force the pool implements
\* TenantIsolation.  What a client is answered as on a connection, in a
\* transaction and in each savepoint depends on nothing but the scope it was
\* in at the hand-over, the tenant it asked begin_tenant for, and its own
\* set_tenant since: not on who had the connection before, on how it was come
\* by, or on what was cancelled or failed.
THEOREM PoolImplementsIsolation ==
    ASSUME {"before_acquire", "after_connect"} \subseteq Hooks
    PROVE  Spec => ImplementsIsolation
<1>1. LeasesBind
  BY DEF LeasesBind
<1>2. IInv /\ RInv /\ [Next]_vars => [Isolation!Next]_Isolation!vars
  BY <1>1, StepMaps
<1> QED
  BY <1>2, InitMaps, Invariance, RInvariance, PTL
  DEF Spec, ImplementsIsolation, Isolation!Spec

\* So does a pool without hooks (tx.rs:3-6) as long as its tasks use no scopes:
\* begin_tenant and set_tenant are then all that chooses a tenant, and neither
\* leaves anything to whoever has the connection next.
THEOREM UnhookedImplementsIsolation ==
    ASSUME Unhooked
    PROVE  Spec /\ []Scopeless => ImplementsIsolation
<1>1. Scopeless => LeasesBind
  BY DEF LeasesBind
<1>2. Scopeless /\ IInv /\ RInv /\ [Next]_vars => [Isolation!Next]_Isolation!vars
  BY <1>1, StepMaps
<1> QED
  BY <1>2, InitMaps, Invariance, RInvariance, PTL
  DEF Spec, ImplementsIsolation, Isolation!Spec
==============================================================================
