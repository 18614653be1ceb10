-------------------------- MODULE NotesExampleProofs --------------------------
(***************************************************************************)
(* Theorems about NotesExample, for any tenants, requests, connections and  *)
(* notes: that its handlers use the pool as TenantPool lets them, so that   *)
(* what is proved of every pool holds of this one, and what their clients   *)
(* can rely on.                                                             *)
(***************************************************************************)
EXTENDS NotesExample, TenantPoolRefinementProofs

-----------------------------------------------------------------------------
(* What a connection k with session s is doing for the handlers h.          *)

Free(k) == k.owner = NoTask /\ k.status \in {"idle", "closed", "returning"}

Starting(k, h) ==
    /\ k.owner \in Tasks /\ h[k.owner].stage = "wait"
    /\ k.status \in {"checking", "connecting"}

Opening(k, s, h) ==
    /\ k.owner \in Tasks /\ h[k.owner].stage = "wait"
    /\ k.status = "beginning" /\ k.handle = "tx" /\ Len(s.levels) \in {0, 1}

\* The handler's one transaction is open on it, and bound to its tenant.
Serving(k, s, h) ==
    /\ k.owner \in Tasks /\ h[k.owner].stage \in {"query", "commit"}
    /\ k.status = "held" /\ k.handle = "tx" /\ Len(s.levels) = 1
    /\ Visible(s) = h[k.owner].tenant

Serves(k, s, h) ==
    Free(k) \/ Starting(k, h) \/ Opening(k, s, h) \/ Serving(k, s, h)

ConnsServe == \A c \in Conns : Serves(conn[c], session[c], handler)

\* No handler has two connections.
OneEach ==
    \A c, d \in Conns :
        conn[c].owner \in Tasks /\ conn[c].owner = conn[d].owner => c = d

(* What a handler h waits for, its task being at p with request r, and what *)
(* it has: a tenant from its second stage on, and, once it is done, its     *)
(* note among those of the table in ns.                                     *)
HandlerOK(h, p, r, ns) ==
    /\ h.stage = "none" <=> p = "absent"
    /\ h.stage = "wait" <=> p = "acquiring"
    /\ h.stage = "wait" => r = [via |-> "tx", tenant |-> h.tenant]
    /\ h.stage \in {"begin", "wait", "query", "commit"} => h.tenant \in Tenants
    /\ h.stage = "done" /\ h.op = "insert" => h.rows \subseteq ns[h.table]

HandlersOK == \A t \in Tasks : HandlerOK(handler[t], pc[t], request[t], notes)

NInv ==
    /\ IInv
    /\ handler \in [Tasks -> Handler]
    /\ notes \in [Names -> SUBSET Note]
    /\ HandlersOK
    /\ ConnsServe
    /\ OneEach
    /\ created \subseteq Stored

-----------------------------------------------------------------------------
(* Sessions with one transaction at most.                                   *)

LEMMA OneLevelFacts ==
    ASSUME NEW s \in Session
    PROVE  /\ Len(s.levels) \in Nat
           /\ ~InTx(s) <=> Len(s.levels) = 0
           /\ Len(s.levels) = 0 => Len(Open(s).levels) = 1
           /\ \A b \in Bindings : Len(SetLocal(s, b).levels) = Len(s.levels)
           /\ Len(s.levels) = 1 => ~InTx(Commit(s))
<1>1. s.levels \in Seq(Level) /\ Len(s.levels) \in Nat
  BY DEF Session
<1>2. ~InTx(s) <=> Len(s.levels) = 0
  BY <1>1 DEF InTx
<1>3. ASSUME Len(s.levels) = 0 PROVE Len(Open(s).levels) = 1
  <2> DEFINE new == IF InTx(s) THEN Top(s) ELSE [set |-> s.base, loc |-> NoTenant]
  <2>1. Open(s).levels = Append(s.levels, new)
    BY DEF Open, Session
  <2> HIDE DEF new
  <2> QED
    BY <1>1, <1>3, <2>1
<1>4. ASSUME NEW b \in Bindings PROVE Len(SetLocal(s, b).levels) = Len(s.levels)
  <2>1. KnownLevels(s) \in Seq(Level) /\ Len(KnownLevels(s)) = Len(s.levels)
    BY KnownLevelsFacts
  <2> DEFINE top == [set |-> Known(Top(s).set), loc |-> b]
  <2>2. SetLocal(s, b).levels = [KnownLevels(s) EXCEPT ![Depth(s)] = top]
    BY DEF SetLocal
  <2>3. DOMAIN SetLocal(s, b).levels = 1 .. Len(s.levels)
    BY <2>1, <2>2
  <2> QED
    BY <1>1, <2>3
<1>5. ASSUME Len(s.levels) = 1 PROVE ~InTx(Commit(s))
  <2>1. SubSeq(s.levels, 1, 0) = <<>>
    BY <1>1
  <2> QED
    BY <1>5, <2>1 DEF Commit, Rollback, InTx, Depth
<1> QED
  BY <1>1, <1>2, <1>3, <1>4, <1>5

-----------------------------------------------------------------------------
(* From one handler and its connections to all.                             *)

\* Only the handler of t and connections of t or of nobody change.
LEMMA ServingKept ==
    ASSUME NInv, NEW t \in Tasks, NEW h \in Handler,
           handler' = [handler EXCEPT ![t] = h],
           \A d \in Conns :
              \/ Serves(conn'[d], session'[d], handler')
              \/ UNCHANGED <<conn[d], session[d]>> /\ conn[d].owner # t,
           \A d \in Conns : conn'[d].owner \in {conn[d].owner, NoTask, t},
           \A d, e \in Conns : conn'[d].owner = t /\ conn'[e].owner = t => d = e
    PROVE  ConnsServe' /\ OneEach'
<1>1. ASSUME NEW d \in Conns PROVE Serves(conn'[d], session'[d], handler')
  <2>1. CASE UNCHANGED <<conn[d], session[d]>> /\ conn[d].owner # t
    <3>1. Serves(conn[d], session[d], handler)
      BY DEF NInv, ConnsServe
    <3>2. conn[d].owner \in Tasks => handler'[conn[d].owner] = handler[conn[d].owner]
      BY <2>1 DEF NInv
    <3> QED
      BY <2>1, <3>1, <3>2 DEF Serves, Free, Starting, Opening, Serving
  <2> QED
    BY <2>1
<1>2. ASSUME NEW d \in Conns, NEW e \in Conns,
             conn'[d].owner \in Tasks, conn'[d].owner = conn'[e].owner
      PROVE  d = e
  <2>1. CASE conn'[d].owner = t
    BY <1>2, <2>1
  <2>2. CASE conn'[d].owner # t
    <3>1. conn'[d].owner = conn[d].owner /\ conn'[e].owner = conn[e].owner
      BY <1>2, <2>2, PoolAssumption
    <3> QED
      BY <1>2, <3>1 DEF NInv, OneEach
  <2> QED
    BY <2>1, <2>2
<1> QED
  BY <1>1, <1>2 DEF ConnsServe, OneEach

\* The task of t and its handler change; tables only grow.
LEMMA HandlersKept ==
    ASSUME NInv, NEW t \in Tasks, NEW h \in Handler,
           handler' = [handler EXCEPT ![t] = h],
           HandlerOK(h, pc'[t], request'[t], notes'),
           \A u \in Tasks \ {t} : UNCHANGED <<pc[u], request[u]>>,
           \A n \in Names : notes[n] \subseteq notes'[n]
    PROVE  HandlersOK' /\ handler' \in [Tasks -> Handler]
<1>1. ASSUME NEW u \in Tasks PROVE HandlerOK(handler'[u], pc'[u], request'[u], notes')
  <2>1. CASE u = t
    BY <2>1 DEF NInv
  <2>2. CASE u # t
    <3>1. handler'[u] = handler[u] /\ handler[u].table \in Names
      BY <2>2 DEF NInv, Handler
    <3> QED
      BY <2>2, <3>1 DEF NInv, HandlersOK, HandlerOK
  <2> QED
    BY <2>1, <2>2
<1> QED
  BY <1>1 DEF HandlersOK, NInv

\* All connections of t are dropped.
LEMMA AllDropped ==
    ASSUME NInv, NEW t \in Tasks, NEW h \in Handler,
           handler' = [handler EXCEPT ![t] = h],
           NEW S \in SUBSET OwnedBy(t), DropAll(S),
           \A d \in OwnedBy(t) : d \in S
    PROVE  ConnsServe' /\ OneEach'
<1>1. ASSUME NEW d \in Conns
      PROVE  \/ conn'[d].owner = NoTask /\ Free(conn'[d])
             \/ UNCHANGED <<conn[d], session[d]>> /\ conn[d].owner # t
  <2>1. CASE d \in S
    BY <2>1 DEF DropAll, Dropped, Closed, Returning, Unowned, Free
  <2>2. CASE d \notin S
    BY <2>2 DEF DropAll, OwnedBy
  <2> QED
    BY <2>1, <2>2
<1> QED
  BY <1>1, ServingKept, PoolAssumption DEF Serves

\* A handler that is not at the pool or in its transaction has no connection,
\* and what one has depends on where it is.
LEMMA WhatIsOwned ==
    ASSUME NInv, NEW t \in Tasks, NEW c \in Conns, conn[c].owner = t
    PROVE  /\ handler[t].stage \in {"wait", "query", "commit"}
           /\ handler[t].stage = "wait" => conn[c].status # "held"
           /\ handler[t].stage # "wait" => Serving(conn[c], session[c], handler)
           /\ conn[c].status = "beginning" => Opening(conn[c], session[c], handler)
           /\ conn[c].status = "held" => Serving(conn[c], session[c], handler)
           /\ \A d \in Conns : conn[d].owner = t => d = c
           /\ OwnedBy(t) = {c}
<1>1. Serves(conn[c], session[c], handler)
  BY DEF NInv, ConnsServe
<1>2. Starting(conn[c], handler) \/ Opening(conn[c], session[c], handler)
        \/ Serving(conn[c], session[c], handler)
  BY <1>1, PoolAssumption DEF Serves, Free
<1>3. \A d \in Conns : conn[d].owner = t => d = c
  BY DEF NInv, OneEach
<1> QED
  BY <1>2, <1>3 DEF Starting, Opening, Serving, OwnedBy

-----------------------------------------------------------------------------
(* Each action of the server is one of the pool.                            *)

\* The requests that handlers make of the pool are requests.
LEMMA HandlerRequests ==
    ASSUME NInv, NEW t \in Tasks
    PROVE  [via |-> "tx", tenant |-> handler[t].tenant] \in Requests
BY DEF NInv, Handler, Requests

LEMMA RouterIsTaskStep ==
    ASSUME NEW t \in Tasks, tenant_scope(t, NoTenant)
    PROVE  TaskStep(t)
BY DEF TaskStep, Bindings

LEMMA StepIsPoolStep ==
    ASSUME NInv, [NotesNext]_notesVars
    PROVE  [Next]_vars
<1>1. ASSUME NEW t \in Tasks, NEW op, NEW n, NEW x, NEW json, router(t, op, n, x, json)
      PROVE  Next
  BY <1>1, RouterIsTaskStep DEF router, Next
<1>2. ASSUME NEW t \in Tasks, BeginTenant(t) PROVE Next
  BY <1>2, HandlerRequests DEF BeginTenant, Next, TaskStep
<1>3. ASSUME NEW t \in Tasks, BeginTenantFails(t) PROVE Next
  BY <1>3 DEF BeginTenantFails, Next, BeginStep
<1>4. ASSUME NEW t \in Tasks, Respond(t) \/ Cancelled(t) PROVE Next
  BY <1>4 DEF Respond, Cancelled, Next, TaskStep
<1>5. ASSUME NEW t \in Tasks, NEW c \in Conns, Begins(t, c) PROVE Next
  BY <1>5 DEF Begins, Next, BeginStep
<1>6. ASSUME NEW t \in Tasks, NEW c \in Conns, insert(t, c) \/ list(t, c)
      PROVE  UNCHANGED vars
  BY <1>6 DEF insert, list
<1>7. ASSUME NEW t \in Tasks, NEW c \in Conns,
             QueryFails(t, c) \/ Commits(t, c) \/ CommitFails(t, c)
      PROVE  Next
  BY <1>7 DEF QueryFails, Commits, CommitFails, Next, UseStep
<1>8. ASSUME NEW c \in Conns, ReturnStep(c) \/ Maintain(c) \/ Reap(c) PROVE Next
  BY <1>8 DEF Next
<1>9. CASE UNCHANGED notesVars
  BY <1>9 DEF notesVars
<1> QED
  BY <1>1, <1>2, <1>3, <1>4, <1>5, <1>6, <1>7, <1>8, <1>9
  DEF NotesNext, insert_naive, insert_fixed, list_naive, list_fixed

-----------------------------------------------------------------------------
(* One lemma per action: what it keeps of NInv beside IInv, which           *)
(* StepIsPoolStep takes care of.                                            *)

Kept ==
    /\ handler' \in [Tasks -> Handler]
    /\ notes' \in [Names -> SUBSET Note]
    /\ HandlersOK' /\ ConnsServe' /\ OneEach'
    /\ created' \subseteq Stored'

\* What is stored of notes as long as no table loses any.
LEMMA StoredGrows ==
    ASSUME NInv, \A n \in Names : notes[n] \subseteq notes'[n],
           created' = created
    PROVE  created' \subseteq Stored'
BY DEF NInv, Stored

LEMMA FailedHandler ==
    [NoHandler EXCEPT !.stage = "failed"] \in Handler /\ NoHandler \in Handler
BY DEF NoHandler, Handler, Names, Bindings

\* Nothing but the handler of t and its task changes, and t owns nothing.
LEMMA UnownedKept ==
    ASSUME NInv, NEW t \in Tasks, NEW h \in Handler,
           handler' = [handler EXCEPT ![t] = h],
           handler[t].stage \in {"none", "begin", "done", "failed"},
           HandlerOK(h, pc'[t], request'[t], notes'),
           \A u \in Tasks \ {t} : UNCHANGED <<pc[u], request[u]>>,
           UNCHANGED <<conn, session, notes, created>>
    PROVE  Kept
<1>1. \A d \in Conns : conn[d].owner # t
  BY WhatIsOwned
<1>2. ConnsServe' /\ OneEach'
  <2>1. \A d \in Conns : conn'[d] = conn[d] /\ session'[d] = session[d]
    OBVIOUS
  <2> QED
    BY <1>1, <2>1, ServingKept
<1>3. HandlersOK' /\ handler' \in [Tasks -> Handler]
  BY HandlersKept
<1>4. created' \subseteq Stored' /\ notes' \in [Names -> SUBSET Note]
  BY StoredGrows DEF NInv
<1> QED
  BY <1>2, <1>3, <1>4 DEF Kept

LEMMA RouterKept ==
    ASSUME NInv, NEW t \in Tasks, NEW op \in {"insert", "list"}, NEW n \in Names,
           NEW x \in TenantIds \cup {Missing}, NEW json \in BOOLEAN,
           router(t, op, n, x, json)
    PROVE  Kept
<1> DEFINE tenant == IF x = Missing THEN NoTenant ELSE parse(x)
           new == [stage |-> "begin", op |-> op, table |-> n,
                   tenant |-> tenant, rows |-> {}]
           failed == [NoHandler EXCEPT !.stage = "failed"]
<1>1. tenant \in Bindings
  BY NotesAssumption DEF parse, Bindings
<1>2. /\ pc[t] = "absent" /\ pc' = [pc EXCEPT ![t] = "running"]
      /\ UNCHANGED <<request, conn, session, notes, created>>
  BY DEF router, tenant_scope
<1>3. pc \in [Tasks -> {"absent", "running", "acquiring"}] /\ handler[t].stage = "none"
  BY <1>2 DEF NInv, IInv, TasksOK, HandlersOK, HandlerOK
<1>4. \/ tenant = NoTenant /\ handler' = [handler EXCEPT ![t] = failed]
      \/ handler' = [handler EXCEPT ![t] = failed]
      \/ tenant # NoTenant /\ handler' = [handler EXCEPT ![t] = new]
  BY DEF router, Fail, from_request_parts
<1>5. new \in Handler /\ new.stage = "begin" /\ new.tenant = tenant
  BY <1>1 DEF Handler
<1>6. failed \in Handler /\ failed.stage = "failed"
  BY FailedHandler DEF NoHandler
<1>7. CASE handler' = [handler EXCEPT ![t] = failed]
  <2>1. HandlerOK(failed, pc'[t], request'[t], notes')
    BY <1>2, <1>3, <1>6 DEF HandlerOK
  <2> QED
    BY <1>2, <1>3, <1>6, <1>7, <2>1, UnownedKept
<1>8. CASE tenant # NoTenant /\ handler' = [handler EXCEPT ![t] = new]
  <2>1. HandlerOK(new, pc'[t], request'[t], notes')
    BY <1>1, <1>2, <1>3, <1>5, <1>8 DEF HandlerOK, Bindings
  <2> QED
    BY <1>2, <1>3, <1>5, <1>8, <2>1, UnownedKept
<1> QED
  BY <1>4, <1>7, <1>8

LEMMA BeginTenantKept ==
    ASSUME NInv, NEW t \in Tasks, BeginTenant(t)
    PROVE  Kept
<1> DEFINE h == [handler[t] EXCEPT !.stage = "wait"]
           r == [via |-> "tx", tenant |-> handler[t].tenant]
<1>1. h \in Handler /\ h.stage = "wait" /\ h.tenant = handler[t].tenant
  BY DEF NInv, Handler
<1>2. /\ handler[t].stage = "begin" /\ handler' = [handler EXCEPT ![t] = h]
      /\ pc' = [pc EXCEPT ![t] = "acquiring"]
      /\ request' = [request EXCEPT ![t] = r]
      /\ UNCHANGED <<conn, session, notes, created>>
  BY DEF BeginTenant, Advance, Acquire
<1>3. pc'[t] = "acquiring" /\ request'[t] = r
  BY <1>2 DEF NInv, IInv, TasksOK
<1>4. HandlerOK(h, pc'[t], request'[t], notes')
  BY <1>1, <1>2, <1>3 DEF HandlerOK, HandlersOK, NInv
<1> QED
  BY <1>1, <1>2, <1>4, UnownedKept DEF NInv, IInv, TasksOK

\* What the actions of a handler at the pool, or in its transaction, do to
\* handlers: h is what becomes of that of t.
LEMMA StepKept ==
    ASSUME NInv, NEW t \in Tasks, NEW h \in Handler,
           handler' = [handler EXCEPT ![t] = h],
           HandlerOK(h, pc'[t], request'[t], notes'),
           \A u \in Tasks \ {t} : UNCHANGED <<pc[u], request[u]>>,
           notes' \in [Names -> SUBSET Note],
           \A n \in Names : notes[n] \subseteq notes'[n],
           created' = created,
           ConnsServe' /\ OneEach'
    PROVE  Kept
BY HandlersKept, StoredGrows DEF Kept

\* One connection c of t changes, or becomes its only one.
LEMMA OneServes ==
    ASSUME NInv, NEW t \in Tasks, NEW c \in Conns, NEW k, NEW s, NEW h \in Handler,
           handler' = [handler EXCEPT ![t] = h],
           conn' = [conn EXCEPT ![c] = k], session' = [session EXCEPT ![c] = s],
           k.owner \in {t, NoTask}, Serves(k, s, handler'),
           \A d \in Conns : conn[d].owner = t => d = c
    PROVE  ConnsServe' /\ OneEach'
<1>1. conn \in [Conns -> Conn] /\ session \in [Conns -> Session]
  BY DEF NInv, IInv
<1>2. conn'[c] = k /\ session'[c] = s
  BY <1>1
<1>3. ASSUME NEW d \in Conns, d # c
      PROVE  UNCHANGED <<conn[d], session[d]>> /\ conn[d].owner # t
  BY <1>1, <1>3
<1>4. \A d \in Conns :
        \/ Serves(conn'[d], session'[d], handler')
        \/ UNCHANGED <<conn[d], session[d]>> /\ conn[d].owner # t
  <2> SUFFICES ASSUME NEW d \in Conns
               PROVE  \/ Serves(conn'[d], session'[d], handler')
                      \/ UNCHANGED <<conn[d], session[d]>> /\ conn[d].owner # t
    OBVIOUS
  <2> QED
    BY <1>2, <1>3
<1>5. \A d \in Conns : conn'[d].owner \in {conn[d].owner, NoTask, t}
  BY <1>2, <1>3
<1>6. \A d, e \in Conns : conn'[d].owner = t /\ conn'[e].owner = t => d = e
  BY <1>3
<1> QED
  BY <1>4, <1>5, <1>6, ServingKept

LEMMA StageFacts ==
    ASSUME NInv, NEW t \in Tasks
    PROVE  /\ \A st \in {"wait", "query", "commit", "done"} :
                LET h == [handler[t] EXCEPT !.stage = st]
                IN  /\ h \in Handler /\ h.stage = st /\ h.op = handler[t].op
                    /\ h.tenant = handler[t].tenant /\ h.table = handler[t].table
                    /\ h.rows = handler[t].rows
           /\ pc \in [Tasks -> {"absent", "running", "acquiring"}]
           /\ request \in [Tasks -> Requests]
BY DEF NInv, IInv, TasksOK, Handler

\* begin_tenant gets its connection, or goes on with it.
LEMMA AcquiresKept ==
    ASSUME NInv, NEW t \in Tasks, NEW c \in Conns,
           handler[t].stage = "wait", AcquireStep(t, c),
           Advance(t, IF pc'[t] = "running" THEN "query" ELSE "wait"),
           UNCHANGED <<notes, created>>
    PROVE  Kept
<1> DEFINE h == [handler[t] EXCEPT !.stage = "wait"]
           s == session[c]
           beginning == Owned("beginning", t, "tx", current_tenant(t))
<1>0. /\ HandlerOK(handler[t], pc[t], request[t], notes)
      /\ pc[t] = "acquiring"
      /\ request[t] = [via |-> "tx", tenant |-> handler[t].tenant]
      /\ ConnOK(conn[c], s) /\ current_tenant(t) \in Bindings
      /\ conn \in [Conns -> Conn] /\ session \in [Conns -> Session]
      /\ scope \in [Tasks -> Seq(Tenants)]
  BY CurrentFacts DEF NInv, HandlersOK, HandlerOK, IInv, TasksOK, current_tenant
<1>1. UNCHANGED <<pc, request>>
  BY <1>0 DEF AcquireStep, PopIdle, Connect, BeforeAcquire, BeforeAcquireFails,
              AfterConnect, HandOver
<1>2. h \in Handler /\ h.stage = "wait" /\ h.tenant = handler[t].tenant
        /\ handler' = [handler EXCEPT ![t] = h]
  BY <1>0, <1>1, StageFacts DEF Advance
<1>3. HandlerOK(h, pc'[t], request'[t], notes')
  BY <1>0, <1>1, <1>2 DEF HandlerOK
<1>4. handler'[t].stage = "wait"
  BY <1>2 DEF NInv
<1>5. SUFFICES ConnsServe' /\ OneEach'
  BY <1>1, <1>2, <1>3, StepKept DEF NInv
<1>6. CASE PopIdle(t, c) \/ Connect(t, c)
  <2>1. \A d \in Conns : conn[d].owner # t
    BY <1>0, <1>6, WhatIsOwned DEF PopIdle, Connect, Waiting, OwnedBy
  <2>2. PICK st \in {"checking", "connecting"} :
          conn' = [conn EXCEPT ![c] = Owned(st, t, "conn", NoTenant)]
    BY <1>6 DEF PopIdle, Connect
  <2>3. session' = [session EXCEPT ![c] = s]
    BY <1>0, <1>6 DEF PopIdle, Connect
  <2>4. Serves(Owned(st, t, "conn", NoTenant), s, handler')
    BY <1>4 DEF Serves, Starting, Owned
  <2>5. Owned(st, t, "conn", NoTenant).owner = t
    BY DEF Owned
  <2> HIDE DEF h, s
  <2> QED
    BY <1>2, <2>1, <2>2, <2>3, <2>4, <2>5, OneServes
<1>7. CASE BeforeAcquireFails(t, c)
  <2>1. Serves(Owned("connecting", t, "conn", NoTenant), NewSession, handler')
    BY <1>4 DEF Serves, Starting, Owned
  <2>2. Owned("connecting", t, "conn", NoTenant).owner = t
    BY DEF Owned
  <2>3. /\ conn[c].owner = t
        /\ conn' = [conn EXCEPT ![c] = Owned("connecting", t, "conn", NoTenant)]
        /\ session' = [session EXCEPT ![c] = NewSession]
    BY <1>7 DEF BeforeAcquireFails
  <2>4. \A d \in Conns : conn[d].owner = t => d = c
    BY <2>3, WhatIsOwned
  <2> HIDE DEF h
  <2> QED
    BY <1>2, <2>1, <2>2, <2>3, <2>4, OneServes
<1>8. ASSUME NEW r \in Session, ~InTx(r), conn[c].owner = t, HandOver(t, c),
             session' = [session EXCEPT ![c] = r]
      PROVE  ConnsServe' /\ OneEach'
  <2>1. conn' = [conn EXCEPT ![c] = beginning]
    BY <1>0, <1>8 DEF HandOver
  <2>2. Serves(beginning, r, handler') /\ beginning.owner = t
    BY <1>4, <1>8, OneLevelFacts DEF Serves, Opening, Owned
  <2>3. \A d \in Conns : conn[d].owner = t => d = c
    BY <1>8, WhatIsOwned
  <2> HIDE DEF h, beginning
  <2> QED
    BY <1>2, <1>8, <2>1, <2>2, <2>3, OneServes
<1>9. CASE BeforeAcquire(t, c)
  <2>1. ~InTx(s) /\ s \in Session
    BY <1>0, <1>9 DEF BeforeAcquire, ConnOK, OutsideTx
  <2> QED
    BY <1>0, <1>8, <1>9, <2>1, BeforeAcquireBinds DEF BeforeAcquire
<1>10. CASE AfterConnect(t, c)
  <2>1. s = NewSession
    BY <1>0, <1>10 DEF AfterConnect, ConnOK, Fresh
  <2> QED
    BY <1>0, <1>8, <1>10, <2>1, AfterConnectBinds DEF AfterConnect
<1> QED
  BY <1>6, <1>7, <1>9, <1>10 DEF AcquireStep

\* BEGIN and set_config: the transaction that the handler gets is bound to
\* its tenant.
LEMMA OpensKept ==
    ASSUME NInv, NEW t \in Tasks, NEW c \in Conns,
           handler[t].stage = "wait", Begin(t, c) \/ BeginSetsTenant(t, c),
           Advance(t, IF pc'[t] = "running" THEN "query" ELSE "wait"),
           UNCHANGED <<notes, created>>
    PROVE  Kept
<1> DEFINE s == session[c]
           tenant == handler[t].tenant
<1>0. /\ HandlerOK(handler[t], pc[t], request[t], notes)
      /\ pc[t] = "acquiring" /\ pc \in [Tasks -> {"absent", "running", "acquiring"}]
      /\ request[t] = [via |-> "tx", tenant |-> tenant]
      /\ tenant \in Tenants /\ tenant # NoTenant /\ tenant \in Bindings
      /\ s \in Session /\ conn[c] \in Conn
      /\ conn \in [Conns -> Conn] /\ session \in [Conns -> Session]
      /\ request \in [Tasks -> Requests]
  BY SentinelAssumption DEF NInv, HandlersOK, HandlerOK, IInv, TasksOK, Bindings
<1>1. conn[c].owner = t /\ conn[c].status = "beginning"
  BY DEF Begin, BeginSetsTenant, Beginning
<1>2. conn[c].handle = "tx" /\ Len(s.levels) \in {0, 1}
  BY <1>1, WhatIsOwned DEF Opening
<1>3. \A d \in Conns : conn[d].owner = t => d = c
  BY <1>1, WhatIsOwned
<1>4. CASE Begin(t, c)
  <2> DEFINE h == [handler[t] EXCEPT !.stage = "wait"]
  <2>1. /\ UNCHANGED <<conn, pc, request>> /\ ~InTx(s)
        /\ session' = [session EXCEPT ![c] = Open(s)]
    BY <1>0, <1>4 DEF Begin
  <2>2. h \in Handler /\ h.stage = "wait" /\ h.tenant = tenant
          /\ handler' = [handler EXCEPT ![t] = h]
    BY <1>0, <2>1, StageFacts DEF Advance
  <2>3. HandlerOK(h, pc'[t], request'[t], notes')
    BY <1>0, <2>1, <2>2 DEF HandlerOK
  <2>4. Len(Open(s).levels) = 1
    BY <1>0, <2>1, OneLevelFacts
  <2>5. handler'[t].stage = "wait"
    BY <2>2 DEF NInv
  <2>6. Serves(conn[c], Open(s), handler')
    BY <1>1, <1>2, <2>4, <2>5 DEF Serves, Opening
  <2>7. conn' = [conn EXCEPT ![c] = conn[c]]
    BY <1>0, <2>1
  <2>8. ConnsServe' /\ OneEach'
    BY <1>1, <1>3, <2>1, <2>2, <2>6, <2>7, OneServes
  <2> QED
    BY <2>1, <2>2, <2>3, <2>8, StepKept DEF NInv
<1>5. CASE BeginSetsTenant(t, c)
  <2> DEFINE h == [handler[t] EXCEPT !.stage = "query"]
             k == [conn[c] EXCEPT !.status = "held"]
             r == SetLocal(s, tenant)
  <2>1. /\ pc' = [pc EXCEPT ![t] = "running"]
        /\ request' = [request EXCEPT ![t] = NoRequest]
        /\ conn' = [conn EXCEPT ![c] = k] /\ InTx(s)
        /\ session' = [session EXCEPT ![c] = r]
    BY <1>0, <1>5 DEF BeginSetsTenant, Answered
  <2>2. pc'[t] = "running"
    BY <1>0, <2>1
  <2>3. h \in Handler /\ h.stage = "query" /\ h.tenant = tenant
          /\ handler' = [handler EXCEPT ![t] = h]
    BY <2>2, StageFacts DEF Advance
  <2>4. HandlerOK(h, pc'[t], request'[t], notes')
    BY <1>0, <2>2, <2>3 DEF HandlerOK
  <2>5. Len(r.levels) = 1 /\ Visible(r) = tenant
    BY <1>0, <1>2, <2>1, OneLevelFacts, SetLocalFacts
  <2>6. k.owner = t /\ k.status = "held" /\ k.handle = "tx"
    BY <1>0, <1>1, <1>2 DEF Conn
  <2>7. handler'[t] = h
    BY <2>3 DEF NInv
  <2>8. Serves(k, r, handler')
    BY <2>3, <2>5, <2>6, <2>7 DEF Serves, Serving
  <2>9. ConnsServe' /\ OneEach'
    BY <1>3, <2>1, <2>3, <2>6, <2>8, OneServes
  <2> QED
    BY <1>0, <2>1, <2>3, <2>4, <2>9, StepKept DEF NInv
<1> QED
  BY <1>4, <1>5

\* The handler of t fails, and all its connections are dropped.
LEMMA FailsKept ==
    ASSUME NInv, NEW t \in Tasks, Fail(t), pc'[t] = "running",
           \A u \in Tasks \ {t} : UNCHANGED <<pc[u], request[u]>>,
           notes' \in [Names -> SUBSET Note],
           \A n \in Names : notes[n] \subseteq notes'[n],
           created' = created,
           NEW S \in SUBSET OwnedBy(t), DropAll(S), \A d \in OwnedBy(t) : d \in S
    PROVE  Kept
<1> DEFINE h == [NoHandler EXCEPT !.stage = "failed"]
<1>1. h \in Handler /\ h.stage = "failed"
  BY FailedHandler DEF NoHandler
<1>2. handler' = [handler EXCEPT ![t] = h]
  BY DEF Fail
<1>3. HandlerOK(h, pc'[t], request'[t], notes')
  BY <1>1 DEF HandlerOK
<1> HIDE DEF h
<1>4. ConnsServe' /\ OneEach'
  BY <1>1, <1>2, AllDropped
<1> QED
  BY <1>1, <1>2, <1>3, <1>4, StepKept

LEMMA BeginTenantFailsKept ==
    ASSUME NInv, NEW t \in Tasks, BeginTenantFails(t)
    PROVE  Kept
<1>1. /\ handler[t].stage = "wait" /\ Fail(t) /\ Answered(t)
      /\ UNCHANGED <<notes, created>>
  BY DEF BeginTenantFails, AcquireFails, BeginFails
<1>2. /\ pc'[t] = "running"
      /\ \A u \in Tasks \ {t} : UNCHANGED <<pc[u], request[u]>>
  BY <1>1, StageFacts DEF Answered
<1>3. PICK S \in SUBSET OwnedBy(t) : DropAll(S) /\ \A d \in OwnedBy(t) : d \in S
  <2>1. CASE AcquireFails(t)
    <3> DEFINE S == {c \in OwnedBy(t) : conn[c].status # "held"}
    <3>1. DropAll(S)
      BY <2>1 DEF AcquireFails
    <3>2. \A d \in OwnedBy(t) : d \in S
      BY <1>1, WhatIsOwned DEF OwnedBy
    <3> QED
      BY <3>1, <3>2
  <2>2. ASSUME NEW c \in Conns, BeginFails(t, c)
        PROVE  \E S \in SUBSET OwnedBy(t) : DropAll(S) /\ \A d \in OwnedBy(t) : d \in S
    <3>1. DropAll({c}) /\ conn[c].owner = t
      BY <2>2 DEF BeginFails, Beginning
    <3>2. OwnedBy(t) = {c}
      BY <3>1, WhatIsOwned
    <3> QED
      BY <3>1, <3>2
  <2> QED
    BY <2>1, <2>2 DEF BeginTenantFails
<1> QED
  BY <1>1, <1>2, <1>3, FailsKept DEF NInv

\* What COMMIT may have done to the tables.
LEMMA StoreFacts ==
    ASSUME NInv, NEW t \in Tasks, Store(t) \/ UNCHANGED notes
    PROVE  /\ notes' \in [Names -> SUBSET Note]
           /\ \A n \in Names : notes[n] \subseteq notes'[n]
           /\ Store(t) /\ handler[t].op = "insert"
                => handler[t].rows \subseteq notes'[handler[t].table]
<1>1. notes \in [Names -> SUBSET Note] /\ handler[t] \in Handler
  BY DEF NInv
<1>2. handler[t].table \in Names /\ handler[t].rows \subseteq Note
  BY <1>1 DEF Handler
<1>3. CASE UNCHANGED notes /\ ~Store(t)
  BY <1>1, <1>3
<1>4. CASE Store(t)
  <2>1. CASE handler[t].op = "insert"
    <3>1. notes' = [notes EXCEPT ![handler[t].table] =
                      notes[handler[t].table] \cup handler[t].rows]
      BY <1>4, <2>1 DEF Store
    <3> QED
      BY <1>1, <1>2, <3>1
  <2>2. CASE handler[t].op # "insert"
    BY <1>1, <1>4, <2>2 DEF Store
  <2> QED
    BY <2>1, <2>2
<1> QED
  BY <1>3, <1>4

\* The query is answered with rows: the transaction goes on.
LEMMA QueryKept ==
    ASSUME NInv, NEW t \in Tasks, handler[t].stage = "query",
           NEW rows \in SUBSET Note,
           handler' = [handler EXCEPT ![t].stage = "commit", ![t].rows = rows],
           UNCHANGED <<notes, created, vars>>
    PROVE  Kept
<1> DEFINE h == [handler[t] EXCEPT !.stage = "commit", !.rows = rows]
<1>1. h \in Handler /\ h.stage = "commit" /\ h.tenant = handler[t].tenant
  BY DEF NInv, Handler
<1>2. handler' = [handler EXCEPT ![t] = h] /\ handler'[t] = h
  BY DEF NInv
<1>3. HandlerOK(handler[t], pc[t], request[t], notes)
  BY DEF NInv, HandlersOK
<1>4. UNCHANGED <<pc, request, conn, session, notes, created>>
  BY DEF vars
<1>5. HandlerOK(h, pc'[t], request'[t], notes')
  BY <1>1, <1>3, <1>4 DEF HandlerOK
<1>6. ASSUME NEW d \in Conns, conn[d].owner = t
      PROVE  Serves(conn'[d], session'[d], handler')
  <2>1. Serving(conn[d], session[d], handler)
    BY <1>6, WhatIsOwned
  <2> HIDE DEF h
  <2>2. Serving(conn[d], session[d], handler')
    BY <1>1, <1>2, <1>6, <2>1 DEF Serving
  <2> QED
    BY <1>4, <2>2 DEF Serves
<1> HIDE DEF h
<1>7. ConnsServe' /\ OneEach'
  <2>1. \A d, e \in Conns : conn[d].owner = t /\ conn[e].owner = t => d = e
    BY WhatIsOwned
  <2>2. \A d \in Conns : conn'[d] = conn[d] /\ session'[d] = session[d]
    BY <1>4
  <2>3. \A d \in Conns :
          \/ Serves(conn'[d], session'[d], handler')
          \/ UNCHANGED <<conn[d], session[d]>> /\ conn[d].owner # t
    BY <1>6, <2>2
  <2>4. \A d \in Conns : conn'[d].owner \in {conn[d].owner, NoTask, t}
    BY <2>2
  <2>5. \A d, e \in Conns : conn'[d].owner = t /\ conn'[e].owner = t => d = e
    BY <2>1, <2>2
  <2> QED
    BY <1>1, <1>2, <2>3, <2>4, <2>5, ServingKept
<1>8. notes' \in [Names -> SUBSET Note] /\ \A n \in Names : notes[n] \subseteq notes'[n]
  BY <1>4 DEF NInv
<1>9. \A u \in Tasks \ {t} : UNCHANGED <<pc[u], request[u]>>
  BY <1>4
<1> QED
  BY <1>1, <1>2, <1>4, <1>5, <1>7, <1>8, <1>9, StepKept

LEMMA InsertKept ==
    ASSUME NInv, NEW t \in Tasks, NEW c \in Conns, insert(t, c)
    PROVE  Kept
<1>1. PICK id \in 1 .. MaxNotes :
        handler' = [handler EXCEPT ![t].stage = "commit",
                      ![t].rows = {[id |-> id, owner |-> handler[t].tenant]}]
  BY DEF insert
<1>2. handler[t].stage = "query" /\ UNCHANGED <<notes, created, vars>>
  BY DEF insert, Querying
<1>3. handler[t].tenant \in Tenants
  BY <1>2 DEF NInv, HandlersOK, HandlerOK
<1>4. id \in 0 .. MaxNotes
  BY NotesAssumption
<1>5. {[id |-> id, owner |-> handler[t].tenant]} \in SUBSET Note
  BY <1>3, <1>4 DEF Note
<1> QED
  BY <1>1, <1>2, <1>5, QueryKept

LEMMA ListKept ==
    ASSUME NInv, NEW t \in Tasks, NEW c \in Conns, list(t, c)
    PROVE  Kept
<1> DEFINE rows == {row \in notes[handler[t].table] : Shows(t, c, row)}
<1>1. /\ handler' = [handler EXCEPT ![t].stage = "commit", ![t].rows = rows]
      /\ handler[t].stage = "query" /\ UNCHANGED <<notes, created, vars>>
  BY DEF list, Querying
<1>2. rows \in SUBSET Note
  <2>1. notes[handler[t].table] \subseteq Note
    BY DEF NInv, Handler
  <2> QED
    BY <2>1
<1> HIDE DEF rows
<1> QED
  BY <1>1, <1>2, QueryKept

\* The query or the COMMIT fails: the transaction is dropped.
LEMMA DropKept ==
    ASSUME NInv, NEW t \in Tasks, NEW c \in Conns,
           QueryFails(t, c) \/ CommitFails(t, c)
    PROVE  Kept
<1>1. /\ Drop(t, c) /\ Fail(t) /\ created' = created
      /\ Store(t) \/ UNCHANGED notes
  BY DEF QueryFails, CommitFails
<1>2. /\ pc[t] = "running" /\ UNCHANGED <<pc, request>>
      /\ conn[c].owner = t /\ DropAll({c})
  BY <1>1 DEF Drop, Holds
<1>3. OwnedBy(t) = {c}
  BY <1>2, WhatIsOwned
<1>4. pc'[t] = "running" /\ \A u \in Tasks \ {t} : UNCHANGED <<pc[u], request[u]>>
  BY <1>2
<1>5. \A d \in OwnedBy(t) : d \in {c}
  BY <1>3
<1> QED
  BY <1>1, <1>2, <1>3, <1>4, <1>5, StoreFacts, FailsKept

\* COMMIT ends the one transaction, and with it the use of the connection.
LEMMA CommitsKept ==
    ASSUME NInv, NEW t \in Tasks, NEW c \in Conns, Commits(t, c)
    PROVE  Kept
<1> DEFINE h == [handler[t] EXCEPT !.stage = "done"]
           s == Commit(session[c])
<1>1. /\ handler[t].stage = "commit" /\ EndTx(t, c, s) /\ Store(t)
      /\ handler' = [handler EXCEPT ![t] = h] /\ created' = created
  BY DEF Commits, CommitTx, Advance
<1>2. /\ conn[c].owner = t /\ conn[c].status = "held" /\ pc[t] = "running"
      /\ UNCHANGED <<pc, request>> /\ session' = [session EXCEPT ![c] = s]
  BY <1>1 DEF EndTx, Holds
<1>3. conn[c].handle = "tx" /\ ~InTx(s)
  <2>1. session[c] \in Session
    BY DEF NInv, IInv
  <2>2. conn[c].handle = "tx" /\ Len(session[c].levels) = 1
    BY <1>2, WhatIsOwned DEF Serving
  <2> QED
    BY <2>1, <2>2, OneLevelFacts
<1>4. conn' = [conn EXCEPT ![c] = Returning]
  BY <1>1, <1>3 DEF EndTx
<1>5. /\ h \in Handler /\ h.stage = "done" /\ h.op = handler[t].op
      /\ h.table = handler[t].table /\ h.rows = handler[t].rows
  BY StageFacts
<1>6. HandlerOK(h, pc'[t], request'[t], notes')
  BY <1>1, <1>2, <1>5, StoreFacts DEF HandlerOK
<1> HIDE DEF h, s
<1>7. Serves(Returning, s, handler') /\ Returning.owner = NoTask
  BY DEF Serves, Free, Returning, Unowned
<1>8. \A d \in Conns : conn[d].owner = t => d = c
  BY <1>2, WhatIsOwned
<1>9. ConnsServe' /\ OneEach'
  BY <1>1, <1>2, <1>4, <1>5, <1>7, <1>8, OneServes
<1>10. \A u \in Tasks \ {t} : UNCHANGED <<pc[u], request[u]>>
  BY <1>2
<1> QED
  BY <1>1, <1>5, <1>6, <1>9, <1>10, StoreFacts, StepKept

\* The request is over: a note that its client is told of is in the table.
LEMMA EndsKept ==
    ASSUME NInv, NEW t \in Tasks, Respond(t) \/ Cancelled(t)
    PROVE  Kept
<1>1. /\ TaskEnds(t) /\ handler' = [handler EXCEPT ![t] = NoHandler]
      /\ Store(t) \/ UNCHANGED notes
  BY DEF Respond, Cancelled
<1>2. /\ pc'[t] = "absent" /\ DropAll(OwnedBy(t))
      /\ \A u \in Tasks \ {t} : UNCHANGED <<pc[u], request[u]>>
  BY <1>1, StageFacts DEF TaskEnds
<1>3. NoHandler \in Handler /\ NoHandler.stage = "none"
  BY FailedHandler DEF NoHandler
<1>4. HandlerOK(NoHandler, pc'[t], request'[t], notes')
  BY <1>2, <1>3 DEF HandlerOK
<1>5. HandlersOK' /\ handler' \in [Tasks -> Handler]
  BY <1>1, <1>2, <1>3, <1>4, StoreFacts, HandlersKept
<1>6. ConnsServe' /\ OneEach'
  BY <1>1, <1>2, <1>3, AllDropped
<1>7. created' \subseteq Stored'
  <2>1. CASE created' = created
    BY <1>1, <2>1, StoreFacts, StoredGrows
  <2>2. CASE created' = created \cup handler[t].rows /\ UNCHANGED notes
               /\ handler[t].stage = "done" /\ handler[t].op = "insert"
    <3>1. handler[t].rows \subseteq notes[handler[t].table]
      BY <2>2 DEF NInv, HandlersOK, HandlerOK
    <3>2. handler[t].table \in Names
      BY DEF NInv, Handler
    <3> QED
      BY <2>2, <3>1, <3>2 DEF NInv, Stored
  <2> QED
    BY <2>1, <2>2 DEF Respond, Cancelled
<1>8. notes' \in [Names -> SUBSET Note]
  BY <1>1, StoreFacts
<1> QED
  BY <1>5, <1>6, <1>7, <1>8 DEF Kept

\* The pool's own steps are on connections of no handler.
LEMMA PoolKept ==
    ASSUME NInv, NEW c \in Conns, ReturnStep(c) \/ Maintain(c) \/ Reap(c),
           UNCHANGED <<handler, notes, created>>
    PROVE  Kept
<1>1. PICK k, s : /\ k \in {Idle, Closed}
                  /\ conn' = [conn EXCEPT ![c] = k]
                  /\ session' = [session EXCEPT ![c] = s]
  BY DEF ReturnStep, AfterRelease, AfterReleaseFails, Maintain, Reap, Close
<1>2. UNCHANGED <<pc, request>>
  BY DEF ReturnStep, AfterRelease, AfterReleaseFails, Maintain, Reap, Close
<1>3. Free(k) /\ k.owner = NoTask
  BY <1>1 DEF Free, Idle, Closed, Unowned
<1>4. conn \in [Conns -> Conn] /\ session \in [Conns -> Session]
  BY DEF NInv, IInv
<1>5. conn'[c] = k /\ \A d \in Conns \ {c} : UNCHANGED <<conn[d], session[d]>>
  BY <1>1, <1>4
<1>6. ConnsServe'
  <2>1. ASSUME NEW d \in Conns PROVE Serves(conn'[d], session'[d], handler')
    <3>1. CASE d = c
      BY <1>3, <1>5, <3>1 DEF Serves
    <3>2. CASE d # c
      <4>1. Serves(conn[d], session[d], handler)
        BY DEF NInv, ConnsServe
      <4> QED
        BY <1>5, <3>2, <4>1
    <3> QED
      BY <3>1, <3>2
  <2> QED
    BY <2>1 DEF ConnsServe
<1>7. OneEach'
  <2>1. \A d \in Conns : conn'[d].owner \in Tasks => conn'[d] = conn[d]
    BY <1>3, <1>5, PoolAssumption
  <2> QED
    BY <2>1 DEF NInv, OneEach
<1> QED
  BY <1>2, <1>6, <1>7 DEF NInv, Kept, HandlersOK, Stored

LEMMA NotesStutterKept ==
    ASSUME NInv, UNCHANGED notesVars
    PROVE  Kept
BY DEF notesVars, vars, NInv, Kept, HandlersOK, ConnsServe, OneEach, Stored

-----------------------------------------------------------------------------
(* The theorems.                                                            *)

LEMMA NotesInitOK ==
    NotesInit => NInv
<1> SUFFICES ASSUME NotesInit PROVE NInv
  OBVIOUS
<1>1. IInv
  BY InitOK DEF NotesInit
<1>2. handler \in [Tasks -> Handler] /\ notes \in [Names -> SUBSET Note]
  BY FailedHandler, NotesAssumption DEF NotesInit, OldNotes, Note
<1>3. HandlersOK
  BY DEF NotesInit, Init, HandlersOK, HandlerOK, NoHandler
<1>4. \A c \in Conns : conn[c] \in {Idle, Closed}
  BY DEF NotesInit, Init
<1>5. \A c \in Conns : Free(conn[c])
  BY <1>4 DEF Free, Idle, Closed, Unowned
<1>6. ConnsServe /\ OneEach
  BY <1>5, PoolAssumption DEF ConnsServe, Serves, OneEach, Free
<1> QED
  BY <1>1, <1>2, <1>3, <1>6 DEF NInv, NotesInit

LEMMA NotesStepOK ==
    NInv /\ [NotesNext]_notesVars => NInv'
<1> SUFFICES ASSUME NInv, [NotesNext]_notesVars PROVE NInv'
  OBVIOUS
<1>1. IInv'
  BY StepIsPoolStep, StepOK DEF NInv
<1>2. ASSUME NEW t \in Tasks, NEW c \in Conns, Begins(t, c) PROVE Kept
  BY <1>2, AcquiresKept, OpensKept DEF Begins
<1>3. Kept
  BY <1>2, RouterKept, BeginTenantKept, BeginTenantFailsKept, InsertKept, ListKept,
     DropKept, CommitsKept, EndsKept, PoolKept, NotesStutterKept
  DEF NotesNext, insert_naive, insert_fixed, list_naive, list_fixed
<1> QED
  BY <1>1, <1>3 DEF NInv, Kept

\* The invariant holds in every state of the server.
THEOREM NotesInvariance == NotesSpec => []NInv
BY NotesInitOK, NotesStepOK, PTL DEF NotesSpec

\* The handlers use the pool as TenantPool lets tasks use it, so that every
\* theorem about TenantPool holds of the example's pool.
THEOREM NotesImplementsPool == NotesSpec => Spec
<1>1. NotesInit => Init
  BY DEF NotesInit
<1>2. NInv /\ [NotesNext]_notesVars => [Next]_vars
  BY StepIsPoolStep
<1> QED
  BY <1>1, <1>2, NotesInvariance, PTL DEF NotesSpec, Spec

\* A client that was told of its note finds it (lib.rs:58-59, 82-83), with any
\* number of requests, connections and failures.
THEOREM CreatedIsKeptAlways == NotesSpec => []CreatedIsKept
<1>1. NInv => CreatedIsKept
  BY DEF NInv, CreatedIsKept
<1> QED
  BY <1>1, NotesInvariance, PTL

\* Every variable of the server stays in its type.
THEOREM NotesTypeCorrect == NotesSpec => []NotesTypeOK
<1>1. ASSUME NInv PROVE NotesTypeOK
  <2>1. Stored \subseteq Note
    BY <1>1 DEF NInv, Stored
  <2>2. \A t \in Tasks : handler[t].stage = "none" <=> pc[t] = "absent"
    BY <1>1 DEF NInv, HandlersOK, HandlerOK
  <2> QED
    BY <1>1, <2>1, <2>2 DEF NInv, NotesTypeOK
<1> QED
  BY <1>1, NotesInvariance, PTL

\* The example uses no hooks: its connections are idle bound to nobody.
THEOREM NotesIdleUnbound ==
    ASSUME Hooks = {}
    PROVE  NotesSpec => []IdleUnbound
BY IdleUnboundWithoutHooks, NotesImplementsPool, PTL

\* No request is in a scope: the example has no tenant_scope.
LEMMA ScopelessKept ==
    ASSUME NInv, Scopeless, [NotesNext]_notesVars
    PROVE  Scopeless'
<1>0. scope \in [Tasks -> Seq(Tenants)]
  BY DEF NInv, IInv, TasksOK
<1>1. ASSUME NEW t \in Tasks, scope' = [scope EXCEPT ![t] = <<>>]
      PROVE  Scopeless'
  BY <1>0, <1>1 DEF Scopeless
<1>2. ASSUME NEW t \in Tasks, NEW op, NEW n, NEW x, NEW json, router(t, op, n, x, json)
      PROVE  Scopeless'
  BY <1>1, <1>2 DEF router, tenant_scope
<1>3. ASSUME NEW t \in Tasks, Respond(t) \/ Cancelled(t) PROVE Scopeless'
  BY <1>1, <1>3 DEF Respond, Cancelled, TaskEnds
<1>4. ASSUME NEW t \in Tasks, BeginTenant(t) \/ BeginTenantFails(t)
      PROVE  UNCHANGED scope
  BY <1>4 DEF BeginTenant, BeginTenantFails, Acquire, AcquireFails, BeginFails
<1>5. ASSUME NEW t \in Tasks, NEW c \in Conns,
             \/ Begins(t, c) \/ insert(t, c) \/ list(t, c)
             \/ QueryFails(t, c) \/ Commits(t, c) \/ CommitFails(t, c)
      PROVE  UNCHANGED scope
  BY <1>5 DEF Begins, AcquireStep, PopIdle, Connect, BeforeAcquire,
              BeforeAcquireFails, AfterConnect, HandOver, Begin, BeginSetsTenant,
              insert, list, vars, QueryFails, Commits, CommitFails,
              CommitTx, EndTx, Drop
<1>6. ASSUME NEW c \in Conns, ReturnStep(c) \/ Maintain(c) \/ Reap(c)
      PROVE  UNCHANGED scope
  BY <1>6 DEF ReturnStep, AfterRelease, AfterReleaseFails, Maintain, Reap, Close
<1>7. CASE UNCHANGED scope
  BY <1>7 DEF Scopeless
<1>8. CASE UNCHANGED notesVars
  BY <1>7, <1>8 DEF notesVars, vars
<1> QED
  BY <1>2, <1>3, <1>4, <1>5, <1>6, <1>7, <1>8
  DEF NotesNext, insert_naive, insert_fixed, list_naive, list_fixed

\* The example's pool keeps the promises of TenantIsolation although it has no
\* hooks (lib.rs:49-95): a handler's queries answer as the tenant it gave to
\* begin_tenant, whichever handlers failed or were cancelled on the connection.
THEOREM NotesImplementsIsolation ==
    ASSUME Hooks = {}
    PROVE  NotesSpec => ImplementsIsolation
<1>1. Unhooked
  BY DEF Unhooked
<1>2. NotesInit => Scopeless
  BY DEF NotesInit, Init, Scopeless
<1>3. NotesSpec => []Scopeless
  BY <1>2, ScopelessKept, NotesInvariance, PTL DEF NotesSpec
<1> QED
  BY <1>1, <1>3, NotesImplementsPool, UnhookedImplementsIsolation, PTL

-----------------------------------------------------------------------------
(* What a list shows.                                                       *)

\* Of the two tables, only fixed_notes isolates, and then it shows a session
\* the rows of its tenant.
LEMMA IsolatingTable ==
    ASSUME NEW n \in Names, Rls!Isolates(Catalog[n]), NEW b \in Tenants
    PROVE  /\ ~Rls!Bypassed(Catalog[n])
           /\ \A owner : Rls!Reaches(Catalog[n], b, owner) <=> owner = b
<1>1. ASSUME n = "naive_notes" PROVE FALSE
  <2>1. Rls!Bypassed(Catalog[n])
    BY <1>1 DEF Catalog, Names, naive_notes, Rls!Bypassed
  <2>2. Unset \notin Tenants
    BY SentinelAssumption
  <2>3. Rls!Gets(Catalog[n], Unset, b) /\ b \in Tenants \ {Unset}
    BY <2>1, <2>2 DEF Rls!Gets
  <2> QED
    BY <2>3 DEF Rls!Isolates, Rls!Settings
<1>2. Catalog[n] = fixed_notes
  BY <1>1 DEF Catalog, Names
<1>3. /\ fixed_notes.rowsecurity /\ fixed_notes.forcerowsecurity
      /\ fixed_notes.policies =
           {[name |-> "tenant_isolation_fixed", permissive |-> TRUE, cmd |-> "*",
             qual |-> Rls!Strict, withcheck |-> Rls!Strict]}
  BY DEF fixed_notes, naive_notes
<1> DEFINE p == [name |-> "tenant_isolation_fixed", permissive |-> TRUE, cmd |-> "*",
                 qual |-> Rls!Strict, withcheck |-> Rls!Strict]
<1>4. ASSUME NEW cmd PROVE Rls!For(fixed_notes, cmd) = {p}
  BY <1>3 DEF Rls!For
<1>5. \A owner : Rls!Reaches(Catalog[n], b, owner) <=> owner = b
  <2> SUFFICES ASSUME NEW owner
               PROVE  Rls!Reaches(fixed_notes, b, owner) <=> owner = b
    BY <1>2
  <2>1. Rls!Admits(p.qual, b, owner) <=> owner = b
    BY DEF Rls!Admits, Rls!Strict, Rls!Own
  <2> HIDE DEF p
  <2>2. p.permissive
    BY DEF p
  <2> QED
    BY <1>4, <2>1, <2>2 DEF Rls!Reaches
<1> QED
  BY <1>2, <1>3, <1>5 DEF Rls!Bypassed

\* Only its own query takes a handler that lists to its COMMIT.
LEMMA OnlyListLists ==
    ASSUME NInv, [NotesNext]_notesVars, NEW t \in Tasks, handler[t].op = "list",
           handler[t].stage = "query", handler'[t].stage = "commit"
    PROVE  \E c \in Conns : list(t, c)
<1>0. handler \in [Tasks -> Handler]
  BY DEF NInv
<1>1. ASSUME NEW u \in Tasks, u # t, NEW h, handler' = [handler EXCEPT ![u] = h]
      PROVE  FALSE
  BY <1>0, <1>1
<1>2. ASSUME NEW h, handler' = [handler EXCEPT ![t] = h], h.stage # "commit"
      PROVE  FALSE
  BY <1>0, <1>2
<1>3. ASSUME NEW u \in Tasks, Fail(u) PROVE FALSE
  <2>1. [NoHandler EXCEPT !.stage = "failed"].stage = "failed"
    BY DEF NoHandler
  <2> QED
    BY <1>1, <1>2, <1>3, <2>1 DEF Fail
<1>4. ASSUME NEW u \in Tasks, NEW op, NEW n, NEW x, NEW json, router(u, op, n, x, json)
      PROVE  FALSE
  <2>1. u # t
    BY <1>4 DEF router, tenant_scope, NInv, HandlersOK, HandlerOK
  <2> QED
    BY <1>1, <1>3, <1>4, <2>1 DEF router
<1>5. ASSUME NEW u \in Tasks, NEW st, st # "commit" \/ u # t, Advance(u, st)
      PROVE  FALSE
  <2>1. handler' = [handler EXCEPT ![u] = [handler[u] EXCEPT !.stage = st]]
    BY <1>5 DEF Advance
  <2>2. [handler[u] EXCEPT !.stage = st].stage = st
    BY <1>0 DEF Handler
  <2> QED
    BY <1>1, <1>2, <1>5, <2>1, <2>2
<1>6. ASSUME NEW u \in Tasks, BeginTenant(u) \/ BeginTenantFails(u) PROVE FALSE
  BY <1>3, <1>5, <1>6 DEF BeginTenant, BeginTenantFails
<1>7. ASSUME NEW u \in Tasks, Respond(u) \/ Cancelled(u) PROVE FALSE
  <2>1. NoHandler.stage = "none"
    BY DEF NoHandler
  <2> QED
    BY <1>1, <1>2, <1>7, <2>1 DEF Respond, Cancelled
<1>8. ASSUME NEW u \in Tasks, NEW c \in Conns, Begins(u, c) PROVE FALSE
  <2>1. PICK st \in {"query", "wait"} : Advance(u, st)
    BY <1>8 DEF Begins
  <2> QED
    BY <1>5, <2>1
<1>9. ASSUME NEW u \in Tasks, NEW c \in Conns, insert(u, c) PROVE FALSE
  <2>1. u # t
    BY <1>9 DEF insert, Querying
  <2>2. handler'[t] = handler[t]
    BY <1>0, <1>9, <2>1 DEF insert
  <2> QED
    BY <2>2
<1>10. ASSUME NEW u \in Tasks, NEW c \in Conns, list(u, c) PROVE u = t
  <2>1. u # t => handler'[t] = handler[t]
    BY <1>0, <1>10 DEF list
  <2> QED
    BY <2>1
<1>11. ASSUME NEW u \in Tasks, NEW c \in Conns,
              QueryFails(u, c) \/ Commits(u, c) \/ CommitFails(u, c)
       PROVE  FALSE
  BY <1>3, <1>5, <1>11 DEF QueryFails, Commits, CommitFails
<1>12. ~UNCHANGED handler
  OBVIOUS
<1> QED
  BY <1>4, <1>6, <1>7, <1>8, <1>9, <1>10, <1>11, <1>12
  DEF NotesNext, notesVars, insert_naive, insert_fixed, list_naive, list_fixed

\* A list of a table that isolates has exactly the notes of the tenant that
\* asked (lib.rs:86-95), with any number of requests and connections.
THEOREM ListsExactlyAlways == NotesSpec => ListsExactly
<1> DEFINE Exactly ==
      \A t \in Tasks :
         /\ handler[t].op = "list" /\ Rls!Isolates(Catalog[handler[t].table])
         /\ handler[t].stage = "query" /\ handler'[t].stage = "commit"
         => handler'[t].rows =
              {row \in notes[handler[t].table] : row.owner = handler[t].tenant}
<1>1. ASSUME NInv, [NotesNext]_notesVars PROVE Exactly
  <2> SUFFICES ASSUME NEW t \in Tasks,
                      handler[t].op = "list", Rls!Isolates(Catalog[handler[t].table]),
                      handler[t].stage = "query", handler'[t].stage = "commit"
               PROVE  handler'[t].rows =
                        {row \in notes[handler[t].table] : row.owner = handler[t].tenant}
    OBVIOUS
  <2>1. PICK c \in Conns : list(t, c)
    BY <1>1, OnlyListLists
  <2>2. /\ handler[t] \in Handler /\ handler \in [Tasks -> Handler]
        /\ handler[t].table \in Names /\ handler[t].tenant \in Tenants
    BY <1>1 DEF NInv, HandlersOK, HandlerOK, Handler
  <2>3. Visible(session[c]) = handler[t].tenant
    BY <1>1, <2>1, WhatIsOwned DEF list, Querying, Holds, Serving
  <2>4. ASSUME NEW row PROVE Shows(t, c, row) <=> row.owner = handler[t].tenant
    <3> DEFINE n == handler[t].table
               b == handler[t].tenant
    <3>1. /\ ~Rls!Bypassed(Catalog[n])
          /\ Rls!Reaches(Catalog[n], b, row.owner) <=> row.owner = b
      BY <2>2, IsolatingTable
    <3>2. Shows(t, c, row) <=>
            Rls!Bypassed(Catalog[n]) \/ Rls!Reaches(Catalog[n], b, row.owner)
      BY <2>3 DEF Shows
    <3> QED
      BY <3>1, <3>2
  <2>5. handler'[t].rows = {row \in notes[handler[t].table] : Shows(t, c, row)}
    BY <2>1, <2>2 DEF list, Handler
  <2> QED
    BY <2>4, <2>5
<1> QED
  BY <1>1, NotesInvariance, PTL DEF NotesSpec, ListsExactly
===============================================================================
