----------------------------- MODULE NotesExample -----------------------------
(***************************************************************************)
(* The example server: POST and GET on two tables of notes, each handler a  *)
(* transaction of `begin_tenant` on the shared pool.  It composes           *)
(* TenantPool, which says as which tenant a connection answers, with        *)
(* RowSecurity, which says what rows a table then shows.                    *)
(*                                                                         *)
(* A request is a task of the pool, with no scope (the example has no       *)
(* tenant_scope).  Its handler's stage:                                     *)
(*   none    no request;            begin   the request was accepted;       *)
(*   wait    awaits begin_tenant;   query   awaits INSERT or SELECT;        *)
(*   commit  awaits COMMIT;         done, failed   a response is ready.     *)
(***************************************************************************)
EXTENDS TenantPool, FiniteSets

CONSTANTS TenantIds,  \* the TenantIds that the authentication layer may insert
          Missing,    \* ... and when it inserts none
          Uuid,       \* the tenant that a TenantId parses to, if it is a UUID
          MaxNotes    \* bound: how many notes are created

ASSUME NotesAssumption ==
    /\ Missing \notin TenantIds
    /\ Uuid \in [TenantIds -> Bindings]
    /\ MaxNotes \in Nat

VARIABLES
    handler,  \* handler[t]: what the request of t is about and how far it is
    notes,    \* notes[n]: the committed rows of table n
    created   \* history: the notes whose creator was told so

notesVars == <<handler, notes, created, vars>>

\* 0001_rls_pattern.sql
Names == {"naive_notes", "fixed_notes"}
Rls == INSTANCE RowSecurity WITH
          Schemas <- {"public"}, Tables <- Names,
          PolicyNames <- {"tenant_isolation_naive", "tenant_isolation_fixed"},
          Kinds <- {"r"}, HandWritten <- {}

naive_notes ==
    [schema |-> "public", kind |-> "r", tenantcol |-> TRUE,
     rowsecurity |-> TRUE, forcerowsecurity |-> FALSE,
     policies |-> {[name |-> "tenant_isolation_naive", permissive |-> TRUE, cmd |-> "*",
                    qual |-> Rls!Strict, withcheck |-> Rls!NoExpr]}]
fixed_notes ==
    [naive_notes EXCEPT !.forcerowsecurity = TRUE,
        !.policies = {[name |-> "tenant_isolation_fixed", permissive |-> TRUE, cmd |-> "*",
                       qual |-> Rls!Strict, withcheck |-> Rls!Strict]}]
Catalog == [n \in Names |-> IF n = "naive_notes" THEN naive_notes ELSE fixed_notes]

\* Both tables have notes of every tenant, which are as good as one, from
\* before; its id is 0.
Note == [id : 0 .. MaxNotes, owner : Tenants]
OldNotes == [id : {0}, owner : Tenants]
Handler == [stage : {"none", "begin", "wait", "query", "commit", "done", "failed"},
            op : {"insert", "list"}, table : Names, tenant : Bindings,
            rows : SUBSET Note]  \* the new row, or the rows listed
NoHandler == [stage |-> "none", op |-> "list", table |-> "naive_notes",
              tenant |-> NoTenant, rows |-> {}]

Stored == UNION {notes[n] : n \in Names}
Inserting == {t \in Tasks : handler[t].op = "insert"}
Advance(t, stage) == handler' = [handler EXCEPT ![t].stage = stage]

\* The response is an error, and all that the handler knew is gone.
Fail(t) == handler' = [handler EXCEPT ![t] = [NoHandler EXCEPT !.stage = "failed"]]

NotesInit ==
    /\ Init
    /\ handler = [t \in Tasks |-> NoHandler]
    /\ notes = [n \in Names |-> OldNotes]
    /\ created = {}

-----------------------------------------------------------------------------
(* The handlers, from the extractors to the response.                       *)

\* The request has the extension; without it the answer is a 500.
from_request_parts(extension) == extension # Missing

\* Wrong: the text of the TenantId is the tenant.
parse_unparsed(text) == text

\* tenant.as_str().parse(), NoTenant for a text that is no UUID.
parse(text) == Uuid[text]

router(t, op, table, extension, json) ==
    /\ op = "insert" =>
          Cardinality(Stored \ OldNotes) + Cardinality(Inserting) < MaxNotes
    /\ tenant_scope(t, NoTenant)
    /\ IF ~from_request_parts(extension) \/ (op = "insert" /\ ~json)
            \/ parse(extension) = NoTenant
       THEN Fail(t)
       ELSE handler' = [handler EXCEPT
              ![t] = [stage |-> "begin", op |-> op, table |-> table,
                      tenant |-> parse(extension), rows |-> {}]]
    /\ UNCHANGED <<notes, created>>

\* Wrong: pool.begin(), as in a program without row security.
BeginTenant_unbound(t) ==
    /\ handler[t].stage = "begin"
    /\ Acquire(t, [via |-> "tx", tenant |-> NoTenant])
    /\ Advance(t, "wait") /\ UNCHANGED <<notes, created>>

BeginTenant(t) ==
    /\ handler[t].stage = "begin"
    /\ Acquire(t, [via |-> "tx", tenant |-> handler[t].tenant])
    /\ Advance(t, "wait") /\ UNCHANGED <<notes, created>>

\* begin_tenant works, and returns when the pool no longer answers t.
Begins(t, c) ==
    /\ handler[t].stage = "wait"
    /\ AcquireStep(t, c) \/ Begin(t, c) \/ BeginSetsTenant(t, c)
    /\ Advance(t, IF pc'[t] = "running" THEN "query" ELSE "wait")
    /\ UNCHANGED <<notes, created>>

BeginTenantFails(t) ==
    /\ handler[t].stage = "wait"
    /\ AcquireFails(t) \/ \E c \in Conns : BeginFails(t, c)
    /\ Fail(t) /\ UNCHANGED <<notes, created>>

\* What the table of t's request does with a row, in the transaction on c.
Shows(t, c, row) ==
    LET table == Catalog[handler[t].table]
    IN  Rls!Bypassed(table) \/ Rls!Reaches(table, Visible(session[c]), row.owner)
Accepts(t, c, row) ==
    LET table == Catalog[handler[t].table]
    IN  Rls!Bypassed(table) \/ Rls!Stores(table, Visible(session[c]), row.owner)

Querying(t, c, op) ==
    handler[t].stage = "query" /\ handler[t].op = op /\ Holds(t, c)

(* The queries are the same for both tables.                                *)

\* RETURNING must be shown the row, too.
insert(t, c) ==
    /\ Querying(t, c, "insert")
    /\ \E id \in 1 .. MaxNotes :
          LET row == [id |-> id, owner |-> handler[t].tenant]
          IN  /\ \A old \in Stored \cup UNION {handler[u].rows : u \in Inserting} :
                    old.id # id
              /\ Accepts(t, c, row) /\ Shows(t, c, row)
              /\ handler' = [handler EXCEPT ![t].stage = "commit", ![t].rows = {row}]
    /\ UNCHANGED <<notes, created, vars>>

list(t, c) ==
    /\ Querying(t, c, "list")
    /\ handler' = [handler EXCEPT ![t].stage = "commit",
          ![t].rows = {row \in notes[handler[t].table] : Shows(t, c, row)}]
    /\ UNCHANGED <<notes, created, vars>>

insert_naive(t, c) == handler[t].table = "naive_notes" /\ insert(t, c)
insert_fixed(t, c) == handler[t].table = "fixed_notes" /\ insert(t, c)
list_naive(t, c) == handler[t].table = "naive_notes" /\ list(t, c)
list_fixed(t, c) == handler[t].table = "fixed_notes" /\ list(t, c)

\* The row becomes one of the table.
Store(t) ==
    notes' = IF handler[t].op = "insert"
             THEN [notes EXCEPT ![handler[t].table] = @ \cup handler[t].rows]
             ELSE notes

\* `?` drops the transaction.
QueryFails(t, c) ==
    /\ handler[t].stage = "query" /\ Drop(t, c)
    /\ Fail(t) /\ UNCHANGED <<notes, created>>

\* Wrong: the transaction is dropped, not committed.
Commits_not(t, c) ==
    /\ handler[t].stage = "commit" /\ Drop(t, c)
    /\ Advance(t, "done") /\ UNCHANGED <<notes, created>>

Commits(t, c) ==
    /\ handler[t].stage = "commit" /\ CommitTx(t, c) /\ Store(t)
    /\ Advance(t, "done") /\ UNCHANGED created

\* Nobody knows whether the server did it.
CommitFails(t, c) ==
    /\ handler[t].stage = "commit" /\ Drop(t, c)
    /\ Store(t) \/ UNCHANGED notes
    /\ Fail(t) /\ UNCHANGED created

Respond(t) ==
    /\ handler[t].stage \in {"done", "failed"} /\ TaskEnds(t)
    /\ created' = IF handler[t].stage = "done" /\ handler[t].op = "insert"
                  THEN created \cup handler[t].rows ELSE created
    /\ handler' = [handler EXCEPT ![t] = NoHandler]
    /\ UNCHANGED notes

\* The client goes away: the handler is dropped, a COMMIT perhaps under way.
Cancelled(t) ==
    /\ handler[t].stage # "none" /\ TaskEnds(t)
    /\ \/ handler[t].stage = "commit" /\ Store(t)
       \/ UNCHANGED notes
    /\ handler' = [handler EXCEPT ![t] = NoHandler]
    /\ UNCHANGED created

NotesNext ==
    \/ \E t \in Tasks, op \in {"insert", "list"}, n \in Names,
          x \in TenantIds \cup {Missing}, json \in BOOLEAN : router(t, op, n, x, json)
    \/ \E t \in Tasks : BeginTenant(t) \/ BeginTenantFails(t) \/ Respond(t) \/ Cancelled(t)
    \/ \E t \in Tasks, c \in Conns :
          \/ Begins(t, c) \/ QueryFails(t, c) \/ Commits(t, c) \/ CommitFails(t, c)
          \/ insert_naive(t, c) \/ insert_fixed(t, c)
          \/ list_naive(t, c) \/ list_fixed(t, c)
    \/ \E c \in Conns :
          (ReturnStep(c) \/ Maintain(c) \/ Reap(c)) /\ UNCHANGED <<handler, notes, created>>

(* A handler runs until it awaits; acquire_timeout expires; the server      *)
(* answers or the connection breaks; the return task is scheduled.          *)
NotesFairness ==
    /\ \A t \in Tasks :
          /\ WF_notesVars(BeginTenant(t) \/ Respond(t))
          /\ WF_notesVars(BeginTenantFails(t) \/ \E c \in Conns : Begins(t, c))
          /\ WF_notesVars(\E c \in Conns : insert(t, c) \/ list(t, c) \/ QueryFails(t, c))
          /\ WF_notesVars(\E c \in Conns : Commits(t, c) \/ CommitFails(t, c))
    /\ \A c \in Conns : WF_notesVars(ReturnStep(c) /\ UNCHANGED <<handler, notes, created>>)

NotesSpec == NotesInit /\ [][NotesNext]_notesVars
NotesFairSpec == NotesSpec /\ NotesFairness

-----------------------------------------------------------------------------
NotesTypeOK ==
    /\ handler \in [Tasks -> Handler]
    /\ notes \in [Names -> SUBSET Note]
    /\ created \subseteq Note
    /\ \A t \in Tasks : handler[t].stage = "none" <=> pc[t] = "absent"

(* A list of a table that isolates has all the notes that the tenant that   *)
(* asked has by then, and no others, whoever used the connection before and *)
(* whatever failed or was abandoned on it (lib.rs:86-95; naive_notes does   *)
(* not isolate, which is its point, lib.rs:6-8).                            *)
ListsExactly ==
    [][\A t \in Tasks :
         /\ handler[t].op = "list" /\ Rls!Isolates(Catalog[handler[t].table])
         /\ handler[t].stage = "query" /\ handler'[t].stage = "commit"
         => handler'[t].rows =
              {row \in notes[handler[t].table] : row.owner = handler[t].tenant}]_notesVars

(* A client that was told of its note finds it: the answer comes after the  *)
(* commit, and no failure or cancellation of another request undoes it      *)
(* (lib.rs:58-59, 82-83).                                                   *)
CreatedIsKept == created \subseteq Stored

(* Every request is answered, or its client has gone: handlers ask for one  *)
(* connection each, and none for another while it holds one.                *)
RequestAnswered == \A t \in Tasks : handler[t].stage # "none" ~> handler[t].stage = "none"

(* Whatever clients do, each slot of the pool is free again and again: the  *)
(* handlers, unlike tasks in general, never keep a connection for ever.     *)
PoolDrains == \A c \in Conns : []<>(conn[c] \in {Idle, Closed})
==============================================================================
