# pg-rls: a TLA+ model

pg-rls is a Rust library that keeps the tenants of a multi-tenant PostgreSQL
application apart. It binds a session setting (a *GUC*, `app.tenant_id` by
default) to the tenant of the code that is running, so that row-level-security
policies can read it; it generates those policies; and it audits databases and
migration files for policies that do not do what they seem to.

What can go wrong with it is hard to test. A pooled connection outlives the
task that bound it. A transaction is dropped between two awaits. A hook fails
half-way. A migration runs while the audit is reading the catalog. Each of
these needs several actors and several steps, and its symptom is a row shown
to the wrong tenant. This directory models those parts of the library,
model-checks them with TLC and proves the most important of their properties
with TLAPS.

Paths such as `pool.rs:144` are under `src/crates/pg-rls/src/` unless they say
otherwise.

## 1. Inventory

### Components

| Component | State | Operations | Modelled in |
|---|---|---|---|
| Task scopes (`pool.rs`) | `TENANT_ID`, one task-local per task | `tenant_scope`, `scope_tenant`, `spawn_with_tenant`, `current_tenant` | `TenantPool` |
| Pool hooks (`pool.rs`) | none of their own; the GUC of each connection | `before_acquire`, `after_connect`, `after_release`, installed by `with_tenant_hooks` | `TenantPool`, `PgSession` |
| Explicit transactions (`tx.rs`) | the transaction-local GUC of the transaction's connection | `begin_tenant`, `set_tenant`, `PgPoolExt` | `TenantPool`, `PgSession` |
| Live audit (`audit.rs`) | the report that is being filled | `ensure_isolation`, `Report` | `IsolationAudit`, `RowSecurity` |
| Policy template (`policy.rs`) | the table's row security and policies, changed by its statements | `policy_template`, its overrides, `full_sql` and its parts | `PolicyTemplate`, `TenancyConfig` |
| Migration scan (`audit.rs`) | the variables of `split_statements`, the lints | `scan_migrations`, `scan_sql` | `MigrationScan` |
| Configuration (`config.rs`) | a `Tenancy`, consumed and returned by its builder methods | `guc`, `schema`, `schemas`, `tenant_column`, and the checks of their names | `TenancyConfig` |
| `TenantId` and its extractor (`extractor.rs`) | a request extension | `from_request_parts`, `parse` | `NotesExample` |
| Example server (`src/examples/rls`) | two tables of notes, a pool, the handlers under way | `create_naive`, `create_fixed`, `list_naive`, `list_fixed` | `NotesExample` |
| Crate root, docker set-up, tests, CI | | | no behaviour of its own, or not part of the program |

### How they interact

An axum middleware, `tenant_scope`, runs the handler inside a scope of the
task-local. The handler, and whatever it spawns, asks a sqlx pool for
connections. sqlx calls the hooks around that, and the hooks, which run in the
asking task, read the task-local and set the GUC of the connection. When the
connection is dropped sqlx spawns a task to return it; that task has no
task-local, flushes the rollbacks of dropped transactions, and runs
`after_release`. The other way is `begin_tenant`, which needs no hook: it sets
the GUC for one transaction. Both can be used on one pool and one connection.
Policies, made by the template or by hand, compare the GUC with the tenant
column. The audit reads the catalog for policies that do not.

A `Tenancy` names the GUC, the column and the schemas for all of them. The
names go to the server in two ways: as parameters (`set_config`, the audit's
queries), and in the text of statements (`RESET`, the policy), where it parses
them, folds them to lower case unless they are in quotes, cuts them to 63 bytes
and refuses reserved words.

The example server is the second way from end to end: a request's `TenantId`
is parsed to a UUID, `begin_tenant` binds a transaction to it on a pool without
hooks, and the policies of two tables, one of which does not isolate, decide
what an INSERT stores and a SELECT shows.

### What is hard

- *Interleaving.* The connection one task drops is popped by another, before,
  during or after the spawned return. `tokio::spawn` loses the task-local.
- *Paths to a connection.* It can be popped (`before_acquire`), opened
  (`after_connect`), opened because the popped one failed its check, or opened
  by the pool itself, in the caller of `connect` or in a background task.
- *Nesting.* Session-level and transaction-local values of one GUC, over
  transactions and savepoints that are committed, undone, failed or dropped.
- *Partial failure and cancellation.* BEGIN without `set_config`; a hook's
  statement in flight when the acquisition times out or its task is cancelled.
- *Limits.* Every connection held by tasks that wait for another one.
- *Snapshots.* The audit's six queries see six states of the catalog.
- *Partial migrations.* The template's statements are sent one at a time.
- *Names.* A Tenancy's builder methods in any order, on names at, over and
  beside the limits; two settings on one connection when a custom `Tenancy` is
  used with the free helpers.
- *Answers.* A COMMIT that fails, or whose handler is dropped, may or may not
  have taken effect.
- *Boundaries.* Line numbers after comments, the last statement without a
  semicolon, a cut at byte 120 of a text.

`PROJECT.json` lists the hazards at the lines where they bite, with the
property that covers each.

### What makes each component correct

- Hooks and scopes: a connection answers as the tenant its owner was in when it
  was handed out, whoever had it before; a connection that waits in the pool is
  bound to nobody; a slot is never lost; an acquisition is always answered.
- Transactions: a tenant chosen in a transaction does not outlive it.
- Audit: what it reports was there, what was there all along is reported, and a
  report good enough to boot on means that row security is in force. A session
  then gets at another tenant's row only if an expression of the table's own
  policies says so, and says it without the `COALESCE` pattern; those, such as
  `USING (true)`, the audit does not judge (`lib.rs:146-147`,
  `src/SECURITY.md:37-40`).
- Template: its output is clean; no prefix of its statements exposes more than
  there was, and none makes a clean report wrong.
- Scan: the lints are those of the definition, in order, or there is an error.
- Configuration: a name that was accepted is itself in quotes, and without them
  one setting or type, or an error if it is reserved; it never means another
  setting. A transaction answers as the tenant it was begun for.
- Example: a list shows the notes of the tenant that asked, all of them and no
  others; a note that was acknowledged is there; every request is answered, and
  no slot of the pool is lost.

## 2. Modules

```
PgSession              one session's GUC                       (external)
  TenantPool           tasks, scopes, pool, hooks, transactions
    -> TenantIsolation what they promise together, as INSTANCE ... WITH
    MCTenantPool       the tenants by name, for StartTenant
    TenantPoolProofs   with PgSessionProofs
      TenantPoolRefinementProofs
    NotesExample       the example's handlers, tables and requests on the pool
      MCNotesExample
      NotesExampleProofs

RowSecurity            tables, policies, who sees what         (external)
  <- NotesExample      as INSTANCE ... WITH, for its two tables
  IsolationAudit       the audit, and migrations as its environment
    MCIsolationAudit
    IsolationAuditProofs
    PolicyTemplate     the template's migration beside the audit
      MCPolicyTemplate
      PolicyTemplateProofs   with IsolationAuditProofs

TenancyConfig          the builders, and the names in hooks and transactions
  MCTenancyConfig
  TenancyConfigProofs

MigrationScan          scan_migrations against a definition of its lints
  MCMigrationScan
  MigrationScanProofs
```

Definitions whose comment begins with "Wrong:" are the model of a plausible
mistake in the definition that follows them. No specification uses them; each
shows that a property would notice the mistake (`mutants` in `PROJECT.json`).

### PgSession

PostgreSQL's rules for one custom setting of one session, as far as
`set_config(.., false)`, `set_config(.., true)`, `RESET`, and nested
transactions reach: a session-level value `base`, and one level per open
transaction or savepoint with a value `set` and a masking local value `loc`.
The difference between a setting that is unknown (NULL) and one that is blank
(what `RESET` leaves) is kept. It is external code, modelled from what the
library sends.

### TenantPool

| In the model | In the code |
|---|---|
| `tenant_scope`, `scope_tenant`, `ScopeEnds`, `spawn_with_tenant`, `Spawn`, `TaskEnds` | the functions of those names; the end of a scoped future; `tokio::spawn`; the end or the cancellation of a task at any await |
| `before_acquire`, `after_connect`, `after_release` | the three hooks, as functions on the session they run their SQL on |
| `Acquire`, `PopIdle`, `Connect`, `BeforeAcquire`, `BeforeAcquireFails`, `AfterConnect`, `AcquireFails` | sqlx's `acquire` around the hooks, with the timeout and the reconnection after a failed check |
| `Begin`, `BeginSetsTenant`, `BeginFails` | `begin_tenant`: BEGIN, `set_config`, and the `?` on each; `Pool::begin` is the first alone |
| `OpenTx`, `set_tenant`, `StatementFails`, `CommitTx`, `RollbackTx`, `Drop` | what a task does with a connection or a transaction |
| `AfterRelease`, `AfterReleaseFails`, `Maintain`, `Reap` | sqlx's return task, its background task and its reaper |

A slot's status follows the connection in it: closed, idle, checking or
connecting (a hook has yet to run), beginning, held, returning. `Hooks` says
which hooks are in force: all of them; none (`begin_tenant` alone); or without
`after_connect`, which is what happens when the application installs its own
(`pool.rs:77-85`). `StartTenant` is the tenant in whose scope the pool was
connected, if any.

`TenantIsolation` is the promise without the mechanism: a stack of tenants per
handed-out connection. The lowest is the tenant in scope at the hand-over, the
one moment at which the scope matters; `begin_tenant`'s tenant is above it; and
only a transaction's own `set_tenant` chooses anew. `ImplementsIsolation` maps
the pool to it.

### IsolationAudit, RowSecurity, PolicyTemplate

`RowSecurity` gives a table's catalog columns, and from them which rows the
table's owner gets at and may store (`Gets`): the role the audit's documentation
is about. A policy is permissive or restrictive, for one command or all, with an
expression for `USING` and one for `WITH CHECK`. An expression is the words of
its printed form that the audit's pattern looks for, and what it admits: any set
of pairs of a session's setting and a row's owner. `Strict` is the template's;
the constant `HandWritten` has those that people write, which may be any at all.
`IsolationAudit` runs the six queries (predicates on a table, in the
order of the code) as one action each, with `QueryFails` for the `?`, and
lets migrations (create and drop tables, alter columns and row security, create
and drop policies) commit between them. `held`, `seen` and `calm` are history:
the findings true throughout the audit, those true at some time, and whether
there ever was a moment without one.

`PolicyTemplate` replaces the arbitrary migrations by the one that applies the
template, to a table in any state; it may stop anywhere and be started again.

`Enforced`, of which both modules' verdicts are made, is what a passing report
can mean: whatever a session gets of another tenant, an expression of one of the
table's policies admits, and that expression does not match the audit's pattern.

### TenancyConfig

Each builder method is an action that takes effect or panics (`outcome`). A
name is a sequence of five classes of characters, which is what the checks
and the server tell apart. `schema(name)` is `schemas([name])`, in the code as in the model;
`policy_template` takes the first schema, and `Override` is the template's own
`schema`, `policy_name` and `cast`. `with_tenant_hooks` ends the building: from
then on there is a connection with a session-level and a transaction-local
value per setting, and `GucOf` says which of two settings a call names, that of
the `Tenancy` it is a method of or that of `Tenancy::default()`.

What the server makes of a name depends on where it stands. As a parameter of
`set_config` and `current_setting` it is `Setting`, the name in lower case. In
quotes (the policy) it is `Quoted`: itself, cut to `NameLimit`. Unquoted (`RESET`,
a cast) it is `Bare`: folded and cut, or a syntax error, which a word of
`Reserved` is too. `before_acquire` begins with the `RESET` of the release before
it (`Cleared`). Where that is an error the pool closes the connection, and the
next one is new.

### NotesExample

It extends `TenantPool`: a request is a task, `tenant_scope` without a tenant,
and each handler runs `begin_tenant`, its query and COMMIT with the pool's own
actions, in conjunction with its own state.

| In the model | In the code |
|---|---|
| `router`, `from_request_parts`, `parse`, `Fail` | axum's dispatch with the two extractors, and the parse of the `TenantId` at the top of each handler; a missing or unparsable one and a bad body are answered at once |
| `BeginTenant`, `Begins`, `BeginTenantFails` | `begin_tenant(..).await?`: the acquisition and its two statements, or the error |
| `insert_naive`, `insert_fixed`, `list_naive`, `list_fixed`, `QueryFails` | `fetch_one`, `fetch_all` and their `?`, which drops the transaction |
| `Commits`, `CommitFails` | `tx.commit().await?`: done; or an error after which nobody knows |
| `Respond`, `Cancelled` | the response; the client that goes away at any await |
| `naive_notes`, `fixed_notes`, `Catalog` | the migration's two tables, as `RowSecurity` sees them |

### MigrationScan

A file is a sequence of tokens: the phrases, characters and blanks that the
scanner tells apart. `split_statements` is the loop of the code, one token per
step, with its variables; `ReadFile`, `EndOfFile` and `Return` are the loop
over the files, which are listed by `Ascending`. `strip_sql_comments` cuts each
line (`OnLine`) in front of its first `--`; what it leaves is given as the
positions of a file that stay. `Lints` defines the result without any loop or
line: a comment is what follows a `--` up to the next newline, a statement the
words outside comments between two semicolons, its line one more than the
newlines in front of its first word.

## 3. Runs

| Run | Question | Distinct states |
|---|---|---|
| `pool_hooked` | two tasks, one connection, all hooks, savepoints, a pool connected inside a tenant's scope, failures and cancellations everywhere: who does a connection answer as (`LeaseBinds`), what is left on idle ones (`IdleUnbound`) and after a transaction (`RestoredAfterTx`), is that `TenantIsolation`; is every acquisition answered, and every slot free again when tasks end? | 84 000 |
| `notes` | two requests on one connection without hooks: do lists show what they should (`ListsExactly`), are acknowledged notes there (`CreatedIsKept`), is every request answered (`RequestAnswered`) and no slot lost (`PoolDrains`)? | 32 000 |
| `config` | every three builder calls on short names with capitals, digits, dots and a reserved word, then hooks and transactions: does validation at construction keep its word (`ValidatedOnce`), who do queries answer as (`AnswersAsAsked`), also where `RESET` is an error? | 81 000 |
| `audit_migrating` | is a report accurate while the catalog changes (`ReportIsAccurate`), and does one that a boot path accepts mean that row security is in force (`PassingMeansEnforced`)? | 562 000 |
| `template_migrating` | is the template's output clean, does a prefix of it expose anything, is row security in force after a clean report although it was being applied (`CleanMeansEnforced`)? | 477 000 |
| `scan_files` | are the lints, their lines and their order those of the definition, and is there an error if a file cannot be read? | 383 000 |

These pass. The others find a statement of the documentation that the code
does not bear out:

| Run | The documentation | The code |
|---|---|---|
| `pool_scope_change` | `pool.rs:3-4`: "Every query made in the scoped async call chain is auto-isolated" | the tenant is read when a connection is acquired (`pool.rs:144`); one held across a change of scope answers as before |
| `pool_savepoint` | `tx.rs:42-43`: `set_tenant` is to "scope a sub-block to a specific tenant" | when a savepoint is released, its tenant stays in the transaction around it |
| `audit_partitioned` | `audit.rs:130-131`: lists the tables with a policy and row security off | partitioned tables (`relkind = 'p'`) are in no category but the two on policies, so one with row security off and a policy that has its WITH CHECK is in a clean report |
| `audit_torn` | `audit.rs:24-25`: the report "enumerat[es] every finding" | a CREATE POLICY between queries 2 and 6 gives a clean report though there was a finding at every moment |
| `config_guc` | `config.rs:21-23`: `guc(..)` changes the setting that `set_tenant` and `PgPoolExt::begin_tenant` use | those two use the default `Tenancy` (`tx.rs:103`, `tx.rs:151`), so with a custom name they bind a setting that no policy reads; `tx.rs:79-80` says so |
| `scan_wide` | `audit.rs:435`: the snippet is "trimmed for display" | `shorten` slices at byte 120 and panics inside a character (`audit.rs:611`) |

The first two are also what `TenantIsolation` says: its `HandOut` looks at the
scope once, and its `Merge` hands a savepoint's tenant on. Applications can
live with both; they should know.

Some smaller observations have no run of their own. A GUC with a reserved word
for a part, such as `app.user`, passes validation and works in `set_config`, but
unquoted in `RESET` it is a syntax error: `before_acquire` without a tenant and
every `after_release` fail, and the pool closes each connection that it is given
back (`pool.rs:154`, `pool.rs:279`). That costs connections, and isolation
nothing: it is the second disjunct of `Unambiguous`, and `AnswersAsAsked` holds
with it. A tenant column whose name contains
`coalesce` (`ColumnSaysCoalesce = TRUE`) makes the audit flag the template's own
policy as fail-open, against "guaranteed to pass" in `src/README.md:57`;
`TemplateOutputIsClean` is checked for the other names. The scan normalises
whitespace only in what it displays (`audit.rs:535`), so a `WITH CHECK` spelled
with a newline or two spaces is not recognised, and the statement is flagged,
whereas a `CREATE POLICY` spelled so is missed. `PassingMeansEnforced` holds
with missing WITH CHECKs because PostgreSQL falls back to USING, which the
documentation says too (`audit.rs:44-54`): that category is a house rule. And it
says no more than row security in force: a policy `USING (true)`, or
`current_setting(..) IS NULL OR ..`, is in the catalogs of both runs and in no
report, and shows other tenants' rows. `lib.rs:146-147` says so.

### Bounds, and why they are enough

- Pool: two tasks contend for one connection. What one task leaves on a
  connection for another needs two tasks, and tasks that hold what others wait
  for need no second connection. `MaxScope` (nesting of scopes) is 1;
  `MaxDepth` (transactions and savepoints) is 2, where a release and a rollback
  of a savepoint differ. Two tenants tell one's binding from another's, and
  `StartTenant` is one of them. Larger pools are the theorems' matter.
- Notes: two requests and one connection, so that each is handed what the other
  left. Each table has an old note of each tenant, and one new note
  (`MaxNotes`) can be added: a list that shows too much or too little differs
  in one row. The layer above inserts two spellings of one UUID, another UUID, a
  text that is none, or no `TenantId`.
- Configuration: three builder calls (`MaxCalls`), enough to replace a list and
  the template that was made from it, or to override the template. `NameLimit`
  is 2 instead of 63, and names go up to one more: the checks and the server
  compare lengths with the limit only. GUC names are all pairs of parts, with no
  dot, one or two; the builders of one identifier get eight names, three of which
  are accepted, one for each reason to refuse the others. One word is reserved.
- Audit: one table with any columns, kind and schema, since no query and no
  policy relates two tables; one policy on it, permissive or restrictive, since
  each finding looks at one; two changes (`MaxDdl`) during an audit, enough
  to make a defect come and go between two queries. `HandWritten` has four
  expressions, one for each combination of leaking or not and matched by the
  pattern or not that `Strict` leaves; the unmatched leak is there twice, for
  every session and for one whose setting is NULL.
- Template: one table that starts in any state with at most one policy
  (`MaxPolicies`) of the same kinds, the template's name included, and gets the
  template's beside it; three changes are all the template makes in one go.
- Scan: all directories of two entries with at most four tokens between them,
  of seven kinds. That holds a comment with a semicolon, a statement after
  another, an unterminated one. `MaxSnippet` is beyond the length of those
  texts; `scan_wide` has it at 2.

The theorems below have no bounds: they hold for every set of tasks,
connections, tenants, tables, policies and expressions, and for every limit on
nesting.

Symmetry is used for tenants and policy names in the audit's and the template's
runs, where no constant singles one out, and never with liveness.

Deadlock is checked in every run. A task can always end, an audit can always
be started; the scan, which does stop, has the action `Returned` to say so.

### Fairness

`FairSpec` assumes weak fairness of `AcquireFails`, because sqlx arms
`acquire_timeout` for every acquisition; of the steps of `begin_tenant`, because
the server answers or the connection breaks; and of the return task, because
the runtime schedules what is spawned. No step of a task's own is fair: a task
may hold a connection for ever. `SlotsRecycled` therefore says *if* every task
is over again and again; nothing is assumed of the order in which they end.

`NotesFairness` can assume more, since the handlers are known: each runs on
until it awaits; each await ends, by the server's answer, a broken connection or
the timeout; and the return task is scheduled. Requests need not come, and
cancellations need not either. So `PoolDrains` has no *if*.

## 4. Proofs

`PgSessionProofs` shows what each operation on a session leaves: its type, its
depth, and the two that matter. Begin, commit, rollback, `set_tenant` and errors
keep `SetsBind(s, S)`, "every session-level value of s, at its base and at each
open level, binds a tenant in S". And `Stack(s)`, the tenants that s answers as
outside its transactions and in each of them, is a stack: BEGIN and SAVEPOINT
repeat its top, `set_tenant` replaces its top, a rollback pops it, RELEASE pops
it and hands its top on, COMMIT leaves one entry (`StackOpen`, `StackSetLocal`,
`StackRollback`, `StackRelease`, `StackCommit`).

`TenantPoolProofs`, for every pool:

- `Invariance`: `Spec => []IInv`. What one wants to know of a held connection,
  that its base binds the lease's tenant, is not inductive: COMMIT replaces the
  base by the innermost level's session value. So `IInv` says it of all levels
  (`Bound`, by `SetsBind`), and beside that says that a closed slot or one being
  opened has a new session (`Fresh`, what `after_connect` relies on), that
  connections in the pool or just popped are outside transactions
  (`OutsideTx`, what `before_acquire` relies on: the value it sets is then the
  base), that idle ones are unbound (`Unbound`), and that a session no hook binds
  has no session-level value at all (`NeverBound`). Each part is under the
  condition on the hooks in force that brings it about. One lemma per part of
  `Next` shows that it is kept.
- `TypeCorrect`, `LeaseBindsAlways` (with `before_acquire` and `after_connect`),
  `IdleUnboundAlways` (with `after_release`), `IdleUnboundWithoutHooks` (with
  none: `begin_tenant` leaves nothing behind), and `RestoredAfterTxAlways`, an
  action property, from the same invariant.
- `NeverAnotherTenantAlways`: with `before_acquire` alone, which is a pool whose
  `after_connect` the application has replaced, a connection may be unbound but
  never answers as another tenant. This is proved and not also run.

`TenantPoolRefinementProofs`, for every pool again:

- `PoolImplementsIsolation`: with `before_acquire` and `after_connect` in force,
  `Spec => ImplementsIsolation`. A handed-out connection's view is the stack of
  its session, so what a task does with it is `Enter`, `Choose`, `Leave`,
  `Merge` or `GiveBack` by the lemmas on stacks; a task's own steps are `Ask`,
  `ChangeScope` and `End`; and everything that happens to a connection on its
  way to a task or back, by whatever path, is a stutter or `HandOut`.
- `HandOut` is why `IInv` is not enough. It looks at the tenant in scope now,
  and the hook looked at it some steps earlier. So `RInv` (`RInvariance`) says
  that a connection on its way is for a task that is still waiting (`AskedFor`),
  and that no task waits for two (`OneAtATime`). A waiting task cannot change
  its scope. `HalfBegun` says how far `begin_tenant` has got, so that its failure
  or its last step leaves what a task that asked for a transaction is promised.
- The hypothesis is needed: without `after_connect` a new connection is handed
  out unbound, though its owner has a tenant.
- `UnhookedImplementsIsolation`: so does a pool that no hook binds, as long as no
  task is in a scope (`Scopeless`): `begin_tenant` and `set_tenant` alone. What
  the two have in common is `LeasesBind`, the hypothesis of the lemmas.

`NotesExampleProofs`, for any number of requests, connections, tenants and notes:

- `NotesImplementsPool`: `NotesSpec => Spec`. Each action of the server is one of
  the pool or leaves the pool alone, so the theorems on the pool hold of the
  example's, `NotesIdleUnbound` among them.
- `NotesImplementsIsolation`: the server has no hooks and no request is in a
  scope, so `TenantIsolation` is implemented by `begin_tenant` alone.
- `NotesInvariance`: beside the pool's `IInv`, each connection is free or one
  handler's, and no handler has two (`OneEach`). What a connection is doing
  follows the stage of its handler (`Serves`): it is being got, or begun on, or
  it is in that handler's only transaction, bound to the handler's tenant. That
  the transaction is the only one is why COMMIT gives the connection back, and
  that stage and connection agree is why the tenant of the query is that of the
  request. `HandlersOK` adds that a note is in its table before its client hears
  of it.
- `ListsExactlyAlways` needs `IsolatingTable` too: of the two tables only
  `fixed_notes` isolates, and it shows a session the rows of its tenant. And
  `OnlyListLists`: no other action answers a list. `CreatedIsKeptAlways` and
  `NotesTypeCorrect` follow from the invariant.

`IsolationAuditProofs`, for every catalog and any number of changes:

- `AuditInvariance`: while an audit runs, `held` is within the findings of the
  catalog and those within `seen`; the queries that have run have put what is
  held of their category into the report; and while nothing has changed, `held`
  *is* the findings of the catalog.
- `ReportIsAccurateAlways` follows at once. `PassingMeansEnforcedAlways` needs
  two lemmas more. `GotByPolicy`: what a session gets from a table whose row
  security is not bypassed, some expression of its policies admits, by USING, by
  WITH CHECK or by the fallback. `NoFindingEnforces`: a table with the tenant
  column and no finding but missing WITH CHECKs is not bypassed, and no expression
  of it matches the pattern. Nothing is assumed of the expressions: the theorem
  does not say that the table isolates, and with `USING (true)` it does not.
- `AuditTypeOKAlways`: each kind of migration leaves a well-formed catalog, and
  what is found in one is a finding.

`PolicyTemplateProofs`, for a table with any policies, permissive or restrictive
and with any expressions, on top of those:

- `TemplateInvariance`: statements that were applied are in force
  (`StatementsLast`); and what a query that found nothing says of the table
  stays true of it (`QueriesLast`), which is the point of the order of
  `full_sql`. When the policy is created, ENABLE and FORCE have been applied, so
  the findings that only a table with a policy can have do not come up after
  their queries have run.
- `CleanMeansEnforcedAlways` follows: once query 5 has found nothing, each
  expression of the table is unmatched or the template's own
  (`UnmatchedOrStrict`), and the latter admits no other tenant's row.
  `TemplateNeverExposesEver` follows because ENABLE and FORCE only take away, and
  a policy more gives a session no row but what it admits itself (`OnlyOwnAdded`).
  `TemplateOutputIsCleanAlways` has the
  hypothesis `ColumnSaysCoalesce = FALSE`; see section 3 for the other case.

`TenancyConfigProofs`, for names of any length, any limit, and any number of calls:

- Lemmas on names. What passes `validate_identifier` is not cut in quotes, and
  without them it is a word folded but not cut, unless it is reserved
  (`IdentifierFacts`, `SameQuoted`, `SameWord`). A valid GUC is two of them around
  the only dot (`Halves`), and folding the parts is folding the whole (`FoldJoins`).
  So RESET either means the setting that `set_config` means or is an error
  (`SameGuc`).
- `ConfigInvariance`: the `Tenancy` and its template are made of valid names
  (`Built`), a list of schemas is never empty, and the settings on the
  connection are the two of the `Tenancy` and the default (`Hooked`).
  `ConfigTypeOKAlways` and `ValidatedOnceAlways` follow.
- A connection that the pool hands out again carries no binding, whether RESET
  cleared it or was an error and the connection is new (`ClearedFacts`,
  `HooksCleared`). `AnswersAsAskedAlways` has the hypothesis `Helpers \subseteq {"Tenancy"}`: the
  program hooks and begins through its `Tenancy`. `config_guc` is the
  counterexample without it.

`MigrationScanProofs`, for any directory and any contents:

- Two definitions of a comment agree: what `strip_sql_comments` keeps, line by
  line, is what no `--` precedes on its line (`StripLeavesLive`). And a set of
  positions has one listing (`ListingUnique`, `ListingExists`). Such facts look
  like inductions over the text; they are proved from the least position at which
  they could fail, since < is well-founded on the naturals (`Least`).
- `ScanInvariance`: `Spec => []ScanInv`. What one wants, that the lints are exact
  in the end, says nothing of the middle of a file, so `ScanInv` relates the loop
  of `split_statements` to the definition at every character. `Loop` says that
  `start` is the first word since the last semicolon passed, or 0 if there is
  none, that `current_line` counts the newlines passed and `line_at_start`
  those in front of `start`. `AllRead` says that the lints so far are those
  of the files read and, of the current one, of the statements whose ends the
  loop has passed (`Found`); `Ordered` that they are in strict order, all of
  them before the current statement, that before the queue.
- `LintsAreExactAlways` follows: at the end the ends passed are all
  ends, and lints in strict order are as many as their set has members
  (`InOrderCount`), so none is given twice. `OkMeansAllReadAlways` and
  `ScanTypeOKAlways` are parts of the invariant.
- `OneTextAlways`: the queue and the text of the next file are the one listing of
  what they list, so `\in Ascending(..)` stands for the code's sort and its
  one string: never blocked, never a choice.

They assume the named ASSUMEs of the modules: the stand-ins for "no tenant",
"unset" and "blank" are not tenants and the last two differ; the hooks are
among the three, `StartTenant` is a tenant or none; a `TenantId` parses to a
tenant or to none; the audited schemas are schemas; the template's table and
policy are named as tables and policies are; a hand-written expression is words
and pairs of a setting and a tenant; names and reserved words are sequences of
the five classes of characters; limits and bounds are naturals. TLC evaluates them in
every run.

Model-checked only: liveness (`AcquireAnswered`, `SlotsRecycled`,
`RequestAnswered`, `PoolDrains`), which needs ENABLED. Every invariant and action
property of a passing run is a theorem, some under a hypothesis that this section
names. What the runs that expect a violation state is false of the code, and is in
section 3.

## 5. What is not modelled

- `Pool::close`, and connections detached from the pool.
- A connection that one task hands to another. The lease then stays its first
  owner's, as with a change of scope.
- SQL of the application that sets the GUC itself; superusers and roles with
  BYPASSRLS, who are above row security.
- The order in which an application stacks its middleware. `tenant_scope` in
  front of the layer that inserts the `TenantId` finds none, which is a request
  without a tenant; the example has no `tenant_scope`.
- `TenantId("")` in a scope, which reads as no tenant under every policy.
- The conversions of `TenantId` from and to the same text, and the messages of
  the extractor's rejection.
- Letters beyond ASCII in names, other than as members of the class of "all
  others", which the checks refuse. Words that are reserved in one place and not
  in another (`RESET`, a cast): `Reserved` is one set.
- The template's three statements in one transaction, which has fewer
  interleavings than the model.
- Policies `TO` particular roles: all apply to the one role of the model. Policy
  expressions that depend on anything but the tenant setting and the row's owner.
- In the scan: string literals, dollar quotes and block comments, which the
  code does not parse either, a directory that cannot be opened (the scan returns
  that error before anything else), and entries that the walk skips because
  they cannot be read (`audit.rs:509`).
- The wording of reports, errors and SQL.

## 6. Plan

Done, in this order: `PgSession` and `TenantPool`, with `TenantIsolation`;
their proofs; `RowSecurity` and `IsolationAudit`, with theirs;
`PolicyTemplate`; `MigrationScan`; `TenancyConfig`, with the two settings of a
custom `Tenancy` and the default helpers; `NotesExample`, which composes the
pool with the tables, and its proofs; then the proofs that pools with hooks and
without implement `TenantIsolation`, and those on the template and the
configuration; last `MigrationScan` without recursion, comments and listings
given by positions, and the proof that its lints are exact.

What the plan has left is out of the prover's reach: the four liveness
properties, which the runs check on their instances. Extensions that the code
would justify are in section 5; the first two of them, `Pool::close` with
detached connections and a connection handed to another task, would come first.
