---------------------------- MODULE IsolationAudit ----------------------------
(***************************************************************************)
(* `Tenancy::ensure_isolation`: six catalog queries, one after the other,   *)
(* each on whatever connection the pool gives it and on a snapshot of its   *)
(* own, while migrations may be changing the catalog.                       *)
(***************************************************************************)
EXTENDS RowSecurity, FiniteSets

CONSTANTS AuditedSchemas,  \* Tenancy::schemas
          ColumnSaysCoalesce,  \* the tenant column's name contains "coalesce"
          MaxPolicies,     \* bound: policies on one table
          MaxDdl           \* bound: catalog changes during one audit

ASSUME AuditAssumption ==
    /\ AuditedSchemas \subseteq Schemas
    /\ ColumnSaysCoalesce \in BOOLEAN
    /\ MaxPolicies \in Nat /\ MaxDdl \in Nat

VARIABLES
    catalog,  \* catalog[n]: the table of that name
    next,     \* the query that the audit runs next, 0 when it is not running
    report,   \* the findings so far, as pairs of a category and a table
    outcome,  \* how the last audit ended: none yet, "report" or "error"
    ddl,      \* history: catalog changes since the audit began
    held,     \* history: the findings true ever since the audit began
    seen,     \* history: the findings true at some time since it began
    calm      \* history: at some time since it began there was no finding

vars == <<catalog, next, report, outcome, ddl, held, seen, calm>>
auditVars == <<next, report, outcome>>

-----------------------------------------------------------------------------
(* The queries, as predicates on a table.  A finding on a policy is counted *)
(* as a finding on its table.                                               *)

Audited(t) == t.schema \in AuditedSchemas

rls_no_policy(t) == t.kind = "r" /\ t.rowsecurity /\ t.policies = {}

policy_rls_off(t) == t.kind = "r" /\ ~t.rowsecurity /\ t.policies # {}

policy_no_force(t) ==
    t.kind = "r" /\ t.rowsecurity /\ ~t.forcerowsecurity /\ t.policies # {}

policy_no_with_check(t) ==
    \E p \in t.policies : p.cmd \in {"a", "w", "*"} /\ p.withcheck = NoExpr

\* ILIKE '%coalesce%current_setting%' on the printed expression.
MatchesFailOpen(e) ==
    \E i, j \in DOMAIN e.words :
        /\ i < j /\ e.words[j] = "current_setting"
        /\ e.words[i] = "coalesce" \/ (e.words[i] = "column" /\ ColumnSaysCoalesce)

\* Wrong: only USING is looked at.
policy_fail_open_using(t) == \E p \in t.policies : MatchesFailOpen(p.qual)
policy_fail_open(t) ==
    \E p \in t.policies : MatchesFailOpen(p.qual) \/ MatchesFailOpen(p.withcheck)

tenant_col_no_policy(t) == t.kind = "r" /\ t.tenantcol /\ t.policies = {}

Categories == <<"rls_no_policy", "policy_rls_off", "policy_no_force",
                "policy_no_with_check", "policy_fail_open", "tenant_col_no_policy">>

Finds(category, t) ==
    /\ Audited(t)
    /\ \/ category = "rls_no_policy" /\ rls_no_policy(t)
       \/ category = "policy_rls_off" /\ policy_rls_off(t)
       \/ category = "policy_no_force" /\ policy_no_force(t)
       \/ category = "policy_no_with_check" /\ policy_no_with_check(t)
       \/ category = "policy_fail_open" /\ policy_fail_open(t)
       \/ category = "tenant_col_no_policy" /\ tenant_col_no_policy(t)

\* What one query finds in a catalog, and what all six would.
Rows(category, cat) == {category} \X {n \in DOMAIN cat : Finds(category, cat[n])}
Findings(cat) == UNION {Rows(Categories[i], cat) : i \in DOMAIN Categories}

-----------------------------------------------------------------------------
Init ==
    /\ catalog = <<>>
    /\ next = 0 /\ report = {} /\ outcome = "none"
    /\ ddl = 0 /\ held = {} /\ seen = {} /\ calm = FALSE

ensure_isolation ==
    /\ next = 0
    /\ next' = 1 /\ report' = {} /\ outcome' = "none"
    /\ ddl' = 0 /\ held' = Findings(catalog) /\ seen' = Findings(catalog)
    /\ calm' = (Findings(catalog) = {})
    /\ UNCHANGED catalog

\* Wrong: what the earlier queries found is lost.
RunQuery_overwrites ==
    /\ next # 0
    /\ report' = Rows(Categories[next], catalog)
    /\ IF next = Len(Categories)
       THEN next' = 0 /\ outcome' = "report"
       ELSE next' = next + 1 /\ UNCHANGED outcome
    /\ UNCHANGED <<catalog, ddl, held, seen, calm>>

\* Wrong: one query too many.
RunQuery_past_the_end ==
    /\ next # 0
    /\ report' = report \cup Rows(Categories[next], catalog)
    /\ IF next > Len(Categories)
       THEN next' = 0 /\ outcome' = "report"
       ELSE next' = next + 1 /\ UNCHANGED outcome
    /\ UNCHANGED <<catalog, ddl, held, seen, calm>>

\* The query that is next, and Ok(report) after the last one.
RunQuery ==
    /\ next # 0
    /\ report' = report \cup Rows(Categories[next], catalog)
    /\ IF next = Len(Categories)
       THEN next' = 0 /\ outcome' = "report"
       ELSE next' = next + 1 /\ UNCHANGED outcome
    /\ UNCHANGED <<catalog, ddl, held, seen, calm>>

\* `?`: the findings so far are dropped with the report.
QueryFails ==
    /\ next # 0
    /\ next' = 0 /\ report' = {} /\ outcome' = "error"
    /\ UNCHANGED <<catalog, ddl, held, seen, calm>>

AuditStep == ensure_isolation \/ RunQuery \/ QueryFails

-----------------------------------------------------------------------------
(* Migrations, each statement committed on its own.  Those that come before *)
(* the first audit are not counted.                                         *)

Ddl(cat) ==
    /\ catalog' = cat
    /\ IF cat = catalog \/ (next = 0 /\ outcome = "none")
       THEN UNCHANGED ddl
       ELSE ddl < MaxDdl /\ ddl' = ddl + 1
    /\ held' = IF next = 0 THEN held ELSE held \cap Findings(cat)
    /\ seen' = IF next = 0 THEN seen ELSE seen \cup Findings(cat)
    /\ calm' = (calm \/ (next # 0 /\ Findings(cat) = {}))
    /\ UNCHANGED auditVars

With(n, t) == [m \in DOMAIN catalog \cup {n} |-> IF m = n THEN t ELSE catalog[m]]

NewTable(schema, kind, tenantcol) ==
    [schema |-> schema, kind |-> kind, tenantcol |-> tenantcol,
     rowsecurity |-> FALSE, forcerowsecurity |-> FALSE, policies |-> {}]

CreateTable(n) ==
    /\ n \notin DOMAIN catalog
    /\ \E s \in Schemas, k \in Kinds, b \in BOOLEAN : Ddl(With(n, NewTable(s, k, b)))

DropTable(n) == Ddl([m \in DOMAIN catalog \ {n} |-> catalog[m]])

\* ADD or DROP COLUMN, ENABLE or DISABLE, FORCE or NO FORCE.
AlterTable(n) ==
    \E b \in BOOLEAN :
        \/ Ddl([catalog EXCEPT ![n].tenantcol = b])
        \/ Ddl([catalog EXCEPT ![n].rowsecurity = b])
        \/ Ddl([catalog EXCEPT ![n].forcerowsecurity = b])

CreatePolicy(n, p) ==
    /\ Cardinality(catalog[n].policies) < MaxPolicies
    /\ \A q \in catalog[n].policies : q.name # p.name
    /\ Ddl([catalog EXCEPT ![n].policies = @ \cup {p}])

DropPolicy(n, p) == Ddl([catalog EXCEPT ![n].policies = @ \ {p}])

Migration ==
    \/ \E n \in Tables : CreateTable(n)
    \/ \E n \in DOMAIN catalog :
          \/ DropTable(n) \/ AlterTable(n)
          \/ \E p \in Policy : CreatePolicy(n, p)
          \/ \E p \in catalog[n].policies : DropPolicy(n, p)

Next == AuditStep \/ Migration

Spec == Init /\ [][Next]_vars

-----------------------------------------------------------------------------
Finding == {Categories[i] : i \in DOMAIN Categories} \X Tables

TypeOK ==
    /\ DOMAIN catalog \subseteq Tables
    /\ \A n \in DOMAIN catalog : catalog[n] \in Table
    /\ next \in 0 .. Len(Categories)
    /\ report \subseteq Finding
    /\ outcome \in {"none", "report", "error"}
    /\ ddl \in 0 .. MaxDdl
    /\ held \subseteq Finding /\ seen \subseteq Finding /\ calm \in BOOLEAN

(* Migrations running meanwhile neither hide a defect that was there all    *)
(* along nor make the audit report one that never was (audit.rs:246-405).   *)
ReportIsAccurate ==
    outcome = "report" => held \subseteq report /\ report \subseteq seen

HouseRule == {"policy_no_with_check"} \X Tables

(* The table's row security is in force: a session, bound or not, gets only *)
(* at rows of its own and at those that an expression of the table's own    *)
(* policies admits, one without the COALESCE pattern.                       *)
Enforced(t) ==
    \A v \in Settings : \A owner \in Tenants \ {v} :
        Gets(t, v, owner) =>
            \E p \in t.policies : \E e \in {p.qual, p.withcheck} :
                Admits(e, v, owner) /\ ~MatchesFailOpen(e)

(* audit.rs:44-54, 149-160: when the catalog has not changed since the      *)
(* audit began and a boot path lets nothing but missing WITH CHECKs pass,   *)
(* no row of an audited table that has the tenant column is at hand by any  *)
(* of the ways that the audit knows: no policy, row security off or not     *)
(* forced, COALESCE.  What is left are expressions that say so themselves,  *)
(* as USING (true) does, which it does not judge (SECURITY.md:37-40).       *)
PassingMeansEnforced ==
    outcome = "report" /\ report \subseteq HouseRule /\ ddl = 0 =>
        \A n \in DOMAIN catalog :
            Audited(catalog[n]) /\ catalog[n].kind = "r" /\ catalog[n].tenantcol
                => Enforced(catalog[n])

-----------------------------------------------------------------------------
(* Two readings of the documentation that the code does not bear out.       *)

(* audit.rs:130-134: policy_rls_off lists the "Tables with at least one     *)
(* policy attached but `ENABLE ROW LEVEL SECURITY` not set".  So none of    *)
(* them is left when a report on an unchanged catalog is clean.             *)
EveryTableAudited ==
    outcome = "report" /\ report = {} /\ ddl = 0 =>
        \A n \in DOMAIN catalog :
            Audited(catalog[n]) /\ catalog[n].policies # {} => catalog[n].rowsecurity

(* audit.rs:24-25: ensure_isolation is "run against a live `PgPool` at boot.*)
(* Returns a [`Report`] enumerating every finding".  While the audit of the *)
(* last clean report ran there was a moment without a finding: if there     *)
(* always is one, the report is not empty.                                  *)
CleanMeansOnceClean ==
    outcome = "report" /\ report = {} => calm
==============================================================================
