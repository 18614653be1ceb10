---------------------------- MODULE PolicyTemplate ----------------------------
(***************************************************************************)
(* `Tenancy::policy_template`: the statements of full_sql applied to a      *)
(* table one at a time, as its documentation says, by a migration that may  *)
(* stop anywhere and be run again, while the audit may be running.          *)
(***************************************************************************)
EXTENDS IsolationAudit

CONSTANTS table,        \* PolicyTemplate::table
          policy_name   \* PolicyTemplate::policy_name

ASSUME TemplateAssumption == table \in Tables /\ policy_name \in PolicyNames

VARIABLES
    stmt,  \* the statement to be applied next, 0 when no migration is running
    done   \* history: a migration has applied all statements

templateVars == <<stmt, done, vars>>

\* Wrong: fails open when the setting is unset.
predicate_coalesce == FailOpen

predicate == Strict

create_policy_sql == [name |-> policy_name, permissive |-> TRUE, cmd |-> "*",
                      qual |-> predicate, withcheck |-> predicate]

\* Wrong: the policy comes first.
full_sql_policy_first == <<"CREATE POLICY", "ENABLE", "FORCE">>
\* Wrong: FORCE is forgotten.
full_sql_no_force == <<"ENABLE", "CREATE POLICY">>

full_sql == <<"ENABLE", "FORCE", "CREATE POLICY">>

\* The server accepts statement s on t, and what t becomes.
Accepted(s, t) ==
    s = "CREATE POLICY" => t.tenantcol /\ \A p \in t.policies : p.name # policy_name
Applied(s, t) ==
    CASE s = "ENABLE" -> [t EXCEPT !.rowsecurity = TRUE]
      [] s = "FORCE" -> [t EXCEPT !.forcerowsecurity = TRUE]
      [] s = "CREATE POLICY" -> [t EXCEPT !.policies = @ \cup {create_policy_sql}]

-----------------------------------------------------------------------------
\* The states that earlier migrations may have left the table in, with up to
\* MaxPolicies policies, each with a name of its own.
PolicySets ==
    {{}} \cup {{f[i] : i \in 1 .. MaxPolicies} : f \in [1 .. MaxPolicies -> Policy]}

EarlierTables ==
    {t \in [schema : Schemas, kind : Kinds, tenantcol : BOOLEAN,
            rowsecurity : BOOLEAN, forcerowsecurity : BOOLEAN, policies : PolicySets] :
        \A p, q \in t.policies : p.name = q.name => p = q}

TemplateInit ==
    /\ \E t \in EarlierTables : catalog = [n \in {table} |-> t]
    /\ next = 0 /\ report = {} /\ outcome = "none"
    /\ ddl = 0 /\ held = {} /\ seen = {} /\ calm = FALSE
    /\ stmt = 0 /\ done = FALSE

MigrationStarts == stmt = 0 /\ stmt' = 1 /\ UNCHANGED <<done, vars>>

\* Wrong: one statement too many.
ApplyStatement_past_the_end ==
    /\ stmt # 0
    /\ Accepted(full_sql[stmt], catalog[table])
    /\ Ddl(With(table, Applied(full_sql[stmt], catalog[table])))
    /\ IF stmt > Len(full_sql)
       THEN stmt' = 0 /\ done' = TRUE
       ELSE stmt' = stmt + 1 /\ UNCHANGED done

ApplyStatement ==
    /\ stmt # 0
    /\ Accepted(full_sql[stmt], catalog[table])
    /\ Ddl(With(table, Applied(full_sql[stmt], catalog[table])))
    /\ IF stmt = Len(full_sql)
       THEN stmt' = 0 /\ done' = TRUE
       ELSE stmt' = stmt + 1 /\ UNCHANGED done

\* A statement fails (the policy exists, the cast does not fit the column),
\* or whoever applies them stops.
MigrationStops == stmt # 0 /\ stmt' = 0 /\ UNCHANGED <<done, vars>>

TemplateNext ==
    \/ MigrationStarts \/ ApplyStatement \/ MigrationStops
    \/ AuditStep /\ UNCHANGED <<stmt, done>>

TemplateSpec == TemplateInit /\ [][TemplateNext]_templateVars

-----------------------------------------------------------------------------
TemplateTypeOK ==
    /\ TypeOK
    /\ DOMAIN catalog = {table}
    /\ stmt \in 0 .. Len(full_sql) /\ done \in BOOLEAN

(* policy.rs:6-8: once all statements are applied, a table whose only       *)
(* policy is the template's has no finding.                                 *)
TemplateOutputIsClean ==
    done /\ catalog[table].kind = "r" /\ catalog[table].policies = {create_policy_sql}
        => Findings(catalog) = {}

(* Wherever a migration stops, and whatever policies the table had, no      *)
(* statement of the template lets a session at another tenant's row that it *)
(* could not get at before (policy.rs:87-127).                              *)
TemplateNeverExposes ==
    [][\A v \in Settings : \A owner \in Tenants \ {v} :
         Gets(catalog'[table], v, owner) => Gets(catalog[table], v, owner)]_templateVars

(* The order of the statements makes a clean report good even when they are *)
(* applied while the audit runs: the table's row security is in force when  *)
(* the report comes out, and from then on.                                  *)
CleanMeansEnforced ==
    outcome = "report" /\ report = {} =>
        LET t == catalog[table]
        IN  Audited(t) /\ t.kind = "r" /\ t.tenantcol => Enforced(t)
==============================================================================
