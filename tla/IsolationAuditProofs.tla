------------------------- MODULE IsolationAuditProofs -------------------------
(***************************************************************************)
(* What a finished audit says, for every catalog and every course of        *)
(* migrations.                                                              *)
(***************************************************************************)
EXTENDS IsolationAudit, TLAPS

(* The audit runs or has returned a report: the histories are about it.     *)
Current == next # 0 \/ outcome = "report"

(* The queries that have run leave no held finding of their category out of *)
(* the report, and while the catalog does not change all findings are held. *)
IInv ==
    /\ next \in 0 .. 6 /\ ddl \in Nat
    /\ next # 0 => held \subseteq Findings(catalog) /\ Findings(catalog) \subseteq seen
    /\ next # 0 => \A i \in 1 .. next - 1 : \A f \in held :
                       f[1] = Categories[i] => f \in report
    /\ Current => report \subseteq seen
    /\ outcome = "report" => held \subseteq report
    /\ Current /\ ddl = 0 => held = Findings(catalog)

-----------------------------------------------------------------------------
(* There are six queries (audit.rs:251-402).                                *)
LEMMA SixQueries == Len(Categories) = 6 /\ DOMAIN Categories = 1 .. 6
BY DEF Categories

(* A finding comes from one of the queries, and what that query returns is  *)
(* what is to be found of its category.                                     *)
LEMMA FindingHasQuery ==
    ASSUME NEW cat, NEW f \in Findings(cat)
    PROVE  \E i \in 1 .. 6 : f[1] = Categories[i] /\ f \in Rows(Categories[i], cat)
<1>1. PICK i \in 1 .. 6 : f \in Rows(Categories[i], cat)
  BY SixQueries DEF Findings
<1>2. f[1] = Categories[i]
  BY <1>1 DEF Rows
<1> QED
  BY <1>1, <1>2

LEMMA QueryFinds ==
    ASSUME NEW cat, NEW i \in 1 .. 6
    PROVE  Rows(Categories[i], cat) \subseteq Findings(cat)
BY SixQueries DEF Findings

-----------------------------------------------------------------------------
LEMMA InitEstablishes == Init => IInv
BY DEF Init, IInv, Current

(* A change of the catalog takes from what is held and adds to what has     *)
(* been seen, and is counted unless no audit has begun.                     *)
LEMMA DdlPreserves ==
    ASSUME IInv, NEW cat, Ddl(cat)
    PROVE  IInv'
<1> USE DEF Current
<1>1. /\ next' = next /\ report' = report /\ outcome' = outcome /\ catalog' = cat
      /\ held' = IF next = 0 THEN held ELSE held \cap Findings(cat)
      /\ seen' = IF next = 0 THEN seen ELSE seen \cup Findings(cat)
  BY DEF Ddl, auditVars
<1>2. next' \in 0 .. 6 /\ ddl' \in Nat
  BY <1>1 DEF IInv, Ddl
<1>3. held' \subseteq held /\ seen \subseteq seen'
  BY <1>1
<1>4. next' # 0 => held' \subseteq Findings(catalog)' /\ Findings(catalog)' \subseteq seen'
  <2>1. Findings(catalog)' = Findings(cat)
    BY <1>1 DEF Findings, Rows
  <2> QED
    BY <1>1, <2>1
<1>5. next' # 0 => \A i \in 1 .. next' - 1 : \A f \in held' :
                       f[1] = Categories[i] => f \in report'
  BY <1>1, <1>3 DEF IInv
<1>6. Current' => report' \subseteq seen'
  BY <1>1, <1>3 DEF IInv
<1>7. outcome' = "report" => held' \subseteq report'
  BY <1>1, <1>3 DEF IInv
<1>8. Current' /\ ddl' = 0 => held' = Findings(catalog)'
  <2> SUFFICES ASSUME Current', ddl' = 0 PROVE held' = Findings(catalog)'
    OBVIOUS
  <2>1. cat = catalog /\ ddl = 0
    BY <1>1 DEF Ddl, IInv
  <2>2. Findings(catalog)' = Findings(catalog)
    BY <1>1, <2>1 DEF Findings, Rows
  <2> QED
    BY <1>1, <2>1, <2>2 DEF IInv
<1> QED
  BY <1>2, <1>4, <1>5, <1>6, <1>7, <1>8 DEF IInv

LEMMA MigrationIsDdl ==
    ASSUME Migration
    PROVE  \E cat : Ddl(cat)
BY Zenon DEF Migration, CreateTable, DropTable, AlterTable, CreatePolicy, DropPolicy

LEMMA RunQueryPreserves ==
    ASSUME IInv, RunQuery
    PROVE  IInv'
<1> USE DEF Current
<1>1. /\ next \in 1 .. 6
      /\ UNCHANGED <<catalog, ddl, held, seen>>
      /\ report' = report \cup Rows(Categories[next], catalog)
  BY DEF RunQuery, IInv
<1>2. Findings(catalog)' = Findings(catalog)
  BY <1>1 DEF Findings, Rows
<1>3. IF next = 6 THEN next' = 0 /\ outcome' = "report"
                  ELSE next' = next + 1 /\ outcome' = outcome
  BY SixQueries DEF RunQuery
<1>4. held \subseteq Findings(catalog) /\ Findings(catalog) \subseteq seen
  BY <1>1 DEF IInv
<1>5. report' \subseteq seen'
  BY <1>1, <1>4, QueryFinds DEF IInv
\* Of a category up to next, a held finding is now in the report.
<1>6. ASSUME NEW f \in held, NEW i \in 1 .. next, f[1] = Categories[i]
      PROVE  f \in report'
  <2>1. CASE i # next
    BY <1>1, <1>6, <2>1 DEF IInv
  <2>2. CASE i = next
    <3>1. PICK j \in 1 .. 6 : f[1] = Categories[j] /\ f \in Rows(Categories[j], catalog)
      BY <1>4, FindingHasQuery
    <3> QED
      BY <1>1, <1>6, <2>2, <3>1
  <2> QED
    BY <2>1, <2>2
<1>7. next' \in 0 .. 6 /\ ddl' \in Nat
  BY <1>1, <1>3 DEF IInv
<1>8. next' # 0 => \A i \in 1 .. next' - 1 : \A f \in held' :
                       f[1] = Categories[i] => f \in report'
  BY <1>1, <1>3, <1>6
<1>9. outcome' = "report" => held' \subseteq report'
  <2>1. CASE next = 6
    BY <1>1, <1>4, <1>6, <2>1, FindingHasQuery
  <2>2. CASE next # 6
    BY <1>1, <1>3, <2>2 DEF IInv
  <2> QED
    BY <2>1, <2>2
<1>10. Current' /\ ddl' = 0 => held' = Findings(catalog)'
  BY <1>1, <1>2 DEF IInv
<1> QED
  BY <1>1, <1>2, <1>4, <1>5, <1>7, <1>8, <1>9, <1>10 DEF IInv

LEMMA StepPreserves ==
    ASSUME IInv, [Next]_vars
    PROVE  IInv'
<1>1. CASE ensure_isolation
  <2>1. Findings(catalog)' = Findings(catalog)
    BY <1>1 DEF ensure_isolation, Findings, Rows
  <2> QED
    BY <1>1, <2>1 DEF ensure_isolation, IInv, Current
<1>2. CASE RunQuery
  BY <1>2, RunQueryPreserves
<1>3. CASE QueryFails
  BY <1>3 DEF QueryFails, IInv, Current
<1>4. CASE Migration
  BY <1>4, MigrationIsDdl, DdlPreserves
<1>5. CASE UNCHANGED vars
  <2>1. Findings(catalog)' = Findings(catalog)
    BY <1>5 DEF vars, Findings, Rows
  <2> QED
    BY <1>5, <2>1 DEF vars, IInv, Current
<1> QED
  BY <1>1, <1>2, <1>3, <1>4, <1>5 DEF Next, AuditStep

(* The invariant on which the theorems below rest.                          *)
THEOREM AuditInvariance == Spec => []IInv
BY InitEstablishes, StepPreserves, PTL DEF Spec

(* Migrations that run during the audit neither hide a defect that was      *)
(* there all along nor make it report one that never was.                   *)
THEOREM ReportIsAccurateAlways == Spec => []ReportIsAccurate
<1>1. IInv => ReportIsAccurate
  BY DEF IInv, Current, ReportIsAccurate
<1> QED
  BY <1>1, AuditInvariance, PTL

-----------------------------------------------------------------------------
(* What a session gets from a table whose row security is not bypassed, an  *)
(* expression of one of the table's policies admits.                        *)
LEMMA GotByPolicy ==
    ASSUME NEW t, NEW v, NEW owner, ~Bypassed(t), Gets(t, v, owner)
    PROVE  \E p \in t.policies : \E e \in {p.qual, p.withcheck} : Admits(e, v, owner)
<1>1. \A cmd : For(t, cmd) \subseteq t.policies
  BY DEF For
<1>2. CASE Reaches(t, v, owner)
  BY <1>1, <1>2 DEF Reaches
<1>3. CASE Stores(t, v, owner)
  BY <1>1, <1>3 DEF Stores, CheckOf
<1> QED
  BY <1>2, <1>3 DEF Gets

(* The findings other than a missing WITH CHECK are all that a table's      *)
(* expressions do not answer for themselves: in an audited ordinary table   *)
(* with the tenant column and none of them, row security is in force.       *)
LEMMA NoFindingEnforces ==
    ASSUME NEW t, Audited(t), t.kind = "r", t.tenantcol,
           \A i \in 1 .. 6 : Categories[i] # "policy_no_with_check" =>
                                 ~Finds(Categories[i], t)
    PROVE  Enforced(t)
<1>1. /\ ~policy_rls_off(t) /\ ~policy_no_force(t)
      /\ ~policy_fail_open(t) /\ ~tenant_col_no_policy(t)
  <2>1. /\ Categories[2] = "policy_rls_off" /\ Categories[3] = "policy_no_force"
        /\ Categories[5] = "policy_fail_open" /\ Categories[6] = "tenant_col_no_policy"
    BY DEF Categories
  <2>2. /\ ~Finds("policy_rls_off", t) /\ ~Finds("policy_no_force", t)
        /\ ~Finds("policy_fail_open", t) /\ ~Finds("tenant_col_no_policy", t)
    BY <2>1
  <2> QED
    BY <2>2 DEF Finds
<1>2. ~Bypassed(t)
  BY <1>1 DEF policy_rls_off, policy_no_force, tenant_col_no_policy, Bypassed
<1>3. \A p \in t.policies : \A e \in {p.qual, p.withcheck} : ~MatchesFailOpen(e)
  BY <1>1 DEF policy_fail_open
<1> QED
  BY <1>2, <1>3, GotByPolicy DEF Enforced

(* A boot path that lets nothing but missing WITH CHECKs pass starts only   *)
(* on tables whose row security is in force, whatever expressions people    *)
(* have written into their policies and whatever these admit, unless the    *)
(* catalog has changed since.                                               *)
THEOREM PassingMeansEnforcedAlways == Spec => []PassingMeansEnforced
<1>1. IInv => PassingMeansEnforced
  <2> SUFFICES ASSUME IInv, outcome = "report", report \subseteq HouseRule, ddl = 0,
                      NEW n \in DOMAIN catalog, Audited(catalog[n]),
                      catalog[n].kind = "r", catalog[n].tenantcol
               PROVE  Enforced(catalog[n])
    BY DEF PassingMeansEnforced
  <2>1. Findings(catalog) \subseteq HouseRule
    BY DEF IInv, Current
  <2>2. ASSUME NEW i \in 1 .. 6, Categories[i] # "policy_no_with_check"
        PROVE  ~Finds(Categories[i], catalog[n])
    <3> SUFFICES ASSUME Finds(Categories[i], catalog[n]) PROVE FALSE
      OBVIOUS
    <3>1. <<Categories[i], n>> \in Rows(Categories[i], catalog)
      BY DEF Rows
    <3>2. <<Categories[i], n>> \in HouseRule
      BY <2>1, <3>1, QueryFinds
    <3> QED
      BY <2>2, <3>2 DEF HouseRule
  <2> QED
    BY <2>2, NoFindingEnforces
<1> QED
  BY <1>1, AuditInvariance, PTL

-----------------------------------------------------------------------------
(* A catalog that migrations can leave.                                     *)
Typed(cat) ==
    /\ DOMAIN cat \subseteq Tables
    /\ \A n \in DOMAIN cat : cat[n] \in Table

(* All findings are about tables that there may be.                         *)
LEMMA FindingsTyped ==
    ASSUME NEW cat, DOMAIN cat \subseteq Tables
    PROVE  Findings(cat) \subseteq Finding
<1> SUFFICES ASSUME NEW f \in Findings(cat) PROVE f \in Finding
  OBVIOUS
<1>1. PICK i \in 1 .. 6 : f \in Rows(Categories[i], cat)
  BY FindingHasQuery
<1>2. \A n \in DOMAIN cat : <<Categories[i], n>> \in Finding
  BY SixQueries DEF Finding
<1>3. PICK n \in DOMAIN cat : f = <<Categories[i], n>>
  BY <1>1 DEF Rows
<1> QED
  BY <1>2, <1>3

(* One statement of a migration keeps the types if its catalog has them.    *)
LEMMA DdlTyped ==
    ASSUME TypeOK, NEW cat, Typed(cat), Ddl(cat)
    PROVE  TypeOK'
<1>1. /\ catalog' = cat /\ next' = next /\ report' = report /\ outcome' = outcome
      /\ held' = IF next = 0 THEN held ELSE held \cap Findings(cat)
      /\ seen' = IF next = 0 THEN seen ELSE seen \cup Findings(cat)
      /\ calm' \in BOOLEAN
  BY DEF Ddl, auditVars, TypeOK
<1>2. Findings(cat) \subseteq Finding
  BY FindingsTyped DEF Typed
<1>3. held' \subseteq Finding /\ seen' \subseteq Finding
  BY <1>1, <1>2 DEF TypeOK
<1>4. ddl' \in 0 .. MaxDdl
  BY AuditAssumption DEF Ddl, TypeOK
<1>5. /\ next' \in 0 .. Len(Categories) /\ report' \subseteq Finding
      /\ outcome' \in {"none", "report", "error"}
  BY <1>1 DEF TypeOK
<1>6. DOMAIN catalog' \subseteq Tables /\ \A n \in DOMAIN catalog' : catalog'[n] \in Table
  BY <1>1 DEF Typed
<1> QED
  BY <1>1, <1>3, <1>4, <1>5, <1>6 DEF TypeOK, Finding, Categories

(* Table n becomes t and the others stay.                                   *)
LEMMA WithTyped ==
    ASSUME Typed(catalog), NEW n \in Tables, NEW t \in Table
    PROVE  Typed(With(n, t))
BY DEF Typed, With

LEMMA ExceptTyped ==
    ASSUME Typed(catalog), NEW n \in DOMAIN catalog, NEW t \in Table
    PROVE  Typed([catalog EXCEPT ![n] = t])
BY DEF Typed

(* Every statement leaves a typed catalog.                                  *)
LEMMA MigrationTyped ==
    ASSUME TypeOK, Migration
    PROVE  TypeOK'
<1>0. Typed(catalog)
  BY DEF TypeOK, Typed
<1>1. ASSUME NEW n \in Tables, CreateTable(n) PROVE TypeOK'
  <2>1. PICK s \in Schemas, k \in Kinds, b \in BOOLEAN : Ddl(With(n, NewTable(s, k, b)))
    BY <1>1 DEF CreateTable
  <2>2. NewTable(s, k, b) \in Table
    BY DEF NewTable, Table
  <2> QED
    BY <1>0, <2>1, <2>2, WithTyped, DdlTyped
<1>2. ASSUME NEW n \in DOMAIN catalog, DropTable(n) PROVE TypeOK'
  <2> DEFINE cat == [m \in DOMAIN catalog \ {n} |-> catalog[m]]
  <2>1. Ddl(cat)
    BY <1>2 DEF DropTable
  <2>2. Typed(cat)
    BY <1>0 DEF Typed
  <2> QED
    BY <2>1, <2>2, DdlTyped
<1>3. ASSUME NEW n \in DOMAIN catalog, AlterTable(n) PROVE TypeOK'
  <2>1. catalog[n] \in Table
    BY DEF TypeOK
  <2>2. PICK t \in Table : Ddl([catalog EXCEPT ![n] = t])
    <3>1. PICK b \in BOOLEAN :
             \/ Ddl([catalog EXCEPT ![n].tenantcol = b])
             \/ Ddl([catalog EXCEPT ![n].rowsecurity = b])
             \/ Ddl([catalog EXCEPT ![n].forcerowsecurity = b])
      BY <1>3 DEF AlterTable
    <3>2. /\ [catalog[n] EXCEPT !.tenantcol = b] \in Table
          /\ [catalog[n] EXCEPT !.rowsecurity = b] \in Table
          /\ [catalog[n] EXCEPT !.forcerowsecurity = b] \in Table
      BY <2>1 DEF Table
    <3> QED
      BY <3>1, <3>2
  <2> QED
    BY <1>0, <2>2, ExceptTyped, DdlTyped
<1>4. ASSUME NEW n \in DOMAIN catalog, NEW p \in Policy,
             CreatePolicy(n, p) \/ DropPolicy(n, p)
      PROVE  TypeOK'
  <2>1. catalog[n] \in Table
    BY DEF TypeOK
  <2>2. PICK t \in Table : Ddl([catalog EXCEPT ![n] = t])
    <3>1. \/ Ddl([catalog EXCEPT ![n].policies = @ \cup {p}])
          \/ Ddl([catalog EXCEPT ![n].policies = @ \ {p}])
      BY <1>4 DEF CreatePolicy, DropPolicy
    <3>2. /\ [catalog[n] EXCEPT !.policies = @ \cup {p}] \in Table
          /\ [catalog[n] EXCEPT !.policies = @ \ {p}] \in Table
      BY <2>1 DEF Table
    <3> QED
      BY <3>1, <3>2
  <2> QED
    BY <1>0, <2>2, ExceptTyped, DdlTyped
<1>5. \A n \in DOMAIN catalog : catalog[n].policies \subseteq Policy
  BY DEF TypeOK, Table
<1> QED
  BY <1>1, <1>2, <1>3, <1>4, <1>5 DEF Migration

LEMMA AuditStepTyped ==
    ASSUME TypeOK, AuditStep
    PROVE  TypeOK'
<1>1. Findings(catalog) \subseteq Finding
  BY FindingsTyped DEF TypeOK
<1>2. catalog' = catalog /\ DOMAIN catalog' \subseteq Tables
      /\ \A n \in DOMAIN catalog' : catalog'[n] \in Table
  BY DEF AuditStep, ensure_isolation, RunQuery, QueryFails, TypeOK
<1>3. CASE ensure_isolation
  BY <1>1, <1>2, <1>3, SixQueries, AuditAssumption
  DEF ensure_isolation, TypeOK, Finding, Categories
<1>4. CASE RunQuery
  <2>1. next \in 1 .. 6 /\ report' \subseteq report \cup Findings(catalog)
    BY <1>4, SixQueries, QueryFinds DEF RunQuery, TypeOK
  <2>2. next' \in 0 .. 6 /\ outcome' \in {"none", "report", "error"}
    BY <1>4, <2>1, SixQueries DEF RunQuery, TypeOK
  <2> QED
    BY <1>1, <1>2, <1>4, <2>1, <2>2, SixQueries DEF RunQuery, TypeOK, Finding, Categories
<1>5. CASE QueryFails
  BY <1>2, <1>5, SixQueries DEF QueryFails, TypeOK, Finding, Categories
<1> QED
  BY <1>3, <1>4, <1>5 DEF AuditStep

(* The catalog holds what PostgreSQL's may and the report findings about    *)
(* its tables, whatever migrations do.                                      *)
THEOREM AuditTypeOKAlways == Spec => []TypeOK
<1>1. Init => TypeOK
  <2> SUFFICES ASSUME Init PROVE TypeOK
    OBVIOUS
  <2>1. DOMAIN catalog = {}
    BY DEF Init
  <2>2. next = 0 /\ ddl = 0 /\ 0 \in 0 .. Len(Categories) /\ 0 \in 0 .. MaxDdl
    BY SixQueries, AuditAssumption DEF Init
  <2> QED
    BY <2>1, <2>2 DEF Init, TypeOK
<1>2. TypeOK /\ [Next]_vars => TypeOK'
  <2> SUFFICES ASSUME TypeOK, [Next]_vars PROVE TypeOK'
    OBVIOUS
  <2>1. CASE UNCHANGED vars
    BY <2>1 DEF vars, TypeOK, Finding, Categories
  <2> QED
    BY <2>1, AuditStepTyped, MigrationTyped DEF Next
<1> QED
  BY <1>1, <1>2, PTL DEF Spec
==============================================================================
