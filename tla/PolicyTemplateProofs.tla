------------------------- MODULE PolicyTemplateProofs -------------------------
(***************************************************************************)
(* What the template's statements do to a table and to an audit of it, for  *)
(* every state that earlier migrations may have left the table in.          *)
(***************************************************************************)
EXTENDS PolicyTemplate, IsolationAuditProofs

Target == catalog[table]

(* The order of full_sql, from the table's side: what was applied before    *)
(* the statement that is next is still in force.                            *)
StatementsLast ==
    /\ stmt >= 2 \/ done => Target.rowsecurity
    /\ stmt >= 3 \/ done => Target.forcerowsecurity

(* Query i has run in the audit that is running or came out last.           *)
Ran(i) == next > i \/ outcome = "report"

(* What the queries that found nothing leave to be said of the table, and   *)
(* no statement of the template undoes: FORCE and ENABLE come before the    *)
(* policy, so there is no policy that they do not yet guard.                *)
UnmatchedOrStrict(t) ==
    \A p \in t.policies : \A e \in {p.qual, p.withcheck} :
        ~MatchesFailOpen(e) \/ e = Strict

QueriesLast ==
    report = {} /\ Audited(Target) /\ Target.kind = "r" /\ Target.tenantcol =>
        /\ Ran(2) => Target.policies = {} \/ Target.rowsecurity
        /\ Ran(3) => Target.policies = {} \/ ~Bypassed(Target)
        /\ Ran(5) => UnmatchedOrStrict(Target)
        /\ Ran(6) => Target.policies # {}

TInv == TemplateTypeOK /\ StatementsLast /\ QueriesLast

-----------------------------------------------------------------------------
(* What a statement does to a table.                                        *)

LEMMA ThreeStatements ==
    /\ Len(full_sql) = 3
    /\ full_sql[1] = "ENABLE" /\ full_sql[2] = "FORCE" /\ full_sql[3] = "CREATE POLICY"
BY DEF full_sql

LEMMA TemplatePolicy ==
    /\ create_policy_sql \in Policy
    /\ create_policy_sql.qual = Strict /\ create_policy_sql.withcheck = Strict
BY TemplateAssumption DEF create_policy_sql, predicate, Policy, Exprs, Strict, NoExpr

(* No statement takes anything back, and what each adds.                    *)
LEMMA AppliedFacts ==
    ASSUME NEW t \in Table, NEW i \in 1 .. 3
    PROVE  LET new == Applied(full_sql[i], t)
           IN  /\ new \in Table
               /\ new.schema = t.schema /\ new.kind = t.kind /\ new.tenantcol = t.tenantcol
               /\ (new.rowsecurity <=> (t.rowsecurity \/ i = 1))
               /\ (new.forcerowsecurity <=> (t.forcerowsecurity \/ i = 2))
               /\ new.policies = IF i = 3 THEN t.policies \cup {create_policy_sql} ELSE t.policies
<1>1. CASE i = 1
  <2> DEFINE new == [t EXCEPT !.rowsecurity = TRUE]
  <2>1. Applied(full_sql[i], t) = new
    BY <1>1, ThreeStatements DEF Applied
  <2>2. new \in Table
    BY DEF Table
  <2>3. /\ new.schema = t.schema /\ new.kind = t.kind /\ new.tenantcol = t.tenantcol
        /\ new.rowsecurity = TRUE /\ new.forcerowsecurity = t.forcerowsecurity
        /\ new.policies = t.policies
    BY DEF Table
  <2> HIDE DEF new
  <2> QED
    BY <1>1, <2>1, <2>2, <2>3
<1>2. CASE i = 2
  <2> DEFINE new == [t EXCEPT !.forcerowsecurity = TRUE]
  <2>1. Applied(full_sql[i], t) = new
    BY <1>2, ThreeStatements DEF Applied
  <2>2. new \in Table
    BY DEF Table
  <2>3. /\ new.schema = t.schema /\ new.kind = t.kind /\ new.tenantcol = t.tenantcol
        /\ new.forcerowsecurity = TRUE /\ new.rowsecurity = t.rowsecurity
        /\ new.policies = t.policies
    BY DEF Table
  <2> HIDE DEF new
  <2> QED
    BY <1>2, <2>1, <2>2, <2>3
<1>3. CASE i = 3
  <2>1. Applied(full_sql[i], t) = [t EXCEPT !.policies = @ \cup {create_policy_sql}]
    BY <1>3, ThreeStatements DEF Applied
  <2> QED
    BY <1>3, <2>1, TemplatePolicy DEF Table
<1> QED
  BY <1>1, <1>2, <1>3

(* The table after the statement that is next.                              *)
LEMMA StatementApplied ==
    ASSUME TemplateTypeOK, ApplyStatement
    PROVE  /\ stmt \in 1 .. 3 /\ Target \in Table
           /\ Ddl(With(table, Applied(full_sql[stmt], Target)))
           /\ Target' = Applied(full_sql[stmt], Target)
           /\ DOMAIN catalog' = {table}
           /\ stmt' = (IF stmt = 3 THEN 0 ELSE stmt + 1)
           /\ done' \in BOOLEAN /\ (done' <=> (done \/ stmt = 3))
<1>1. stmt \in 1 .. 3 /\ Target \in Table /\ done \in BOOLEAN
  <2>1. stmt \in 0 .. 3 /\ stmt # 0 /\ done \in BOOLEAN
    BY ThreeStatements DEF TemplateTypeOK, ApplyStatement
  <2>2. Target \in Table
    BY DEF TemplateTypeOK, TypeOK, Target
  <2> QED
    BY <2>1, <2>2
<1>2. Ddl(With(table, Applied(full_sql[stmt], Target)))
  BY DEF ApplyStatement, Target
<1>3. catalog' = With(table, Applied(full_sql[stmt], Target))
  BY <1>2 DEF Ddl
<1>4. Target' = Applied(full_sql[stmt], Target) /\ DOMAIN catalog' = {table}
  BY <1>3 DEF With, Target, TemplateTypeOK
<1>5. /\ stmt' = (IF stmt = 3 THEN 0 ELSE stmt + 1)
      /\ done' \in BOOLEAN /\ (done' <=> (done \/ stmt = 3))
  BY <1>1, ThreeStatements DEF ApplyStatement
<1> QED
  BY <1>1, <1>2, <1>4, <1>5

-----------------------------------------------------------------------------
(* The invariant.                                                           *)

LEMMA TInitEstablishes == TemplateInit => TInv
<1> SUFFICES ASSUME TemplateInit PROVE TInv
  OBVIOUS
<1>1. EarlierTables \subseteq Table
  <2>1. PolicySets \subseteq SUBSET Policy
    <3>1. ASSUME NEW f \in [1 .. MaxPolicies -> Policy]
          PROVE  {f[i] : i \in 1 .. MaxPolicies} \in SUBSET Policy
      OBVIOUS
    <3> QED
      BY <3>1 DEF PolicySets
  <2> QED
    BY <2>1 DEF EarlierTables, Table
<1>2. DOMAIN catalog = {table} /\ Target \in Table
  <2>1. PICK t \in EarlierTables : catalog = [n \in {table} |-> t]
    BY DEF TemplateInit
  <2> QED
    BY <1>1, <2>1 DEF Target
<1>3. /\ next = 0 /\ report = {} /\ outcome = "none" /\ ddl = 0 /\ held = {} /\ seen = {}
      /\ calm = FALSE /\ stmt = 0 /\ done = FALSE
  BY DEF TemplateInit
<1>4. TemplateTypeOK
  <2>1. 0 \in 0 .. Len(Categories) /\ 0 \in 0 .. MaxDdl /\ 0 \in 0 .. Len(full_sql)
    <3>1. 0 \in 0 .. MaxDdl
      BY AuditAssumption
    <3>2. 0 \in 0 .. Len(Categories)
      BY SixQueries
    <3>3. 0 \in 0 .. Len(full_sql)
      <4>1. Len(full_sql) = 3
        BY ThreeStatements
      <4> QED
        BY <4>1
    <3> QED
      BY <3>1, <3>2, <3>3
  <2>2. DOMAIN catalog \subseteq Tables /\ \A n \in DOMAIN catalog : catalog[n] \in Table
    BY <1>2, TemplateAssumption DEF Target
  <2> QED
    BY <1>2, <1>3, <2>1, <2>2 DEF TemplateTypeOK, TypeOK
<1>5. StatementsLast /\ QueriesLast
  BY <1>3 DEF StatementsLast, QueriesLast, Ran
<1> QED
  BY <1>4, <1>5 DEF TInv

(* The audit reads the table and does not change it.                        *)
LEMMA AuditStepLasts ==
    ASSUME TInv, AuditStep, UNCHANGED <<stmt, done>>
    PROVE  TInv'
<1>1. catalog' = catalog /\ Target' = Target
  BY DEF AuditStep, ensure_isolation, RunQuery, QueryFails, Target
<1>2. TypeOK'
  BY AuditStepTyped DEF TInv, TemplateTypeOK
<1>3. TemplateTypeOK' /\ StatementsLast'
  BY <1>1, <1>2 DEF TInv, TemplateTypeOK, StatementsLast, full_sql
<1>4. QueriesLast'
  <2> SUFFICES ASSUME report' = {}, Audited(Target), Target.kind = "r", Target.tenantcol
               PROVE  /\ Ran(2)' => Target.policies = {} \/ Target.rowsecurity
                      /\ Ran(3)' => Target.policies = {} \/ ~Bypassed(Target)
                      /\ Ran(5)' => UnmatchedOrStrict(Target)
                      /\ Ran(6)' => Target.policies # {}
    BY <1>1 DEF QueriesLast, Audited, Bypassed, UnmatchedOrStrict
  <2>1. CASE ensure_isolation \/ QueryFails
    BY <2>1 DEF ensure_isolation, QueryFails, Ran
  <2>2. CASE RunQuery
    <3>1. next \in 1 .. 6 /\ report = {} /\ Rows(Categories[next], catalog) = {}
      BY <2>2, SixQueries DEF RunQuery, TInv, TemplateTypeOK, TypeOK
    <3>2. ~Finds(Categories[next], Target)
      <4>1. table \in DOMAIN catalog
        BY DEF TInv, TemplateTypeOK
      <4>2. Finds(Categories[next], Target) =>
               <<Categories[next], table>> \in Rows(Categories[next], catalog)
        BY <4>1 DEF Rows, Target
      <4> QED
        BY <3>1, <4>2
    <3>3. \A i \in 1 .. 6 : Ran(i)' => i = next \/ Ran(i)
      BY <2>2, <3>1, SixQueries DEF RunQuery, Ran
    <3>4. \A i \in 1 .. 6 : i < next => Ran(i)
      BY <3>1 DEF Ran
    <3>5. /\ Ran(2) => Target.policies = {} \/ Target.rowsecurity
          /\ Ran(3) => Target.policies = {} \/ ~Bypassed(Target)
          /\ Ran(5) => UnmatchedOrStrict(Target)
          /\ Ran(6) => Target.policies # {}
      BY <3>1 DEF TInv, QueriesLast
    <3>6. CASE next = 2
      <4>1. ~policy_rls_off(Target)
        BY <3>2, <3>6 DEF Finds, Categories
      <4> QED
        BY <3>3, <3>5, <3>6, <4>1 DEF policy_rls_off
    <3>7. CASE next = 3
      <4>1. ~policy_no_force(Target)
        BY <3>2, <3>7 DEF Finds, Categories
      <4> QED
        BY <3>3, <3>4, <3>5, <3>7, <4>1 DEF policy_no_force, Bypassed
    <3>8. CASE next = 5
      <4>1. ~policy_fail_open(Target)
        BY <3>2, <3>8 DEF Finds, Categories
      <4> QED
        BY <3>3, <3>4, <3>5, <3>8, <4>1 DEF policy_fail_open, UnmatchedOrStrict
    <3>9. CASE next = 6
      <4>1. ~tenant_col_no_policy(Target)
        BY <3>2, <3>9 DEF Finds, Categories
      <4> QED
        BY <3>3, <3>4, <3>5, <3>9, <4>1 DEF tenant_col_no_policy
    <3>10. CASE next \in {1, 4}
      BY <3>3, <3>4, <3>5, <3>10
    <3> QED
      BY <3>1, <3>6, <3>7, <3>8, <3>9, <3>10
  <2> QED
    BY <2>1, <2>2 DEF AuditStep
<1> QED
  BY <1>3, <1>4 DEF TInv

(* A statement undoes nothing that earlier statements and queries have      *)
(* established.                                                             *)
LEMMA StatementLasts ==
    ASSUME TInv, ApplyStatement
    PROVE  TInv'
<1>1. /\ stmt \in 1 .. 3 /\ Target \in Table
      /\ Ddl(With(table, Applied(full_sql[stmt], Target)))
      /\ Target' = Applied(full_sql[stmt], Target)
      /\ DOMAIN catalog' = {table}
      /\ stmt' = (IF stmt = 3 THEN 0 ELSE stmt + 1)
      /\ done' \in BOOLEAN /\ (done' <=> (done \/ stmt = 3))
  BY StatementApplied DEF TInv
<1>2. /\ Target' \in Table
      /\ Target'.schema = Target.schema /\ Target'.kind = Target.kind
      /\ Target'.tenantcol = Target.tenantcol
      /\ (Target'.rowsecurity <=> (Target.rowsecurity \/ stmt = 1))
      /\ (Target'.forcerowsecurity <=> (Target.forcerowsecurity \/ stmt = 2))
      /\ Target'.policies = IF stmt = 3 THEN Target.policies \cup {create_policy_sql}
                            ELSE Target.policies
  BY <1>1, AppliedFacts
<1>3. TypeOK'
  <2>1. Typed(catalog) /\ table \in Tables
    BY TemplateAssumption DEF TInv, TemplateTypeOK, TypeOK, Typed
  <2>2. Applied(full_sql[stmt], Target) \in Table
    BY <1>1, <1>2
  <2> QED
    BY <1>1, <2>1, <2>2, WithTyped, DdlTyped DEF TInv, TemplateTypeOK
<1>4. TemplateTypeOK'
  <2>1. done' \in BOOLEAN /\ stmt' \in 0 .. 3
    BY <1>1 DEF TInv, TemplateTypeOK
  <2> QED
    BY <1>1, <1>3, <2>1, ThreeStatements DEF TemplateTypeOK, full_sql
<1>5. StatementsLast'
  BY <1>1, <1>2 DEF TInv, StatementsLast
<1>6. QueriesLast'
  <2>1. next' = next /\ report' = report /\ outcome' = outcome
    BY <1>1 DEF Ddl, auditVars
  <2>2. \A i : Ran(i)' <=> Ran(i)
    BY <2>1 DEF Ran
  <2>3. stmt = 3 => Target.rowsecurity /\ Target.forcerowsecurity
    BY DEF TInv, StatementsLast
  <2>4. UnmatchedOrStrict(Target) => UnmatchedOrStrict(Target')
    BY <1>2, TemplatePolicy DEF UnmatchedOrStrict
  <2>5. UnmatchedOrStrict(Target)' = UnmatchedOrStrict(Target')
    BY DEF UnmatchedOrStrict, MatchesFailOpen, Strict, Own
  <2> QED
    BY <1>1, <1>2, <2>1, <2>2, <2>3, <2>4, <2>5
    DEF TInv, QueriesLast, Audited, Bypassed
<1> QED
  BY <1>4, <1>5, <1>6 DEF TInv

LEMMA TStepPreserves ==
    ASSUME TInv, [TemplateNext]_templateVars
    PROVE  TInv'
<1>1. CASE MigrationStarts \/ MigrationStops \/ UNCHANGED templateVars
  <2>1. /\ UNCHANGED vars /\ done' = done
        /\ stmt' \in {0, 1, stmt}
    BY <1>1 DEF MigrationStarts, MigrationStops, templateVars
  <2>2. TypeOK'
    BY <2>1 DEF TInv, TemplateTypeOK, TypeOK, vars, Finding, Categories
  <2>3. TemplateTypeOK'
    BY <2>1, <2>2, ThreeStatements DEF TInv, TemplateTypeOK, vars, full_sql
  <2>4. Target' = Target
    BY <2>1 DEF vars, Target
  <2>5. StatementsLast' /\ QueriesLast'
    BY <2>1, <2>4 DEF TInv, TemplateTypeOK, StatementsLast, QueriesLast, Ran, Audited,
       Bypassed, UnmatchedOrStrict, vars
  <2> QED
    BY <2>3, <2>5 DEF TInv
<1> QED
  BY <1>1, StatementLasts, AuditStepLasts DEF TemplateNext

(* The invariant on which the theorems below rest.                          *)
THEOREM TemplateInvariance == TemplateSpec => []TInv
BY TInitEstablishes, TStepPreserves, PTL DEF TemplateSpec

-----------------------------------------------------------------------------
(* The types, with the table always there and the statement one of three.   *)
THEOREM TemplateTypeOKAlways == TemplateSpec => []TemplateTypeOK
<1>1. TInv => TemplateTypeOK
  BY DEF TInv
<1> QED
  BY <1>1, TemplateInvariance, PTL

(* A session gets more from a table with more policies only if a permissive *)
(* one among the new ones admits the row.                                   *)
LEMMA OnlyOwnAdded ==
    ASSUME NEW t \in Table, NEW new \in Table, NEW v, NEW owner, owner # v,
           new.policies \in {t.policies, t.policies \cup {create_policy_sql}},
           Bypassed(new) => Bypassed(t), Gets(new, v, owner)
    PROVE  Gets(t, v, owner)
<1>1. /\ ~Admits(create_policy_sql.qual, v, owner)
      /\ ~Admits(CheckOf(create_policy_sql), v, owner)
  BY TemplatePolicy DEF Admits, CheckOf, Strict, Own
<1>2. \A cmd : /\ For(t, cmd) \subseteq For(new, cmd)
               /\ For(new, cmd) \subseteq For(t, cmd) \cup {create_policy_sql}
  BY DEF For
<1>3. CASE Bypassed(new)
  BY <1>3 DEF Gets
<1>4. CASE Reaches(new, v, owner)
  <2>1. PICK cmd \in {"r", "w", "d"} :
           /\ \E p \in For(new, cmd) : p.permissive /\ Admits(p.qual, v, owner)
           /\ \A p \in For(new, cmd) :
                 p.permissive \/ p.qual = NoExpr \/ Admits(p.qual, v, owner)
    BY <1>4 DEF Reaches
  <2> QED
    BY <1>1, <1>2, <2>1 DEF Reaches, Gets
<1>5. CASE Stores(new, v, owner)
  <2>1. PICK cmd \in {"a", "w"} :
           /\ \E p \in For(new, cmd) : p.permissive /\ Admits(CheckOf(p), v, owner)
           /\ \A p \in For(new, cmd) :
                 p.permissive \/ CheckOf(p) = NoExpr \/ Admits(CheckOf(p), v, owner)
    BY <1>5 DEF Stores
  <2> QED
    BY <1>1, <1>2, <2>1 DEF Stores, Gets
<1> QED
  BY <1>3, <1>4, <1>5 DEF Gets

(* Wherever a migration stops, and whatever policies and switches it found, *)
(* permissive or restrictive and with any expressions, none of its          *)
(* statements lets a session at another tenant's row that it could not get  *)
(* at or store before (policy.rs:87-127).                                   *)
THEOREM TemplateNeverExposesEver == TemplateSpec => TemplateNeverExposes
<1> DEFINE Safer == \A v \in Settings : \A owner \in Tenants \ {v} :
                       Gets(catalog'[table], v, owner) => Gets(catalog[table], v, owner)
<1>1. TInv /\ [TemplateNext]_templateVars => [Safer]_templateVars
  <2> SUFFICES ASSUME TInv, TemplateNext,
                      NEW v \in Settings, NEW owner \in Tenants \ {v},
                      Gets(Target', v, owner)
               PROVE  Gets(Target, v, owner)
    BY DEF Target
  <2>1. CASE ApplyStatement
    <3>1. /\ stmt \in 1 .. 3 /\ Target \in Table
          /\ Target' = Applied(full_sql[stmt], Target)
      BY <2>1, StatementApplied DEF TInv
    <3>2. /\ Target' \in Table
          /\ (Target'.rowsecurity <=> (Target.rowsecurity \/ stmt = 1))
          /\ (Target'.forcerowsecurity <=> (Target.forcerowsecurity \/ stmt = 2))
          /\ Target'.policies \in {Target.policies, Target.policies \cup {create_policy_sql}}
      BY <3>1, AppliedFacts
    <3>3. Bypassed(Target') => Bypassed(Target)
      BY <3>2 DEF Bypassed
    <3> QED
      BY <3>1, <3>2, <3>3, OnlyOwnAdded
  <2>2. CASE MigrationStarts \/ MigrationStops \/ AuditStep
    <3>1. Target' = Target
      BY <2>2 DEF MigrationStarts, MigrationStops, AuditStep, ensure_isolation,
         RunQuery, QueryFails, vars, Target
    <3> QED
      BY <3>1
  <2> QED
    BY <2>1, <2>2 DEF TemplateNext
<1> QED
  BY <1>1, TemplateInvariance, PTL DEF TemplateSpec, TemplateNeverExposes

(* policy.rs:6-8: once its statements are applied, a table whose only       *)
(* policy is the template's has no finding, whatever the table was before;  *)
(* provided that the tenant column's name does not contain "coalesce".      *)
THEOREM TemplateOutputIsCleanAlways ==
    ASSUME ColumnSaysCoalesce = FALSE
    PROVE  TemplateSpec => []TemplateOutputIsClean
<1>1. TInv => TemplateOutputIsClean
  <2> SUFFICES ASSUME TInv, done, Target.kind = "r",
                      Target.policies = {create_policy_sql}
               PROVE  Findings(catalog) = {}
    BY DEF TemplateOutputIsClean, Target
  <2>1. Target.rowsecurity /\ Target.forcerowsecurity
    BY DEF TInv, StatementsLast
  <2>2. ~MatchesFailOpen(Strict)
    BY DEF MatchesFailOpen, Strict
  <2>3. ~policy_no_with_check(Target) /\ ~policy_fail_open(Target)
    <3>1. create_policy_sql.withcheck # NoExpr
      BY TemplatePolicy DEF Strict, NoExpr
    <3> QED
      BY <2>2, <3>1, TemplatePolicy DEF policy_no_with_check, policy_fail_open
  <2>4. /\ ~rls_no_policy(Target) /\ ~policy_rls_off(Target)
        /\ ~policy_no_force(Target) /\ ~tenant_col_no_policy(Target)
    BY <2>1 DEF rls_no_policy, policy_rls_off, policy_no_force, tenant_col_no_policy
  <2>5. \A i \in 1 .. 6 : ~Finds(Categories[i], Target)
    BY <2>3, <2>4 DEF Finds
  <2>6. \A i \in 1 .. 6 : Rows(Categories[i], catalog) = {}
    BY <2>5 DEF Rows, Target, TInv, TemplateTypeOK
  <2> QED
    BY <2>6, SixQueries DEF Findings
<1> QED
  BY <1>1, TemplateInvariance, PTL

(* A clean report on the table means that its row security is in force when *)
(* the report comes out and from then on, although the statements may be    *)
(* applied between any two queries of the audit and the table may have had  *)
(* any policies before: what a session gets of another tenant's, one of     *)
(* these grants, in a form that the audit does not judge.                   *)
THEOREM CleanMeansEnforcedAlways == TemplateSpec => []CleanMeansEnforced
<1>1. TInv => CleanMeansEnforced
  <2> SUFFICES ASSUME TInv, outcome = "report", report = {},
                      Audited(Target), Target.kind = "r", Target.tenantcol
               PROVE  Enforced(Target)
    BY DEF CleanMeansEnforced, Target
  <2>1. \A i \in 1 .. 6 : Ran(i)
    BY DEF Ran
  <2>2. ~Bypassed(Target) /\ UnmatchedOrStrict(Target)
    BY <2>1 DEF TInv, QueriesLast
  <2>3. SUFFICES ASSUME NEW v \in Settings, NEW owner \in Tenants \ {v},
                        Gets(Target, v, owner)
                 PROVE  \E p \in Target.policies : \E e \in {p.qual, p.withcheck} :
                           Admits(e, v, owner) /\ ~MatchesFailOpen(e)
    BY DEF Enforced
  <2>4. ~Admits(Strict, v, owner)
    BY DEF Admits, Strict, Own
  <2>5. PICK p \in Target.policies :
           \E e \in {p.qual, p.withcheck} : Admits(e, v, owner)
    BY <2>2, <2>3, GotByPolicy
  <2>6. PICK e \in {p.qual, p.withcheck} : Admits(e, v, owner)
    BY <2>5
  <2>7. ~MatchesFailOpen(e)
    BY <2>2, <2>4, <2>6 DEF UnmatchedOrStrict
  <2> QED
    BY <2>6, <2>7
<1> QED
  BY <1>1, TemplateInvariance, PTL
==============================================================================
