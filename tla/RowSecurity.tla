----------------------------- MODULE RowSecurity -----------------------------
(***************************************************************************)
(* What PostgreSQL records of a table's row security, and which rows the    *)
(* table then shows to, and accepts from, the role that owns it.  This is   *)
(* the role that the audit's documentation worries about (audit.rs:140-143);*)
(* it is not a superuser.  External to the repository, modelled from the    *)
(* catalog columns that the audit reads.                                    *)
(***************************************************************************)
EXTENDS Naturals, Sequences

CONSTANTS Tenants,      \* the tenants that own rows
          Unset,        \* the tenant setting reads as NULL
          Schemas,      \* schema names
          Tables,       \* table names
          PolicyNames,  \* policy names
          Kinds,        \* relation kinds: "r" ordinary, "p" partitioned
          HandWritten   \* the policy expressions that people write, any at all

Settings == Tenants \cup {Unset}

(* A policy expression: the words of it that the audit looks for, in the    *)
(* order in which pg_get_expr prints them, and what PostgreSQL makes of it: *)
(* the pairs of a setting and an owner for which it admits the row.         *)
Expression == [words : Seq(STRING), admits : SUBSET (Settings \X Tenants)]

ASSUME RowSecurityAssumption ==
    /\ Unset \notin Tenants
    /\ Kinds \subseteq {"r", "p"}
    /\ HandWritten \subseteq Expression

Own == {<<b, b>> : b \in Tenants}
NoExpr == [words |-> <<>>, admits |-> {}]
Strict == [words |-> <<"column", "current_setting">>, admits |-> Own]
FailOpen == [words |-> <<"coalesce", "current_setting", "column">>,
             admits |-> Own \cup {Unset} \X Tenants]

Exprs == {NoExpr, Strict} \cup HandWritten

\* polpermissive, polcmd, polqual and polwithcheck: what PostgreSQL lets a
\* policy have.
Policy ==
    {p \in [name : PolicyNames, permissive : BOOLEAN, cmd : {"r", "a", "w", "d", "*"},
            qual : Exprs, withcheck : Exprs] :
        /\ p.cmd = "a" => p.qual = NoExpr
        /\ p.cmd \in {"r", "d"} => p.withcheck = NoExpr}

Table == [schema : Schemas, kind : Kinds,
          tenantcol : BOOLEAN,         \* has the configured tenant column
          rowsecurity : BOOLEAN, forcerowsecurity : BOOLEAN,
          policies : SUBSET Policy]

-----------------------------------------------------------------------------
\* The expression admits a row of tenant owner when the setting is v.
Admits(e, v, owner) == <<v, owner>> \in e.admits

\* An omitted WITH CHECK falls back to USING.
CheckOf(p) == IF p.withcheck # NoExpr THEN p.withcheck ELSE p.qual

\* A command needs a permissive policy that admits the row, and no restrictive
\* one may refuse it; a policy without the expression in question does neither.
For(t, cmd) == {p \in t.policies : p.cmd \in {cmd, "*"}}

\* SELECT, UPDATE or DELETE gets at a row of the table.
Reaches(t, v, owner) ==
    \E cmd \in {"r", "w", "d"} :
        /\ \E p \in For(t, cmd) : p.permissive /\ Admits(p.qual, v, owner)
        /\ \A p \in For(t, cmd) :
              p.permissive \/ p.qual = NoExpr \/ Admits(p.qual, v, owner)

\* INSERT or UPDATE leaves a row in it.
Stores(t, v, owner) ==
    \E cmd \in {"a", "w"} :
        /\ \E p \in For(t, cmd) : p.permissive /\ Admits(CheckOf(p), v, owner)
        /\ \A p \in For(t, cmd) :
              p.permissive \/ CheckOf(p) = NoExpr \/ Admits(CheckOf(p), v, owner)

\* The owner bypasses row security that is off, and row security not forced.
Bypassed(t) == ~t.rowsecurity \/ ~t.forcerowsecurity

\* A session with setting v gets at, or stores, a row of tenant owner.
Gets(t, v, owner) == Bypassed(t) \/ Reaches(t, v, owner) \/ Stores(t, v, owner)

\* No session does for a row of a tenant other than its own.
Isolates(t) == \A v \in Settings : \A owner \in Tenants \ {v} : ~Gets(t, v, owner)
==============================================================================
