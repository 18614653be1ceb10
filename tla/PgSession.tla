------------------------------ MODULE PgSession ------------------------------
(***************************************************************************)
(* How one PostgreSQL session keeps the tenant setting (`app.tenant_id` or  *)
(* the name given to `Tenancy::guc`).  pg-rls never sees this state: it     *)
(* drives it with `set_config(guc, v, false)`, `set_config(guc, v, true)`   *)
(* and `RESET guc`, and row policies read it with                           *)
(* `current_setting(guc, true)`.  Everything here is external to the        *)
(* repository and is modelled from how src/ uses it.                        *)
(*                                                                         *)
(* A session is a record:                                                  *)
(*   base     the session-level value outside any transaction;             *)
(*   levels   one level per open transaction or savepoint, innermost last: *)
(*            set is the session-level value as that level sees it, loc    *)
(*            the transaction-local value that masks it, if any;           *)
(*   aborted  an error has occurred and only a rollback is accepted.       *)
(***************************************************************************)
EXTENDS Naturals, Sequences

CONSTANTS Tenants,   \* tenant identifiers that policies tell apart
          NoTenant,  \* the absence of a tenant
          Unset,     \* the setting is unknown to the session: reads as NULL
          Empty      \* the setting is known and blank: reads as ''

ASSUME SentinelAssumption ==
    /\ NoTenant \notin Tenants /\ Unset \notin Tenants /\ Empty \notin Tenants
    /\ Unset # Empty

Bindings == Tenants \cup {NoTenant}
Values == Tenants \cup {Unset, Empty}
Level == [set : Values, loc : Bindings]
Session == [base : Values, levels : Seq(Level), aborted : BOOLEAN]

\* A session that the server has just started.
NewSession == [base |-> Unset, levels |-> <<>>, aborted |-> FALSE]

InTx(s) == s.levels # <<>>
Depth(s) == Len(s.levels)
Top(s) == s.levels[Len(s.levels)]

\* The tenant a setting value binds: unknown and blank bind none.
BindingOf(v) == IF v \in Tenants THEN v ELSE NoTenant
LevelBinding(lv) == IF lv.loc # NoTenant THEN lv.loc ELSE BindingOf(lv.set)

\* The tenant that a policy evaluated now would see.
Visible(s) == IF InTx(s) THEN LevelBinding(Top(s)) ELSE BindingOf(s.base)

-----------------------------------------------------------------------------
(* The first SET, set_config or RESET of a dotted name creates its          *)
(* placeholder.  The placeholder outlives the transaction that created it:  *)
(* from then on the setting reads as '' where it used to read as NULL.      *)
Known(v) == IF v = Unset THEN Empty ELSE v

KnownLevels(s) ==
    [i \in DOMAIN s.levels |->
        [set |-> Known(s.levels[i].set), loc |-> s.levels[i].loc]]

\* s with session-level value v: it ends the masking by a local value.
WithSessionValue(s, v) ==
    IF InTx(s)
    THEN [base |-> Known(s.base),
          levels |-> [KnownLevels(s) EXCEPT
                        ![Depth(s)] = [set |-> v, loc |-> NoTenant]],
          aborted |-> s.aborted]
    ELSE [s EXCEPT !.base = v]

\* SELECT set_config(guc, tenant, false)
SetSession(s, tenant) == WithSessionValue(s, tenant)

\* RESET guc: a placeholder has no boot value, so it becomes blank.
Reset(s) == WithSessionValue(s, Empty)

\* SELECT set_config(guc, tenant, true), inside a transaction.
SetLocal(s, tenant) ==
    [base |-> Known(s.base),
     levels |-> [KnownLevels(s) EXCEPT
                   ![Depth(s)] = [set |-> Known(Top(s).set), loc |-> tenant]],
     aborted |-> s.aborted]

-----------------------------------------------------------------------------
(* sqlx opens with BEGIN at depth 0 and with SAVEPOINT below it.  A         *)
(* savepoint starts from the values of the level that encloses it.          *)
Open(s) ==
    [s EXCEPT !.levels = Append(s.levels,
                            IF InTx(s) THEN Top(s)
                            ELSE [set |-> s.base, loc |-> NoTenant])]

\* Some statement of the transaction failed.
Abort(s) == [s EXCEPT !.aborted = TRUE]

\* ROLLBACK, or ROLLBACK TO SAVEPOINT: the level's values are discarded.
Rollback(s) ==
    [base |-> s.base,
     levels |-> SubSeq(s.levels, 1, Depth(s) - 1),
     aborted |-> FALSE]

(* COMMIT keeps session-level values and ends local ones.  RELEASE          *)
(* SAVEPOINT hands the level's values, local ones included, to the          *)
(* enclosing level.  An aborted level can only be rolled back.              *)
Commit(s) ==
    IF s.aborted THEN Rollback(s)
    ELSE IF Depth(s) = 1
    THEN [base |-> Top(s).set, levels |-> <<>>, aborted |-> FALSE]
    ELSE [base |-> s.base,
          levels |-> [SubSeq(s.levels, 1, Depth(s) - 1)
                        EXCEPT ![Depth(s) - 1] = Top(s)],
          aborted |-> FALSE]

\* The rollbacks queued by the Transaction values that were dropped.
RollbackAll(s) == [base |-> s.base, levels |-> <<>>, aborted |-> FALSE]
==============================================================================
