--------------------------- MODULE MCIsolationAudit ---------------------------
(* IsolationAudit on small catalogs. *)
EXTENDS IsolationAudit, TLC

\* Policies are told apart by their names only, tenants by theirs.
Symmetry == Permutations(PolicyNames) \cup Permutations(Tenants)

\* USING (true), and current_setting(...) IS NULL OR column = ...: they leak,
\* and the audit's pattern is in neither.
Always == [words |-> <<"true">>, admits |-> Settings \X Tenants]
NullOr == [words |-> <<"current_setting", "is null", "column", "current_setting">>,
           admits |-> FailOpen.admits]

\* column = COALESCE(current_setting(...), ''): strict, and the pattern is in it.
Flagged == [words |-> <<"column", "coalesce", "current_setting">>, admits |-> Own]

Written == {FailOpen, Always, NullOr, Flagged}
Leaky == {FailOpen, Always}
===============================================================================
