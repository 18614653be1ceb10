--------------------------- MODULE MCPolicyTemplate ---------------------------
(* PolicyTemplate on one table, with the policies of MCIsolationAudit. *)
EXTENDS PolicyTemplate, TLC

Symmetry == Permutations(Tenants)

Always == [words |-> <<"true">>, admits |-> Settings \X Tenants]
NullOr == [words |-> <<"current_setting", "is null", "column", "current_setting">>,
           admits |-> FailOpen.admits]
Flagged == [words |-> <<"column", "coalesce", "current_setting">>, admits |-> Own]

Written == {FailOpen, Always, NullOr, Flagged}
===============================================================================
