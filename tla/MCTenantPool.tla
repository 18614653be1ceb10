---------------------------- MODULE MCTenantPool ----------------------------
(* Small instances of TenantPool for model checking. *)
EXTENDS TenantPool

CONSTANTS a, b  \* the tenants, one of which may be StartTenant
==============================================================================
