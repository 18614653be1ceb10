SPECIFICATION Spec
CONSTANTS
  Tenants = {a, b}
  Unset = Unset
  Schemas = {"app"}
  AuditedSchemas = {"app"}
  Tables = {"orders"}
  PolicyNames = {p1}
  Kinds = {"r", "p"}
  HandWritten <- Leaky
  ColumnSaysCoalesce = FALSE
  MaxPolicies = 1
  MaxDdl = 0
INVARIANTS EveryTableAudited
