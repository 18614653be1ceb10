SPECIFICATION Spec
CONSTANTS
  Tenants = {a, b}
  Unset = Unset
  Schemas = {"app", "other"}
  AuditedSchemas = {"app"}
  Tables = {"orders"}
  PolicyNames = {p1}
  Kinds = {"r", "p"}
  HandWritten <- Written
  ColumnSaysCoalesce = FALSE
  MaxPolicies = 1
  MaxDdl = 2
SYMMETRY Symmetry
INVARIANTS TypeOK ReportIsAccurate PassingMeansEnforced
