SPECIFICATION TemplateSpec
CONSTANTS
  Tenants = {a, b}
  Unset = Unset
  Schemas = {"app", "other"}
  AuditedSchemas = {"app"}
  Tables = {"orders"}
  PolicyNames = {tenant_isolation, p1}
  Kinds = {"r"}
  HandWritten <- Written
  ColumnSaysCoalesce = FALSE
  MaxPolicies = 1
  MaxDdl = 3
  table = "orders"
  policy_name = tenant_isolation
  tenant_isolation = tenant_isolation
SYMMETRY Symmetry
INVARIANTS TemplateTypeOK TemplateOutputIsClean CleanMeansEnforced
PROPERTIES TemplateNeverExposes
