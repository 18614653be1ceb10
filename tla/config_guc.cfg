SPECIFICATION Spec
CONSTANTS
  Tenants = {a, b}
  NoTenant = NoTenant
  NameLimit = 2
  Names <- Identifiers
  GucNames <- Dotted
  Reserved <- Words
  Helpers = {"Tenancy", "free"}
  MaxCalls = 1
INVARIANTS AnswersAsAsked
