SPECIFICATION Spec
CONSTANTS
  Tenants = {a, b}
  NoTenant = NoTenant
  NameLimit = 2
  Names <- Identifiers
  GucNames <- Dotted
  Reserved <- Words
  Helpers = {"Tenancy"}
  MaxCalls = 3
INVARIANTS TypeOK ValidatedOnce AnswersAsAsked
