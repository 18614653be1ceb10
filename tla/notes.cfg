SPECIFICATION NotesFairSpec
CONSTANTS
  NoTenant = NoTenant
  NoTask = NoTask
  Unset = Unset
  Empty = Empty
  a = a
  b = b
  Tenants = {a, b}
  Tasks = {t1, t2}
  Conns = {c1}
  Hooks = {}
  StartTenant = NoTenant
  MaxScope = 0
  MaxDepth = 1
  TenantIds = {"a", "A", "b", "acme"}
  Missing = Missing
  Uuid <- Parsed
  MaxNotes = 1
INVARIANTS NotesTypeOK CreatedIsKept IdleUnbound
PROPERTIES ListsExactly ImplementsIsolation RequestAnswered PoolDrains
