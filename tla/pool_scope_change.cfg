SPECIFICATION Spec
CONSTANTS
  NoTenant = NoTenant
  NoTask = NoTask
  Unset = Unset
  Empty = Empty
  Tenants = {a, b}
  Tasks = {t1}
  Conns = {c1}
  Hooks = {"before_acquire", "after_connect", "after_release"}
  StartTenant = NoTenant
  MaxScope = 2
  MaxDepth = 0
  a = a
  b = b
INVARIANTS QueriesFollowScope
