SPECIFICATION Spec
CONSTANTS
  NoTenant = NoTenant
  NoTask = NoTask
  Unset = Unset
  Empty = Empty
  Tenants = {a, b}
  Tasks = {t1}
  Conns = {c1}
  Hooks = {"before_acquire", "after_connect", "after_release"}
  StartTenant = NoTenant
  MaxScope = 0
  MaxDepth = 2
  a = a
  b = b
PROPERTIES SavepointScopesTenant
