SPECIFICATION FairSpec
CONSTANTS
  NoTenant = NoTenant
  NoTask = NoTask
  Unset = Unset
  Empty = Empty
  Tenants = {a, b}
  Tasks = {t1, t2}
  Conns = {c1}
  Hooks = {"before_acquire", "after_connect", "after_release"}
  StartTenant = a
  MaxScope = 1
  MaxDepth = 2
  a = a
  b = b
INVARIANTS TypeOK LeaseBinds IdleUnbound
PROPERTIES RestoredAfterTx ImplementsIsolation AcquireAnswered SlotsRecycled
