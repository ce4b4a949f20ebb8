SPECIFICATION MCSpec
CONSTANTS
  Tabs = {t1, t2}
  Users = {u1, u2, u3}
  Requests = {r1, r2}
  None = None
  MaxLogins = 2
  MaxExpiries = 1
  MaxReloads = 1
  MaxLosses = 1
  Crews = {{t1, u1, u2, again}, {t1, u1, reload, loss}, {t1, u3, loss}, {t1, t2, u1, reload}}
  again = again
  reload = reload
  loss = loss
  Invited = {u3}
INVARIANTS SessionTypeOK OneSuccessor ReuseExplained CacheOneUser
PROPERTIES RequestsSettle RotationIsChain
CHECK_DEADLOCK FALSE
