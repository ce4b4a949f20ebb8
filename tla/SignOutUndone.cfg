SPECIFICATION MCSpec
CONSTANTS
  Tabs = {t1}
  Users = {u1}
  Requests = {r1}
  None = None
  MaxLogins = 2
  MaxExpiries = 1
  MaxReloads = 0
  MaxLosses = 0
  Crews = {{t1, u1}}
  again = again
  reload = reload
  loss = loss
  Invited = {}
PROPERTIES SignedOutHoldsNoTokens
CHECK_DEADLOCK FALSE
