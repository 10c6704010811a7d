SPECIFICATION SessionSpec
CONSTANTS
  t1 = t1 t2 = t2 c1 = c1 c2 = c2
  Tabs = {t1, t2}
  Calls = {c1, c2}
  MaxSends = 3
  MaxLogins = 1
  MaxLogouts = 1
  MaxReloads = 1
  MaxFaults = 1
SYMMETRY TabsAndCallsAlike
INVARIANTS SessionTypeOK RotationKeepsOne HeldTokenIsLive
PROPERTIES SignOutHasCause
CHECK_DEADLOCK FALSE
