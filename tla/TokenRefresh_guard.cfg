SPECIFICATION Spec
CONSTANTS
  Conn = {c1, c2}
  Caller = {r1, r2}
  Reactive = {r1, r2}
  Sweep = {}
  None = none
  Dead = dead
  MaxToken = 2
  MaxTries = 1
  QuickRotations = FALSE
  Abandoning = FALSE
  Blips = FALSE
  Restarting = FALSE
  Revocable = {c1}
PROPERTIES FresherRowKept
CHECK_DEADLOCK FALSE
