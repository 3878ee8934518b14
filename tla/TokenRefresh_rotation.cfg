SPECIFICATION ScenarioSpec
CONSTANTS
  Conn = {c1, c2}
  Caller = {req, pro, swp}
  Reactive = {req}
  Sweep = {swp}
  None = none
  Dead = dead
  MaxToken = 2
  MaxTries = 2
  QuickRotations = FALSE
  Abandoning = TRUE
  Blips = FALSE
  Restarting = TRUE
  Revocable = {c1}
INVARIANTS OneAtATime PresentedOnce
PROPERTIES DeactivationJustified EveryoneAnswered
