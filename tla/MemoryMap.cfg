CONSTANTS
  Top = 7
  Limits = {4, 7}
  AddressMod = 16
  OwnPages = 9
  Guard = 1
  MaxSessions = 2
SPECIFICATION MapSpec
INVARIANTS
  ModulesFound
  GetIsExact
  LeftoverIsExplained
  AbortIsExplained
CHECK_DEADLOCK FALSE
