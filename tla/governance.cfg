SPECIFICATION Spec
CONSTANTS
  DayLength = 3
  Week = 3
  Environments = {"production", "development"}
  Actions = {"resize", "delete"}
  Destructive = {"delete"}
  Categories = {"waste", "rightsizing"}
  Production = {"production"}
  ProductionConfidence = 2
  Recommendations <- MCRecommendations
  Drafts <- MCDrafts
  Windows <- MCWindows
  Freezes <- MCFreezes
  None = None
  MaxSaved = 2
  MaxTime = 10
INVARIANTS
  TypeOK
  AutomationIsEarned
  RestrictionsStand
  WindowsAreExact
