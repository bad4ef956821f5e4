CONSTANTS
  AgentIds = {a1}
  Tokens = {t1}
  Models = {m1}
  Requests = {q1}
  Days <- MCDays
  UtcDate <- MCUtcDate
  DayLength = 3
  MaxClock = 3
  StaleAfter = 1
  LastAdmission = 3
  EstimatedCosts = {1}
  ReportedCosts = {1, 2}
  DailyBudgets = {2}
  MaxRequests = {}
  NoLimit = NoLimit
  NoAgent = NoAgent
  NoCall = NoCall
  NoCost = NoCost
  MaxFaults = 0
SPECIFICATION Spec
PROPERTIES OverrunDisables
CHECK_DEADLOCK FALSE
