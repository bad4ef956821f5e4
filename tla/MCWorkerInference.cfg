CONSTANTS
  AgentIds = {a1}
  Tokens = {t1, t2}
  Models = {m1}
  Requests = {q1}
  Days <- MCDays
  UtcDate <- MCUtcDate
  DayLength = 2
  MaxClock = 3
  StaleAfter = 1
  LastAdmission = 1
  EstimatedCosts = {1}
  ReportedCosts = {0, 1, 2}
  DailyBudgets = {2}
  MaxRequests = {}
  NoLimit = NoLimit
  NoAgent = NoAgent
  NoCall = NoCall
  NoCost = NoCost
  MaxFaults = 1
SPECIFICATION FairSpec
INVARIANTS TypeOK SettlementMatchesReply SettledBeforeTheEnd
PROPERTIES AdmissionIsCurrent ImplementsCoordinator EventuallySettled OnlyOrbioKeepsWaiting
CHECK_DEADLOCK FALSE
