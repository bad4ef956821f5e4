CONSTANTS
  AgentIds = {a1}
  Tokens = {t1, t2}
  Models = {m1}
  ReservationIds = {r1, r2, r3}
  Days <- MCDays
  UtcDate <- MCUtcDate
  DayLength = 3
  MaxClock = 3
  StaleAfter = 1
  EstimatedCosts = {1, 2}
  ReportedCosts = {0, 1, 3}
  DailyBudgets = {3}
  MaxRequests = {1}
  NoLimit = NoLimit
  NoAgent = NoAgent
SYMMETRY Symmetry
SPECIFICATION Spec
INVARIANTS TypeOK BudgetBound ConfirmedMatchesLedger SettledExactlyOnce
PROPERTIES ClosedDayIsFrozen AdmissionAfterRecovery ImplementsSpendAccount
CHECK_DEADLOCK FALSE
