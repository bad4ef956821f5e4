SPECIFICATION Spec
CONSTANTS
    AgentIds = {a1}  Tokens = {t1}  Models = {m1}  Requests = {r1, r2}
    Days <- MCDays  UtcDate <- MCUtcDate  DayLength = 1
    MaxClock = 1  Ttl = 1
    DefaultReservation = 1  MaxRequests = {2}  DailyBudgets = {2}  ReportedCosts = {3}
    StartPolicy = "confirm"
    MaxChanges = 1  MaxFaults = 1
    NoLimit = NoLimit  NoAgent = NoAgent  NoCost = NoCost
SYMMETRY HandlerSymmetry
INVARIANTS TypeOK ConfirmedMatchesLedger  OrphansComeFromFaults ForwardedIsRecorded
PROPERTIES ImplementsSpendAccount
CHECK_DEADLOCK FALSE
