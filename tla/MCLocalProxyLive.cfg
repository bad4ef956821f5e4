SPECIFICATION FairSpec
CONSTANTS
    AgentIds = {a1}  Tokens = {t1, t2}  Models = {m1}  Requests = {r1}
    Days <- MCDays  UtcDate <- MCUtcDate  DayLength = 1
    MaxClock = 0  Ttl = 1
    DefaultReservation = 1  MaxRequests = {2}  DailyBudgets = {1, 2}  ReportedCosts = {3}
    StartPolicy = "confirm"
    MaxChanges = 2  MaxFaults = 0
    NoLimit = NoLimit  NoAgent = NoAgent  NoCost = NoCost
PROPERTIES EventuallySettled
CHECK_DEADLOCK FALSE
