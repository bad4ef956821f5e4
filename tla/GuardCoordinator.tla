-------------------------- MODULE GuardCoordinator --------------------------
(***************************************************************************)
(* The GuardCoordinator Durable Object of cloudflare/worker/index.ts: the  *)
(* agents of one tenant, their daily budgets, the reservations that are    *)
(* outstanding and the financial part of the ledger.                       *)
(*                                                                         *)
(* Every operation goes through update(), a storage read, a mutator that   *)
(* awaits nothing but storage, and a storage write; the input gate of a    *)
(* Durable Object admits no other event in between, so an operation is one *)
(* step.  The callers are unconstrained here: an operation may be called   *)
(* at any time, by anyone, with any reservation id that was ever issued.   *)
(* WorkerInference composes this module with the callers the code has.     *)
(***************************************************************************)
EXTENDS Integers, FiniteSets, MicroUsd

CONSTANTS
  AgentIds,        \* crypto.randomUUID() of an agent
  Tokens,          \* random agent tokens, identified with their SHA-256 hash
  Models,          \* model ids a request may name
  ReservationIds,  \* crypto.randomUUID() of a reservation
  Days,            \* UTC dates
  UtcDate,         \* the date of every instant of the clock
  MaxClock,        \* bound on the clock
  StaleAfter,      \* the age, 300000 ms in the code, above which a reservation is stale
  EstimatedCosts,  \* reservation amounts a request can be priced at
  ReportedCosts,   \* costs a provider can report
  DailyBudgets,    \* daily budgets an operator can enter; the code accepts negative ones
  MaxRequests,     \* per-request limits an operator can enter
  NoLimit,         \* maxRequestMicroUsd = null
  NoAgent          \* the agent record is absent

Clock == 0..MaxClock

ASSUME ClockAssumption == MaxClock \in Nat /\ StaleAfter \in Nat
ASSUME DateAssumption == UtcDate \in [Clock -> Days]
ASSUME AmountAssumption ==
  /\ EstimatedCosts \subseteq Nat
  /\ ReportedCosts \subseteq Nat
  /\ DailyBudgets \subseteq Int
  /\ MaxRequests \subseteq Int

VARIABLES
  agents,        \* state.agents, by id
  issuedTokens,  \* every token randomToken() has returned
  confirmed,     \* confirmedMicroUsd of every budget day
  reservations,  \* the reservations of all budget days
  ledger,        \* the financial events ever appended to the ledger
  now            \* Date.now()

vars == <<agents, issuedTokens, confirmed, reservations, ledger, now>>

Statuses == {"active", "paused", "disabled"}

Agents == [status : Statuses, archived : BOOLEAN, token : Tokens,
           allowedModels : SUBSET Models, dailyBudget : DailyBudgets,
           maxRequest : MaxRequests \cup {NoLimit}]

\* The marker of an absent record is not itself a record.
ASSUME NoAgentAssumption == NoAgent \notin Agents

Reservations == [id : ReservationIds, agent : AgentIds, date : Days,
                 amount : EstimatedCosts, createdAt : Clock]

EventTypes == {"BUDGET_RESERVED", "SPEND_CONFIRMED", "RESERVATION_RELEASED",
               "RESERVATION_RECOVERED"}

\* The code's event has the agent, the type and the amount; the reservation's
\* id, date and amount are kept beside them to relate the event to its budget.
Events == [type : EventTypes, id : ReservationIds, agent : AgentIds,
           date : Days, reserved : Nat, amount : Nat]

-----------------------------------------------------------------------------

utcDate == UtcDate[now]

Created == {a \in AgentIds : agents[a] # NoAgent}

\* The members of a set of reservations or events that belong to one budget.
Of(S, a, d) == {x \in S : x.agent = a /\ x.date = d}

\* What getBudget's entry for one agent and date holds against its limit.
Exposure(a, d) == confirmed[a][d] + Total(Of(reservations, a, d))

\* appendEvent for an event about reservation r.
Event(type, r, amount) ==
  [type |-> type, id |-> r.id, agent |-> r.agent, date |-> r.date,
   reserved |-> r.amount, amount |-> amount]

IssuedIds == {e.id : e \in {f \in ledger : f.type = "BUDGET_RESERVED"}}

\* A mistaken Stale: only the budgets of the current date are looked at.
StaleToday == {r \in reservations : r.createdAt < now - StaleAfter /\ r.date = utcDate}

\* The reservations recoverStaleReservations turns into confirmed spend.
Stale == {r \in reservations : r.createdAt < now - StaleAfter}

\* A mistaken Retained: what was recovered stays in the budget.
RetainedAll == reservations

Retained == reservations \ Stale

\* A mistaken RecoveredConfirmed: stale reservations are dropped, not charged.
DroppedConfirmed == confirmed

RecoveredConfirmed ==
  [a \in AgentIds |-> [d \in Days |-> confirmed[a][d] + Total(Of(Stale, a, d))]]

RecoveryEvents == {Event("RESERVATION_RECOVERED", r, r.amount) : r \in Stale}

\* recoverStaleReservations alone, as dashboard() and a refused authorize do it.
recoverStaleReservations ==
  /\ reservations' = Retained
  /\ confirmed' = RecoveredConfirmed
  /\ ledger' = ledger \cup RecoveryEvents

\* evaluateCloudPolicy: the first rule that denies gives the code.
evaluateCloudPolicy(agent, cost, model) ==
  IF agent.status = "disabled" THEN "AGENT_DISABLED"
  ELSE IF agent.status = "paused" THEN "AGENT_PAUSED"
  ELSE IF model \notin agent.allowedModels THEN "MODEL_NOT_ALLOWED"
  ELSE IF agent.maxRequest # NoLimit /\ cost > agent.maxRequest
       THEN "REQUEST_LIMIT_EXCEEDED"
  ELSE "ALLOWED"

\* A mistaken FitsDailyBudget: outstanding reservations are forgotten.
FitsConfirmed(a, cost) ==
  RecoveredConfirmed[a][utcDate] + cost <= agents[a].dailyBudget

\* A mistaken FitsDailyBudget: decided on what is left once the stale
\* reservations are removed, before they are charged.
FitsBeforeRecovery(a, cost) ==
  confirmed[a][utcDate] + Total(Of(Retained, a, utcDate)) + cost <= agents[a].dailyBudget

\* The daily budget check of authorize, made after the recovery.
FitsDailyBudget(a, cost) ==
  RecoveredConfirmed[a][utcDate] + Total(Of(Retained, a, utcDate)) + cost
    <= agents[a].dailyBudget

\* The decision authorize returns, in the order it makes it.
authorizeDecision(token, model, cost) ==
  IF \A a \in Created : agents[a].token # token THEN "INVALID_AGENT_TOKEN"
  ELSE LET a == CHOOSE b \in Created : agents[b].token = token
           decision == evaluateCloudPolicy(agents[a], cost, model)
       IN IF decision # "ALLOWED" THEN decision
          ELSE IF FitsDailyBudget(a, cost) THEN "ALLOWED"
          ELSE "DAILY_BUDGET_EXCEEDED"

-----------------------------------------------------------------------------

Init ==
  /\ agents = [a \in AgentIds |-> NoAgent]
  /\ issuedTokens = {}
  /\ confirmed = [a \in AgentIds |-> [d \in Days |-> 0]]
  /\ reservations = {}
  /\ ledger = {}
  /\ now = 0

\* authorize, when every check passes: the new reservation of the holder of
\* the token, in the budget of the current date.
Admit(a, model, cost, id) ==
  LET r == [id |-> id, agent |-> a, date |-> utcDate, amount |-> cost,
            createdAt |-> now]
  IN /\ a \in Created
     /\ evaluateCloudPolicy(agents[a], cost, model) = "ALLOWED"
     /\ FitsDailyBudget(a, cost)
     /\ id \notin IssuedIds
     /\ reservations' = Retained \cup {r}
     /\ confirmed' = RecoveredConfirmed
     /\ ledger' = ledger \cup RecoveryEvents \cup {Event("BUDGET_RESERVED", r, cost)}
     /\ UNCHANGED <<agents, issuedTokens, now>>

\* authorize, when a check refuses: the recovery has happened all the same.
Refuse(token, model, cost) ==
  /\ authorizeDecision(token, model, cost) # "ALLOWED"
  /\ recoverStaleReservations
  /\ UNCHANGED <<agents, issuedTokens, now>>

\* A mistaken confirm: a reservation that is gone is no reason not to book.
confirmAnyway(id, cost) ==
  \E e \in ledger :
    /\ e.id = id /\ e.type = "BUDGET_RESERVED"
    /\ reservations' = {r \in reservations : r.id # id}
    /\ confirmed' = [confirmed EXCEPT ![e.agent][e.date] = @ + cost]
    /\ ledger' = ledger \cup {[e EXCEPT !.type = "SPEND_CONFIRMED", !.amount = cost]}
    /\ UNCHANGED <<agents, issuedTokens, now>>

\* confirm: without effect when the reservation is gone; a cost above the
\* reserved bound disables the agent in the same update.
confirm(id, cost) ==
  \/ /\ \A r \in reservations : r.id # id
     /\ UNCHANGED vars
  \/ \E r \in reservations :
       /\ r.id = id
       /\ reservations' = reservations \ {r}
       /\ confirmed' = [confirmed EXCEPT ![r.agent][r.date] = @ + cost]
       /\ ledger' = ledger \cup {Event("SPEND_CONFIRMED", r, cost)}
       /\ agents' = IF cost > r.amount /\ r.agent \in Created
                    THEN [agents EXCEPT ![r.agent].status = "disabled"]
                    ELSE agents
       /\ UNCHANGED <<issuedTokens, now>>

\* A mistaken release: the reserved amount is taken off the confirmed spend.
releaseRefunding(id) ==
  \E r \in reservations :
    /\ r.id = id
    /\ reservations' = reservations \ {r}
    /\ confirmed' = [confirmed EXCEPT ![r.agent][r.date] = @ - r.amount]
    /\ ledger' = ledger \cup {Event("RESERVATION_RELEASED", r, r.amount)}
    /\ UNCHANGED <<agents, issuedTokens, now>>

\* release: without effect when the reservation is gone.
release(id) ==
  \/ /\ \A r \in reservations : r.id # id
     /\ UNCHANGED vars
  \/ \E r \in reservations :
       /\ r.id = id
       /\ reservations' = reservations \ {r}
       /\ ledger' = ledger \cup {Event("RESERVATION_RELEASED", r, r.amount)}
       /\ UNCHANGED <<agents, issuedTokens, confirmed, now>>

\* dashboard: every reading of it settles what is stale.
dashboard ==
  /\ recoverStaleReservations
  /\ UNCHANGED <<agents, issuedTokens, now>>

addAgent(a, token, allowed, budget, maxRequest) ==
  /\ agents[a] = NoAgent
  /\ token \notin issuedTokens
  /\ allowed # {}
  /\ agents' = [agents EXCEPT ![a] =
       [status |-> "active", archived |-> FALSE, token |-> token,
        allowedModels |-> allowed, dailyBudget |-> budget,
        maxRequest |-> maxRequest]]
  /\ issuedTokens' = issuedTokens \cup {token}
  /\ UNCHANGED <<confirmed, reservations, ledger, now>>

\* setStatus looks at nothing but the id: any status may follow any other, and
\* archivedAt is not consulted.
setStatus(a, status) ==
  /\ a \in Created
  /\ agents' = [agents EXCEPT ![a].status = status]
  /\ UNCHANGED <<issuedTokens, confirmed, reservations, ledger, now>>

archiveAgent(a) ==
  /\ a \in Created
  /\ agents[a].status = "disabled"
  /\ agents' = [agents EXCEPT ![a].archived = TRUE]
  /\ UNCHANGED <<issuedTokens, confirmed, reservations, ledger, now>>

rotateAgentToken(a, token) ==
  /\ a \in Created
  /\ ~agents[a].archived
  /\ token \notin issuedTokens
  /\ agents' = [agents EXCEPT ![a].token = token]
  /\ issuedTokens' = issuedTokens \cup {token}
  /\ UNCHANGED <<confirmed, reservations, ledger, now>>

\* Time passes between operations; inside one the clock of a Worker stands still.
Tick ==
  /\ now < MaxClock
  /\ now' = now + 1
  /\ UNCHANGED <<agents, issuedTokens, confirmed, reservations, ledger>>

-----------------------------------------------------------------------------

authorize ==
  \E model \in Models, cost \in EstimatedCosts :
    \/ \E a \in AgentIds, id \in ReservationIds : Admit(a, model, cost, id)
    \/ \E token \in Tokens : Refuse(token, model, cost)

settle ==
  \E id \in IssuedIds : release(id) \/ \E cost \in ReportedCosts : confirm(id, cost)

administer ==
  \E a \in AgentIds :
    \/ \E token \in Tokens, allowed \in SUBSET Models, budget \in DailyBudgets,
          maxRequest \in MaxRequests \cup {NoLimit} :
         addAgent(a, token, allowed, budget, maxRequest)
    \/ \E status \in Statuses : setStatus(a, status)
    \/ archiveAgent(a)
    \/ \E token \in Tokens : rotateAgentToken(a, token)

Next == authorize \/ settle \/ administer \/ dashboard \/ Tick

Spec == Init /\ [][Next]_vars

-----------------------------------------------------------------------------

TypeOK ==
  /\ agents \in [AgentIds -> Agents \cup {NoAgent}]
  /\ issuedTokens \subseteq Tokens
  /\ confirmed \in [AgentIds -> [Days -> Nat]]
  /\ reservations \subseteq Reservations
  /\ ledger \subseteq Events
  /\ now \in Clock

SettlementTypes == EventTypes \ {"BUDGET_RESERVED"}

Settlements == {e \in ledger : e.type \in SettlementTypes}

\* The settlements that cost the budget something.
Charges == {e \in ledger : e.type \in {"SPEND_CONFIRMED", "RESERVATION_RECOVERED"}}

\* The daily budget, where a negative one allows nothing.
DailyLimit(a) == IF agents[a].dailyBudget < 0 THEN 0 ELSE agents[a].dailyBudget

\* Whatever the order of admissions, late confirmations, recoveries and day
\* changes, what one agent has spent and reserved on one day stays within its
\* daily budget, except for exactly what providers reported above the bounds
\* they were reserved at (authorize, confirm, recoverStaleReservations).
BudgetBound ==
  \A a \in AgentIds, d \in Days :
    Exposure(a, d) <= (IF a \in Created THEN DailyLimit(a) ELSE 0)
                        + TotalExcess(Of(Charges, a, d))

\* The confirmed counter of a budget day is the sum of the SPEND_CONFIRMED and
\* RESERVATION_RECOVERED events of the ledger for that day: no settlement is
\* counted twice, lost, or booked on another agent or another day.
ConfirmedMatchesLedger ==
  \A a \in AgentIds, d \in Days : confirmed[a][d] = Total(Of(Charges, a, d))

\* Every reservation that was ever made is either outstanding or settled by
\* exactly one of confirm, release and recovery, although all three may be
\* called for it, in any order and more than once.
SettledExactlyOnce ==
  /\ \A r \in reservations, s \in reservations : r.id = s.id => r = s
  /\ \A r \in reservations, e \in Settlements : r.id # e.id
  /\ \A e \in Settlements, f \in Settlements : e.id = f.id => e = f
  /\ IssuedIds = {r.id : r \in reservations} \cup {e.id : e \in Settlements}

\* A past day without outstanding reservations is closed: no later admission,
\* confirmation or recovery changes what it cost, whatever day they happen on.
ClosedDayIsFrozen ==
  [][\A a \in AgentIds, d \in Days :
       (d # utcDate /\ Of(reservations, a, d) = {})
         => /\ confirmed'[a][d] = confirmed[a][d]
            /\ Of(reservations', a, d) = {}]_vars

\* A reservation is made on charged books: in the same update every stale one,
\* of any agent and any day, has gone and is confirmed spend of its own budget
\* at the full amount, and the new one fits the daily budget beside that spend.
AdmissionAfterRecovery ==
  [][\A r \in reservations' \ reservations :
       /\ \A s \in reservations' : s.createdAt >= now - StaleAfter
       /\ \A a \in AgentIds, d \in Days :
            confirmed'[a][d] =
              confirmed[a][d] + Total(Of(reservations \ reservations', a, d))
       /\ confirmed'[r.agent][r.date] + Total(Of(reservations', r.agent, r.date))
            <= agents[r.agent].dailyBudget]_vars

\* The abstract account of SpendAccount: the limits are the daily budgets, the
\* holds the outstanding reservations, the settlements those of the ledger.
AccountLimit == [a \in AgentIds |-> IF agents[a] = NoAgent THEN 0 ELSE DailyLimit(a)]

Account == INSTANCE SpendAccount
  WITH Owners <- AgentIds, limit <- AccountLimit, held <- reservations,
       settled <- Settlements

\* Every operation of the coordinator is a step of the abstract account.
ImplementsSpendAccount == Account!Spec
=============================================================================
