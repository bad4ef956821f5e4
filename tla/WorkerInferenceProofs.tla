----------------------- MODULE WorkerInferenceProofs -----------------------
(***************************************************************************)
(* The handlers of the Worker use the coordinator as GuardCoordinator      *)
(* assumes: the composition implements it, and what is proved about the    *)
(* coordinator holds of the system.  On top of it, an invariant of the     *)
(* handlers relates every reservation and every settlement to the handler  *)
(* that made it and to what that handler knows of the provider's response. *)
(***************************************************************************)
EXTENDS WorkerInference, TLAPS

\* A handler settles a reservation it was given, at a cost the coordinator takes.
CallsOK ==
  /\ call \in [Requests -> Calls \cup {NoCall}]
  /\ pc \in [Requests -> {"idle"} \cup Working \cup Ends]
  /\ bound \in [Requests -> EstimatedCosts \cup {0}]
  /\ upstream \in [Requests -> Upstreams]
  /\ \A q \in Requests : pc[q] # "idle" => call[q] \in Calls
  /\ \A q \in Requests : pc[q] \in Admitted =>
       q \in G!IssuedIds /\ bound[q] \in EstimatedCosts

LEMMA InitCalls == Init => CallsOK
  BY DEF Init, CallsOK, Admitted, Working, Ends, Upstreams

\* The ledger keeps every reservation it has recorded.
LEMMA Growing ==
  ASSUME ledger \subseteq ledger'
  PROVE  G!IssuedIds \subseteq G!IssuedIds'
  BY DEF G!IssuedIds

LEMMA CostReported ==
  ASSUME CallsOK, NEW q \in Requests, pc[q] = "confirm"
  PROVE  ConfirmedCost(q) \in ReportedCosts
<1>1. upstream[q].cost \in ReportedCosts \cup {NoCost}
  BY DEF CallsOK, Upstreams
<1>2. bound[q] \in EstimatedCosts
  BY DEF CallsOK, Admitted
<1> QED
  BY <1>1, <1>2, CostAssumption DEF ConfirmedCost

\* What a step that leaves the coordinator alone does to its variables.
LEMMA Frames == UNCHANGED gvars <=> UNCHANGED G!vars
  BY DEF gvars, G!vars

\* A handler's step is a step of the coordinator or none.
LEMMA HandleSimulates ==
  ASSUME CallsOK, NEW q \in Requests, Arrive(q) \/ Handle(q) \/ Provide(q) \/ Fail(q)
  PROVE  [G!Next]_(G!vars)
<1>1. CASE Authorize(q)
  <2>1. call[q] \in Calls
    BY <1>1 DEF CallsOK, Authorize, Goto
  <2>2. call[q].model \in Models /\ call[q].token \in Tokens
    BY <2>1 DEF Calls
  <2> QED
    BY <1>1, <2>2 DEF Authorize, G!Next, G!authorize
<1>2. CASE Confirm(q)
  <2>1. pc[q] = "confirm"
    BY <1>2 DEF Confirm
  <2>2. q \in G!IssuedIds
    BY <2>1 DEF CallsOK, Admitted
  <2>3. ConfirmedCost(q) \in ReportedCosts
    BY <2>1, CostReported
  <2> QED
    BY <1>2, <2>2, <2>3 DEF Confirm, G!Next, G!settle
<1>3. CASE Release(q)
  <2>1. q \in G!IssuedIds
    BY <1>3 DEF CallsOK, Admitted, Release
  <2> QED
    BY <1>3, <2>1 DEF Release, G!Next, G!settle
<1>4. CASE Arrive(q) \/ Preflight(q) \/ Send(q) \/ TranslationThrows(q)
  BY <1>4, Frames DEF Arrive, Preflight, Send, TranslationThrows
<1>5. CASE Provide(q) \/ Fail(q)
  BY <1>5, Frames DEF Provide, Credentials, Unreachable, BodyBreaks, BodyRead, Stream,
                      StreamEnds, StreamBreaks, Fail, Cut, CoordinatorFails
<1> QED
  BY <1>1, <1>2, <1>3, <1>4, <1>5 DEF Handle

LEMMA LedgerGrows ==
  ASSUME Next
  PROVE  ledger \subseteq ledger'
<1>1. ASSUME NEW q \in Requests, Arrive(q) \/ Handle(q) \/ Provide(q) \/ Fail(q)
      PROVE  ledger \subseteq ledger'
  <2>1. CASE Authorize(q)
    BY <2>1 DEF Authorize, G!Admit, G!Refuse, G!recoverStaleReservations
  <2>2. CASE Confirm(q)
    BY <2>2 DEF Confirm, G!confirm, G!vars
  <2>3. CASE Release(q)
    BY <2>3 DEF Release, G!release, G!vars
  <2>4. CASE Arrive(q) \/ Preflight(q) \/ Send(q) \/ TranslationThrows(q)
    BY <2>4 DEF Arrive, Preflight, Send, TranslationThrows, gvars
  <2>5. CASE Provide(q) \/ Fail(q)
    BY <2>5 DEF Provide, Credentials, Unreachable, BodyBreaks, BodyRead, Stream,
                StreamEnds, StreamBreaks, Fail, Cut, CoordinatorFails, gvars
  <2> QED
    BY <1>1, <2>1, <2>2, <2>3, <2>4, <2>5 DEF Handle
<1>2. CASE administer \/ Tick
  BY <1>2 DEF administer, Tick, G!administer, G!addAgent, G!setStatus, G!archiveAgent,
              G!rotateAgentToken, G!Tick
<1>3. CASE poll
  BY <1>3 DEF poll, G!dashboard, G!recoverStaleReservations
<1> QED
  BY <1>1, <1>2, <1>3 DEF Next

\* The step changes the control state of q only, and leaves it at p with c and b.
At(q, c, p, b, u) ==
  /\ call' = [call EXCEPT ![q] = c] /\ pc' = [pc EXCEPT ![q] = p]
  /\ bound' = [bound EXCEPT ![q] = b] /\ upstream' = [upstream EXCEPT ![q] = u]

\* What changes at most at one handler keeps CallsOK, if it is right there.
LEMMA OneHandler ==
  ASSUME CallsOK, ledger \subseteq ledger', NEW q \in Requests,
         NEW c \in Calls, NEW p \in Working \cup Ends,
         NEW b \in EstimatedCosts \cup {0}, NEW u \in Upstreams,
         At(q, c, p, b, u),
         p \in Admitted => q \in G!IssuedIds' /\ b \in EstimatedCosts
  PROVE  CallsOK'
  BY Growing DEF CallsOK, At

LEMMA HandleCalls ==
  ASSUME CallsOK, ledger \subseteq ledger', NEW q \in Requests,
         Arrive(q) \/ Handle(q) \/ Provide(q) \/ Fail(q)
  PROVE  CallsOK'
<1> USE DEF Goto
<1>0. /\ call[q] \in Calls \cup {NoCall} /\ pc[q] \in {"idle"} \cup Working \cup Ends
      /\ bound[q] \in EstimatedCosts \cup {0} /\ upstream[q] \in Upstreams
      /\ pc[q] # "idle" => call[q] \in Calls
      /\ pc[q] \in Admitted => q \in G!IssuedIds /\ bound[q] \in EstimatedCosts
      /\ call = [call EXCEPT ![q] = call[q]] /\ pc = [pc EXCEPT ![q] = pc[q]]
      /\ bound = [bound EXCEPT ![q] = bound[q]]
      /\ upstream = [upstream EXCEPT ![q] = upstream[q]]
  BY DEF CallsOK
<1>1. CASE Arrive(q)
  <2>1. PICK c \in Calls : call' = [call EXCEPT ![q] = c]
    BY <1>1 DEF Arrive
  <2>2. At(q, c, "preflight", bound[q], upstream[q])
    BY <1>0, <1>1, <2>1 DEF Arrive, At
  <2> QED
    BY <1>0, <2>2, OneHandler DEF Working, Admitted
<1>2. CASE Preflight(q) \/ Credentials(q) \/ TranslationThrows(q)
  <2>1. PICK p \in {"credentials", "authorize", "done", "thrown"} : pc' = [pc EXCEPT ![q] = p]
    BY <1>2 DEF Preflight, Credentials, TranslationThrows
  <2>2. pc[q] # "idle" /\ UNCHANGED <<call, bound, upstream>>
    BY <1>2 DEF Preflight, Credentials, TranslationThrows
  <2>3. At(q, call[q], p, bound[q], upstream[q])
    BY <1>0, <2>1, <2>2 DEF At
  <2> QED
    BY <1>0, <2>2, <2>3, OneHandler DEF Working, Ends, Admitted
<1>3. CASE Authorize(q)
  <2>1. pc[q] # "idle" /\ UNCHANGED <<call, upstream>>
    BY <1>3 DEF Authorize
  <2>2. ASSUME NEW cost \in EstimatedCosts, NEW a \in AgentIds,
               Goto(q, "authorize", "send"), G!Admit(a, call[q].model, cost, q),
               bound' = [bound EXCEPT ![q] = cost]
        PROVE  CallsOK'
    <3> DEFINE e == G!Event("BUDGET_RESERVED", [id |-> q, agent |-> a, date |-> G!utcDate,
                                                amount |-> cost, createdAt |-> now], cost)
    <3>1. e \in ledger'
      BY <2>2 DEF G!Admit
    <3>2. e.type = "BUDGET_RESERVED" /\ e.id = q
      BY DEF G!Event
    <3>3. q \in G!IssuedIds'
      BY <3>1, <3>2 DEF G!IssuedIds
    <3>4. At(q, call[q], "send", cost, upstream[q])
      BY <1>0, <2>1, <2>2 DEF At
    <3> QED
      BY <1>0, <2>1, <3>3, <3>4, OneHandler DEF Working
  <2>3. ASSUME Goto(q, "authorize", "done"), UNCHANGED bound
        PROVE  CallsOK'
    <3>1. At(q, call[q], "done", bound[q], upstream[q])
      BY <1>0, <2>1, <2>3 DEF At
    <3> QED
      BY <1>0, <2>1, <3>1, OneHandler DEF Ends, Admitted
  <2> QED
    BY <1>3, <2>2, <2>3 DEF Authorize
<1>4. CASE Confirm(q) \/ Release(q)
  <2>1. PICK p \in {"done", "thrown", "cut"} : pc' = [pc EXCEPT ![q] = p]
    BY <1>4 DEF Confirm, Release, AfterSettlement, CutShort
  <2>2. pc[q] # "idle" /\ UNCHANGED <<call, bound, upstream>>
    BY <1>4 DEF Confirm, Release
  <2>3. At(q, call[q], p, bound[q], upstream[q])
    BY <1>0, <2>1, <2>2 DEF At
  <2> QED
    BY <1>0, <2>2, <2>3, OneHandler DEF Ends, Admitted
<1>5. CASE Send(q) \/ (Provide(q) /\ ~Credentials(q))
  <2>1. PICK p \in {"reply", "release", "thrown", "confirm", "stream", "done"} :
          pc' = [pc EXCEPT ![q] = p]
    BY <1>5 DEF Send, Provide, Unreachable, BodyBreaks, BodyRead, Stream, StreamEnds,
                StreamBreaks, AfterBody
  <2>2. pc[q] # "idle" /\ pc[q] \in Admitted /\ UNCHANGED <<call, bound>>
    BY <1>5 DEF Send, Provide, Unreachable, BodyBreaks, BodyRead, Stream, StreamEnds,
                StreamBreaks, Admitted
  <2>3. PICK u \in Upstreams : upstream' = [upstream EXCEPT ![q] = u]
    <3>1. \A x \in {"sent", "unreachable", "broken"} : [upstream[q] EXCEPT !.state = x] \in Upstreams
      BY <1>0, Zenon DEF Upstreams
    <3>2. \A ok \in BOOLEAN, cost \in ReportedCosts \cup {NoCost} :
            [state |-> "replied", ok |-> ok, cost |-> cost] \in Upstreams
      BY DEF Upstreams
    <3>3. CASE Send(q) \/ Unreachable(q) \/ BodyBreaks(q) \/ StreamBreaks(q)
      BY <3>1, <3>3, Zenon DEF Send, Unreachable, BodyBreaks, StreamBreaks
    <3>4. CASE BodyRead(q) \/ StreamEnds(q)
      BY <3>2, <3>4 DEF BodyRead, StreamEnds
    <3>5. CASE Stream(q)
      BY <1>0, <3>5 DEF Stream
    <3> QED
      BY <1>5, <3>3, <3>4, <3>5 DEF Provide
  <2>4. q \in G!IssuedIds'
    BY <1>0, <2>2, Growing
  <2>5. At(q, call[q], p, bound[q], u)
    BY <1>0, <2>1, <2>2, <2>3 DEF At
  <2>6. p \in Working \cup Ends
    BY DEF Working, Ends
  <2> QED
    BY <1>0, <2>2, <2>4, <2>5, <2>6, OneHandler
<1>6. CASE Fail(q)
  <2>1. PICK p \in Ends : pc' = [pc EXCEPT ![q] = p]
    BY <1>6 DEF Fail, Cut, CutShort, CoordinatorFails, Ends
  <2>2. pc[q] # "idle" /\ UNCHANGED <<call, bound, upstream>>
    BY <1>6 DEF Fail, Cut, CoordinatorFails, Working
  <2>3. At(q, call[q], p, bound[q], upstream[q])
    BY <1>0, <2>1, <2>2 DEF At
  <2> QED
    BY <1>0, <2>2, <2>3, OneHandler DEF Ends, Admitted
<1> QED
  BY <1>1, <1>2, <1>3, <1>4, <1>5, <1>6 DEF Handle, Provide

LEMMA NextCalls == CallsOK /\ [Next]_vars => CallsOK'
<1> SUFFICES ASSUME CallsOK, [Next]_vars
             PROVE  CallsOK'
  OBVIOUS
<1>1. CASE Next
  <2>1. ledger \subseteq ledger'
    BY <1>1, LedgerGrows
  <2>2. CASE administer \/ poll \/ Tick
    BY <2>1, <2>2, Growing DEF administer, poll, Tick, wvars, CallsOK
  <2> QED
    BY <1>1, <2>1, <2>2, HandleCalls DEF Next
<1>2. CASE UNCHANGED vars
  <2>1. ledger \subseteq ledger' /\ UNCHANGED wvars
    BY <1>2 DEF vars, gvars
  <2> QED
    BY <2>1, Growing DEF wvars, CallsOK
<1> QED
  BY <1>1, <1>2

\* The handlers' calls, the administration, the polling and the clock: every step
\* of the system is a step of the coordinator or leaves it alone.
THEOREM Implements == Spec => ImplementsCoordinator
<1>1. Init => G!Init
  BY DEF Init
<1>2. CallsOK /\ [Next]_vars => [G!Next]_(G!vars)
  <2> SUFFICES ASSUME CallsOK, [Next]_vars
               PROVE  [G!Next]_(G!vars)
    OBVIOUS
  <2>1. CASE administer \/ poll \/ Tick
    BY <2>1 DEF administer, poll, Tick, G!Next
  <2>2. CASE UNCHANGED vars
    BY <2>2, Frames DEF vars
  <2> QED
    BY <2>1, <2>2, HandleSimulates DEF Next
<1>3. Spec => []CallsOK
  BY InitCalls, NextCalls, PTL DEF Spec
<1> QED
  BY <1>1, <1>2, <1>3, PTL DEF Spec, ImplementsCoordinator, G!Spec

-----------------------------------------------------------------------------
\* The coordinator of this system, with what is proved about it.
GP == INSTANCE GuardCoordinatorProofs WITH ReservationIds <- Requests

LEMMA SameInit == G!Init <=> GP!Init
  BY Zenon DEF
    G!Init, GP!Init

LEMMA SameSteps == [G!Next]_(G!vars) <=> [GP!Next]_(GP!vars)
  BY Zenon DEF
    G!vars, GP!vars, G!utcDate, GP!utcDate, G!Created, GP!Created, G!Of, GP!Of,
    G!Event, GP!Event, G!IssuedIds, GP!IssuedIds, G!Stale, GP!Stale, G!Retained,
    GP!Retained, G!RecoveredConfirmed, GP!RecoveredConfirmed, G!RecoveryEvents,
    GP!RecoveryEvents, G!recoverStaleReservations, GP!recoverStaleReservations,
    G!evaluateCloudPolicy, GP!evaluateCloudPolicy, G!FitsDailyBudget,
    GP!FitsDailyBudget, G!authorizeDecision, GP!authorizeDecision, G!Admit,
    GP!Admit, G!Refuse, GP!Refuse, G!confirm, GP!confirm, G!release, GP!release,
    G!dashboard, GP!dashboard, G!addAgent, GP!addAgent, G!setStatus, GP!setStatus,
    G!archiveAgent, GP!archiveAgent, G!rotateAgentToken, GP!rotateAgentToken,
    G!Tick, GP!Tick, G!authorize, GP!authorize, G!settle, GP!settle, G!administer,
    GP!administer, G!Next, GP!Next, G!Statuses, GP!Statuses, G!Total, GP!Total,
    G!Units, GP!Units, G!Cardinality, GP!Cardinality

LEMMA SameProperties ==
  /\ GP!TypeOK => G!TypeOK
  /\ GP!SettledExactlyOnce => G!SettledExactlyOnce
  /\ GP!BudgetBound => G!BudgetBound
  /\ GP!ConfirmedMatchesLedger => G!ConfirmedMatchesLedger
<1>1. GP!TypeOK => G!TypeOK
  BY Zenon DEF
    G!TypeOK, GP!TypeOK, G!Agents, GP!Agents, G!Statuses, GP!Statuses,
    G!Reservations, GP!Reservations, G!Events, GP!Events, G!EventTypes,
    GP!EventTypes, G!Clock, GP!Clock
<1>2. GP!SettledExactlyOnce => G!SettledExactlyOnce
  BY Zenon DEF
    G!SettledExactlyOnce, GP!SettledExactlyOnce, G!IssuedIds, GP!IssuedIds,
    G!Settlements, GP!Settlements, G!SettlementTypes, GP!SettlementTypes,
    G!EventTypes, GP!EventTypes
<1>3. GP!BudgetBound => G!BudgetBound
  BY Zenon DEF
    G!BudgetBound, GP!BudgetBound, G!Exposure, GP!Exposure, G!DailyLimit,
    GP!DailyLimit, G!Created, GP!Created, G!Charges, GP!Charges, G!Total, GP!Total,
    G!Units, GP!Units, G!TotalExcess, GP!TotalExcess, G!ExcessUnits, GP!ExcessUnits,
    G!Cardinality, GP!Cardinality, G!Of, GP!Of
<1>4. GP!ConfirmedMatchesLedger => G!ConfirmedMatchesLedger
  BY Zenon DEF
    G!ConfirmedMatchesLedger, GP!ConfirmedMatchesLedger, G!Charges, GP!Charges,
    G!Total, GP!Total, G!Units, GP!Units, G!Cardinality, GP!Cardinality, G!Of, GP!Of
<1> QED
  BY <1>1, <1>2, <1>3, <1>4

LEMMA SameAssumptions ==
  GP!ClockAssumption /\ GP!DateAssumption /\ GP!AmountAssumption /\ GP!NoAgentAssumption
  BY CoordinatorAssumption, Zenon DEF
    G!ClockAssumption, GP!ClockAssumption, G!DateAssumption, GP!DateAssumption,
    G!AmountAssumption, GP!AmountAssumption, G!NoAgentAssumption,
    GP!NoAgentAssumption, G!Agents, GP!Agents, G!Statuses, GP!Statuses, G!Clock,
    GP!Clock

\* The coordinator keeps its books for the handlers of the Worker: within the
\* daily budgets, counters equal to the ledger, one settlement per reservation.
THEOREM BooksHold ==
  Spec => [](G!TypeOK /\ G!BudgetBound /\ G!ConfirmedMatchesLedger /\ G!SettledExactlyOnce)
<1>1. Spec => GP!Spec
  BY Implements, SameInit, SameSteps, PTL DEF ImplementsCoordinator, G!Spec, GP!Spec
<1>2. GP!Spec => [](GP!TypeOK /\ GP!BudgetBound /\ GP!ConfirmedMatchesLedger
                      /\ GP!SettledExactlyOnce)
  <2>1. GP!Spec => []GP!TypeOK
    BY SameAssumptions, GP!TypeCorrect
  <2>2. GP!Spec => []GP!BudgetBound
    BY SameAssumptions, GP!BudgetHolds
  <2>3. GP!Spec => []GP!ConfirmedMatchesLedger
    BY SameAssumptions, GP!CountersMatchLedger
  <2>4. GP!Spec => []GP!SettledExactlyOnce
    BY SameAssumptions, GP!OneSettlement
  <2> QED
    BY <2>1, <2>2, <2>3, <2>4, PTL
<1> QED
  BY <1>1, <1>2, SameProperties, PTL
-----------------------------------------------------------------------------
\* A reservation has the amount its handler was told; the handler is at work on it,
\* or has left it behind.
Held(r) ==
  /\ r.amount = bound[r.id]
  /\ pc[r.id] \in Admitted \/ LeftBehind(r.id)
  /\ client[r.id] = "answered" => call[r.id].kind = "stream" \/ pc[r.id] = "unsettled"

\* What the response of q is worth to the code: see Priced.
Charged(q) == upstream[q].ok \/ (upstream[q].cost # NoCost /\ call[q].kind # "responses")

\* What the handler learnt from the provider before it confirms or releases; no
\* caller is answered before the request is admitted.
Decided(q) ==
  /\ pc[q] \in {"idle"} \cup Unadmitted => client[q] = "waiting"
  /\ pc[q] \in {"idle", "send"} \cup Unadmitted => upstream[q].state = "unsent"
  /\ pc[q] = "confirm" => upstream[q].state = "replied" /\ Charged(q)
  /\ pc[q] = "release" =>
       \/ upstream[q].state = "unreachable"
       \/ (upstream[q].state = "replied" /\ ~Charged(q))

\* The handler that made the settlement is at its end, so what it knows of the
\* response does not change any more.
Final(e) == e.type = "RESERVATION_RECOVERED" \/ pc[e.id] \in Ends

\* What SettlementMatchesReply says of one settlement.
Answers(e) ==
  LET u == upstream[e.id]
  IN /\ e.type = "SPEND_CONFIRMED" =>
          /\ u.state = "replied" /\ Charged(e.id)
          /\ e.amount = IF u.cost = NoCost THEN e.reserved ELSE u.cost
     /\ e.type = "RESERVATION_RELEASED" =>
          u.state = "unreachable" \/ (u.state = "replied" /\ ~Charged(e.id))

HandlersOK ==
  /\ client \in [Requests -> Outcomes]
  /\ \A q \in Requests : Decided(q)
  /\ \A r \in reservations : Held(r)
  /\ \A e \in G!Settlements : Final(e) /\ Answers(e)

\* What the coordinator is known to keep.
Books == G!TypeOK /\ G!SettledExactlyOnce

LEMMA InitHandlers == Init => HandlersOK
<1>1. Init => G!Settlements = {} /\ reservations = {}
  BY DEF Init, G!Init, G!Settlements
<1> QED
  BY <1>1 DEF Init, HandlersOK, Decided, Unadmitted, Outcomes

\* The ids in the books are those of requests.
LEMMA BookIds ==
  ASSUME Books
  PROVE  /\ \A r \in reservations : r.id \in Requests
         /\ \A e \in G!Settlements : e.id \in Requests /\ e.type \in G!EventTypes
  BY DEF Books, G!TypeOK, G!Reservations, G!Events, G!Settlements

\* A step of one handler: what it does to its own reservation and settlement is
\* right, and it leaves those of the others alone.
LEMMA HandlerMoves ==
  ASSUME CallsOK, HandlersOK, Books, NEW q \in Requests, pc[q] \notin Ends,
         NEW c, NEW p, NEW b, NEW u, NEW o \in Outcomes,
         At(q, c, p, b, u), client' = [client EXCEPT ![q] = o],
         Decided(q)',
         \A r \in reservations' : (r \in reservations /\ r.id # q) \/ Held(r)',
         \A e \in G!Settlements' : e \in G!Settlements \/ (Final(e)' /\ Answers(e)')
  PROVE  HandlersOK'
<1>1. \A k \in Requests \ {q} :
        /\ call'[k] = call[k] /\ pc'[k] = pc[k] /\ bound'[k] = bound[k]
        /\ upstream'[k] = upstream[k] /\ client'[k] = client[k]
  BY DEF At, CallsOK, HandlersOK
<1>2. client' \in [Requests -> Outcomes]
  BY DEF HandlersOK
<1>3. ASSUME NEW k \in Requests PROVE Decided(k)'
  BY <1>1, <1>3 DEF HandlersOK, Decided, Charged
<1>4. ASSUME NEW r \in reservations' PROVE Held(r)'
  <2>1. CASE r \in reservations /\ r.id # q
    <3>1. r.id \in Requests \ {q} /\ Held(r)
      BY <2>1, BookIds DEF HandlersOK
    <3> QED
      BY <1>1, <3>1 DEF Held, LeftBehind
  <2> QED
    BY <1>4, <2>1
<1>5. ASSUME NEW e \in G!Settlements' PROVE Final(e)' /\ Answers(e)'
  <2>1. CASE e \in G!Settlements
    <3>1. e.id \in Requests /\ Final(e) /\ Answers(e)
      BY <2>1, BookIds DEF HandlersOK
    <3>2. CASE e.id = q
      BY <3>1, <3>2 DEF Final, Answers
    <3>3. CASE e.id # q
      BY <1>1, <3>1, <3>3 DEF Final, Answers, Charged
    <3> QED
      BY <3>2, <3>3
  <2> QED
    BY <1>5, <2>1
<1> QED
  BY <1>2, <1>3, <1>4, <1>5 DEF HandlersOK

\* A step of one handler that does not call the coordinator.
LEMMA QuietMove ==
  ASSUME CallsOK, HandlersOK, Books, NEW q \in Requests, pc[q] \notin Ends,
         UNCHANGED <<reservations, ledger>>,
         NEW c, NEW p, NEW u, NEW o \in Outcomes,
         At(q, c, p, bound[q], u), client' = [client EXCEPT ![q] = o],
         Decided(q)',
         pc[q] \in Admitted =>
           /\ p \in Admitted \/ LeftBehind(q)'
           /\ c.kind = call[q].kind
           /\ o = "answered" => o = client[q] \/ c.kind = "stream" \/ p = "unsettled"
  PROVE  HandlersOK'
<1>1. \A e \in G!Settlements' : e \in G!Settlements
  BY DEF G!Settlements
<1>2. ASSUME NEW r \in reservations', r.id = q PROVE Held(r)'
  <2>1. Held(r) /\ pc[q] \in Admitted
    BY <1>2 DEF HandlersOK, Held, LeftBehind, Ends
  <2>2. /\ call'[q] = c /\ pc'[q] = p /\ bound'[q] = bound[q] /\ client'[q] = o
    BY DEF At, CallsOK, HandlersOK
  <2> QED
    BY <1>2, <2>1, <2>2 DEF Held, LeftBehind, Admitted
<1> QED
  BY <1>1, <1>2, HandlerMoves

\* A step of somebody else: reservations may go, recoveries may come.
LEMMA EnvironmentMoves ==
  ASSUME HandlersOK, UNCHANGED wvars, reservations' \subseteq reservations,
         \A e \in G!Settlements' : e \in G!Settlements \/ e.type = "RESERVATION_RECOVERED"
  PROVE  HandlersOK'
<1>1. client' \in [Requests -> Outcomes]
  BY DEF HandlersOK, wvars
<1>2. \A q \in Requests : Decided(q)'
  BY DEF HandlersOK, wvars, Decided, Charged
<1>3. \A r \in reservations' : Held(r)'
  BY DEF HandlersOK, wvars, Held, LeftBehind
<1>4. \A e \in G!Settlements' : Final(e)' /\ Answers(e)'
  BY DEF HandlersOK, wvars, Final, Answers, Charged
<1> QED
  BY <1>1, <1>2, <1>3, <1>4 DEF HandlersOK

\* The recovery only removes reservations and records recoveries.
LEMMA Recoveries ==
  ASSUME NEW e \in G!RecoveryEvents
  PROVE  e.type = "RESERVATION_RECOVERED"
  BY DEF G!RecoveryEvents, G!Event

LEMMA AuthorizeHandlers ==
  ASSUME CallsOK, HandlersOK, Books, NEW q \in Requests, Authorize(q)
  PROVE  HandlersOK'
<1>0. /\ pc[q] = "authorize" /\ pc[q] \notin Ends /\ client[q] = "waiting"
      /\ upstream[q].state = "unsent"
  BY DEF Authorize, Goto, HandlersOK, Decided, Unadmitted, Ends
<1>1. /\ call = [call EXCEPT ![q] = call[q]] /\ upstream = [upstream EXCEPT ![q] = upstream[q]]
      /\ client = [client EXCEPT ![q] = client[q]] /\ bound = [bound EXCEPT ![q] = bound[q]]
      /\ client[q] \in Outcomes
  BY DEF CallsOK, HandlersOK
<1>2. ASSUME NEW cost \in EstimatedCosts, NEW a \in AgentIds,
             Goto(q, "authorize", "send"), G!Admit(a, call[q].model, cost, q),
             bound' = [bound EXCEPT ![q] = cost], UNCHANGED <<call, upstream, client>>
      PROVE  HandlersOK'
  <2> DEFINE n == [id |-> q, agent |-> a, date |-> G!utcDate, amount |-> cost,
                   createdAt |-> now]
  <2>1. At(q, call[q], "send", cost, upstream[q]) /\ client' = [client EXCEPT ![q] = client[q]]
    BY <1>1, <1>2 DEF At, Goto
  <2>2. /\ reservations' = G!Retained \cup {n} /\ q \notin G!IssuedIds
        /\ ledger' = ledger \cup G!RecoveryEvents \cup {G!Event("BUDGET_RESERVED", n, cost)}
    BY <1>2 DEF G!Admit
  <2>3. /\ pc'[q] = "send" /\ bound'[q] = cost /\ client'[q] = "waiting"
    BY <1>0, <1>2 DEF Goto, CallsOK
  <2>4. Decided(q)'
    BY <1>0, <1>2, <2>3 DEF Decided, Unadmitted
  <2>5. n.id = q /\ n.amount = cost
    OBVIOUS
  <2> HIDE DEF n
  <2>6. ASSUME NEW r \in reservations' PROVE (r \in reservations /\ r.id # q) \/ Held(r)'
    <3>1. CASE r = n
      BY <2>3, <2>5, <3>1 DEF Held, Admitted
    <3>2. CASE r \in G!Retained
      BY <2>2, <3>2 DEF G!Retained, Books, G!SettledExactlyOnce
    <3> QED
      BY <2>2, <2>6, <3>1, <3>2
  <2>7. ASSUME NEW e \in G!Settlements'
        PROVE  e \in G!Settlements \/ (Final(e)' /\ Answers(e)')
    <3>1. e \in ledger' /\ e.type # "BUDGET_RESERVED"
      BY <2>7 DEF G!Settlements, G!SettlementTypes
    <3>2. G!Event("BUDGET_RESERVED", n, cost).type = "BUDGET_RESERVED"
      BY DEF G!Event
    <3>3. CASE e \in ledger
      BY <2>7, <3>3 DEF G!Settlements
    <3>4. CASE e \in G!RecoveryEvents
      BY <3>4, Recoveries DEF Final, Answers
    <3> QED
      BY <2>2, <3>1, <3>2, <3>3, <3>4
  <2> QED
    BY <1>0, <1>1, <2>1, <2>4, <2>6, <2>7, HandlerMoves
<1>3. ASSUME Goto(q, "authorize", "done"), NEW cost, G!Refuse(call[q].token, call[q].model, cost),
             Answer(q, "refused"), UNCHANGED <<call, bound, upstream>>
      PROVE  HandlersOK'
  <2>1. At(q, call[q], "done", bound[q], upstream[q])
    BY <1>1, <1>3 DEF At, Goto
  <2>2. /\ reservations' = G!Retained /\ ledger' = ledger \cup G!RecoveryEvents
    BY <1>3 DEF G!Refuse, G!recoverStaleReservations
  <2>3. Decided(q)'
    BY <1>3 DEF Goto, CallsOK, Decided, Unadmitted
  <2>4. \A r \in reservations' : r \in reservations /\ r.id # q
    <3>1. \A r \in reservations : r.id # q
      BY <1>0 DEF HandlersOK, Held, Admitted, LeftBehind
    <3> QED
      BY <2>2, <3>1 DEF G!Retained
  <2>5. \A e \in G!Settlements' : e \in G!Settlements \/ (Final(e)' /\ Answers(e)')
    BY <2>2, Recoveries DEF G!Settlements, Final, Answers
  <2> QED
    BY <1>0, <1>3, <2>1, <2>3, <2>4, <2>5, HandlerMoves DEF Answer, Outcomes
<1> QED
  BY <1>2, <1>3 DEF Authorize

\* The settlement of one reservation is the one the response calls for.
LEMMA SettleHandlers ==
  ASSUME CallsOK, HandlersOK, Books, NEW q \in Requests, Confirm(q) \/ Release(q)
  PROVE  HandlersOK'
<1>0. pc[q] \in {"confirm", "release"} /\ pc[q] \notin Ends
  BY DEF Confirm, Release, Ends
<1>1. /\ call = [call EXCEPT ![q] = call[q]] /\ upstream = [upstream EXCEPT ![q] = upstream[q]]
      /\ bound = [bound EXCEPT ![q] = bound[q]]
  BY DEF CallsOK
<1>2. PICK p \in {"done", "thrown", "cut"} : pc' = [pc EXCEPT ![q] = p]
  BY DEF Confirm, Release, AfterSettlement, CutShort
<1>3. PICK o \in Outcomes : client' = [client EXCEPT ![q] = o]
  BY DEF Confirm, Release, AfterSettlement, SettledAnswer, CutShort, Answer, Outcomes,
         HandlersOK
<1>4. At(q, call[q], p, bound[q], upstream[q])
  BY <1>1, <1>2 DEF At, Confirm, Release
<1>5. pc'[q] = p /\ upstream'[q] = upstream[q] /\ call'[q] = call[q]
  BY <1>2, <1>4 DEF At, CallsOK
<1>6. Decided(q)'
  BY <1>5 DEF Decided, Unadmitted
<1>7. \/ (\A r \in reservations : r.id # q) /\ UNCHANGED <<reservations, ledger>>
      \/ \E r \in reservations :
           /\ r.id = q /\ reservations' = reservations \ {r}
           /\ \/ /\ Confirm(q)
                 /\ ledger' = ledger \cup {G!Event("SPEND_CONFIRMED", r, ConfirmedCost(q))}
              \/ /\ Release(q)
                 /\ ledger' = ledger \cup {G!Event("RESERVATION_RELEASED", r, r.amount)}
  BY DEF Confirm, Release, G!confirm, G!release, G!vars
<1>8. \A r \in reservations' : r \in reservations /\ r.id # q
  BY <1>7 DEF Books, G!SettledExactlyOnce
<1>9. ASSUME NEW e \in G!Settlements', e \notin G!Settlements
      PROVE  Final(e)' /\ Answers(e)'
  <2>1. e \in ledger' /\ e \notin ledger
    BY <1>9 DEF G!Settlements
  <2>2. PICK r \in reservations :
          /\ r.id = q
          /\ \/ Confirm(q) /\ e = G!Event("SPEND_CONFIRMED", r, ConfirmedCost(q))
             \/ Release(q) /\ e = G!Event("RESERVATION_RELEASED", r, r.amount)
    BY <1>7, <2>1
  <2>3. r.amount = bound[q]
    BY <2>2 DEF HandlersOK, Held
  <2>4. CASE Confirm(q) /\ e = G!Event("SPEND_CONFIRMED", r, ConfirmedCost(q))
    <3>1. upstream[q].state = "replied" /\ Charged(q) /\ Charged(q)'
      BY <1>5, <2>4 DEF Confirm, HandlersOK, Decided, Charged
    <3>2. /\ e.id = q /\ e.type = "SPEND_CONFIRMED"
          /\ e.reserved = r.amount /\ e.amount = ConfirmedCost(q)
      BY <2>2, <2>4 DEF G!Event
    <3> QED
      BY <1>5, <2>3, <3>1, <3>2 DEF Final, Answers, ConfirmedCost, Ends
  <2>5. CASE Release(q) /\ e = G!Event("RESERVATION_RELEASED", r, r.amount)
    <3>1. \/ upstream[q].state = "unreachable"
          \/ (upstream[q].state = "replied" /\ ~Charged(q) /\ ~Charged(q)')
      BY <1>5, <2>5 DEF Release, HandlersOK, Decided, Charged
    <3>2. e.id = q /\ e.type = "RESERVATION_RELEASED"
      BY <2>2, <2>5 DEF G!Event
    <3> QED
      BY <1>5, <3>1, <3>2 DEF Final, Answers, Ends
  <2> QED
    BY <2>2, <2>4, <2>5
<1> QED
  BY <1>0, <1>3, <1>4, <1>6, <1>8, <1>9, HandlerMoves

\* The steps between the calls of the coordinator.
LEMMA BetweenHandlers ==
  ASSUME CallsOK, HandlersOK, Books, NEW q \in Requests,
         Arrive(q) \/ Preflight(q) \/ Send(q) \/ TranslationThrows(q) \/ Provide(q) \/ Fail(q)
  PROVE  HandlersOK'
<1> USE DEF Goto
<1>0. /\ Decided(q) /\ client[q] \in Outcomes
      /\ call = [call EXCEPT ![q] = call[q]] /\ bound = [bound EXCEPT ![q] = bound[q]]
      /\ upstream = [upstream EXCEPT ![q] = upstream[q]]
      /\ client = [client EXCEPT ![q] = client[q]]
  BY DEF CallsOK, HandlersOK
<1>1. CASE Arrive(q)
  <2>1. PICK c \in Calls : call' = [call EXCEPT ![q] = c]
    BY <1>1 DEF Arrive
  <2>2. /\ At(q, c, "preflight", bound[q], upstream[q])
        /\ client' = [client EXCEPT ![q] = client[q]]
        /\ pc[q] = "idle" /\ pc[q] \notin Ends /\ UNCHANGED <<reservations, ledger>>
    BY <1>0, <1>1, <2>1 DEF Arrive, At, Ends, gvars
  <2>3. pc[q] \notin Admitted
    BY <2>2 DEF Admitted
  <2>4. Decided(q)'
    BY <1>0, <2>2 DEF At, Decided, Unadmitted, CallsOK, HandlersOK
  <2> QED
    BY <1>0, <2>2, <2>3, <2>4, QuietMove
<1>2. CASE Preflight(q) \/ Credentials(q)
  <2>1. PICK p \in {"credentials", "authorize", "done"} : pc' = [pc EXCEPT ![q] = p]
    BY <1>2 DEF Preflight, Credentials
  <2>2. /\ p = "done" => client' = [client EXCEPT ![q] = "refused"]
        /\ p # "done" => client' = client
    BY <1>2, <2>1 DEF Preflight, Credentials, Answer, CallsOK
  <2>3. /\ pc[q] \in {"preflight", "credentials"} /\ UNCHANGED <<reservations, ledger>>
        /\ At(q, call[q], p, bound[q], upstream[q])
    BY <1>0, <1>2, <2>1 DEF Preflight, Credentials, At, gvars
  <2>4. pc[q] \notin Ends /\ pc[q] \notin Admitted /\ client[q] = "waiting"
    BY <1>0, <2>3 DEF Ends, Admitted, Decided, Unadmitted
  <2>5. PICK o \in Outcomes : client' = [client EXCEPT ![q] = o] /\ (p # "done" => o = "waiting")
    BY <1>0, <2>2, <2>4 DEF Outcomes
  <2>6. Decided(q)'
    BY <1>0, <2>1, <2>3, <2>4, <2>5 DEF At, Decided, Unadmitted, CallsOK, HandlersOK
  <2> QED
    BY <2>3, <2>4, <2>5, <2>6, QuietMove
<1>3. CASE Send(q) \/ Unreachable(q) \/ StreamBreaks(q)
  <2>1. PICK p \in {"reply", "release", "thrown"}, t \in {"sent", "unreachable", "broken"} :
          /\ pc' = [pc EXCEPT ![q] = p] /\ upstream' = [upstream EXCEPT ![q].state = t]
          /\ p = "release" => t = "unreachable"
          /\ p = "thrown" => t = "broken"
    BY <1>3 DEF Send, Unreachable, StreamBreaks
  <2>2. /\ pc[q] \in {"send", "reply", "stream"} /\ UNCHANGED <<reservations, ledger>>
        /\ At(q, call[q], p, bound[q], [upstream[q] EXCEPT !.state = t])
        /\ client' = [client EXCEPT ![q] = client[q]]
    BY <1>0, <1>3, <2>1 DEF Send, Unreachable, StreamBreaks, At, gvars
  <2>3. upstream'[q].state = t /\ pc'[q] = p
    BY <2>1 DEF CallsOK, Upstreams
  <2>4. pc[q] \notin Ends /\ (p \in Admitted \/ LeftBehind(q)')
    BY <2>1, <2>2, <2>3 DEF Ends, Admitted, LeftBehind
  <2>5. Decided(q)'
    BY <2>1, <2>3 DEF Decided, Unadmitted
  <2> QED
    BY <1>0, <2>2, <2>4, <2>5, QuietMove
<1>4. CASE TranslationThrows(q) \/ BodyBreaks(q)
  <2>1. /\ pc' = [pc EXCEPT ![q] = "thrown"] /\ client' = [client EXCEPT ![q] = "failed"]
        /\ pc[q] \in {"send", "reply"} /\ UNCHANGED <<call, bound, reservations, ledger>>
    BY <1>4 DEF TranslationThrows, BodyBreaks, Answer, gvars
  <2>2. PICK u : /\ upstream' = [upstream EXCEPT ![q] = u]
                 /\ \/ TranslationThrows(q) /\ u = upstream[q]
                    \/ BodyBreaks(q) /\ u = [upstream[q] EXCEPT !.state = "broken"]
    BY <1>0, <1>4 DEF TranslationThrows, BodyBreaks
  <2>3. pc'[q] = "thrown" /\ upstream'[q] = u /\ upstream[q] \in Upstreams
    BY <2>1, <2>2 DEF CallsOK
  <2>4. LeftBehind(q)'
    <3>1. CASE TranslationThrows(q) /\ u = upstream[q]
      BY <1>0, <2>3, <3>1 DEF TranslationThrows, Decided, LeftBehind
    <3>2. CASE u = [upstream[q] EXCEPT !.state = "broken"]
      BY <2>3, <3>2 DEF Upstreams, LeftBehind
    <3> QED
      BY <2>2, <3>1, <3>2
  <2>5. At(q, call[q], "thrown", bound[q], u)
    BY <1>0, <2>1, <2>2 DEF At
  <2>6. pc[q] \notin Ends /\ "failed" \in Outcomes
    BY <2>1 DEF Ends, Outcomes
  <2>7. Decided(q)'
    BY <2>3 DEF Decided, Unadmitted
  <2> QED
    BY <2>1, <2>4, <2>5, <2>6, <2>7, QuietMove
<1>7. CASE Cut(q) \/ (CoordinatorFails(q) /\ pc[q] \in {"confirm", "release"})
  <2>1. PICK p \in {"cut", "unsettled"} : pc' = [pc EXCEPT ![q] = p]
    BY <1>7 DEF Cut, CutShort, CoordinatorFails
  <2>2. PICK o \in Outcomes : /\ client' = [client EXCEPT ![q] = o]
                              /\ o = "answered" => o = client[q] \/ p = "unsettled"
    BY <1>0, <1>7, <2>1 DEF Cut, CutShort, CoordinatorFails, SettledAnswer, Answer, Outcomes,
                            CallsOK
  <2>3. /\ pc[q] \in Working /\ UNCHANGED <<reservations, ledger>>
        /\ At(q, call[q], p, bound[q], upstream[q])
    BY <1>0, <1>7, <2>1 DEF Cut, CoordinatorFails, At, gvars, Working
  <2>4. pc'[q] = p /\ pc[q] \notin Ends
    BY <2>1, <2>3 DEF CallsOK, Working, Ends
  <2>5. Decided(q)' /\ LeftBehind(q)'
    BY <2>1, <2>4 DEF Decided, Unadmitted, LeftBehind
  <2> QED
    BY <2>2, <2>3, <2>4, <2>5, QuietMove
<1>8. CASE CoordinatorFails(q) /\ pc[q] \in {"preflight", "authorize"}
  <2>1. /\ client' = [client EXCEPT ![q] = "refused"] /\ UNCHANGED <<reservations, ledger>>
        /\ At(q, call[q], "done", bound[q], upstream[q])
    BY <1>0, <1>8 DEF CoordinatorFails, Answer, At, gvars
  <2>2. pc[q] \notin Ends /\ pc[q] \notin Admitted /\ "refused" \in Outcomes
    BY <1>8 DEF Ends, Admitted, Outcomes
  <2>3. Decided(q)'
    BY <2>1 DEF At, Decided, Unadmitted, CallsOK
  <2> QED
    BY <2>1, <2>2, <2>3, QuietMove
<1>5. CASE BodyRead(q) \/ StreamEnds(q)
  <2>1. PICK ok \in BOOLEAN, cost \in ReportedCosts \cup {NoCost},
             p \in {"confirm", "release"} :
          /\ pc' = [pc EXCEPT ![q] = p]
          /\ upstream' = [upstream EXCEPT ![q] =
                            [state |-> "replied", ok |-> ok, cost |-> cost]]
          /\ p = "confirm" <=> ok \/ (cost # NoCost /\ call[q].kind # "responses")
    BY <1>5 DEF BodyRead, StreamEnds, AfterBody, Priced
  <2> DEFINE u == [state |-> "replied", ok |-> ok, cost |-> cost]
  <2>2. /\ pc[q] \in {"reply", "stream"} /\ UNCHANGED <<reservations, ledger>>
        /\ At(q, call[q], p, bound[q], u)
        /\ client' = [client EXCEPT ![q] = client[q]]
    BY <1>0, <1>5, <2>1 DEF BodyRead, StreamEnds, At, gvars
  <2>3. pc[q] \notin Ends /\ p \in Admitted
    BY <2>2 DEF Ends, Admitted
  <2>4. Decided(q)'
    BY <2>1, <2>2 DEF At, Decided, Charged, Unadmitted, CallsOK
  <2> QED
    BY <1>0, <2>2, <2>3, <2>4, QuietMove
<1>6. CASE Stream(q)
  <2>1. /\ pc[q] = "reply" /\ UNCHANGED <<reservations, ledger>>
        /\ At(q, call[q], "stream", bound[q], upstream[q])
        /\ client' = [client EXCEPT ![q] = "answered"] /\ call[q].kind = "stream"
    BY <1>0, <1>6 DEF Stream, Answer, At, gvars
  <2>2. pc[q] \notin Ends /\ "stream" \in Admitted /\ "answered" \in Outcomes
    BY <2>1 DEF Ends, Admitted, Outcomes
  <2>3. Decided(q)'
    BY <2>1 DEF At, Decided, Unadmitted, CallsOK
  <2> QED
    BY <2>1, <2>2, <2>3, QuietMove
<1> QED
  BY <1>1, <1>2, <1>3, <1>4, <1>5, <1>6, <1>7, <1>8 DEF Provide, Fail, CoordinatorFails

LEMMA NextHandlers ==
  ASSUME CallsOK, HandlersOK, Books, [Next]_vars
  PROVE  HandlersOK'
<1>1. ASSUME NEW q \in Requests, Arrive(q) \/ Handle(q) \/ Provide(q) \/ Fail(q)
      PROVE  HandlersOK'
  BY <1>1, AuthorizeHandlers, SettleHandlers, BetweenHandlers DEF Handle
<1>2. CASE administer \/ Tick
  <2>1. UNCHANGED <<reservations, ledger>> /\ UNCHANGED wvars
    BY <1>2 DEF administer, Tick, G!administer, G!addAgent, G!setStatus, G!archiveAgent,
                G!rotateAgentToken, G!Tick
  <2> QED
    BY <2>1, EnvironmentMoves DEF G!Settlements
<1>3. CASE poll
  <2>1. /\ reservations' = G!Retained /\ ledger' = ledger \cup G!RecoveryEvents
        /\ UNCHANGED wvars
    BY <1>3 DEF poll, G!dashboard, G!recoverStaleReservations
  <2>2. \A e \in G!Settlements' : e \in G!Settlements \/ e.type = "RESERVATION_RECOVERED"
    BY <2>1, Recoveries DEF G!Settlements
  <2> QED
    BY <2>1, <2>2, EnvironmentMoves DEF G!Retained
<1>4. CASE UNCHANGED vars
  <2>1. UNCHANGED <<reservations, ledger>> /\ UNCHANGED wvars
    BY <1>4 DEF vars, gvars
  <2> QED
    BY <2>1, EnvironmentMoves DEF G!Settlements
<1> QED
  BY <1>1, <1>2, <1>3, <1>4 DEF Next

\* The invariant of the handlers and of the books they share.
LEMMA Invariance == Spec => [](CallsOK /\ HandlersOK /\ Books)
<1>1. Spec => []CallsOK
  BY InitCalls, NextCalls, PTL DEF Spec
<1>2. Spec => []Books
  BY BooksHold, PTL DEF Books
<1> QED
  BY <1>1, <1>2, InitHandlers, NextHandlers, PTL DEF Spec

\* Type correctness of the handlers and of the coordinator they call.
THEOREM TypeCorrect == Spec => []TypeOK
<1>1. CallsOK /\ HandlersOK /\ Books => TypeOK
  BY DEF CallsOK, HandlersOK, Books, TypeOK
<1> QED
  BY <1>1, Invariance, PTL

\* Every settlement is the one the provider's response calls for, however the
\* handlers, the polling and the administration interleave (proxyInference).
THEOREM SettlementsMatchReplies == Spec => []SettlementMatchesReply
<1>1. HandlersOK => SettlementMatchesReply
  BY DEF HandlersOK, Answers, Charged, SettlementMatchesReply
<1> QED
  BY <1>1, Invariance, PTL

\* A handler that ends with its reservation outstanding was cut, was failed by the
\* coordinator, lost the response while reading it, or could not convert the request.
THEOREM EndsAreSettled == Spec => []SettledBeforeTheEnd
<1>1. HandlersOK => SettledBeforeTheEnd
  BY DEF HandlersOK, Held, SettledBeforeTheEnd, Outstanding
<1> QED
  BY <1>1, Invariance, PTL

\* Only the holder of the request's token, active when the reservation is made,
\* gets one (authorize looks the agent up again after /preflight).
THEOREM AdmissionsAreCurrent == Spec => AdmissionIsCurrent
<1> DEFINE Current == \A r \in reservations' \ reservations :
                        /\ agents[r.agent].token = call[r.id].token
                        /\ agents[r.agent].status = "active"
<1>1. ASSUME Books, [Next]_vars PROVE [Current]_vars
  <2>1. ASSUME NEW q \in Requests, NEW cost \in EstimatedCosts, NEW a \in AgentIds,
               G!Admit(a, call[q].model, cost, q), agents[a].token = call[q].token
        PROVE  Current
    <3> DEFINE n == [id |-> q, agent |-> a, date |-> G!utcDate, amount |-> cost,
                     createdAt |-> now]
    <3>1. reservations' \ reservations \subseteq {n} /\ n.id = q /\ n.agent = a
      BY <2>1 DEF G!Admit, G!Retained
    <3>2. agents[a].status \in G!Statuses
      BY <1>1, <2>1 DEF Books, G!TypeOK, G!Agents, G!Admit, G!Created
    <3>3. agents[a].status = "active"
      BY <2>1, <3>2 DEF G!Admit, G!evaluateCloudPolicy, G!Statuses
    <3> QED
      BY <2>1, <3>1, <3>3
  <2>2. ASSUME NEW q \in Requests, Authorize(q) PROVE Current
    BY <2>1, <2>2
       DEF Authorize, G!Refuse, G!recoverStaleReservations, G!Retained
  <2>3. ASSUME NEW q \in Requests, Arrive(q) \/ Handle(q) \/ Provide(q) \/ Fail(q), ~Authorize(q)
        PROVE  reservations' \subseteq reservations
    <3>1. CASE Confirm(q) \/ Release(q)
      BY <3>1 DEF Confirm, Release, G!confirm, G!release, G!vars
    <3>2. CASE Arrive(q) \/ Preflight(q) \/ Send(q) \/ TranslationThrows(q)
      BY <3>2 DEF Arrive, Preflight, Send, TranslationThrows, gvars
    <3>3. CASE Provide(q) \/ Fail(q)
      BY <3>3 DEF Provide, Credentials, Unreachable, BodyBreaks, BodyRead, Stream,
                  StreamEnds, StreamBreaks, Fail, Cut, CoordinatorFails, gvars
    <3> QED
      BY <2>3, <3>1, <3>2, <3>3 DEF Handle
  <2>4. CASE administer \/ poll \/ Tick
    BY <2>4 DEF administer, poll, Tick, G!administer, G!addAgent, G!setStatus, G!archiveAgent,
                G!rotateAgentToken, G!dashboard, G!recoverStaleReservations, G!Retained, G!Tick
  <2> QED
    BY <1>1, <2>2, <2>3, <2>4 DEF Next
<1>2. Spec => []Books
  BY Invariance, PTL
<1> QED
  BY <1>1, <1>2, PTL DEF Spec, AdmissionIsCurrent
=============================================================================
