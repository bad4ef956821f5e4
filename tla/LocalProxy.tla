------------------------------ MODULE LocalProxy ------------------------------
(***************************************************************************)
(* The local runtime: the request handler of src/proxy/server.ts, the      *)
(* authorizer, the control service and the budget service it calls, and    *)
(* the operator's CLI, which works on the same state from another process. *)
(*                                                                         *)
(* Every service call is one store.update; between two of them any other   *)
(* actor may run.  An update takes effect or not, and rejects without it   *)
(* (the lock timed out, the disk is full) or, after an I/O error behind    *)
(* its rename, in spite of it.  These rejections and a crash of the proxy  *)
(* are faults, bounded by MaxFaults.  That an update is atomic is what     *)
(* StateStore proves for one store, and for the proxy and the CLI together *)
(* as long as no store crashes, stalls or meets an I/O error: updates lost *)
(* to a lock broken after that are left to its runs and not repeated here. *)
(***************************************************************************)
EXTENDS Integers, FiniteSets, MicroUsd

CONSTANTS
  AgentIds, Tokens, Models,
  Requests,            \* handler activations, identified with their reservation ids
  Days, UtcDate,       \* UTC dates, and the date of every instant
  MaxClock,            \* bound on the clock
  Ttl,                 \* reservationTtlMs
  DefaultReservation,  \* defaultReservationMicroUsd
  StartPolicy,         \* staleReservationPolicy
  ReportedCosts, DailyBudgets, MaxRequests,
  MaxChanges,          \* bound on what the operator changes
  MaxFaults,           \* bound on crashes and failed updates
  NoLimit, NoAgent, NoCost

Clock == 0..MaxClock
Policies == {"confirm", "release"}

ASSUME LocalAssumption ==
  /\ MaxClock \in Nat /\ Ttl \in Nat \ {0} /\ UtcDate \in [Clock -> Days]
  /\ DefaultReservation \in Nat /\ StartPolicy \in Policies
  /\ ReportedCosts \subseteq Nat /\ DailyBudgets \subseteq Nat /\ MaxRequests \subseteq Nat
  /\ MaxChanges \in Nat /\ MaxFaults \in Nat

VARIABLES
  agents,        \* the agents of guard.json
  issued,        \* every token createAgentToken has returned
  changes,       \* the number of operator changes so far
  confirmed, reservations, ledger,  \* budgets and their ledger events
  audit,         \* the request events of the ledger
  now,
  running,       \* the proxy process is up
  faults,
  req            \* the handler of each request

control == <<agents, issued, changes>>
books   == <<confirmed, reservations, ledger>>
world   == <<now, running>>
vars    == <<control, books, audit, world, faults, req>>

Statuses == {"active", "paused", "disabled"}
Agents == [status : Statuses, token : Tokens, allowedModels : SUBSET Models,
           dailyBudget : DailyBudgets, maxRequest : MaxRequests \cup {NoLimit}]
ASSUME NoAgentAssumption == NoAgent \notin Agents

Amounts == MaxRequests \cup {DefaultReservation}
Reservations == [id : Requests, agent : AgentIds, date : Days,
                 amount : Amounts, createdAt : Clock]
Settlement == {"SPEND_CONFIRMED", "RESERVATION_RELEASED",
               "STALE_RESERVATION_CONFIRMED", "STALE_RESERVATION_RELEASED"}
Events == [type : Settlement \cup {"BUDGET_RESERVED"}, id : Requests, agent : AgentIds,
           date : Days, reserved : Amounts, amount : Nat]
Records == [type : {"REQUEST_ALLOWED", "REQUEST_BLOCKED", "UPSTREAM_ERROR"}, id : Requests]

Trying == {"fetch", "stream", "drain", "settle", "note", "catch", "catchNote"}
Places == {"idle", "received", "load", "authorize", "blocked", "reserve", "record",
           "undo", "ended"} \cup Trying

\* A handler: where it is, what it was asked, what it has read and decided, the answer
\* it has, how much of a stream the client has, what became of the connection, and,
\* as history, which of its own updates rejected.  An "open" reply is a stream whose
\* headers were out when the handler failed: it gets no error and is not ended.
Handlers == [pc : Places, token : Tokens \cup {NoLimit}, model : Models \cup {NoLimit},
             stream : BOOLEAN, agent : AgentIds \cup {NoAgent}, amount : Amounts \cup {0},
             limit : DailyBudgets \cup {0}, ok : BOOLEAN, cost : ReportedCosts \cup {NoCost},
             sent : {"nothing", "part", "whole"}, aborted : BOOLEAN, closed : BOOLEAN,
             lost : SUBSET {"reserve", "confirm", "release", "process"},
             reply : {"none", "denied", "failed", "timeout", "upstream", "open"}]
NoRequest == [pc |-> "idle", token |-> NoLimit, model |-> NoLimit, stream |-> FALSE,
              agent |-> NoAgent, amount |-> 0, limit |-> 0, ok |-> FALSE, cost |-> NoCost,
              sent |-> "nothing", aborted |-> FALSE, closed |-> FALSE, lost |-> {},
              reply |-> "none"]

TypeOK ==
  /\ agents \in [AgentIds -> Agents \cup {NoAgent}]
  /\ issued \subseteq Tokens /\ changes \in 0..MaxChanges
  /\ confirmed \in [AgentIds -> [Days -> Nat]]
  /\ reservations \subseteq Reservations /\ ledger \subseteq Events
  /\ audit \subseteq Records
  /\ now \in Clock /\ running \in BOOLEAN /\ faults \in 0..MaxFaults
  /\ req \in [Requests -> Handlers]

Init ==
  /\ agents = [a \in AgentIds |-> NoAgent] /\ issued = {} /\ changes = 0
  /\ confirmed = [a \in AgentIds |-> [d \in Days |-> 0]]
  /\ reservations = {} /\ ledger = {} /\ audit = {}
  /\ now = 0 /\ running = TRUE /\ faults = 0
  /\ req = [r \in Requests |-> NoRequest]
-----------------------------------------------------------------------------
\* The control service, called by the operator's CLI.

Change == changes < MaxChanges /\ changes' = changes + 1
OnlyControl == UNCHANGED <<books, audit, world, faults, req>>

addAgent(a, t, models, budget, limit) ==
  /\ Change /\ agents[a] = NoAgent /\ t \notin issued /\ models # {}
  /\ agents' = [agents EXCEPT ![a] =
       [status |-> "active", token |-> t, allowedModels |-> models,
        dailyBudget |-> budget, maxRequest |-> limit]]
  /\ issued' = issued \cup {t}
  /\ OnlyControl

setStatus(a, status) ==
  /\ Change /\ agents[a] # NoAgent
  /\ agents' = [agents EXCEPT ![a].status = status]
  /\ UNCHANGED issued /\ OnlyControl

rotateToken(a, t) ==
  /\ Change /\ agents[a] # NoAgent /\ t \notin issued
  /\ agents' = [agents EXCEPT ![a].token = t]
  /\ issued' = issued \cup {t}
  /\ OnlyControl

updatePolicy(a, models, budget, limit) ==
  /\ Change /\ agents[a] # NoAgent /\ models # {}
  /\ agents' = [agents EXCEPT ![a].allowedModels = models, ![a].dailyBudget = budget,
                              ![a].maxRequest = limit]
  /\ UNCHANGED issued /\ OnlyControl

\* verifyAgentToken finds this agent.
Holder(a, token) == agents[a] # NoAgent /\ agents[a].token = token

\* evaluateStaticPolicy, as a condition: the code of the denial is not kept.
StaticPolicyAllows(agent, amount, model) ==
  /\ agent.status = "active"
  /\ model \in agent.allowedModels
  /\ agent.maxRequest # NoLimit => amount <= agent.maxRequest
-----------------------------------------------------------------------------
\* The budget service.

Of(S, a, d) == {x \in S : x.agent = a /\ x.date = d}

Event(type, r, amount) ==
  [type |-> type, id |-> r.id, agent |-> r.agent, date |-> r.date,
   reserved |-> r.amount, amount |-> amount]

\* findReservation, as the set of what it finds.
Found(id) == {r \in reservations : r.id = id}

\* A bug a change could bring in: what is reserved is not counted.
FitsConfirmed(a, amount, limit) == confirmed[a][UtcDate[now]] + amount <= limit

Fits(a, amount, limit) ==
  confirmed[a][UtcDate[now]] + Total(Of(reservations, a, UtcDate[now])) + amount <= limit

Reserve(id, a, amount) ==
  LET r == [id |-> id, agent |-> a, date |-> UtcDate[now], amount |-> amount,
            createdAt |-> now]
  IN /\ reservations' = reservations \cup {r}
     /\ ledger' = ledger \cup {Event("BUDGET_RESERVED", r, amount)}
     /\ UNCHANGED <<confirmed, audit>>

\* confirm throws when the reservation is gone.
Confirm(id, amount) ==
  \E r \in Found(id) :
    /\ reservations' = reservations \ {r}
    /\ confirmed' = [confirmed EXCEPT ![r.agent][r.date] = @ + amount]
    /\ ledger' = ledger \cup {Event("SPEND_CONFIRMED", r, amount)}
    /\ UNCHANGED audit

\* release of a reservation that is gone does nothing.
Release(id) ==
  /\ reservations' = reservations \ Found(id)
  /\ ledger' = ledger \cup {Event("RESERVATION_RELEASED", r, r.amount) : r \in Found(id)}
  /\ UNCHANGED <<confirmed, audit>>

\* A bug a change could bring in: the ledger calls every recovery a confirmation.
recoverMislabelled(policy) ==
  LET stale == {r \in reservations : now - r.createdAt >= Ttl}
  IN /\ reservations' = reservations \ stale
     /\ confirmed' = IF policy = "release" THEN confirmed
                     ELSE [a \in AgentIds |-> [d \in Days |->
                             confirmed[a][d] + Total(Of(stale, a, d))]]
     /\ ledger' = ledger \cup {Event("STALE_RESERVATION_CONFIRMED", r, r.amount) : r \in stale}

recoverStaleReservations(policy) ==
  LET stale == {r \in reservations : now - r.createdAt >= Ttl}
      type  == IF policy = "confirm" THEN "STALE_RESERVATION_CONFIRMED"
                                     ELSE "STALE_RESERVATION_RELEASED"
  IN /\ reservations' = reservations \ stale
     /\ confirmed' = IF policy = "release" THEN confirmed
                     ELSE [a \in AgentIds |-> [d \in Days |->
                             confirmed[a][d] + Total(Of(stale, a, d))]]
     /\ ledger' = ledger \cup {Event(type, r, r.amount) : r \in stale}

\* orbio-guard budget recover, in a process of its own.
CliRecover == \E policy \in Policies :
  recoverStaleReservations(policy) /\ UNCHANGED <<control, audit, world, faults, req>>
-----------------------------------------------------------------------------
\* The request handler.  A step names the place it leaves and the one it
\* reaches; NoBooks steps leave the state file alone.

At(r, place) == req[r].pc = place
Goto(r, place) == req' = [req EXCEPT ![r].pc = place]

\* What is left of a handler that returned.
Ended(q, reply) == [NoRequest EXCEPT !.pc = "ended", !.reply = reply, !.ok = q.ok,
                                     !.sent = q.sent, !.closed = q.closed, !.lost = q.lost]
End(r, reply) == req' = [req EXCEPT ![r] = Ended(@, reply)]

\* sendError, which does nothing once the headers are out.
sendError(q, reply) == IF q.sent = "nothing" THEN reply ELSE "open"

\* The same for a handler one of whose own updates has just rejected.
Lost(q, update) == [q EXCEPT !.lost = @ \cup {update}]
GotoLost(r, place, update) == req' = [req EXCEPT ![r] = [Lost(@, update) EXCEPT !.pc = place]]
EndLost(r, reply, update) == req' = [req EXCEPT ![r] = Ended(Lost(@, update), reply)]

NoFault == UNCHANGED <<control, world, faults>>
NoBooks == NoFault /\ UNCHANGED <<books, audit>>
Record(r, type) == audit' = audit \cup {[type |-> type, id |-> r]} /\ UNCHANGED books

\* An update that rejects: before it took effect, or after.
Fault == faults < MaxFaults /\ faults' = faults + 1 /\ UNCHANGED <<control, world>>
Rejects(update) == Fault /\ (update \/ UNCHANGED <<books, audit>>)

Arrive(r, token, model, stream) ==
  /\ running /\ At(r, "idle")
  /\ req' = [req EXCEPT ![r].pc = "received", ![r].token = token, ![r].model = model,
                        ![r].stream = stream]
  /\ NoBooks

\* A bug a change could bring in: the default reservation is forgotten.
AuthenticateUnpriced(r) ==
  /\ At(r, "received")
  /\ \/ \E a \in AgentIds :
          /\ Holder(a, req[r].token)
          /\ req' = [req EXCEPT ![r].pc = "load", ![r].amount = agents[a].maxRequest]
     \/ (\A a \in AgentIds : ~Holder(a, req[r].token)) /\ End(r, "denied")
  /\ NoBooks

\* The handler's own authentication prices the request, from one reading.
Authenticate(r) ==
  /\ At(r, "received")
  /\ \/ \E a \in AgentIds :
          /\ Holder(a, req[r].token)
          /\ req' = [req EXCEPT ![r].pc = "load", ![r].amount =
                       IF agents[a].maxRequest = NoLimit THEN DefaultReservation
                                                         ELSE agents[a].maxRequest]
     \/ (\A a \in AgentIds : ~Holder(a, req[r].token)) /\ End(r, "denied")
  /\ NoBooks

\* keyStore.load throws when no upstream key is stored.
LoadKey(r) == At(r, "load") /\ (Goto(r, "authorize") \/ End(r, "failed")) /\ NoBooks

\* authorize authenticates again and decides, from a second reading.
Authorize(r) ==
  /\ At(r, "authorize")
  /\ \/ \E a \in AgentIds :
          /\ Holder(a, req[r].token)
          /\ StaticPolicyAllows(agents[a], req[r].amount, req[r].model)
          /\ req' = [req EXCEPT ![r].pc = "reserve", ![r].agent = a,
                                ![r].limit = agents[a].dailyBudget]
     \/ /\ \A a \in AgentIds : Holder(a, req[r].token) =>
             ~StaticPolicyAllows(agents[a], req[r].amount, req[r].model)
        /\ Goto(r, "blocked")
  /\ NoBooks

RecordBlocked(r) ==
  /\ At(r, "blocked")
  /\ \/ Record(r, "REQUEST_BLOCKED") /\ End(r, "denied") /\ NoFault
     \/ Rejects(Record(r, "REQUEST_BLOCKED")) /\ End(r, "failed")

ReserveBudget(r) ==
  /\ At(r, "reserve")
  /\ LET q == req[r] IN
     \/ /\ Fits(q.agent, q.amount, q.limit)
        /\ Reserve(r, q.agent, q.amount) /\ Goto(r, "record") /\ NoFault
     \/ ~Fits(q.agent, q.amount, q.limit) /\ Goto(r, "blocked") /\ NoBooks
     \/ /\ Rejects(Fits(q.agent, q.amount, q.limit) /\ Reserve(r, q.agent, q.amount))
        /\ EndLost(r, "failed", "reserve")

\* A bug a change could bring in: a request that could not be recorded goes on.
RecordAllowedOnly(r) ==
  /\ At(r, "record")
  /\ \/ Record(r, "REQUEST_ALLOWED") /\ Goto(r, "fetch") /\ NoFault
     \/ Rejects(FALSE) /\ Goto(r, "fetch")

\* A bug a change could bring in: the reservation of such a request is kept.
RecordAllowedNoUndo(r) ==
  /\ At(r, "record")
  /\ \/ Record(r, "REQUEST_ALLOWED") /\ Goto(r, "fetch") /\ NoFault
     \/ Rejects(FALSE) /\ End(r, "failed")

RecordAllowed(r) ==
  /\ At(r, "record")
  /\ \/ Record(r, "REQUEST_ALLOWED") /\ Goto(r, "fetch") /\ NoFault
     \/ Rejects(Record(r, "REQUEST_ALLOWED")) /\ Goto(r, "undo")

Undo(r) ==
  /\ At(r, "undo")
  /\ \/ Release(r) /\ End(r, "failed") /\ NoFault
     \/ Rejects(Release(r)) /\ EndLost(r, "failed", "release")

\* The provider's answer: buffered to the end, or a stream that begins.
UpstreamReplies(r, ok, cost) ==
  /\ At(r, "fetch") /\ ~req[r].aborted
  /\ req' = [req EXCEPT ![r].pc = IF req[r].stream /\ ok THEN "stream" ELSE "settle",
                        ![r].ok = ok,
                        ![r].cost = IF req[r].stream /\ ok THEN NoCost ELSE cost]
  /\ NoBooks

\* response.write of a chunk: the headers go out with the first.
Chunk(r) == /\ At(r, "stream") /\ ~req[r].aborted /\ ~req[r].closed
            /\ req' = [req EXCEPT ![r].sent = "part"]
            /\ NoBooks

\* response.write returns false: the client reads slowly or is gone.
Backpressure(r) ==
  /\ At(r, "stream") /\ ~req[r].aborted
  /\ req' = [req EXCEPT ![r].pc = "drain", ![r].sent = IF req[r].closed THEN @ ELSE "part"]
  /\ NoBooks

\* "drain" is only emitted while the connection lives.
Drained(r) == At(r, "drain") /\ ~req[r].closed /\ Goto(r, "stream") /\ NoBooks

\* The body is over: the client has all of it, before anything is booked.
StreamEnds(r, cost) ==
  /\ At(r, "stream") /\ ~req[r].aborted
  /\ req[r].sent = "nothing" => cost = NoCost
  /\ req' = [req EXCEPT ![r].pc = "settle", ![r].cost = cost,
                        ![r].sent = IF @ = "nothing" THEN @ ELSE "whole"]
  /\ NoBooks

\* fetch or the body rejects: the network, or the abort signal.
UpstreamFails(r) == req[r].pc \in {"fetch", "stream"} /\ Goto(r, "catch") /\ NoBooks

Charge(r) == IF req[r].cost = NoCost THEN req[r].amount ELSE req[r].cost

\* A bug a change could bring in: the answer is ended before the books are written.
SettleAfterEnd(r) ==
  /\ At(r, "settle") /\ End(r, "upstream")
  /\ \/ Confirm(r, Charge(r)) /\ NoFault
     \/ Rejects(FALSE)

\* reconcileBufferedResponse, or the confirm that ends a stream.
Settle(r) ==
  /\ At(r, "settle")
  /\ LET confirms == req[r].cost # NoCost \/ req[r].ok IN
     \/ /\ confirms /\ Confirm(r, Charge(r)) /\ NoFault
        /\ IF req[r].ok THEN End(r, "upstream") ELSE Goto(r, "note")
     \/ confirms /\ Found(r) = {} /\ Goto(r, "catch") /\ NoBooks
     \/ confirms /\ Rejects(Confirm(r, Charge(r))) /\ GotoLost(r, "catch", "confirm")
     \/ ~confirms /\ Release(r) /\ Goto(r, "note") /\ NoFault
     \/ ~confirms /\ Rejects(Release(r)) /\ Goto(r, "catch")

NoteUpstreamError(r) ==
  /\ At(r, "note")
  /\ \/ Record(r, "UPSTREAM_ERROR") /\ End(r, "upstream") /\ NoFault
     \/ Rejects(Record(r, "UPSTREAM_ERROR")) /\ Goto(r, "catch")

Catch(r) ==
  /\ At(r, "catch")
  /\ \/ Release(r) /\ Goto(r, "catchNote") /\ NoFault
     \/ Rejects(Release(r)) /\ EndLost(r, sendError(req[r], "failed"), "release")

CatchNote(r) ==
  /\ At(r, "catchNote")
  /\ \/ /\ Record(r, "UPSTREAM_ERROR") /\ NoFault
        /\ End(r, sendError(req[r], IF req[r].aborted THEN "timeout" ELSE "failed"))
     \/ Rejects(Record(r, "UPSTREAM_ERROR")) /\ End(r, sendError(req[r], "failed"))

\* A bug a change could bring in: the timer of a request is never set.
NoTimeout(r) == FALSE

\* The timer, which runs until the handler leaves its try.
Timeout(r) ==
  /\ req[r].pc \in Trying /\ ~req[r].aborted
  /\ req' = [req EXCEPT ![r].aborted = TRUE]
  /\ NoBooks

\* The listeners are only there inside the try: a client that leaves during
\* the authorization is not noticed.
ClientCloses(r) ==
  /\ req[r].pc \notin {"idle", "ended"} /\ ~req[r].closed
  /\ req' = [req EXCEPT ![r].closed = TRUE, ![r].aborted = @ \/ req[r].pc \in Trying]
  /\ NoBooks
-----------------------------------------------------------------------------
\* The proxy process dies and is started again, which recovers.
Crash ==
  /\ running /\ faults < MaxFaults
  /\ running' = FALSE /\ faults' = faults + 1
  /\ req' = [r \in Requests |-> IF req[r].pc \in {"idle", "ended"} THEN req[r]
                                ELSE Ended(Lost(req[r], "process"), "none")]
  /\ UNCHANGED <<control, books, audit, now>>

startProxyServer ==
  /\ ~running /\ running' = TRUE
  /\ recoverStaleReservations(StartPolicy)
  /\ UNCHANGED <<control, audit, now, faults, req>>

Tick == now < MaxClock /\ now' = now + 1 /\ UNCHANGED <<control, books, audit, running, faults, req>>

Operator == \E a \in AgentIds :
  \/ \E t \in Tokens : rotateToken(a, t)
  \/ \E status \in Statuses : setStatus(a, status)
  \/ \E models \in SUBSET Models, budget \in DailyBudgets, limit \in MaxRequests \cup {NoLimit} :
       \/ \E t \in Tokens : addAgent(a, t, models, budget, limit)
       \/ updatePolicy(a, models, budget, limit)

\* What the handler does by itself, and what the provider and the client do.
Handler(r) ==
  \/ Authenticate(r) \/ LoadKey(r) \/ Authorize(r) \/ RecordBlocked(r) \/ ReserveBudget(r)
  \/ RecordAllowed(r) \/ Undo(r) \/ Settle(r) \/ NoteUpstreamError(r) \/ Catch(r) \/ CatchNote(r)

Outside(r) ==
  \/ \E t \in Tokens, m \in Models, s \in BOOLEAN : Arrive(r, t, m, s)
  \/ \E ok \in BOOLEAN, cost \in ReportedCosts \cup {NoCost} : UpstreamReplies(r, ok, cost)
  \/ \E cost \in ReportedCosts \cup {NoCost} : StreamEnds(r, cost)
  \/ Chunk(r) \/ Backpressure(r) \/ Drained(r) \/ UpstreamFails(r) \/ Timeout(r) \/ ClientCloses(r)

Next == \/ Operator \/ CliRecover \/ Crash \/ startProxyServer \/ Tick
        \/ \E r \in Requests : Handler(r) \/ Outside(r)

Spec == Init /\ [][Next]_vars

\* The event loop runs the handler on; the timer fires, and an aborted fetch or
\* body rejects.  The provider and the client owe nothing.
FairSpec == Spec /\ \A r \in Requests :
  /\ WF_vars(Handler(r)) /\ WF_vars(Timeout(r))
  /\ WF_vars(req[r].aborted /\ UpstreamFails(r))
-----------------------------------------------------------------------------
Settlements == {e \in ledger : e.type \in Settlement}
Charges == {e \in ledger : e.type \in {"SPEND_CONFIRMED", "STALE_RESERVATION_CONFIRMED"}}
Outstanding(r) == Found(r) # {}
Recorded(r, type) == [type |-> type, id |-> r] \in audit

\* The counter of every budget day is the sum of the charges in the ledger,
\* although the proxy confirms while another process may recover.
ConfirmedMatchesLedger == \A a \in AgentIds, d \in Days :
  confirmed[a][d] = Total(Of(Charges, a, d))

ASSUME BudgetsAssumption == \E b \in DailyBudgets : \A c \in DailyBudgets : c <= b
HighestBudget == CHOOSE b \in DailyBudgets : \A c \in DailyBudgets : c <= b

\* What the abstract account sees.  Its limit is the highest budget the agent can
\* have, since the limit is decided on one reading and used in a later update; a
\* recovery with the release policy is a release.
AccountLimit == [a \in AgentIds |-> IF agents[a] = NoAgent THEN 0 ELSE HighestBudget]

AccountType(type) ==
  CASE type = "STALE_RESERVATION_CONFIRMED" -> "RESERVATION_RECOVERED"
    [] type = "STALE_RESERVATION_RELEASED"  -> "RESERVATION_RELEASED"
    [] OTHER -> type

AccountSettled == {[e EXCEPT !.type = AccountType(@)] : e \in Settlements}

Account == INSTANCE SpendAccount
  WITH Owners <- AgentIds, limit <- AccountLimit, held <- reservations,
       settled <- AccountSettled

\* Every step of the runtime is a step of the abstract account: holds fit the
\* limit, and each is settled once, whoever settles it (confirm, release,
\* recoverStaleReservations).
ImplementsSpendAccount == Account!Spec

Charged(r) == \E e \in ledger : e.id = r /\ e.type = "SPEND_CONFIRMED"
Recovered(r) == \E e \in ledger :
  e.id = r /\ e.type \in {"STALE_RESERVATION_CONFIRMED", "STALE_RESERVATION_RELEASED"}

\* What the client has agrees with the books, whatever failed meanwhile: a denied
\* request holds nothing, a good answer that was ended is charged, a 504 holds nothing
\* and is on record.  A stream is sent before it is charged: a client that has all of
\* it is not charged only if its reservation was recovered, its confirm rejected or
\* the proxy died; and one that got an error, or an answer that is never ended, is
\* charged for a good answer only if its confirm rejected (handleRequest,
\* streamUpstreamResponse, sendError).
RepliesTellTheBooks == \A r \in Requests : LET q == req[r] IN
  /\ q.reply = "denied" => \A e \in ledger : e.id # r
  /\ q.reply = "upstream" /\ q.ok => Charged(r)
  /\ q.reply \in {"upstream", "timeout"} => ~Outstanding(r)
  /\ q.reply = "timeout" => Recorded(r, "UPSTREAM_ERROR")
  /\ q.pc = "ended" /\ q.sent = "whole" =>
       Charged(r) \/ Recovered(r) \/ q.lost \cap {"confirm", "process"} # {}
  /\ q.pc = "ended" /\ q.ok /\ q.reply # "upstream" /\ Charged(r) => "confirm" \in q.lost

\* A reservation whose handler is gone was left by a crash, by a release that
\* rejected or by a reservation that rejected: no path through the handler, the
\* authorizer and their error branches forgets one, whatever else has failed.
OrphansComeFromFaults == \A x \in reservations : LET q == req[x.id] IN
  \/ q.pc \in {"record", "undo"} \cup Trying
  \/ q.lost \cap {"process", "release", "reserve"} # {}

\* The provider is only contacted for a request that is recorded as allowed,
\* and no request is recorded as both allowed and blocked.
ForwardedIsRecorded == \A r \in Requests :
  /\ req[r].pc \in Trying => Recorded(r, "REQUEST_ALLOWED")
  /\ ~(Recorded(r, "REQUEST_ALLOWED") /\ Recorded(r, "REQUEST_BLOCKED"))

\* Without faults every reservation is settled, by the answer or by the timer,
\* unless the handler waits for good for a client to drain.
EventuallySettled == \A r \in Requests :
  [](Outstanding(r) => <>~Outstanding(r) \/ <>[]At(r, "drain"))
=============================================================================
