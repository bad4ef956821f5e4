-------------------------- MODULE WorkerInference --------------------------
(***************************************************************************)
(* The inference path of the cloud Worker: proxyInference of               *)
(* cloudflare/worker/index.ts, one handler per request, between its caller,*)
(* the GuardCoordinator and the upstream provider.                         *)
(*                                                                         *)
(* A handler runs from one await to the next; any number of handlers, the  *)
(* operators' calls, the dashboard's polling and the clock interleave at   *)
(* the awaits.  Every coordinator.fetch is one step of GuardCoordinator.   *)
(* A handler makes at most one reservation, so a request's name also       *)
(* stands for the id of its reservation.                                   *)
(***************************************************************************)
EXTENDS Integers, FiniteSets

CONSTANTS AgentIds, Tokens, Models, Days, UtcDate, MaxClock, StaleAfter,
          EstimatedCosts, ReportedCosts, DailyBudgets, MaxRequests, NoLimit, NoAgent

CONSTANTS
  Requests,       \* calls of the inference routes
  NoCall,         \* the call has not arrived
  NoCost,         \* extractCloudCost found no usage.cost
  LastAdmission,  \* bound: no call arrives later, so its reservation can age
  MaxFaults       \* bound: how many handlers end "cut" or "unsettled"

VARIABLES agents, issuedTokens, confirmed, reservations, ledger, now

G == INSTANCE GuardCoordinator WITH ReservationIds <- Requests

\* What the coordinator assumes of the constants it shares with the handlers.
ASSUME CoordinatorAssumption ==
  G!ClockAssumption /\ G!DateAssumption /\ G!AmountAssumption /\ G!NoAgentAssumption

\* A provider may report exactly what was reserved, or nothing: both are confirmed.
ASSUME CostAssumption == EstimatedCosts \subseteq ReportedCosts
ASSUME BoundAssumption == LastAdmission \in Nat /\ MaxFaults \in Nat

VARIABLES
  call,      \* the request as its caller sent it
  pc,        \* the await a handler is at
  bound,     \* reservation.amountMicroUsd, as authorize returned it
  upstream,  \* what the handler knows of the provider's response
  client     \* what the caller was answered

gvars == <<agents, issuedTokens, confirmed, reservations, ledger, now>>
wvars == <<call, pc, bound, upstream, client>>
vars == <<gvars, wvars>>

\* /v1/messages takes the path of /v1/chat/completions; a stream flag on
\* /v1/responses is ignored, its response is always read whole.
Kinds == {"buffered", "stream", "responses"}

Calls == [kind : Kinds, token : Tokens, model : Models]

Working == {"preflight", "credentials", "authorize", "send", "reply", "stream",
            "confirm", "release"}

\* "done": the handler, and what it left to waitUntil, came to a regular end;
\* "thrown": the outer catch, or a rejected waitUntil; "cut": see Cut;
\* "unsettled": the coordinator failed the settlement, see CoordinatorFails.
Ends == {"done", "thrown", "cut", "unsettled"}

Upstreams == [state : {"unsent", "sent", "unreachable", "broken", "replied"},
              ok : BOOLEAN, cost : ReportedCosts \cup {NoCost}]

Outcomes == {"waiting", "refused", "failed", "answered"}

Outstanding == {r.id : r \in reservations}

Unadmitted == {"preflight", "credentials", "authorize"}

Admitted == {"send", "reply", "stream", "confirm", "release"}

-----------------------------------------------------------------------------

Init ==
  /\ G!Init
  /\ call = [q \in Requests |-> NoCall]
  /\ pc = [q \in Requests |-> "idle"]
  /\ bound = [q \in Requests |-> 0]
  /\ upstream = [q \in Requests |-> [state |-> "unsent", ok |-> FALSE, cost |-> NoCost]]
  /\ client = [q \in Requests |-> "waiting"]

\* The handler of q goes from one await to another.
Goto(q, from, to) == pc[q] = from /\ pc' = [pc EXCEPT ![q] = to]

\* The caller of q gets its response.
Answer(q, outcome) == client' = [client EXCEPT ![q] = outcome]

FaultsLeft == Cardinality({p \in Requests : pc[p] \in {"cut", "unsettled"}}) < MaxFaults

\* The handler of q goes no further, and its caller learns no more than it has.
CutShort(q) ==
  /\ FaultsLeft
  /\ pc' = [pc EXCEPT ![q] = "cut"]
  /\ Answer(q, IF client[q] = "waiting" THEN "failed" ELSE client[q])

\* A call whose body is readable, names a model and carries a well-formed token.
Arrive(q) ==
  /\ now <= LastAdmission
  /\ Goto(q, "idle", "preflight")
  /\ call' \in {[call EXCEPT ![q] = c] : c \in Calls}
  /\ UNCHANGED <<gvars, bound, upstream, client>>

\* /preflight: the policy, for a free request, without the budget.
Preflight(q) ==
  LET passes == \E a \in G!Created :
        /\ agents[a].token = call[q].token
        /\ ~agents[a].archived
        /\ G!evaluateCloudPolicy(agents[a], 0, call[q].model) = "ALLOWED"
  IN /\ \/ /\ Goto(q, "preflight", "credentials")
           /\ passes
           /\ UNCHANGED client
        \/ /\ Goto(q, "preflight", "done")
           /\ ~passes
           /\ Answer(q, "refused")
     /\ UNCHANGED <<gvars, call, bound, upstream>>

\* A mistaken Authorize: the holder of the token is the one preflight saw, its
\* status is not looked at again.
AuthorizeOnPreflight(q) ==
  \E cost \in EstimatedCosts, a \in G!Created :
    LET r == [id |-> q, agent |-> a, date |-> G!utcDate, amount |-> cost, createdAt |-> now]
    IN /\ Goto(q, "authorize", "send")
       /\ bound' = [bound EXCEPT ![q] = cost]
       /\ G!FitsDailyBudget(a, cost)
       /\ reservations' = G!Retained \cup {r}
       /\ confirmed' = G!RecoveredConfirmed
       /\ ledger' = ledger \cup G!RecoveryEvents \cup {G!Event("BUDGET_RESERVED", r, cost)}
       /\ UNCHANGED <<agents, issuedTokens, now, call, upstream, client>>

\* The tenant's key and the catalog are loaded and the request is priced; each
\* of them may refuse it (not provisioned, not in the catalog, not bounded).
Credentials(q) ==
  /\ \/ Goto(q, "credentials", "authorize") /\ UNCHANGED client
     \/ Goto(q, "credentials", "done") /\ Answer(q, "refused")
  /\ UNCHANGED <<gvars, call, bound, upstream>>

\* /authorize, with the price the catalog gave.
Authorize(q) ==
  \E cost \in EstimatedCosts :
    \/ \E a \in AgentIds :
         /\ Goto(q, "authorize", "send")
         /\ G!Admit(a, call[q].model, cost, q)
         /\ agents[a].token = call[q].token
         /\ bound' = [bound EXCEPT ![q] = cost]
         /\ UNCHANGED <<call, upstream, client>>
    \/ /\ Goto(q, "authorize", "done")
       /\ G!Refuse(call[q].token, call[q].model, cost)
       /\ Answer(q, "refused")
       /\ UNCHANGED <<call, bound, upstream>>

\* The request is forwarded under the upstream key.
Send(q) ==
  /\ Goto(q, "send", "reply")
  /\ upstream' = [upstream EXCEPT ![q].state = "sent"]
  /\ UNCHANGED <<gvars, call, bound, client>>

\* responsesToChatRequest throws on an input it cannot convert; only the outer
\* catch is there, and it does not know of the reservation.
TranslationThrows(q) ==
  /\ Goto(q, "send", "thrown")
  /\ call[q].kind = "responses"
  /\ Answer(q, "failed")
  /\ UNCHANGED <<gvars, call, bound, upstream>>

\* fetch rejects.
Unreachable(q) ==
  /\ Goto(q, "reply", "release")
  /\ upstream' = [upstream EXCEPT ![q].state = "unreachable"]
  /\ UNCHANGED <<gvars, call, bound, client>>

\* upstream.text() rejects: the outer catch again.
BodyBreaks(q) ==
  /\ Goto(q, "reply", "thrown")
  /\ upstream' = [upstream EXCEPT ![q].state = "broken"]
  /\ Answer(q, "failed")
  /\ UNCHANGED <<gvars, call, bound>>

\* What the code does with a response it has read whole: the adapted route looks
\* at the status only, the others at the cost first.
Priced(q, ok, cost) == ok \/ (cost # NoCost /\ call[q].kind # "responses")

\* A mistaken AfterBody: a failed response is returned without a release.
AfterBodyUnreleased(q, ok, cost) == IF Priced(q, ok, cost) THEN "confirm" ELSE "done"

AfterBody(q, ok, cost) == IF Priced(q, ok, cost) THEN "confirm" ELSE "release"

BodyRead(q) ==
  \E ok \in BOOLEAN, cost \in ReportedCosts \cup {NoCost} :
    /\ pc[q] = "reply"
    /\ call[q].kind = "stream" => ~ok
    /\ Goto(q, "reply", AfterBody(q, ok, cost))
    /\ upstream' = [upstream EXCEPT ![q] = [state |-> "replied", ok |-> ok, cost |-> cost]]
    /\ UNCHANGED <<gvars, call, bound, client>>

\* A streamed response is passed on at once; its copy is read by reconcileStream.
Stream(q) ==
  /\ Goto(q, "reply", "stream")
  /\ call[q].kind = "stream"
  /\ Answer(q, "answered")
  /\ UNCHANGED <<gvars, call, bound, upstream>>

\* The copy ends, with the last cost any of its events reported.
StreamEnds(q) ==
  \E cost \in ReportedCosts \cup {NoCost} :
    /\ Goto(q, "stream", "confirm")
    /\ upstream' = [upstream EXCEPT ![q] = [state |-> "replied", ok |-> TRUE, cost |-> cost]]
    /\ UNCHANGED <<gvars, call, bound, client>>

\* The copy breaks off: reconcileStream rejects and nothing is confirmed.
StreamBreaks(q) ==
  /\ Goto(q, "stream", "thrown")
  /\ upstream' = [upstream EXCEPT ![q].state = "broken"]
  /\ UNCHANGED <<gvars, call, bound, client>>

\* A mistaken ConfirmedCost: never more than was reserved.
CappedCost(q) ==
  IF upstream[q].cost = NoCost \/ upstream[q].cost > bound[q]
  THEN bound[q] ELSE upstream[q].cost

\* The cost a response is confirmed at: the reported one, else the reserved bound.
ConfirmedCost(q) == IF upstream[q].cost = NoCost THEN bound[q] ELSE upstream[q].cost

\* What the caller of q gets when a settlement has been sent off.  The adapted
\* route converts the body after the confirmation, which may throw.
Unconvertible(q) == pc[q] = "confirm" /\ call[q].kind = "responses"

SettledAnswer(q) ==
  IF pc[q] = "release" /\ upstream[q].state = "unreachable" THEN "failed" ELSE "answered"

\* A mistaken AfterSettlement: the caller is not told.
AfterSettlementSilently(q) ==
  pc' = [pc EXCEPT ![q] = "done"] /\ UNCHANGED client

\* The way a handler goes on once the coordinator has settled its reservation;
\* the coordinator's answer may be lost.
AfterSettlement(q) ==
  \/ pc' = [pc EXCEPT ![q] = "done"] /\ Answer(q, SettledAnswer(q))
  \/ pc' = [pc EXCEPT ![q] = "thrown"] /\ Unconvertible(q) /\ Answer(q, "failed")
  \/ CutShort(q)

\* /confirm, and the response to whoever still waits for one.
Confirm(q) ==
  /\ pc[q] = "confirm"
  /\ G!confirm(q, ConfirmedCost(q))
  /\ AfterSettlement(q)
  /\ UNCHANGED <<call, bound, upstream>>

\* /release, the UPSTREAM_ERROR event, and the upstream's error or a 502.
Release(q) ==
  /\ pc[q] = "release"
  /\ G!release(q)
  /\ AfterSettlement(q)
  /\ UNCHANGED <<call, bound, upstream>>

\* The coordinator catches what its storage throws and answers 400, nothing being
\* changed: a request not yet admitted is refused, whereas confirm and release do
\* not look at the status, so the handler goes on and its reservation stays.
CoordinatorFails(q) ==
  /\ \/ pc[q] \in {"preflight", "authorize"} /\ Goto(q, pc[q], "done") /\ Answer(q, "refused")
     \/ /\ pc[q] \in {"confirm", "release"}
        /\ FaultsLeft
        /\ Goto(q, pc[q], "unsettled")
        /\ \/ Answer(q, SettledAnswer(q))
           \/ Unconvertible(q) /\ Answer(q, "failed")
  /\ UNCHANGED <<gvars, call, bound, upstream>>

\* A handler goes no further: its isolate is gone, its caller has disconnected,
\* waitUntil's time is over, or a call to the coordinator rejected.
Cut(q) ==
  /\ pc[q] \in Working
  /\ CutShort(q)
  /\ UNCHANGED <<gvars, call, bound, upstream>>

administer == G!administer /\ UNCHANGED wvars

\* The dashboard reads the coordinator every four seconds while it is open.
poll == G!dashboard /\ UNCHANGED wvars

\* The bound on admissions: the clock waits for the calls that have arrived.
Tick ==
  /\ now < LastAdmission \/ \A q \in Requests : pc[q] \notin Unadmitted
  /\ G!Tick
  /\ UNCHANGED wvars

-----------------------------------------------------------------------------

\* The steps a handler takes by itself, and those for which it waits for Orbio:
\* the catalog before the admission, the response after it.
Handle(q) ==
  Preflight(q) \/ Authorize(q) \/ Send(q) \/ TranslationThrows(q) \/ Confirm(q) \/ Release(q)

Provide(q) ==
  Credentials(q) \/ Unreachable(q) \/ BodyBreaks(q) \/ BodyRead(q) \/ Stream(q)
    \/ StreamEnds(q) \/ StreamBreaks(q)

Fail(q) == Cut(q) \/ CoordinatorFails(q)

Next ==
  \/ \E q \in Requests : Arrive(q) \/ Handle(q) \/ Provide(q) \/ Fail(q)
  \/ administer \/ poll \/ Tick

Spec == Init /\ [][Next]_vars

\* Handlers run, time passes, and somebody has the dashboard open; Orbio owes
\* nothing, since the Worker sets no timeout on either of its fetches.
FairSpec ==
  /\ Spec
  /\ WF_vars(poll) /\ WF_vars(Tick)
  /\ \A q \in Requests : WF_vars(Handle(q))

-----------------------------------------------------------------------------

TypeOK ==
  /\ G!TypeOK
  /\ call \in [Requests -> Calls \cup {NoCall}]
  /\ pc \in [Requests -> {"idle"} \cup Working \cup Ends]
  /\ bound \in [Requests -> EstimatedCosts \cup {0}]
  /\ upstream \in [Requests -> Upstreams]
  /\ client \in [Requests -> Outcomes]

\* Whatever the handlers do, the coordinator only ever sees the calls that
\* GuardCoordinator allows for: everything shown and proved there holds here.
ImplementsCoordinator == G!Spec

\* A reservation is made for the agent that holds the request's token when it is
\* made, active at that moment: a pause, a kill switch or a rotation between
\* /preflight and /authorize takes effect (authorize looks the agent up again).  An
\* archived agent that setStatus made active again counts as active in authorize.
AdmissionIsCurrent ==
  [][\A r \in reservations' \ reservations :
       /\ agents[r.agent].token = call[r.id].token
       /\ agents[r.agent].status = "active"]_vars

\* Every settlement is the one the upstream's response calls for.  Spend is
\* confirmed at the cost the response reported or, without one, at what was
\* reserved.  A response that failed but reports a cost is confirmed too, except
\* on /v1/responses, where it is released; so is every other failed response and
\* one that never came.
SettlementMatchesReply ==
  \A e \in G!Settlements :
    LET u == upstream[e.id]
        charged == u.ok \/ (u.cost # NoCost /\ call[e.id].kind # "responses")
    IN /\ e.type = "SPEND_CONFIRMED" =>
            /\ u.state = "replied" /\ charged
            /\ e.amount = IF u.cost = NoCost THEN e.reserved ELSE u.cost
       /\ e.type = "RESERVATION_RELEASED" =>
            u.state = "unreachable" \/ (u.state = "replied" /\ ~charged)

\* Why the handler of q may have ended with its reservation outstanding: it was
\* cut, the coordinator failed its settlement, the response broke off while it
\* was read, or the request could not be converted before it was sent.
LeftBehind(q) ==
  \/ pc[q] \in {"cut", "unsettled"}
  \/ /\ pc[q] = "thrown"
     /\ \/ upstream[q].state = "broken"
        \/ upstream[q].state = "unsent" /\ call[q].kind = "responses"

\* A reservation is outstanding only while its handler is at work on it, or for one
\* of the reasons of LeftBehind: in particular not when the answer could not be
\* converted, since that is settled first.  A caller is given its response in one
\* piece only once the reservation is settled or the coordinator has failed to.
SettledBeforeTheEnd ==
  \A q \in Outstanding :
    /\ pc[q] \in Admitted \/ LeftBehind(q)
    /\ client[q] = "answered" => call[q].kind = "stream" \/ pc[q] = "unsettled"

\* No reservation is held forever: handlers that are cut short or that throw
\* leave theirs to the recovery of the dashboard's next reading.
EventuallySettled ==
  \A q \in Requests : q \in Outstanding ~> q \notin Outstanding

\* A caller that has called is not kept waiting for good, unless it is Orbio that
\* never responds: again and again it has been answered or its handler waits for
\* the catalog or for the response.
OnlyOrbioKeepsWaiting ==
  \A q \in Requests : []<>(client[q] # "waiting" \/ pc[q] \in {"idle", "credentials", "reply"})

\* SECURITY.md:57, "If provider-reported cost exceeds that bound, the agent is
\* disabled immediately": the confirmation of such a cost leaves the agent that
\* made the reservation disabled.
OverrunDisables ==
  [][\A q \in Requests :
       (pc[q] = "confirm" /\ pc'[q] # "confirm" /\ pc'[q] \notin {"cut", "unsettled"}
        /\ ConfirmedCost(q) > bound[q])
         => \A e \in ledger : (e.id = q /\ e.type = "BUDGET_RESERVED")
              => agents'[e.agent].status = "disabled"]_vars
=============================================================================
