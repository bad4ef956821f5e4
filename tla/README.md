# Orbio Guard: specifications and proofs

Orbio Guard lets AI agents spend one Orbio account's money under per-agent daily
budgets. It exists twice: as a Cloudflare Worker with one Durable Object per
tenant (`cloudflare/worker/index.ts`, `src/cloudflare/core.ts`) and as a local
proxy with a state file (`src/proxy`, `src/control`, `src/domain`, `src/state`).
This directory holds TLA+ models of the parts that decide about money, the TLC
configurations that check them and TLAPS proofs about them. Paths below are
relative to `src/03_implementation/orbio-guard/`; `index.ts` is
`cloudflare/worker/index.ts` and `core.ts` is `src/cloudflare/core.ts`.

Both variants do the same three things for every request: reserve a bound of its
cost within the agent's daily budget, forward it, and settle the reservation by
confirming what it cost or releasing it. A reservation nobody settles is
recovered after five minutes. What can go wrong lies between those steps.

## 1. Inventory

| Component | State | Operations | Hard behaviours |
|---|---|---|---|
| Cloud coordinator, `GuardCoordinator` (index.ts:85-670) | agents, budget days with confirmed spend and reservations, ledger | preflight, authorize, confirm, release, dashboard, add/status/archive/rotate agent | settlements late, repeated or overtaken by the recovery; change of UTC day; agents changed while a request runs |
| Cloud inference handler (index.ts:801-920, 1004-1136) | none of its own: locals across some eight awaits | preflight, credentials, price, authorize, send, read, confirm/release | interleaving of handlers; a provider that fails, breaks off, or never answers; isolates and `waitUntil` ended by the platform |
| Cloud tenant connection (index.ts:463-657) | tokens, client, OAuth state and verifier, gateway key, fingerprint | start/finish OAuth, provision, tool calls, token refresh | read, await, write without a guard: two starts, two provisionings, two refreshes |
| Cloud pricing, translation, cost extraction (core.ts:81-216, 356-377) | none | price, convert, extract | the worst case of several rates, limits and choices; two roundings; a cost reported for a part, or not at all |
| Catalog cache (index.ts:949-973) | one copy per isolate | load | five-minute staleness, shared by tenants; loads that overlap |
| Operator access, rate limit, routing (index.ts:673-798) | none | verify, route | none kept in state |
| Local state store (`src/state/store.ts`) | `guard.json`, `guard.json.lock`, promise chain | read, update | processes racing for a lock file, stale locks, crashes, a chain that must go on after a rejection |
| Local proxy (`src/proxy/server.ts`) | a handler per request, a timer, listeners | handleRequest, startProxyServer | failures of every update, timer against answer, clients that leave, backpressure, restart |
| Authorizer, budgets, policy, control (`src/control`, `src/domain`) | the document in the store | authorize, reserve, confirm, release, recover, agent commands | two updates between decision and reservation, the operator's CLI in another process |
| Key lifecycle, upstream key store (`src/orbio/key-lifecycle.ts`, `src/upstream`) | `upstream.json`, `key-create-recovery.json`, the key events of `guard.json` | create/rotate, revoke, migrate; import, clear | a crash between remote call and local save, three writes that may fail one by one, concurrent commands, an answer that is an error |
| OAuth store, provider, callback (`src/auth`), connection (`src/orbio/mcp-client.ts`) | `oauth.json`, the callback port and its timer | connect, call a tool, log in, refresh, log out | read-modify-write without a lock, refresh tokens that are replaced, callbacks that never come |
| CLI (`src/cli.ts`) | none of its own | one process per command, on the files above | runs beside the proxy, the dashboard and other commands |
| Local dashboard (`src/dashboard`) | none | snapshot, remote refresh | the remote refresh writes `oauth.json` |
| Discovery, dashboard pages, configuration, setup, redaction, demo, readiness | none that matters here | | reads, parsing and presentation |

How they interact. The Worker calls the coordinator through `fetch`; each call is
one event of the Durable Object. The provider is reached by the Worker only. The
dashboard page polls the coordinator every four seconds while it is open
(`src/dashboard/public/dashboard.js:376`), and every reading recovers stale
reservations. Locally, the proxy, the dashboard and each CLI command have their own
`GuardStateStore` on the same file; the proxy's handlers share one. Every
service call is one `store.update`.

What makes each part correct, in short: a budget bounds what is spent and reserved;
every reservation is settled once, on its own agent and day; the counters are the
sum of the ledger; the caller is told what the books say; nothing is left behind
except by faults, and what they leave is recovered; the state file behaves as one
atomic variable; a reservation covers what the provider charges; a key that was created
and a token that was issued are not lost to another process.

## 2. Modules

| Module | What it is | Stands for |
|---|---|---|
| `MicroUsd` | sums over sets of records, without recursion | the BigInt sums of index.ts and `budget.ts` |
| `SpendAccount` | abstract: holds within a limit, each closed by one settlement | what either budget promises |
| `GuardCoordinator` | the Durable Object, one action per operation | index.ts:96-461, 1162-1202; core.ts:1-68 |
| `WorkerInference` | handlers around an instance of `GuardCoordinator` | index.ts:801-920, 1004-1136 |
| `TenantConnection` | OAuth, key provisioning and token refresh, one step per await | index.ts:463-657 |
| `AtomicStore` | abstract: one document, updates that take effect once or not at all, and callers that know which unless a process dies or an I/O error follows the effect | what `update` promises |
| `StateStore` | the lock file, the chain and the document, one file-system call per step | `src/state/store.ts` |
| `LocalProxy` | request handler, authorizer, control, budgets, CLI recovery, restart | `src/proxy/server.ts`, `src/control`, `src/domain`, `cli.ts:345-366` |
| `CloudPricing` | price, forwarded body, charge, booking, and the shared copy of the catalog | core.ts:70-216, 356-377; index.ts:826-843, 886-914, 949-973 |
| `KeyLifecycle` | key commands as sequences of remote calls and writes | `src/orbio/key-lifecycle.ts`, `key-result.ts`, `src/upstream/key-store.ts`, cli.ts:367-464 |
| `OAuthSession` | commands, dashboard and logout on `oauth.json` and one port | `src/auth`, `src/orbio/mcp-client.ts`, cli.ts:92-195, `dashboard/service.ts:152-185` |
| `MC*` | values of constants, days, symmetry | |
| `*Proofs` | theorems | |

`WorkerInference` composes `GuardCoordinator` (INSTANCE) with its callers.
`LocalProxy` and `KeyLifecycle` use what `StateStore` gives under the conditions it is proved for, `AtomicStore`:
a service call is one step, and may reject without its effect or, when an I/O error follows
the rename, in spite of it (`Rejects`). That holds for one store through any fault, and for several, as the proxy
and the CLI are, while none crashes, stalls or meets an I/O error; updates that are lost because a lock
was broken after that (`store_breakers`) are not repeated in `LocalProxy`. `GuardCoordinator` and
`LocalProxy` both implement `SpendAccount`. `CloudPricing` computes what the others take
as given: its `Reservation` is a member of `WorkerInference`'s `EstimatedCosts`, its booked
amount one of `ReportedCosts`. It is a module of its own, since the coordinator sees
only the two amounts. `KeyLifecycle` and `OAuthSession` share no state with the rest: the key in the
vault is what `LoadKey` of `LocalProxy` reads, which may succeed or fail there; the
ledger updates of a key command are single steps because of `AtomicStore`.

### State and actions against the code

*GuardCoordinator.* `agents`, `confirmed` and `reservations` are the fields of
`GuardState`; a reservation carries the agent and date of the budget it is in, so the
nested arrays become one set. `ledger` is the set of financial events ever
appended; the code's cut to 1000 is left out, since the ledger is here what the
counters are compared with, and no operation reads it. Token hashes are the tokens
themselves (model values), ids are never reused. The actions are the routes
of `fetch`; `Admit` and `Refuse` are the two outcomes of `authorize`, and both contain
the recovery that precedes the decision, as the code does. `update` reads, runs a
mutator that awaits only storage, and writes; the input gate of a Durable Object
lets no other event in between, hence one step. Callers are unconstrained: any
issued reservation id may be confirmed or released at any time, more often than once.

*WorkerInference.* `pc` names the await a handler is suspended at. `Preflight`,
`Credentials`, `Authorize`, `Send`, `BodyRead`, `Stream`, `StreamEnds`,
`Confirm` and `Release` are the code between two of them; the `catch` branches
are `TranslationThrows`, `Unreachable`, `BodyBreaks` and `StreamBreaks`. `Credentials` belongs to
Orbio (`Provide`), not to the handler: its catalog fetch has no timeout. `CoordinatorFails` is a coordinator whose
storage throws and that answers 400 (index.ts:183-186): before the admission the request is refused, whereas
`confirm` and `release` (index.ts:1111-1136) do not look at the status, so the handler ends with its
reservation outstanding (`pc` "unsettled"). `Cut` ends a handler
anywhere: the isolate is evicted, the caller disconnects, `waitUntil` runs out of time, or the
call to the coordinator rejects; it may also hit between a settlement and its answer (`AfterSettlement`).
The price and the reported cost are any members of
`EstimatedCosts` and `ReportedCosts`, so a reported cost may exceed its bound.
`/v1/messages` takes the path of `/v1/chat/completions`. A loading failure, a
missing model and an unpriceable request are one refusal (`Credentials`).

*TenantConnection.* Unlike the budget operations, these await `fetch` and `crypto.subtle`,
where a Durable Object admits other events, so each is a sequence of steps: `Start`,
`StoreAttempt`; `Finish`, `Exchange`, `StoreTokens`; `Provision`, `Status`, `Create`,
`StoreKey`, `StoreFingerprint`; `Look` and `Looked` for the dashboard's two parallel tool
calls. `Reading` is the head of every tool call, which continues with `Refresh` and
`StoreRefreshed` when the access token is about to expire. A client, an attempt, a grant and a key
are named after the call that obtained them. Orbio is modelled from how the code uses it: one
active key, `orbio_create_key` replacing it, codes redeemed once and for their own
client, refresh tokens either replaced on each use or never (`rotates`, chosen
initially). Any remote call may fail (`Fails`); a creation may fail after its effect. Provisionings may
overlap without restriction: the page disables its button, but a second tab or a repeated
request does not see that. `overlapped` is a history variable: the provisionings during
which another ran.

*StateStore.* `file` is the document as the sequence of updates it contains, so a
lost update is a missing element. `OpenLock`, `LockExists`, `StatLock`, `BreakLock`,
`Retry`, `ReadState`, `Mutate`, `WriteState` and `Unlock` are the calls of
`withFileLock`, `acquireLock` and `update`; `queue` is the promise chain of an
instance. Whatever throws before the rename is `Throw`, `LockingFails` and `LockWriteFails`; `ChmodFails`
and `UnlockFails` are the chmod after it (store.ts:114) and the close and rm of the finally (:69-70), which reject an update
that is in the file, the latter leaving the lock. The lock's age is one bit: `LockAges` sets it at any time when the holder is
gone or when `SlowHolders` says that a live holder may take over thirty seconds.
`Crash` ends the updates of a store and leaves its lock file.

*LocalProxy.* A handler's places are its awaits: `Authenticate` prices from one
reading, `LoadKey`, `Authorize` decides on a second reading, `ReserveBudget` and
`RecordAllowed` are two updates, then `UpstreamReplies` or the streaming loop
(`Chunk`, `Backpressure`, `Drained`, `StreamEnds`), `Settle`, `NoteUpstreamError`; `Catch`
and `CatchNote` are the error branch, `Undo` the authorizer's. `sent` is how much of a stream the client
has: all of it before the confirm is tried (server.ts:303-318), and once the headers are out `sendError` does
nothing (:406), so a handler that fails then leaves its reply "open". Every update may
reject, with or without its effect (`Rejects`), and the code's path for that is taken; `lost` is a history variable of which of a
handler's own updates did. `Timeout` may fire at any time while the handler is inside its try, `ClientCloses` at any time.
`CliRecover` takes either policy, from another process. `Crash` forgets the handlers;
`startProxyServer` recovers. The code of a denial, headers and bodies are left out.

*CloudPricing.* A body is what prices it: its length, its three limit fields, each missing, a
number or something else `Number()` reads, the choices it asks for, and whether it has
media. A pricing is the set of rates of the base price and of its overrides, each
readable or not (`parsePicoUsd`). `Look`, `Serve`, `Arrive` and `Unavailable` are `loadCatalog`,
with the time at which Orbio answers apart from the time at which the answer arrives; `Priced` is
what follows in the same turn. `Settle` is the provider's charge (any rate that may apply, any
number of tokens the forwarded limits admit, at today's prices), its report of it, and
what `confirm` is called with. That a prompt token stands for at least one byte is the
assumption core.ts:113 makes; it is part of `Charges`.

*KeyLifecycle.* A command's `pc` is the remote call or the write it is about to make. `Begin` is the
CLI; `Status`, `Create`, `CreateRefused`, `WriteRecovery`, `Extract`, `Save`, `Check`,
`Record`, `Tidy` are `createOrRotate` in order, `Save` to `Record` also `key import`; `Revoke`, `Clear`, `Record`
are `revoke`, `Clear` alone `key clear`; `Legacy` to `Compare` are `migrateLegacyKey`. A created key is
named after its command. A remote call or a write may reject before its effect (`Fails`) or after it (`Rejects`, in `Create`, `WriteRecovery`,
`Save`, `Record`, `Revoke` and `Delete`: a lost answer, the chmod behind a rename); `Dies` ends a process before any
step. `callTool` returns an error result like any other, hence `CreateRefused`,
the unchanged outcome of `Revoke` and the second disjunct of `Delete`. `alone` is a history variable: whether
the command has run by itself so far.

*OAuthSession.* Every `update` of `oauth.json` is two steps: the read is part of the action
that decides on it (`Update` fills `doc`), the write is `Write`. The order `ReadClient`, `Register`, `ReadTokens`,
`Refresh`, `NewState`, `NewVerifier`, `Redirect`, `ReadAttempt`, `Exchange` is that of the MCP SDK's
`auth()`, which is external; what it asks the provider object for is this code. `Launch` is
`openExternal`, `Callback` a request to the listener, which may come from an attempt that is no longer
the stored one, or carry nothing; `TimesOut` is the timer. Orbio's tokens are as in
`TenantConnection`. `clobbered` is a history variable: an update has been written over
one that came after its read, with tokens the latter no longer had.

## 3. Runs

The hazards each property is for are listed in `PROJECT.json`.

| Run | Instance | Question | Result |
|---|---|---|---|
| `coordinator` | 1 agent, 3 reservations, 2 tokens, clock 0..3 with a change of day, stale above one tick | do budget, counters, ledger, closed days and the abstract account survive every order of calls? | holds |
| `worker` | 1 request of any kind on any route, 2 tokens, clock 0..3 with a change of day, 1 handler cut or failed by the coordinator | is the settlement what the response calls for, and the admission current, under an operator who changes the agent between awaits? for which reasons is a reservation left, does it end even so, and who keeps a caller waiting? is every step a coordinator step? | holds |
| `worker_overrun` | 1 request | does a cost above the bound disable the agent? | violated |
| `tenant` | 5 calls of any kind at once, 1 cut, 1 change elsewhere | do key, fingerprint and refresh token stay those Orbio accepts? is a key made here only replaced when the owner asks? | holds; for the keys, where no two provisionings overlapped |
| `store` | 1 store, 3 updates, 2 crashes or failed file-system calls, slow holders | do the updates keep their order, stay atomic and end? | holds |
| `store_shared` | 2 stores, 3 updates, no fault, prompt holders | does the lock file alone keep the updates of two processes apart? | holds |
| `store_breakers` | 3 stores, 1 fault | is an update that was reported done kept? | violated |
| `proxy_faults` | 2 requests, 1 update that rejects or 1 crash, a CLI recovery at any time; one operator change, which creates the agent | do the books agree with what the clients have, buffered or streamed, whatever fails, and who leaves a reservation? | holds |
| `proxy_live` | 1 request, 2 operator changes (the agent, then any), no fault, no time for a recovery | is every reservation settled? | holds, but for a drain |
| `pricing` | 2 requests with any of 6 bodies, 3 pricings changed once, outputs to 2, copies used for 2 of 3 ticks | does the reservation cover what is charged and booked, and how old may rates be? | holds |
| `keys` | 3 commands of any kind, 1 call or write that fails before or after its effect, or death, 1 change of the account elsewhere | what loses a created key, and does the ledger know what was done? | only another creation; it does |
| `oauth` | 1 command, 1 dashboard refresh, 1 logout, 1 fault of any kind (killed, token expired, client forgotten) | is a dead refresh token left behind? does every process end and free the port? | holds |

### Why these bounds

The properties relate at most two reservations of one agent and one day to a third
event (a recovery, a change of day, another settlement): three ids in `coordinator`
give two reservations outstanding on different days while a third is admitted.
Agents do not share budgets: no operation reads another agent's but the recovery, whose
sums are per agent (and the proofs cover any number). In `coordinator`, bounds of 1 and
2, reported costs of 0, 1 and 3, a limit of 1 and a budget of 3 give the exact fit, one
too much, a free answer, and a cost above its bound. A staleness of a tick or less with a clock
one to three ticks long makes fresh, stale and just-aged reservations coexist. In `tenant`, five calls are a connection (2), a provisioning and two
more of any kind: a second provisioning beside the first or after it, a reconnection, two refreshes at once. In `worker`, one handler
suffices: its properties are about one reservation, and another handler could reach that one only through coordinator
steps which the recovery by a dashboard reading and the operator take too; what several reservations do to
each other's budget is `coordinator`'s question, and every safety property of `worker` is proved for any number. In `store`, two
attempts show both a retry and exhaustion, and two faults a lock left behind and its breaking cut short; one store cannot show
contention for the lock, which is what `store_shared` is for, its chain of two beside another process. In `store_breakers`, three
instances are the one that leaves the lock and the two that break it. One fault in
`proxy_faults` reaches every single failure; with `MaxFaults` 1 the catch whose own
release fails after a failed confirm is not reached, and the properties do not depend
on it: what they except is named by the handler's own rejected updates, and they are proved for any number. In `pricing`, rates are fractions of a micro-dollar,
so that both roundings matter, one price has a rate that is not read and one has no rates;
the bodies are one for each path of the limit (missing, doubled, as a string with two
choices, above the maximum, with an image, `/v1/responses`); two requests overlap their loads, and
two of three ticks separate fresh, expired and withdrawn. In `keys`, the third command is the one that
runs after, or between, two that interleave; three are as many as a creation, what overwrites it and what might remove the file. In `oauth`, command and dashboard refresh at once while a
logout clears; what two commands add, a second claim on the port, is in the model (`Redirect`)
but not in the instance. `CHECK_DEADLOCK FALSE` everywhere: the clock ends, requests are finite and the
system may come to rest.

### Fairness

Worker: handlers run (`WF` of `Handle`), time passes, and *somebody has the dashboard
open*; the page then polls every four seconds. Without that assumption and without
traffic an abandoned reservation does stay outstanding, since nothing in the Worker
runs by itself. Orbio owes nothing, neither its catalog nor its responses, because the Worker sets no timeout on either
`fetch` (index.ts:866, 965): `Credentials` and the steps after `Send` have no fairness.
`OnlyOrbioKeepsWaiting` says precisely that, and `EventuallySettled` holds
anyway because the recovery overtakes the provider.
Local proxy: the event loop runs handlers on and fires the timer of
server.ts:190-194, and an aborted fetch or body rejects. Provider and client
owe nothing. Store: each call of an instance that has not crashed returns;
`delay` ends. No fairness on lock acquisition beyond that.
OAuth: the event loop runs, remote calls return (or fail), and the timer of callback.ts:25-28
fires. Nobody has to answer the authorization page, nor to come back with the right state.

## 4. What the checks found

Two disagreements with the repository's documents are runs that TLC must find violated.

* `worker_overrun`. SECURITY.md:57: a reported cost above the bound disables the agent
  immediately. `confirm` (index.ts:275) returns first when the reservation has been
  recovered, which happens 300 s after it was made: a longer stream overruns with no
  consequence, and the excess is not booked.
* `store_breakers`. SECURITY.md:38 promises a lock shared across processes. Two waiters can
  judge the same leftover lock stale; the second `rm` removes the first one's fresh
  lock, and one of two updates reported as done is overwritten.

### Divergences seen while modelling, not run

The models contain the behaviour; no run is spent on it. The properties of the runs leave
these cases out by name, where they touch them.

* SECURITY.md:38, once more and without any fault: a holder that is stopped for thirty seconds is taken for dead, and
  renames its old copy over what was written meanwhile (`SlowHolders`, TRUE with one store only).
* docs/cloudflare.md:75-76: an identity is permanently disabled, disabled agents are archived. `setStatus`
  (index.ts:354) makes an archived agent active again, and `authorize` does not look at `archivedAt`: a request between its
  preflight and its authorize is admitted for it. `AdmissionIsCurrent` takes such an agent for active.
* docs/multi-tenancy.md:51-52 promises to stop at an existing key, and a second confirmation before a rotation. Two
  overlapping provisionings both find no key (index.ts:558), and the second creation retires the key of the first; the first may
  store its dead key last (`overlapped`).
* README.md:151 keeps an owner-only recovery response until vault storage succeeds. A later creation's
  answer replaces the file whatever is in it (key-lifecycle.ts:49, 153), even an answer that
  is an error; of two overlapping creations one removes the other's file (:65-69) (`Overwritten`).

* `responsesToChatRequest` throws for `input: "Say hello"`, the input docs/proxy.md:91
  shows, after the reservation and before the fetch. The caller gets 401, and five
  minutes later the bound is charged (`TranslationThrows`).
* docs/proxy.md:107 promises the release of a reservation on cancellation. A client that
  leaves while the handler waits for `drain`, or before the listeners are added, is
  not noticed (`ClientCloses`).
* SECURITY.md:55 and docs/proxy.md:100: a worst-case bound is reserved. It is none when the body has a second
  limit beside the one that is priced (`max_tokens` next to `max_completion_tokens`, `max_completion_tokens`
  on `/v1/messages` when it is no number), asks for several choices (`n`), or an
  override's rate has a form `parsePicoUsd` drops. `BooksCoverCharge` excepts them as `OneLimit` and `AllReadable`.
* Two overlapping loads may arrive in the other order: the older answer then replaces the newer
  copy and is used for five more minutes (`Arrive`, the second case of `RatesAreRecent`).
* docs/key-lifecycle.md: revoke removes the local key after the MCP call succeeds. The result's `isError` is not
  looked at (key-lifecycle.ts:80-83): an account key that is still active loses its local secret.
* A migration whose second status call fails has disabled the legacy key, is not recorded, and is
  refused when it is run again (`Legacy`). Two that run at once are recorded twice.
* docs/dashboard.md:26-28: the dashboard's refresh is not interactive. It still replaces state and verifier of
  a login in progress before `redirectToAuthorization` refuses it (`NewState`, `NewVerifier`, `Redirect`), and that login fails.
* docs/orbio-integration.md:133: logout removes the stored session. An update that was read before puts
  it back (`Write`). Two refreshes at once with tokens that rotate: the refused one
  clears the tokens the other has just stored.
* A browser that cannot be opened, or a login that a tool call begins, leaves a listener
  with its timer and, after a tool call, the port, and a promise nobody waits for that rejects (`Launch`, `TimesOut`).
* docs/multi-tenancy.md:44: credentials are loaded after the limits and the budget are
  checked. `proxyInference` loads them between preflight and authorize (index.ts:826-844).
* docs/multi-tenancy.md:29: access tokens are refreshed before expiry. startOrbioOAuth replaces
  the stored client at once (index.ts:500-508), so a reconnection that is begun and
  abandoned, or one that overlaps a token exchange or refresh, leaves tokens of one
  client beside another; their next refresh is refused and the tenant must reconnect.
  A second attempt begun during an exchange is also deleted by it (index.ts:549-550).
* docs/agent-policies.md:39 says token rotation invalidates the previous credential
  immediately after the state is persisted. The local authorizer reads the agent once
  (authorizer.ts:51) and reserves in a later update (:78): a request between the two goes on.
* docs/activity-ledger.md:16 lists refusals; a request with an unknown token is answered
  and leaves no ledger event (server.ts:174-182, 264-267).
* README.md:137 and docs/proxy.md:105-106: a successful answer is confirmed. If that confirm fails, the
  catch releases instead (server.ts:221-227, 243), also after a stream the client has in full, since it is sent
  before it is confirmed (server.ts:303, 313); a recovery that overtakes a stream releases it too (`lost`, `Recovered`).
* docs/proxy.md:105,107: a failed answer that reports a cost is priced. On the Cloud
  Responses route it is released (index.ts:886-889).
* docs/proxy.md:101-102: the local proxy loads the key before it authorizes (server.ts:183).

## 5. Proofs

`tlapm` checks every module named `*Proofs`; nothing is assumed but the named
ASSUMEs of the modules (types of the constants; that a marker of absence is not a record), and TLC
evaluates those on every run. Each safety property that a passing run checks, invariants and
action properties and the four refinements, is a theorem for all values of the constants; those of
the store's exclusion and atomicity have the premises named below.

*Sums* (in `GuardCoordinatorProofs`; what the local books need of them, in `LocalProxyProofs`). `Total` is defined as a cardinality, so facts about it need no
induction over data: it is a natural number for a finite set of records with natural
amounts, it is additive over disjoint sets, and adding or removing one record changes it
by that amount; likewise the excess.

*Coordinator* (`GuardCoordinatorProofs`). `TypeCorrect`, `CountersMatchLedger`,
`OneSettlement` and `BudgetHolds` follow from one invariant, `IInv`, the conjunction of the
types, `Consistent` books and the bound (`Bounded`). `BudgetBound` is not inductive: that a
confirmation keeps it needs that the reserved amount leaves one side as the charge
enters the other, so the sums must be over finite sets (`Finite`), the counter must be the
sum of the charges (`Matches`), and the charge must be new to the ledger, which is what
the partition of the issued ids into outstanding and settled ones says (`Partition`). The
excess of a charge over its reservation is the slack `BudgetBound` grants. The argument is made once for arbitrary
books: a reservation is added (`Reserve`), one is settled (`Confirm`, `Release`),
a set is recovered (`Recover`); each operation is a composition of these. Only an
admission adds exposure, under the guard of the budget check; no route
changes a budget, and nothing is held or charged for an agent that does not exist.
`ClosedDays` is an action property that needs only the types. `RecoveredBeforeAdmission` says of the step that makes a reservation that the
budget was judged on recovered books: every stale reservation of any agent and day has become confirmed spend of
its own budget, by its amount, and the new one fits beside that. It rests on `Partition` (the id is new, so what an admission takes from the books is
exactly what was stale) and on the sums (`AdmitFits`, `AdmitCharges`).
`Implements` maps every step to the abstract account: a set of reservations ends in one settlement each and
at most one begins (`Uses`). It needs, beside `IInv`, that the books name created agents only (`KnownAgents`), so
that a new agent is an owner nothing was ever held for; the limit is kept by every edit of an agent (`LimitKept`).

*Handlers* (`WorkerInferenceProofs`). `Implements`: every step of any number of
handlers, operators, dashboards and cuts is a step of `GuardCoordinator` or leaves it
alone, so all of the above holds for the composition. Its invariant, `CallsOK`, is that a
handler past its admission has had its id issued at one of the estimated costs: the
coordinator only expects settlements of ids it issued, at costs a provider can report.
`BooksHold` carries the coordinator's theorems over: types, budget bound, counters and single settlement
hold whatever any number of handlers do. It needs the coordinator's assumptions on clock,
days and amounts, which an instance does not inherit (`CoordinatorAssumption`).
The handlers' own properties (`TypeCorrect`, `SettlementsMatchReplies`, `EndsAreSettled`, `AdmissionsAreCurrent`)
rest on a second invariant, `HandlersOK`: a handler about to confirm or release has the response that calls for
it (`Decided`); one that has settled is at its end, so what it knows does not change any more (`Final`), and its
settlement is the right one (`Answers`); an outstanding reservation has a handler under way, or one that threw, was cut or had its settlement failed by the coordinator, and
only a stream's caller has its answer by then (`Held`). It claims nothing of a handler whose reservation
is gone, because a recovery can settle it between any two awaits.

*Store* (`StateStoreProofs`). `ExclusionSuffices` separates the two arguments: whenever at
most one update is between its lock and its unlock, the store implements
`AtomicStore`, because the snapshot a holder read is still the file (`FileMatches`). A failing chmod, close or rm after the rename
is a step of both: the update is in the file and its caller is told of an I/O error, from which it cannot conclude
either way; no other answer is wrong.
Exclusion holds for two different reasons: with prompt stores that neither crash nor meet an I/O error because a holder's
lock file is its own (`OwnLock`; `PromptStoresExclude`, `PromptStoresAreAtomic`), with one store
because only the head of the chain is past the queue (`ChainLeads`; `OneStoreExcludes`,
`OneStoreIsAtomic`), through crashes, I/O errors and stalls of any length. `store_breakers` shows
that with both several stores and a fault neither reason is left; `PromptStoresLoseNothing` and
`OneStoreLosesNothing` are the property it refutes, `NoLostUpdate`, under either. `ChainsAreFifo` needs no
exclusion: an update that has not started is in no file and in no snapshot, whatever other stores overwrite (`NotAhead`), and
of each chain only the head has started (`ChainInOrder`).

*Pricing* (`CloudPricingProofs`). `ReservationsCover`, for every body, pricing and number of requests and
publications. One invariant carries it: a handler that has been priced has a
publication and a body that are priceable there (`PricedIsPriceable`), so `Settle` happens only
where a maximum exists. The rest is arithmetic, in lemmas of their own: products are monotone,
rounding up bounds the rounding of anything less, the priced limit is the only one forwarded
when there is one (`OneLimitIsPriced`), hence the charge is at most `PicoBound`. Premises are that a
pricing has a maximal readable rate when it has one at all (a finite list) and that the absent
marker is no body, limit or number.
`PricesAreRecent` looks at the step that prices a request; `CatalogInv` is what it needs of the past: the answers on
their way and the copy show rates that were in force when Orbio served them (`InTime`), the copy arrived after it was served
and lasts `TTL` from then. The time a copy is used for must
be positive (`TTL`, 300 s in the code): with none, an answer would be stale on arrival and used nevertheless.

*Key commands* (`KeyLifecycleProofs`). `TypeCorrect` and `KeyIsKept`, for any number of commands,
faults and changes elsewhere. `CreatedKeyIsKept` looks at one step; what it needs of the state before is
`IInv`: a command is where its kind takes it and holds an answer of its own (`Shaped`); the account's key
is named after a creation that is past its answer and, until it is stored, holds it (`Named`). The step is then split by who takes it.
A key that becomes the account's in it is held by the creation that made it (`AccountKeyFrom`, `CreateHolds`); the steps of
that creation itself hand it from memory to the recovery file to the vault and remove the file only when it is there, and
none of its failures or its death removes anything (`OwnHolds`); a command that begins changes no file (`BeginHolds`); and of the
others' steps only those that write or remove a file touch it, which are another creation's or a removal the operator asked for (`OthersHold`).
`CreditedOnce` bounds the balance for the type invariant. `LedgerIsTold` has an invariant of its own, `LedgerInv`, about what is still owed to the
ledger: while nothing has failed, a key in the vault has its event or a command that is about to record it
(`VaultTold`), a disabled legacy key likewise (`LegacyTold`), and of two migrations neither was by itself (`OneMigration`, with `Exclusive`).
At rest no command owes anything.

*Local runtime* (`LocalProxyProofs`). Type correctness, all four invariants of `proxy_faults`, and the
refinement `Implements`, for any number of requests, agents, changes and faults. The books change in four ways
(not at all, by a reservation, by a settlement, by a recovery), and `Books` is kept by each: one outstanding
reservation per id, none outstanding that is settled, counters that are the sums of the charges. The invariants
are about handlers, so `IInv` adds for each what it relies on at its place (`HandlerOK`): before it has reserved, and
when it is denied, the books do not know its id; past `record` it is recorded as allowed; at `note` and `catchNote`, and
when it answered, its reservation is gone; a reservation without its handler needs a fault; what
the client has been sent by then, and what that says of the charge, is `AnswerOK`. A step touches only its own
id (`OnlyOf`), so the others keep theirs (`OthersKeep`), and a recovery only takes reservations away, which wrongs no
handler (`RecoveryKeeps`). The refinement maps steps, not actions: by `StepsOfTheBooks` each step ends
reservations in an event each (`EndStep`), begins one that fits (`BeginStep`), is the operator's, or leaves
the books alone. The limit a handler carries may be stale, hence the abstract limit is the highest
budget; that there is one (`BudgetsAssumption`) is the one assumption made for the proof.

*Connection* (`TenantConnectionProofs`). The refresh token (`TypeCorrect`, `RefreshTokenKept`) for any number of
calls and cuts, also where provisionings overlap. What makes it inductive is that grants are named after the call that
obtains them: where Orbio replaces refresh tokens, none that is stored or about to be used is one some handler has yet
to obtain (`StoredIsBorn`), so a refresh invalidates no grant that another handler has just obtained and not yet stored.
The gateway key (`FingerprintTold`, `ProvisionedKept`, `OwnKeyAsked`) has any number of provisionings at once; `overlapped`
remembers those that ran beside another. `KeyInv` says what the others know of the account at each step: past its creation
only another consumer, or an overlapped provisioning, can have replaced the new key (`Provisions`); one about to create without having been asked to rotate finds
no key made here, since its status call found none and no other provisioning came between (`Unasked`); and who is marked
stays so for as long as its key is about (`Remembered`).

*Local session* (`OAuthSessionProofs`). `TypeCorrect` and `StoredTokenLives`, for any number of commands,
dashboards, logouts and faults; so also for the two interactive commands `oauth` has no room for. The type invariant is
the first half of the work: that `MaxTokens` bounds the tokens issued is no guard of the model but a fact about the code, since
no process obtains tokens twice in a phase. `OrderInv` proves it by counting: the pairs of a process and a chance it has
left (`Slots`) and the tokens issued together never exceed the bound, and each issue uses up a chance. `Orderly` says what a process has in its
hands at each call. `StoredTokenIsLive` is not inductive by far; `TokenInv` adds that tokens that are stored, read or about to
be stored were issued (`Numbered`), one client each (`OneClient`); where Orbio keeps refresh tokens, all of these are
accepted (`Kept`); where it replaces them, a stored token that is not accepted has its successor with a
process nobody can forestall (`FileInv`, `Unheld`), and what a process is about to write, if its reading is not stale, is what is
there or something new that is accepted (`WriterInv`). A write whose reading is stale is where `clobbered` comes in.
Assumed are finitely many processes of three disjoint kinds (`OAuthAssumption`).

Only model-checked: the liveness properties (`EventuallySettled`, `OnlyOrbioKeepsWaiting`, `EveryUpdateEnds`,
`EveryCommandEnds`), which need ENABLED, out of the prover's reach; so is induction over data, which the proofs avoid.

## 6. Not modelled

Each entry of `PROJECT.json` gives its reason. Left out for good: presentation, parsing,
configuration, the demo; signature checks and rate limiting, which keep no state; encryption;
the contents of messages, and with them `chatToResponses` and its event stream.
The states the program can be in start from an empty tenant and empty files; corrupt
documents are not modelled.

## 7. Plan

Done: the modules of section 2 with the proofs above. In order of what matters next:

1. Two handlers in `worker`: with its faults, clock and liveness one run does not hold them within minutes.
2. Two interactive commands in the run `oauth`, which need a smaller model of the registration.
