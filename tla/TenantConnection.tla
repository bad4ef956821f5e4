--------------------------- MODULE TenantConnection ---------------------------
(***************************************************************************)
(* The Orbio connection of one tenant: startOrbioOAuth, finishOrbioOAuth,  *)
(* provisionGatewayKey and the tool calls with their token refresh, in the *)
(* GuardCoordinator of cloudflare/worker/index.ts.                         *)
(*                                                                         *)
(* A Durable Object admits other events while a handler awaits a fetch or  *)
(* crypto.subtle, so these operations, unlike the budget's, interleave: a  *)
(* step below is what runs from one such await to the next.  Orbio's side  *)
(* is what the code relies on: one active key per account, codes that can  *)
(* be redeemed once, refresh tokens that are replaced on use or never.     *)
(*                                                                         *)
(* A registration, an attempt, a grant and a key are each named after the  *)
(* call that obtained it.  A dashboard reading makes two tool calls at     *)
(* once; each is a call of its own.                                        *)
(***************************************************************************)
EXTENDS Naturals, FiniteSets

CONSTANTS
  Calls,         \* handler activations
  MaxCuts,       \* bound: handlers cut short
  MaxElsewhere,  \* bound: changes of the account's key by other consumers
  OtherKey,      \* a key another consumer created
  None

VARIABLES
  client,       \* clientInformation
  pending,      \* oauthState and pkceVerifier, as the attempt they belong to
  tokens,       \* encryptedTokens
  key,          \* encryptedGatewayKey
  fingerprint,  \* keyFingerprint, as the key it is of
  recent,       \* provisioningAttemptAt is less than ten seconds ago
  rotates,      \* does Orbio replace a refresh token when it is used?
  live,         \* the refresh tokens Orbio accepts
  redeemed,     \* the attempts whose code was redeemed
  accountKey,   \* the account's active gateway key
  call,         \* the handlers
  overlapped,   \* history: provisionings that ran while another one did
  cuts, elsewhere

connection == <<client, pending, tokens, key, fingerprint, recent>>
orbio      == <<rotates, live, redeemed, accountKey>>
bounds     == <<cuts, elsewhere>>
vars       == <<connection, orbio, call, overlapped, bounds>>

Tools    == {"status", "create", "look"}
Grants   == [client : Calls, by : Calls, at : Tools \cup {"exchange"}]
Sessions == [grant : Grants, fresh : BOOLEAN]

ASSUME TenantAssumption ==
  /\ MaxCuts \in Nat /\ MaxElsewhere \in Nat
  /\ OtherKey \notin Calls
  /\ None \notin Calls \cup {OtherKey} /\ None \notin Sessions

Remote   == {"register", "exchange", "refresh", "call"}
Working  == Remote \cup {"connect", "refreshed", "protect", "fingerprint"}
Outcomes == {"started", "connected", "looked", "conflict", "provisioned", "failed", "cut"}

Handlers == [pc : {"idle"} \cup Working \cup Outcomes, tool : Tools, rotate : BOOLEAN,
             attempt : Calls \cup {None}, client : Calls \cup {None},
             session : Sessions \cup {None}]

NoCall == [pc |-> "idle", tool |-> "look", rotate |-> FALSE, attempt |-> None,
           client |-> None, session |-> None]

TypeOK ==
  /\ {client, pending, key, fingerprint} \subseteq Calls \cup {None}
  /\ tokens \in Sessions \cup {None}
  /\ recent \in BOOLEAN /\ rotates \in BOOLEAN
  /\ live \subseteq Grants /\ redeemed \subseteq Calls
  /\ accountKey \in Calls \cup {None, OtherKey}
  /\ call \in [Calls -> Handlers] /\ overlapped \subseteq Calls
  /\ cuts \in 0..MaxCuts /\ elsewhere \in 0..MaxElsewhere

Init ==
  /\ client = None /\ pending = None /\ tokens = None /\ key = None /\ fingerprint = None
  /\ recent = FALSE /\ rotates \in BOOLEAN /\ live = {} /\ redeemed = {}
  /\ accountKey \in {None, OtherKey}
  /\ call = [h \in Calls |-> NoCall] /\ overlapped = {} /\ cuts = 0 /\ elsewhere = 0
-----------------------------------------------------------------------------
At(h, pc) == call[h].pc = pc
Goto(h, from, to) == At(h, from) /\ call' = [call EXCEPT ![h].pc = to]

\* What is left of a handler that returned; a cut one may have a grant with it.
Ended(q, outcome) == [NoCall EXCEPT !.pc = outcome,
                        !.session = IF outcome = "cut" THEN q.session ELSE None]
End(h, from, outcome) == At(h, from) /\ call' = [call EXCEPT ![h] = Ended(@, outcome)]

\* A fetch that rejects or is not ok: the handler throws.
Fails(h) == /\ \E at \in Remote : End(h, at, "failed")
            /\ UNCHANGED <<connection, orbio, overlapped, bounds>>
-----------------------------------------------------------------------------
\* startOrbioOAuth, up to the registration of a client.
Start(h) == /\ Goto(h, "idle", "register")
            /\ ~recent
            /\ UNCHANGED <<connection, orbio, overlapped, bounds>>

\* The client is registered; state, verifier and client are stored together.
StoreAttempt(h) == /\ End(h, "register", "started")
                   /\ client' = h /\ pending' = h /\ recent' = TRUE
                   /\ UNCHANGED <<tokens, key, fingerprint, orbio, overlapped, bounds>>

\* finishOrbioOAuth for the callback of attempt s, up to the token request.
Finish(h, s) == /\ At(h, "idle") /\ At(s, "started")
                /\ pending = s
                /\ call' = [call EXCEPT ![h].pc = "exchange", ![h].attempt = s,
                                        ![h].client = client]
                /\ UNCHANGED <<connection, orbio, overlapped, bounds>>

\* Orbio redeems a code once, for the client and the verifier it was issued for.
Exchange(h) ==
  LET q == call[h]
      grant == [client |-> q.client, by |-> h, at |-> "exchange"]
  IN /\ At(h, "exchange")
     /\ q.client = q.attempt /\ q.attempt \notin redeemed
     /\ redeemed' = redeemed \cup {q.attempt}
     /\ live' = live \cup {grant}
     /\ call' = [call EXCEPT ![h].pc = "connect",
                             ![h].session = [grant |-> grant, fresh |-> TRUE]]
     /\ UNCHANGED <<connection, rotates, accountKey, overlapped, bounds>>

\* A bug a change could bring in: the connection is replaced, not extended.
StoreTokensOnly(h) == /\ End(h, "connect", "connected")
                      /\ tokens' = call[h].session /\ pending' = None
                      /\ key' = None /\ fingerprint' = None
                      /\ UNCHANGED <<client, recent, orbio, overlapped, bounds>>

\* The tokens are stored, the attempt that is pending by now is deleted.
StoreTokens(h) == /\ End(h, "connect", "connected")
                  /\ tokens' = call[h].session /\ pending' = None
                  /\ UNCHANGED <<client, key, fingerprint, recent, orbio, overlapped, bounds>>
-----------------------------------------------------------------------------
\* The head of callOrbioTool and of currentTokens, from one reading.
Reading(q, tool) ==
  IF tokens = None THEN Ended(q, "failed")
  ELSE IF tokens.fresh THEN [q EXCEPT !.pc = "call", !.tool = tool]
  ELSE [q EXCEPT !.pc = "refresh", !.tool = tool, !.session = tokens, !.client = client]

\* One of the dashboard's tool calls.
Look(h) == /\ At(h, "idle")
           /\ call' = [call EXCEPT ![h] = Reading(@, "look")]
           /\ UNCHANGED <<connection, orbio, overlapped, bounds>>

\* A bug a change could bring in: a response without a refresh token stores none.
RefreshedForgetfully(h) == IF rotates THEN [call[h].session.grant EXCEPT !.by = h, !.at = call[h].tool]
                           ELSE None

\* The refresh token after a refresh: Orbio's new one, else the one used.
Refreshed(h) == IF rotates THEN [call[h].session.grant EXCEPT !.by = h, !.at = call[h].tool]
                ELSE call[h].session.grant

\* Orbio accepts a refresh token it has not replaced, from the client it is for.
Refresh(h) ==
  LET grant == call[h].session.grant
  IN /\ At(h, "refresh")
     /\ grant \in live /\ call[h].client = grant.client
     /\ live' = IF rotates THEN (live \ {grant}) \cup {Refreshed(h)} ELSE live
     /\ call' = [call EXCEPT ![h].pc = "refreshed",
                             ![h].session = [grant |-> Refreshed(h), fresh |-> TRUE]]
     /\ UNCHANGED <<connection, rotates, redeemed, accountKey, overlapped, bounds>>

\* A bug a change could bring in: refreshed tokens are used, but not stored.
StoreNothing(h) == /\ At(h, "refreshed")
                   /\ call' = [call EXCEPT ![h].pc = "call", ![h].session = None]
                   /\ UNCHANGED <<connection, orbio, overlapped, bounds>>

StoreRefreshed(h) == /\ At(h, "refreshed")
                     /\ tokens' = call[h].session
                     /\ call' = [call EXCEPT ![h].pc = "call", ![h].session = None]
                     /\ UNCHANGED <<client, pending, key, fingerprint, recent, orbio, overlapped, bounds>>

Looked(h) == /\ End(h, "call", "looked") /\ call[h].tool = "look"
             /\ UNCHANGED <<connection, orbio, overlapped, bounds>>
-----------------------------------------------------------------------------
Provisioning(h) == call[h].pc \in Working /\ call[h].tool # "look"
Others(h) == {g \in Calls \ {h} : Provisioning(g)}

\* provisionGatewayKey, up to the first call; nothing keeps a second one waiting.
Provision(h, rotate) ==
  /\ At(h, "idle")
  /\ call' = [call EXCEPT ![h] = Reading([@ EXCEPT !.rotate = rotate], "status")]
  /\ overlapped' = overlapped \cup (IF Others(h) = {} THEN {} ELSE Others(h) \cup {h})
  /\ UNCHANGED <<connection, orbio, bounds>>

\* A bug a change could bring in: only the tenant's own record of a key stops it.
StatusUnasked(h) ==
  /\ At(h, "call") /\ call[h].tool = "status"
  /\ \/ key # None /\ ~call[h].rotate /\ End(h, "call", "conflict")
     \/ /\ key = None \/ call[h].rotate
        /\ call' = [call EXCEPT ![h] = Reading(@, "create")]
  /\ UNCHANGED <<connection, orbio, overlapped, bounds>>

\* The account has a key, and nobody confirmed its replacement: stop.
Status(h) ==
  /\ At(h, "call") /\ call[h].tool = "status"
  /\ \/ accountKey # None /\ ~call[h].rotate /\ End(h, "call", "conflict")
     \/ /\ accountKey = None \/ call[h].rotate
        /\ call' = [call EXCEPT ![h] = Reading(@, "create")]
  /\ UNCHANGED <<connection, orbio, overlapped, bounds>>

\* orbio_create_key replaces whatever key there is; its answer may be lost, or
\* have no key in it.
Create(h) ==
  /\ call[h].tool = "create"
  /\ Goto(h, "call", "protect") \/ End(h, "call", "failed")
  /\ accountKey' = h
  /\ UNCHANGED <<connection, rotates, live, redeemed, overlapped, bounds>>

\* A bug a change could bring in: the old fingerprint stays beside the new key.
StoreKeyOnly(h) == /\ Goto(h, "protect", "fingerprint")
                   /\ key' = h
                   /\ UNCHANGED <<client, pending, tokens, fingerprint, recent, orbio, overlapped, bounds>>

\* The encrypted key is stored, the fingerprint of the old one deleted.
StoreKey(h) == /\ Goto(h, "protect", "fingerprint")
               /\ key' = h /\ fingerprint' = None
               /\ UNCHANGED <<client, pending, tokens, recent, orbio, overlapped, bounds>>

\* The digest is there: a second update stores it.
StoreFingerprint(h) == /\ End(h, "fingerprint", "provisioned")
                       /\ fingerprint' = h
                       /\ UNCHANGED <<client, pending, tokens, key, recent, orbio, overlapped, bounds>>
-----------------------------------------------------------------------------
\* The isolate is gone, or an answer is lost on its way.
Cut(h) == /\ cuts < MaxCuts /\ cuts' = cuts + 1
          /\ \E at \in Working : End(h, at, "cut")
          /\ UNCHANGED <<connection, orbio, overlapped, elsewhere>>

\* The access token comes within a minute of its expiry.
Expire == /\ tokens # None /\ tokens.fresh
          /\ tokens' = [tokens EXCEPT !.fresh = FALSE]
          /\ UNCHANGED <<client, pending, key, fingerprint, recent, orbio, call, overlapped, bounds>>

\* Ten seconds pass.
Wait == /\ recent /\ recent' = FALSE
        /\ UNCHANGED <<client, pending, tokens, key, fingerprint, orbio, call, overlapped, bounds>>

\* Another consumer of the account creates or revokes its key.
ElsewhereChange == /\ elsewhere < MaxElsewhere /\ elsewhere' = elsewhere + 1
                   /\ accountKey' \in {None, OtherKey}
                   /\ UNCHANGED <<connection, rotates, live, redeemed, call, overlapped, cuts>>

Handler(h) ==
  \/ Start(h) \/ StoreAttempt(h) \/ (\E s \in Calls : Finish(h, s)) \/ Exchange(h) \/ StoreTokens(h)
  \/ Look(h) \/ Refresh(h) \/ StoreRefreshed(h) \/ Looked(h)
  \/ (\E rotate \in BOOLEAN : Provision(h, rotate))
  \/ Status(h) \/ Create(h) \/ StoreKey(h) \/ StoreFingerprint(h) \/ Fails(h) \/ Cut(h)

Next == (\E h \in Calls : Handler(h)) \/ Expire \/ Wait \/ ElsewhereChange

Spec == Init /\ [][Next]_vars
-----------------------------------------------------------------------------
\* A fingerprint the dashboard shows is that of the key the handlers use, although
\* provisionGatewayKey stores the two in separate updates: whatever else runs or is
\* cut, unless another provisioning overlapped the one that stored it.
FingerprintTellsKey == fingerprint \notin overlapped \cup {None} => fingerprint = key

\* A provisioning that reported success, and that no other overlapped, has left its
\* key, and its fingerprint, for as long as the account uses that key: no
\* reconnection, refresh, cut handler or later pair of overlapping provisionings
\* loses it (provisionGatewayKey, finishOrbioOAuth, currentTokens).
ProvisionedKeyIsKept == \A h \in Calls \ overlapped :
  At(h, "provisioned") /\ accountKey = h => key = h /\ fingerprint = h

\* The stored refresh token is one Orbio still accepts, except while a handler
\* holds its successor, or was cut holding it: concurrent refreshes and
\* reconnections never leave a replaced token behind (currentTokens).
RefreshTokenIsKept == tokens # None =>
  \/ tokens.grant \in live
  \/ \E h \in Calls : /\ call[h].pc \in {"refreshed", "cut"} /\ call[h].session # None
                      /\ call[h].session.grant.client = tokens.grant.client

\* docs/multi-tenancy.md: "Rotation proceeds only after a second explicit
\* confirmation".  A key made here is replaced by a provisioning nobody confirmed only
\* if the provisioning that made it ran at the same time, a second tab's or a retry:
\* then both have read that there is no key.  An earlier one is safe, however many
\* refreshes, cuts and changes lie between the two calls (provisionGatewayKey).
OwnKeyIsAskedFor == [][\A g, h \in Calls :
  g # h /\ accountKey = g /\ accountKey' = h =>
    call[h].rotate \/ {g, h} \subseteq overlapped]_vars
=============================================================================
