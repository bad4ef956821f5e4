------------------------ MODULE TenantConnectionProofs ------------------------
(***************************************************************************)
(* The tenant's connection, for any number of calls, cuts and changes      *)
(* elsewhere, however the handlers overlap.  The first part is about the   *)
(* refresh token, the second about the gateway key and its fingerprint.    *)
(***************************************************************************)
EXTENDS TenantConnection, TLAPS

\* What a handler at q may still obtain a grant for: the token exchange of a
\* callback, or the refresh before a tool call.
Ahead(q, at) ==
  \/ q.pc = "idle"
  \/ q.pc \in {"exchange", "connect"} /\ at = "exchange"
  \/ q.pc \in {"refresh", "refreshed"} /\ at = q.tool
  \/ q.pc \in {"call", "refresh", "refreshed"} /\ q.tool = "status" /\ at = "create"

Unborn(grant) == Ahead(call[grant.by], grant.at)

\* A handler has the session its step is about; what it has just obtained is its
\* own, and Orbio accepts it.
Shaped == \A h \in Calls :
  LET q == call[h]
  IN /\ q.pc = "exchange" => q.attempt \in Calls
     /\ q.pc \in {"connect", "refresh", "refreshed"} => q.session # None
     /\ q.pc \in {"connect", "refreshed"} => q.session.grant \in live
     /\ q.pc = "connect" => q.session.grant.by = h /\ q.session.grant.at = "exchange"
     /\ q.pc = "refreshed" /\ rotates =>
          q.session.grant.by = h /\ q.session.grant.at = q.tool

\* Where Orbio replaces refresh tokens, none that is stored, or about to be used,
\* is one that a handler has yet to obtain.
StoredIsBorn == rotates =>
  /\ tokens # None => ~Unborn(tokens.grant)
  /\ \A h \in Calls : call[h].pc = "refresh" => ~Unborn(call[h].session.grant)

IInv == TypeOK /\ Shaped /\ StoredIsBorn /\ RefreshTokenIsKept

LEMMA InitIsCorrect == Init => IInv
<1> SUFFICES ASSUME Init PROVE IInv
  OBVIOUS
<1>1. NoCall \in Handlers /\ NoCall.pc = "idle" /\ NoCall.session = None
  BY DEF NoCall, Handlers, Tools
<1>2. \A h \in Calls : call[h] = NoCall
  BY DEF Init
<1>3. TypeOK
  <2>1. call \in [Calls -> Handlers]
    BY <1>1 DEF Init
  <2>2. cuts \in 0..MaxCuts /\ elsewhere \in 0..MaxElsewhere
    BY TenantAssumption DEF Init
  <2> QED BY <2>1, <2>2 DEF Init, TypeOK
<1> QED BY <1>1, <1>2, <1>3 DEF Init, IInv, Shaped, StoredIsBorn, RefreshTokenIsKept
-----------------------------------------------------------------------------
\* A step of handler h leaves the other handlers as they are.
Moves(h) == /\ call' \in [Calls -> Handlers]
            /\ \A g \in Calls : g # h => call'[g] = call[g]

LEMMA Becomes ==
  ASSUME TypeOK, NEW h \in Calls, NEW q \in Handlers, call' = [call EXCEPT ![h] = q]
  PROVE  Moves(h) /\ call'[h] = q
BY DEF TypeOK, Moves

LEMMA EndedIs ==
  ASSUME NEW q \in Handlers, NEW outcome \in Outcomes
  PROVE  /\ Ended(q, outcome) \in Handlers
         /\ Ended(q, outcome).pc = outcome /\ Ended(q, outcome).tool = "look"
         /\ outcome = "cut" => Ended(q, outcome).session = q.session
BY DEF Ended, NoCall, Handlers, Tools

LEMMA EndMoves ==
  ASSUME TypeOK, NEW h \in Calls, NEW from, NEW outcome \in Outcomes, End(h, from, outcome)
  PROVE  /\ Moves(h) /\ call[h].pc = from
         /\ call'[h].pc = outcome /\ call'[h].tool = "look"
         /\ outcome = "cut" => call'[h].session = call[h].session
<1>1. call[h] \in Handlers
  BY DEF TypeOK
<1> DEFINE q == Ended(call[h], outcome)
<1>2. call' = [call EXCEPT ![h] = q] /\ call[h].pc = from
  BY DEF End, At
<1>3. /\ q \in Handlers /\ q.pc = outcome /\ q.tool = "look"
      /\ outcome = "cut" => q.session = call[h].session
  BY <1>1, EndedIs
<1> HIDE DEF q
<1>4. Moves(h) /\ call'[h] = q
  BY <1>2, <1>3, Becomes
<1> QED BY <1>2, <1>3, <1>4

LEMMA GotoMoves ==
  ASSUME TypeOK, NEW h \in Calls, NEW from, NEW to \in Working, Goto(h, from, to)
  PROVE  /\ Moves(h) /\ call[h].pc = from
         /\ call'[h] = [call[h] EXCEPT !.pc = to]
         /\ call'[h].pc = to /\ call'[h].tool = call[h].tool
<1>1. call[h] \in Handlers
  BY DEF TypeOK
<1> DEFINE q == [call[h] EXCEPT !.pc = to]
<1>2. q \in Handlers /\ q.pc = to /\ q.tool = call[h].tool
  BY <1>1 DEF Handlers
<1>3. call' = [call EXCEPT ![h] = q]
  BY DEF Goto
<1>4. Moves(h) /\ call'[h] = q
  <2> HIDE DEF q
  <2> QED BY <1>2, <1>3, Becomes
<1> QED BY <1>2, <1>4 DEF Goto, At

\* The head of a tool call ends in a failure, at the call, or at a refresh of the
\* tokens that are stored.
LEMMA ReadingMoves ==
  ASSUME TypeOK, NEW h \in Calls, NEW q \in Handlers, NEW tool \in Tools,
         call' = [call EXCEPT ![h] = Reading(q, tool)]
  PROVE  /\ Moves(h)
         /\ \/ call'[h].pc = "failed" /\ call'[h].tool = "look"
            \/ /\ call'[h].pc = "call" /\ call'[h].tool = tool
               /\ call'[h].rotate = q.rotate
            \/ /\ call'[h].pc = "refresh" /\ call'[h].tool = tool
               /\ call'[h].rotate = q.rotate
               /\ tokens # None /\ call'[h].session = tokens
<1>1. CASE tokens = None
  <2> DEFINE r == Ended(q, "failed")
  <2>1. call' = [call EXCEPT ![h] = r]
    BY <1>1 DEF Reading
  <2>2. r \in Handlers /\ r.pc = "failed" /\ r.tool = "look"
    BY EndedIs DEF Outcomes
  <2> HIDE DEF r
  <2> QED BY <2>1, <2>2, Becomes
<1>2. CASE tokens # None /\ tokens.fresh
  <2> DEFINE r == [q EXCEPT !.pc = "call", !.tool = tool]
  <2>1. r \in Handlers /\ r.pc = "call" /\ r.tool = tool /\ r.rotate = q.rotate
    BY DEF Handlers, Working, Remote
  <2>2. call' = [call EXCEPT ![h] = r]
    BY <1>2 DEF Reading
  <2> HIDE DEF r
  <2> QED BY <2>1, <2>2, Becomes
<1>3. CASE tokens # None /\ ~tokens.fresh
  <2> DEFINE r == [q EXCEPT !.pc = "refresh", !.tool = tool, !.session = tokens, !.client = client]
  <2>1. /\ r \in Handlers /\ r.pc = "refresh" /\ r.tool = tool /\ r.rotate = q.rotate
        /\ r.session = tokens
    BY <1>3 DEF Handlers, Working, Remote, TypeOK
  <2>2. call' = [call EXCEPT ![h] = r]
    BY <1>3 DEF Reading
  <2> HIDE DEF r
  <2> QED BY <1>3, <2>1, <2>2, Becomes
<1> QED BY <1>1, <1>2, <1>3
-----------------------------------------------------------------------------
\* A handler has ever fewer grants ahead of it.
Ages(h) == \A at \in Tools \cup {"exchange"} : Ahead(call'[h], at) => Ahead(call[h], at)

LEMMA BornStays ==
  ASSUME NEW h \in Calls, Moves(h), Ages(h), NEW grant \in Grants, ~Unborn(grant)
  PROVE  ~Unborn(grant)'
BY DEF Moves, Ages, Unborn, Grants

LEMMA TokenTypes ==
  ASSUME TypeOK
  PROVE  /\ tokens # None => tokens \in Sessions /\ tokens.grant \in Grants
         /\ \A h \in Calls : /\ call[h] \in Handlers
                             /\ call[h].session # None =>
                                  call[h].session \in Sessions /\ call[h].session.grant \in Grants
BY DEF TypeOK, Handlers, Sessions

\* A step of handler h that neither obtains nor stores a grant.
Quiet(h) ==
  /\ Moves(h) /\ Ages(h) /\ UNCHANGED <<tokens, live, rotates>>
  /\ \/ call[h].pc \notin {"refreshed", "cut"}
     \/ call'[h].pc = "cut" /\ call'[h].session = call[h].session
  /\ call'[h].pc \notin {"connect", "refreshed"}
  /\ call'[h].pc = "exchange" => call'[h].attempt \in Calls
  /\ call'[h].pc = "refresh" => tokens # None /\ call'[h].session = tokens

LEMMA QuietStep ==
  ASSUME IInv, NEW h \in Calls, Quiet(h)
  PROVE  Shaped' /\ StoredIsBorn' /\ RefreshTokenIsKept'
<1>1. Shaped'
  BY DEF IInv, Quiet, Shaped, Moves
<1>2. StoredIsBorn'
  BY TokenTypes, BornStays DEF IInv, Quiet, StoredIsBorn, Shaped, Moves
<1>3. RefreshTokenIsKept'
  BY DEF IInv, Quiet, RefreshTokenIsKept, Moves
<1> QED BY <1>1, <1>2, <1>3
-----------------------------------------------------------------------------
\* A handler ends, at a step that stores nothing.
LEMMA EndKeeps ==
  ASSUME IInv, NEW h \in Calls, NEW from \in Working, NEW outcome \in Outcomes,
         End(h, from, outcome), from = "refreshed" => outcome = "cut",
         UNCHANGED <<tokens, live, rotates>>
  PROVE  Shaped' /\ StoredIsBorn' /\ RefreshTokenIsKept'
<1>1. /\ Moves(h) /\ call[h].pc = from /\ call'[h].pc = outcome
      /\ outcome = "cut" => call'[h].session = call[h].session
  BY EndMoves DEF IInv
<1>2. Ages(h)
  BY <1>1 DEF Ages, Ahead, Outcomes
<1>3. Quiet(h)
  BY <1>1, <1>2 DEF Quiet, Outcomes, Working, Remote
<1> QED BY <1>3, QuietStep

\* A handler goes on, at a step that stores nothing.
LEMMA GotoKeeps ==
  ASSUME IInv, NEW h \in Calls, NEW from, NEW to \in Working, Goto(h, from, to),
         \/ from = "idle" /\ to = "register"
         \/ from \in {"call", "protect"} /\ to \in {"protect", "fingerprint"},
         UNCHANGED <<tokens, live, rotates>>
  PROVE  Shaped' /\ StoredIsBorn' /\ RefreshTokenIsKept'
<1>1. Moves(h) /\ call[h].pc = from /\ call'[h].pc = to
  BY GotoMoves DEF IInv
<1>2. Ages(h)
  BY <1>1 DEF Ages, Ahead
<1>3. Quiet(h)
  BY <1>1, <1>2 DEF Quiet
<1> QED BY <1>3, QuietStep

\* A tool call starts: from idle, or a creation after its status.
LEMMA ReadingKeeps ==
  ASSUME IInv, NEW h \in Calls, NEW q \in Handlers, NEW tool \in Tools,
         call' = [call EXCEPT ![h] = Reading(q, tool)],
         \/ At(h, "idle")
         \/ At(h, "call") /\ call[h].tool = "status" /\ tool = "create",
         UNCHANGED <<tokens, live, rotates>>
  PROVE  Shaped' /\ StoredIsBorn' /\ RefreshTokenIsKept'
<1>1. /\ Moves(h)
      /\ \/ call'[h].pc = "failed"
         \/ call'[h].pc = "call" /\ call'[h].tool = tool
         \/ /\ call'[h].pc = "refresh" /\ call'[h].tool = tool
            /\ tokens # None /\ call'[h].session = tokens
  BY ReadingMoves DEF IInv
<1>2. Ages(h)
  BY <1>1 DEF Ages, Ahead, At
<1>3. Quiet(h)
  BY <1>1, <1>2 DEF Quiet, At
<1> QED BY <1>3, QuietStep

LEMMA ExchangeKeeps ==
  ASSUME IInv, NEW h \in Calls, Exchange(h)
  PROVE  IInv'
<1> DEFINE grant == [client |-> call[h].client, by |-> h, at |-> "exchange"]
           q == [call[h] EXCEPT !.pc = "connect", !.session = [grant |-> grant, fresh |-> TRUE]]
<1>1. call[h] \in Handlers /\ call[h].attempt \in Calls /\ call[h].client = call[h].attempt
  BY DEF Exchange, At, IInv, TypeOK, Shaped
<1>2. /\ grant \in Grants /\ grant.by = h /\ grant.at = "exchange"
      /\ q \in Handlers /\ q.pc = "connect" /\ q.session = [grant |-> grant, fresh |-> TRUE]
      /\ q.session # None
  <2>1. grant \in Grants
    BY <1>1 DEF Grants
  <2>2. [grant |-> grant, fresh |-> TRUE] \in Sessions
    BY <2>1 DEF Sessions
  <2>3. [grant |-> grant, fresh |-> TRUE] # None
    BY <2>2, TenantAssumption
  <2> QED BY <1>1, <2>1, <2>2, <2>3 DEF Handlers, Working
<1>3. call' = [call EXCEPT ![h] = q] /\ live' = live \cup {grant}
  BY DEF Exchange
<1>4. call[h].pc = "exchange" /\ UNCHANGED <<connection, rotates, accountKey, overlapped, bounds>>
  BY DEF Exchange, At
<1>5. redeemed' \subseteq Calls
  BY <1>1 DEF Exchange, IInv, TypeOK
<1> HIDE DEF grant, q
<1>6. Moves(h) /\ call'[h] = q
  BY <1>2, <1>3, Becomes DEF IInv
<1>7. q.session.grant = grant
  BY <1>2
<1>8. Ages(h)
  BY <1>2, <1>4, <1>6 DEF Ages, Ahead
<1>9. TypeOK'
  BY <1>2, <1>3, <1>4, <1>5, <1>6 DEF IInv, TypeOK, Moves, connection, bounds
<1>10. Shaped'
  BY <1>2, <1>3, <1>4, <1>6, <1>7 DEF IInv, Shaped, Moves
<1>11. StoredIsBorn'
  BY <1>2, <1>4, <1>6, <1>8, TokenTypes, BornStays
     DEF IInv, StoredIsBorn, Shaped, Moves, connection
<1>12. RefreshTokenIsKept'
  BY <1>3, <1>4, <1>6 DEF IInv, RefreshTokenIsKept, Moves, connection
<1> QED BY <1>9, <1>10, <1>11, <1>12 DEF IInv

LEMMA RefreshKeeps ==
  ASSUME IInv, NEW h \in Calls, Refresh(h)
  PROVE  IInv'
<1> DEFINE old == call[h].session.grant
           grant == Refreshed(h)
           q == [call[h] EXCEPT !.pc = "refreshed", !.session = [grant |-> grant, fresh |-> TRUE]]
<1>1. /\ call[h] \in Handlers /\ call[h].pc = "refresh" /\ call[h].session # None
      /\ old \in Grants /\ old \in live
  BY TokenTypes DEF Refresh, At, IInv, Shaped
<1>2. /\ grant \in Grants /\ grant.client = old.client
      /\ rotates => grant.by = h /\ grant.at = call[h].tool
      /\ ~rotates => grant = old
  BY <1>1 DEF Refreshed, Grants, Handlers
<1>3. /\ q \in Handlers /\ q.pc = "refreshed" /\ q.tool = call[h].tool
      /\ q.session = [grant |-> grant, fresh |-> TRUE] /\ q.session # None
  <2>1. [grant |-> grant, fresh |-> TRUE] \in Sessions
    BY <1>2 DEF Sessions
  <2> QED BY <1>1, <2>1, TenantAssumption DEF Handlers, Working
<1>4. /\ call' = [call EXCEPT ![h] = q]
      /\ rotates => live' = (live \ {old}) \cup {grant}
      /\ ~rotates => live' = live
      /\ UNCHANGED <<connection, rotates, redeemed, accountKey, overlapped, bounds>>
  BY DEF Refresh
<1>5. rotates => ~Unborn(old)
  BY <1>1 DEF IInv, StoredIsBorn
<1> HIDE DEF old, grant, q
<1>6. Moves(h) /\ call'[h] = q /\ q.session.grant = grant
  <2>1. Moves(h) /\ call'[h] = q
    BY <1>3, <1>4, Becomes DEF IInv
  <2> QED BY <1>3, <2>1
<1>7. Ages(h)
  BY <1>1, <1>3, <1>6 DEF Ages, Ahead
<1>8. TypeOK'
  BY <1>1, <1>2, <1>4, <1>6 DEF IInv, TypeOK, Moves, connection, bounds
<1>9. Shaped'
  <2>1. grant \in live'
    BY <1>1, <1>2, <1>4
  <2>2. \A g \in Calls : g # h /\ call[g].pc \in {"connect", "refreshed"} => call[g].session.grant \in live'
    <3> SUFFICES ASSUME NEW g \in Calls, g # h, call[g].pc \in {"connect", "refreshed"}
                 PROVE  call[g].session.grant \in live'
      OBVIOUS
    <3>1. call[g].session.grant \in live
      BY DEF IInv, Shaped
    <3>2. rotates => Unborn(call[g].session.grant)
      BY DEF IInv, Shaped, Unborn, Ahead
    <3> QED BY <1>4, <1>5, <3>1, <3>2
  <2> QED BY <1>2, <1>3, <1>4, <1>6, <2>1, <2>2 DEF IInv, Shaped, Moves
<1>10. StoredIsBorn'
  BY <1>3, <1>4, <1>6, <1>7, TokenTypes, BornStays
     DEF IInv, StoredIsBorn, Shaped, Moves, connection
<1>11. RefreshTokenIsKept'
  <2>0. tokens' = tokens
    BY <1>4 DEF connection
  <2> SUFFICES ASSUME tokens # None, tokens.grant \notin live'
               PROVE  \E g \in Calls : /\ call'[g].pc \in {"refreshed", "cut"} /\ call'[g].session # None
                                       /\ call'[g].session.grant.client = tokens.grant.client
    BY <2>0 DEF RefreshTokenIsKept
  <2>1. CASE tokens.grant \in live
    BY <1>2, <1>3, <1>4, <1>6, <2>1
  <2>2. CASE tokens.grant \notin live
    BY <1>1, <1>6, <2>2 DEF IInv, RefreshTokenIsKept, Moves
  <2> QED BY <2>1, <2>2
<1> QED BY <1>8, <1>9, <1>10, <1>11 DEF IInv

\* A handler stores what it has obtained.
LEMMA StoreKeeps ==
  ASSUME IInv, NEW h \in Calls, Moves(h), call[h].pc \in {"connect", "refreshed"},
         call'[h].pc \in {"connected", "call"}, call[h].pc = "refreshed" => call'[h].tool = call[h].tool,
         call[h].pc = "connect" => call'[h].pc = "connected",
         tokens' = call[h].session, UNCHANGED <<live, rotates>>
  PROVE  Shaped' /\ StoredIsBorn' /\ RefreshTokenIsKept'
<1>1. Ages(h)
  BY DEF Ages, Ahead
<1>2. tokens' # None /\ tokens'.grant \in live /\ tokens'.grant \in Grants
  BY TokenTypes DEF IInv, Shaped
<1>3. Shaped'
  BY DEF IInv, Shaped, Moves
<1>4. StoredIsBorn'
  <2>1. rotates => ~Ahead(call'[tokens'.grant.by], tokens'.grant.at)
    <3>1. CASE call[h].pc = "connect"
      BY <3>1 DEF IInv, Shaped, Ahead
    <3>2. CASE call[h].pc = "refreshed"
      BY <3>2 DEF IInv, Shaped, Ahead
    <3> QED BY <3>1, <3>2
  <2>2. rotates => \A g \in Calls : call'[g].pc = "refresh" =>
          ~Ahead(call'[call'[g].session.grant.by], call'[g].session.grant.at)
    <3> SUFFICES ASSUME rotates, NEW g \in Calls, call'[g].pc = "refresh"
                 PROVE  ~Ahead(call'[call'[g].session.grant.by], call'[g].session.grant.at)
      OBVIOUS
    <3>1. g # h /\ call'[g] = call[g]
      BY DEF Moves
    <3>2. call[g].session.grant \in Grants /\ ~Unborn(call[g].session.grant)
      BY <3>1, TokenTypes DEF IInv, Shaped, StoredIsBorn
    <3>3. ~Ahead(call'[call[g].session.grant.by], call[g].session.grant.at)
      BY <1>1, <3>2, BornStays DEF Unborn
    <3> QED BY <3>1, <3>3
  <2> QED BY <2>1, <2>2 DEF StoredIsBorn, Unborn
<1>5. RefreshTokenIsKept'
  BY <1>2 DEF RefreshTokenIsKept
<1> QED BY <1>3, <1>4, <1>5

\* Types are kept where neither the tokens nor what Orbio keeps of them change.
LEMMA TypesKept ==
  ASSUME TypeOK, call' \in [Calls -> Handlers],
         tokens' \in Sessions \cup {None}, UNCHANGED <<rotates, live, redeemed>>,
         {client', pending', key', fingerprint'} \subseteq Calls \cup {None},
         recent' \in BOOLEAN, accountKey' \in Calls \cup {None, OtherKey},
         overlapped' \subseteq Calls,
         cuts' \in 0..MaxCuts, elsewhere' \in 0..MaxElsewhere
  PROVE  TypeOK'
BY DEF TypeOK

LEMMA HandlerKeeps ==
  ASSUME IInv, NEW h \in Calls, Handler(h)
  PROVE  IInv'
<1> USE DEF connection, orbio, bounds
<1>0. /\ TypeOK /\ call[h] \in Handlers /\ None \in Calls \cup {None}
      /\ tokens \in Sessions \cup {None} /\ accountKey \in Calls \cup {None, OtherKey}
      /\ {client, pending, key, fingerprint} \subseteq Calls \cup {None} /\ recent \in BOOLEAN
      /\ overlapped \subseteq Calls /\ cuts \in 0..MaxCuts /\ elsewhere \in 0..MaxElsewhere
  BY DEF IInv, TypeOK
<1> DEFINE Rest == Shaped' /\ StoredIsBorn' /\ RefreshTokenIsKept'
           Typed == call' \in [Calls -> Handlers]
<1>1. CASE Start(h)
  <2>1. Goto(h, "idle", "register") /\ UNCHANGED <<connection, orbio, overlapped, bounds>>
    BY <1>1 DEF Start
  <2>2. Typed
    BY <1>0, <2>1, GotoMoves DEF Working, Remote, Moves
  <2>3. Rest
    BY <2>1, GotoKeeps DEF Working, Remote
  <2> QED BY <1>0, <2>1, <2>2, <2>3, TypesKept DEF IInv
<1>2. CASE StoreAttempt(h)
  <2>1. End(h, "register", "started") /\ UNCHANGED <<tokens, key, fingerprint, orbio, overlapped, bounds>>
    BY <1>2 DEF StoreAttempt
  <2>2. Typed /\ Rest
    BY <2>1, EndMoves, EndKeeps DEF IInv, Working, Remote, Outcomes, Moves
  <2> QED BY <1>0, <1>2, <2>2, TypesKept DEF IInv, StoreAttempt
<1>3. ASSUME NEW s \in Calls, Finish(h, s) PROVE IInv'
  <2> DEFINE q == [call[h] EXCEPT !.pc = "exchange", !.attempt = s, !.client = client]
  <2>1. call' = [call EXCEPT ![h] = q] /\ call[h].pc = "idle" /\ UNCHANGED <<connection, orbio, overlapped, bounds>>
    BY <1>3 DEF Finish, At
  <2>2. q \in Handlers /\ q.pc = "exchange" /\ q.attempt = s
    BY <1>0 DEF Handlers, Working, Remote
  <2> HIDE DEF q
  <2>3. Moves(h) /\ call'[h] = q
    BY <1>0, <2>1, <2>2, Becomes
  <2>4. Quiet(h)
    BY <2>1, <2>2, <2>3 DEF Quiet, Ages, Ahead
  <2>5. Rest
    BY <2>4, QuietStep
  <2> QED BY <1>0, <2>1, <2>3, <2>5, TypesKept DEF IInv, Moves
<1>4. CASE Exchange(h)
  BY <1>4, ExchangeKeeps
<1>5. CASE StoreTokens(h)
  <2>1. /\ End(h, "connect", "connected") /\ tokens' = call[h].session
        /\ UNCHANGED <<client, key, fingerprint, recent, orbio, overlapped, bounds>> /\ pending' = None
    BY <1>5 DEF StoreTokens
  <2>2. Moves(h) /\ call[h].pc = "connect" /\ call'[h].pc = "connected"
    BY <1>0, <2>1, EndMoves DEF Outcomes
  <2>3. Rest
    BY <2>1, <2>2, StoreKeeps
  <2>4. tokens' \in Sessions \cup {None}
    BY <1>0, <2>1 DEF Handlers
  <2> QED BY <1>0, <2>1, <2>2, <2>3, <2>4, TypesKept DEF IInv, Moves
<1>6. CASE Look(h)
  <2>1. /\ call' = [call EXCEPT ![h] = Reading(call[h], "look")] /\ At(h, "idle")
        /\ UNCHANGED <<connection, orbio, overlapped, bounds>>
    BY <1>6 DEF Look
  <2>2. Typed
    BY <1>0, <2>1, ReadingMoves DEF Tools, Moves
  <2>3. Rest
    BY <1>0, <2>1, ReadingKeeps DEF Tools
  <2> QED BY <1>0, <2>1, <2>2, <2>3, TypesKept DEF IInv
<1>7. CASE Refresh(h)
  BY <1>7, RefreshKeeps
<1>8. CASE StoreRefreshed(h)
  <2> DEFINE q == [call[h] EXCEPT !.pc = "call", !.session = None]
  <2>1. /\ call' = [call EXCEPT ![h] = q] /\ call[h].pc = "refreshed" /\ tokens' = call[h].session
        /\ UNCHANGED <<client, pending, key, fingerprint, recent, orbio, overlapped, bounds>>
    BY <1>8 DEF StoreRefreshed, At
  <2>2. q \in Handlers /\ q.pc = "call" /\ q.tool = call[h].tool
    BY <1>0 DEF Handlers, Working, Remote
  <2> HIDE DEF q
  <2>3. Moves(h) /\ call'[h] = q
    BY <1>0, <2>1, <2>2, Becomes
  <2>4. Rest
    BY <2>1, <2>2, <2>3, StoreKeeps
  <2>5. tokens' \in Sessions \cup {None}
    BY <1>0, <2>1 DEF Handlers
  <2> QED BY <1>0, <2>1, <2>3, <2>4, <2>5, TypesKept DEF IInv, Moves
<1>9. CASE Looked(h)
  <2>1. End(h, "call", "looked") /\ UNCHANGED <<connection, orbio, overlapped, bounds>>
    BY <1>9 DEF Looked
  <2>2. Typed /\ Rest
    BY <2>1, EndMoves, EndKeeps DEF IInv, Working, Remote, Outcomes, Moves
  <2> QED BY <1>0, <2>1, <2>2, TypesKept DEF IInv
<1>10. ASSUME NEW rotate \in BOOLEAN, Provision(h, rotate) PROVE IInv'
  <2> DEFINE q == [call[h] EXCEPT !.rotate = rotate]
  <2>1. /\ call' = [call EXCEPT ![h] = Reading(q, "status")] /\ At(h, "idle")
        /\ UNCHANGED <<connection, orbio, bounds>> /\ overlapped' \subseteq Calls
    BY <1>0, <1>10 DEF Provision, Others
  <2>2. q \in Handlers
    BY <1>0 DEF Handlers
  <2> HIDE DEF q
  <2>3. Typed
    BY <1>0, <2>1, <2>2, ReadingMoves DEF Tools, Moves
  <2>4. Rest
    BY <2>1, <2>2, ReadingKeeps DEF Tools
  <2> QED BY <1>0, <2>1, <2>3, <2>4, TypesKept DEF IInv
<1>11. CASE Status(h)
  <2>1. At(h, "call") /\ call[h].tool = "status" /\ UNCHANGED <<connection, orbio, overlapped, bounds>>
    BY <1>11 DEF Status
  <2>2. CASE End(h, "call", "conflict")
    <3>1. Typed /\ Rest
      BY <2>1, <2>2, EndMoves, EndKeeps DEF IInv, Working, Remote, Outcomes, Moves
    <3> QED BY <1>0, <2>1, <3>1, TypesKept DEF IInv
  <2>3. CASE call' = [call EXCEPT ![h] = Reading(call[h], "create")]
    <3>1. Typed /\ Rest
      BY <1>0, <2>1, <2>3, ReadingMoves, ReadingKeeps DEF Tools, Moves
    <3> QED BY <1>0, <2>1, <3>1, TypesKept DEF IInv
  <2> QED BY <1>11, <2>2, <2>3 DEF Status
<1>12. CASE Create(h)
  <2>1. accountKey' = h /\ UNCHANGED <<connection, rotates, live, redeemed, overlapped, bounds>>
    BY <1>12 DEF Create
  <2>2. CASE Goto(h, "call", "protect")
    <3>1. Typed /\ Rest
      BY <2>1, <2>2, GotoMoves, GotoKeeps DEF IInv, Working, Moves
    <3> QED BY <1>0, <2>1, <3>1, TypesKept DEF IInv
  <2>3. CASE End(h, "call", "failed")
    <3>1. Typed /\ Rest
      BY <2>1, <2>3, EndMoves, EndKeeps DEF IInv, Working, Remote, Outcomes, Moves
    <3> QED BY <1>0, <2>1, <3>1, TypesKept DEF IInv
  <2> QED BY <1>12, <2>2, <2>3 DEF Create
<1>13. CASE StoreKey(h)
  <2>1. /\ Goto(h, "protect", "fingerprint") /\ key' = h /\ fingerprint' = None
        /\ UNCHANGED <<client, pending, tokens, recent, orbio, overlapped, bounds>>
    BY <1>13 DEF StoreKey
  <2>2. Typed /\ Rest
    BY <2>1, GotoMoves, GotoKeeps DEF IInv, Working, Moves
  <2> QED BY <1>0, <2>1, <2>2, TypesKept DEF IInv
<1>14. CASE StoreFingerprint(h)
  <2>1. /\ End(h, "fingerprint", "provisioned") /\ fingerprint' = h
        /\ UNCHANGED <<client, pending, tokens, key, recent, orbio, overlapped, bounds>>
    BY <1>14 DEF StoreFingerprint
  <2>2. Typed /\ Rest
    BY <2>1, EndMoves, EndKeeps DEF IInv, Working, Remote, Outcomes, Moves
  <2> QED BY <1>0, <2>1, <2>2, TypesKept DEF IInv
<1>15. CASE Fails(h)
  <2>1. PICK at \in Remote : End(h, at, "failed")
    BY <1>15 DEF Fails
  <2>2. UNCHANGED <<connection, orbio, overlapped, bounds>>
    BY <1>15 DEF Fails
  <2>3. Typed /\ Rest
    BY <2>1, <2>2, EndMoves, EndKeeps DEF IInv, Working, Remote, Outcomes, Moves
  <2> QED BY <1>0, <2>2, <2>3, TypesKept DEF IInv
<1>16. CASE Cut(h)
  <2>1. PICK at \in Working : End(h, at, "cut")
    BY <1>16 DEF Cut
  <2>2. UNCHANGED <<connection, orbio, overlapped, elsewhere>> /\ cuts' \in 0..MaxCuts
    BY <1>0, <1>16, TenantAssumption DEF Cut
  <2>3. Typed /\ Rest
    BY <2>1, <2>2, EndMoves, EndKeeps DEF IInv, Outcomes, Moves
  <2> QED BY <1>0, <2>2, <2>3, TypesKept DEF IInv
<1> QED BY <1>1, <1>2, <1>3, <1>4, <1>5, <1>6, <1>7, <1>8, <1>9, <1>10, <1>11, <1>12, <1>13,
           <1>14, <1>15, <1>16 DEF Handler

\* The clock and the account's other consumers leave the handlers alone.
LEMMA OthersKeep ==
  ASSUME IInv, Expire \/ Wait \/ ElsewhereChange \/ UNCHANGED vars
  PROVE  IInv'
<1>1. /\ UNCHANGED <<rotates, live, redeemed, call>>
      /\ (tokens = None <=> tokens' = None) /\ (tokens # None => tokens'.grant = tokens.grant)
  <2>1. CASE Expire
    <3>1. tokens \in Sessions /\ tokens' = [tokens EXCEPT !.fresh = FALSE]
      BY <2>1 DEF Expire, IInv, TypeOK
    <3>2. tokens' \in Sessions /\ tokens'.grant = tokens.grant
      BY <3>1 DEF Sessions
    <3> QED BY <2>1, <3>1, <3>2, TenantAssumption DEF Expire, orbio
  <2>2. CASE Wait \/ ElsewhereChange \/ UNCHANGED vars
    BY <2>2 DEF Wait, ElsewhereChange, vars, connection, orbio, bounds
  <2> QED BY <2>1, <2>2
<1>2. TypeOK'
  <2>1. CASE Expire
    <3>1. tokens \in Sessions /\ tokens' = [tokens EXCEPT !.fresh = FALSE]
      BY <2>1 DEF Expire, IInv, TypeOK
    <3>2. tokens' \in Sessions
      BY <3>1 DEF Sessions
    <3> QED BY <2>1, <3>2 DEF Expire, orbio, bounds, IInv, TypeOK
  <2>2. CASE Wait
    BY <2>2 DEF Wait, orbio, bounds, IInv, TypeOK
  <2>3. CASE ElsewhereChange
    BY <2>3, TenantAssumption DEF ElsewhereChange, connection, IInv, TypeOK
  <2>4. CASE UNCHANGED vars
    BY <2>4 DEF vars, connection, orbio, bounds, IInv, TypeOK
  <2> QED BY <2>1, <2>2, <2>3, <2>4
<1>3. Shaped' /\ StoredIsBorn' /\ RefreshTokenIsKept'
  BY <1>1 DEF IInv, Shaped, StoredIsBorn, Unborn, RefreshTokenIsKept
<1> QED BY <1>2, <1>3 DEF IInv

LEMMA NextKeeps == IInv /\ [Next]_vars => IInv'
BY HandlerKeeps, OthersKeep DEF Next

\* Every variable keeps its type: no step stores half of a session, or a key nobody
\* created (startOrbioOAuth, finishOrbioOAuth, currentTokens, provisionGatewayKey).
THEOREM TypeCorrect == Spec => []TypeOK
<1>1. IInv => TypeOK
  BY DEF IInv
<1> QED BY InitIsCorrect, NextKeeps, <1>1, PTL DEF Spec

\* The stored refresh token is accepted by Orbio, or a handler holds, or was cut
\* holding, its successor: for every number of concurrent tool calls, callbacks
\* and cuts (currentTokens).
THEOREM RefreshTokenKept == Spec => []RefreshTokenIsKept
<1>1. IInv => RefreshTokenIsKept
  BY DEF IInv
<1> QED BY InitIsCorrect, NextKeeps, <1>1, PTL DEF Spec
-----------------------------------------------------------------------------
\* Provisionings that run at the same time are remembered as overlapped.
Remembered == \A g, h \in Calls :
  Provisioning(g) /\ Provisioning(h) => g = h \/ {g, h} \subseteq overlapped

\* Where a provisioning is, and what it knows of the keys: only one that overlapped
\* another has replaced the key it made, or the one it stored.
Provisions == \A h \in Calls :
  LET q == call[h]
  IN /\ q.pc \in {"idle", "register", "exchange", "connect"} => q.tool = "look"
     /\ q.pc \in {"protect", "fingerprint"} =>
          q.tool = "create" /\ accountKey \in {h, None, OtherKey} \cup overlapped
     /\ q.pc = "fingerprint" /\ h \notin overlapped => key = h

\* A creation that is about to run without having been confirmed finds no key made
\* here but by a provisioning that runs, or ran, at the same time.
Creating(h) == call[h].pc \in {"refresh", "refreshed", "call"} /\ call[h].tool = "create"

Unasked == \A g, h \in Calls : Creating(h) /\ ~call[h].rotate /\ accountKey = g =>
  g = h \/ {g, h} \subseteq overlapped

KeyInv == Remembered /\ Provisions /\ Unasked /\ FingerprintTellsKey /\ ProvisionedKeyIsKept

LEMMA InitKeys == Init => KeyInv
<1> SUFFICES ASSUME Init PROVE KeyInv
  OBVIOUS
<1>1. \A h \in Calls : call[h].pc = "idle" /\ call[h].tool = "look"
  BY DEF Init, NoCall
<1> QED BY <1>1 DEF Init, KeyInv, Remembered, Provisioning, Provisions, Unasked, Creating,
           FingerprintTellsKey, ProvisionedKeyIsKept, At, Working, Remote

\* A step of handler h that is not about the key.
Keyless(h) ==
  /\ Moves(h) /\ UNCHANGED <<key, fingerprint, accountKey>>
  /\ overlapped \subseteq overlapped'
  /\ Provisioning(h)' => Provisioning(h) \/
       \A g \in Calls : g # h /\ Provisioning(g) => {g, h} \subseteq overlapped'
  /\ Creating(h)' => \/ accountKey \notin Calls \/ call'[h].rotate
                     \/ Creating(h) /\ call'[h].rotate = call[h].rotate
  /\ call'[h].pc \notin {"protect", "fingerprint", "provisioned"}
  /\ call'[h].pc \in {"idle", "register", "exchange", "connect"} => call'[h].tool = "look"

LEMMA KeylessKeeps ==
  ASSUME KeyInv, NEW h \in Calls, Keyless(h)
  PROVE  KeyInv'
<1> USE DEF KeyInv, Keyless, Moves
<1>1. Remembered'
  BY DEF Remembered, Provisioning
<1>2. Provisions'
  BY DEF Provisions
<1>3. FingerprintTellsKey'
  BY DEF FingerprintTellsKey
<1>4. ProvisionedKeyIsKept'
  BY DEF ProvisionedKeyIsKept, At
<1>5. Unasked'
  BY DEF Unasked, Creating
<1> QED BY <1>1, <1>2, <1>3, <1>4, <1>5

LEMMA EndKeyless ==
  ASSUME TypeOK, KeyInv, NEW h \in Calls, NEW from, NEW outcome \in Outcomes,
         End(h, from, outcome), outcome # "provisioned",
         UNCHANGED <<key, fingerprint, accountKey, overlapped>>
  PROVE  KeyInv'
<1>1. Moves(h) /\ call'[h].pc = outcome /\ call'[h].tool = "look"
  BY EndMoves
<1>2. Keyless(h)
  BY <1>1 DEF Keyless, Provisioning, Creating, Outcomes
<1> QED BY <1>2, KeylessKeeps

\* Whose key it replaces is up to a creation alone, unless it overlaps another.
LEMMA CreateKeys ==
  ASSUME TypeOK, KeyInv, NEW h \in Calls, Create(h)
  PROVE  KeyInv'
<1>1. /\ Moves(h) /\ call[h].pc = "call" /\ call[h].tool = "create"
      /\ \/ call'[h].pc = "protect" /\ call'[h].tool = "create"
         \/ call'[h].pc = "failed" /\ call'[h].tool = "look"
  <2>1. CASE Goto(h, "call", "protect")
    BY <2>1, GotoMoves DEF Create, Working
  <2>2. CASE End(h, "call", "failed")
    BY <2>2, EndMoves DEF Create, Outcomes
  <2> QED BY <2>1, <2>2 DEF Create
<1>2. accountKey' = h /\ UNCHANGED <<key, fingerprint, overlapped>>
  BY DEF Create, connection
<1>3. Provisioning(h) /\ \A g \in Calls : g # h => call'[g] = call[g]
  BY <1>1 DEF Provisioning, Working, Remote, Moves
<1>4. Remembered'
  BY <1>1, <1>2, <1>3 DEF KeyInv, Remembered, Provisioning
<1>5. Provisions'
  <2> SUFFICES ASSUME NEW g \in Calls, g # h, call[g].pc \in {"protect", "fingerprint"}
               PROVE  h \in overlapped
    BY <1>1, <1>2, <1>3 DEF KeyInv, Provisions
  <2>1. Provisioning(g)
    BY DEF Provisioning, Working, KeyInv, Provisions
  <2> QED BY <1>3, <2>1 DEF KeyInv, Remembered
<1>6. FingerprintTellsKey'
  BY <1>2 DEF KeyInv, FingerprintTellsKey
<1>7. ProvisionedKeyIsKept'
  BY <1>1, <1>2 DEF ProvisionedKeyIsKept, At
<1>8. Unasked'
  <2> SUFFICES ASSUME NEW g \in Calls, g # h, Creating(g)
               PROVE  {g, h} \subseteq overlapped
    BY <1>1, <1>2, <1>3 DEF Unasked, Creating
  <2>1. Provisioning(g)
    BY DEF Provisioning, Creating, Working, Remote
  <2> QED BY <1>3, <2>1 DEF KeyInv, Remembered
<1> QED BY <1>4, <1>5, <1>6, <1>7, <1>8 DEF KeyInv

LEMMA StoreKeyKeys ==
  ASSUME TypeOK, KeyInv, NEW h \in Calls, StoreKey(h)
  PROVE  KeyInv'
<1>1. /\ Moves(h) /\ call[h].pc = "protect" /\ call'[h].pc = "fingerprint"
      /\ call'[h].tool = call[h].tool
  BY GotoMoves DEF StoreKey, Working
<1>2. key' = h /\ fingerprint' = None /\ UNCHANGED <<accountKey, overlapped>>
  BY DEF StoreKey, orbio
<1>3. accountKey \in {h, None, OtherKey} \cup overlapped /\ call[h].tool = "create"
  BY <1>1 DEF KeyInv, Provisions
<1>4. Remembered'
  BY <1>1, <1>2 DEF KeyInv, Remembered, Provisioning, Moves, Working
<1>5. Provisioning(h) /\ \A g \in Calls : g # h => call'[g] = call[g]
  BY <1>1, <1>3 DEF Provisioning, Working, Moves
<1>6. Provisions'
  <2> SUFFICES ASSUME NEW g \in Calls, g # h, call[g].pc = "fingerprint"
               PROVE  g \in overlapped
    BY <1>1, <1>2, <1>3, <1>5 DEF KeyInv, Provisions
  <2>1. Provisioning(g)
    BY DEF Provisioning, Working, KeyInv, Provisions
  <2> QED BY <1>5, <2>1 DEF KeyInv, Remembered
<1>7. FingerprintTellsKey'
  BY <1>2 DEF FingerprintTellsKey
<1>8. ProvisionedKeyIsKept'
  BY <1>1, <1>2, <1>3, <1>5, TenantAssumption DEF ProvisionedKeyIsKept, At
<1>9. Unasked'
  BY <1>1, <1>2 DEF KeyInv, Unasked, Creating, Moves
<1> QED BY <1>4, <1>6, <1>7, <1>8, <1>9 DEF KeyInv

LEMMA StoreFingerprintKeys ==
  ASSUME TypeOK, KeyInv, NEW h \in Calls, StoreFingerprint(h)
  PROVE  KeyInv'
<1>1. Moves(h) /\ call[h].pc = "fingerprint" /\ call'[h].pc = "provisioned" /\ call'[h].tool = "look"
  BY EndMoves DEF StoreFingerprint, Outcomes
<1>2. fingerprint' = h /\ UNCHANGED <<key, accountKey, overlapped>>
  BY DEF StoreFingerprint, orbio
<1>3. accountKey \in {h, None, OtherKey} \cup overlapped /\ (h \notin overlapped => key = h)
  BY <1>1 DEF KeyInv, Provisions
<1>4. Remembered'
  BY <1>1, <1>2 DEF KeyInv, Remembered, Provisioning, Moves
<1>5. Provisions'
  BY <1>1, <1>2 DEF KeyInv, Provisions, Moves
<1>6. FingerprintTellsKey' /\ ProvisionedKeyIsKept'
  BY <1>1, <1>2, <1>3, TenantAssumption DEF FingerprintTellsKey, ProvisionedKeyIsKept, At, Moves
<1>7. Unasked'
  BY <1>1, <1>2 DEF KeyInv, Unasked, Creating, Moves
<1> QED BY <1>4, <1>5, <1>6, <1>7 DEF KeyInv

LEMMA ReadingKeyless ==
  ASSUME TypeOK, KeyInv, NEW h \in Calls, NEW q \in Handlers, NEW tool \in Tools,
         call' = [call EXCEPT ![h] = Reading(q, tool)],
         overlapped \subseteq overlapped',
         tool # "look" => Provisioning(h) \/
           \A g \in Calls : g # h /\ Provisioning(g) => {g, h} \subseteq overlapped',
         tool = "create" => accountKey \notin Calls \/ q.rotate,
         UNCHANGED <<key, fingerprint, accountKey>>
  PROVE  KeyInv'
<1>1. /\ Moves(h)
      /\ \/ call'[h].pc = "failed" /\ call'[h].tool = "look"
         \/ /\ call'[h].pc \in {"call", "refresh"} /\ call'[h].tool = tool
            /\ call'[h].rotate = q.rotate
  BY ReadingMoves
<1>2. Keyless(h)
  BY <1>1 DEF Keyless, Provisioning, Creating
<1> QED BY <1>2, KeylessKeeps

\* A handler goes on with the tool it has.
LEMMA SameToolKeyless ==
  ASSUME TypeOK, KeyInv, NEW h \in Calls, Moves(h),
         UNCHANGED <<key, fingerprint, accountKey, overlapped>>,
         call'[h].tool = call[h].tool, call'[h].rotate = call[h].rotate,
         \/ call[h].pc = "idle" /\ call'[h].pc \in {"register", "exchange"}
         \/ call[h].pc = "exchange" /\ call'[h].pc = "connect"
         \/ call[h].pc = "refresh" /\ call'[h].pc = "refreshed"
         \/ call[h].pc = "refreshed" /\ call'[h].pc = "call"
  PROVE  KeyInv'
<1>1. Keyless(h)
  BY DEF Keyless, Provisioning, Creating, Working, Remote, KeyInv, Provisions
<1> QED BY <1>1, KeylessKeeps

\* Which handlers a step may make, field by field.
LEMMA PlainMoves ==
  ASSUME TypeOK, NEW h \in Calls,
         \/ Start(h) \/ (\E s \in Calls : Finish(h, s)) \/ Exchange(h) \/ Refresh(h) \/ StoreRefreshed(h),
         call' \in [Calls -> Handlers]
  PROVE  /\ Moves(h) /\ UNCHANGED <<key, fingerprint, accountKey, overlapped>>
         /\ call'[h].tool = call[h].tool /\ call'[h].rotate = call[h].rotate
         /\ \/ call[h].pc = "idle" /\ call'[h].pc \in {"register", "exchange"}
            \/ call[h].pc = "exchange" /\ call'[h].pc = "connect"
            \/ call[h].pc = "refresh" /\ call'[h].pc = "refreshed"
            \/ call[h].pc = "refreshed" /\ call'[h].pc = "call"
<1>1. call[h] \in Handlers /\ call \in [Calls -> Handlers]
  BY DEF TypeOK
<1> USE <1>1 DEF Moves, Handlers, At, connection, orbio
<1>2. CASE Start(h)
  BY <1>2 DEF Start, Goto
<1>3. ASSUME NEW s \in Calls, Finish(h, s)
      PROVE  /\ Moves(h) /\ UNCHANGED <<key, fingerprint, accountKey, overlapped>>
             /\ call'[h].tool = call[h].tool /\ call'[h].rotate = call[h].rotate
             /\ call[h].pc = "idle" /\ call'[h].pc = "exchange"
  BY <1>3 DEF Finish
<1>4. CASE Exchange(h)
  BY <1>4 DEF Exchange
<1>5. CASE Refresh(h)
  BY <1>5 DEF Refresh
<1>6. CASE StoreRefreshed(h)
  BY <1>6 DEF StoreRefreshed
<1> QED BY <1>2, <1>3, <1>4, <1>5, <1>6

LEMMA HandlerKeys ==
  ASSUME TypeOK, TypeOK', KeyInv, NEW h \in Calls, Handler(h)
  PROVE  KeyInv'
<1> USE DEF connection, orbio
<1>0. call[h] \in Handlers /\ call' \in [Calls -> Handlers]
  BY DEF TypeOK
<1>1. CASE Start(h) \/ (\E s \in Calls : Finish(h, s)) \/ Exchange(h) \/ Refresh(h) \/ StoreRefreshed(h)
  BY <1>0, <1>1, PlainMoves, SameToolKeyless
<1>2. CASE StoreAttempt(h)
  BY <1>2, EndKeyless DEF StoreAttempt, Outcomes
<1>3. CASE StoreTokens(h)
  BY <1>3, EndKeyless DEF StoreTokens, Outcomes
<1>4. CASE Look(h)
  BY <1>0, <1>4, ReadingKeyless DEF Look, Tools
<1>5. CASE Looked(h)
  BY <1>5, EndKeyless DEF Looked, Outcomes
<1>6. ASSUME NEW rotate \in BOOLEAN, Provision(h, rotate) PROVE KeyInv'
  <2> DEFINE q == [call[h] EXCEPT !.rotate = rotate]
  <2>1. /\ call' = [call EXCEPT ![h] = Reading(q, "status")]
        /\ UNCHANGED <<key, fingerprint, accountKey>>
        /\ overlapped \subseteq overlapped'
        /\ \A g \in Calls : g # h /\ Provisioning(g) => {g, h} \subseteq overlapped'
    BY <1>6 DEF Provision, Others
  <2>2. q \in Handlers
    BY <1>0 DEF Handlers
  <2> HIDE DEF q
  <2> QED BY <2>1, <2>2, ReadingKeyless DEF Tools
<1>7. CASE Status(h)
  <2>1. /\ call[h].pc = "call" /\ call[h].tool = "status"
        /\ UNCHANGED <<key, fingerprint, accountKey, overlapped>>
    BY <1>7 DEF Status, At
  <2>2. CASE End(h, "call", "conflict")
    BY <2>1, <2>2, EndKeyless DEF Outcomes
  <2>3. CASE /\ accountKey = None \/ call[h].rotate
             /\ call' = [call EXCEPT ![h] = Reading(call[h], "create")]
    <3>1. Provisioning(h)
      BY <2>1 DEF Provisioning, Working, Remote
    <3> QED BY <1>0, <2>1, <2>3, <3>1, TenantAssumption, ReadingKeyless DEF Tools
  <2> QED BY <1>7, <2>2, <2>3 DEF Status
<1>8. CASE Create(h)
  BY <1>8, CreateKeys
<1>9. CASE StoreKey(h)
  BY <1>9, StoreKeyKeys
<1>10. CASE StoreFingerprint(h)
  BY <1>10, StoreFingerprintKeys
<1>11. CASE Fails(h)
  BY <1>11, EndKeyless DEF Fails, Outcomes
<1>12. CASE Cut(h)
  BY <1>12, EndKeyless DEF Cut, Outcomes
<1> QED BY <1>1, <1>2, <1>3, <1>4, <1>5, <1>6, <1>7, <1>8, <1>9, <1>10, <1>11, <1>12 DEF Handler

LEMMA NextKeys ==
  ASSUME IInv, IInv', KeyInv, [Next]_vars
  PROVE  KeyInv'
<1>1. ASSUME NEW h \in Calls, Handler(h) PROVE KeyInv'
  BY <1>1, HandlerKeys DEF IInv
<1>2. CASE Expire \/ Wait \/ UNCHANGED vars
  <2>1. UNCHANGED <<key, fingerprint, accountKey, call, overlapped>>
    BY <1>2 DEF Expire, Wait, vars, connection, orbio
  <2> QED BY <2>1 DEF KeyInv, Remembered, Provisioning, Provisions, Unasked, Creating,
                      FingerprintTellsKey, ProvisionedKeyIsKept, At
<1>3. CASE ElsewhereChange
  <2>1. UNCHANGED <<key, fingerprint, call, overlapped>> /\ accountKey' \in {None, OtherKey}
    BY <1>3 DEF ElsewhereChange, connection
  <2> QED BY <2>1, TenantAssumption
          DEF KeyInv, Remembered, Provisioning, Provisions, Unasked, Creating,
              FingerprintTellsKey, ProvisionedKeyIsKept, At
<1> QED BY <1>1, <1>2, <1>3 DEF Next

LEMMA KeysHold ==
  Spec => [](IInv /\ KeyInv)
<1>1. Init => IInv /\ KeyInv
  BY InitIsCorrect, InitKeys
<1>2. IInv /\ KeyInv /\ [Next]_vars => (IInv /\ KeyInv)'
  BY NextKeeps, NextKeys
<1> QED BY <1>1, <1>2, PTL DEF Spec

\* A stored fingerprint is the stored key's, at every moment, for any number of calls
\* that are cut anywhere, unless another provisioning overlapped the one that stored
\* it (provisionGatewayKey).
THEOREM FingerprintTold == Spec => []FingerprintTellsKey
<1>1. KeyInv => FingerprintTellsKey
  BY DEF KeyInv
<1> QED BY KeysHold, <1>1, PTL

\* A provisioning that reported success, and that no other overlapped, has its key and
\* fingerprint stored for as long as the account uses that key, also when two others
\* overlap before or after it (provisionGatewayKey, finishOrbioOAuth).
THEOREM ProvisionedKept == Spec => []ProvisionedKeyIsKept
<1>1. KeyInv => ProvisionedKeyIsKept
  BY DEF KeyInv
<1> QED BY KeysHold, <1>1, PTL

\* However many provisionings overlap: a key made here is replaced unconfirmed only by
\* one that ran at the same time as the one that made it (provisionGatewayKey).
THEOREM OwnKeyAsked == Spec => OwnKeyIsAskedFor
<1>1. ASSUME KeyInv, [Next]_vars
      PROVE  [\A g, h \in Calls : g # h /\ accountKey = g /\ accountKey' = h =>
                call[h].rotate \/ {g, h} \subseteq overlapped]_vars
  <2> SUFFICES ASSUME Next, NEW g \in Calls, NEW h \in Calls, g # h, accountKey = g, accountKey' = h
               PROVE  call[h].rotate \/ {g, h} \subseteq overlapped
    BY <1>1
  <2>1. PICK d \in Calls : Create(d)
    BY TenantAssumption DEF Next, Handler, Start, StoreAttempt, Finish, Exchange, StoreTokens,
       Look, Refresh, StoreRefreshed, Looked, Provision, Status, StoreKey, StoreFingerprint, Fails,
       Cut, Expire, Wait, ElsewhereChange, orbio
  <2>2. d = h
    BY <2>1 DEF Create
  <2>3. Creating(h)
    BY <2>1, <2>2 DEF Create, Creating, Goto, End, At
  <2> QED BY <1>1, <2>3 DEF KeyInv, Unasked
<1> QED BY KeysHold, <1>1, PTL DEF Spec, OwnKeyIsAskedFor
=============================================================================
