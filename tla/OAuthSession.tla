---------------------------- MODULE OAuthSession ----------------------------
(***************************************************************************)
(* The local OAuth session with Orbio: connectOrbioMcp of                  *)
(* src/orbio/mcp-client.ts, the store, the provider and the callback       *)
(* listener of src/auth, and their users: the CLI commands, `logout`, and  *)
(* the dashboard, which connects without being interactive.                *)
(*                                                                         *)
(* oauth.json holds the client, the tokens, the state and the verifier of  *)
(* the last attempt to log in.  Every update of it is a read and a write,  *)
(* without a lock, from whatever process (OAuthStateStore.update).  The    *)
(* order of the calls is that of the MCP SDK's auth(); what it asks its    *)
(* provider for is this code.  A client and an attempt are named after the *)
(* process they belong to, tokens are numbered.  A process makes one tool  *)
(* call once it is connected.                                              *)
(***************************************************************************)
EXTENDS Naturals, FiniteSets

CONSTANTS
  Commands,     \* activations of interactive commands
  Dashboards,   \* remote refreshes of the dashboard
  Logouts,      \* activations of `logout`
  MaxFaults,    \* bound: access tokens that expire, processes that are killed, and
                \* clients that Orbio does not know any more, together
  None

Procs == Commands \cup Dashboards \cup Logouts

VARIABLES
  file,       \* oauth.json
  clobbered,  \* its tokens were put back by a write that undid one it had not read
  listener,   \* the process that listens on the callback port
  proc,       \* the processes
  rotates,    \* Orbio: does a refresh replace the refresh token?
  issued,     \* Orbio: the number of tokens issued
  valid,      \* Orbio: the access tokens it accepts
  live,       \* Orbio: the refresh tokens it accepts
  shown,      \* the authorization pages opened in a browser
  redeemed,   \* the attempts whose code was redeemed
  faults

disk   == <<file, clobbered>>
tokens == <<rotates, issued, valid, live, redeemed>>
vars   == <<disk, listener, proc, tokens, shown, faults>>

\* A process obtains tokens at most once in each phase, in the first by a refresh or for
\* a code.
MaxTokens == 3 * Cardinality(Procs)

Tokens    == [client : Procs, access : 1..MaxTokens, refresh : 1..MaxTokens]
Documents == [client : Procs \cup {None}, state : Procs \cup {None},
              verifier : Procs \cup {None}, tokens : Tokens \cup {None}]
Pages     == [attempt : Procs, client : Procs]

ASSUME OAuthAssumption ==
  /\ IsFiniteSet(Procs)
  /\ Commands \cap Dashboards = {} /\ (Commands \cup Dashboards) \cap Logouts = {}
  /\ MaxFaults \in Nat
  /\ None \notin Procs \cup Tokens \cup Pages

NoDocument == [client |-> None, state |-> None, verifier |-> None, tokens |-> None]

Busy  == {"request", "client", "register", "tokens", "refresh", "state", "verifier",
          "redirect", "launch", "wait", "finish", "exchange", "write", "lingers"}
Ended == {"done", "failed", "died"}
Phases == {"connect", "reconnect", "session"}

Fresh == [pc |-> "idle", phase |-> "connect", authorized |-> FALSE, retried |-> FALSE,
          client |-> None, verifier |-> None, tokens |-> None, code |-> None,
          doc |-> NoDocument, next |-> "done", stale |-> FALSE]

Processes == [pc : {"idle"} \cup Busy \cup Ended, phase : Phases,
              authorized : BOOLEAN, retried : BOOLEAN,
              client : Procs \cup {None}, verifier : Procs \cup {None},
              tokens : Tokens \cup {None}, code : Pages \cup {None},
              doc : Documents, next : Busy \cup Ended, stale : BOOLEAN]

TypeOK ==
  /\ file \in Documents /\ clobbered \in BOOLEAN
  /\ listener \in Commands \cup {None}
  /\ proc \in [Procs -> Processes]
  /\ rotates \in BOOLEAN /\ issued \in 0..MaxTokens
  /\ valid \subseteq 1..issued /\ live \subseteq 1..issued
  /\ shown \subseteq Pages /\ redeemed \subseteq Commands
  /\ listener # None => proc[listener].pc \in Busy
  /\ faults \in 0..MaxFaults

Init ==
  /\ file = NoDocument /\ clobbered = FALSE /\ listener = None
  /\ proc = [p \in Procs |-> Fresh]
  /\ rotates \in BOOLEAN /\ issued = 0 /\ valid = {} /\ live = {} /\ redeemed = {}
  /\ shown = {} /\ faults = 0
-----------------------------------------------------------------------------
At(p, pc) == proc[p].pc = pc
Fault     == faults < MaxFaults /\ faults' = faults + 1

\* A bug a change could bring in: the listener is not closed.
EndListening(p, outcome) == /\ proc' = [proc EXCEPT ![p] = [Fresh EXCEPT !.pc = outcome]]
                            /\ UNCHANGED listener

\* The process is over; its port is free.
End(p, outcome) == /\ proc' = [proc EXCEPT ![p] = [Fresh EXCEPT !.pc = outcome]]
                   /\ listener' = IF listener = p THEN None ELSE listener

\* OAuthStateStore.update and clear: the file is read now and written later.
Update(p, document, next) ==
  [proc[p] EXCEPT !.pc = "write", !.doc = document, !.next = next, !.tokens = None]

\* The write replaces the file: what others wrote since the reading is undone, and
\* what they read before this write is stale.
Write(p) ==
  /\ At(p, "write")
  /\ file' = proc[p].doc
  /\ clobbered' = (/\ proc[p].doc.tokens # None
                   /\ proc[p].stale \/ (clobbered /\ proc[p].doc.tokens = file.tokens))
  /\ proc' = [q \in Procs |->
       IF q = p THEN IF proc[p].next \in Ended THEN [Fresh EXCEPT !.pc = proc[p].next]
                     ELSE [proc[p] EXCEPT !.pc = proc[p].next, !.doc = NoDocument,
                                     !.next = "done", !.stale = FALSE]
       ELSE IF At(q, "write") THEN [proc[q] EXCEPT !.stale = TRUE] ELSE proc[q]]
  /\ UNCHANGED <<listener, tokens, shown, faults>>
-----------------------------------------------------------------------------
Begin(p) == /\ At(p, "idle")
            /\ proc' = [proc EXCEPT ![p].pc = "request"]
            /\ UNCHANGED <<disk, listener, tokens, shown, faults>>

\* A command connects, and may send the operator to the authorization page.
Command(p) == p \in Commands /\ Begin(p)

\* The dashboard connects, and may not.
attachRemote(p) == p \in Dashboards /\ Begin(p)

\* `logout` clears the file.
Logout(p) == /\ p \in Logouts /\ At(p, "idle")
             /\ proc' = [proc EXCEPT ![p] = Update(p, NoDocument, "done")]
             /\ UNCHANGED <<disk, listener, tokens, shown, faults>>

\* A request to the MCP endpoint with the stored access token.  A connection is
\* followed by one tool call; a 401 by auth(), but not right after it.
Accepted == file.tokens # None /\ file.tokens.access \in valid
Request(p) ==
  /\ At(p, "request")
  /\ \/ /\ Accepted /\ proc[p].phase # "session"
        /\ proc' = [proc EXCEPT ![p].phase = "session", ![p].authorized = FALSE]
        /\ UNCHANGED listener
     \/ /\ Accepted /\ proc[p].phase = "session"
        /\ End(p, "done")
     \/ /\ ~Accepted /\ ~proc[p].authorized
        /\ proc' = [proc EXCEPT ![p].pc = "client"]
        /\ UNCHANGED listener
     \/ /\ ~Accepted /\ proc[p].authorized
        /\ End(p, "failed")
  /\ UNCHANGED <<disk, tokens, shown, faults>>

\* auth(): the stored client, or a new registration that is stored.
ReadClient(p) ==
  /\ At(p, "client")
  /\ proc' = [proc EXCEPT ![p].client = file.client,
                          ![p].pc = IF file.client = None THEN "register" ELSE "tokens"]
  /\ UNCHANGED <<disk, listener, tokens, shown, faults>>

Register(p) ==
  /\ At(p, "register")
  /\ proc' = [proc EXCEPT ![p] =
       [Update(p, [file EXCEPT !.client = p], "tokens") EXCEPT !.client = p]]
  /\ UNCHANGED <<disk, listener, tokens, shown, faults>>

ReadTokens(p) ==
  /\ At(p, "tokens")
  /\ proc' = [proc EXCEPT ![p].tokens = file.tokens,
                          ![p].pc = IF file.tokens = None THEN "state" ELSE "refresh"]
  /\ UNCHANGED <<disk, listener, tokens, shown, faults>>

Issue(client, refresh) ==
  [client |-> client, access |-> issued + 1,
   refresh |-> IF rotates \/ refresh = None THEN issued + 1 ELSE refresh]

Honoured(p) == /\ proc[p].tokens.refresh \in live
               /\ proc[p].tokens.client = proc[p].client

\* A bug a change could bring in: the stored refresh token is kept.
StoreKeeping(p, new) ==
  LET kept == IF file.tokens = None THEN new ELSE [new EXCEPT !.refresh = file.tokens.refresh]
  IN [Update(p, [file EXCEPT !.tokens = kept], "request") EXCEPT
        !.client = None, !.verifier = None, !.code = None, !.retried = FALSE]

\* The tokens are stored, and the process connects again.
Store(p, new) == [Update(p, [file EXCEPT !.tokens = new], "request") EXCEPT
                    !.client = None, !.verifier = None, !.code = None, !.retried = FALSE]

\* The refresh token is accepted, from the client it was issued to; the answer is
\* stored by an update.
Refresh(p) ==
  LET new == Issue(proc[p].client, proc[p].tokens.refresh)
  IN /\ At(p, "refresh") /\ Honoured(p)
     /\ issued' = issued + 1 /\ valid' = valid \cup {issued + 1}
     /\ live' = (IF rotates THEN live \ {proc[p].tokens.refresh} ELSE live) \cup {new.refresh}
     /\ proc' = [proc EXCEPT ![p] =
          [Store(p, new) EXCEPT !.authorized = TRUE]]
     /\ UNCHANGED <<disk, listener, rotates, redeemed, shown, faults>>

\* Orbio rejects what it is given: auth() forgets the tokens, and tries once more.
Reject(p, again) ==
  IF proc[p].retried THEN End(p, "failed")
  ELSE /\ proc' = [proc EXCEPT ![p] =
            [Update(p, [file EXCEPT !.tokens = None], again) EXCEPT !.retried = TRUE]]
       /\ UNCHANGED listener

RefreshRejected(p) == /\ At(p, "refresh") /\ ~Honoured(p)
                      /\ Reject(p, "client")
                      /\ UNCHANGED <<disk, tokens, shown, faults>>

\* Orbio does not know the client: auth() forgets everything, and tries once more.
ClientUnknown(p) ==
  /\ At(p, "refresh") \/ At(p, "exchange")
  /\ Fault
  /\ IF proc[p].retried THEN End(p, "failed")
     ELSE /\ proc' = [proc EXCEPT ![p] =
               [Update(p, NoDocument, IF At(p, "refresh") THEN "client" ELSE "finish")
                  EXCEPT !.retried = TRUE]]
          /\ UNCHANGED listener
  /\ UNCHANGED <<disk, tokens, shown>>

\* Orbio cannot be reached or fails: auth() goes on as if there were no tokens.
RefreshUnavailable(p) == /\ At(p, "refresh")
                         /\ proc' = [proc EXCEPT ![p].pc = "state", ![p].tokens = None]
                         /\ UNCHANGED <<disk, listener, tokens, shown, faults>>
-----------------------------------------------------------------------------
\* A new attempt: its state and its verifier are stored in two updates.
NewState(p) ==
  /\ At(p, "state")
  /\ proc' = [proc EXCEPT ![p] = Update(p, [file EXCEPT !.state = p], "verifier")]
  /\ UNCHANGED <<disk, listener, tokens, shown, faults>>

NewVerifier(p) ==
  /\ At(p, "verifier")
  /\ proc' = [proc EXCEPT ![p] = Update(p, [file EXCEPT !.verifier = p], "redirect")]
  /\ UNCHANGED <<disk, listener, tokens, shown, faults>>

\* redirectToAuthorization: only now is it seen that nobody is there to log in; a
\* command listens, if the port is free.
Redirect(p) ==
  /\ At(p, "redirect")
  /\ \/ /\ p \in Dashboards \/ listener # None
        /\ End(p, "failed")
     \/ /\ p \in Commands /\ listener = None
        /\ listener' = p
        /\ proc' = [proc EXCEPT ![p].pc = "launch"]
  /\ UNCHANGED <<disk, tokens, shown, faults>>

\* The browser is opened or not.  Only the first connection of a command waits for
\* the code; in all other cases it has failed, but its timer keeps the process, and
\* after a tool call the port too.
Launch(p) ==
  /\ At(p, "launch")
  /\ \E opened \in BOOLEAN :
       LET waits == opened /\ proc[p].phase = "connect"
       IN /\ shown' = IF opened THEN shown \cup {[attempt |-> p, client |-> proc[p].client]}
                      ELSE shown
          /\ proc' = [proc EXCEPT ![p].pc = IF waits THEN "wait" ELSE "lingers"]
          /\ listener' = IF waits \/ proc[p].phase = "session" THEN p ELSE None
  /\ UNCHANGED <<disk, tokens, faults>>

Listening(p) == listener = p /\ proc[p].pc \in {"wait", "lingers"}

\* The browser comes back with the state of an attempt and a code, or with neither: the
\* state must be the stored one, and somebody must still wait for the code.
Callback(p, page) ==
  /\ Listening(p)
  /\ IF page # None /\ page.attempt = file.state /\ At(p, "wait")
     THEN /\ proc' = [proc EXCEPT ![p].pc = "finish", ![p].code = page, ![p].client = None,
                                      ![p].retried = FALSE]
          /\ listener' = None
     ELSE End(p, "failed")
  /\ UNCHANGED <<disk, tokens, shown, faults>>

\* A bug a change could bring in: the timer is cleared when the command has failed.
TimesOutWaiting(p) == /\ At(p, "wait")
                      /\ End(p, "failed")
                      /\ UNCHANGED <<disk, tokens, shown, faults>>

\* The timer of the listener fires.
TimesOut(p) == /\ At(p, "wait") \/ At(p, "lingers")
               /\ End(p, "failed")
               /\ UNCHANGED <<disk, tokens, shown, faults>>

\* finishAuth: client and verifier are those stored by now.
ReadAttempt(p) ==
  /\ At(p, "finish")
  /\ IF None \in {file.client, file.verifier} THEN End(p, "failed")
     ELSE /\ proc' = [proc EXCEPT ![p].pc = "exchange", ![p].client = file.client,
                                  ![p].verifier = file.verifier]
          /\ UNCHANGED listener
  /\ UNCHANGED <<disk, tokens, shown, faults>>

Redeemable(p) == LET code == proc[p].code
                 IN /\ proc[p].client = code.client /\ proc[p].verifier = code.attempt
                    /\ code.attempt \notin redeemed

\* The code is redeemed, the tokens are stored, the command connects again.
Exchange(p) ==
  LET new == Issue(proc[p].client, None)
  IN /\ At(p, "exchange") /\ Redeemable(p)
     /\ issued' = issued + 1 /\ valid' = valid \cup {issued + 1} /\ live' = live \cup {issued + 1}
     /\ redeemed' = redeemed \cup {proc[p].code.attempt}
     /\ proc' = [proc EXCEPT ![p] =
          [Store(p, new) EXCEPT !.phase = "reconnect"]]
     /\ UNCHANGED <<disk, listener, rotates, shown, faults>>

ExchangeRejected(p) == /\ At(p, "exchange") /\ ~Redeemable(p)
                       /\ Reject(p, "finish")
                       /\ UNCHANGED <<disk, tokens, shown, faults>>
-----------------------------------------------------------------------------
\* A remote call fails otherwise: connect or the tool call rejects.
Fails(p) == /\ \E at \in {"request", "client", "register", "exchange"} : At(p, at)
            /\ End(p, "failed")
            /\ UNCHANGED <<disk, tokens, shown, faults>>

\* The process is killed.
Dies(p) == /\ proc[p].pc \in Busy
           /\ Fault
           /\ proc' = [proc EXCEPT ![p] = [Fresh EXCEPT !.pc = "died", !.doc = proc[p].doc]]
           /\ listener' = IF listener = p THEN None ELSE listener
           /\ UNCHANGED <<disk, tokens, shown>>

\* An access token expires.
Expire(n) == /\ n \in valid /\ valid' = valid \ {n}
             /\ Fault
             /\ UNCHANGED <<disk, listener, proc, rotates, issued, live, redeemed, shown>>

\* What a process does by itself, once the calls it makes return.
Step(p) ==
  \/ Write(p) \/ Request(p) \/ ReadClient(p) \/ Register(p) \/ ReadTokens(p)
  \/ Refresh(p) \/ RefreshRejected(p) \/ ClientUnknown(p) \/ RefreshUnavailable(p)
  \/ NewState(p) \/ NewVerifier(p) \/ Redirect(p) \/ Launch(p)
  \/ ReadAttempt(p) \/ Exchange(p) \/ ExchangeRejected(p) \/ Fails(p)

Next ==
  \/ \E p \in Procs : \/ Command(p) \/ attachRemote(p) \/ Logout(p)
                      \/ Step(p) \/ TimesOut(p) \/ Dies(p)
                      \/ \E page \in shown \cup {None} : Callback(p, page)
  \/ \E n \in valid : Expire(n)

\* The event loop runs on, remote calls return and the timer fires; nobody has to
\* answer the authorization page.
Fairness == \A p \in Procs : WF_vars(Step(p)) /\ WF_vars(TimesOut(p))

Spec     == Init /\ [][Next]_vars
FairSpec == Spec /\ Fairness
-----------------------------------------------------------------------------
\* The successor of stored tokens is on its way to the file, or was when its holder
\* was killed.
SuccessorOf(t, p) == /\ At(p, "write") \/ At(p, "died")
                     /\ proc[p].doc.tokens # None
                     /\ proc[p].doc.tokens.client = t.client
                     /\ proc[p].doc.tokens.refresh \in live

\* The stored refresh token is one that Orbio still accepts: commands, dashboard and
\* logout may interleave, fail and be killed anywhere, and no dead token is left in
\* the file, unless one update has overwritten another
\* (OAuthStateStore.update, invalidateCredentials).
StoredTokenIsLive == file.tokens # None =>
  \/ file.tokens.refresh \in live
  \/ \E p \in Procs : SuccessorOf(file.tokens, p)
  \/ clobbered

\* Every command and every refresh of the dashboard ends, and none keeps the callback
\* port: no callback that never comes, no browser that cannot be opened, no attempt
\* begun when nobody waits for its code, and no rejection is waited for for ever
\* (OAuthCallbackListener.start, connectOrbioMcp).
EveryCommandEnds ==
  <>[](listener = None /\ \A p \in Procs : proc[p].pc \notin Busy)
=============================================================================
