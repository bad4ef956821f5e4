------------------------- MODULE OAuthSessionProofs -------------------------
(***************************************************************************)
(* The local session with Orbio, for every number of commands, dashboards, *)
(* logouts and faults.                                                     *)
(*                                                                         *)
(* OrderInv is about the order of a process's calls: what it has in its    *)
(* hands at each (Orderly), and how many tokens it may still obtain        *)
(* (Slots).  TokenInv is about the tokens stored, held or about to be      *)
(* stored: which of them Orbio accepts.  A call changes one process, and   *)
(* the lemmas before the calls' own say when that keeps either.            *)
(***************************************************************************)
EXTENDS OAuthSession, FiniteSetTheorems, TLAPS

\* A process is at a call, or will be once it has written.
Due(r, at) == r.pc = at \/ (r.pc = "write" /\ r.next = at)

Waiting == {"launch", "wait", "lingers"}

\* What a process at a call has in its hands.
Orderly(p, r) ==
  /\ r.authorized => Due(r, "request")
  /\ r.pc = "write" =>
       r.next \in {"done", "request", "client", "tokens", "finish", "verifier", "redirect"}
  /\ r.pc \in {"wait", "exchange"} \/ Due(r, "finish") => r.phase = "connect"
  /\ r.pc = "exchange" \/ Due(r, "finish") => r.code # None
  /\ r.pc = "exchange" => r.client # None
  /\ r.pc = "refresh" => r.tokens # None
  /\ r.pc \in {"refresh", "state", "launch"}
       \/ (\E at \in {"tokens", "verifier", "redirect"} : Due(r, at))
       => r.client # None
  /\ r.pc \in Waiting => p \in Commands
  /\ r.code # None => r.code.attempt \in Commands

\* How many tokens a process may still obtain.
Left(r) == IF r.pc \in Ended THEN 0
           ELSE (IF r.phase = "connect" THEN 3 ELSE IF r.phase = "reconnect" THEN 2 ELSE 1)
                - (IF r.authorized THEN 1 ELSE 0)

Slots == {s \in Procs \X (1..3) : s[2] <= Left(proc[s[1]])}

OrderInv == /\ \A p \in Procs : Orderly(p, proc[p])
            /\ listener # None => listener \in Procs /\ proc[listener].pc \in Waiting
            /\ \A page \in shown : page.attempt \in Commands
            /\ issued + Cardinality(Slots) <= MaxTokens

\* The tokens that are stored, read, or about to be stored.
Known(t) == /\ t # None
            /\ t = file.tokens \/ \E p \in Procs : t \in {proc[p].tokens, proc[p].doc.tokens}

\* They were issued; each refresh token to one client; and, unless Orbio replaces
\* them, all are accepted.
Numbered  == \A t \in Tokens : Known(t) => t.refresh <= issued
OneClient == rotates => \A t, u \in Tokens :
               Known(t) /\ Known(u) /\ t.refresh = u.refresh => t.client = u.client
Kept      == ~rotates => \A t \in Tokens : Known(t) => t.refresh \in live

\* No process is about to use a refresh token.
Unheld(n) == \A p \in Procs : proc[p].tokens # None => proc[p].tokens.refresh # n

\* Where Orbio replaces refresh tokens, the successor of stored ones is with a process
\* that stores it, and nobody else can use it up until then.
FileInv == rotates /\ file.tokens # None =>
  \/ file.tokens.refresh \in live
  \/ clobbered
  \/ \E p \in Procs : SuccessorOf(file.tokens, p) /\ Unheld(proc[p].doc.tokens.refresh)

\* What is about to be written over the file as it was read has the tokens that are
\* there, or new ones.
WriterInv == rotates => \A p \in Procs :
  At(p, "write") /\ ~proc[p].stale /\ proc[p].doc.tokens \notin {None, file.tokens} =>
    LET n == proc[p].doc.tokens.refresh
    IN n \in live /\ Unheld(n) /\ (file.tokens # None => file.tokens.refresh # n)

TokenInv == Numbered /\ OneClient /\ Kept /\ FileInv /\ WriterInv

IInv == TypeOK /\ OrderInv /\ TokenInv

LEMMA LeftType ==
  ASSUME NEW r \in Processes
  PROVE  Left(r) \in 0..3
BY DEF Left, Processes

LEMMA SlotsFinite ==
  ASSUME TypeOK
  PROVE  IsFiniteSet(Slots) /\ Cardinality(Slots) \in Nat
<1>1. IsFiniteSet(1..3)
  BY FS_Interval, 1 \in Int, 3 \in Int, Zenon
<1>2. IsFiniteSet(Procs \X (1..3))
  BY <1>1, OAuthAssumption, FS_Product
<1>3. Slots \in SUBSET (Procs \X (1..3))
  BY DEF Slots
<1> QED BY <1>2, <1>3, FS_Subset, FS_CardinalityType

LEMMA BoundType == MaxTokens \in Nat
BY OAuthAssumption, FS_CardinalityType DEF MaxTokens

\* A process that may obtain no more tokens than before, or fewer.
LEMMA SlotsShrink ==
  ASSUME TypeOK, NEW p \in Procs, NEW x \in Processes, proc' = [proc EXCEPT ![p] = x],
         Left(x) <= Left(proc[p])
  PROVE  /\ Cardinality(Slots') \in Nat /\ Cardinality(Slots') <= Cardinality(Slots)
         /\ Left(x) < Left(proc[p]) => Cardinality(Slots') < Cardinality(Slots)
<1>1. /\ Left(x) \in 0..3 /\ Left(proc[p]) \in 0..3
      /\ \A q \in Procs : proc'[q] = IF q = p THEN x ELSE proc[q]
  BY LeftType DEF TypeOK
<1>2. Slots' \subseteq Slots
  BY <1>1 DEF Slots
<1>3. Cardinality(Slots') \in Nat /\ Cardinality(Slots') <= Cardinality(Slots)
  BY <1>2, SlotsFinite, FS_Subset, FS_CardinalityType
<1>4. ASSUME Left(x) < Left(proc[p])
      PROVE  Cardinality(Slots') < Cardinality(Slots)
  <2> DEFINE s == <<p, Left(proc[p])>>
  <2>1. s \in Slots
    BY <1>1, <1>4 DEF Slots
  <2>2. s \notin Slots'
    BY <1>1, <1>4 DEF Slots
  <2>3. Slots' \subseteq Slots \ {s}
    BY <1>2, <2>2
  <2>4. IsFiniteSet(Slots \ {s}) /\ Cardinality(Slots \ {s}) = Cardinality(Slots) - 1
    BY <2>1, SlotsFinite, FS_RemoveElement
  <2>5. Cardinality(Slots') <= Cardinality(Slots \ {s})
    BY <2>3, <2>4, FS_Subset
  <2> QED BY <1>3, <2>4, <2>5, SlotsFinite
<1> QED BY <1>3, <1>4

LEMMA KnownTypes ==
  ASSUME TypeOK, NEW t, Known(t)
  PROVE  t \in Tokens
BY DEF TypeOK, Known, Processes, Documents

\* What has been handed to the file is now what a process may write.
Draft(p, x) ==
  \/ proc[p].pc \notin {"write", "died"} /\ x.pc = "write" /\ x.doc.tokens \in {None, file.tokens}
  \/ proc[p].pc \notin {"write", "died"} /\ x.pc # "write" /\ x.doc.tokens \in {None, proc[p].doc.tokens}
  \/ proc[p].pc = "write" /\ x.pc = "died" /\ x.doc = proc[p].doc

\* Who listens after a step of p.
Listens(p, x) == \/ listener' = None
                 \/ listener' = listener /\ (listener = p => x.pc \in Waiting)
                 \/ listener' = p /\ x.pc \in Waiting

\* A step that neither writes nor obtains tokens.
LEMMA QuietKeeps ==
  ASSUME IInv, NEW p \in Procs, NEW x \in Processes, proc' = [proc EXCEPT ![p] = x],
         UNCHANGED <<disk, tokens>>, faults' \in 0..MaxFaults, Listens(p, x),
         shown' \subseteq Pages, \A page \in shown' : page.attempt \in Commands,
         Orderly(p, x), Left(x) <= Left(proc[p]),
         x.tokens \in {None, proc[p].tokens, file.tokens}, Draft(p, x)
  PROVE  IInv'
<1> USE DEF IInv
<1>1. /\ \A q \in Procs : proc'[q] = IF q = p THEN x ELSE proc[q]
      /\ file' = file /\ clobbered' = clobbered
      /\ UNCHANGED <<rotates, issued, valid, live, redeemed>>
  BY DEF TypeOK, disk, tokens
<1>2. proc' \in [Procs -> Processes]
  BY DEF TypeOK
<1>3. listener' # None => listener' \in Commands /\ proc'[listener'].pc \in Waiting
  BY <1>1 DEF Listens, OrderInv, Orderly, TypeOK, Procs
<1>4. TypeOK'
  BY <1>1, <1>2, <1>3 DEF TypeOK, Waiting, Busy
<1>5. OrderInv'
  <2>1. \A q \in Procs : Orderly(q, proc'[q])
    BY <1>1 DEF OrderInv
  <2>2. issued' + Cardinality(Slots') <= MaxTokens
    <3>1. /\ Cardinality(Slots) \in Nat /\ Cardinality(Slots') \in Nat
          /\ Cardinality(Slots') <= Cardinality(Slots)
      BY SlotsShrink, SlotsFinite
    <3>2. issued + Cardinality(Slots) <= MaxTokens /\ issued \in Nat
      BY DEF OrderInv, TypeOK
    <3> QED BY <1>1, <3>1, <3>2, BoundType
  <2> QED BY <1>3, <2>1, <2>2 DEF OrderInv, Procs
<1>6. \A t : Known(t)' => Known(t)
  BY <1>1 DEF Known, Draft
<1>7. Numbered' /\ OneClient' /\ Kept'
  BY <1>1, <1>6 DEF TokenInv, Numbered, OneClient, Kept
<1>8. FileInv'
  <2> SUFFICES ASSUME rotates, file.tokens # None, file.tokens.refresh \notin live, ~clobbered
               PROVE  \E q \in Procs : /\ SuccessorOf(file.tokens, q)'
                                       /\ Unheld(proc[q].doc.tokens.refresh)'
    BY <1>1 DEF FileInv
  <2>1. PICK q \in Procs : SuccessorOf(file.tokens, q) /\ Unheld(proc[q].doc.tokens.refresh)
    BY DEF TokenInv, FileInv
  <2>2. proc'[q].doc = proc[q].doc /\ proc'[q].pc \in {"write", "died"}
    BY <1>1, <2>1 DEF SuccessorOf, At, Draft
  <2>3. SuccessorOf(file.tokens, q)'
    BY <1>1, <2>1, <2>2 DEF SuccessorOf, At
  <2>4. proc[q].doc.tokens.refresh \in live
    BY <2>1 DEF SuccessorOf
  <2>5. Unheld(proc[q].doc.tokens.refresh)'
    BY <1>1, <2>1, <2>2, <2>4 DEF Unheld
  <2> QED BY <2>3, <2>5
<1>9. WriterInv'
  <2> SUFFICES ASSUME rotates, NEW q \in Procs, proc'[q].pc = "write", ~proc'[q].stale,
                      proc'[q].doc.tokens \notin {None, file.tokens}
               PROVE  LET n == proc'[q].doc.tokens.refresh
                      IN /\ n \in live
                         /\ \A r \in Procs : proc'[r].tokens # None => proc'[r].tokens.refresh # n
                         /\ (file.tokens # None => file.tokens.refresh # n)
    BY <1>1 DEF WriterInv, At, Unheld
  <2>1. proc'[q] = proc[q]
    BY <1>1 DEF Draft
  <2>2. LET n == proc[q].doc.tokens.refresh
        IN n \in live /\ Unheld(n) /\ (file.tokens # None => file.tokens.refresh # n)
    BY <2>1 DEF TokenInv, WriterInv, At
  <2> QED BY <1>1, <2>1, <2>2 DEF Unheld
<1> QED BY <1>4, <1>5, <1>7, <1>8, <1>9 DEF TokenInv

\* Orbio issues tokens to p, which is about to store them; it accepts the old ones no
\* longer at most.
LEMMA IssueKeeps ==
  ASSUME IInv, NEW p \in Procs, NEW x \in Processes, NEW new \in Tokens,
         proc' = [proc EXCEPT ![p] = x],
         UNCHANGED <<disk, listener, rotates, shown, faults>>, redeemed' \subseteq Commands,
         issued' = issued + 1, valid' \subseteq 1..issued', live' \subseteq 1..issued',
         new.refresh \in live', ~rotates => live \subseteq live',
         rotates => /\ new.refresh = issued + 1
                    /\ \A n \in live \ live' : /\ proc[p].tokens # None
                                               /\ proc[p].tokens.refresh = n
                                               /\ proc[p].tokens.client = new.client,
         proc[p].pc \notin {"write", "died"} \cup Waiting,
         x.pc = "write", x.tokens = None, x.doc.tokens = new, new # None,
         Orderly(p, x), Left(x) < Left(proc[p])
  PROVE  IInv'
<1> USE DEF IInv
<1>1. /\ \A q \in Procs : proc'[q] = IF q = p THEN x ELSE proc[q]
      /\ file' = file /\ clobbered' = clobbered
  BY DEF TypeOK, disk
<1>2. proc' \in [Procs -> Processes] /\ issued \in Nat
  BY DEF TypeOK
<1>3. Left(x) <= Left(proc[p])
  BY LeftType DEF TypeOK
<1>4. issued' + Cardinality(Slots') <= MaxTokens /\ issued' \in 0..MaxTokens
  <2>1. /\ Cardinality(Slots) \in Nat /\ Cardinality(Slots') \in Nat
        /\ Cardinality(Slots') < Cardinality(Slots)
    BY <1>3, SlotsShrink, SlotsFinite
  <2>2. issued + Cardinality(Slots) <= MaxTokens
    BY DEF OrderInv
  <2> QED BY <1>2, <2>1, <2>2, BoundType
<1>5. listener' # None => listener' \in Procs /\ proc'[listener'].pc \in Waiting
  BY <1>1 DEF OrderInv
<1>6. TypeOK'
  BY <1>1, <1>2, <1>4, <1>5 DEF TypeOK, Waiting, Busy
<1>7. OrderInv'
  <2>1. \A q \in Procs : Orderly(q, proc'[q])
    BY <1>1 DEF OrderInv
  <2> QED BY <1>4, <1>5, <2>1 DEF OrderInv
<1>8. \A t : Known(t)' => Known(t) \/ t = new
  BY <1>1 DEF Known
<1>9. \A t : Known(t) => t \in Tokens /\ t.refresh \in 1..issued
  <2>1. \A t \in Tokens : t.refresh \in Nat /\ t.refresh >= 1
    BY BoundType DEF Tokens
  <2> QED BY <2>1, <1>2, KnownTypes DEF TokenInv, Numbered
<1>10. new.refresh <= issued + 1 /\ new.refresh \in Nat
  <2>1. new.refresh \in 1..(issued + 1)
    OBVIOUS
  <2> QED BY <2>1, <1>2
<1>11. Numbered'
  BY <1>2, <1>8, <1>9, <1>10 DEF Numbered
<1>12. OneClient'
  BY <1>2, <1>8, <1>9 DEF TokenInv, OneClient
<1>13. Kept'
  BY <1>8 DEF TokenInv, Kept
<1>14. ASSUME rotates
       PROVE  Unheld(new.refresh)'
  <2>1. ASSUME NEW q \in Procs, proc'[q].tokens # None
        PROVE  proc'[q].tokens.refresh # new.refresh
    <3>1. q # p /\ proc'[q] = proc[q]
      BY <1>1, <2>1
    <3>2. Known(proc[q].tokens)
      BY <2>1, <3>1 DEF Known
    <3> QED BY <1>2, <1>9, <1>14, <3>1, <3>2
  <2> QED BY <2>1 DEF Unheld
\* A token that nobody is about to use stays accepted, and unused.
<1>15. ASSUME rotates, NEW n \in live, Unheld(n)
       PROVE  n \in live' /\ \A q \in Procs : proc'[q].tokens # None => proc'[q].tokens.refresh # n
  BY <1>1, <1>15 DEF Unheld
<1>16. FileInv'
  <2> SUFFICES ASSUME rotates, file.tokens # None, file.tokens.refresh \notin live', ~clobbered
               PROVE  \E q \in Procs : /\ SuccessorOf(file.tokens, q)'
                                       /\ Unheld(proc[q].doc.tokens.refresh)'
    BY <1>1 DEF FileInv
  <2>1. CASE file.tokens.refresh \in live
    <3>1. proc[p].tokens # None /\ proc[p].tokens.refresh = file.tokens.refresh
          /\ proc[p].tokens.client = new.client
      BY <2>1
    <3>2. Known(file.tokens) /\ Known(proc[p].tokens)
      BY <3>1 DEF Known
    <3>3. file.tokens.client = new.client
      BY <1>9, <3>1, <3>2 DEF TokenInv, OneClient
    <3>4. SuccessorOf(file.tokens, p)'
      BY <1>1, <3>3 DEF SuccessorOf, At
    <3>5. Unheld(proc[p].doc.tokens.refresh)'
      BY <1>1, <1>14 DEF Unheld
    <3> QED BY <3>4, <3>5
  <2>2. CASE file.tokens.refresh \notin live
    <3>1. PICK q \in Procs : SuccessorOf(file.tokens, q) /\ Unheld(proc[q].doc.tokens.refresh)
      BY <2>2 DEF TokenInv, FileInv
    <3>2. q # p /\ proc'[q] = proc[q]
      BY <1>1, <3>1 DEF SuccessorOf, At
    <3>3. proc[q].doc.tokens.refresh \in live
      BY <3>1 DEF SuccessorOf
    <3>4. SuccessorOf(file.tokens, q)'
      BY <1>1, <1>15, <3>1, <3>2, <3>3 DEF SuccessorOf, At
    <3>5. Unheld(proc[q].doc.tokens.refresh)'
      BY <1>15, <3>1, <3>2, <3>3 DEF Unheld
    <3> QED BY <3>4, <3>5
  <2> QED BY <2>1, <2>2
<1>17. WriterInv'
  <2> SUFFICES ASSUME rotates, NEW q \in Procs, proc'[q].pc = "write", ~proc'[q].stale,
                      proc'[q].doc.tokens \notin {None, file.tokens}
               PROVE  LET n == proc'[q].doc.tokens.refresh
                      IN /\ n \in live'
                         /\ \A r \in Procs : proc'[r].tokens # None => proc'[r].tokens.refresh # n
                         /\ (file.tokens # None => file.tokens.refresh # n)
    BY <1>1 DEF WriterInv, At, Unheld
  <2>1. CASE q = p
    <3>1. proc'[q].doc.tokens.refresh = new.refresh /\ new.refresh = issued + 1
      BY <1>1, <2>1
    <3>2. file.tokens # None => file.tokens.refresh # new.refresh
      BY <1>2, <1>9, <3>1 DEF Known
    <3> QED BY <1>14, <3>1, <3>2 DEF Unheld
  <2>2. CASE q # p
    <3>1. proc'[q] = proc[q]
      BY <1>1, <2>2
    <3>2. LET n == proc[q].doc.tokens.refresh
          IN n \in live /\ Unheld(n) /\ (file.tokens # None => file.tokens.refresh # n)
      BY <3>1 DEF TokenInv, WriterInv, At
    <3> QED BY <1>15, <3>1, <3>2
  <2> QED BY <2>1, <2>2
<1> QED BY <1>6, <1>7, <1>11, <1>12, <1>13, <1>16, <1>17 DEF TokenInv
-----------------------------------------------------------------------------
\* The write of a process replaces the file; the others that are about to write have
\* then read an older one.
LEMMA WriteKeeps ==
  ASSUME IInv, NEW p \in Procs, Write(p)
  PROVE  IInv'
<1> USE DEF IInv
<1> DEFINE doc == proc[p].doc
           x == IF proc[p].next \in Ended THEN [Fresh EXCEPT !.pc = proc[p].next]
                ELSE [proc[p] EXCEPT !.pc = proc[p].next, !.doc = NoDocument,
                                     !.next = "done", !.stale = FALSE]
           Passed(q) == IF At(q, "write") THEN [proc[q] EXCEPT !.stale = TRUE] ELSE proc[q]
<1>1. /\ proc[p].pc = "write" /\ proc[p] \in Processes /\ doc \in Documents
      /\ file' = doc
      /\ UNCHANGED <<listener, rotates, issued, valid, live, redeemed, shown, faults>>
      /\ clobbered' = (/\ doc.tokens # None
                       /\ proc[p].stale \/ (clobbered /\ doc.tokens = file.tokens))
  BY DEF Write, At, tokens, TypeOK, Processes
<1>2. proc' = [q \in Procs |-> IF q = p THEN x ELSE Passed(q)]
  BY DEF Write
<1>3. NoDocument \in Documents /\ NoDocument.tokens = None
  BY DEF NoDocument, Documents
<1>4. proc[p].next \in {"done", "request", "client", "tokens", "finish", "verifier", "redirect"}
  BY <1>1 DEF OrderInv, Orderly
<1>5. x \in Processes /\ x.doc.tokens = None /\ x.pc = proc[p].next
      /\ (x.tokens = None \/ x.tokens = proc[p].tokens)
  <2>1. CASE proc[p].next \in Ended
    <3>1. x = [Fresh EXCEPT !.pc = proc[p].next]
      BY <2>1
    <3> HIDE DEF x
    <3> QED BY <1>3, <2>1, <3>1 DEF Fresh, Processes, Phases, Busy, Ended
  <2>2. CASE proc[p].next \notin Ended
    <3>1. x = [proc[p] EXCEPT !.pc = proc[p].next, !.doc = NoDocument,
                              !.next = "done", !.stale = FALSE]
      BY <2>2
    <3>2. proc[p].next \in Busy \cup Ended /\ "done" \in Busy \cup Ended
      BY <1>1 DEF Processes, Ended
    <3> HIDE DEF x
    <3> QED BY <1>1, <1>3, <2>2, <3>1, <3>2 DEF Processes
  <2> QED BY <2>1, <2>2
<1>6. Orderly(p, x) /\ Left(x) <= Left(proc[p])
  <2>1. CASE proc[p].next \in Ended
    <3>1. x = [Fresh EXCEPT !.pc = proc[p].next]
      BY <2>1
    <3>2. x.pc \in Ended /\ x.authorized = FALSE /\ x.code = None
      BY <2>1, <3>1 DEF Fresh
    <3> HIDE DEF x
    <3> QED BY <1>1, <3>2, LeftType DEF Orderly, Due, Left, Ended, Waiting
  <2>2. CASE proc[p].next \notin Ended
    <3>1. x = [proc[p] EXCEPT !.pc = proc[p].next, !.doc = NoDocument,
                              !.next = "done", !.stale = FALSE]
      BY <2>2
    <3>2. /\ x.pc = proc[p].next /\ x.phase = proc[p].phase /\ x.authorized = proc[p].authorized
          /\ x.code = proc[p].code /\ x.client = proc[p].client
      BY <1>1, <3>1 DEF Processes
    <3>3. Orderly(p, proc[p])
      BY DEF OrderInv
    <3> HIDE DEF x
    <3>4. Left(x) = Left(proc[p])
      BY <1>1, <2>2, <3>2 DEF Left, Ended
    <3>5. Orderly(p, x)
      BY <1>1, <1>4, <2>2, <3>2, <3>3 DEF Orderly, Due, Waiting, Ended
    <3> QED BY <1>1, <3>4, <3>5, LeftType
  <2> QED BY <2>1, <2>2
<1>7. ASSUME NEW q \in Procs
      PROVE  /\ Passed(q) \in Processes
             /\ Passed(q).pc = proc[q].pc /\ Passed(q).doc = proc[q].doc
             /\ Passed(q).tokens = proc[q].tokens /\ Left(Passed(q)) = Left(proc[q])
             /\ Orderly(q, proc[q]) => Orderly(q, Passed(q))
             /\ proc[q].pc = "write" => Passed(q).stale = TRUE
  <2>1. proc[q] \in Processes
    BY DEF TypeOK
  <2>2. CASE At(q, "write")
    <3>1. Passed(q) = [proc[q] EXCEPT !.stale = TRUE]
      BY <2>2
    <3>2. /\ Passed(q) \in Processes /\ Passed(q).stale = TRUE
          /\ Passed(q).pc = proc[q].pc /\ Passed(q).doc = proc[q].doc
          /\ Passed(q).tokens = proc[q].tokens /\ Passed(q).phase = proc[q].phase
          /\ Passed(q).authorized = proc[q].authorized /\ Passed(q).next = proc[q].next
          /\ Passed(q).code = proc[q].code /\ Passed(q).client = proc[q].client
      BY <2>1, <3>1 DEF Processes
    <3> HIDE DEF Passed
    <3> QED BY <3>2 DEF Left, Orderly, Due
  <2>3. CASE ~At(q, "write")
    BY <2>1, <2>3 DEF At
  <2> QED BY <2>2, <2>3
<1> HIDE DEF x, Passed
<1>8. /\ proc'[p] = x
      /\ \A q \in Procs : q # p => proc'[q] = Passed(q)
  BY <1>2
<1>9. proc' \in [Procs -> Processes]
  BY <1>2, <1>5, <1>7
<1>10. listener # None => listener # p /\ listener \in Procs /\ proc'[listener].pc \in Waiting
  BY <1>1, <1>7, <1>8 DEF OrderInv, Waiting
<1>11. TypeOK'
  BY <1>1, <1>9, <1>10 DEF TypeOK, Waiting, Busy
<1>12. OrderInv'
  <2>1. \A q \in Procs : Orderly(q, proc'[q])
    BY <1>6, <1>7, <1>8 DEF OrderInv
  <2>2. issued' + Cardinality(Slots') <= MaxTokens
    <3>1. \A q \in Procs : Left(proc'[q]) \in 0..3 /\ Left(proc[q]) \in 0..3
                             /\ Left(proc'[q]) <= Left(proc[q])
      <4> SUFFICES ASSUME NEW q \in Procs
                   PROVE  /\ Left(proc'[q]) \in 0..3 /\ Left(proc[q]) \in 0..3
                          /\ Left(proc'[q]) <= Left(proc[q])
        OBVIOUS
      <4>1. Left(proc'[q]) \in 0..3 /\ Left(proc[q]) \in 0..3
        BY <1>9, LeftType DEF TypeOK
      <4>2. CASE q = p
        BY <1>6, <1>8, <4>1, <4>2
      <4>3. CASE q # p
        <5>1. Left(proc'[q]) = Left(proc[q])
          BY <1>7, <1>8, <4>3
        <5> QED BY <4>1, <5>1
      <4> QED BY <4>1, <4>2, <4>3
    <3>2. Slots' \subseteq Slots
      BY <3>1 DEF Slots
    <3>3. /\ Cardinality(Slots) \in Nat /\ Cardinality(Slots') \in Nat
          /\ Cardinality(Slots') <= Cardinality(Slots)
      BY <3>2, SlotsFinite, FS_Subset, FS_CardinalityType
    <3>4. issued + Cardinality(Slots) <= MaxTokens /\ issued \in Nat
      BY DEF OrderInv, TypeOK
    <3> QED BY <1>1, <3>3, <3>4, BoundType
  <2> QED BY <1>1, <1>10, <2>1, <2>2 DEF OrderInv
<1>13. \A t : Known(t)' => Known(t)
  <2> SUFFICES ASSUME NEW t, Known(t)' PROVE Known(t)
    OBVIOUS
  <2>1. CASE t = doc.tokens
    BY <2>1 DEF Known
  <2>2. CASE \E q \in Procs : t \in {proc'[q].tokens, proc'[q].doc.tokens}
    BY <1>5, <1>7, <1>8, <2>2 DEF Known
  <2> QED BY <1>1, <2>1, <2>2 DEF Known
<1>14. Numbered' /\ OneClient' /\ Kept'
  BY <1>1, <1>13 DEF TokenInv, Numbered, OneClient, Kept
<1>15. ASSUME NEW n, Unheld(n)
       PROVE  \A q \in Procs : proc'[q].tokens # None => proc'[q].tokens.refresh # n
  BY <1>5, <1>7, <1>8, <1>15 DEF Unheld
<1>16. FileInv'
  <2> SUFFICES ASSUME rotates, doc.tokens # None, doc.tokens.refresh \notin live,
                      ~proc[p].stale, ~(clobbered /\ doc.tokens = file.tokens)
               PROVE  \E q \in Procs :
                        LET t == proc'[q].doc.tokens
                        IN /\ proc'[q].pc \in {"write", "died"} /\ t # None
                           /\ t.client = doc.tokens.client /\ t.refresh \in live
                           /\ \A r \in Procs : proc'[r].tokens # None => proc'[r].tokens.refresh # t.refresh
    BY <1>1 DEF FileInv, SuccessorOf, At, Unheld
  <2>1. doc.tokens = file.tokens
    BY <1>1 DEF TokenInv, WriterInv, At
  <2>2. PICK q \in Procs : SuccessorOf(doc.tokens, q) /\ Unheld(proc[q].doc.tokens.refresh)
    BY <2>1 DEF TokenInv, FileInv
  <2>3. q # p
    BY <2>2 DEF SuccessorOf
  <2>4. proc'[q].pc = proc[q].pc /\ proc'[q].doc = proc[q].doc
    BY <1>7, <1>8, <2>3
  <2>5. /\ proc'[q].pc \in {"write", "died"} /\ proc'[q].doc.tokens # None
        /\ proc'[q].doc.tokens.client = doc.tokens.client
        /\ proc'[q].doc.tokens.refresh \in live
    BY <1>1, <2>2, <2>4 DEF SuccessorOf, At
  <2>6. \A r \in Procs : proc'[r].tokens # None => proc'[r].tokens.refresh # proc'[q].doc.tokens.refresh
    BY <1>15, <2>2, <2>4
  <2> QED BY <2>5, <2>6
<1>17. WriterInv'
  <2> SUFFICES ASSUME NEW q \in Procs, proc'[q].pc = "write", ~proc'[q].stale
               PROVE  FALSE
    BY DEF WriterInv, At
  <2>1. q # p
    BY <1>4, <1>5, <1>8
  <2> QED BY <1>7, <1>8, <2>1
<1> QED BY <1>11, <1>12, <1>14, <1>16, <1>17 DEF TokenInv
-----------------------------------------------------------------------------
\* A process ends: what it had in its hands is gone.
LEMMA EndKeeps ==
  ASSUME IInv, NEW p \in Procs, NEW outcome \in {"done", "failed"}, End(p, outcome),
         proc[p].pc \notin {"write", "died"}, UNCHANGED <<disk, tokens, shown>>,
         faults' \in 0..MaxFaults
  PROVE  IInv'
<1> DEFINE x == [Fresh EXCEPT !.pc = outcome]
<1>1. /\ x \in Processes /\ x.pc = outcome /\ x.tokens = None /\ x.doc.tokens = None
      /\ ~x.authorized /\ x.code = None
  BY DEF Fresh, Processes, Phases, Busy, Ended, NoDocument, Documents
<1>2. proc' = [proc EXCEPT ![p] = x]
  BY DEF End
<1>3. Listens(p, x)
  BY DEF End, Listens
<1>4. shown' \subseteq Pages /\ \A page \in shown' : page.attempt \in Commands
  BY DEF IInv, TypeOK, OrderInv
<1> HIDE DEF x
<1>5. Orderly(p, x) /\ Draft(p, x)
  BY <1>1 DEF Orderly, Due, Waiting, Draft
<1>6. Left(x) <= Left(proc[p])
  BY <1>1, LeftType DEF Left, Ended, IInv, TypeOK
<1> QED BY <1>1, <1>2, <1>3, <1>4, <1>5, <1>6, QuietKeeps

\* A process goes on to another call, and to no update; it may have read or dropped
\* tokens meanwhile.
LEMMA GoesOn ==
  ASSUME IInv, NEW p \in Procs, NEW x \in Processes, proc' = [proc EXCEPT ![p] = x],
         proc[p].pc \notin {"write"} \cup Ended, x.pc # "write", x.doc = proc[p].doc,
         x.tokens \in {None, proc[p].tokens, file.tokens},
         UNCHANGED <<disk, tokens, faults>>, Listens(p, x),
         shown' \subseteq Pages, \A page \in shown' : page.attempt \in Commands,
         Orderly(p, x), Left(x) <= Left(proc[p])
  PROVE  IInv'
<1>1. Draft(p, x)
  BY DEF Draft, Ended
<1>2. faults' \in 0..MaxFaults
  BY DEF IInv, TypeOK
<1> QED BY <1>1, <1>2, QuietKeeps

\* A record as an update leaves it, whatever client and retry it has.
Drafts(p, x, document, next) ==
  /\ x.pc = "write" /\ x.doc = document /\ x.next = next /\ x.tokens = None
  /\ x.phase = proc[p].phase /\ x.authorized = proc[p].authorized /\ x.code = proc[p].code

LEMMA UpdateIs ==
  ASSUME TypeOK, NEW p \in Procs, NEW document \in Documents, NEW next \in Busy \cup Ended
  PROVE  LET u == Update(p, document, next)
         IN /\ u \in Processes /\ Drafts(p, u, document, next) /\ u.client = proc[p].client
            /\ LET v == [u EXCEPT !.client = p]
               IN v \in Processes /\ Drafts(p, v, document, next) /\ v.client = p
            /\ LET v == [u EXCEPT !.retried = TRUE]
               IN /\ v \in Processes /\ Drafts(p, v, document, next)
                  /\ v.client = proc[p].client
<1> DEFINE u == Update(p, document, next)
<1>1. proc[p] \in Processes
  BY DEF TypeOK
<1>2. u \in Processes /\ Drafts(p, u, document, next) /\ u.client = proc[p].client
  <2>1. u = [proc[p] EXCEPT !.pc = "write", !.doc = document, !.next = next, !.tokens = None]
    BY DEF Update
  <2>2. "write" \in Busy
    BY DEF Busy
  <2> HIDE DEF u
  <2>3. u \in Processes
    BY <1>1, <2>1, <2>2 DEF Processes
  <2>4. Drafts(p, u, document, next) /\ u.client = proc[p].client
    BY <1>1, <2>1 DEF Drafts, Processes
  <2> QED BY <2>3, <2>4
<1> HIDE DEF u
<1>3. LET v == [u EXCEPT !.client = p]
      IN v \in Processes /\ Drafts(p, v, document, next) /\ v.client = p
  BY <1>2 DEF Drafts, Processes
<1>4. LET v == [u EXCEPT !.retried = TRUE]
      IN /\ v \in Processes /\ Drafts(p, v, document, next)
         /\ v.client = proc[p].client
  BY <1>2 DEF Drafts, Processes
<1> QED BY <1>2, <1>3, <1>4 DEF u

\* A process has read the file, and is about to write it with its tokens or none.
LEMMA UpdateKeeps ==
  ASSUME IInv, NEW p \in Procs, NEW x \in Processes, NEW document \in Documents,
         document.tokens \in {None, file.tokens},
         NEW next \in {"done", "client", "tokens", "finish", "verifier", "redirect"},
         Drafts(p, x, document, next), proc' = [proc EXCEPT ![p] = x],
         proc[p].pc \notin {"write", "request"} \cup Ended \cup Waiting,
         next = "finish" => proc[p].phase = "connect" /\ proc[p].code # None,
         next \in {"tokens", "verifier", "redirect"} => x.client # None,
         UNCHANGED <<disk, tokens, listener, shown>>, faults' \in 0..MaxFaults
  PROVE  IInv'
<1>1. Orderly(p, proc[p])
  BY DEF IInv, OrderInv
<1>2. Orderly(p, x)
  BY <1>1 DEF Orderly, Due, Waiting, Drafts
<1>3. Left(x) <= Left(proc[p])
  <2>1. Left(x) = Left(proc[p])
    BY DEF Left, Ended, Drafts
  <2> QED BY <2>1, LeftType
<1>4. Draft(p, x)
  BY DEF Draft, Drafts, Ended
<1>5. Listens(p, x)
  <2>1. listener # p
    BY OAuthAssumption DEF IInv, OrderInv
  <2> QED BY <2>1 DEF Listens
<1>6. shown' \subseteq Pages /\ \A page \in shown' : page.attempt \in Commands
  BY DEF IInv, OrderInv, TypeOK
<1> QED BY <1>2, <1>3, <1>4, <1>5, <1>6, QuietKeeps DEF Drafts
-----------------------------------------------------------------------------
\* Only the call, and what is named, changes.
LEMMA BeginKeeps ==
  ASSUME IInv, NEW p \in Procs, Begin(p)
  PROVE  IInv'
<1> DEFINE x == [proc[p] EXCEPT !.pc = "request"]
<1>1. proc[p] \in Processes /\ proc[p].pc = "idle" /\ Orderly(p, proc[p])
  BY DEF Begin, At, IInv, TypeOK, OrderInv
<1>2. /\ x \in Processes /\ x.pc = "request" /\ x.doc = proc[p].doc /\ x.tokens = proc[p].tokens
      /\ x.phase = proc[p].phase /\ x.authorized = proc[p].authorized /\ x.code = proc[p].code
  BY <1>1 DEF Processes, Busy
<1>3. proc' = [proc EXCEPT ![p] = x] /\ UNCHANGED <<disk, listener, tokens, shown, faults>>
  BY DEF Begin
<1> HIDE DEF x
<1>4. Orderly(p, x)
  BY <1>1, <1>2 DEF Orderly, Due, Waiting
<1>5. Left(x) <= Left(proc[p])
  <2>1. Left(x) = Left(proc[p])
    BY <1>1, <1>2 DEF Left, Ended
  <2> QED BY <1>1, <2>1, LeftType
<1>6. Listens(p, x) /\ shown' \subseteq Pages /\ \A page \in shown' : page.attempt \in Commands
  BY <1>1, <1>3, OAuthAssumption DEF Listens, IInv, OrderInv, TypeOK, Waiting
<1> QED BY <1>1, <1>2, <1>3, <1>4, <1>5, <1>6, GoesOn DEF Ended

LEMMA LogoutKeeps ==
  ASSUME IInv, NEW p \in Procs, Logout(p)
  PROVE  IInv'
<1> DEFINE x == Update(p, NoDocument, "done")
<1>1. NoDocument \in Documents /\ NoDocument.tokens = None /\ "done" \in Busy \cup Ended
  BY DEF NoDocument, Documents, Ended
<1>2. x \in Processes /\ Drafts(p, x, NoDocument, "done")
  BY <1>1, UpdateIs DEF IInv
<1>3. /\ proc' = [proc EXCEPT ![p] = x] /\ proc[p].pc = "idle"
      /\ UNCHANGED <<disk, tokens, listener, shown>> /\ faults' \in 0..MaxFaults
  BY DEF Logout, At, IInv, TypeOK
<1> HIDE DEF x
<1> QED BY <1>1, <1>2, <1>3, UpdateKeeps DEF Ended, Waiting

LEMMA RequestKeeps ==
  ASSUME IInv, NEW p \in Procs, Request(p)
  PROVE  IInv'
<1>1. proc[p] \in Processes /\ proc[p].pc = "request" /\ Orderly(p, proc[p])
  BY DEF Request, At, IInv, TypeOK, OrderInv
<1>2. UNCHANGED <<disk, tokens, shown, faults>> /\ faults \in 0..MaxFaults
  BY DEF Request, IInv, TypeOK
<1>3. ASSUME UNCHANGED listener, NEW x \in Processes, Orderly(p, x)
      PROVE  Listens(p, x) /\ shown' \subseteq Pages /\ \A page \in shown' : page.attempt \in Commands
  BY <1>1, <1>2, <1>3, OAuthAssumption DEF Listens, IInv, OrderInv, TypeOK, Waiting
<1>4. CASE proc[p].phase # "session" /\ UNCHANGED listener
           /\ proc' = [proc EXCEPT ![p].phase = "session", ![p].authorized = FALSE]
  <2> DEFINE x == [proc[p] EXCEPT !.phase = "session", !.authorized = FALSE]
  <2>1. /\ x \in Processes /\ x.pc = "request" /\ x.doc = proc[p].doc /\ x.tokens = proc[p].tokens
        /\ x.phase = "session" /\ x.authorized = FALSE /\ x.code = proc[p].code
    BY <1>1 DEF Processes, Phases
  <2>2. proc' = [proc EXCEPT ![p] = x]
    BY <1>4 DEF IInv, TypeOK
  <2> HIDE DEF x
  <2>3. Orderly(p, x)
    BY <1>1, <2>1 DEF Orderly, Due, Waiting
  <2>4. Left(x) <= Left(proc[p])
    BY <1>1, <1>4, <2>1 DEF Left, Ended, Processes, Phases
  <2>5. Listens(p, x) /\ shown' \subseteq Pages /\ \A page \in shown' : page.attempt \in Commands
    BY <1>3, <1>4, <2>1, <2>3
  <2> QED BY <1>1, <1>2, <2>1, <2>2, <2>3, <2>4, <2>5, GoesOn DEF Ended
<1>5. CASE ~proc[p].authorized /\ UNCHANGED listener
           /\ proc' = [proc EXCEPT ![p].pc = "client"]
  <2> DEFINE x == [proc[p] EXCEPT !.pc = "client"]
  <2>1. /\ x \in Processes /\ x.pc = "client" /\ x.doc = proc[p].doc /\ x.tokens = proc[p].tokens
        /\ x.phase = proc[p].phase /\ x.authorized = proc[p].authorized /\ x.code = proc[p].code
    BY <1>1 DEF Processes, Busy
  <2>2. proc' = [proc EXCEPT ![p] = x]
    BY <1>5 DEF IInv, TypeOK
  <2> HIDE DEF x
  <2>3. Orderly(p, x)
    BY <1>1, <1>5, <2>1 DEF Orderly, Due, Waiting
  <2>4. Left(x) <= Left(proc[p])
    <3>1. Left(x) = Left(proc[p])
      BY <1>1, <2>1 DEF Left, Ended
    <3> QED BY <1>1, <3>1, LeftType
  <2>5. Listens(p, x) /\ shown' \subseteq Pages /\ \A page \in shown' : page.attempt \in Commands
    BY <1>3, <1>5, <2>1, <2>3
  <2> QED BY <1>1, <1>2, <2>1, <2>2, <2>3, <2>4, <2>5, GoesOn DEF Ended
<1>6. CASE \E outcome \in {"done", "failed"} : End(p, outcome)
  BY <1>1, <1>2, <1>6, EndKeeps
<1> QED BY <1>4, <1>5, <1>6 DEF Request

\* A process reads or drops: client, tokens and the next call change, nothing else.
LEMMA ReadKeeps ==
  ASSUME IInv, NEW p \in Procs, NEW x \in Processes, proc' = [proc EXCEPT ![p] = x],
         UNCHANGED <<disk, listener, tokens, shown, faults>>,
         proc[p].pc \notin {"write", "request"} \cup Ended \cup Waiting,
         \/ x.pc = "register"
         \/ x.pc \in {"tokens", "state"} /\ x.client # None
         \/ x.pc = "refresh" /\ x.tokens # None /\ x.client # None,
         x.doc = proc[p].doc, x.phase = proc[p].phase, x.authorized = proc[p].authorized,
         x.code = proc[p].code, x.tokens \in {None, proc[p].tokens, file.tokens}
  PROVE  IInv'
<1>1. Orderly(p, proc[p]) /\ listener # p
  BY OAuthAssumption DEF IInv, OrderInv
<1>2. Orderly(p, x)
  BY <1>1 DEF Orderly, Due, Waiting
<1>3. Left(x) <= Left(proc[p])
  <2>1. Left(x) = Left(proc[p])
    BY DEF Left, Ended
  <2> QED BY <2>1, LeftType
<1>4. Listens(p, x) /\ shown' \subseteq Pages /\ \A page \in shown' : page.attempt \in Commands
  BY <1>1 DEF Listens, IInv, OrderInv, TypeOK
<1> QED BY <1>2, <1>3, <1>4, GoesOn

LEMMA ReadClientKeeps ==
  ASSUME IInv, NEW p \in Procs, ReadClient(p)
  PROVE  IInv'
<1> DEFINE next == IF file.client = None THEN "register" ELSE "tokens"
           x == [proc[p] EXCEPT !.client = file.client, !.pc = next]
<1>1. proc[p] \in Processes /\ file.client \in Procs \cup {None} /\ proc[p].pc = "client"
  BY DEF ReadClient, At, IInv, TypeOK, Documents
<1>2. next \in {"register", "tokens"} /\ next \in Busy
  BY DEF Busy
<1>3. proc' = [proc EXCEPT ![p] = x] /\ UNCHANGED <<disk, listener, tokens, shown, faults>>
  BY DEF ReadClient, IInv, TypeOK
<1>4. next = "tokens" => file.client # None
  OBVIOUS
<1> HIDE DEF next
<1>5. /\ x \in Processes /\ x.pc = next /\ x.doc = proc[p].doc /\ x.tokens = proc[p].tokens
      /\ x.phase = proc[p].phase /\ x.authorized = proc[p].authorized /\ x.code = proc[p].code
      /\ x.client = file.client
  BY <1>1, <1>2 DEF Processes
<1> HIDE DEF x
<1> QED BY <1>1, <1>2, <1>3, <1>4, <1>5, ReadKeeps DEF Ended, Waiting

LEMMA ReadTokensKeeps ==
  ASSUME IInv, NEW p \in Procs, ReadTokens(p)
  PROVE  IInv'
<1> DEFINE next == IF file.tokens = None THEN "state" ELSE "refresh"
           x == [proc[p] EXCEPT !.tokens = file.tokens, !.pc = next]
<1>1. proc[p] \in Processes /\ file.tokens \in Tokens \cup {None} /\ proc[p].pc = "tokens"
  BY DEF ReadTokens, At, IInv, TypeOK, Documents
<1>2. next \in {"state", "refresh"} /\ next \in Busy
  BY DEF Busy
<1>3. proc' = [proc EXCEPT ![p] = x] /\ UNCHANGED <<disk, listener, tokens, shown, faults>>
  BY DEF ReadTokens, IInv, TypeOK
<1>4. next = "refresh" => file.tokens # None
  OBVIOUS
<1> HIDE DEF next
<1>5. /\ x \in Processes /\ x.pc = next /\ x.doc = proc[p].doc /\ x.tokens = file.tokens
      /\ x.phase = proc[p].phase /\ x.authorized = proc[p].authorized /\ x.code = proc[p].code
      /\ x.client = proc[p].client
  BY <1>1, <1>2 DEF Processes
<1>6. proc[p].client # None
  BY <1>1 DEF IInv, OrderInv, Orderly, Due
<1> HIDE DEF x
<1> QED BY <1>1, <1>2, <1>3, <1>4, <1>5, <1>6, ReadKeeps DEF Ended, Waiting

LEMMA RefreshUnavailableKeeps ==
  ASSUME IInv, NEW p \in Procs, RefreshUnavailable(p)
  PROVE  IInv'
<1> DEFINE x == [proc[p] EXCEPT !.pc = "state", !.tokens = None]
<1>1. proc[p] \in Processes /\ proc[p].pc = "refresh" /\ proc[p].client # None
  BY DEF RefreshUnavailable, At, IInv, TypeOK, OrderInv, Orderly
<1>2. proc' = [proc EXCEPT ![p] = x] /\ UNCHANGED <<disk, listener, tokens, shown, faults>>
  BY DEF RefreshUnavailable, IInv, TypeOK
<1>3. /\ x \in Processes /\ x.pc = "state" /\ x.doc = proc[p].doc /\ x.tokens = None
      /\ x.phase = proc[p].phase /\ x.authorized = proc[p].authorized /\ x.code = proc[p].code
      /\ x.client = proc[p].client
  BY <1>1 DEF Processes, Busy
<1> HIDE DEF x
<1> QED BY <1>1, <1>2, <1>3, ReadKeeps DEF Ended, Waiting
-----------------------------------------------------------------------------
\* The document a process has read, with one part replaced.
LEMMA DocumentIs ==
  ASSUME TypeOK, NEW p \in Procs
  PROVE  /\ LET d == [file EXCEPT !.client = p] IN d \in Documents /\ d.tokens = file.tokens
         /\ LET d == [file EXCEPT !.state = p] IN d \in Documents /\ d.tokens = file.tokens
         /\ LET d == [file EXCEPT !.verifier = p] IN d \in Documents /\ d.tokens = file.tokens
         /\ \A t \in Tokens \cup {None} :
              LET d == [file EXCEPT !.tokens = t] IN d \in Documents /\ d.tokens = t
         /\ NoDocument \in Documents /\ NoDocument.tokens = None
BY DEF TypeOK, Documents, NoDocument

LEMMA RegisterKeeps ==
  ASSUME IInv, NEW p \in Procs, Register(p)
  PROVE  IInv'
<1> DEFINE d == [file EXCEPT !.client = p]
           x == [Update(p, d, "tokens") EXCEPT !.client = p]
<1>1. d \in Documents /\ d.tokens = file.tokens
  BY DocumentIs DEF IInv
<1>2. "tokens" \in Busy \cup Ended
  BY DEF Busy
<1>3. proc' = [proc EXCEPT ![p] = x] /\ proc[p].pc = "register"
      /\ UNCHANGED <<disk, tokens, listener, shown>> /\ faults' \in 0..MaxFaults
  BY DEF Register, At, IInv, TypeOK
<1> HIDE DEF d
<1>4. x \in Processes /\ Drafts(p, x, d, "tokens") /\ x.client = p
  BY <1>1, <1>2, UpdateIs DEF IInv
<1> HIDE DEF x
<1> QED BY <1>1, <1>3, <1>4, UpdateKeeps, OAuthAssumption DEF Ended, Waiting

LEMMA NewStateKeeps ==
  ASSUME IInv, NEW p \in Procs, NewState(p)
  PROVE  IInv'
<1> DEFINE d == [file EXCEPT !.state = p]
           x == Update(p, d, "verifier")
<1>1. d \in Documents /\ d.tokens = file.tokens
  BY DocumentIs DEF IInv
<1>2. "verifier" \in Busy \cup Ended
  BY DEF Busy
<1>3. proc' = [proc EXCEPT ![p] = x] /\ proc[p].pc = "state"
      /\ UNCHANGED <<disk, tokens, listener, shown>> /\ faults' \in 0..MaxFaults
  BY DEF NewState, At, IInv, TypeOK
<1>4. proc[p].client # None
  BY <1>3 DEF IInv, OrderInv, Orderly
<1> HIDE DEF d
<1>5. x \in Processes /\ Drafts(p, x, d, "verifier") /\ x.client = proc[p].client
  BY <1>1, <1>2, UpdateIs DEF IInv
<1> HIDE DEF x
<1> QED BY <1>1, <1>3, <1>4, <1>5, UpdateKeeps DEF Ended, Waiting

LEMMA NewVerifierKeeps ==
  ASSUME IInv, NEW p \in Procs, NewVerifier(p)
  PROVE  IInv'
<1> DEFINE d == [file EXCEPT !.verifier = p]
           x == Update(p, d, "redirect")
<1>1. d \in Documents /\ d.tokens = file.tokens
  BY DocumentIs DEF IInv
<1>2. "redirect" \in Busy \cup Ended
  BY DEF Busy
<1>3. proc' = [proc EXCEPT ![p] = x] /\ proc[p].pc = "verifier"
      /\ UNCHANGED <<disk, tokens, listener, shown>> /\ faults' \in 0..MaxFaults
  BY DEF NewVerifier, At, IInv, TypeOK
<1>4. proc[p].client # None
  BY <1>3 DEF IInv, OrderInv, Orderly, Due
<1> HIDE DEF d
<1>5. x \in Processes /\ Drafts(p, x, d, "redirect") /\ x.client = proc[p].client
  BY <1>1, <1>2, UpdateIs DEF IInv
<1> HIDE DEF x
<1> QED BY <1>1, <1>3, <1>4, <1>5, UpdateKeeps DEF Ended, Waiting

\* auth() forgets the tokens or everything, and tries again.
LEMMA ForgetKeeps ==
  ASSUME IInv, NEW p \in Procs, NEW d \in Documents, d.tokens = None,
         NEW again \in {"client", "finish"},
         again = "client" => proc[p].pc = "refresh", again = "finish" => proc[p].pc = "exchange",
         proc' = [proc EXCEPT ![p] = [Update(p, d, again) EXCEPT !.retried = TRUE]],
         UNCHANGED <<disk, tokens, listener, shown>>, faults' \in 0..MaxFaults
  PROVE  IInv'
<1> DEFINE x == [Update(p, d, again) EXCEPT !.retried = TRUE]
<1>1. d.tokens \in {None, file.tokens}
  OBVIOUS
<1>2. again \in Busy \cup Ended
  BY DEF Busy
<1>3. x \in Processes /\ Drafts(p, x, d, again)
  BY <1>1, <1>2, UpdateIs DEF IInv
<1>4. again = "finish" => proc[p].phase = "connect" /\ proc[p].code # None
  BY DEF IInv, OrderInv, Orderly
<1>5. proc[p].pc \in {"refresh", "exchange"}
  OBVIOUS
<1>6. proc' = [proc EXCEPT ![p] = x]
  OBVIOUS
<1>7. proc[p].pc \notin {"write", "request"} \cup Ended \cup Waiting
  BY <1>5 DEF Ended, Waiting
<1>8. /\ again \in {"done", "client", "tokens", "finish", "verifier", "redirect"}
      /\ again \notin {"tokens", "verifier", "redirect"}
  OBVIOUS
<1> HIDE DEF x
<1>9. IInv /\ p \in Procs /\ d \in Documents /\ UNCHANGED <<disk, tokens, listener, shown>>
      /\ faults' \in 0..MaxFaults
  OBVIOUS
<1> QED BY ONLY <1>1, <1>3, <1>4, <1>6, <1>7, <1>8, <1>9, UpdateKeeps

LEMMA RejectedKeeps ==
  ASSUME IInv, NEW p \in Procs, RefreshRejected(p) \/ ExchangeRejected(p)
  PROVE  IInv'
<1>1. PICK again \in {"client", "finish"} :
        /\ Reject(p, again)
        /\ again = "client" => proc[p].pc = "refresh"
        /\ again = "finish" => proc[p].pc = "exchange"
  BY DEF RefreshRejected, ExchangeRejected, At
<1>2. UNCHANGED <<disk, tokens, shown, faults>> /\ faults' \in 0..MaxFaults
  BY DEF RefreshRejected, ExchangeRejected, IInv, TypeOK
<1>3. CASE End(p, "failed")
  BY <1>1, <1>2, <1>3, EndKeeps
<1>4. CASE ~proc[p].retried
  <2> DEFINE d == [file EXCEPT !.tokens = None]
  <2>1. d \in Documents /\ d.tokens = None
    BY DocumentIs DEF IInv
  <2>2. proc' = [proc EXCEPT ![p] = [Update(p, d, again) EXCEPT !.retried = TRUE]]
        /\ UNCHANGED listener
    BY <1>1, <1>4 DEF Reject
  <2> HIDE DEF d
  <2> QED BY <1>1, <1>2, <2>1, <2>2, ForgetKeeps
<1> QED BY <1>1, <1>3, <1>4 DEF Reject

LEMMA ClientUnknownKeeps ==
  ASSUME IInv, NEW p \in Procs, ClientUnknown(p)
  PROVE  IInv'
<1>1. proc[p].pc \in {"refresh", "exchange"}
  BY DEF ClientUnknown, At
<1>2. UNCHANGED <<disk, tokens, shown>> /\ faults' \in 0..MaxFaults
  BY OAuthAssumption DEF ClientUnknown, Fault, IInv, TypeOK
<1>3. CASE End(p, "failed")
  BY <1>1, <1>2, <1>3, EndKeeps
<1>4. CASE ~proc[p].retried
  <2> DEFINE again == IF At(p, "refresh") THEN "client" ELSE "finish"
  <2>1. proc' = [proc EXCEPT ![p] = [Update(p, NoDocument, again) EXCEPT !.retried = TRUE]]
        /\ UNCHANGED listener
    BY <1>4 DEF ClientUnknown
  <2>2. /\ again \in {"client", "finish"} /\ (again = "client" => proc[p].pc = "refresh")
        /\ again = "finish" => proc[p].pc = "exchange"
    BY <1>1 DEF At
  <2> HIDE DEF again
  <2>3. NoDocument \in Documents /\ NoDocument.tokens = None
    BY DocumentIs DEF IInv
  <2> QED BY <1>2, <2>1, <2>2, <2>3, ForgetKeeps
<1> QED BY <1>3, <1>4 DEF ClientUnknown

LEMMA RedirectKeeps ==
  ASSUME IInv, NEW p \in Procs, Redirect(p)
  PROVE  IInv'
<1>1. proc[p] \in Processes /\ proc[p].pc = "redirect" /\ Orderly(p, proc[p])
  BY DEF Redirect, At, IInv, TypeOK, OrderInv
<1>2. UNCHANGED <<disk, tokens, shown, faults>> /\ faults' \in 0..MaxFaults
  BY DEF Redirect, IInv, TypeOK
<1>3. CASE End(p, "failed")
  BY <1>1, <1>2, <1>3, EndKeeps
<1>4. CASE p \in Commands /\ listener' = p /\ proc' = [proc EXCEPT ![p].pc = "launch"]
  <2> DEFINE x == [proc[p] EXCEPT !.pc = "launch"]
  <2>1. /\ x \in Processes /\ x.pc = "launch" /\ x.doc = proc[p].doc /\ x.tokens = proc[p].tokens
        /\ x.phase = proc[p].phase /\ x.authorized = proc[p].authorized /\ x.code = proc[p].code
        /\ x.client = proc[p].client
    BY <1>1 DEF Processes, Busy
  <2>2. proc' = [proc EXCEPT ![p] = x]
    BY <1>4 DEF IInv, TypeOK
  <2> HIDE DEF x
  <2>3. Orderly(p, x)
    BY <1>1, <1>4, <2>1 DEF Orderly, Due, Waiting
  <2>4. Left(x) <= Left(proc[p])
    <3>1. Left(x) = Left(proc[p])
      BY <1>1, <2>1 DEF Left, Ended
    <3> QED BY <1>1, <3>1, LeftType
  <2>5. Listens(p, x) /\ shown' \subseteq Pages /\ \A page \in shown' : page.attempt \in Commands
    BY <1>2, <1>4, <2>1 DEF Listens, Waiting, IInv, TypeOK, OrderInv
  <2> QED BY <1>1, <1>2, <2>1, <2>2, <2>3, <2>4, <2>5, GoesOn DEF Ended
<1> QED BY <1>3, <1>4 DEF Redirect

LEMMA LaunchKeeps ==
  ASSUME IInv, NEW p \in Procs, Launch(p)
  PROVE  IInv'
<1> DEFINE page == [attempt |-> p, client |-> proc[p].client]
<1>1. /\ proc[p] \in Processes /\ proc[p].pc = "launch" /\ Orderly(p, proc[p])
      /\ p \in Commands /\ proc[p].client \in Procs
  BY DEF Launch, At, IInv, TypeOK, OrderInv, Orderly, Waiting, Processes
<1>2. PICK opened \in BOOLEAN :
        LET waits == opened /\ proc[p].phase = "connect"
        IN /\ shown' = IF opened THEN shown \cup {page} ELSE shown
           /\ proc' = [proc EXCEPT ![p].pc = IF waits THEN "wait" ELSE "lingers"]
           /\ listener' = IF waits \/ proc[p].phase = "session" THEN p ELSE None
  BY DEF Launch
<1>3. UNCHANGED <<disk, tokens, faults>>
  BY DEF Launch
<1> DEFINE next == IF opened /\ proc[p].phase = "connect" THEN "wait" ELSE "lingers"
           x == [proc[p] EXCEPT !.pc = next]
<1>4. next \in {"wait", "lingers"} /\ next \in Busy /\ (next = "wait" => proc[p].phase = "connect")
  BY DEF Busy
<1>5. proc' = [proc EXCEPT ![p] = x]
  BY <1>2 DEF IInv, TypeOK
<1>6. page \in Pages /\ page.attempt \in Commands
  BY <1>1 DEF Pages
<1>7. shown' \subseteq Pages /\ \A s \in shown' : s.attempt \in Commands
  BY <1>2, <1>6 DEF IInv, TypeOK, OrderInv
<1>8. listener' \in {p, None}
  BY <1>2
<1> HIDE DEF next
<1>9. /\ x \in Processes /\ x.pc = next /\ x.doc = proc[p].doc /\ x.tokens = proc[p].tokens
      /\ x.phase = proc[p].phase /\ x.authorized = proc[p].authorized /\ x.code = proc[p].code
      /\ x.client = proc[p].client
  BY <1>1, <1>4 DEF Processes
<1> HIDE DEF x
<1>10. Orderly(p, x)
  BY <1>1, <1>4, <1>9 DEF Orderly, Due, Waiting
<1>11. Left(x) <= Left(proc[p])
  <2>1. Left(x) = Left(proc[p])
    BY <1>1, <1>4, <1>9 DEF Left, Ended
  <2> QED BY <1>1, <2>1, LeftType
<1>12. Listens(p, x)
  BY <1>4, <1>8, <1>9 DEF Listens, Waiting
<1> QED BY <1>1, <1>3, <1>4, <1>5, <1>7, <1>9, <1>10, <1>11, <1>12, GoesOn DEF Ended
-----------------------------------------------------------------------------
LEMMA CallbackKeeps ==
  ASSUME IInv, NEW p \in Procs, NEW page \in shown \cup {None}, Callback(p, page)
  PROVE  IInv'
<1>1. /\ proc[p] \in Processes /\ Orderly(p, proc[p]) /\ proc[p].pc \in {"wait", "lingers"}
      /\ UNCHANGED <<disk, tokens, shown, faults>> /\ faults' \in 0..MaxFaults
  BY DEF Callback, Listening, IInv, TypeOK, OrderInv
<1>2. CASE End(p, "failed")
  BY <1>1, <1>2, EndKeeps
<1>3. CASE /\ page # None /\ At(p, "wait") /\ listener' = None
           /\ proc' = [proc EXCEPT ![p].pc = "finish", ![p].code = page, ![p].client = None,
                                   ![p].retried = FALSE]
  <2> DEFINE x == [proc[p] EXCEPT !.pc = "finish", !.code = page, !.client = None,
                                  !.retried = FALSE]
  <2>1. page \in Pages /\ page.attempt \in Commands /\ page # None
    BY <1>3 DEF IInv, TypeOK, OrderInv
  <2>2. /\ x \in Processes /\ x.pc = "finish" /\ x.doc = proc[p].doc /\ x.tokens = proc[p].tokens
        /\ x.phase = proc[p].phase /\ x.authorized = proc[p].authorized /\ x.code = page
        /\ x.client = None
    BY <1>1, <2>1 DEF Processes, Busy
  <2>3. proc' = [proc EXCEPT ![p] = x]
    BY <1>3 DEF IInv, TypeOK
  <2>4. proc[p].pc = "wait"
    BY <1>3 DEF At
  <2> HIDE DEF x
  <2>5. Orderly(p, x)
    BY <1>1, <2>1, <2>2, <2>4 DEF Orderly, Due, Waiting
  <2>6. Left(x) <= Left(proc[p])
    <3>1. Left(x) = Left(proc[p])
      BY <2>2, <2>4 DEF Left, Ended
    <3> QED BY <1>1, <3>1, LeftType
  <2>7. Listens(p, x) /\ shown' \subseteq Pages /\ \A s \in shown' : s.attempt \in Commands
    BY <1>1, <1>3 DEF Listens, IInv, TypeOK, OrderInv
  <2> QED BY <1>1, <2>2, <2>3, <2>4, <2>5, <2>6, <2>7, GoesOn DEF Ended
<1> QED BY <1>2, <1>3 DEF Callback

LEMMA FailureKeeps ==
  ASSUME IInv, NEW p \in Procs, TimesOut(p) \/ Fails(p)
  PROVE  IInv'
<1>1. proc[p].pc \in {"wait", "lingers", "request", "client", "register", "exchange"}
  BY DEF TimesOut, Fails, At
<1>2. End(p, "failed") /\ UNCHANGED <<disk, tokens, shown>> /\ faults' \in 0..MaxFaults
  BY DEF TimesOut, Fails, IInv, TypeOK
<1> QED BY <1>1, <1>2, EndKeeps

LEMMA DiesKeeps ==
  ASSUME IInv, NEW p \in Procs, Dies(p)
  PROVE  IInv'
<1> DEFINE x == [Fresh EXCEPT !.pc = "died", !.doc = proc[p].doc]
<1>1. proc[p] \in Processes /\ proc[p].pc \in Busy /\ proc[p].doc \in Documents
  BY DEF Dies, IInv, TypeOK, Processes
<1>2. NoDocument \in Documents
  BY DocumentIs DEF IInv
<1>3. /\ x \in Processes /\ x.pc = "died" /\ x.tokens = None /\ x.doc = proc[p].doc
      /\ ~x.authorized /\ x.code = None
  BY <1>1, <1>2 DEF Fresh, Processes, Phases, Busy, Ended
<1>4. /\ proc' = [proc EXCEPT ![p] = x] /\ UNCHANGED <<disk, tokens, shown>>
      /\ listener' \in {None, listener} /\ (listener = p => listener' = None)
  BY DEF Dies
<1>5. faults' \in 0..MaxFaults
  BY OAuthAssumption DEF Dies, Fault, IInv, TypeOK
<1> HIDE DEF x
<1>6. Orderly(p, x) /\ Draft(p, x)
  BY <1>1, <1>3 DEF Orderly, Due, Waiting, Draft, Busy
<1>7. Left(x) <= Left(proc[p])
  BY <1>1, <1>3, LeftType DEF Left, Ended
<1>8. Listens(p, x) /\ shown' \subseteq Pages /\ \A page \in shown' : page.attempt \in Commands
  BY <1>4 DEF Listens, IInv, TypeOK, OrderInv
<1> QED BY <1>3, <1>4, <1>5, <1>6, <1>7, <1>8, QuietKeeps

LEMMA ReadAttemptKeeps ==
  ASSUME IInv, NEW p \in Procs, ReadAttempt(p)
  PROVE  IInv'
<1>1. /\ proc[p] \in Processes /\ Orderly(p, proc[p]) /\ proc[p].pc = "finish"
      /\ UNCHANGED <<disk, tokens, shown, faults>> /\ faults' \in 0..MaxFaults
  BY DEF ReadAttempt, At, IInv, TypeOK, OrderInv
<1>2. CASE End(p, "failed")
  BY <1>1, <1>2, EndKeeps
<1>3. CASE /\ None \notin {file.client, file.verifier} /\ UNCHANGED listener
           /\ proc' = [proc EXCEPT ![p].pc = "exchange", ![p].client = file.client,
                                   ![p].verifier = file.verifier]
  <2> DEFINE x == [proc[p] EXCEPT !.pc = "exchange", !.client = file.client,
                                  !.verifier = file.verifier]
  <2>1. {file.client, file.verifier} \subseteq Procs
    BY <1>3 DEF IInv, TypeOK, Documents
  <2>2. /\ x \in Processes /\ x.pc = "exchange" /\ x.doc = proc[p].doc /\ x.tokens = proc[p].tokens
        /\ x.phase = proc[p].phase /\ x.authorized = proc[p].authorized /\ x.code = proc[p].code
        /\ x.client = file.client
    BY <1>1, <2>1 DEF Processes, Busy
  <2>3. proc' = [proc EXCEPT ![p] = x]
    BY <1>3 DEF IInv, TypeOK
  <2> HIDE DEF x
  <2>4. Orderly(p, x)
    BY <1>1, <1>3, <2>2 DEF Orderly, Due, Waiting
  <2>5. Left(x) <= Left(proc[p])
    <3>1. Left(x) = Left(proc[p])
      BY <1>1, <2>2 DEF Left, Ended
    <3> QED BY <1>1, <3>1, LeftType
  <2>6. listener # p
    BY <1>1, OAuthAssumption DEF IInv, OrderInv, Waiting
  <2>7. Listens(p, x) /\ shown' \subseteq Pages /\ \A s \in shown' : s.attempt \in Commands
    BY <1>1, <1>3, <2>6 DEF Listens, IInv, TypeOK, OrderInv
  <2> QED BY <1>1, <2>2, <2>3, <2>4, <2>5, <2>7, GoesOn DEF Ended
<1> QED BY <1>2, <1>3 DEF ReadAttempt

\* While a process may obtain tokens, there is a number for them.
LEMMA RoomLeft ==
  ASSUME IInv, NEW p \in Procs, Left(proc[p]) > 0
  PROVE  issued + 1 \in 1..MaxTokens
<1>1. Left(proc[p]) \in 1..3
  BY LeftType DEF IInv, TypeOK
<1>2. <<p, 1>> \in Slots
  BY <1>1 DEF Slots
<1>3. Cardinality(Slots) # 0
  BY <1>2, SlotsFinite, FS_EmptySet DEF IInv
<1>4. Cardinality(Slots) \in Nat /\ issued + Cardinality(Slots) <= MaxTokens /\ issued \in Nat
  BY SlotsFinite DEF IInv, OrderInv, TypeOK
<1> QED BY <1>3, <1>4, BoundType

\* A record as the storing of new tokens leaves it.
LEMMA StoreIs ==
  ASSUME TypeOK, NEW p \in Procs, NEW new \in Tokens
  PROVE  LET s == Store(p, new)
         IN /\ s \in Processes /\ s.pc = "write" /\ s.doc.tokens = new /\ s.next = "request"
            /\ s.tokens = None /\ s.code = None /\ s.client = None
            /\ s.phase = proc[p].phase /\ s.authorized = proc[p].authorized
<1> DEFINE d == [file EXCEPT !.tokens = new]
           u == Update(p, d, "request")
<1>1. d \in Documents /\ d.tokens = new
  BY DocumentIs
<1>2. "request" \in Busy \cup Ended
  BY DEF Busy
<1>3. Store(p, new) = [u EXCEPT !.client = None, !.verifier = None, !.code = None,
                                !.retried = FALSE]
  BY DEF Store
<1> HIDE DEF d
<1>4. u \in Processes /\ Drafts(p, u, d, "request")
  BY <1>1, <1>2, UpdateIs
<1> HIDE DEF u
<1> QED BY <1>1, <1>3, <1>4 DEF Drafts, Processes

LEMMA RefreshKeeps ==
  ASSUME IInv, NEW p \in Procs, Refresh(p)
  PROVE  IInv'
<1> DEFINE used == proc[p].tokens
           new == Issue(proc[p].client, used.refresh)
           s == Store(p, new)
           x == [s EXCEPT !.authorized = TRUE]
<1>1. proc[p] \in Processes /\ proc[p].pc = "refresh" /\ Orderly(p, proc[p]) /\ issued \in Nat
  BY DEF Refresh, At, IInv, TypeOK, OrderInv
<1>2. /\ used # None /\ used \in Tokens /\ ~proc[p].authorized
      /\ proc[p].client = used.client /\ used.refresh \in live
  BY <1>1 DEF Refresh, Honoured, Orderly, Due, Processes
<1>3. /\ proc' = [proc EXCEPT ![p] = x] /\ issued' = issued + 1 /\ valid' = valid \cup {issued + 1}
      /\ live' = (IF rotates THEN live \ {used.refresh} ELSE live) \cup {new.refresh}
      /\ UNCHANGED <<disk, listener, rotates, redeemed, shown, faults>>
  BY DEF Refresh
<1>4. issued + 1 \in 1..MaxTokens
  <2>1. Left(proc[p]) > 0
    BY <1>1, <1>2 DEF Left, Ended
  <2> QED BY <2>1, RoomLeft
<1>5. /\ new \in Tokens /\ new.client = used.client /\ (rotates => new.refresh = issued + 1)
      /\ new.refresh \in live \cup {issued + 1}
  BY <1>2, <1>4 DEF Issue, Tokens
<1>6. new # None
  BY <1>5, OAuthAssumption
<1>7. /\ valid \subseteq 1..issued /\ live \subseteq 1..issued /\ redeemed \subseteq Commands
  BY DEF IInv, TypeOK
<1> HIDE DEF used, new
<1>8. /\ s \in Processes /\ s.pc = "write" /\ s.doc.tokens = new /\ s.next = "request"
      /\ s.tokens = None /\ s.code = None /\ s.client = None
      /\ s.phase = proc[p].phase /\ s.authorized = proc[p].authorized
  BY <1>5, StoreIs DEF IInv
<1> HIDE DEF s
<1>9. /\ x \in Processes /\ x.pc = "write" /\ x.doc.tokens = new /\ x.next = "request"
      /\ x.tokens = None /\ x.code = None /\ x.authorized = TRUE /\ x.phase = proc[p].phase
  BY <1>8 DEF Processes
<1> HIDE DEF x
<1>10. Orderly(p, x)
  BY <1>9 DEF Orderly, Due, Waiting
<1>11. Left(x) < Left(proc[p])
  BY <1>1, <1>2, <1>9 DEF Left, Ended
<1>12. valid' \subseteq 1..issued' /\ live' \subseteq 1..issued'
  <2>1. \A n \in 1..issued : n \in 1..(issued + 1)
    BY <1>1
  <2>2. issued + 1 \in 1..(issued + 1)
    BY <1>1
  <2> QED BY <1>3, <1>5, <1>7, <2>1, <2>2
<1>13. /\ new.refresh \in live' /\ (~rotates => live \subseteq live')
       /\ rotates => \A n \in live \ live' : n = used.refresh
  BY <1>3
<1>14. rotates => /\ new.refresh = issued + 1
                  /\ \A n \in live \ live' : /\ proc[p].tokens # None
                                             /\ proc[p].tokens.refresh = n
                                             /\ proc[p].tokens.client = new.client
  BY <1>2, <1>5, <1>13 DEF used
<1>15. redeemed' \subseteq Commands /\ UNCHANGED <<disk, listener, rotates, shown, faults>>
  BY <1>3, <1>7
<1> QED BY <1>1, <1>3, <1>5, <1>6, <1>9, <1>10, <1>11, <1>12, <1>13, <1>14, <1>15, IssueKeeps DEF Waiting

LEMMA ExchangeKeeps ==
  ASSUME IInv, NEW p \in Procs, Exchange(p)
  PROVE  IInv'
<1> DEFINE new == Issue(proc[p].client, None)
           s == Store(p, new)
           x == [s EXCEPT !.phase = "reconnect"]
<1>1. proc[p] \in Processes /\ proc[p].pc = "exchange" /\ Orderly(p, proc[p]) /\ issued \in Nat
  BY DEF Exchange, At, IInv, TypeOK, OrderInv
<1>2. /\ ~proc[p].authorized /\ proc[p].phase = "connect" /\ proc[p].code.attempt \in Commands
      /\ proc[p].client \in Procs
  BY <1>1 DEF Orderly, Due, Processes
<1>3. /\ proc' = [proc EXCEPT ![p] = x] /\ issued' = issued + 1 /\ valid' = valid \cup {issued + 1}
      /\ live' = live \cup {issued + 1} /\ redeemed' = redeemed \cup {proc[p].code.attempt}
      /\ UNCHANGED <<disk, listener, rotates, shown, faults>>
  BY DEF Exchange
<1>4. issued + 1 \in 1..MaxTokens
  <2>1. Left(proc[p]) > 0
    BY <1>1, <1>2 DEF Left, Ended
  <2> QED BY <2>1, RoomLeft
<1>5. new \in Tokens /\ new.refresh = issued + 1 /\ new # None
  BY <1>2, <1>4, OAuthAssumption DEF Issue, Tokens
<1>6. /\ valid \subseteq 1..issued /\ live \subseteq 1..issued /\ redeemed \subseteq Commands
  BY DEF IInv, TypeOK
<1> HIDE DEF new
<1>7. /\ s \in Processes /\ s.pc = "write" /\ s.doc.tokens = new /\ s.next = "request"
      /\ s.tokens = None /\ s.code = None /\ s.client = None
      /\ s.phase = proc[p].phase /\ s.authorized = proc[p].authorized
  BY <1>5, StoreIs DEF IInv
<1> HIDE DEF s
<1>8. /\ x \in Processes /\ x.pc = "write" /\ x.doc.tokens = new /\ x.next = "request"
      /\ x.tokens = None /\ x.code = None /\ x.phase = "reconnect" /\ x.authorized = proc[p].authorized
  BY <1>7 DEF Processes, Phases
<1> HIDE DEF x
<1>9. Orderly(p, x)
  BY <1>8 DEF Orderly, Due, Waiting
<1>10. Left(x) < Left(proc[p])
  BY <1>1, <1>2, <1>8 DEF Left, Ended
<1>11. valid' \subseteq 1..issued' /\ live' \subseteq 1..issued'
  <2>1. \A n \in 1..issued : n \in 1..(issued + 1)
    BY <1>1
  <2>2. issued + 1 \in 1..(issued + 1)
    BY <1>1
  <2> QED BY <1>3, <1>6, <2>1, <2>2
<1>12. live \ live' = {} /\ live \subseteq live' /\ new.refresh \in live'
  BY <1>3, <1>5
<1>13. redeemed' \subseteq Commands
  BY <1>2, <1>3, <1>6
<1> QED BY <1>1, <1>3, <1>5, <1>8, <1>9, <1>10, <1>11, <1>12, <1>13, IssueKeeps DEF Waiting

LEMMA ExpireKeeps ==
  ASSUME IInv, NEW n \in valid, Expire(n)
  PROVE  IInv'
<1>1. /\ UNCHANGED <<disk, listener, proc, rotates, issued, live, redeemed, shown>>
      /\ valid' \subseteq valid /\ faults' \in 0..MaxFaults
  BY OAuthAssumption DEF Expire, Fault, IInv, TypeOK
<1>2. TypeOK'
  BY <1>1 DEF IInv, TypeOK, disk
<1>3. OrderInv'
  BY <1>1 DEF IInv, OrderInv, Slots
<1>4. TokenInv'
  BY <1>1 DEF IInv, TokenInv, Numbered, OneClient, Kept, FileInv, WriterInv, Known, Unheld,
              SuccessorOf, At, disk
<1> QED BY <1>2, <1>3, <1>4 DEF IInv
-----------------------------------------------------------------------------
LEMMA InitIsCorrect == Init => IInv
<1> SUFFICES ASSUME Init PROVE IInv
  OBVIOUS
<1>1. /\ Fresh \in Processes /\ Fresh.pc = "idle" /\ Fresh.phase = "connect" /\ ~Fresh.authorized
      /\ Fresh.code = None /\ Fresh.tokens = None /\ Fresh.doc.tokens = None
  BY DEF Fresh, Processes, Phases, Busy, Ended, NoDocument, Documents
<1>2. \A p \in Procs : proc[p] = Fresh
  BY DEF Init
<1>3. file \in Documents /\ file.tokens = None
  BY DEF Init, NoDocument, Documents
<1>4. TypeOK
  <2>1. proc \in [Procs -> Processes]
    BY <1>1 DEF Init
  <2>2. issued \in 0..MaxTokens /\ faults \in 0..MaxFaults
    BY BoundType, OAuthAssumption DEF Init
  <2>3. valid \subseteq 1..issued /\ live \subseteq 1..issued /\ shown \subseteq Pages
        /\ redeemed \subseteq Commands /\ listener = None /\ clobbered \in BOOLEAN
        /\ rotates \in BOOLEAN
    BY DEF Init
  <2> QED BY <1>3, <2>1, <2>2, <2>3 DEF TypeOK
<1>5. OrderInv
  <2>1. \A p \in Procs : Orderly(p, proc[p])
    BY <1>1, <1>2 DEF Orderly, Due, Waiting
  <2>2. issued + Cardinality(Slots) <= MaxTokens
    <3>1. IsFiniteSet(1..3) /\ Cardinality(1..3) = 3
      <4>1. Cardinality(1..3) = IF 1 > 3 THEN 0 ELSE 3 - 1 + 1
        BY FS_Interval, 1 \in Int, 3 \in Int, Zenon
      <4>2. IsFiniteSet(1..3)
        BY FS_Interval, 1 \in Int, 3 \in Int, Zenon
      <4> QED BY <4>1, <4>2
    <3>2. /\ IsFiniteSet(Procs \X (1..3)) /\ Cardinality(Procs) \in Nat
          /\ Cardinality(Procs \X (1..3)) = Cardinality(Procs) * Cardinality(1..3)
      BY <3>1, OAuthAssumption, FS_Product, FS_CardinalityType
    <3>3. Slots \subseteq Procs \X (1..3)
      BY DEF Slots
    <3>4. Cardinality(Slots) <= Cardinality(Procs \X (1..3)) /\ Cardinality(Slots) \in Nat
      BY <3>2, <3>3, FS_Subset, FS_CardinalityType
    <3>5. \A n \in Nat : n * 3 = 3 * n
      OBVIOUS
    <3> QED BY <3>1, <3>2, <3>4, <3>5 DEF MaxTokens, Init
  <2> QED BY <2>1, <2>2 DEF Init, OrderInv
<1>6. \A t : ~Known(t)
  BY <1>1, <1>2, <1>3 DEF Known
<1>7. TokenInv
  <2>1. Numbered /\ OneClient /\ Kept
    BY <1>6 DEF Numbered, OneClient, Kept
  <2>2. FileInv
    BY <1>3 DEF FileInv
  <2>3. WriterInv
    BY <1>1, <1>2 DEF WriterInv, At
  <2> QED BY <2>1, <2>2, <2>3 DEF TokenInv
<1> QED BY <1>4, <1>5, <1>7 DEF IInv

LEMMA StepKeepsIt == IInv /\ [Next]_vars => IInv'
<1> SUFFICES ASSUME IInv, [Next]_vars PROVE IInv'
  OBVIOUS
<1>1. ASSUME NEW p \in Procs, Step(p)
      PROVE  IInv'
  BY <1>1, WriteKeeps, RequestKeeps, ReadClientKeeps, RegisterKeeps, ReadTokensKeeps, RefreshKeeps,
     RejectedKeeps, ClientUnknownKeeps, RefreshUnavailableKeeps, NewStateKeeps, NewVerifierKeeps,
     RedirectKeeps, LaunchKeeps, ReadAttemptKeeps, ExchangeKeeps, FailureKeeps DEF Step
<1>2. ASSUME NEW p \in Procs, Command(p) \/ attachRemote(p)
      PROVE  IInv'
  BY <1>2, BeginKeeps DEF Command, attachRemote
<1>3. ASSUME UNCHANGED vars
      PROVE  IInv'
  BY <1>3 DEF vars, disk, tokens, IInv, TypeOK, OrderInv, Slots, TokenInv, Numbered,
              OneClient, Kept, FileInv, WriterInv, Known, Unheld, SuccessorOf, At
<1> QED BY <1>1, <1>2, <1>3, LogoutKeeps, FailureKeeps, DiesKeeps, CallbackKeeps,
           ExpireKeeps DEF Next

LEMMA AlwaysCorrect == Spec => []IInv
BY InitIsCorrect, StepKeepsIt, PTL DEF Spec

\* File, tokens and processes keep their types: a listener belongs to a command that
\* still runs, and no process obtains tokens twice in one phase, which is why MaxTokens
\* is no bound of the model (connectOrbioMcp, OAuthCallbackListener).
THEOREM TypeCorrect == Spec => []TypeOK
<1>1. IInv => TypeOK
  BY DEF IInv
<1> QED BY AlwaysCorrect, <1>1, PTL

\* However many commands, refreshes of the dashboard and logouts interleave, fail and
\* are killed, the stored refresh token is one Orbio accepts, or its successor is with
\* the process that stores it, unless an update has undone another
\* (OAuthStateStore.update, invalidateCredentials).
THEOREM StoredTokenLives == Spec => []StoredTokenIsLive
<1>1. IInv => StoredTokenIsLive
  <2> SUFFICES ASSUME IInv, file.tokens # None PROVE StoredTokenIsLive
    BY DEF StoredTokenIsLive
  <2>1. CASE rotates
    BY <2>1 DEF IInv, TokenInv, FileInv, StoredTokenIsLive
  <2>2. CASE ~rotates
    <3>1. Known(file.tokens) /\ file.tokens \in Tokens
      BY KnownTypes DEF Known, IInv
    <3> QED BY <2>2, <3>1 DEF IInv, TokenInv, Kept, StoredTokenIsLive
  <2> QED BY <2>1, <2>2
<1> QED BY AlwaysCorrect, <1>1, PTL
=============================================================================
