--------------------------- MODULE StateStoreProofs ---------------------------
(***************************************************************************)
(* The lock of StateStore excludes in the two deployments the code can     *)
(* carry: prompt stores, which neither crash nor stall and whose calls to  *)
(* the file system succeed, and one store to which all that may happen.    *)
(* Wherever it excludes, the store implements AtomicStore and loses no     *)
(* update it reported.  The order of the updates of one instance needs no  *)
(* exclusion: it holds in every deployment.                                *)
(***************************************************************************)
EXTENDS StateStore, SequenceTheorems, TLAPS

\* The types the arguments below need.
Types == /\ pc \in [Ops -> Locations]
         /\ lock \in [by : Ops, old : BOOLEAN] \cup {NoLock}

\* Without faults and stalls a lock file belongs to the update that holds it.
OwnLock == /\ Types /\ faults = 0
           /\ \A o \in Ops : pc[o] \in Holding => lock # NoLock /\ lock.by = o
           /\ lock # NoLock => pc[lock.by] \in Holding /\ ~lock.old
           /\ \A o \in Ops : pc[o] # "break"

LEMMA OwnLockInit == Init => OwnLock
BY StoreAssumption DEF Init, OwnLock, Types, Locations, Holding

LEMMA OwnLockStep ==
  ASSUME MaxFaults = 0, SlowHolders = FALSE, OwnLock, [Next]_vars
  PROVE  OwnLock'
<1>0. /\ \A o \in Ops : StoreOf[o] \in Stores
      /\ NoLock \notin [by : Ops, old : BOOLEAN]
  BY StoreAssumption
<1>1. CASE UNCHANGED vars
  BY <1>1 DEF vars, OwnLock, Types
<1>2. ASSUME NEW o \in Ops, Update(o) PROVE OwnLock'
  BY <1>0, <1>2 DEF Update, Goto, OwnLock, Types, Locations, Waiting, Holding, Ended
<1>3. ASSUME NEW o \in Ops, Step(o) PROVE OwnLock'
  <2>1. CASE Start(o)
    BY <2>1 DEF Start, Goto, OwnLock, Types, Locations, Waiting, Holding, Ended
  <2>2. CASE OpenLock(o)
    <3>1. /\ lock = NoLock /\ lock' = [by |-> o, old |-> FALSE]
          /\ pc[o] = "open" /\ pc' = [pc EXCEPT ![o] = "read"] /\ faults' = faults
      BY <2>2 DEF OpenLock, Goto
    <3>2. lock' \in [by : Ops, old : BOOLEAN] /\ lock' # NoLock
      <4>1. [by |-> o, old |-> FALSE] \in [by : Ops, old : BOOLEAN]
        BY Zenon
      <4>. QED
        BY <3>1, <4>1, <1>0, Zenon
    <3>3. \A p \in Ops : pc'[p] = IF p = o THEN "read" ELSE pc[p]
      BY <3>1 DEF OwnLock, Types
    <3>4. \A p \in Ops : pc[p] \notin Holding
      BY <3>1 DEF OwnLock
    <3>5. lock'.by = o /\ ~lock'.old
      BY <3>1
    <3>6. pc' \in [Ops -> Locations]
      BY <3>1 DEF OwnLock, Types, Locations, Holding
    <3>. QED
      BY <3>1, <3>2, <3>3, <3>4, <3>5, <3>6 DEF OwnLock, Types, Holding
  <2>3. CASE LockExists(o)
    BY <2>3 DEF LockExists, Goto, OwnLock, Types, Locations, Waiting, Holding, Ended
  <2>4. CASE StatLock(o)
    BY <2>4 DEF StatLock, Goto, OwnLock, Types, Locations, Waiting, Holding, Ended
  <2>5. CASE BreakLock(o)
    BY <2>5 DEF BreakLock, OwnLock
  <2>6. CASE Retry(o)
    BY <2>6 DEF Retry, NextAttempt, OwnLock, Types, Locations, Waiting, Holding, Ended
  <2>7. CASE ReadState(o)
    BY <2>7 DEF ReadState, Goto, OwnLock, Types, Locations, Waiting, Holding, Ended
  <2>8. CASE Throw(o)
    BY <2>8 DEF Throw, Goto, OwnLock, Types, Locations, Waiting, Holding, Ended
  <2>9. CASE Mutate(o)
    BY <2>9 DEF Mutate, Goto, OwnLock, Types, Locations, Waiting, Holding, Ended
  <2>10. CASE WriteState(o)
    BY <2>10 DEF WriteState, Goto, OwnLock, Types, Locations, Waiting, Holding, Ended
  <2>11. CASE Unlock(o)
    BY <2>11 DEF Unlock, Goto, OwnLock, Types, Locations, Waiting, Holding, Ended
  <2>. QED
    BY <1>3, <2>1, <2>2, <2>3, <2>4, <2>5, <2>6, <2>7, <2>8, <2>9, <2>10, <2>11 DEF Step
<1>4. ASSUME NEW o \in Ops PROVE ~IOError(o)
  BY DEF IOError, LockWriteFails, LockingFails, ChmodFails, UnlockFails, OwnLock
<1>5. ASSUME NEW s \in Stores PROVE ~Crash(s)
  BY DEF Crash, OwnLock
<1>6. ~LockAges
  BY DEF LockAges, OwnLock
<1>. QED
  BY <1>1, <1>2, <1>3, <1>4, <1>5, <1>6 DEF Next

\* Stores that neither crash nor stall nor meet an I/O error exclude one another,
\* however many of them share the file (withFileLock, acquireLock).
THEOREM PromptStoresExclude ==
  ASSUME MaxFaults = 0, SlowHolders = FALSE
  PROVE  Spec => []MutualExclusion
<1>1. OwnLock => MutualExclusion
  BY DEF OwnLock, MutualExclusion
<1>2. OwnLock /\ [Next]_vars => OwnLock'
  BY OwnLockStep
<1>. QED
  BY OwnLockInit, <1>1, <1>2, PTL DEF Spec

-----------------------------------------------------------------------------
\* In one store only the head of the promise chain is past its start.
ChainLeads == /\ queue \in [Stores -> Seq(Ops)]
              /\ pc \in [Ops -> Locations]
              /\ \A o \in Ops : pc[o] \in Waiting \cup Holding => Leads(o)

LEMMA ChainLeadsInit == Init => ChainLeads
BY DEF Init, ChainLeads, Leads, Locations, Waiting, Holding

\* An update that moves on without leaving the chain keeps the invariant if it
\* is, or just became, one that leads its chain.
LEMMA MovesAlong ==
  ASSUME NEW o \in Ops, NEW from, NEW to \in Locations, Goto(o, from, to), ChainLeads,
         UNCHANGED queue,
         to \in Waiting \cup Holding => Leads(o)
  PROVE  ChainLeads'
BY DEF Goto, ChainLeads, Leads

\* When the leader of a chain settles, no other update of it has started.
LEMMA LeaderSettles ==
  ASSUME NEW o \in Ops, ChainLeads, Settled(o), NEW to \in Ended,
         Leads(o), pc' = [pc EXCEPT ![o] = to]
  PROVE  ChainLeads'
<1>1. StoreOf[o] \in Stores
  BY StoreAssumption
<1>2. Tail(queue[StoreOf[o]]) \in Seq(Ops)
  BY <1>1 DEF ChainLeads, Leads
<1>3. queue' \in [Stores -> Seq(Ops)]
  BY <1>1, <1>2 DEF Settled, ChainLeads, Leads
<1>4. ASSUME NEW p \in Ops, pc'[p] \in Waiting \cup Holding
      PROVE  queue'[StoreOf[p]] = queue[StoreOf[p]] /\ p # o
  <2>1. p # o
    BY <1>4 DEF ChainLeads, Leads, Waiting, Holding, Ended
  <2>2. pc[p] \in Waiting \cup Holding
    BY <1>4, <2>1 DEF ChainLeads, Leads
  <2>3. StoreOf[p] # StoreOf[o]
    BY <2>1, <2>2 DEF ChainLeads, Leads
  <2>. QED
    BY <1>1, <2>1, <2>3, StoreAssumption DEF Settled, ChainLeads, Leads
<1>. QED
  BY <1>3, <1>4 DEF ChainLeads, Leads, Locations

LEMMA ChainLeadsStep == ASSUME ChainLeads, [Next]_vars PROVE ChainLeads'
<1>0. \A o \in Ops : StoreOf[o] \in Stores
  BY StoreAssumption
<1>1. CASE UNCHANGED vars
  BY <1>1 DEF vars, ChainLeads, Leads
<1>2. ASSUME NEW o \in Ops, Update(o) PROVE ChainLeads'
  <2> DEFINE s == StoreOf[o]
  <2>1. queue' = [queue EXCEPT ![s] = Append(@, o)] /\ queue[s] \in Seq(Ops)
    BY <1>0, <1>2 DEF Update, ChainLeads, Leads
  <2>2. Append(queue[s], o) \in Seq(Ops)
    BY <2>1
  <2>3. queue' \in [Stores -> Seq(Ops)]
    BY <1>0, <2>1, <2>2 DEF ChainLeads, Leads
  <2>4. ASSUME NEW p \in Ops, pc'[p] \in Waiting \cup Holding
        PROVE  Leads(p)'
    <3>1. queue[StoreOf[p]] # <<>> /\ Head(queue[StoreOf[p]]) = p
      BY <1>2, <2>4 DEF Update, Goto, ChainLeads, Leads, Waiting, Holding
    <3>2. CASE StoreOf[p] = s
      <4>1. Append(queue[s], o) # <<>> /\ Head(Append(queue[s], o)) = Head(queue[s])
        BY <2>1, <3>1, <3>2
      <4>. QED
        BY <4>1, <3>1, <3>2, <2>1, <1>0 DEF ChainLeads, Leads
    <3>3. CASE StoreOf[p] # s
      BY <3>1, <3>3, <2>1, <1>0 DEF ChainLeads, Leads
    <3>. QED
      BY <3>2, <3>3
  <2>. QED
    BY <1>2, <2>3, <2>4 DEF Update, Goto, ChainLeads, Leads, Locations
<1>3. ASSUME NEW o \in Ops, Step(o) PROVE ChainLeads'
  <2>0. queue[StoreOf[o]] \in Seq(Ops)
    BY <1>0 DEF ChainLeads, Leads
  <2>1. CASE Start(o)
    BY <2>1, MovesAlong DEF Start, Locations, Waiting
  <2>2. CASE OpenLock(o)
    BY <2>2, MovesAlong DEF OpenLock, Goto, ChainLeads, Leads, Locations, Waiting, Holding
  <2>3. CASE LockExists(o)
    BY <2>3, MovesAlong DEF LockExists, Goto, ChainLeads, Leads, Locations, Waiting, Holding
  <2>4. CASE StatLock(o)
    BY <2>4, MovesAlong DEF StatLock, Goto, ChainLeads, Leads, Locations, Waiting, Holding
  <2>5. ASSUME pc[o] \in {"break", "delay"}, NextAttempt(o) PROVE ChainLeads'
    <3>1. CASE pc' = [pc EXCEPT ![o] = "open"] /\ UNCHANGED queue
      BY <2>5, <3>1 DEF ChainLeads, Leads, Locations, Waiting, Holding
    <3>2. CASE pc' = [pc EXCEPT ![o] = "failed"] /\ Settled(o)
      BY <2>5, <3>2, LeaderSettles DEF ChainLeads, Waiting, Ended
    <3>. QED
      BY <2>5, <3>1, <3>2 DEF NextAttempt
  <2>6. CASE BreakLock(o) \/ Retry(o)
    BY <2>5, <2>6 DEF BreakLock, Retry
  <2>7. CASE ReadState(o)
    BY <2>7, MovesAlong DEF ReadState, Goto, ChainLeads, Leads, Locations, Waiting, Holding
  <2>8. CASE Throw(o)
    BY <2>8, MovesAlong DEF Throw, Goto, ChainLeads, Leads, Locations, Waiting, Holding
  <2>9. CASE Mutate(o)
    BY <2>9, MovesAlong DEF Mutate, Goto, ChainLeads, Leads, Locations, Waiting, Holding
  <2>10. CASE WriteState(o)
    BY <2>10, MovesAlong DEF WriteState, Goto, ChainLeads, Leads, Locations, Waiting, Holding
  <2>11. CASE Unlock(o)
    BY <2>11, LeaderSettles DEF Unlock, Goto, ChainLeads, Holding, Ended
  <2>. QED
    BY <1>3, <2>1, <2>2, <2>3, <2>4, <2>6, <2>7, <2>8, <2>9, <2>10, <2>11 DEF Step
<1>4. ASSUME NEW o \in Ops, IOError(o) PROVE ChainLeads'
  <2>1. CASE LockWriteFails(o)
    BY <2>1, LeaderSettles DEF LockWriteFails, Goto, ChainLeads, Waiting, Ended
  <2>2. CASE LockingFails(o)
    BY <2>2, LeaderSettles DEF LockingFails, Goto, ChainLeads, Waiting, Ended
  <2>3. CASE ChmodFails(o)
    BY <2>3, MovesAlong DEF ChmodFails, Goto, ChainLeads, Leads, Locations, Waiting, Holding
  <2>4. CASE UnlockFails(o)
    BY <2>4, LeaderSettles DEF UnlockFails, Goto, ChainLeads, Holding, Ended
  <2>. QED
    BY <1>4, <2>1, <2>2, <2>3, <2>4 DEF IOError
<1>5. ASSUME NEW s \in Stores, Crash(s) PROVE ChainLeads'
  <2>1. queue' = [queue EXCEPT ![s] = <<>>] /\ queue[s] \in Seq(Ops)
    BY <1>5 DEF Crash, ChainLeads, Leads
  <2>2. <<>> \in Seq(Ops)
    OBVIOUS
  <2>3. queue' \in [Stores -> Seq(Ops)]
    BY <2>1, <2>2 DEF ChainLeads, Leads
  <2>4. pc' \in [Ops -> Locations]
    BY <1>5 DEF Crash, ChainLeads, Leads, Locations, Ended
  <2>5. ASSUME NEW o \in Ops, pc'[o] \in Waiting \cup Holding
        PROVE  Leads(o)'
    <3>1. pc[o] \in Waiting \cup Holding /\ o \notin Pending(s)
      BY <1>5, <2>5 DEF Crash, Waiting, Holding
    <3>2. Leads(o)
      BY <3>1 DEF ChainLeads
    <3>3. StoreOf[o] # s
      BY <3>1 DEF Pending, Known, Waiting, Holding, Ended
    <3>. QED
      BY <3>2, <3>3, <2>1, <1>0 DEF ChainLeads, Leads
  <2>. QED
    BY <2>3, <2>4, <2>5 DEF ChainLeads, Leads
<1>6. CASE LockAges
  BY <1>6 DEF LockAges, ChainLeads, Leads
<1>. QED
  BY <1>1, <1>2, <1>3, <1>4, <1>5, <1>6 DEF Next

\* One store excludes its own updates whatever happens to the lock file: after
\* crashes, I/O errors at any call and stalls of any length (update).
THEOREM OneStoreExcludes ==
  ASSUME NEW s, Stores = {s}
  PROVE  Spec => []MutualExclusion
<1>1. ChainLeads => MutualExclusion
  <2>. \A o \in Ops : StoreOf[o] = s
    BY StoreAssumption
  <2>. QED
    BY DEF ChainLeads, Leads, MutualExclusion
<1>2. ChainLeads /\ [Next]_vars => ChainLeads'
  BY ChainLeadsStep
<1>. QED
  BY ChainLeadsInit, <1>1, <1>2, PTL DEF Spec
-----------------------------------------------------------------------------
\* Under exclusion the holder's snapshot is the file, and the location of an
\* update tells whether the file contains it.
Before == {"idle", "queued", "failed"} \cup Waiting \cup (Holding \ {"unlink", "unlinkError"})

FileMatches == /\ pc \in [Ops -> Locations]
               /\ file \in Seq(Ops)
               /\ snapshot \in [Ops -> Seq(Ops)]
               /\ \A o \in Ops : pc[o] \in {"unlink", "done"} => o \in Range(file)
               /\ \A o \in Ops : pc[o] \in Before => o \notin Range(file)
               /\ \A o \in Ops : pc[o] \in {"mutate", "write"} => snapshot[o] = file

\* What an append adds to the range of a sequence.
LEMMA RangeAppend ==
  ASSUME NEW S, NEW s \in Seq(S), NEW e \in S
  PROVE  Append(s, e) \in Seq(S) /\ Range(Append(s, e)) = Range(s) \cup {e}
<1>1. /\ Append(s, e) \in Seq(S) /\ Len(Append(s, e)) = Len(s) + 1
      /\ Append(s, e)[Len(s) + 1] = e
      /\ \A i \in 1..Len(s) : Append(s, e)[i] = s[i]
  OBVIOUS
<1>2. DOMAIN s = 1..Len(s) /\ DOMAIN Append(s, e) = 1..(Len(s) + 1) /\ Len(s) \in Nat
  BY <1>1
<1>3. \A i : i \in 1..(Len(s) + 1) <=> i \in 1..Len(s) \/ i = Len(s) + 1
  BY <1>2
<1>. QED
  BY <1>1, <1>2, <1>3 DEF Range

LEMMA FileMatchesInit == Init => FileMatches
<1>1. <<>> \in Seq(Ops) /\ Range(<<>>) = {}
  BY DEF Range
<1>. QED
  BY <1>1 DEF Init, FileMatches, Before, Locations, Waiting, Holding

\* An update that moves on without a write keeps the invariant.
LEMMA MovesUnwritten ==
  ASSUME NEW o \in Ops, NEW to \in Locations, pc' = [pc EXCEPT ![o] = to], FileMatches,
         UNCHANGED file,
         \/ UNCHANGED snapshot /\ (to \in {"mutate", "write"} => pc[o] \in {"mutate", "write"})
         \/ snapshot' = [snapshot EXCEPT ![o] = file]
         \/ snapshot' = [snapshot EXCEPT ![o] = <<>>] /\ to \notin {"mutate", "write"},
         to \in {"unlink", "done"} => pc[o] = "unlink",
         to \in Before => pc[o] \in Before
  PROVE  FileMatches'
<1>1. <<>> \in Seq(Ops)
  OBVIOUS
<1>. QED
  BY <1>1 DEF FileMatches

LEMMA FileMatchesStep == ASSUME FileMatches, MutualExclusion, [Next]_vars PROVE FileMatches'
<1>1. CASE UNCHANGED vars
  BY <1>1 DEF vars, FileMatches
<1>2. ASSUME NEW o \in Ops, Update(o) PROVE FileMatches'
  BY <1>2, MovesUnwritten DEF Update, Goto, Locations, Before, Waiting, Holding
<1>3. ASSUME NEW o \in Ops, Step(o) PROVE FileMatches'
  <2>1. CASE Start(o)
    BY <2>1, MovesUnwritten DEF Start, Goto, Locations, Before, Waiting, Holding
  <2>2. CASE OpenLock(o)
    BY <2>2, MovesUnwritten DEF OpenLock, Goto, Locations, Before, Waiting, Holding
  <2>3. CASE LockExists(o)
    BY <2>3, MovesUnwritten DEF LockExists, Goto, Locations, Before, Waiting, Holding
  <2>4. CASE StatLock(o)
    BY <2>4, MovesUnwritten DEF StatLock, Goto, Locations, Before, Waiting, Holding
  <2>5. CASE BreakLock(o) \/ Retry(o)
    BY <2>5, MovesUnwritten
       DEF BreakLock, Retry, NextAttempt, Locations, Before, Waiting, Holding, Ended
  <2>6. CASE ReadState(o)
    BY <2>6, MovesUnwritten DEF ReadState, Goto, Locations, Before, Waiting, Holding
  <2>7. CASE Throw(o)
    BY <2>7, MovesUnwritten DEF Throw, Goto, Locations, Before, Waiting, Holding
  <2>8. CASE Mutate(o)
    BY <2>8, MovesUnwritten DEF Mutate, Goto, Locations, Before, Waiting, Holding
  <2>9. CASE WriteState(o)
    <3>1. /\ pc[o] = "write" /\ pc' = [pc EXCEPT ![o] = "unlink"]
          /\ snapshot[o] = file /\ file' = Append(file, o) /\ snapshot' = snapshot
      BY <2>9 DEF WriteState, Goto, FileMatches
    <3>2. file' \in Seq(Ops) /\ Range(file') = Range(file) \cup {o}
      BY <3>1, RangeAppend DEF FileMatches
    <3>3. \A p \in Ops \ {o} : pc[p] \notin {"mutate", "write"}
      BY <3>1 DEF MutualExclusion, Holding
    <3>. QED
      BY <3>1, <3>2, <3>3 DEF FileMatches, Locations, Before, Waiting, Holding
  <2>10. CASE Unlock(o)
    BY <2>10, MovesUnwritten DEF Unlock, Goto, Locations, Before, Waiting, Holding, Ended
  <2>. QED
    BY <1>3, <2>1, <2>2, <2>3, <2>4, <2>5, <2>6, <2>7, <2>8, <2>9, <2>10 DEF Step
<1>4. ASSUME NEW o \in Ops, IOError(o) PROVE FileMatches'
  <2>1. CASE LockWriteFails(o)
    BY <2>1, MovesUnwritten DEF LockWriteFails, Goto, Locations, Before, Waiting, Holding, Ended
  <2>2. CASE LockingFails(o)
    BY <2>2, MovesUnwritten DEF LockingFails, Goto, Locations, Before, Waiting, Holding, Ended
  <2>3. CASE ChmodFails(o)
    BY <2>3, MovesUnwritten DEF ChmodFails, Goto, Locations, Before, Waiting, Holding
  <2>4. CASE UnlockFails(o)
    BY <2>4, MovesUnwritten DEF UnlockFails, Goto, Locations, Before, Waiting, Holding, Ended
  <2>. QED
    BY <1>4, <2>1, <2>2, <2>3, <2>4 DEF IOError
<1>5. ASSUME NEW s \in Stores, Crash(s) PROVE FileMatches'
  <2>1. /\ pc' = [o \in Ops |-> IF o \in Pending(s) THEN "crashed" ELSE pc[o]]
        /\ snapshot' = [o \in Ops |-> IF o \in Pending(s) THEN <<>> ELSE snapshot[o]]
        /\ file' = file
    BY <1>5 DEF Crash
  <2>2. "crashed" \in Locations /\ "crashed" \notin Before /\ <<>> \in Seq(Ops)
    BY DEF Locations, Ended, Before, Waiting, Holding
  <2>. QED
    BY <2>1, <2>2 DEF FileMatches
<1>6. CASE LockAges
  BY <1>6 DEF LockAges, FileMatches
<1>. QED
  BY <1>1, <1>2, <1>3, <1>4, <1>5, <1>6 DEF Next

-----------------------------------------------------------------------------
\* What the callers know, and how it changes when one update moves on.
Knowledge == [o \in Ops |-> Known(pc[o])]

LEMMA KnowledgeMoves ==
  ASSUME NEW o \in Ops, NEW to \in Locations, pc \in [Ops -> Locations],
         pc' = [pc EXCEPT ![o] = to]
  PROVE  Knowledge' = [Knowledge EXCEPT ![o] = Known(to)]
BY DEF Knowledge

\* A step that neither settles an update nor writes is invisible.
LEMMA Unseen ==
  ASSUME NEW o \in Ops, NEW to \in Locations, pc \in [Ops -> Locations],
         pc' = [pc EXCEPT ![o] = to], Known(to) = Known(pc[o]), UNCHANGED file
  PROVE  UNCHANGED Promise!avars
<1>1. Knowledge' = Knowledge
  BY KnowledgeMoves DEF Knowledge
<1>. QED
  BY <1>1 DEF Knowledge, Promise!avars

\* A step that settles an update tells its caller what the file says.
LEMMA Answered ==
  ASSUME NEW o \in Ops, NEW to \in {"done", "failed"}, FileMatches,
         pc' = [pc EXCEPT ![o] = to], Known(pc[o]) = "pending", UNCHANGED file,
         to = "done" => pc[o] = "unlink",
         to = "failed" => pc[o] \in Before
  PROVE  Promise!Return(o)
<1>1. to \in Locations /\ Known(to) = to
  BY DEF Locations, Known, Ended
<1>2. Knowledge' = [Knowledge EXCEPT ![o] = to] /\ Knowledge[o] = "pending"
  BY <1>1, KnowledgeMoves DEF Knowledge, FileMatches
<1>3. Promise!Applied(o) <=> to = "done"
  BY DEF FileMatches, Promise!Applied, Promise!Range, Range, Before, Locations, Known, Waiting, Holding, Ended
<1>. QED
  <2>1. /\ Knowledge[o] = "pending" /\ file' = file
        /\ Knowledge' = [Knowledge EXCEPT ![o] =
                           IF Promise!Applied(o) THEN "done" ELSE "failed"]
    BY <1>2, <1>3
  <2>. QED
    BY <2>1 DEF Promise!Return, Knowledge

\* An I/O error settles an update and tells its caller nothing.
LEMMA AnsweredUnknown ==
  ASSUME NEW o \in Ops, pc \in [Ops -> Locations],
         pc' = [pc EXCEPT ![o] = "ioError"], Known(pc[o]) = "pending", UNCHANGED file
  PROVE  Promise!ReturnError(o)
<1>1. "ioError" \in Locations /\ Known("ioError") = "ioError"
  BY DEF Locations, Known, Ended
<1>2. Knowledge' = [Knowledge EXCEPT ![o] = "ioError"] /\ Knowledge[o] = "pending"
  BY <1>1, KnowledgeMoves DEF Knowledge
<1>. QED
  BY <1>2 DEF Promise!ReturnError, Knowledge

LEMMA AtomicStep ==
  ASSUME FileMatches, [Next]_vars
  PROVE  [Promise!ANext]_(Promise!avars)
<1>0. pc \in [Ops -> Locations]
  BY DEF FileMatches
<1>1. CASE UNCHANGED vars
  BY <1>1 DEF vars, Promise!avars
<1>2. ASSUME NEW o \in Ops, Update(o) PROVE Promise!Call(o)
  <2>1. "queued" \in Locations /\ Known("queued") = "pending" /\ Known("idle") = "idle"
    BY DEF Locations, Known, Ended
  <2>2. Knowledge' = [Knowledge EXCEPT ![o] = "pending"] /\ Knowledge[o] = "idle"
    BY <1>0, <1>2, <2>1, KnowledgeMoves DEF Update, Goto, Knowledge
  <2>. QED
    BY <1>2, <2>2 DEF Update, Promise!Call, Knowledge
<1>3. ASSUME NEW o \in Ops, Step(o)
      PROVE  \/ UNCHANGED Promise!avars
             \/ Promise!Apply(o) \/ Promise!Return(o) \/ Promise!ReturnError(o)
  <2>1. CASE Start(o)
    BY <1>0, <2>1, Unseen DEF Start, Goto, Locations, Known, Waiting, Holding, Ended
  <2>2. CASE OpenLock(o)
    BY <1>0, <2>2, Unseen DEF OpenLock, Goto, Locations, Known, Waiting, Holding, Ended
  <2>3. CASE LockExists(o)
    BY <1>0, <2>3, Unseen DEF LockExists, Goto, Locations, Known, Waiting, Holding, Ended
  <2>4. CASE StatLock(o)
    BY <1>0, <2>4, Unseen DEF StatLock, Goto, Locations, Known, Waiting, Holding, Ended
  <2>5. CASE BreakLock(o) \/ Retry(o)
    <3>1. UNCHANGED file /\ pc[o] \in {"break", "delay"} /\ Known(pc[o]) = "pending"
      BY <2>5 DEF BreakLock, Retry, Known, Ended
    <3>2. CASE pc' = [pc EXCEPT ![o] = "open"]
      BY <1>0, <3>1, <3>2, Unseen DEF Locations, Known, Waiting, Holding, Ended
    <3>3. CASE pc' = [pc EXCEPT ![o] = "failed"]
      BY <3>1, <3>3, Answered DEF Before, Waiting
    <3>. QED
      BY <2>5, <3>2, <3>3 DEF BreakLock, Retry, NextAttempt
  <2>6. CASE ReadState(o)
    BY <1>0, <2>6, Unseen DEF ReadState, Goto, Locations, Known, Waiting, Holding, Ended
  <2>7. CASE Throw(o)
    BY <1>0, <2>7, Unseen DEF Throw, Goto, Locations, Known, Waiting, Holding, Ended
  <2>8. CASE Mutate(o)
    BY <1>0, <2>8, Unseen DEF Mutate, Goto, Locations, Known, Waiting, Holding, Ended
  <2>9. CASE WriteState(o)
    <3>1. /\ pc[o] = "write" /\ pc' = [pc EXCEPT ![o] = "unlink"]
          /\ file' = Append(file, o) /\ o \notin Range(file)
      BY <2>9 DEF WriteState, Goto, FileMatches, Before, Holding
    <3>2. /\ "unlink" \in Locations
          /\ Known("unlink") = "pending" /\ Known("write") = "pending"
      BY DEF Locations, Holding, Known, Ended
    <3>3. Knowledge' = Knowledge /\ Knowledge[o] = "pending"
      BY <1>0, <3>1, <3>2, KnowledgeMoves DEF Knowledge
    <3>. QED
      BY <3>1, <3>3, Zenon DEF Promise!Apply, Promise!Applied, Promise!Range, Range, Knowledge
  <2>10. CASE Unlock(o)
    <3>1. UNCHANGED file /\ pc[o] \in {"unlink", "unlinkFailed", "unlinkError"}
          /\ Known(pc[o]) = "pending"
      BY <2>10 DEF Unlock, Goto, Known, Ended
    <3>2. CASE Goto(o, "unlinkError", "ioError")
      BY <1>0, <3>1, <3>2, AnsweredUnknown DEF Goto
    <3>3. CASE Goto(o, "unlink", "done") \/ Goto(o, "unlinkFailed", "failed")
      BY <3>1, <3>3, Answered DEF Goto, Before, Holding
    <3>. QED
      BY <2>10, <3>2, <3>3 DEF Unlock
  <2>. QED
    BY <1>3, <2>1, <2>2, <2>3, <2>4, <2>5, <2>6, <2>7, <2>8, <2>9, <2>10 DEF Step
<1>4. ASSUME NEW o \in Ops, IOError(o)
      PROVE  UNCHANGED Promise!avars \/ Promise!Return(o) \/ Promise!ReturnError(o)
  <2>1. CASE LockWriteFails(o)
    BY <2>1, Answered DEF LockWriteFails, Goto, Known, Ended, Before, Waiting
  <2>2. CASE LockingFails(o)
    BY <2>2, Answered DEF LockingFails, Goto, Known, Ended, Before, Waiting
  <2>3. CASE ChmodFails(o)
    BY <1>0, <2>3, Unseen DEF ChmodFails, Goto, Locations, Known, Holding, Ended
  <2>4. CASE UnlockFails(o)
    <3>1. Known(pc[o]) = "pending" /\ UNCHANGED file /\ pc' = [pc EXCEPT ![o] = "ioError"]
      BY <2>4 DEF UnlockFails, Goto, Known, Ended
    <3>. QED
      BY <1>0, <3>1, AnsweredUnknown
  <2>. QED
    BY <1>4, <2>1, <2>2, <2>3, <2>4 DEF IOError
<1>5. ASSUME NEW s \in Stores, Crash(s) PROVE Promise!Die(Pending(s))
  <2>1. UNCHANGED file /\ pc' = [o \in Ops |-> IF o \in Pending(s) THEN "crashed" ELSE pc[o]]
    BY <1>5 DEF Crash
  <2>2. Known("crashed") = "crashed"
    BY DEF Known, Ended
  <2>3. Knowledge' = [o \in Ops |-> IF o \in Pending(s) THEN "crashed" ELSE Knowledge[o]]
    BY <2>1, <2>2 DEF Knowledge
  <2>4. \A o \in Pending(s) : Knowledge[o] = "pending"
    BY DEF Pending, Knowledge
  <2>. QED
    BY <2>1, <2>3, <2>4 DEF Promise!Die, Knowledge
<1>6. CASE LockAges
  BY <1>6 DEF LockAges, Promise!avars
<1>7. \A s \in Stores : Pending(s) \in SUBSET Ops
  BY DEF Pending
<1>. QED
  BY <1>1, <1>2, <1>3, <1>4, <1>5, <1>6, <1>7 DEF Next, Promise!ANext

\* Wherever the lock excludes, the store is atomic: update by update, its
\* file and its answers are those of AtomicStore, an I/O error after the rename
\* being the one answer that says nothing (update, withFileLock, write).
THEOREM ExclusionSuffices == Spec /\ []MutualExclusion => ImplementsAtomicStore
<1>1. Init => Promise!AInit
  BY DEF Init, Promise!AInit, Known
<1>. QED
  BY <1>1, FileMatchesInit, FileMatchesStep, AtomicStep, PTL
     DEF Spec, ImplementsAtomicStore, Promise!ASpec

\* Stores that neither crash nor stall nor meet an I/O error implement it.
THEOREM PromptStoresAreAtomic ==
  ASSUME MaxFaults = 0, SlowHolders = FALSE
  PROVE  Spec => ImplementsAtomicStore
<1>1. Spec => []MutualExclusion
  BY PromptStoresExclude
<1>. QED
  BY <1>1, ExclusionSuffices, PTL

\* One store implements it through crashes, I/O errors and stalls.
THEOREM OneStoreIsAtomic ==
  ASSUME NEW s, Stores = {s}
  PROVE  Spec => ImplementsAtomicStore
<1>1. Spec => []MutualExclusion
  BY OneStoreExcludes
<1>. QED
  BY <1>1, ExclusionSuffices, PTL
-----------------------------------------------------------------------------
\* An update that has not been started is in no file and in no snapshot.
Unstarted == {"idle", "queued"}

NotAhead == /\ file \in Seq(Ops) /\ snapshot \in [Ops -> Seq(Ops)]
            /\ \A o \in Ops : pc[o] \in Unstarted =>
                 o \notin Range(file) /\ \A p \in Ops : o \notin Range(snapshot[p])

\* A chain holds different updates of its own store; the first is under way or
\* about to start, the others wait for it.
ChainInOrder == \A s \in Stores :
  /\ \A i, j \in DOMAIN queue[s] : queue[s][i] = queue[s][j] => i = j
  /\ \A i \in DOMAIN queue[s] :
       /\ StoreOf[queue[s][i]] = s
       /\ pc[queue[s][i]] \notin {"idle"} \cup Ended
       /\ i # 1 => pc[queue[s][i]] = "queued"

\* The attempts that are left.
AttemptsLeft == /\ attempt \in [Ops -> 0..MaxAttempts]
                /\ \A o \in Ops : pc[o] \in Unstarted \cup Waiting => attempt[o] < MaxAttempts

FifoInv == TypeOK /\ ChainLeads /\ NotAhead /\ ChainInOrder /\ AttemptsLeft

LEMMA FifoInit == Init => FifoInv
<1>1. <<>> \in Seq(Ops) /\ Range(<<>>) = {} /\ DOMAIN <<>> = {}
  BY DEF Range
<1>2. Init => NotAhead
  BY <1>1 DEF Init, NotAhead
<1>3. Init => ChainInOrder
  BY <1>1 DEF Init, ChainInOrder
<1>4. Init => AttemptsLeft
  BY StoreAssumption DEF Init, AttemptsLeft
<1>5. Init => TypeOK
  BY <1>1, StoreAssumption DEF Init, TypeOK, Locations
<1>. QED
  BY <1>2, <1>3, <1>4, <1>5, ChainLeadsInit DEF FifoInv

\* A step that neither reads nor writes the document and starts nothing anew.
LEMMA StaysBehind ==
  ASSUME NotAhead, UNCHANGED file,
         \A o \in Ops : pc'[o] \in Unstarted => pc[o] \in Unstarted,
         snapshot' \in [Ops -> Seq(Ops)],
         \A o \in Ops : snapshot'[o] \in {snapshot[o], file, <<>>}
  PROVE  NotAhead'
<1>1. Range(<<>>) = {}
  BY DEF Range
<1>. QED
  BY <1>1 DEF NotAhead

LEMMA NotAheadStep == ASSUME TypeOK, NotAhead, [Next]_vars PROVE NotAhead'
<1>0. <<>> \in Seq(Ops) /\ file \in Seq(Ops)
  BY DEF NotAhead
<1>1. CASE UNCHANGED vars
  BY <1>1 DEF vars, NotAhead
<1>2. ASSUME NEW o \in Ops, Update(o) PROVE NotAhead'
  BY <1>2, StaysBehind DEF Update, Goto, TypeOK, Unstarted, NotAhead
<1>3. ASSUME NEW o \in Ops, Step(o) PROVE NotAhead'
  <2>1. CASE Start(o) \/ OpenLock(o) \/ LockExists(o) \/ StatLock(o) \/ Throw(o) \/ Mutate(o)
    BY <2>1, StaysBehind
       DEF Start, OpenLock, LockExists, StatLock, Throw, Mutate, Goto, TypeOK, Unstarted, NotAhead
  <2>2. CASE BreakLock(o) \/ Retry(o)
    BY <2>2, StaysBehind DEF BreakLock, Retry, NextAttempt, TypeOK, Unstarted, NotAhead
  <2>3. CASE ReadState(o)
    BY <1>0, <2>3, StaysBehind DEF ReadState, Goto, TypeOK, Unstarted, NotAhead
  <2>4. CASE WriteState(o)
    <3>1. /\ pc[o] = "write" /\ pc' = [pc EXCEPT ![o] = "unlink"]
          /\ file' = Append(snapshot[o], o) /\ snapshot' = snapshot
      BY <2>4 DEF WriteState, Goto
    <3>2. file' \in Seq(Ops) /\ Range(file') = Range(snapshot[o]) \cup {o}
      BY <3>1, RangeAppend DEF NotAhead
    <3>. QED
      BY <3>1, <3>2 DEF NotAhead, TypeOK, Unstarted
  <2>5. CASE Unlock(o)
    BY <1>0, <2>5, StaysBehind DEF Unlock, Goto, TypeOK, Unstarted, NotAhead
  <2>. QED
    BY <1>3, <2>1, <2>2, <2>3, <2>4, <2>5 DEF Step
<1>4. ASSUME NEW o \in Ops, IOError(o) PROVE NotAhead'
  BY <1>0, <1>4, StaysBehind
     DEF IOError, LockWriteFails, LockingFails, ChmodFails, UnlockFails, Goto,
         TypeOK, Unstarted, NotAhead
<1>5. ASSUME NEW s \in Stores, Crash(s) PROVE NotAhead'
  BY <1>0, <1>5, StaysBehind DEF Crash, Unstarted, NotAhead
<1>6. CASE LockAges
  BY <1>6 DEF LockAges, NotAhead
<1>. QED
  BY <1>1, <1>2, <1>3, <1>4, <1>5, <1>6 DEF Next

\* The leader of a chain is its first element and no other.
LEMMA LeaderIsFirst ==
  ASSUME NEW o \in Ops, ChainLeads, ChainInOrder, Leads(o)
  PROVE  /\ StoreOf[o] \in Stores /\ 1 \in DOMAIN queue[StoreOf[o]]
         /\ \A s \in Stores : \A i \in DOMAIN queue[s] :
              queue[s][i] = o => s = StoreOf[o] /\ i = 1
<1>1. StoreOf[o] \in Stores
  BY StoreAssumption
<1>2. queue[StoreOf[o]] \in Seq(Ops) /\ queue[StoreOf[o]] # <<>>
  BY <1>1 DEF ChainLeads, Leads
<1>3. 1 \in DOMAIN queue[StoreOf[o]] /\ queue[StoreOf[o]][1] = o
  BY <1>2 DEF Leads
<1>. QED
  BY <1>1, <1>3 DEF ChainInOrder

LEMMA LeaderMoves ==
  ASSUME NEW o \in Ops, ChainLeads, ChainInOrder, Leads(o), UNCHANGED queue,
         NEW to \in Waiting \cup Holding, pc' = [pc EXCEPT ![o] = to]
  PROVE  ChainInOrder'
<1>1. ASSUME NEW s \in Stores, NEW i \in DOMAIN queue[s]
      PROVE  /\ pc'[queue[s][i]] \notin {"idle"} \cup Ended
             /\ i # 1 => pc'[queue[s][i]] = "queued"
  <2>1. queue[s][i] \in Ops
    BY <1>1 DEF ChainLeads
  <2>2. CASE queue[s][i] = o
    BY <2>1, <2>2, LeaderIsFirst DEF ChainLeads, Waiting, Holding, Ended
  <2>3. CASE queue[s][i] # o
    BY <2>1, <2>3 DEF ChainInOrder, ChainLeads
  <2>. QED
    BY <2>2, <2>3
<1>. QED
  BY <1>1 DEF ChainInOrder

LEMMA LeaderLeaves ==
  ASSUME NEW o \in Ops, ChainLeads, ChainInOrder, Leads(o), Settled(o),
         NEW to \in Ended, pc' = [pc EXCEPT ![o] = to]
  PROVE  ChainInOrder'
<1> DEFINE t == StoreOf[o]
<1>1. t \in Stores /\ queue[t] \in Seq(Ops) /\ queue[t] # <<>>
  BY StoreAssumption DEF ChainLeads, Leads
<1>2. queue' = [queue EXCEPT ![t] = Tail(queue[t])]
  BY DEF Settled
<1>3. DOMAIN Tail(queue[t]) = 1..Len(Tail(queue[t])) /\ DOMAIN queue[t] = 1..Len(queue[t])
  BY <1>1
<1>4. /\ Len(Tail(queue[t])) = Len(queue[t]) - 1 /\ Len(queue[t]) \in Nat
      /\ \A i \in 1..Len(Tail(queue[t])) : Tail(queue[t])[i] = queue[t][i + 1]
  BY <1>1, HeadTailProperties
<1>5. \A i \in DOMAIN Tail(queue[t]) :
        /\ i + 1 \in DOMAIN queue[t] /\ i + 1 # 1 /\ i \in Nat
        /\ Tail(queue[t])[i] = queue[t][i + 1]
  BY <1>3, <1>4
<1>6. ASSUME NEW s \in Stores, NEW i \in DOMAIN queue'[s]
      PROVE  \E j \in DOMAIN queue[s] :
               /\ queue'[s][i] = queue[s][j] /\ queue[s][j] # o
               /\ i \in Nat /\ j = IF s = t THEN i + 1 ELSE i
               /\ (i # 1 \/ s = t) => j # 1
  <2>1. CASE s = t
    <3>1. queue'[s] = Tail(queue[t])
      BY <1>1, <1>2, <2>1 DEF ChainLeads
    <3>. QED
      BY <1>5, <1>6, <2>1, <3>1, LeaderIsFirst
  <2>2. CASE s # t
    <3>1. queue'[s] = queue[s] /\ queue[s] \in Seq(Ops)
      BY <1>1, <1>2, <2>2 DEF ChainLeads
    <3>. QED
      BY <1>6, <2>2, <3>1, LeaderIsFirst
  <2>. QED
    BY <2>1, <2>2
<1>7. ASSUME NEW s \in Stores, NEW i \in DOMAIN queue'[s]
      PROVE  /\ StoreOf[queue'[s][i]] = s
             /\ pc'[queue'[s][i]] \notin {"idle"} \cup Ended
             /\ i # 1 => pc'[queue'[s][i]] = "queued"
  <2>1. PICK j \in DOMAIN queue[s] :
               /\ queue'[s][i] = queue[s][j] /\ queue[s][j] # o
               /\ (i # 1 \/ s = t) => j # 1
    BY <1>6, <1>7
  <2>2. queue[s][j] \in Ops
    BY DEF ChainLeads
  <2>3. pc'[queue[s][j]] = pc[queue[s][j]]
    BY <2>1, <2>2 DEF ChainLeads
  <2>. QED
    BY <2>1, <2>3 DEF ChainInOrder
<1>8. ASSUME NEW s \in Stores, NEW i \in DOMAIN queue'[s], NEW k \in DOMAIN queue'[s],
             queue'[s][i] = queue'[s][k]
      PROVE  i = k
  <2>1. PICK j \in DOMAIN queue[s] :
               queue'[s][i] = queue[s][j] /\ i \in Nat /\ j = IF s = t THEN i + 1 ELSE i
    BY <1>6, <1>8
  <2>2. PICK l \in DOMAIN queue[s] :
               queue'[s][k] = queue[s][l] /\ k \in Nat /\ l = IF s = t THEN k + 1 ELSE k
    BY <1>6, <1>8
  <2>3. queue[s][j] = queue[s][l]
    BY <1>8, <2>1, <2>2
  <2>4. j = l
    BY <2>3 DEF ChainInOrder
  <2>. QED
    BY <2>1, <2>2, <2>4
<1>. QED
  BY <1>7, <1>8 DEF ChainInOrder

LEMMA ChainGrows ==
  ASSUME NEW o \in Ops, ChainLeads, ChainInOrder, Update(o)
  PROVE  ChainInOrder'
<1> DEFINE t == StoreOf[o]
<1>1. t \in Stores /\ queue[t] \in Seq(Ops)
  BY StoreAssumption DEF ChainLeads
<1>2. /\ queue' = [queue EXCEPT ![t] = Append(queue[t], o)]
      /\ pc[o] = "idle" /\ pc' = [pc EXCEPT ![o] = "queued"]
  BY DEF Update, Goto
<1>3. /\ DOMAIN Append(queue[t], o) = 1..(Len(queue[t]) + 1) /\ Len(queue[t]) \in Nat
      /\ DOMAIN queue[t] = 1..Len(queue[t])
      /\ Append(queue[t], o)[Len(queue[t]) + 1] = o
      /\ \A i \in 1..Len(queue[t]) : Append(queue[t], o)[i] = queue[t][i]
  BY <1>1
<1>4. ASSUME NEW s \in Stores, NEW i \in DOMAIN queue'[s]
      PROVE  \/ i \in DOMAIN queue[s] /\ queue'[s][i] = queue[s][i]
             \/ s = t /\ i = Len(queue[t]) + 1 /\ queue'[s][i] = o
  <2>1. CASE s = t
    <3>1. queue'[s] = Append(queue[t], o)
      BY <1>1, <1>2, <2>1 DEF ChainLeads
    <3>. QED
      BY <1>3, <1>4, <2>1, <3>1
  <2>2. CASE s # t
    BY <1>1, <1>2, <1>4, <2>2 DEF ChainLeads
  <2>. QED
    BY <2>1, <2>2
<1>5. ASSUME NEW s \in Stores, NEW i \in DOMAIN queue[s]
      PROVE  /\ queue[s][i] \in Ops /\ queue[s][i] # o
             /\ pc'[queue[s][i]] = pc[queue[s][i]]
  BY <1>2, <1>5 DEF ChainLeads, ChainInOrder
<1>6. StoreOf[o] = t /\ pc'[o] = "queued" /\ "queued" \notin {"idle"} \cup Ended
  BY <1>2 DEF ChainLeads, Ended
<1>7. \A s \in Stores : \A i, j \in DOMAIN queue'[s] : queue'[s][i] = queue'[s][j] => i = j
  BY <1>4, <1>5 DEF ChainInOrder
<1>8. ASSUME NEW s \in Stores, NEW i \in DOMAIN queue'[s]
      PROVE  /\ StoreOf[queue'[s][i]] = s
             /\ pc'[queue'[s][i]] \notin {"idle"} \cup Ended
             /\ i # 1 => pc'[queue'[s][i]] = "queued"
  <2>1. CASE i \in DOMAIN queue[s] /\ queue'[s][i] = queue[s][i]
    BY <1>5, <2>1 DEF ChainInOrder
  <2>2. CASE s = t /\ queue'[s][i] = o
    BY <1>6, <2>2
  <2>. QED
    BY <1>4, <1>8, <2>1, <2>2
<1>. QED
  BY <1>7, <1>8 DEF ChainInOrder

LEMMA ChainInOrderStep ==
  ASSUME ChainLeads, ChainInOrder, [Next]_vars
  PROVE  ChainInOrder'
<1>1. CASE UNCHANGED vars
  BY <1>1 DEF vars, ChainInOrder
<1>2. ASSUME NEW o \in Ops, Update(o) PROVE ChainInOrder'
  BY <1>2, ChainGrows
<1>3. ASSUME NEW o \in Ops, Step(o) PROVE ChainInOrder'
  <2>0. pc[o] \in Waiting \cup Holding => Leads(o)
    BY DEF ChainLeads
  <2>1. CASE Start(o)
    BY <2>1, LeaderMoves DEF Start, Goto, Waiting
  <2>2. CASE OpenLock(o) \/ LockExists(o) \/ StatLock(o)
    BY <2>0, <2>2, LeaderMoves DEF OpenLock, LockExists, StatLock, Goto, Waiting, Holding
  <2>3. CASE ReadState(o) \/ Throw(o) \/ Mutate(o) \/ WriteState(o)
    BY <2>0, <2>3, LeaderMoves DEF ReadState, Throw, Mutate, WriteState, Goto, Holding
  <2>4. CASE BreakLock(o) \/ Retry(o)
    <3>1. Leads(o)
      BY <2>0, <2>4 DEF BreakLock, Retry, Waiting
    <3>2. CASE pc' = [pc EXCEPT ![o] = "open"] /\ UNCHANGED queue
      BY <3>1, <3>2, LeaderMoves DEF Waiting
    <3>3. CASE pc' = [pc EXCEPT ![o] = "failed"] /\ Settled(o)
      BY <3>1, <3>3, LeaderLeaves DEF Ended
    <3>. QED
      BY <2>4, <3>2, <3>3 DEF BreakLock, Retry, NextAttempt
  <2>5. CASE Unlock(o)
    BY <2>0, <2>5, LeaderLeaves DEF Unlock, Goto, Holding, Ended
  <2>. QED
    BY <1>3, <2>1, <2>2, <2>3, <2>4, <2>5 DEF Step
<1>4. ASSUME NEW o \in Ops, IOError(o) PROVE ChainInOrder'
  <2>1. Leads(o)
    BY <1>4 DEF IOError, LockWriteFails, LockingFails, ChmodFails, UnlockFails, Goto,
                ChainLeads, Waiting, Holding
  <2>2. CASE ChmodFails(o)
    BY <2>1, <2>2, LeaderMoves DEF ChmodFails, Goto, Holding
  <2>3. CASE LockWriteFails(o) \/ LockingFails(o) \/ UnlockFails(o)
    BY <2>1, <2>3, LeaderLeaves DEF LockWriteFails, LockingFails, UnlockFails, Goto, Ended
  <2>. QED
    BY <1>4, <2>2, <2>3 DEF IOError
<1>5. ASSUME NEW t \in Stores, Crash(t) PROVE ChainInOrder'
  <2>1. /\ queue' = [queue EXCEPT ![t] = <<>>]
        /\ pc' = [o \in Ops |-> IF o \in Pending(t) THEN "crashed" ELSE pc[o]]
    BY <1>5 DEF Crash
  <2>2. queue'[t] = <<>> /\ DOMAIN queue'[t] = {}
    BY <2>1 DEF ChainLeads
  <2>3. ASSUME NEW s \in Stores, s # t
        PROVE  /\ queue'[s] = queue[s]
               /\ \A i \in DOMAIN queue[s] : pc'[queue[s][i]] = pc[queue[s][i]]
    <3>1. queue'[s] = queue[s]
      BY <2>1, <2>3 DEF ChainLeads
    <3>2. ASSUME NEW i \in DOMAIN queue[s] PROVE pc'[queue[s][i]] = pc[queue[s][i]]
      <4>1. queue[s][i] \in Ops /\ queue[s][i] \notin Pending(t)
        BY <2>3 DEF ChainLeads, ChainInOrder, Pending
      <4>. QED
        BY <2>1, <4>1
    <3>. QED
      BY <3>1, <3>2
  <2>. QED
    BY <2>2, <2>3 DEF ChainInOrder
<1>6. CASE LockAges
  BY <1>6 DEF LockAges, ChainInOrder
<1>. QED
  BY <1>1, <1>2, <1>3, <1>4, <1>5, <1>6 DEF Next

LEMMA AttemptsLeftStep ==
  ASSUME TypeOK, AttemptsLeft, [Next]_vars
  PROVE  AttemptsLeft'
<1>1. CASE UNCHANGED vars
  BY <1>1 DEF vars, AttemptsLeft
<1>2. ASSUME UNCHANGED attempt,
             \A o \in Ops : pc'[o] \in Unstarted \cup Waiting => pc[o] \in Unstarted \cup Waiting
      PROVE  AttemptsLeft'
  BY <1>2 DEF AttemptsLeft
<1>3. ASSUME NEW o \in Ops, pc[o] \in {"break", "delay"}, NextAttempt(o)
      PROVE  AttemptsLeft'
  <2>1. /\ attempt' = [attempt EXCEPT ![o] = attempt[o] + 1]
        /\ attempt[o] < MaxAttempts /\ attempt[o] \in Nat /\ MaxAttempts \in Nat
    BY <1>3, StoreAssumption DEF NextAttempt, AttemptsLeft, Waiting
  <2>2. attempt' \in [Ops -> 0..MaxAttempts]
    BY <2>1 DEF AttemptsLeft
  <2>3. CASE attempt[o] + 1 < MaxAttempts /\ pc' = [pc EXCEPT ![o] = "open"]
    BY <2>1, <2>2, <2>3 DEF AttemptsLeft, TypeOK, Waiting
  <2>4. CASE pc' = [pc EXCEPT ![o] = "failed"]
    BY <2>1, <2>2, <2>4 DEF AttemptsLeft, TypeOK, Unstarted, Waiting
  <2>. QED
    BY <1>3, <2>3, <2>4 DEF NextAttempt
<1>4. ASSUME NEW o \in Ops, Update(o) PROVE AttemptsLeft'
  BY <1>2, <1>4 DEF Update, Goto, TypeOK, Unstarted
<1>5. ASSUME NEW o \in Ops, Step(o) PROVE AttemptsLeft'
  <2>1. CASE Start(o) \/ OpenLock(o) \/ LockExists(o) \/ StatLock(o)
    BY <1>2, <2>1
       DEF Start, OpenLock, LockExists, StatLock, Goto, TypeOK, Unstarted, Waiting
  <2>2. CASE ReadState(o) \/ Throw(o) \/ Mutate(o) \/ WriteState(o)
    BY <1>2, <2>2
       DEF ReadState, Throw, Mutate, WriteState, Goto, TypeOK, Unstarted, Waiting
  <2>3. CASE Unlock(o)
    BY <1>2, <2>3 DEF Unlock, Goto, TypeOK, Unstarted, Waiting
  <2>4. CASE BreakLock(o) \/ Retry(o)
    BY <1>3, <2>4 DEF BreakLock, Retry
  <2>. QED
    BY <1>5, <2>1, <2>2, <2>3, <2>4 DEF Step
<1>6. ASSUME NEW o \in Ops, IOError(o) PROVE AttemptsLeft'
  BY <1>2, <1>6
     DEF IOError, LockWriteFails, LockingFails, ChmodFails, UnlockFails, Goto,
         TypeOK, Unstarted, Waiting
<1>7. ASSUME NEW s \in Stores, Crash(s) PROVE AttemptsLeft'
  BY <1>2, <1>7 DEF Crash, TypeOK, Unstarted, Waiting
<1>8. CASE LockAges
  BY <1>2, <1>8 DEF LockAges
<1>. QED
  BY <1>1, <1>4, <1>5, <1>6, <1>7, <1>8 DEF Next

\* The lock file is empty or has a creator; the faults stay within the bound.
LEMMA LockTypeStep ==
  ASSUME TypeOK, [Next]_vars
  PROVE  /\ lock' \in [by : Ops, old : BOOLEAN] \cup {NoLock}
         /\ faults' \in 0..MaxFaults
<1>0. faults \in 0..MaxFaults /\ MaxFaults \in Nat
  BY StoreAssumption DEF TypeOK
<1>1. \A o \in Ops : [by |-> o, old |-> FALSE] \in [by : Ops, old : BOOLEAN]
  BY Zenon
<1>2. CASE UNCHANGED <<lock, faults>>
  BY <1>0, <1>2 DEF TypeOK
<1>3. ASSUME NEW o \in Ops, OpenLock(o) \/ LockWriteFails(o)
      PROVE  /\ lock' \in [by : Ops, old : BOOLEAN] \cup {NoLock}
             /\ faults' \in 0..MaxFaults
  <2>1. lock' = [by |-> o, old |-> FALSE]
    BY <1>3 DEF OpenLock, LockWriteFails
  <2>2. faults' = faults \/ (faults < MaxFaults /\ faults' = faults + 1)
    BY <1>3 DEF OpenLock, LockWriteFails
  <2>3. lock' \in [by : Ops, old : BOOLEAN]
    BY <1>1, <2>1, Zenon
  <2>. QED
    BY <1>0, <2>2, <2>3
<1>4. ASSUME NEW o \in Ops, BreakLock(o) \/ Unlock(o)
      PROVE  lock' = NoLock /\ faults' = faults
  BY <1>4 DEF BreakLock, Unlock
<1>5. ASSUME NEW s \in Stores, Crash(s) PROVE lock' = lock /\ faults' \in 0..MaxFaults
  BY <1>0, <1>5 DEF Crash
<1>6. ASSUME LockAges
      PROVE  lock' \in [by : Ops, old : BOOLEAN] /\ faults' = faults
  <2>1. lock \in [by : Ops, old : BOOLEAN] /\ lock' = [lock EXCEPT !.old = TRUE]
    BY <1>6 DEF LockAges, TypeOK
  <2>2. ASSUME NEW l \in [by : Ops, old : BOOLEAN]
        PROVE  [l EXCEPT !.old = TRUE] \in [by : Ops, old : BOOLEAN]
    BY Zenon
  <2>. QED
    BY <1>6, <2>1, <2>2, Zenon DEF LockAges
<1>7. ASSUME NEW o \in Ops, Update(o) PROVE UNCHANGED <<lock, faults>>
  BY <1>7 DEF Update
<1>8a. ASSUME NEW o \in Ops, LockingFails(o) \/ ChmodFails(o) \/ UnlockFails(o)
       PROVE  lock' = lock /\ faults' \in 0..MaxFaults
  BY <1>0, <1>8a DEF LockingFails, ChmodFails, UnlockFails
<1>8. ASSUME NEW o \in Ops, Step(o), ~OpenLock(o), ~BreakLock(o), ~Unlock(o)
      PROVE  UNCHANGED <<lock, faults>>
  BY <1>8
     DEF Step, Start, LockExists, StatLock, Retry, ReadState, Throw, Mutate, WriteState
<1>9. CASE UNCHANGED vars
  BY <1>2, <1>9 DEF vars
<1>. QED
  BY <1>0, <1>2, <1>3, <1>4, <1>5, <1>6, <1>7, <1>8, <1>8a, <1>9 DEF Next, IOError, TypeOK

LEMMA FifoStep == ASSUME FifoInv, [Next]_vars PROVE FifoInv'
<1>1. ChainLeads' /\ NotAhead' /\ ChainInOrder' /\ AttemptsLeft'
  BY ChainLeadsStep, NotAheadStep, ChainInOrderStep, AttemptsLeftStep DEF FifoInv
<1>2. /\ lock' \in [by : Ops, old : BOOLEAN] \cup {NoLock}
      /\ faults' \in 0..MaxFaults
  BY LockTypeStep DEF FifoInv
<1>3. TypeOK'
  BY <1>1, <1>2 DEF TypeOK, ChainLeads, NotAhead, AttemptsLeft
<1>. QED
  BY <1>1, <1>3 DEF FifoInv

\* Type correctness, the bound of the attempts of acquireLock included.
THEOREM TypeCorrect == Spec => []TypeOK
<1>1. FifoInv => TypeOK
  BY DEF FifoInv
<1>2. FifoInv /\ [Next]_vars => FifoInv'
  BY FifoStep
<1>. QED
  BY FifoInit, <1>1, <1>2, PTL DEF Spec

\* Updates of one instance take effect in the order of the calls (update),
\* with any number of instances, crashes, stalls and broken locks.
THEOREM ChainsAreFifo == Spec => []FifoPerStore
<1>1. FifoInv => FifoPerStore
  <2>1. ASSUME FifoInv, NEW s \in Stores,
               NEW i \in DOMAIN queue[s], NEW j \in DOMAIN queue[s], i < j
        PROVE  queue[s][j] \notin Range(file)
    <3>1. queue[s][j] \in Ops /\ i \in Nat \ {0}
      BY <2>1 DEF FifoInv, ChainLeads
    <3>2. pc[queue[s][j]] = "queued"
      BY <2>1, <3>1 DEF FifoInv, ChainInOrder
    <3>. QED
      BY <2>1, <3>1, <3>2 DEF FifoInv, NotAhead, Unstarted
  <2>. QED
    BY <2>1 DEF FifoPerStore
<1>2. FifoInv /\ [Next]_vars => FifoInv'
  BY FifoStep
<1>. QED
  BY FifoInit, <1>1, <1>2, PTL DEF Spec
-----------------------------------------------------------------------------
\* Wherever the lock excludes, what was reported as done stays in the file.
LEMMA ExclusionKeepsUpdates == Spec /\ []MutualExclusion => []NoLostUpdate
<1>1. FileMatches => NoLostUpdate
  BY DEF FileMatches, NoLostUpdate
<1>2. FileMatches /\ MutualExclusion /\ [Next]_vars => FileMatches'
  BY FileMatchesStep
<1>. QED
  BY FileMatchesInit, <1>1, <1>2, PTL DEF Spec

\* Stores that neither crash nor stall nor meet an I/O error keep what
\* SECURITY.md promises; the run store_breakers shows it broken once they may.
THEOREM PromptStoresLoseNothing ==
  ASSUME MaxFaults = 0, SlowHolders = FALSE
  PROVE  Spec => []NoLostUpdate
<1>1. Spec => []MutualExclusion
  BY PromptStoresExclude
<1>. QED
  BY <1>1, ExclusionKeepsUpdates, PTL

\* One store keeps it through crashes, I/O errors and stalls.
THEOREM OneStoreLosesNothing ==
  ASSUME NEW s, Stores = {s}
  PROVE  Spec => []NoLostUpdate
<1>1. Spec => []MutualExclusion
  BY OneStoreExcludes
<1>. QED
  BY <1>1, ExclusionKeepsUpdates, PTL
=============================================================================
