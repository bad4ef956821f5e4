------------------------------ MODULE StateStore ------------------------------
(***************************************************************************)
(* src/state/store.ts: the persisted state of the local runtime.  Several  *)
(* GuardStateStore instances, in one process or in several (the proxy, the *)
(* dashboard, each CLI command), share one file guarded by a lock file.    *)
(* Inside an instance the updates form a promise chain; between instances  *)
(* the lock file is created with O_EXCL, polled a bounded number of times, *)
(* broken when it is older than thirty seconds, and removed in a finally.  *)
(*                                                                         *)
(* Each file-system call is a step of its own, because any other process   *)
(* can run between two of them.  A lock's age is one bit, "old", set by an *)
(* environment step.  A store that crashes may be restarted at once: its   *)
(* later updates stand for the new process.  A file-system call that fails *)
(* rejects the update, before its rename or after it.                      *)
(***************************************************************************)
EXTENDS Naturals, SequencesExt

CONSTANTS Stores, Ops,
          StoreOf,       \* the instance each update is called on
          MaxAttempts,   \* the 200 of acquireLock
          SlowHolders,   \* may a live holder keep the lock for over 30 seconds?
          MaxFaults,     \* bound: crashes and failed file-system calls
          NoLock

ASSUME StoreAssumption == /\ StoreOf \in [Ops -> Stores]
                          /\ MaxAttempts \in Nat \ {0}
                          /\ SlowHolders \in BOOLEAN
                          /\ MaxFaults \in Nat
                          /\ NoLock \notin [by : Ops, old : BOOLEAN]

VARIABLES file,      \* guard.json, as the sequence of the updates it contains
          lock,      \* guard.json.lock: who created it, and whether it is old
          queue,     \* the promise chain of each instance
          pc,        \* where each update is
          attempt,   \* the loop counter of acquireLock
          snapshot,  \* the state the update read under the lock
          faults     \* how many faults happened

vars == <<file, lock, queue, pc, attempt, snapshot, faults>>

Waiting   == {"open", "stat", "break", "delay"}
Holding   == {"read", "mutate", "write", "unlink", "unlinkFailed", "unlinkError"}
\* A promise that a failing call rejected after the rename may have passed is
\* told from one that was rejected before it: "ioError" from "failed".
Ended     == {"done", "failed", "ioError", "crashed"}
Locations == {"idle", "queued"} \cup Waiting \cup Holding \cup Ended

TypeOK == /\ file \in Seq(Ops)
          /\ lock \in [by : Ops, old : BOOLEAN] \cup {NoLock}
          /\ queue \in [Stores -> Seq(Ops)]
          /\ pc \in [Ops -> Locations]
          /\ attempt \in [Ops -> 0..MaxAttempts]
          /\ snapshot \in [Ops -> Seq(Ops)]
          /\ faults \in 0..MaxFaults

Init == /\ file = <<>> /\ lock = NoLock
        /\ queue = [s \in Stores |-> <<>>]
        /\ pc = [o \in Ops |-> "idle"]
        /\ attempt = [o \in Ops |-> 0]
        /\ snapshot = [o \in Ops |-> <<>>]
        /\ faults = 0

Goto(o, from, to) == pc[o] = from /\ pc' = [pc EXCEPT ![o] = to]

\* A bug a change could bring in: a chain without its rejection handler.
SettledOnSuccess(o) == IF pc'[o] = "failed" THEN UNCHANGED queue
                       ELSE queue' = [queue EXCEPT ![StoreOf[o]] = Tail(@)]

\* The next link of the chain runs whether this one resolved or rejected.
Settled(o) == queue' = [queue EXCEPT ![StoreOf[o]] = Tail(@)]
-----------------------------------------------------------------------------
\* update: chain the operation behind the ones already called.
Update(o) == /\ Goto(o, "idle", "queued")
             /\ queue' = [queue EXCEPT ![StoreOf[o]] = Append(@, o)]
             /\ UNCHANGED <<file, lock, attempt, snapshot, faults>>

\* A bug a change could bring in: updates that do not wait for the chain.
StartAtOnce(o) == /\ Goto(o, "queued", "open")
                  /\ UNCHANGED <<file, lock, queue, attempt, snapshot, faults>>

\* All the earlier links of the chain have settled.
Leads(o) == queue[StoreOf[o]] # <<>> /\ Head(queue[StoreOf[o]]) = o

\* The chain reaches the operation: withFileLock, up to the first attempt.
Start(o) == /\ Goto(o, "queued", "open")
            /\ Leads(o)
            /\ UNCHANGED <<file, lock, queue, attempt, snapshot, faults>>

\* A bug a change could bring in: the flag "w" in place of "wx".
OpenAnyway(o) == /\ Goto(o, "open", "read")
                 /\ lock' = [by |-> o, old |-> FALSE]
                 /\ UNCHANGED <<file, queue, attempt, snapshot, faults>>

\* open(lockPath, "wx") succeeds: nobody holds the lock.
OpenLock(o) == /\ lock = NoLock
               /\ Goto(o, "open", "read")
               /\ lock' = [by |-> o, old |-> FALSE]
               /\ UNCHANGED <<file, queue, attempt, snapshot, faults>>

\* The lock was created but its content could not be written: acquireLock
\* rethrows before withFileLock has a finally, and the file stays.
LockWriteFails(o) == /\ lock = NoLock /\ faults < MaxFaults
                     /\ Goto(o, "open", "failed")
                     /\ lock' = [by |-> o, old |-> FALSE]
                     /\ faults' = faults + 1
                     /\ Settled(o)
                     /\ UNCHANGED <<file, attempt, snapshot>>

\* mkdir and chmod of the directory, an open that fails otherwise than with
\* EEXIST, a stat or rm that fails otherwise than with ENOENT: rethrown.
LockingFails(o) == /\ faults < MaxFaults
                   /\ \/ Goto(o, "queued", "failed") /\ Leads(o)
                      \/ \E l \in {"open", "stat", "break"} : Goto(o, l, "failed")
                   /\ faults' = faults + 1
                   /\ Settled(o)
                   /\ UNCHANGED <<file, lock, attempt, snapshot>>

\* EEXIST.
LockExists(o) == /\ lock # NoLock
                 /\ Goto(o, "open", "stat")
                 /\ UNCHANGED <<file, lock, queue, attempt, snapshot, faults>>

\* stat(lockPath): gone or fresh means wait, older than 30 seconds means break.
StatLock(o) == /\ Goto(o, "stat", IF lock # NoLock /\ lock.old THEN "break" ELSE "delay")
               /\ UNCHANGED <<file, lock, queue, attempt, snapshot, faults>>

\* A bug a change could bring in: one attempt too many.
OneMoreAttempt(o) ==
    /\ attempt' = [attempt EXCEPT ![o] = @ + 1]
    /\ IF attempt[o] + 1 <= MaxAttempts
         THEN pc' = [pc EXCEPT ![o] = "open"] /\ UNCHANGED queue
         ELSE pc' = [pc EXCEPT ![o] = "failed"] /\ Settled(o)

\* The head of the for loop after attempt + 1.
NextAttempt(o) ==
    /\ attempt' = [attempt EXCEPT ![o] = @ + 1]
    /\ IF attempt[o] + 1 < MaxAttempts
         THEN pc' = [pc EXCEPT ![o] = "open"] /\ UNCHANGED queue
         ELSE pc' = [pc EXCEPT ![o] = "failed"] /\ Settled(o)

\* rm(lockPath, force) and continue: whatever file is there by now.
BreakLock(o) == /\ pc[o] = "break"
                /\ lock' = NoLock
                /\ NextAttempt(o)
                /\ UNCHANGED <<file, snapshot, faults>>

\* delay(10) is over.
Retry(o) == /\ pc[o] = "delay"
            /\ NextAttempt(o)
            /\ UNCHANGED <<file, lock, snapshot, faults>>
-----------------------------------------------------------------------------
ReadState(o) == /\ Goto(o, "read", "mutate")
                /\ snapshot' = [snapshot EXCEPT ![o] = file]
                /\ UNCHANGED <<file, lock, queue, attempt, faults>>

\* read, the mutator, the schema, the temporary file or the rename throws:
\* the document stays as it was.
Throw(o) == /\ \E l \in {"read", "mutate", "write"} : Goto(o, l, "unlinkFailed")
            /\ UNCHANGED <<file, lock, queue, attempt, snapshot, faults>>

\* The mutator ran on the snapshot and the new text is in the temporary file.
Mutate(o) == /\ Goto(o, "mutate", "write")
             /\ UNCHANGED <<file, lock, queue, attempt, snapshot, faults>>

\* rename(temporaryPath, filePath) replaces the whole document.
WriteState(o) == /\ Goto(o, "write", "unlink")
                 /\ file' = Append(snapshot[o], o)
                 /\ UNCHANGED <<lock, queue, attempt, snapshot, faults>>

\* chmod(filePath) fails: the update is in the file and is rejected.
ChmodFails(o) == /\ faults < MaxFaults
                 /\ Goto(o, "unlink", "unlinkError")
                 /\ faults' = faults + 1
                 /\ UNCHANGED <<file, lock, queue, attempt, snapshot>>

\* finally: rm(lockPath, force), then the promise settles.
Unlock(o) == /\ \/ Goto(o, "unlink", "done")
                \/ Goto(o, "unlinkFailed", "failed")
                \/ Goto(o, "unlinkError", "ioError")
             /\ lock' = NoLock
             /\ Settled(o)
             /\ snapshot' = [snapshot EXCEPT ![o] = <<>>]
             /\ UNCHANGED <<file, attempt, faults>>

\* The close or the rm in the finally fails: its error replaces the outcome,
\* applied or not, and the lock file stays.
UnlockFails(o) == /\ faults < MaxFaults
                  /\ \E l \in {"unlink", "unlinkFailed", "unlinkError"} : Goto(o, l, "ioError")
                  /\ faults' = faults + 1
                  /\ Settled(o)
                  /\ snapshot' = [snapshot EXCEPT ![o] = <<>>]
                  /\ UNCHANGED <<file, lock, attempt>>
-----------------------------------------------------------------------------
\* What the caller of an update at location l knows.
Known(l) == IF l = "idle" \/ l \in Ended THEN l ELSE "pending"

Pending(s) == {o \in Ops : StoreOf[o] = s /\ Known(pc[o]) = "pending"}

\* The process dies: its pending updates go, its lock file stays.
Crash(s) == /\ faults < MaxFaults /\ Pending(s) # {}
            /\ pc' = [o \in Ops |-> IF o \in Pending(s) THEN "crashed" ELSE pc[o]]
            /\ queue' = [queue EXCEPT ![s] = <<>>]
            /\ snapshot' = [o \in Ops |-> IF o \in Pending(s) THEN <<>> ELSE snapshot[o]]
            /\ faults' = faults + 1
            /\ UNCHANGED <<file, lock, attempt>>

\* Thirty seconds pass since the lock was created.
LockAges == /\ lock # NoLock /\ ~lock.old
            /\ SlowHolders \/ pc[lock.by] \notin Holding
            /\ lock' = [lock EXCEPT !.old = TRUE]
            /\ UNCHANGED <<file, queue, pc, attempt, snapshot, faults>>

Step(o) == \/ Start(o) \/ OpenLock(o) \/ LockExists(o) \/ StatLock(o) \/ BreakLock(o)
           \/ Retry(o) \/ ReadState(o) \/ Throw(o) \/ Mutate(o) \/ WriteState(o) \/ Unlock(o)

IOError(o) == LockWriteFails(o) \/ LockingFails(o) \/ ChmodFails(o) \/ UnlockFails(o)

Next == \/ \E o \in Ops : Update(o) \/ Step(o) \/ IOError(o)
        \/ \E s \in Stores : Crash(s)
        \/ LockAges

Spec == Init /\ [][Next]_vars

\* A running process executes its continuations; nobody has to call update.
FairSpec == Spec /\ \A o \in Ops : WF_vars(Step(o))
-----------------------------------------------------------------------------
\* Of all instances in all processes, at most one is between the creation of
\* its lock and its removal.  The lock file sees to it as long as no process
\* dies, no file-system call fails and no holder needs over thirty seconds.
MutualExclusion == \A o, p \in Ops : pc[o] \in Holding /\ pc[p] \in Holding => o = p

Promise == INSTANCE AtomicStore
             WITH document <- file, status <- [o \in Ops |-> Known(pc[o])]

\* The store implements the atomic store: no interleaving of lock, read,
\* rename and unlock loses an update, reports one that did not take effect,
\* or rejects one that did, unless a file-system call failed after its rename.
ImplementsAtomicStore == Promise!ASpec

\* Two updates of one instance take effect in the order they were called,
\* although the first may have failed or retried: the chain is in the order of
\* the calls, so nothing that is in the file may still be behind in it.
FifoPerStore == \A s \in Stores : \A i, j \in DOMAIN queue[s] :
                    i < j => queue[s][j] \notin Range(file)

\* Every update settles: a lock nobody releases runs out of attempts, and a
\* rejected update lets the next one of the chain run, whatever rejected it.
EveryUpdateEnds == \A o \in Ops : pc[o] = "queued" ~> pc[o] \in Ended

\* SECURITY.md: "State writes use atomic rename plus a file lock shared across
\* processes", so an update that was reported as done stays in the file.
NoLostUpdate == \A o \in Ops : pc[o] = "done" => o \in Range(file)
=============================================================================
