------------------------------ MODULE AtomicStore ------------------------------
(***************************************************************************)
(* What GuardStateStore promises its callers: an update takes effect in    *)
(* one indivisible step on the state the previous update left, an update   *)
(* that reports success has taken effect, and an update that reports an    *)
(* error has not.  Only a process that dies, and an I/O error of the calls *)
(* that follow the effect, may leave the caller without knowing.  The      *)
(* document is abstracted to the sequence of the updates it contains, so   *)
(* that a lost update is visible as one missing from it.                   *)
(***************************************************************************)
EXTENDS SequencesExt

CONSTANT Ops

VARIABLES document,   \* the updates the persisted state contains, oldest first
          status      \* what the caller of each update knows

avars == <<document, status>>

Applied(o) == o \in Range(document)

AInit == document = <<>> /\ status = [o \in Ops |-> "idle"]

Call(o) == /\ status[o] = "idle"
           /\ status' = [status EXCEPT ![o] = "pending"]
           /\ UNCHANGED document

Apply(o) == /\ status[o] = "pending" /\ ~Applied(o)
            /\ document' = Append(document, o)
            /\ UNCHANGED status

Return(o) == /\ status[o] = "pending"
             /\ status' = [status EXCEPT ![o] = IF Applied(o) THEN "done" ELSE "failed"]
             /\ UNCHANGED document

\* An I/O error reaches the caller, whether the update took effect or not.
ReturnError(o) == /\ status[o] = "pending"
                  /\ status' = [status EXCEPT ![o] = "ioError"]
                  /\ UNCHANGED document

\* A process dies: none of its callers learns anything.
Die(lost) == /\ \A o \in lost : status[o] = "pending"
             /\ status' = [o \in Ops |-> IF o \in lost THEN "crashed" ELSE status[o]]
             /\ UNCHANGED document

ANext == \/ \E o \in Ops : Call(o) \/ Apply(o) \/ Return(o) \/ ReturnError(o)
         \/ \E lost \in SUBSET Ops : Die(lost)

ASpec == AInit /\ [][ANext]_avars
=============================================================================
