------------------------- MODULE KeyLifecycleProofs -------------------------
(***************************************************************************)
(* For any number of key commands, whatever fails and however they         *)
(* interleave, a created key is kept (CreatedKeyIsKept of KeyLifecycle)    *)
(* and the ledger knows what the commands changed (LedgerKnowsKeys).       *)
(***************************************************************************)
EXTENDS KeyLifecycle, TLAPS

Storing == {"recover", "save", "check", "record", "tidy"}

\* A command is where its kind takes it, with an answer of its own.
Shaped == \A c \in Commands :
  LET q == cmd[c]
  IN /\ q.pc \in {"status", "create", "recover", "tidy"} => q.kind = "create"
     /\ q.pc \in {"save", "check"} => q.kind \in {"create", "import"}
     /\ q.pc = "clear" => q.kind \in {"clear", "revoke"}
     /\ q.pc = "revoke" => q.kind = "revoke"
     /\ q.pc \in {"legacy", "balance", "delete", "verify", "compare"} => q.kind = "migrate"
     /\ q.pc = "record" => q.kind # "clear"
     /\ q.pc \in {"recover", "save"} =>
          q.answer \in IF q.kind = "create" THEN {c, Refusal} ELSE {OwnKey}
     /\ q.pc = "record" /\ q.kind \in {"create", "import"} => q.answer \in Keys

\* A key of the account is named after a command that has created it.
Named == \A c \in Commands : accountKey = c =>
  /\ cmd[c].kind = "create" /\ cmd[c].pc \in Storing \cup Outcomes
  /\ cmd[c].pc \in {"recover", "save"} => cmd[c].answer = c

\* While a command runs by itself, no other runs.
Exclusive == \A c, d \in Commands : cmd[c].alone /\ Working(c) /\ d # c => ~Working(d)

\* The remainder is credited once.
CreditedOnce == legacy = "active" => balance = 0

IInv == TypeOK /\ Shaped /\ Named /\ Exclusive /\ CreditedOnce

LEMMA InitIsCorrect == Init => IInv
BY KeyAssumption DEF Init, IInv, TypeOK, Shaped, Named, Exclusive, CreditedOnce,
   NoCommand, Activations, Kinds, Remote, Local, Outcomes, Storing, Working, Keys
-----------------------------------------------------------------------------
\* A step of command d leaves the others, and its own kind, as they are.
Moves(d) ==
  /\ cmd' \in [Commands -> Activations]
  /\ \A c \in Commands : c # d => cmd'[c] = cmd[c]
  /\ cmd'[d].kind = cmd[d].kind /\ cmd'[d].alone = cmd[d].alone

LEMMA GotoMoves ==
  ASSUME TypeOK, NEW d \in Commands, NEW pc \in Remote \cup Local, Goto(d, pc)
  PROVE  Moves(d) /\ cmd'[d].pc = pc /\ cmd'[d].answer = cmd[d].answer
<1>1. cmd[d] \in Activations
  BY DEF TypeOK
<1> DEFINE q == [cmd[d] EXCEPT !.pc = pc]
<1>2. /\ q \in Activations /\ q.pc = pc /\ q.answer = cmd[d].answer
      /\ q.kind = cmd[d].kind /\ q.alone = cmd[d].alone
  BY <1>1 DEF Activations
<1>3. cmd' = [cmd EXCEPT ![d] = q]
  BY DEF Goto
<1> HIDE DEF q
<1> QED BY <1>1, <1>2, <1>3 DEF Moves, TypeOK

LEMMA EndMoves ==
  ASSUME TypeOK, NEW d \in Commands, NEW outcome \in Outcomes, End(d, outcome)
  PROVE  Moves(d) /\ cmd'[d].pc = outcome
<1>1. cmd[d] \in Activations
  BY DEF TypeOK
<1> DEFINE q == [NoCommand EXCEPT !.pc = outcome, !.kind = cmd[d].kind, !.alone = cmd[d].alone]
<1>0. 0 \in 0..(2 * Remainder)
  BY KeyAssumption
<1>2. /\ q \in Activations /\ q.pc = outcome
      /\ q.kind = cmd[d].kind /\ q.alone = cmd[d].alone
  BY <1>0, <1>1 DEF NoCommand, Activations
<1>3. cmd' = [cmd EXCEPT ![d] = q]
  BY DEF End
<1> HIDE DEF q
<1> QED BY <1>1, <1>2, <1>3 DEF Moves, TypeOK

LEMMA AnswerMoves ==
  ASSUME TypeOK, NEW d \in Commands, NEW pc \in Remote \cup Local,
         NEW answer \in Keys \cup {Refusal, None},
         cmd' = [cmd EXCEPT ![d].pc = pc, ![d].answer = answer]
  PROVE  Moves(d) /\ cmd'[d].pc = pc /\ cmd'[d].answer = answer
<1>1. cmd[d] \in Activations
  BY DEF TypeOK
<1> DEFINE q == [cmd[d] EXCEPT !.pc = pc, !.answer = answer]
<1>2. /\ q \in Activations /\ q.pc = pc /\ q.answer = answer
      /\ q.kind = cmd[d].kind /\ q.alone = cmd[d].alone
  BY <1>1 DEF Activations
<1>3. cmd' = [cmd EXCEPT ![d] = q]
  OBVIOUS
<1> HIDE DEF q
<1> QED BY <1>1, <1>2, <1>3 DEF Moves, TypeOK

LEMMA RejectsMoves ==
  ASSUME TypeOK, NEW d \in Commands, Rejects(d)
  PROVE  /\ Moves(d) /\ cmd'[d].pc \in {"unstored", "failed"}
         /\ faults' \in 0..MaxFaults /\ faults' > faults /\ faults' # 0
<1>1. Moves(d) /\ cmd'[d].pc \in {"unstored", "failed"}
  BY EndMoves DEF Rejects, Outcomes
<1>2. faults \in Nat /\ MaxFaults \in Nat
  BY KeyAssumption DEF TypeOK
<1> QED BY <1>1, <1>2 DEF Rejects, TypeOK

LEMMA ProceedsMoves ==
  ASSUME TypeOK, NEW d \in Commands, NEW pc \in Remote \cup Local, Proceeds(d, pc)
  PROVE  /\ Moves(d) /\ faults' \in 0..MaxFaults
         /\ \/ cmd'[d].pc = pc /\ cmd'[d].answer = cmd[d].answer /\ faults' = faults
            \/ cmd'[d].pc \in {"unstored", "failed"} /\ faults' > faults /\ faults' # 0
<1>1. CASE Goto(d, pc) /\ UNCHANGED faults
  BY <1>1, GotoMoves DEF TypeOK
<1>2. CASE Rejects(d)
  BY <1>2, RejectsMoves
<1> QED BY <1>1, <1>2 DEF Proceeds

\* Where a command may go without touching a file or the account: to an end, or on
\* in a revocation or a migration.
LEMMA QuietStep ==
  ASSUME IInv, NEW d \in Commands, Moves(d), Working(d),
         UNCHANGED accountKey,
         \/ cmd'[d].pc \in Outcomes
         \/ cmd'[d].pc = "create" /\ At(d, "status")
         \/ cmd'[d].pc \in {"record", "clear"} /\ cmd[d].kind = "revoke"
         \/ cmd'[d].pc \in {"balance", "delete", "verify", "record", "compare"} /\ cmd[d].kind = "migrate"
  PROVE  Shaped' /\ Named' /\ Exclusive'
<1> USE DEF IInv, At, Working, Remote, Local, Outcomes, Storing, Moves
<1>1. Shaped'
  BY DEF Shaped
<1>2. Named'
  BY DEF Named, Shaped
<1>3. Exclusive'
  BY DEF Exclusive
<1> QED BY <1>1, <1>2, <1>3

LEMMA StatusKeeps ==
  ASSUME IInv, NEW d \in Commands, Status(d)
  PROVE  IInv'
<1> USE DEF IInv
<1>1. Moves(d) /\ (cmd'[d].pc = "refused" \/ cmd'[d].pc = "create")
  <2>1. CASE End(d, "refused")
    BY <2>1, EndMoves DEF Outcomes
  <2>2. CASE cmd' = [cmd EXCEPT ![d].pc = "create", ![d].had = accountKey # None]
    <3> DEFINE q == [cmd[d] EXCEPT !.pc = "create", !.had = accountKey # None]
    <3>1. cmd[d] \in Activations
      BY DEF TypeOK
    <3>2. /\ q \in Activations /\ q.pc = "create"
          /\ q.kind = cmd[d].kind /\ q.alone = cmd[d].alone
      BY <3>1 DEF Activations, Remote
    <3>3. cmd' = [cmd EXCEPT ![d] = q]
      BY <2>2
    <3> HIDE DEF q
    <3> QED BY <3>1, <3>2, <3>3 DEF Moves, TypeOK
  <2> QED BY <2>1, <2>2 DEF Status
<1>2. Shaped' /\ Named' /\ Exclusive'
  BY <1>1, QuietStep DEF Status, At, Working, Remote, Outcomes, files, orbio
<1>3. TypeOK' /\ CreditedOnce'
  BY <1>1 DEF Status, files, orbio, bounds, TypeOK, CreditedOnce, Moves
<1> QED BY <1>2, <1>3

\* A creation, its answer or the loss of it.
LEMMA CreateMoves ==
  ASSUME TypeOK, NEW d \in Commands, Create(d)
  PROVE  /\ Moves(d) /\ faults' \in 0..MaxFaults
         /\ \/ cmd'[d].pc = "recover" /\ cmd'[d].answer = d /\ faults' = faults
            \/ cmd'[d].pc \in {"unstored", "failed"} /\ faults' > faults /\ faults' # 0
<1>1. CASE Answer(d, d) /\ UNCHANGED faults
  BY <1>1, AnswerMoves DEF Answer, Local, Keys, TypeOK
<1>2. CASE Rejects(d)
  BY <1>2, RejectsMoves
<1> QED BY <1>1, <1>2 DEF Create

LEMMA CreateKeeps ==
  ASSUME IInv, NEW d \in Commands, Create(d)
  PROVE  IInv'
<1> USE DEF IInv
<1>1. Moves(d) /\ faults' \in 0..MaxFaults /\
      ((cmd'[d].pc = "recover" /\ cmd'[d].answer = d) \/ cmd'[d].pc \in {"unstored", "failed"})
  BY CreateMoves
<1>2. /\ cmd[d].kind = "create" /\ At(d, "create") /\ accountKey' = d
      /\ UNCHANGED <<files, legacy, balance, elsewhere>>
  BY DEF Create, At, Shaped
<1>3. Shaped'
  BY <1>1, <1>2 DEF Shaped, Moves
<1>4. Named'
  BY <1>1, <1>2 DEF Named, Moves, Storing, Outcomes
<1>5. Exclusive'
  BY <1>1, <1>2 DEF Exclusive, Moves, At, Working, Remote, Local
<1>6. TypeOK' /\ CreditedOnce'
  BY <1>1, <1>2 DEF TypeOK, CreditedOnce, Moves, files
<1> QED BY <1>3, <1>4, <1>5, <1>6

LEMMA CreateRefusedKeeps ==
  ASSUME IInv, NEW d \in Commands, CreateRefused(d)
  PROVE  IInv'
<1> USE DEF IInv
<1>1. Moves(d) /\ cmd'[d].pc = "recover" /\ cmd'[d].answer = Refusal
  BY AnswerMoves DEF CreateRefused, Answer, Local
<1>2. cmd[d].kind = "create" /\ At(d, "create") /\ UNCHANGED <<files, orbio, bounds>>
  BY DEF CreateRefused, At, Shaped
<1>3. Shaped'
  BY <1>1, <1>2 DEF Shaped, Moves
<1>4. Named'
  BY <1>1, <1>2 DEF Named, Moves, At, Storing, Outcomes, orbio
<1>5. Exclusive'
  BY <1>1, <1>2 DEF Exclusive, Moves, At, Working, Remote, Local
<1>7. TypeOK' /\ CreditedOnce'
  BY <1>1, <1>2 DEF TypeOK, CreditedOnce, Moves, files, orbio, bounds
<1> QED BY <1>3, <1>4, <1>5, <1>7

LEMMA WriteRecoveryKeeps ==
  ASSUME IInv, NEW d \in Commands, WriteRecovery(d)
  PROVE  IInv'
<1> USE DEF IInv
<1>1. Moves(d) /\ faults' \in 0..MaxFaults /\
      ((cmd'[d].pc = "save" /\ cmd'[d].answer = cmd[d].answer) \/ cmd'[d].pc \in {"unstored", "failed"})
  BY ProceedsMoves DEF WriteRecovery, Local
<1>2. /\ cmd[d].kind = "create" /\ At(d, "recover") /\ cmd[d].answer \in {d, Refusal}
      /\ recovery' = cmd[d].answer /\ UNCHANGED <<vault, ledger, orbio, elsewhere>>
  BY DEF WriteRecovery, At, Shaped
<1>3. Shaped'
  BY <1>1, <1>2 DEF Shaped, Moves, At
<1>4. Named'
  BY <1>1, <1>2 DEF Named, Moves, At, Storing, Outcomes, orbio
<1>5. Exclusive'
  BY <1>1, <1>2 DEF Exclusive, Moves, At, Working, Remote, Local
<1>6. TypeOK' /\ CreditedOnce'
  BY <1>1, <1>2 DEF TypeOK, CreditedOnce, Moves, orbio
<1> QED BY <1>3, <1>4, <1>5, <1>6

LEMMA ExtractKeeps ==
  ASSUME IInv, NEW d \in Commands, Extract(d)
  PROVE  IInv'
<1> USE DEF IInv
<1>1. Moves(d) /\ cmd'[d].pc = "unstored" /\ UNCHANGED <<files, orbio, bounds>>
  BY EndMoves DEF Extract, Outcomes
<1>2. Shaped' /\ Named' /\ Exclusive'
  BY <1>1, QuietStep DEF Extract, At, Working, Local, Outcomes, files, orbio
<1>3. TypeOK' /\ CreditedOnce'
  BY <1>1 DEF files, orbio, bounds, TypeOK, CreditedOnce, Moves
<1> QED BY <1>2, <1>3

LEMMA SaveKeeps ==
  ASSUME IInv, NEW d \in Commands, Save(d)
  PROVE  IInv'
<1> USE DEF IInv
<1>1. Moves(d) /\ faults' \in 0..MaxFaults /\ cmd'[d].pc \in {"check", "unstored", "failed"}
  BY ProceedsMoves DEF Save, Local
<1>2. /\ cmd[d].kind \in {"create", "import"} /\ At(d, "save")
      /\ cmd[d].answer = IF cmd[d].kind = "create" THEN d ELSE OwnKey
      /\ vault' = cmd[d].answer /\ UNCHANGED <<recovery, ledger, orbio, elsewhere>>
  BY DEF Save, At, Shaped
<1>3. Shaped'
  BY <1>1, <1>2 DEF Shaped, Moves
<1>4. Named'
  BY <1>1, <1>2 DEF Named, Moves, At, Storing, Outcomes, orbio
<1>5. Exclusive'
  BY <1>1, <1>2 DEF Exclusive, Moves, At, Working, Remote, Local
<1>6. TypeOK' /\ CreditedOnce'
  BY <1>1, <1>2 DEF TypeOK, CreditedOnce, Moves, orbio, Keys
<1> QED BY <1>3, <1>4, <1>5, <1>6

LEMMA CheckKeeps ==
  ASSUME IInv, NEW d \in Commands, Check(d)
  PROVE  IInv'
<1> USE DEF IInv
<1>1. /\ At(d, "check") /\ cmd[d].kind \in {"create", "import"}
      /\ UNCHANGED <<files, orbio, bounds>>
  BY DEF Check, At, Shaped
<1>2. CASE vault = None
  <2>1. Moves(d) /\ cmd'[d].pc \in {"done", "unstored"}
    BY <1>2, EndMoves DEF Check, Outcomes
  <2>2. Shaped' /\ Named' /\ Exclusive'
    BY <1>1, <2>1, QuietStep DEF At, Working, Local, Outcomes, files, orbio
  <2>3. TypeOK' /\ CreditedOnce'
    BY <1>1, <2>1 DEF files, orbio, bounds, TypeOK, CreditedOnce, Moves
  <2> QED BY <2>2, <2>3
<1>3. CASE vault # None
  <2>1. vault \in Keys
    BY <1>3 DEF TypeOK
  <2>2. Moves(d) /\ cmd'[d].pc = "record" /\ cmd'[d].answer = vault
    BY <1>3, <2>1, AnswerMoves DEF Check, Local
  <2>3. Shaped'
    BY <1>1, <2>1, <2>2 DEF Shaped, Moves
  <2>4. Named'
    BY <1>1, <2>2 DEF Named, Moves, At, Storing, orbio
  <2>5. Exclusive'
    BY <1>1, <2>2 DEF Exclusive, Moves, At, Working, Remote, Local
  <2>7. TypeOK' /\ CreditedOnce'
    BY <1>1, <2>2 DEF TypeOK, CreditedOnce, Moves, files, orbio, bounds
  <2> QED BY <2>3, <2>4, <2>5, <2>7
<1> QED BY <1>2, <1>3

LEMMA EventIsOne ==
  ASSUME IInv, NEW d \in Commands, At(d, "record")
  PROVE  Event(d) \in Events
<1>1. cmd[d] \in Activations /\ cmd[d].kind # "clear"
      /\ (cmd[d].kind \in {"create", "import"} => cmd[d].answer \in Keys)
  BY DEF IInv, TypeOK, Shaped, At
<1>2. CASE cmd[d].kind = "create"
  BY <1>1, <1>2 DEF Event, Events
<1>3. CASE cmd[d].kind = "import"
  BY <1>1, <1>3 DEF Event, Events
<1>4. CASE cmd[d].kind = "revoke"
  BY <1>4 DEF Event, Events
<1>5. CASE cmd[d].kind = "migrate"
  BY <1>5 DEF Event, Events
<1> QED BY <1>1, <1>2, <1>3, <1>4, <1>5 DEF Activations, Kinds

\* What a recorded event leaves a command at.
LEMMA RecordMoves ==
  ASSUME IInv, NEW d \in Commands, Record(d)
  PROVE  /\ Moves(d) /\ faults' \in 0..MaxFaults
         /\ \/ cmd'[d].pc = "tidy" /\ cmd[d].kind = "create" /\ faults' = faults
            \/ cmd'[d].pc = "compare" /\ cmd[d].kind = "migrate" /\ faults' = faults
            \/ cmd'[d].pc = "done" /\ cmd[d].kind \in {"import", "revoke"} /\ faults' = faults
            \/ cmd'[d].pc \in {"unstored", "failed"} /\ faults' # 0
<1> USE DEF IInv
<1>1. faults \in 0..MaxFaults
  BY DEF TypeOK
<1>2. CASE cmd[d].kind = "create" /\ Goto(d, "tidy") /\ UNCHANGED faults
  BY <1>1, <1>2, GotoMoves DEF Local
<1>3. CASE cmd[d].kind = "migrate" /\ Goto(d, "compare") /\ UNCHANGED faults
  BY <1>1, <1>3, GotoMoves DEF Remote
<1>4. CASE cmd[d].kind \in {"import", "revoke"} /\ End(d, "done") /\ UNCHANGED faults
  BY <1>1, <1>4, EndMoves DEF Outcomes
<1>5. CASE Rejects(d)
  BY <1>5, RejectsMoves
<1> QED BY <1>2, <1>3, <1>4, <1>5 DEF Record

LEMMA RecordKeeps ==
  ASSUME IInv, NEW d \in Commands, Record(d)
  PROVE  IInv'
<1> USE DEF IInv
<1>1. /\ At(d, "record") /\ ledger' \subseteq Events
      /\ UNCHANGED <<vault, recovery, orbio, elsewhere>>
  BY EventIsOne DEF Record, TypeOK
<1>2. ASSUME cmd'[d].pc = "tidy", cmd[d].kind = "create"
      PROVE  Shaped' /\ Named' /\ Exclusive'
  <2>1. Moves(d)
    BY RecordMoves
  <2>2. Shaped'
    BY <1>2, <2>1 DEF Shaped, Moves
  <2>3. Named'
    BY <1>1, <1>2, <2>1 DEF Named, Moves, At, Storing, orbio
  <2>4. Exclusive'
    BY <1>1, <1>2, <2>1 DEF Exclusive, Moves, At, Working, Remote, Local
  <2> QED BY <2>2, <2>3, <2>4
<1>3. ASSUME cmd'[d].pc \in Outcomes \/ (cmd'[d].pc = "compare" /\ cmd[d].kind = "migrate")
      PROVE  Shaped' /\ Named' /\ Exclusive'
  BY <1>1, <1>3, RecordMoves, QuietStep DEF At, Working, Local, orbio
<1>4. Shaped' /\ Named' /\ Exclusive'
  BY <1>2, <1>3, RecordMoves DEF Outcomes
<1>5. TypeOK' /\ CreditedOnce'
  BY <1>1, RecordMoves DEF TypeOK, CreditedOnce, Moves, orbio
<1> QED BY <1>4, <1>5

LEMMA TidyKeeps ==
  ASSUME IInv, NEW d \in Commands, Tidy(d)
  PROVE  IInv'
<1> USE DEF IInv
<1>1. Moves(d) /\ cmd'[d].pc = "done"
  BY EndMoves DEF Tidy, Outcomes
<1>2. /\ At(d, "tidy") /\ cmd[d].kind = "create" /\ recovery' = None
      /\ UNCHANGED <<vault, ledger, orbio, bounds>>
  BY DEF Tidy, At, Shaped
<1>3. Shaped'
  BY <1>1, <1>2 DEF Shaped, Moves
<1>4. Named'
  BY <1>1, <1>2 DEF Named, Moves, Outcomes, orbio
<1>5. Exclusive'
  BY <1>1, <1>2 DEF Exclusive, Moves, Working, Remote, Local
<1>7. TypeOK' /\ CreditedOnce'
  BY <1>1, <1>2 DEF TypeOK, CreditedOnce, Moves, orbio, bounds
<1> QED BY <1>3, <1>4, <1>5, <1>7

LEMMA RevokeKeeps ==
  ASSUME IInv, NEW d \in Commands, Revoke(d)
  PROVE  IInv'
<1> USE DEF IInv
<1>1. /\ Moves(d) /\ faults' \in 0..MaxFaults
      /\ cmd'[d].pc \in {"clear", "unstored", "failed"}
  BY ProceedsMoves DEF Revoke, Local
<1>2. /\ At(d, "revoke") /\ cmd[d].kind = "revoke" /\ accountKey' \in {None, accountKey}
      /\ UNCHANGED <<files, legacy, balance, elsewhere>>
  BY DEF Revoke, At, Shaped
<1>3. None \notin Commands
  BY KeyAssumption
<1>4. Shaped'
  BY <1>1, <1>2 DEF Shaped, Moves
<1>5. Named'
  BY <1>1, <1>2, <1>3 DEF Named, Moves
<1>6. Exclusive'
  BY <1>1, <1>2 DEF Exclusive, Moves, At, Working, Remote, Local
<1>8. TypeOK' /\ CreditedOnce'
  BY <1>1, <1>2 DEF TypeOK, CreditedOnce, Moves, files
<1> QED BY <1>4, <1>5, <1>6, <1>8

LEMMA ClearKeeps ==
  ASSUME IInv, NEW d \in Commands, Clear(d)
  PROVE  IInv'
<1> USE DEF IInv
<1>1. /\ At(d, "clear") /\ cmd[d].kind \in {"clear", "revoke"} /\ vault' = None
      /\ UNCHANGED <<recovery, ledger, orbio, bounds>>
  BY DEF Clear, At, Shaped
<1>2. Moves(d) /\ (cmd'[d].pc = "done" \/ (cmd[d].kind = "revoke" /\ cmd'[d].pc = "record"))
  BY GotoMoves, EndMoves DEF Clear, Local, Outcomes
<1>3. Shaped'
  BY <1>1, <1>2 DEF Shaped, Moves
<1>4. Named'
  BY <1>1, <1>2 DEF Named, Moves, orbio
<1>5. Exclusive'
  BY <1>1, <1>2 DEF Exclusive, Moves, At, Working, Remote, Local
<1>7. TypeOK' /\ CreditedOnce'
  BY <1>1, <1>2 DEF TypeOK, CreditedOnce, Moves, orbio, bounds
<1> QED BY <1>3, <1>4, <1>5, <1>7

LEMMA LegacyKeeps ==
  ASSUME IInv, NEW d \in Commands, Legacy(d)
  PROVE  IInv'
<1> USE DEF IInv
<1>1. /\ At(d, "legacy") /\ cmd[d].kind = "migrate" /\ UNCHANGED <<files, orbio, bounds>>
      /\ Moves(d) /\ cmd'[d].pc \in {"refused", "balance"}
  BY GotoMoves, EndMoves DEF Legacy, Remote, Outcomes, At, Shaped
<1>2. Shaped' /\ Named' /\ Exclusive'
  BY <1>1, QuietStep DEF At, Working, Remote, Outcomes, files, orbio
<1>3. TypeOK' /\ CreditedOnce'
  BY <1>1 DEF files, orbio, bounds, TypeOK, CreditedOnce, Moves
<1> QED BY <1>2, <1>3

LEMMA BalanceKeeps ==
  ASSUME IInv, NEW d \in Commands, Balance(d)
  PROVE  IInv'
<1> USE DEF IInv
<1> DEFINE q == [cmd[d] EXCEPT !.pc = "delete", !.before = balance]
<1>1. cmd[d] \in Activations /\ balance \in 0..(2 * Remainder)
  BY DEF TypeOK
<1>2. /\ q \in Activations /\ q.pc = "delete"
      /\ q.kind = cmd[d].kind /\ q.alone = cmd[d].alone
  BY <1>1 DEF Activations, Remote
<1>3. cmd' = [cmd EXCEPT ![d] = q]
  BY DEF Balance
<1> HIDE DEF q
<1>4. /\ At(d, "balance") /\ cmd[d].kind = "migrate" /\ UNCHANGED <<files, orbio, bounds>>
      /\ Moves(d) /\ cmd'[d].pc = "delete"
  BY <1>2, <1>3 DEF Balance, At, Shaped, Moves, TypeOK
<1>5. Shaped' /\ Named' /\ Exclusive'
  BY <1>4, QuietStep DEF At, Working, Remote, files, orbio
<1>6. TypeOK' /\ CreditedOnce'
  BY <1>4 DEF files, orbio, bounds, TypeOK, CreditedOnce, Moves
<1> QED BY <1>5, <1>6

LEMMA DeleteKeeps ==
  ASSUME IInv, NEW d \in Commands, Delete(d)
  PROVE  IInv'
<1> USE DEF IInv
<1>1. /\ At(d, "delete") /\ cmd[d].kind = "migrate"
      /\ UNCHANGED <<files, accountKey, elsewhere>>
  BY DEF Delete, At, Shaped
<1>2. Moves(d) /\ faults' \in 0..MaxFaults /\ cmd'[d].pc \in {"verify", "unstored", "failed"}
  BY ProceedsMoves DEF Delete, Remote
<1>3. Shaped' /\ Named' /\ Exclusive'
  BY <1>1, <1>2, QuietStep DEF At, Working, Remote, Outcomes
<1>4. legacy' \in {legacy, "disabled"} /\ balance' \in 0..(2 * Remainder) /\ CreditedOnce'
  BY KeyAssumption DEF Delete, CreditedOnce, TypeOK
<1>5. TypeOK'
  BY <1>1, <1>2, <1>4 DEF files, TypeOK, Moves
<1> QED BY <1>3, <1>4, <1>5

LEMMA VerifyKeeps ==
  ASSUME IInv, NEW d \in Commands, Verify(d)
  PROVE  IInv'
<1> USE DEF IInv
<1>1. /\ At(d, "verify") /\ cmd[d].kind = "migrate" /\ UNCHANGED <<files, orbio, bounds>>
      /\ Moves(d) /\ cmd'[d].pc \in {"failed", "record"}
  BY GotoMoves, EndMoves DEF Verify, Local, Outcomes, At, Shaped
<1>2. Shaped' /\ Named' /\ Exclusive'
  BY <1>1, QuietStep DEF At, Working, Remote, Outcomes, files, orbio
<1>3. TypeOK' /\ CreditedOnce'
  BY <1>1 DEF files, orbio, bounds, TypeOK, CreditedOnce, Moves
<1> QED BY <1>2, <1>3

LEMMA CompareKeeps ==
  ASSUME IInv, NEW d \in Commands, Compare(d)
  PROVE  IInv'
<1> USE DEF IInv
<1>1. /\ At(d, "compare") /\ UNCHANGED <<files, orbio, bounds>>
      /\ Moves(d) /\ cmd'[d].pc \in {"done", "short"}
  BY EndMoves DEF Compare, Outcomes
<1>2. Shaped' /\ Named' /\ Exclusive'
  BY <1>1, QuietStep DEF At, Working, Remote, Outcomes, files, orbio
<1>3. TypeOK' /\ CreditedOnce'
  BY <1>1 DEF files, orbio, bounds, TypeOK, CreditedOnce, Moves
<1> QED BY <1>2, <1>3

\* A command whose call or write rejects, and one whose process is gone.
LEMMA FaultMoves ==
  ASSUME TypeOK, NEW d \in Commands, Fails(d) \/ Dies(d)
  PROVE  /\ Working(d) /\ UNCHANGED <<files, orbio, elsewhere>>
         /\ Moves(d) /\ cmd'[d].pc \in Outcomes
         /\ faults' \in 0..MaxFaults /\ faults' > faults /\ faults' # 0
<1>1. CASE Fails(d)
  BY <1>1, RejectsMoves DEF Fails, Outcomes
<1>2. CASE Dies(d)
  <2>1. Moves(d) /\ cmd'[d].pc \in Outcomes
    BY <1>2, EndMoves DEF Dies, Outcomes
  <2>2. faults \in Nat /\ MaxFaults \in Nat
    BY KeyAssumption DEF TypeOK
  <2> QED BY <1>2, <2>1, <2>2 DEF Dies, TypeOK
<1> QED BY <1>1, <1>2

LEMMA FaultKeeps ==
  ASSUME IInv, NEW d \in Commands, Fails(d) \/ Dies(d)
  PROVE  IInv'
<1> USE DEF IInv
<1>1. Shaped' /\ Named' /\ Exclusive'
  BY FaultMoves, QuietStep DEF orbio
<1>2. TypeOK' /\ CreditedOnce'
  BY FaultMoves DEF files, orbio, TypeOK, CreditedOnce, Moves
<1> QED BY <1>1, <1>2

LEMMA BeginKeeps ==
  ASSUME IInv, NEW d \in Commands, NEW kind \in Kinds, NEW rotate \in BOOLEAN,
         Begin(d, kind, rotate)
  PROVE  IInv'
<1> USE DEF IInv
<1> DEFINE alone == \A e \in Commands : ~Working(e)
           q == [NoCommand EXCEPT !.pc = First[kind], !.kind = kind, !.rotate = rotate,
                   !.answer = IF kind = "import" THEN OwnKey ELSE None, !.alone = alone]
           p(c) == IF Working(c) THEN [cmd[c] EXCEPT !.alone = FALSE] ELSE cmd[c]
<1>1. At(d, "idle") /\ UNCHANGED <<files, orbio, bounds>>
  BY DEF Begin
<1>2. cmd' = [c \in Commands |-> IF c = d THEN q ELSE p(c)]
  BY DEF Begin
<1>3. /\ q \in Activations /\ q.pc = First[kind] /\ q.kind = kind /\ q.alone = alone
      /\ kind = "import" => q.answer = OwnKey
  <2>1. 0 \in 0..(2 * Remainder)
    BY KeyAssumption
  <2>2. First[kind] \in Remote \cup Local
    BY DEF First, Kinds, Remote, Local
  <2>3. alone \in BOOLEAN /\ (IF kind = "import" THEN OwnKey ELSE None) \in Keys \cup {Refusal, None}
    BY DEF Keys
  <2> HIDE DEF alone
  <2> QED BY <2>1, <2>2, <2>3 DEF NoCommand, Activations
<1>4. \A c \in Commands : /\ p(c) \in Activations /\ p(c).pc = cmd[c].pc
                          /\ p(c).kind = cmd[c].kind /\ p(c).answer = cmd[c].answer
                          /\ Working(c) => ~p(c).alone
                          /\ ~Working(c) => p(c) = cmd[c]
  BY DEF TypeOK, Activations
<1>5. /\ cmd' \in [Commands -> Activations]
      /\ cmd'[d] = q /\ \A c \in Commands : c # d => cmd'[c] = p(c)
  BY <1>2, <1>3, <1>4
<1> HIDE DEF q, p
<1>6. Shaped'
  BY <1>3, <1>4, <1>5 DEF Shaped, First, Kinds
<1>7. Named'
  BY <1>1, <1>4, <1>5 DEF Named, At, Storing, Outcomes, orbio
<1>8. Exclusive'
  <2>1. \A c \in Commands : c # d => (cmd'[c].pc \in Remote \cup Local <=> Working(c))
    BY <1>4, <1>5 DEF Working
  <2> SUFFICES ASSUME NEW c \in Commands, NEW e \in Commands, e # c,
                      cmd'[c].alone, cmd'[c].pc \in Remote \cup Local
               PROVE  ~(cmd'[e].pc \in Remote \cup Local)
    BY DEF Exclusive, Working
  <2>2. c = d
    BY <1>4, <1>5, <2>1
  <2>3. alone
    BY <1>3, <1>5, <2>2
  <2> QED BY <2>1, <2>2, <2>3
<1>10. TypeOK' /\ CreditedOnce'
  BY <1>1, <1>5 DEF TypeOK, CreditedOnce, files, orbio, bounds
<1> QED BY <1>6, <1>7, <1>8, <1>10

LEMMA ElsewhereKeeps ==
  ASSUME IInv, Elsewhere
  PROVE  IInv'
<1> USE DEF IInv
<1>1. /\ UNCHANGED <<files, legacy, cmd, faults>>
      /\ accountKey' \in {None, OtherKey, accountKey} /\ elsewhere' \in 0..MaxElsewhere
      /\ balance' \in 0..(2 * Remainder) /\ balance' <= balance
  BY KeyAssumption DEF Elsewhere, TypeOK
<1>2. None \notin Commands /\ OtherKey \notin Commands
  BY KeyAssumption
<1>3. Shaped' /\ Exclusive'
  BY <1>1 DEF Shaped, Exclusive, Working
<1>4. Named'
  BY <1>1, <1>2 DEF Named
<1>5. TypeOK' /\ CreditedOnce'
  BY <1>1, KeyAssumption DEF TypeOK, CreditedOnce, files
<1> QED BY <1>3, <1>4, <1>5

LEMMA StepKeepsIt == IInv /\ [Next]_vars => IInv'
<1> SUFFICES ASSUME IInv, [Next]_vars PROVE IInv'
  OBVIOUS
<1>1. CASE UNCHANGED vars
  BY <1>1 DEF vars, files, orbio, bounds, IInv, TypeOK, Shaped, Named, Exclusive,
     CreditedOnce, Working
<1>2. CASE Elsewhere
  BY <1>2, ElsewhereKeeps
<1>3. ASSUME NEW d \in Commands, Command(d)
      PROVE  IInv'
  BY <1>3, BeginKeeps, StatusKeeps, CreateKeeps, CreateRefusedKeeps,
     WriteRecoveryKeeps, ExtractKeeps, SaveKeeps, CheckKeeps, RecordKeeps, TidyKeeps,
     RevokeKeeps, ClearKeeps, LegacyKeeps, BalanceKeeps, DeleteKeeps, VerifyKeeps,
     CompareKeeps, FaultKeeps DEF Command
<1> QED BY <1>1, <1>2, <1>3 DEF Next

\* Every state of any number of commands has its type, and the vault, the files and the
\* account stay in the relation the commands rely on (createOrRotate, revoke,
\* migrateLegacyKey).
THEOREM TypeCorrect == Spec => []TypeOK
<1>1. IInv => TypeOK
  BY DEF IInv
<1> QED BY InitIsCorrect, StepKeepsIt, <1>1, PTL DEF Spec
-----------------------------------------------------------------------------
\* A command that has begun moves by itself, from where it works.
LEMMA CommandMoves ==
  ASSUME IInv, NEW d \in Commands,
         Command(d), \A kind \in Kinds, rotate \in BOOLEAN : ~Begin(d, kind, rotate)
  PROVE  Moves(d) /\ Working(d)
<1> USE DEF IInv, At, Working, Remote, Local
<1>1. CASE Status(d)
  <2>1. CASE End(d, "refused")
    BY <1>1, <2>1, EndMoves DEF Status, Outcomes
  <2>2. CASE cmd' = [cmd EXCEPT ![d].pc = "create", ![d].had = accountKey # None]
    <3> DEFINE q == [cmd[d] EXCEPT !.pc = "create", !.had = accountKey # None]
    <3>1. cmd[d] \in Activations
      BY DEF TypeOK
    <3>2. q \in Activations /\ q.kind = cmd[d].kind /\ q.alone = cmd[d].alone
      BY <3>1 DEF Activations
    <3>3. cmd' = [cmd EXCEPT ![d] = q]
      BY <2>2
    <3> HIDE DEF q
    <3> QED BY <1>1, <3>2, <3>3 DEF Status, Moves, TypeOK
  <2> QED BY <1>1, <2>1, <2>2 DEF Status
<1>2. CASE Create(d) \/ CreateRefused(d)
  BY <1>2, CreateMoves, AnswerMoves DEF Create, CreateRefused, Answer
<1>3. CASE Extract(d) \/ Tidy(d) \/ Compare(d) \/ Fails(d) \/ Dies(d)
  BY <1>3, EndMoves, FaultMoves DEF Extract, Tidy, Compare, Outcomes
<1>4. CASE WriteRecovery(d) \/ Save(d) \/ Revoke(d) \/ Delete(d)
  BY <1>4, ProceedsMoves DEF WriteRecovery, Save, Revoke, Delete
<1>5. CASE Check(d)
  <2>1. CASE vault = None
    BY <1>5, <2>1, EndMoves DEF Check, Outcomes
  <2>2. CASE vault # None
    BY <1>5, <2>2, AnswerMoves DEF Check, TypeOK
  <2> QED BY <2>1, <2>2
<1>6. CASE Record(d) \/ Clear(d) \/ Legacy(d) \/ Verify(d)
  BY <1>6, RecordMoves, GotoMoves, EndMoves DEF Record, Clear, Legacy, Verify, Outcomes
<1>7. CASE Balance(d)
  <2> DEFINE q == [cmd[d] EXCEPT !.pc = "delete", !.before = balance]
  <2>1. cmd[d] \in Activations /\ balance \in 0..(2 * Remainder)
    BY DEF TypeOK
  <2>2. q \in Activations /\ q.kind = cmd[d].kind /\ q.alone = cmd[d].alone
    BY <2>1 DEF Activations
  <2>3. cmd' = [cmd EXCEPT ![d] = q]
    BY <1>7 DEF Balance
  <2> HIDE DEF q
  <2> QED BY <1>7, <2>2, <2>3 DEF Balance, Moves, TypeOK
<1> QED BY <1>1, <1>2, <1>3, <1>4, <1>5, <1>6, <1>7 DEF Command

Excused(c) == Unwritten(c) \/ Asked \/ Overwritten(c)

\* The account's key is c's since its creation.
LEMMA AccountKeyFrom ==
  ASSUME IInv, NEW c \in Commands, NEW d \in Commands, Command(d), accountKey' = c
  PROVE  accountKey = c \/ (d = c /\ Create(d))
BY KeyAssumption DEF Command, Begin, Status, Create, CreateRefused, WriteRecovery, Extract, Save,
   Check, Record, Tidy, Revoke, Clear, Legacy, Balance, Delete, Verify, Compare, Fails, Dies, orbio

LEMMA CreateHolds ==
  ASSUME IInv, NEW c \in Commands, Create(c), ~Held(c)'
  PROVE  Excused(c)
<1>1. cmd'[c].pc = "recover" \/ faults' > faults
  BY CreateMoves DEF IInv
<1> QED BY <1>1 DEF Held, Excused, Unwritten, Create, At

LEMMA BeginHolds ==
  ASSUME IInv, NEW c \in Commands, NEW d \in Commands, NEW kind \in Kinds,
         NEW rotate \in BOOLEAN, Begin(d, kind, rotate), Held(c)
  PROVE  Held(c)'
<1>1. UNCHANGED <<vault, recovery>> /\ At(d, "idle") /\ cmd[c] \in Activations
  BY DEF Begin, files, IInv, TypeOK
<1>2. CASE c = d
  <2> DEFINE q == [NoCommand EXCEPT !.pc = First[kind], !.kind = kind, !.rotate = rotate,
                     !.answer = IF kind = "import" THEN OwnKey ELSE None,
                     !.alone = \A e \in Commands : ~Working(e)]
  <2>1. cmd'[c] = q
    BY <1>2 DEF Begin
  <2>2. q.pc = First[kind]
    BY DEF NoCommand
  <2> HIDE DEF q
  <2>3. cmd'[c].pc \notin {"recover", "check", "record", "tidy"}
    BY <2>1, <2>2 DEF First, Kinds
  <2> QED BY <1>1, <1>2, <2>3 DEF Held, At
<1>3. CASE c # d
  <2>1. cmd'[c] = IF Working(c) THEN [cmd[c] EXCEPT !.alone = FALSE] ELSE cmd[c]
    BY <1>3 DEF Begin
  <2>2. cmd'[c].pc = cmd[c].pc
    BY <1>1, <2>1 DEF Activations
  <2> QED BY <1>1, <2>2 DEF Held, At
<1> QED BY <1>2, <1>3

\* A step of another command loses the key of c only where it is excused.
LEMMA OthersHold ==
  ASSUME IInv, NEW c \in Commands, NEW d \in Commands, c # d, Command(d), Moves(d), Working(d),
         Held(c), ~Held(c)'
  PROVE  Excused(c)
<1> USE DEF IInv
<1>1. cmd'[c] = cmd[c]
  BY DEF Moves
<1>2. vault' # vault \/ recovery' # recovery
  BY <1>1 DEF Held, At
<1>3. WriteRecovery(d) \/ Save(d) \/ Tidy(d) \/ Clear(d)
  BY <1>2 DEF Command, Begin, Status, Create, CreateRefused, Extract, Check, Record,
     Revoke, Legacy, Balance, Delete, Verify, Compare, Fails, Dies, files
<1>4. Steps(d)
  <2>1. cmd'[d].pc # cmd[d].pc
    BY <1>3, ProceedsMoves, EndMoves, GotoMoves
       DEF WriteRecovery, Save, Tidy, Clear, At, Local, Outcomes
  <2> QED BY <2>1 DEF Steps
<1>5. /\ WriteRecovery(d) => Is(d, "recover", "create")
      /\ Save(d) => Is(d, "save", "create") \/ Is(d, "save", "import")
      /\ Tidy(d) => Is(d, "tidy", "create")
      /\ Clear(d) => At(d, "clear")
  BY DEF WriteRecovery, Save, Tidy, Clear, Shaped, Is, At
<1> QED BY <1>3, <1>4, <1>5 DEF Excused, Asked, Overwritten

\* Command c itself keeps the key it has, wherever it fails or dies once it is written.
LEMMA OwnHolds ==
  ASSUME IInv, NEW c \in Commands, Command(c), Moves(c), Working(c), accountKey = c, Held(c),
         ~Held(c)'
  PROVE  Unwritten(c)
<1> USE DEF IInv
<1>1. /\ cmd[c].pc \in Storing /\ cmd[c].kind = "create"
      /\ cmd[c].pc \in {"recover", "save"} => cmd[c].answer = c
      /\ c # Refusal
  BY KeyAssumption DEF Named, Working, Storing, Outcomes, Remote, Local
<1>2. CASE WriteRecovery(c)
  <2>1. recovery' = c
    BY <1>1, <1>2 DEF WriteRecovery, At
  <2>2. cmd'[c].pc \in {"save", "unstored", "failed"}
    BY <1>2, ProceedsMoves DEF WriteRecovery, Local
  <2> QED BY <2>1, <2>2 DEF Held
<1>3. CASE Save(c)
  BY <1>1, <1>3 DEF Save, At, Held
<1>4. CASE Check(c) \/ Record(c) \/ Tidy(c)
  <2>1. cmd[c].pc \in {"check", "record", "tidy"} /\ vault' = vault
    BY <1>4 DEF Check, Record, Tidy, At, files
  <2> QED BY <2>1 DEF Held, At
<1>5. CASE Fails(c) \/ Dies(c)
  <2>1. UNCHANGED <<vault, recovery>> /\ faults' > faults /\ cmd'[c].pc \in Outcomes
    BY <1>5, FaultMoves DEF files
  <2> QED BY <2>1 DEF Held, At, Unwritten, Outcomes
<1>6. WriteRecovery(c) \/ Save(c) \/ Check(c) \/ Record(c) \/ Tidy(c) \/ Fails(c) \/ Dies(c)
  BY <1>1 DEF Command, Begin, Status, Create, CreateRefused, Extract, Revoke, Clear, Legacy,
     Balance, Delete, Verify, Compare, At, Storing
<1> QED BY <1>2, <1>3, <1>4, <1>5, <1>6

LEMMA StepHolds ==
  ASSUME IInv, Next, NEW c \in Commands, Loses(c)
  PROVE  Excused(c)
<1> USE DEF Loses
<1>1. CASE Elsewhere
  BY <1>1, KeyAssumption DEF Elsewhere, Held, At, files
<1>2. ASSUME NEW d \in Commands, Command(d)
      PROVE  Excused(c)
  <2>1. CASE d = c /\ Create(d)
    BY <2>1, CreateHolds
  <2>2. CASE accountKey = c /\ Held(c)
    <3>1. \A kind \in Kinds, rotate \in BOOLEAN : ~Begin(d, kind, rotate)
      BY <2>2, BeginHolds
    <3>2. Moves(d) /\ Working(d)
      BY <1>2, <3>1, CommandMoves
    <3> QED BY <1>2, <2>2, <3>2, OthersHold, OwnHolds DEF Excused
  <2> QED BY <1>2, <2>1, <2>2, AccountKeyFrom
<1> QED BY <1>1, <1>2 DEF Next

\* For any number of commands, failures and deaths, at every interleaving: only another
\* creation loses the secret of the account's key, once it could be written and until
\* the operator has it removed (createOrRotate, revoke, `key import`, `key clear`).
THEOREM KeyIsKept == Spec => CreatedKeyIsKept
<1>1. ASSUME IInv, [Next]_vars
      PROVE  [\A c \in Commands : Loses(c) => Excused(c)]_vars
  BY <1>1, StepHolds
<1> QED BY InitIsCorrect, StepKeepsIt, <1>1, PTL DEF Spec, CreatedKeyIsKept, Excused
-----------------------------------------------------------------------------
\* The events of the ledger that name a key in the vault.
Told == {e \in ledger \ Migrations : e.type # "KEY_REVOKED"}

\* Command c is about to record the key that is in the vault.
AboutToTell(c) ==
  \/ At(c, "check")
  \/ (At(c, "record") /\ cmd[c].kind \in {"create", "import"} /\ cmd[c].answer = vault)

VaultTold == faults = 0 /\ vault # None =>
  (\E e \in Told : e.key = vault) \/ (\E c \in Commands : AboutToTell(c))

\* Command c has read the legacy key as active and not yet recorded its deletion.
Past(c) == cmd[c].pc \in {"balance", "delete", "verify"} \/ Is(c, "record", "migrate")

LegacyTold == faults = 0 /\ legacy = "disabled" =>
  Migrations # {} \/ (\E c \in Commands : At(c, "verify") \/ Is(c, "record", "migrate"))

\* Whoever recorded a migration is past it and the legacy key is not active; a
\* migration that runs by itself is the first, and stays the only one.
OneMigration ==
  /\ \A c \in Commands : Is(c, "record", "migrate") => legacy # "active"
  /\ \A e \in Migrations : legacy # "active" /\ cmd[e.by].pc \in {"compare"} \cup Outcomes
  /\ \A c \in Commands : cmd[c].alone /\ Past(c) => Migrations = {}
  /\ \A e \in Migrations, c \in Commands : cmd[e.by].alone => ~Past(c)
  /\ \A e, f \in Migrations : e # f => ~cmd[e.by].alone

LedgerInv == VaultTold /\ LegacyTold /\ OneMigration

LEMMA InitLedger == Init => LedgerInv
BY DEF Init, LedgerInv, VaultTold, LegacyTold, OneMigration, Migrations, Is, At, NoCommand

\* Migrations are recorded by commands.
LEMMA MigratedBy ==
  ASSUME TypeOK, NEW e \in Migrations
  PROVE  e \in [type : {"KEY_REVOKED", "LEGACY_KEY_DELETED"}, by : Commands] /\ e.by \in Commands
<1>1. e \in Events /\ e.type = "LEGACY_KEY_DELETED"
  BY DEF TypeOK, Migrations
<1>2. CASE e \in [type : {"KEY_CREATED", "KEY_ROTATED", "KEY_IMPORTED"}, key : Keys]
  BY <1>1, <1>2
<1> QED BY <1>1, <1>2 DEF Events

\* A step that leaves the vault: whoever is about to record its key stays so, or
\* has recorded it.
LEMMA VaultStays ==
  ASSUME VaultTold, faults' = faults, vault' = vault, ledger \subseteq ledger',
         \A c \in Commands : AboutToTell(c) =>
            AboutToTell(c)' \/ (\E e \in Told' : e.key = vault')
  PROVE  VaultTold'
<1>1. Told \subseteq Told'
  BY DEF Told, Migrations
<1> QED BY <1>1 DEF VaultTold

\* While nothing has failed, nothing is failing.
LEMMA Unfailed ==
  ASSUME IInv, NEW d \in Commands, Command(d), faults' = 0
  PROVE  faults' = faults /\ ~Rejects(d) /\ ~Fails(d) /\ ~Dies(d)
<1> USE DEF IInv
<1>1. ~Rejects(d) /\ ~Fails(d) /\ ~Dies(d)
  BY RejectsMoves, FaultMoves
<1>2. faults' = faults
  BY <1>1 DEF Command, Begin, Status, Create, CreateRefused, WriteRecovery, Extract, Save, Check,
     Record, Tidy, Revoke, Clear, Legacy, Balance, Delete, Verify, Compare, Proceeds, bounds
<1> QED BY <1>1, <1>2

LEMMA VaultToldStep ==
  ASSUME IInv, VaultTold, NEW d \in Commands, Command(d)
  PROVE  VaultTold'
<1> USE DEF IInv
<1>1. ASSUME NEW kind \in Kinds, NEW rotate \in BOOLEAN, Begin(d, kind, rotate)
      PROVE  VaultTold'
  <2>1. /\ ~AboutToTell(d) /\ UNCHANGED <<faults, vault, ledger>>
        /\ \A c \in Commands : c # d =>
             cmd'[c] \in {cmd[c], [cmd[c] EXCEPT !.alone = FALSE]}
    BY <1>1 DEF Begin, AboutToTell, At, files, bounds
  <2>2. \A c \in Commands : c # d =>
          /\ cmd'[c].pc = cmd[c].pc /\ cmd'[c].kind = cmd[c].kind
          /\ cmd'[c].answer = cmd[c].answer
    <3>1. \A c \in Commands : cmd[c] \in Activations
      BY DEF TypeOK
    <3> QED BY <2>1, <3>1 DEF Activations
  <2> QED BY <2>1, <2>2, VaultStays DEF AboutToTell, At
<1>2. CASE faults' # 0
  BY <1>2 DEF VaultTold
<1>3. ASSUME Moves(d), faults' = 0 PROVE VaultTold'
  <2>0. faults' = faults /\ ~Rejects(d) /\ ~Fails(d) /\ ~Dies(d)
    BY <1>3, Unfailed
  <2>1. \A c \in Commands : c # d /\ vault' = vault /\ AboutToTell(c) => AboutToTell(c)'
    BY <1>3 DEF Moves, AboutToTell, At
  <2>2. CASE \/ Status(d) \/ Create(d) \/ CreateRefused(d) \/ WriteRecovery(d) \/ Extract(d)
             \/ Tidy(d) \/ Revoke(d) \/ Legacy(d) \/ Balance(d) \/ Delete(d) \/ Verify(d)
             \/ Compare(d)
    <3>1. ~AboutToTell(d) /\ UNCHANGED <<faults, vault, ledger>>
      BY <2>0, <2>2 DEF Status, Create, CreateRefused, WriteRecovery, Extract, Tidy, Revoke, Legacy,
         Balance, Delete, Verify, Compare, AboutToTell, At, files, bounds
    <3> QED BY <2>1, <3>1, VaultStays
  <2>3. CASE Save(d)
    <3>1. cmd'[d].pc = "check"
      BY <2>0, <2>3, GotoMoves DEF Save, Proceeds, Local
    <3> QED BY <3>1 DEF VaultTold, AboutToTell, At
  <2>4. CASE Check(d)
    <3>1. vault' = vault /\ faults' = faults /\ ledger' = ledger
      BY <2>4 DEF Check, files, bounds
    <3>2. CASE vault # None
      <4>1. cmd'[d].pc = "record" /\ cmd'[d].answer = vault
        BY <2>4, <3>2, AnswerMoves DEF Check, TypeOK, Local
      <4>2. cmd'[d].kind \in {"create", "import"}
        BY <1>3, <2>4 DEF Moves, Check, At, Shaped
      <4> QED BY <3>1, <4>1, <4>2 DEF VaultTold, AboutToTell, At
    <3> QED BY <3>1, <3>2 DEF VaultTold
  <2>5. CASE Record(d)
    <3>1. /\ UNCHANGED <<faults, vault>> /\ ledger' = ledger \cup {Event(d)} /\ At(d, "record")
      BY <2>0, <2>5 DEF Record
    <3>2. CASE cmd[d].kind \in {"create", "import"} /\ cmd[d].answer = vault
      <4>1. Event(d).key = vault /\ Event(d).type \in {"KEY_ROTATED", "KEY_CREATED", "KEY_IMPORTED"}
        BY <3>2 DEF Event
      <4>2. Event(d) \in Told' /\ Event(d).key = vault'
        BY <3>1, <4>1 DEF Told, Migrations
      <4> QED BY <4>2 DEF VaultTold
    <3>3. CASE ~(cmd[d].kind \in {"create", "import"} /\ cmd[d].answer = vault)
      <4>1. ~AboutToTell(d)
        BY <3>1, <3>3 DEF AboutToTell, At
      <4> QED BY <2>1, <3>1, <4>1, VaultStays
    <3> QED BY <3>2, <3>3
  <2>6. CASE Clear(d)
    BY <2>6 DEF Clear, VaultTold
  <2> QED BY <1>1, <2>0, <2>2, <2>3, <2>4, <2>5, <2>6 DEF Command
<1> QED BY <1>1, <1>2, <1>3, CommandMoves

LEMMA LegacyToldStep ==
  ASSUME IInv, LegacyTold, NEW d \in Commands, Command(d)
  PROVE  LegacyTold'
<1> USE DEF IInv
<1>0. ASSUME ledger \subseteq ledger' PROVE Migrations \subseteq Migrations'
  BY <1>0 DEF Migrations
<1>1. ASSUME NEW kind \in Kinds, NEW rotate \in BOOLEAN, Begin(d, kind, rotate)
      PROVE  LegacyTold'
  <2>1. /\ At(d, "idle") /\ UNCHANGED <<faults, legacy, ledger>>
        /\ \A c \in Commands : c # d =>
             cmd'[c] \in {cmd[c], [cmd[c] EXCEPT !.alone = FALSE]}
    BY <1>1 DEF Begin, files, orbio, bounds
  <2>2. \A c \in Commands : c # d =>
          cmd'[c].pc = cmd[c].pc /\ cmd'[c].kind = cmd[c].kind
    <3>1. \A c \in Commands : cmd[c] \in Activations
      BY DEF TypeOK
    <3> QED BY <2>1, <3>1 DEF Activations
  <2> QED BY <1>0, <2>1, <2>2 DEF LegacyTold, Is, At
<1>2. CASE faults' # 0
  BY <1>2 DEF LegacyTold
<1>3. ASSUME Moves(d), faults' = 0 PROVE LegacyTold'
  <2>0. faults' = faults /\ ~Rejects(d) /\ ~Fails(d) /\ ~Dies(d)
    BY <1>3, Unfailed
  <2>1. CASE \/ Status(d) \/ Create(d) \/ CreateRefused(d) \/ WriteRecovery(d) \/ Extract(d)
             \/ Save(d) \/ Check(d) \/ Tidy(d) \/ Revoke(d) \/ Clear(d) \/ Legacy(d)
             \/ Balance(d) \/ Compare(d)
    <3>1. /\ ~At(d, "verify") /\ ~Is(d, "record", "migrate")
          /\ UNCHANGED <<faults, legacy, ledger>>
      BY <2>0, <2>1 DEF Status, Create, CreateRefused, WriteRecovery, Extract, Save, Check, Tidy,
         Revoke, Clear, Legacy, Balance, Compare, Is, At, files, orbio, bounds
    <3> QED BY <1>0, <1>3, <3>1 DEF LegacyTold, Moves, Is, At
  <2>2. CASE Delete(d)
    <3>1. cmd'[d].pc = "verify"
      BY <2>0, <2>2, GotoMoves DEF Delete, Proceeds, Remote
    <3> QED BY <3>1 DEF LegacyTold, At
  <2>3. CASE Verify(d)
    <3>1. legacy' = legacy /\ At(d, "verify") /\ cmd'[d].kind = "migrate"
      BY <1>3, <2>3 DEF Verify, orbio, Moves, Shaped, At
    <3>2. legacy # "active" => cmd'[d].pc = "record"
      BY <2>3, GotoMoves DEF Verify, Local
    <3> QED BY <3>1, <3>2 DEF LegacyTold, Is, At
  <2>4. CASE Record(d)
    <3>1. /\ UNCHANGED <<faults, legacy>> /\ ledger' = ledger \cup {Event(d)} /\ At(d, "record")
      BY <2>0, <2>4 DEF Record, orbio
    <3>2. CASE cmd[d].kind = "migrate"
      <4>1. Event(d).type = "LEGACY_KEY_DELETED"
        BY <3>2 DEF Event
      <4> QED BY <3>1, <4>1 DEF LegacyTold, Migrations
    <3>3. CASE cmd[d].kind # "migrate"
      BY <1>0, <1>3, <3>1, <3>3 DEF LegacyTold, Moves, Is, At
    <3> QED BY <3>2, <3>3
  <2> QED BY <1>1, <2>0, <2>1, <2>2, <2>3, <2>4 DEF Command
<1> QED BY <1>1, <1>2, <1>3, CommandMoves

\* A step that records no migration; one that starts to migrate has read the
\* legacy key as active.
LEMMA NoMigration ==
  ASSUME IInv, OneMigration, NEW d \in Commands, Moves(d), Working(d), Migrations' = Migrations,
         legacy # "active" => legacy' # "active",
         Is(d, "record", "migrate")' => legacy' # "active",
         At(d, "compare") => cmd'[d].pc \in Outcomes,
         Past(d)' => Past(d) \/ legacy = "active"
  PROVE  OneMigration'
<1>1. \A e \in Migrations : e.by \in Commands
  BY MigratedBy DEF IInv
<1>2. \A c \in Commands : c # d => cmd'[c] = cmd[c]
  BY DEF Moves
<1>3. cmd'[d].alone = cmd[d].alone
  BY DEF Moves
<1>4. \A c \in Commands : Is(c, "record", "migrate")' => legacy' # "active"
  BY <1>2 DEF OneMigration, Is, At
<1>5. ASSUME NEW e \in Migrations'
      PROVE  legacy' # "active" /\ cmd'[e.by].pc \in {"compare"} \cup Outcomes
  <2>1. legacy # "active" /\ cmd[e.by].pc \in {"compare"} \cup Outcomes
    BY <1>5 DEF OneMigration
  <2>2. e.by = d => At(d, "compare")
    BY <2>1 DEF Working, Remote, Local, Outcomes, At
  <2> QED BY <1>1, <1>2, <1>5, <2>1, <2>2
<1>6. ASSUME NEW c \in Commands, cmd'[c].alone, Past(c)' PROVE Migrations' = {}
  BY <1>2, <1>3, <1>6 DEF OneMigration, Past, Is, At
<1>7. ASSUME NEW e \in Migrations', NEW c \in Commands, cmd'[e.by].alone PROVE ~Past(c)'
  <2>1. legacy # "active" /\ cmd[e.by].alone
    BY <1>1, <1>2, <1>3, <1>7 DEF OneMigration
  <2>2. ~Past(c)
    BY <1>7, <2>1 DEF OneMigration
  <2> QED BY <1>2, <2>1, <2>2 DEF Past, Is, At
<1>8. ASSUME NEW e \in Migrations', NEW f \in Migrations', e # f PROVE ~cmd'[e.by].alone
  BY <1>1, <1>2, <1>3, <1>8 DEF OneMigration
<1> QED BY <1>4, <1>5, <1>6, <1>7, <1>8 DEF OneMigration

LEMMA RecordedOnce ==
  ASSUME IInv, OneMigration, NEW d \in Commands, Moves(d), Record(d), cmd[d].kind = "migrate"
  PROVE  OneMigration'
<1> USE DEF IInv
<1> DEFINE n == [type |-> "LEGACY_KEY_DELETED", by |-> d]
<1>1. At(d, "record") /\ Past(d) /\ Working(d) /\ Is(d, "record", "migrate")
  BY DEF Record, Past, Is, At, Working, Local
<1>2. cmd'[d].pc \in {"compare"} \cup Outcomes /\ cmd'[d].alone = cmd[d].alone
  BY RecordMoves DEF Moves, Outcomes
<1>3. n.type = "LEGACY_KEY_DELETED" /\ n.by = d /\ Event(d) = n
  BY DEF Event
<1> HIDE DEF n
<1>4. Migrations' = Migrations \cup {n} /\ legacy' = legacy /\ legacy # "active"
  BY <1>1, <1>3 DEF Record, Migrations, orbio, OneMigration
<1>5. \A c \in Commands : c # d => cmd'[c] = cmd[c]
  BY DEF Moves
<1>6. ASSUME NEW e \in Migrations PROVE e.by \in Commands /\ e.by # d
  <2>1. cmd[e.by].pc \in {"compare"} \cup Outcomes
    BY <1>6 DEF OneMigration
  <2> QED BY <1>1, <1>6, <2>1, MigratedBy DEF Outcomes, At
<1>7. ASSUME NEW c \in Commands, Past(c)' PROVE c # d /\ Working(c) /\ Past(c)
  BY <1>2, <1>5, <1>7 DEF Past, Is, At, Working, Remote, Local, Outcomes
<1>8. \A c \in Commands : Is(c, "record", "migrate")' => legacy' # "active"
  BY <1>4
<1>9. \A e \in Migrations' : legacy' # "active" /\ cmd'[e.by].pc \in {"compare"} \cup Outcomes
  BY <1>2, <1>3, <1>4, <1>5, <1>6 DEF OneMigration
<1>10. ASSUME NEW c \in Commands, cmd'[c].alone, Past(c)' PROVE FALSE
  BY <1>1, <1>5, <1>7, <1>10 DEF Exclusive
<1>11. ASSUME NEW e \in Migrations', NEW c \in Commands, cmd'[e.by].alone PROVE ~Past(c)'
  <2>1. CASE e = n
    BY <1>1, <1>2, <1>3, <1>7, <1>11, <2>1 DEF Exclusive
  <2>2. CASE e \in Migrations
    BY <1>5, <1>6, <1>7, <1>11, <2>2 DEF OneMigration
  <2> QED BY <1>4, <1>11, <2>1, <2>2
<1>12. ASSUME NEW e \in Migrations', NEW f \in Migrations', e # f PROVE ~cmd'[e.by].alone
  <2>1. CASE e = n
    <3>1. f \in Migrations
      BY <1>4, <1>12, <2>1
    <3>2. ~cmd[d].alone
      BY <1>1, <3>1 DEF OneMigration
    <3> QED BY <1>2, <1>3, <2>1, <3>2
  <2>2. CASE e \in Migrations
    <3>1. ~cmd[e.by].alone
      BY <1>1, <2>2 DEF OneMigration
    <3> QED BY <1>5, <1>6, <2>2, <3>1
  <2> QED BY <1>4, <1>12, <2>1, <2>2
<1> QED BY <1>8, <1>9, <1>10, <1>11, <1>12 DEF OneMigration

\* Where the commands that do not migrate go.
LEMMA CommandPlaces ==
  ASSUME IInv, NEW d \in Commands,
         \/ Status(d) \/ Create(d) \/ CreateRefused(d) \/ WriteRecovery(d)
         \/ Extract(d) \/ Save(d) \/ Check(d) \/ Tidy(d) \/ Revoke(d) \/ Clear(d)
  PROVE  cmd'[d].pc \in {"create", "recover", "save", "check", "record", "clear"} \cup Outcomes
<1> USE DEF IInv, Remote, Local, Outcomes
<1>1. CASE Status(d)
  BY <1>1, EndMoves DEF Status, TypeOK, Activations
<1>2. CASE Create(d) \/ CreateRefused(d)
  BY <1>2, CreateMoves, AnswerMoves DEF CreateRefused, Answer
<1>3. CASE Extract(d) \/ Tidy(d)
  BY <1>3, EndMoves DEF Extract, Tidy
<1>4. CASE WriteRecovery(d) \/ Save(d) \/ Revoke(d)
  BY <1>4, ProceedsMoves DEF WriteRecovery, Save, Revoke
<1>5. CASE Check(d)
  BY <1>5, EndMoves, AnswerMoves DEF Check, TypeOK
<1>6. CASE Clear(d)
  BY <1>6, GotoMoves, EndMoves DEF Clear
<1> QED BY <1>1, <1>2, <1>3, <1>4, <1>5, <1>6

LEMMA OneMigrationStep ==
  ASSUME IInv, OneMigration, NEW d \in Commands, Command(d)
  PROVE  OneMigration'
<1> USE DEF IInv
<1>1. ASSUME NEW kind \in Kinds, NEW rotate \in BOOLEAN, Begin(d, kind, rotate)
      PROVE  OneMigration'
  <2>1. At(d, "idle") /\ UNCHANGED <<legacy, ledger>>
    BY <1>1 DEF Begin, files, orbio
  <2>2. ASSUME NEW c \in Commands, c # d
        PROVE  /\ cmd'[c].pc = cmd[c].pc /\ cmd'[c].kind = cmd[c].kind
               /\ cmd'[c].alone => cmd[c].alone
    <3>1. cmd[c] \in Activations
      BY DEF TypeOK
    <3>2. cmd'[c] = IF Working(c) THEN [cmd[c] EXCEPT !.alone = FALSE] ELSE cmd[c]
      BY <1>1, <2>2 DEF Begin
    <3> QED BY <3>1, <3>2 DEF Activations
  <2>3. cmd'[d].pc = First[kind]
    <3> DEFINE q == [NoCommand EXCEPT !.pc = First[kind], !.kind = kind, !.rotate = rotate,
                       !.answer = IF kind = "import" THEN OwnKey ELSE None,
                       !.alone = \A e \in Commands : ~Working(e)]
    <3>1. cmd'[d] = q
      BY <1>1 DEF Begin
    <3>2. q.pc = First[kind]
      BY DEF NoCommand
    <3> HIDE DEF q
    <3> QED BY <3>1, <3>2
  <2>4. ~Past(d)' /\ ~Is(d, "record", "migrate")'
    BY <2>3 DEF First, Kinds, Past, Is, At
  <2>5. Migrations' = Migrations /\ \A e \in Migrations : e.by \in Commands /\ e.by # d
    <3>1. \A e \in Migrations : cmd[e.by].pc \in {"compare"} \cup Outcomes
      BY DEF OneMigration
    <3> QED BY <2>1, <3>1, MigratedBy DEF Migrations, Outcomes, At
  <2>6. \A c \in Commands : /\ Past(c)' => Past(c)
                            /\ Is(c, "record", "migrate")' => Is(c, "record", "migrate")
    BY <2>2, <2>4 DEF Past, Is, At
  <2> QED BY <2>1, <2>2, <2>4, <2>5, <2>6 DEF OneMigration
<1>2. ASSUME Moves(d), Working(d) PROVE OneMigration'
  <2>1. CASE \/ Status(d) \/ Create(d) \/ CreateRefused(d) \/ WriteRecovery(d)
             \/ Extract(d) \/ Save(d) \/ Check(d) \/ Tidy(d) \/ Revoke(d) \/ Clear(d)
    <3>1. cmd[d].kind # "migrate" /\ UNCHANGED <<legacy, ledger>> /\ ~At(d, "compare")
      BY <2>1 DEF Status, Create, CreateRefused, WriteRecovery, Extract, Save, Check,
         Tidy, Revoke, Clear, Shaped, At, files, orbio
    <3>2. cmd'[d].pc \in {"create", "recover", "save", "check", "record", "clear"} \cup Outcomes
      BY <2>1, CommandPlaces
    <3>3. ~Past(d)' /\ ~Is(d, "record", "migrate")'
      BY <1>2, <3>1, <3>2 DEF Moves, Past, Is, At, Outcomes
    <3> QED BY <1>2, <3>1, <3>3, NoMigration DEF Migrations
  <2>2. CASE Fails(d) \/ Dies(d)
    <3>1. cmd'[d].pc \in Outcomes /\ UNCHANGED <<legacy, ledger>>
      BY <2>2, FaultMoves DEF files, orbio
    <3>2. ~Past(d)' /\ ~Is(d, "record", "migrate")'
      BY <3>1 DEF Past, Is, At, Outcomes
    <3> QED BY <1>2, <3>1, <3>2, NoMigration DEF Migrations
  <2>3. CASE Legacy(d)
    <3>1. At(d, "legacy") /\ UNCHANGED <<legacy, ledger>>
      BY <2>3 DEF Legacy, files, orbio
    <3>2. cmd'[d].pc = IF legacy = "active" THEN "balance" ELSE "refused"
      BY <2>3, GotoMoves, EndMoves DEF Legacy, Remote, Outcomes
    <3> QED BY <1>2, <3>1, <3>2, NoMigration DEF Migrations, Past, Is, At
  <2>4. CASE Balance(d)
    <3>1. At(d, "balance") /\ Past(d) /\ UNCHANGED <<legacy, ledger>>
      BY <2>4 DEF Balance, Past, At, files, orbio
    <3>2. cmd'[d].pc = "delete"
      BY <2>4 DEF Balance, TypeOK, Activations
    <3> QED BY <1>2, <3>1, <3>2, NoMigration DEF Migrations, Is, At
  <2>5. CASE Delete(d)
    <3>1. At(d, "delete") /\ Past(d) /\ ledger' = ledger /\ legacy' \in {legacy, "disabled"}
      BY <2>5 DEF Delete, Past, At, files
    <3>2. cmd'[d].pc \in {"verify", "unstored", "failed"}
      BY <2>5, ProceedsMoves DEF Delete, Remote
    <3> QED BY <1>2, <3>1, <3>2, NoMigration DEF Migrations, Is, At
  <2>6. CASE Verify(d)
    <3>1. At(d, "verify") /\ Past(d) /\ UNCHANGED <<legacy, ledger>>
      BY <2>6 DEF Verify, Past, At, files, orbio
    <3>2. cmd'[d].pc = IF legacy = "active" THEN "failed" ELSE "record"
      BY <2>6, GotoMoves, EndMoves DEF Verify, Local, Outcomes
    <3> QED BY <1>2, <3>1, <3>2, NoMigration DEF Migrations, Is, At
  <2>7. CASE Record(d)
    <3>1. CASE cmd[d].kind # "migrate"
      <4>1. /\ legacy' = legacy /\ ledger' = ledger \cup {Event(d)} /\ At(d, "record")
            /\ cmd[d].kind \in {"create", "import", "revoke"}
        <5>1. cmd[d] \in Activations
          BY DEF TypeOK
        <5> QED BY <2>7, <3>1, <5>1 DEF Record, orbio, At, Shaped, Activations, Kinds
      <4>2. Event(d).type # "LEGACY_KEY_DELETED"
        BY <4>1 DEF Event
      <4>3. cmd'[d].pc \in {"tidy", "done", "unstored", "failed"}
        BY <2>7, <3>1, RecordMoves
      <4> QED BY <1>2, <4>1, <4>2, <4>3, NoMigration DEF Migrations, Past, Is, At
    <3> QED BY <1>2, <2>7, <3>1, RecordedOnce
  <2>8. CASE Compare(d)
    <3>1. cmd'[d].pc \in Outcomes /\ UNCHANGED <<legacy, ledger>>
      BY <2>8, EndMoves DEF Compare, Outcomes, files, orbio
    <3>2. ~Past(d)' /\ ~Is(d, "record", "migrate")'
      BY <3>1 DEF Past, Is, At, Outcomes
    <3> QED BY <1>2, <3>1, <3>2, NoMigration DEF Migrations
  <2> QED BY <1>1, <2>1, <2>2, <2>3, <2>4, <2>5, <2>6, <2>7, <2>8 DEF Command
<1> QED BY <1>1, <1>2, CommandMoves

LEMMA LedgerStep == IInv /\ LedgerInv /\ [Next]_vars => LedgerInv'
<1> SUFFICES ASSUME IInv, LedgerInv, [Next]_vars PROVE LedgerInv'
  OBVIOUS
<1>1. CASE UNCHANGED <<vault, ledger, legacy, cmd, faults>>
  BY <1>1 DEF LedgerInv, VaultTold, LegacyTold, OneMigration, Told, Migrations, AboutToTell,
     Past, Is, At
<1>2. CASE UNCHANGED vars \/ Elsewhere
  BY <1>1, <1>2 DEF vars, Elsewhere, files, orbio, bounds
<1>3. ASSUME NEW d \in Commands, Command(d) PROVE LedgerInv'
  BY <1>3, VaultToldStep, LegacyToldStep, OneMigrationStep DEF LedgerInv
<1> QED BY <1>2, <1>3 DEF Next

\* The ledger of events knows what the key commands changed, for any number of
\* commands however they interleave; two commands that migrated were not by
\* themselves (createOrRotate, migrateLegacyKey, `key import`).
THEOREM LedgerIsTold == Spec => []LedgerKnowsKeys
<1>1. TypeOK /\ LedgerInv => LedgerKnowsKeys
  <2> SUFFICES ASSUME TypeOK, LedgerInv PROVE LedgerKnowsKeys
    OBVIOUS
  <2>1. \A c \in Commands : ~Working(c) =>
          /\ ~At(c, "check") /\ ~At(c, "record") /\ ~At(c, "verify")
    BY DEF Working, At, Remote, Local
  <2>2. ASSUME faults = 0, \A c \in Commands : ~Working(c), vault # None
        PROVE  \E e \in ledger \ Migrations : e.type # "KEY_REVOKED" /\ e.key = vault
    BY <2>1, <2>2 DEF LedgerInv, VaultTold, AboutToTell, Told
  <2>3. ASSUME faults = 0, \A c \in Commands : ~Working(c), legacy = "disabled"
        PROVE  Migrations # {}
    BY <2>1, <2>3 DEF LedgerInv, LegacyTold, Is
  <2> QED BY <2>2, <2>3 DEF LedgerKnowsKeys, LedgerInv, OneMigration
<1>2. Spec => []IInv
  BY InitIsCorrect, StepKeepsIt, PTL DEF Spec
<1>3. IInv => TypeOK
  BY DEF IInv
<1> QED BY InitLedger, LedgerStep, <1>1, <1>2, <1>3, PTL DEF Spec
=============================================================================
