---------------------------- MODULE KeyLifecycle ----------------------------
(***************************************************************************)
(* The account's Orbio key as the local commands handle it: createOrRotate,*)
(* revoke and migrateLegacyKey of src/orbio/key-lifecycle.ts, the vault of *)
(* src/upstream/key-store.ts and the key commands of src/cli.ts.           *)
(*                                                                         *)
(* A command alternates between remote calls and writes of three places    *)
(* without a lock around them: upstream.json (the vault),                  *)
(* key-create-recovery.json, and the ledger in guard.json, whose updates   *)
(* are atomic (AtomicStore, as StateStore says when).  A step is one       *)
(* remote call or one write; each may fail, with or without its effect,    *)
(* the process may die between two, and other commands may run at the same *)
(* time.  A created key is named after the command that created it.        *)
(***************************************************************************)
EXTENDS Naturals, FiniteSets

CONSTANTS
  Commands,      \* command activations
  MaxFaults,     \* bound: failed calls and writes, lost answers, dead processes
  MaxElsewhere,  \* bound: changes of the account by others
  Remainder,     \* what is left on the legacy key, in any unit
  OwnKey,        \* the key in ORBIO_GUARD_UPSTREAM_KEY
  OtherKey,      \* a key another consumer of the account created
  Refusal,       \* an answer of orbio_create_key without a key in it
  None

ASSUME KeyAssumption ==
  /\ MaxFaults \in Nat /\ MaxElsewhere \in Nat /\ Remainder \in Nat \ {0}
  /\ Cardinality({OwnKey, OtherKey, Refusal, None}) = 4
  /\ {OwnKey, OtherKey, Refusal, None} \cap Commands = {}

VARIABLES
  vault,       \* upstream.json: its key
  recovery,    \* key-create-recovery.json: the answer in it
  ledger,      \* the key events
  accountKey,  \* Orbio: the active key
  legacy,      \* Orbio: the legacy key is "none", "active" or "disabled"
  balance,     \* Orbio: the spendable balance
  cmd,         \* the commands
  faults, elsewhere

files  == <<vault, recovery, ledger>>
orbio  == <<accountKey, legacy, balance>>
bounds == <<faults, elsewhere>>
vars   == <<files, orbio, cmd, bounds>>

Keys  == Commands \cup {OwnKey}
Kinds == {"create", "import", "clear", "revoke", "migrate"}

Remote   == {"status", "create", "revoke", "legacy", "balance", "delete", "verify", "compare"}
Local    == {"recover", "save", "check", "record", "tidy", "clear"}
Outcomes == {"done", "refused", "failed", "unstored", "short", "died"}

Events == [type : {"KEY_CREATED", "KEY_ROTATED", "KEY_IMPORTED"}, key : Keys]
          \cup [type : {"KEY_REVOKED", "LEGACY_KEY_DELETED"}, by : Commands]

\* A command: where it is, what it was asked, whether there was a key, the answer or
\* fingerprint it holds, the balance it read first, and whether it ran by itself.
Activations == [pc : {"idle"} \cup Remote \cup Local \cup Outcomes, kind : Kinds,
                rotate : BOOLEAN, had : BOOLEAN, answer : Keys \cup {Refusal, None},
                before : 0..(2 * Remainder), alone : BOOLEAN]
NoCommand == [pc |-> "idle", kind |-> "clear", rotate |-> FALSE, had |-> FALSE,
              answer |-> None, before |-> 0, alone |-> TRUE]

TypeOK ==
  /\ vault \in Keys \cup {None} /\ recovery \in Commands \cup {Refusal, None}
  /\ ledger \subseteq Events
  /\ accountKey \in Commands \cup {OwnKey, OtherKey, None}
  /\ legacy \in {"none", "active", "disabled"} /\ balance \in 0..(2 * Remainder)
  /\ cmd \in [Commands -> Activations]
  /\ faults \in 0..MaxFaults /\ elsewhere \in 0..MaxElsewhere

Init ==
  /\ vault = None /\ recovery = None /\ ledger = {}
  /\ accountKey \in {None, OtherKey} /\ legacy \in {"none", "active"} /\ balance = 0
  /\ cmd = [c \in Commands |-> NoCommand] /\ faults = 0 /\ elsewhere = 0
-----------------------------------------------------------------------------
At(c, pc)  == cmd[c].pc = pc
Working(c) == cmd[c].pc \in Remote \cup Local
Is(c, pc, kind) == At(c, pc) /\ cmd[c].kind = kind

Goto(c, pc) == cmd' = [cmd EXCEPT ![c].pc = pc]
End(c, outcome) == cmd' = [cmd EXCEPT ![c] =
                     [NoCommand EXCEPT !.pc = outcome, !.kind = cmd[c].kind, !.alone = cmd[c].alone]]

\* The call or the write of command c rejects, after what the step says it did: in the
\* inner try of createOrRotate the message names the recovery file.
Rejects(c) ==
  /\ faults < MaxFaults /\ faults' = faults + 1
  /\ End(c, IF cmd[c].kind = "create" /\ cmd[c].pc \in {"save", "check", "record", "tidy"}
            THEN "unstored" ELSE "failed")
Proceeds(c, pc) == (Goto(c, pc) /\ UNCHANGED faults) \/ Rejects(c)

First == [create |-> "status", import |-> "save", clear |-> "clear", revoke |-> "revoke",
          migrate |-> "legacy"]

\* The operator runs a command; one that runs already is no longer by itself.
Begin(c, kind, rotate) ==
  /\ At(c, "idle")
  /\ rotate => kind = "create"
  /\ cmd' = [d \in Commands |->
       IF d = c THEN [NoCommand EXCEPT !.pc = First[kind], !.kind = kind, !.rotate = rotate,
                        !.answer = IF kind = "import" THEN OwnKey ELSE None,
                        !.alone = \A e \in Commands : ~Working(e)]
       ELSE IF Working(d) THEN [cmd[d] EXCEPT !.alone = FALSE] ELSE cmd[d]]
  /\ UNCHANGED <<files, orbio, bounds>>
-----------------------------------------------------------------------------
\* createOrRotate: the account has a key, and its replacement was not asked for.
Status(c) ==
  /\ At(c, "status")
  /\ \/ accountKey # None /\ ~cmd[c].rotate /\ End(c, "refused")
     \/ /\ accountKey = None \/ cmd[c].rotate
        /\ cmd' = [cmd EXCEPT ![c].pc = "create", ![c].had = accountKey # None]
  /\ UNCHANGED <<files, orbio, bounds>>

Answer(c, answer) == cmd' = [cmd EXCEPT ![c].pc = "recover", ![c].answer = answer]

\* orbio_create_key retires the account's key and answers with a new one; the answer
\* may not arrive.
Create(c) == /\ At(c, "create")
             /\ accountKey' = c
             /\ (Answer(c, c) /\ UNCHANGED faults) \/ Rejects(c)
             /\ UNCHANGED <<files, legacy, balance, elsewhere>>

\* It answers with an error instead, which callTool returns like any result.
CreateRefused(c) == /\ At(c, "create")
                    /\ Answer(c, Refusal)
                    /\ UNCHANGED <<files, orbio, bounds>>

\* writeRecovery replaces the file, whatever is in it, and then sets its mode.
WriteRecovery(c) == /\ At(c, "recover")
                    /\ recovery' = cmd[c].answer
                    /\ Proceeds(c, "save")
                    /\ UNCHANGED <<vault, ledger, orbio, elsewhere>>

\* An answer without a key cannot be stored: the recovery file stays.
Extract(c) == /\ At(c, "save") /\ cmd[c].answer = Refusal
              /\ End(c, "unstored")
              /\ UNCHANGED <<files, orbio, bounds>>

\* The key, created or imported, replaces the one in the vault, whose mode is then set.
Save(c) == /\ At(c, "save") /\ cmd[c].answer # Refusal
           /\ vault' = cmd[c].answer
           /\ Proceeds(c, "check")
           /\ UNCHANGED <<recovery, ledger, orbio, elsewhere>>

\* A bug a change could bring in: the fingerprint is recorded, there or not.
CheckBlindly(c) == /\ At(c, "check")
                   /\ cmd' = [cmd EXCEPT ![c].pc = "record", ![c].answer = vault]
                   /\ UNCHANGED <<files, orbio, bounds>>

\* The fingerprint is read back from the vault, which may have been cleared.
Check(c) ==
  /\ At(c, "check")
  /\ \/ /\ vault # None
        /\ cmd' = [cmd EXCEPT ![c].pc = "record", ![c].answer = vault]
     \/ /\ vault = None
        /\ End(c, IF cmd[c].kind = "import" THEN "done" ELSE "unstored")
  /\ UNCHANGED <<files, orbio, bounds>>

\* What the ledger is told.
Event(c) ==
  LET q == cmd[c]
  IN CASE q.kind = "create"  -> [type |-> IF q.had THEN "KEY_ROTATED" ELSE "KEY_CREATED",
                                 key |-> q.answer]
       [] q.kind = "import"  -> [type |-> "KEY_IMPORTED", key |-> q.answer]
       [] q.kind = "revoke"  -> [type |-> "KEY_REVOKED", by |-> c]
       [] q.kind = "migrate" -> [type |-> "LEGACY_KEY_DELETED", by |-> c]

Record(c) ==
  /\ At(c, "record")
  /\ ledger' = ledger \cup {Event(c)}
  /\ \/ cmd[c].kind = "create" /\ Goto(c, "tidy") /\ UNCHANGED faults
     \/ cmd[c].kind = "migrate" /\ Goto(c, "compare") /\ UNCHANGED faults
     \/ cmd[c].kind \in {"import", "revoke"} /\ End(c, "done") /\ UNCHANGED faults
     \/ Rejects(c)
  /\ UNCHANGED <<vault, recovery, orbio, elsewhere>>

\* The recovery file is removed, whosever answer is in it.
Tidy(c) == /\ At(c, "tidy")
           /\ recovery' = None
           /\ End(c, "done")
           /\ UNCHANGED <<vault, ledger, orbio, bounds>>
-----------------------------------------------------------------------------
\* revoke: orbio_revoke_key retires the key, or answers with an error; the answer is
\* not looked at.
Revoke(c) == /\ At(c, "revoke")
             /\ accountKey' \in {None, accountKey}
             /\ Proceeds(c, "clear")
             /\ UNCHANGED <<files, legacy, balance, elsewhere>>

\* The vault is removed, by revoke or by `key clear`.
Clear(c) == /\ At(c, "clear")
            /\ vault' = None
            /\ IF cmd[c].kind = "revoke" THEN Goto(c, "record") ELSE End(c, "done")
            /\ UNCHANGED <<recovery, ledger, orbio, bounds>>
-----------------------------------------------------------------------------
\* A bug a change could bring in: a disabled legacy key is migrated again.
LegacyAgain(c) == /\ At(c, "legacy")
                  /\ IF legacy = "none" THEN End(c, "refused") ELSE Goto(c, "balance")
                  /\ UNCHANGED <<files, orbio, bounds>>

\* migrateLegacyKey: only an active legacy key is migrated.
Legacy(c) == /\ At(c, "legacy")
             /\ IF legacy # "active" THEN End(c, "refused") ELSE Goto(c, "balance")
             /\ UNCHANGED <<files, orbio, bounds>>

Balance(c) == /\ At(c, "balance")
              /\ cmd' = [cmd EXCEPT ![c].pc = "delete", ![c].before = balance]
              /\ UNCHANGED <<files, orbio, bounds>>

\* orbio_delete_key disables the key and credits what is left on it, or answers with
\* an error; the answer is not looked at, the status is.
Delete(c) ==
  /\ At(c, "delete")
  /\ \/ /\ legacy = "active" /\ legacy' = "disabled"
        /\ balance' = balance + Remainder
     \/ UNCHANGED <<legacy, balance>>
  /\ Proceeds(c, "verify")
  /\ UNCHANGED <<files, accountKey, elsewhere>>

Verify(c) == /\ At(c, "verify")
             /\ IF legacy = "active" THEN End(c, "failed") ELSE Goto(c, "record")
             /\ UNCHANGED <<files, orbio, bounds>>

\* The migration is recorded by now; the balance decides what the operator is told.
Compare(c) == /\ At(c, "compare")
              /\ End(c, IF balance >= cmd[c].before + Remainder THEN "done" ELSE "short")
              /\ UNCHANGED <<files, orbio, bounds>>
-----------------------------------------------------------------------------
\* A bug a change could bring in: a creation that fails removes its recovery file.
FailsTidily(c) == /\ Working(c) /\ Rejects(c)
                  /\ recovery' = IF cmd[c].kind = "create" THEN None ELSE recovery
                  /\ UNCHANGED <<vault, ledger, orbio, elsewhere>>

\* A remote call or a write rejects, before it had an effect.
Fails(c) == /\ Working(c) /\ Rejects(c)
            /\ UNCHANGED <<files, orbio, elsewhere>>

\* The process is gone.
Dies(c) == /\ faults < MaxFaults /\ faults' = faults + 1
           /\ Working(c)
           /\ End(c, "died")
           /\ UNCHANGED <<files, orbio, elsewhere>>

\* Others replace or revoke the account's key, or spend its balance.
Elsewhere == /\ elsewhere < MaxElsewhere /\ elsewhere' = elsewhere + 1
             /\ \/ accountKey' \in {None, OtherKey} /\ UNCHANGED balance
                \/ balance > 0 /\ balance' = balance - 1 /\ UNCHANGED accountKey
             /\ UNCHANGED <<files, legacy, cmd, faults>>

Command(c) ==
  \/ \E kind \in Kinds, rotate \in BOOLEAN : Begin(c, kind, rotate)
  \/ Status(c) \/ Create(c) \/ CreateRefused(c) \/ WriteRecovery(c)
  \/ Extract(c) \/ Save(c) \/ Check(c) \/ Record(c) \/ Tidy(c)
  \/ Revoke(c) \/ Clear(c)
  \/ Legacy(c) \/ Balance(c) \/ Delete(c) \/ Verify(c) \/ Compare(c)
  \/ Fails(c) \/ Dies(c)

Next == (\E c \in Commands : Command(c)) \/ Elsewhere

Spec == Init /\ [][Next]_vars
-----------------------------------------------------------------------------
\* The key of command c is kept: in the hands of c, which is about to write it, in the
\* vault, or in the recovery file, which c removes once it has stored it.
Held(c) == \/ At(c, "recover") \/ vault = c
           \/ recovery = c /\ cmd[c].pc \notin {"check", "record", "tidy"}
Loses(c) == accountKey' = c /\ (accountKey # c \/ Held(c)) /\ ~Held(c)'

\* The answer of c's creation did not arrive, or c ended before it was written.
Unwritten(c) == cmd[c].pc \in {"create", "recover"} /\ faults' > faults

Steps(d) == cmd'[d] # cmd[d]

\* The operator has the vault's key removed or replaced.
Asked == \E d \in Commands : Steps(d) /\ (At(d, "clear") \/ Is(d, "save", "import"))

\* A creation other than c's replaces or removes what is in the files: its answer had
\* no key in it, or an older one, which it is still storing.
Overwritten(c) == \E d \in Commands \ {c} : Steps(d) /\
  (Is(d, "recover", "create") \/ Is(d, "save", "create") \/ Is(d, "tidy", "create"))

\* README.md:151: "Key creation keeps an owner-only recovery response until vault
\* storage succeeds": while the account uses a key created here, its secret is in the
\* vault or in the recovery file, from the moment it could be written until the
\* operator has it removed.  No failed call or write, no death of a process from then
\* on, and no command that runs at the same time loses it, except another creation,
\* which writes and removes the recovery file whosever answer it holds
\* (createOrRotate, writeRecovery, revoke).
CreatedKeyIsKept == [][\A c \in Commands :
  Loses(c) => Unwritten(c) \/ Asked \/ Overwritten(c)]_vars

Migrations == {e \in ledger : e.type = "LEGACY_KEY_DELETED"}

\* The activity ledger knows what the commands changed: at rest, and if no call or
\* write has failed, the key in the vault has its event, in whatever order commands
\* stored and recorded theirs; a legacy key disabled from here has one too, and
\* only one unless two migrations ran at once (createOrRotate, migrateLegacyKey).
LedgerKnowsKeys ==
  /\ faults = 0 /\ (\A c \in Commands : ~Working(c)) =>
       /\ vault # None => \E e \in ledger \ Migrations : e.type # "KEY_REVOKED" /\ e.key = vault
       /\ legacy = "disabled" => Migrations # {}
  /\ \A e, f \in Migrations : e # f => ~cmd[e.by].alone
=============================================================================
