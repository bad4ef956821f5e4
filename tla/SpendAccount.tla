---------------------------- MODULE SpendAccount ----------------------------
(***************************************************************************)
(* What the budget of Orbio Guard promises, without counters, clocks,      *)
(* agents' states or ledgers: holds are placed within a daily limit, and   *)
(* every hold is settled once, by a charge or by a release.  What is spent *)
(* is by definition the sum of the charges.                                *)
(***************************************************************************)
EXTENDS Integers, FiniteSets, MicroUsd

CONSTANTS Owners, Days

VARIABLES
  limit,    \* the daily limit of every owner, 0 until it is opened
  held,     \* the holds that are outstanding
  settled   \* the settlements of past holds

vars == <<limit, held, settled>>

\* The members of S that belong to one owner and day.
OnDay(S, o, d) == {x \in S : x.agent = o /\ x.date = d}

Charged == {s \in settled : s.type # "RESERVATION_RELEASED"}

\* What the owner has spent and what is held for it on one day.
Used(o, d) == Total(OnDay(Charged, o, d)) + Total(OnDay(held, o, d))

\* A settlement that closes hold h.
Closes(s, h) ==
  /\ s.id = h.id /\ s.agent = h.agent /\ s.date = h.date /\ s.reserved = h.amount
  /\ s.type = "RESERVATION_RECOVERED" => s.amount = h.amount

Init ==
  /\ limit = [o \in Owners |-> 0]
  /\ held = {}
  /\ settled = {}

\* The limit of an owner is set once, before it spends anything.
Open(o) ==
  /\ limit[o] = 0
  /\ \A d \in Days : OnDay(held \cup settled, o, d) = {}
  /\ limit'[o] \in Nat
  /\ limit' = [limit EXCEPT ![o] = limit'[o]]
  /\ UNCHANGED <<held, settled>>

\* Any number of holds end, each in one settlement of its own, and at most one
\* hold begins: a new one, which fits the limit together with all the rest.
Use ==
  LET ended == held \ held'
      begun == held' \ held
      closing == settled' \ settled
  IN /\ settled \subseteq settled'
     /\ \A s \in closing : \E h \in ended : Closes(s, h)
     /\ \A h \in ended :
          /\ \E s \in closing : Closes(s, h)
          /\ \A s, t \in closing : Closes(s, h) /\ Closes(t, h) => s = t
     /\ \A h, k \in begun : h = k
     /\ \A h \in begun :
          /\ \A x \in held \cup settled : x.id # h.id
          /\ Used(h.agent, h.date)' <= limit[h.agent]
     /\ limit' = limit

Next == Use \/ \E o \in Owners : Open(o)

Spec == Init /\ [][Next]_vars
=============================================================================
