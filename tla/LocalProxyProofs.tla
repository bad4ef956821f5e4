--------------------------- MODULE LocalProxyProofs ---------------------------
(***************************************************************************)
(* The local runtime, for every number of requests, agents, changes and    *)
(* faults: its books agree with their ledger, no reservation is left       *)
(* behind but by a fault, nothing is forwarded unrecorded, replies tell    *)
(* what was booked, and the whole implements SpendAccount.                 *)
(*                                                                         *)
(* A step changes the books, that is the reservations R, the counters C    *)
(* and the ledger L, in one of four ways: not at all, by a reservation, by *)
(* the settlement of one, by the recovery of a set of them.  The first     *)
(* part is about these; the second is about a handler, whose steps concern *)
(* its own id only; the third maps them to the abstract account.  Before   *)
(* these comes what they need of the arithmetic of Total.                  *)
(***************************************************************************)
EXTENDS LocalProxy, FiniteSetTheorems, TLAPS

\* A set of records whose amounts can be added up.
Summable(S) == IsFiniteSet(Units(S))

\* Nothing adds up to nothing.
LEMMA TotalEmpty == Summable({}) /\ Total({}) = 0
<1>1. Units({}) = {}
  BY DEF Units
<1> QED
  BY <1>1, FS_EmptySet DEF Summable, Total

\* A total is a natural number.
LEMMA TotalType ==
  ASSUME NEW S, Summable(S)
  PROVE  Total(S) \in Nat
BY FS_CardinalityType DEF Summable, Total

\* A part of a set of amounts adds up to no more than the whole.
LEMMA TotalSubset ==
  ASSUME NEW S, NEW T, Summable(T), S \subseteq T
  PROVE  Summable(S) /\ Total(S) <= Total(T)
<1>1. Units(S) \in SUBSET Units(T)
  BY DEF Units
<1> QED
  BY <1>1, FS_Subset DEF Summable, Total

\* The totals of two disjoint sets add up to the total of both.
LEMMA TotalUnion ==
  ASSUME NEW S, NEW T, Summable(S), Summable(T), S \cap T = {}
  PROVE  Summable(S \cup T) /\ Total(S \cup T) = Total(S) + Total(T)
<1>1. Units(S \cup T) = Units(S) \cup Units(T)
  BY DEF Units
<1>2. Units(S) \cap Units(T) = {}
  BY DEF Units
<1>3. /\ IsFiniteSet(Units(S) \cup Units(T))
      /\ Cardinality(Units(S) \cup Units(T)) =
           Cardinality(Units(S)) + Cardinality(Units(T)) - Cardinality({})
  BY <1>2, FS_Union DEF Summable
<1>4. Cardinality(Units(S)) \in Nat /\ Cardinality(Units(T)) \in Nat
  BY FS_CardinalityType DEF Summable
<1>5. Cardinality({}) = 0
  BY FS_EmptySet
<1>6. Cardinality(Units(S) \cup Units(T)) =
        Cardinality(Units(S)) + Cardinality(Units(T))
  BY <1>3, <1>4, <1>5
<1> QED
  BY <1>1, <1>3, <1>6 DEF Summable, Total

\* One record adds up to its amount.
LEMMA TotalSingle ==
  ASSUME NEW x, x.amount \in Nat
  PROVE  Summable({x}) /\ Total({x}) = x.amount
<1>1. Units({x}) = {x} \X (1..x.amount)
  BY DEF Units
<1>2. IsFiniteSet({x}) /\ Cardinality({x}) = 1
  BY FS_Singleton
<1>3. IsFiniteSet(1..x.amount) /\ Cardinality(1..x.amount) = x.amount
  BY FS_Interval, 1 \in Int, x.amount \in Int
<1>4. /\ IsFiniteSet({x} \X (1..x.amount))
      /\ Cardinality({x} \X (1..x.amount)) = Cardinality({x}) * Cardinality(1..x.amount)
  BY ONLY <1>2, <1>3, FS_Product, Zenon
<1>5. \A n \in Nat : 1 * n = n
  OBVIOUS
<1> QED
  BY <1>1, <1>2, <1>3, <1>4, <1>5 DEF Summable, Total

\* A new record adds its amount.
LEMMA TotalAdd ==
  ASSUME NEW S, NEW x, Summable(S), x \notin S, x.amount \in Nat
  PROVE  Summable(S \cup {x}) /\ Total(S \cup {x}) = Total(S) + x.amount
<1>1. Summable({x}) /\ Total({x}) = x.amount
  BY TotalSingle
<1>2. S \cap {x} = {}
  OBVIOUS
<1> QED
  BY <1>1, <1>2, TotalUnion

\* Renaming the records of a set one by one keeps the total.
LEMMA TotalRelabel ==
  ASSUME NEW S, NEW T, NEW f \in Bijection(S, T), Summable(S),
         \A x \in S : f[x].amount = x.amount
  PROVE  Summable(T) /\ Total(T) = Total(S)
<1> DEFINE g == [u \in Units(S) |-> <<f[u[1]], u[2]>>]
<1>1. /\ f \in [S -> T]
      /\ \A x, y \in S : f[x] = f[y] => x = y
      /\ \A t \in T : \E x \in S : f[x] = t
  BY DEF Bijection, Injection, Surjection, IsInjective
<1>2. \A u \in Units(S) : \E x \in S : \E i \in 1..x.amount : u = <<x, i>>
  BY DEF Units
<1>3. \A x \in S : \A i \in 1..x.amount : <<x, i>> \in Units(S)
  BY DEF Units
<1>4. \A u \in Units(T) : \E y \in T : \E i \in 1..y.amount : u = <<y, i>>
  BY DEF Units
<1>5. \A y \in T : \A i \in 1..y.amount : <<y, i>> \in Units(T)
  BY DEF Units
<1>6. g \in [Units(S) -> Units(T)]
  <2> SUFFICES ASSUME NEW u \in Units(S)
               PROVE  <<f[u[1]], u[2]>> \in Units(T)
    OBVIOUS
  <2>1. PICK x \in S : \E i \in 1..x.amount : u = <<x, i>>
    BY <1>2
  <2>2. PICK i \in 1..x.amount : u = <<x, i>>
    BY <2>1
  <2>3. f[x] \in T /\ i \in 1..f[x].amount
    BY <1>1
  <2> QED
    BY <2>2, <2>3, <1>5
<1>7. ASSUME NEW u \in Units(S), NEW v \in Units(S), g[u] = g[v]
      PROVE  u = v
  <2>1. PICK x \in S : \E i \in 1..x.amount : u = <<x, i>>
    BY <1>2
  <2>2. PICK i \in 1..x.amount : u = <<x, i>>
    BY <2>1
  <2>3. PICK y \in S : \E j \in 1..y.amount : v = <<y, j>>
    BY <1>2
  <2>4. PICK j \in 1..y.amount : v = <<y, j>>
    BY <2>3
  <2>5. <<f[x], i>> = <<f[y], j>>
    BY <1>7, <2>2, <2>4
  <2> QED
    BY <2>2, <2>4, <2>5, <1>1
<1>8. ASSUME NEW w \in Units(T)
      PROVE  \E u \in Units(S) : g[u] = w
  <2>1. PICK y \in T : \E i \in 1..y.amount : w = <<y, i>>
    BY <1>4
  <2>2. PICK i \in 1..y.amount : w = <<y, i>>
    BY <2>1
  <2>3. PICK x \in S : f[x] = y
    BY <1>1
  <2>4. <<x, i>> \in Units(S)
    BY <2>2, <2>3, <1>1, <1>3
  <2>5. g[<<x, i>>] = <<f[x], i>>
    BY <2>4
  <2> QED
    BY <2>2, <2>3, <2>4, <2>5
<1>9. g \in Bijection(Units(S), Units(T))
  BY <1>6, <1>7, <1>8 DEF Bijection, Injection, Surjection, IsInjective
<1> QED
  BY <1>9, FS_Bijection DEF ExistsBijection, Summable, Total
-----------------------------------------------------------------------------
ChargeTypes == {"SPEND_CONFIRMED", "STALE_RESERVATION_CONFIRMED"}

ChargesIn(L) == {e \in L : e.type \in ChargeTypes}

SettledIn(L) == {e \in L : e.type \in Settlement}

\* Reservations are one per id and not settled, and the counters are the totals of
\* the charges.
Books(R, C, L) ==
  /\ R \subseteq Reservations /\ C \in [AgentIds -> [Days -> Nat]] /\ L \subseteq Events
  /\ \A r, s \in R : r.id = s.id => r = s
  /\ \A r \in R, e \in SettledIn(L) : r.id # e.id
  /\ Summable(R) /\ Summable(ChargesIn(L))
  /\ \A a \in AgentIds, d \in Days : C[a][d] = Total(Of(ChargesIn(L), a, d))

\* The amounts of reservations are natural numbers.
LEMMA AmountsAreNatural == Amounts \subseteq Nat
BY LocalAssumption DEF Amounts

LEMMA PartsFinite ==
  ASSUME NEW S, Summable(S), NEW a, NEW d
  PROVE  Summable(Of(S, a, d)) /\ Total(Of(S, a, d)) \in Nat
BY TotalSubset, TotalType DEF Of

\* An event carries what its reservation says.
LEMMA EventOf ==
  ASSUME NEW r \in Reservations, NEW type \in Settlement \cup {"BUDGET_RESERVED"},
         NEW amount \in Nat
  PROVE  LET e == Event(type, r, amount)
         IN /\ e \in Events /\ e.type = type /\ e.id = r.id /\ e.agent = r.agent
            /\ e.date = r.date /\ e.reserved = r.amount /\ e.amount = amount
BY AmountsAreNatural DEF Event, Events, Reservations

\* A new reservation changes no counter and no charge.
LEMMA ReserveKeepsBooks ==
  ASSUME NEW R, NEW C, NEW L, Books(R, C, L), NEW r \in Reservations,
         \A x \in R : x.id # r.id, \A e \in L : e.id # r.id
  PROVE  Books(R \cup {r}, C, L \cup {Event("BUDGET_RESERVED", r, r.amount)})
<1> DEFINE e == Event("BUDGET_RESERVED", r, r.amount)
<1>1. r.amount \in Nat /\ r \notin R
  BY AmountsAreNatural DEF Reservations
<1>2. e \in Events /\ e.type = "BUDGET_RESERVED" /\ e.id = r.id
  BY <1>1, EventOf
<1> HIDE DEF e
<1>3. ChargesIn(L \cup {e}) = ChargesIn(L) /\ SettledIn(L \cup {e}) = SettledIn(L)
  BY <1>2 DEF ChargesIn, ChargeTypes, SettledIn, Settlement
<1>4. \A f \in SettledIn(L) : f.id # r.id
  BY DEF SettledIn
<1>5. Summable(R \cup {r})
  BY <1>1, TotalAdd DEF Books
<1> QED BY <1>2, <1>3, <1>4, <1>5 DEF Books, e

\* The counters after r was settled at an amount.
Counted(C, r, type, amount) ==
  IF type \in ChargeTypes THEN [C EXCEPT ![r.agent][r.date] = @ + amount] ELSE C

\* The settlement of an outstanding reservation is charged where it was reserved.
LEMMA SettleKeepsBooks ==
  ASSUME NEW R, NEW C, NEW L, Books(R, C, L), NEW r \in R,
         NEW type \in Settlement, NEW amount \in Nat
  PROVE  Books(R \ {r}, Counted(C, r, type, amount), L \cup {Event(type, r, amount)})
<1> DEFINE e == Event(type, r, amount)
           M == L \cup {e}
           D == Counted(C, r, type, amount)
<1>1. r \in Reservations /\ r.agent \in AgentIds /\ r.date \in Days
  BY DEF Books, Reservations
<1>2. /\ e \in Events /\ e.type = type /\ e.id = r.id /\ e.agent = r.agent
      /\ e.date = r.date /\ e.amount = amount
  BY <1>1, EventOf
<1> HIDE DEF e
<1>3. SettledIn(M) = SettledIn(L) \cup {e}
  BY <1>2 DEF SettledIn
<1>4. ChargesIn(M) = IF type \in ChargeTypes THEN ChargesIn(L) \cup {e} ELSE ChargesIn(L)
  BY <1>2 DEF ChargesIn
<1>5. ChargesIn(L) \subseteq SettledIn(L)
  BY DEF ChargesIn, ChargeTypes, SettledIn, Settlement
<1>6. e \notin ChargesIn(L)
  BY <1>2, <1>5 DEF Books
<1> HIDE DEF M
<1>7. Summable(R \ {r}) /\ Summable(ChargesIn(M))
  BY <1>2, <1>4, <1>6, TotalSubset, TotalAdd DEF Books
<1>8. /\ D \in [AgentIds -> [Days -> Nat]]
      /\ \A a \in AgentIds, d \in Days :
           D[a][d] = IF type \in ChargeTypes /\ a = r.agent /\ d = r.date
                     THEN C[a][d] + amount ELSE C[a][d]
  BY <1>1 DEF Counted, Books
<1> HIDE DEF D
<1>9. ASSUME NEW a \in AgentIds, NEW d \in Days
      PROVE  D[a][d] = Total(Of(ChargesIn(M), a, d))
  <2>1. Summable(Of(ChargesIn(L), a, d)) /\ C[a][d] = Total(Of(ChargesIn(L), a, d))
    BY PartsFinite DEF Books
  <2>2. CASE type \in ChargeTypes /\ a = r.agent /\ d = r.date
    <3>1. /\ Of(ChargesIn(M), a, d) = Of(ChargesIn(L), a, d) \cup {e}
          /\ e \notin Of(ChargesIn(L), a, d)
      BY <1>2, <1>4, <1>6, <2>2 DEF Of
    <3>2. Total(Of(ChargesIn(M), a, d)) = Total(Of(ChargesIn(L), a, d)) + amount
      BY <1>2, <2>1, <3>1, TotalAdd
    <3> QED BY <1>8, <2>1, <2>2, <3>2
  <2>3. CASE ~(type \in ChargeTypes /\ a = r.agent /\ d = r.date)
    <3>1. Of(ChargesIn(M), a, d) = Of(ChargesIn(L), a, d)
      BY <1>2, <1>4, <2>3 DEF Of
    <3> QED BY <1>8, <2>1, <2>3, <3>1
  <2> QED BY <2>2, <2>3
<1>10. \A s \in R \ {r}, f \in SettledIn(M) : s.id # f.id
  BY <1>2, <1>3 DEF Books
<1>11. M \subseteq Events /\ R \ {r} \subseteq Reservations
  BY <1>2 DEF M, Books
<1>12. \A s, t \in R \ {r} : s.id = t.id => s = t
  BY DEF Books
<1> QED BY <1>7, <1>8, <1>9, <1>10, <1>11, <1>12 DEF Books, M, D, e

\* The events and the counters after the reservations of S were recovered.
Recoveries(S, type) == {Event(type, r, r.amount) : r \in S}

CountedAll(C, S, type) ==
  IF type \in ChargeTypes
  THEN [a \in AgentIds |-> [d \in Days |-> C[a][d] + Total(Of(S, a, d))]] ELSE C

\* So is the recovery of a set of them.
LEMMA RecoverKeepsBooks ==
  ASSUME NEW R, NEW C, NEW L, Books(R, C, L), NEW S \in SUBSET R, NEW type \in Settlement
  PROVE  Books(R \ S, CountedAll(C, S, type), L \cup Recoveries(S, type))
<1> DEFINE E == Recoveries(S, type)
           M == L \cup E
           D == CountedAll(C, S, type)
           ev(r) == Event(type, r, r.amount)
<1>1. ASSUME NEW r \in S
      PROVE  /\ r \in R /\ r.amount \in Nat
             /\ ev(r) \in Events /\ ev(r).type = type /\ ev(r).id = r.id
             /\ ev(r).agent = r.agent /\ ev(r).date = r.date /\ ev(r).amount = r.amount
  <2>1. r \in Reservations /\ r.amount \in Nat
    BY AmountsAreNatural DEF Books, Reservations
  <2> QED BY <2>1, EventOf
<1> HIDE DEF ev
<1>2. E = {ev(r) : r \in S}
  BY DEF Recoveries, ev
<1> HIDE DEF E
<1>3. \A e \in E : e \in Events /\ e.type = type /\ \E r \in S : e = ev(r) /\ e.id = r.id
  BY <1>1, <1>2
<1>4. SettledIn(M) = SettledIn(L) \cup E
  BY <1>3 DEF SettledIn
<1>5. ChargesIn(M) = IF type \in ChargeTypes THEN ChargesIn(L) \cup E ELSE ChargesIn(L)
  BY <1>3 DEF ChargesIn
<1>6. ChargesIn(L) \subseteq SettledIn(L)
  BY DEF ChargesIn, ChargeTypes, SettledIn, Settlement
<1>7. ChargesIn(L) \cap E = {}
  BY <1>1, <1>3, <1>6 DEF Books
<1>8. ASSUME NEW T \in SUBSET S
      PROVE  /\ Summable({ev(r) : r \in T})
             /\ Total({ev(r) : r \in T}) = Total(T)
  <2> DEFINE f == [r \in T |-> ev(r)]
  <2>1. \A r, s \in T : ev(r) = ev(s) => r = s
    BY <1>1 DEF Books
  <2>2. f \in Bijection(T, {ev(r) : r \in T})
    BY <2>1 DEF Bijection, Injection, Surjection, IsInjective
  <2>3. \A r \in T : f[r].amount = r.amount
    BY <1>1
  <2>4. Summable(T)
    BY TotalSubset DEF Books
  <2> QED BY <2>2, <2>3, <2>4, TotalRelabel
<1>9. Summable(E) /\ Summable(S) /\ Summable(R \ S)
  BY <1>2, <1>8, TotalSubset DEF Books
<1> HIDE DEF M
<1>10. Summable(ChargesIn(M))
  <2>1. Summable(ChargesIn(L)) /\ Summable(ChargesIn(L) \cup E)
    BY <1>7, <1>9, TotalUnion DEF Books
  <2> QED BY <1>5, <2>1
<1>11. ASSUME NEW a \in AgentIds, NEW d \in Days
       PROVE  /\ D[a][d] \in Nat
              /\ D[a][d] = Total(Of(ChargesIn(M), a, d))
  <2>1. /\ Summable(Of(ChargesIn(L), a, d)) /\ C[a][d] = Total(Of(ChargesIn(L), a, d))
        /\ C[a][d] \in Nat
    BY PartsFinite DEF Books
  <2>2. Summable(Of(S, a, d)) /\ Total(Of(S, a, d)) \in Nat /\ Summable(Of(E, a, d))
    BY <1>9, PartsFinite
  <2>3. CASE type \in ChargeTypes
    <3>1. Of(E, a, d) = {ev(r) : r \in Of(S, a, d)}
      BY <1>1, <1>2 DEF Of
    <3>2. Of(S, a, d) \in SUBSET S
      BY DEF Of
    <3>3. Total(Of(E, a, d)) = Total(Of(S, a, d))
      BY <1>8, <3>1, <3>2
    <3>4. /\ Of(ChargesIn(M), a, d) = Of(ChargesIn(L), a, d) \cup Of(E, a, d)
          /\ Of(ChargesIn(L), a, d) \cap Of(E, a, d) = {}
      BY <1>5, <1>7, <2>3 DEF Of
    <3>5. Total(Of(ChargesIn(M), a, d)) = C[a][d] + Total(Of(S, a, d))
      BY <2>1, <2>2, <3>3, <3>4, TotalUnion
    <3>6. D[a][d] = C[a][d] + Total(Of(S, a, d))
      BY <2>3 DEF CountedAll
    <3> QED BY <2>1, <2>2, <3>5, <3>6
  <2>4. CASE type \notin ChargeTypes
    BY <1>5, <2>1, <2>4 DEF CountedAll
  <2> QED BY <2>3, <2>4
<1>12. D \in [AgentIds -> [Days -> Nat]]
  BY <1>11 DEF CountedAll, Books
<1> HIDE DEF D
<1>13. \A s \in R \ S, f \in SettledIn(M) : s.id # f.id
  BY <1>3, <1>4 DEF Books
<1>14. M \subseteq Events /\ R \ S \subseteq Reservations
  BY <1>3 DEF M, Books
<1>15. \A s, t \in R \ S : s.id = t.id => s = t
  BY DEF Books
<1> QED BY <1>9, <1>10, <1>11, <1>12, <1>13, <1>14, <1>15 DEF Books, M, D, E
-----------------------------------------------------------------------------
\* Where a handler has not reserved.
Early == {"idle", "received", "load", "authorize", "blocked", "reserve"}

\* Where it holds what it has reserved, unless somebody has recovered it.
Holding == {"record", "undo"} \cup Trying

Free(r, R) == \A x \in R : x.id # r
Unseen(r, L) == \A e \in L : e.id # r
Told(r, type, A) == [type |-> type, id |-> r] \in A

\* The agents there are.
Opened == {a \in AgentIds : agents[a] # NoAgent}

ChargedIn(r, L) == \E e \in L : e.id = r /\ e.type = "SPEND_CONFIRMED"
RecoveredIn(r, L) == \E e \in L :
  e.id = r /\ e.type \in {"STALE_RESERVATION_CONFIRMED", "STALE_RESERVATION_RELEASED"}

\* Where a handler has not yet heard from the provider, and where it has not yet
\* settled.
Unanswered == Early \cup {"record", "undo", "fetch"}
Unsettled == Unanswered \cup {"stream", "drain", "settle"}

\* What the client of handler r, in state q, has, and what is booked for it.
AnswerOK(r, q, R, L) ==
  /\ q.pc \in Unanswered => q.sent = "nothing"
  /\ q.pc \in {"stream", "drain"} => q.ok /\ q.sent # "whole"
  /\ q.sent # "nothing" => q.ok
  /\ q.pc \in Unsettled => ~ChargedIn(r, L)
  /\ q.pc \in {"record", "fetch", "stream", "drain", "settle"} =>
       ~Free(r, R) \/ RecoveredIn(r, L)
  /\ q.pc \notin Unsettled /\ q.sent = "whole" =>
       ChargedIn(r, L) \/ RecoveredIn(r, L) \/ q.lost \cap {"confirm", "process"} # {}
  /\ q.ok /\ q.reply # "upstream" /\ ChargedIn(r, L) => "confirm" \in q.lost

\* What handler r, in state q, relies on and has done: its reservation in R, its events
\* in L, its records in A.
HandlerOK(r, q, R, L, A) ==
  /\ q.reply # "none" => q.pc = "ended"
  /\ q.pc \in Early \/ q.reply = "denied" => Free(r, R) /\ Unseen(r, L)
  /\ q.pc \in {"load", "authorize", "reserve"} \cup Holding => q.amount \in Amounts
  /\ q.pc = "reserve" => q.agent \in Opened /\ q.limit \in DailyBudgets
  /\ q.pc \in Early \cup {"record"} =>
       ~Told(r, "REQUEST_ALLOWED", A) /\ ~Told(r, "REQUEST_BLOCKED", A)
  /\ q.pc \in Trying => Told(r, "REQUEST_ALLOWED", A)
  /\ ~(Told(r, "REQUEST_ALLOWED", A) /\ Told(r, "REQUEST_BLOCKED", A))
  /\ q.pc \in {"note", "catchNote"} \/ q.reply \in {"upstream", "timeout"} => Free(r, R)
  /\ q.pc = "note" => ~q.ok
  /\ q.reply = "upstream" /\ q.ok => ChargedIn(r, L)
  /\ q.reply = "timeout" => Told(r, "UPSTREAM_ERROR", A)
  /\ Free(r, R) \/ q.pc \in Holding \/ q.lost \cap {"process", "release", "reserve"} # {}
  /\ AnswerOK(r, q, R, L)

Handled == \A r \in Requests : HandlerOK(r, req[r], reservations, ledger, audit)

IInv == TypeOK /\ Books(reservations, confirmed, ledger) /\ Handled

\* T is S but for what concerns r.
OnlyOf(r, S, T) == {x \in T : x.id # r} = {x \in S : x.id # r}

LEMMA OthersKeep ==
  ASSUME NEW r, NEW s, s # r, NEW q, NEW R, NEW L, NEW A, NEW R2, NEW L2, NEW A2,
         HandlerOK(s, q, R, L, A),
         OnlyOf(r, R, R2), OnlyOf(r, L, L2), OnlyOf(r, A, A2)
  PROVE  HandlerOK(s, q, R2, L2, A2)
<1>1. Free(s, R2) <=> Free(s, R)
  BY DEF Free, OnlyOf
<1>2. Unseen(s, L2) <=> Unseen(s, L)
  BY DEF Unseen, OnlyOf
<1>3. \A type : Told(s, type, A2) <=> Told(s, type, A)
  <2> SUFFICES ASSUME NEW type PROVE Told(s, type, A2) <=> Told(s, type, A)
    OBVIOUS
  <2> DEFINE t == [type |-> type, id |-> s]
  <2>1. t.id # r
    OBVIOUS
  <2> HIDE DEF t
  <2>2. t \in A2 <=> t \in A
    BY <2>1 DEF OnlyOf
  <2> QED BY <2>2 DEF Told, t
<1>4. /\ ChargedIn(s, L2) <=> ChargedIn(s, L)
      /\ RecoveredIn(s, L2) <=> RecoveredIn(s, L)
  BY DEF OnlyOf, ChargedIn, RecoveredIn
<1> QED BY <1>1, <1>2, <1>3, <1>4 DEF HandlerOK, AnswerOK

\* A handler's step keeps the invariant if it keeps the books and its own part.
LEMMA StepSuffices ==
  ASSUME IInv, NEW r \in Requests, NEW q \in Handlers, req' = [req EXCEPT ![r] = q],
         Books(reservations, confirmed, ledger)', audit' \subseteq Records,
         OnlyOf(r, reservations, reservations'), OnlyOf(r, ledger, ledger'),
         OnlyOf(r, audit, audit'), NoFault \/ Fault,
         HandlerOK(r, q, reservations', ledger', audit')
  PROVE  IInv'
<1>1. UNCHANGED <<control, world>> /\ faults' \in 0..MaxFaults
  BY LocalAssumption DEF NoFault, Fault, IInv, TypeOK
<1>2. TypeOK'
  BY <1>1 DEF IInv, TypeOK, Books, control, world
<1>3. ASSUME NEW s \in Requests
      PROVE  HandlerOK(s, req[s], reservations, ledger, audit)'
  <2>1. CASE s = r
    <3>1. req'[s] = q /\ Opened' = Opened
      BY <1>1, <2>1 DEF IInv, TypeOK, control, Opened
    <3> QED BY <2>1, <3>1 DEF HandlerOK, AnswerOK
  <2>2. CASE s # r
    <3>1. req'[s] = req[s] /\ Opened' = Opened
      BY <1>1, <2>2 DEF IInv, TypeOK, control, Opened
    <3>2. HandlerOK(s, req[s], reservations, ledger, audit)
      BY DEF IInv, Handled
    <3>3. HandlerOK(s, req[s], reservations', ledger', audit')
      BY <2>2, <3>2, OthersKeep
    <3> QED BY <3>1, <3>3 DEF HandlerOK, AnswerOK
  <2> QED BY <2>1, <2>2
<1> QED BY <1>2, <1>3 DEF IInv, Handled

\* In particular one that leaves the state file alone, or fails to write it.
LEMMA QuietSuffices ==
  ASSUME IInv, NEW r \in Requests, NEW q \in Handlers, req' = [req EXCEPT ![r] = q],
         NoFault \/ Fault, UNCHANGED <<books, audit>>,
         HandlerOK(r, q, reservations, ledger, audit)
  PROVE  IInv'
<1>1. /\ OnlyOf(r, reservations, reservations') /\ OnlyOf(r, ledger, ledger')
      /\ OnlyOf(r, audit, audit')
  BY DEF OnlyOf, books
<1>2. Books(reservations, confirmed, ledger)' /\ audit' \subseteq Records
  BY DEF IInv, TypeOK, books, Books, SettledIn, ChargesIn, Of
<1> QED BY <1>1, <1>2, StepSuffices DEF books

\* One that writes a record of its request.
LEMMA RecordSuffices ==
  ASSUME IInv, NEW r \in Requests, NEW q \in Handlers, req' = [req EXCEPT ![r] = q],
         NEW type \in {"REQUEST_ALLOWED", "REQUEST_BLOCKED", "UPSTREAM_ERROR"},
         Record(r, type), NoFault \/ Fault,
         (\A t : Told(r, t, audit') <=> Told(r, t, audit) \/ t = type) =>
            HandlerOK(r, q, reservations, ledger, audit')
  PROVE  IInv'
<1> DEFINE new == [type |-> type, id |-> r]
<1>1. audit' = audit \cup {new} /\ UNCHANGED books
  BY DEF Record
<1>2. new \in Records /\ new.id = r /\ \A t : [type |-> t, id |-> r] = new <=> t = type
  BY DEF Records
<1> HIDE DEF new
<1>3. \A t : Told(r, t, audit') <=> Told(r, t, audit) \/ t = type
  BY <1>1, <1>2 DEF Told
<1>4. OnlyOf(r, audit, audit') /\ audit' \subseteq Records
  BY <1>1, <1>2 DEF OnlyOf, IInv, TypeOK
<1>5. OnlyOf(r, reservations, reservations') /\ OnlyOf(r, ledger, ledger')
  BY <1>1 DEF OnlyOf, books
<1>6. Books(reservations, confirmed, ledger)'
  BY <1>1 DEF IInv, books, Books, SettledIn, ChargesIn, Of
<1>7. HandlerOK(r, q, reservations', ledger', audit')
  BY <1>1, <1>3 DEF books
<1> QED BY <1>4, <1>5, <1>6, <1>7, StepSuffices

\* One that writes to the books, not to the records.
LEMMA BookSuffices ==
  ASSUME IInv, NEW r \in Requests, NEW q \in Handlers, req' = [req EXCEPT ![r] = q],
         NoFault \/ Fault, UNCHANGED audit, Books(reservations, confirmed, ledger)',
         OnlyOf(r, reservations, reservations'), OnlyOf(r, ledger, ledger'),
         HandlerOK(r, q, reservations', ledger', audit)
  PROVE  IInv'
<1>1. OnlyOf(r, audit, audit') /\ audit' \subseteq Records
  BY DEF OnlyOf, IInv, TypeOK
<1>2. HandlerOK(r, q, reservations', ledger', audit')
  OBVIOUS
<1> QED BY <1>1, <1>2, StepSuffices

Replies == {"none", "denied", "failed", "timeout", "upstream", "open"}
Updates == {"reserve", "confirm", "release", "process"}

\* A handler one of whose updates has rejected.
LEMMA LostIs ==
  ASSUME NEW p \in Handlers, NEW u \in Updates
  PROVE  LET q == Lost(p, u)
         IN /\ q \in Handlers /\ q.lost = p.lost \cup {u} /\ q.pc = p.pc
            /\ q.reply = p.reply /\ q.ok = p.ok /\ q.sent = p.sent
            /\ q.amount = p.amount /\ q.agent = p.agent /\ q.limit = p.limit
<1>1. p.lost \cup {u} \in SUBSET Updates
  BY DEF Handlers, Updates
<1>2. Lost(p, u) = [p EXCEPT !.lost = p.lost \cup {u}]
  BY DEF Lost
<1>3. [p EXCEPT !.lost = p.lost \cup {u}] \in Handlers
  BY <1>1 DEF Handlers, Updates
<1> QED BY <1>2, <1>3 DEF Handlers

\* The fields of a handler keep their types when they are set.
LEMMA EndFields ==
  ASSUME NEW h \in Handlers, NEW place \in Places, NEW reply \in Replies, NEW ok \in BOOLEAN,
         NEW sent \in {"nothing", "part", "whole"}, NEW closed \in BOOLEAN,
         NEW lost \in SUBSET Updates
  PROVE  [h EXCEPT !.pc = place, !.reply = reply, !.ok = ok, !.sent = sent,
                   !.closed = closed, !.lost = lost] \in Handlers
<1>1. [h EXCEPT !.pc = place, !.reply = reply, !.ok = ok] \in Handlers
  BY DEF Handlers, Replies
<1>2. \A g \in Handlers : [g EXCEPT !.sent = sent, !.closed = closed, !.lost = lost] \in Handlers
  BY DEF Handlers, Updates
<1>3. [h EXCEPT !.pc = place, !.reply = reply, !.ok = ok, !.sent = sent,
                !.closed = closed, !.lost = lost]
        = [[h EXCEPT !.pc = place, !.reply = reply, !.ok = ok]
             EXCEPT !.sent = sent, !.closed = closed, !.lost = lost]
  BY DEF Handlers, Replies
<1> QED BY <1>1, <1>2, <1>3

LEMMA AnswerFields ==
  ASSUME NEW h \in Handlers, NEW place \in Places, NEW ok \in BOOLEAN,
         NEW cost \in ReportedCosts \cup {NoCost}, NEW sent \in {"nothing", "part", "whole"}
  PROVE  [h EXCEPT !.pc = place, !.ok = ok, !.cost = cost, !.sent = sent] \in Handlers
BY DEF Handlers

\* A handler that has returned.
LEMMA EndedIs ==
  ASSUME NEW p \in Handlers, NEW reply \in Replies
  PROVE  LET q == Ended(p, reply)
         IN /\ q \in Handlers /\ q.pc = "ended" /\ q.reply = reply
            /\ q.ok = p.ok /\ q.sent = p.sent /\ q.lost = p.lost
<1>1. NoRequest \in Handlers
  BY DEF NoRequest, Handlers, Places
<1>2. "ended" \in Places
  BY DEF Places
<1>3. /\ p.ok \in BOOLEAN /\ p.closed \in BOOLEAN /\ p.lost \in SUBSET Updates
      /\ p.sent \in {"nothing", "part", "whole"}
  BY DEF Handlers, Updates
<1>4. Ended(p, reply) \in Handlers
  <2>1. ASSUME NEW ok \in BOOLEAN, NEW sent \in {"nothing", "part", "whole"},
               NEW closed \in BOOLEAN, NEW lost \in SUBSET Updates
        PROVE  [NoRequest EXCEPT !.pc = "ended", !.reply = reply, !.ok = ok, !.sent = sent,
                                 !.closed = closed, !.lost = lost] \in Handlers
    BY <1>1, <1>2, EndFields
  <2>2. PICK ok, sent, closed, lost :
          ok = p.ok /\ sent = p.sent /\ closed = p.closed /\ lost = p.lost
    BY Zenon
  <2>3. [NoRequest EXCEPT !.pc = "ended", !.reply = reply, !.ok = ok, !.sent = sent,
                          !.closed = closed, !.lost = lost] \in Handlers
    BY <1>3, <2>1, <2>2
  <2>4. Ended(p, reply) = [NoRequest EXCEPT !.pc = "ended", !.reply = reply, !.ok = ok,
                                            !.sent = sent, !.closed = closed, !.lost = lost]
    BY <2>2, Zenon DEF Ended
  <2> QED BY <2>3, <2>4, Zenon
<1>5. /\ Ended(p, reply).pc = "ended" /\ Ended(p, reply).reply = reply
      /\ Ended(p, reply).ok = p.ok /\ Ended(p, reply).sent = p.sent
      /\ Ended(p, reply).lost = p.lost
  BY <1>1 DEF Ended, Handlers
<1> QED BY <1>4, <1>5

\* The reply of a handler that fails.
LEMMA ErrorIs ==
  ASSUME NEW p \in Handlers, NEW reply \in {"failed", "timeout"}
  PROVE  sendError(p, reply) \in {reply, "open"} /\ sendError(p, reply) \in Replies
BY DEF sendError, Replies

\* A handler that goes on keeps what it knows.
LEMMA GotoIs ==
  ASSUME NEW p \in Handlers, NEW place \in Places
  PROVE  LET q == [p EXCEPT !.pc = place]
         IN /\ q \in Handlers /\ q.pc = place /\ q.reply = p.reply /\ q.ok = p.ok
            /\ q.sent = p.sent /\ q.lost = p.lost
            /\ q.amount = p.amount /\ q.agent = p.agent /\ q.limit = p.limit
<1>1. [p EXCEPT !.pc = place] \in Handlers
  BY DEF Handlers
<1> QED BY <1>1 DEF Handlers

\* What is known of a handler about to step.
LEMMA Handler0 ==
  ASSUME IInv, NEW r \in Requests
  PROVE  /\ req[r] \in Handlers /\ HandlerOK(r, req[r], reservations, ledger, audit)
         /\ \A q : [req EXCEPT ![r] = q][r] = q
BY DEF IInv, TypeOK, Handled

\* A handler returns without a word to the state file.
LEMMA QuietEnd ==
  ASSUME IInv, NEW r \in Requests, NEW p \in Handlers, NEW reply \in Replies,
         req' = [req EXCEPT ![r] = Ended(p, reply)],
         NoFault \/ Fault, UNCHANGED <<books, audit>>,
         p.ok = req[r].ok /\ p.sent = req[r].sent /\ req[r].lost \subseteq p.lost,
         reply \in {"denied", "failed", "open"},
         reply = "denied" => Free(r, reservations) /\ Unseen(r, ledger),
         req[r].pc \notin {"settle", "stream", "drain", "ended"},
         Free(r, reservations) \/ p.lost \cap {"process", "release", "reserve"} # {}
  PROVE  IInv'
<1> DEFINE q == Ended(p, reply)
<1>1. req[r] \in Handlers /\ HandlerOK(r, req[r], reservations, ledger, audit)
  BY Handler0
<1>2. /\ q \in Handlers /\ q.pc = "ended" /\ q.reply = reply
      /\ q.ok = req[r].ok /\ q.sent = req[r].sent /\ q.lost = p.lost
  BY EndedIs
<1>3. req' = [req EXCEPT ![r] = q]
  OBVIOUS
<1> HIDE DEF q
<1>4. AnswerOK(r, q, reservations, ledger)
  BY <1>1, <1>2 DEF HandlerOK, AnswerOK, Early, Unanswered, Unsettled
<1>5. HandlerOK(r, q, reservations, ledger, audit)
  BY <1>1, <1>2, <1>4 DEF HandlerOK, Early, Holding, Trying
<1> QED BY <1>2, <1>3, <1>5, QuietSuffices

\* A handler goes on without a word to the state file.
LEMMA QuietGoto ==
  ASSUME IInv, NEW r \in Requests, NEW p \in Handlers, NEW place,
         req' = [req EXCEPT ![r] = [p EXCEPT !.pc = place]],
         NoFault \/ Fault, UNCHANGED <<books, audit>>,
         \/ p = req[r]
         \/ p = Lost(req[r], "confirm"),
         \/ place = "authorize" /\ At(r, "load")
         \/ place = "blocked" /\ req[r].pc \in {"authorize", "reserve"}
         \/ place = "undo" /\ At(r, "record")
         \/ place = "stream" /\ At(r, "drain")
         \/ place = "catch" /\ req[r].pc \in {"fetch", "stream", "note"}
         \/ place = "catch" /\ At(r, "settle") /\ (Free(r, reservations) \/ "confirm" \in p.lost)
         \/ place = "catch" /\ At(r, "settle") /\ ~req[r].ok
  PROVE  IInv'
<1> DEFINE q == [p EXCEPT !.pc = place]
<1>1. req[r] \in Handlers /\ HandlerOK(r, req[r], reservations, ledger, audit)
  BY Handler0
<1>2. place \in Places
  BY DEF Places, Trying
<1>3. /\ p.reply = req[r].reply /\ p.ok = req[r].ok /\ p.sent = req[r].sent
      /\ req[r].lost \subseteq p.lost
      /\ p.amount = req[r].amount /\ p.agent = req[r].agent /\ p.limit = req[r].limit
  BY <1>1, LostIs DEF Updates
<1>4. /\ q \in Handlers /\ q.pc = place /\ q.reply = req[r].reply /\ q.ok = req[r].ok
      /\ q.sent = req[r].sent /\ q.lost = p.lost
      /\ q.amount = req[r].amount /\ q.agent = req[r].agent /\ q.limit = req[r].limit
  BY <1>2, <1>3, GotoIs
<1>5. req' = [req EXCEPT ![r] = q]
  OBVIOUS
<1> HIDE DEF q
<1>6. AnswerOK(r, q, reservations, ledger)
  BY <1>1, <1>3, <1>4 DEF HandlerOK, AnswerOK, Early, Unanswered, Unsettled, At
<1>7. HandlerOK(r, q, reservations, ledger, audit)
  BY <1>1, <1>3, <1>4, <1>6 DEF HandlerOK, Early, Holding, Trying, At
<1> QED BY <1>4, <1>5, <1>7, QuietSuffices

LEMMA ArriveKeeps ==
  ASSUME IInv, NEW r \in Requests, NEW token \in Tokens, NEW model \in Models,
         NEW stream \in BOOLEAN, Arrive(r, token, model, stream)
  PROVE  IInv'
<1> DEFINE q == [req[r] EXCEPT !.pc = "received", !.token = token, !.model = model,
                                !.stream = stream]
<1>1. req[r] \in Handlers /\ HandlerOK(r, req[r], reservations, ledger, audit)
  BY Handler0
<1>2. "received" \in Places
  BY DEF Places
<1>3. q \in Handlers
  BY <1>1, <1>2 DEF Handlers
<1>4. /\ q.pc = "received" /\ q.reply = req[r].reply /\ q.ok = req[r].ok
      /\ q.sent = req[r].sent /\ q.lost = req[r].lost
  BY <1>1 DEF Handlers
<1>5. req' = [req EXCEPT ![r] = q] /\ NoBooks /\ At(r, "idle")
  BY DEF Arrive
<1> HIDE DEF q
<1>6. AnswerOK(r, q, reservations, ledger)
  BY <1>1, <1>4, <1>5 DEF HandlerOK, AnswerOK, Early, Unanswered, Unsettled, At
<1>7. HandlerOK(r, q, reservations, ledger, audit)
  BY <1>1, <1>4, <1>5, <1>6 DEF HandlerOK, Early, Holding, Trying, At
<1> QED BY <1>3, <1>5, <1>7, QuietSuffices DEF NoBooks

LEMMA AuthenticateKeeps ==
  ASSUME IInv, NEW r \in Requests, Authenticate(r)
  PROVE  IInv'
<1>1. req[r] \in Handlers /\ HandlerOK(r, req[r], reservations, ledger, audit)
  BY Handler0
<1>2. At(r, "received") /\ NoBooks
  BY DEF Authenticate
<1>3. CASE End(r, "denied")
  <2>1. Free(r, reservations) /\ Unseen(r, ledger)
    BY <1>1, <1>2 DEF HandlerOK, Early, At
  <2> QED BY <1>1, <1>2, <1>3, <2>1, QuietEnd DEF End, At, NoBooks, Replies, IInv, TypeOK
<1>4. ASSUME NEW amount \in Amounts, req' = [req EXCEPT ![r].pc = "load", ![r].amount = amount]
      PROVE  IInv'
  <2> DEFINE q == [req[r] EXCEPT !.pc = "load", !.amount = amount]
  <2>1. "load" \in Places
    BY DEF Places
  <2>2. q \in Handlers
    BY <1>1, <2>1 DEF Handlers
  <2>3. /\ q.pc = "load" /\ q.reply = req[r].reply /\ q.ok = req[r].ok /\ q.amount = amount
        /\ q.sent = req[r].sent /\ q.lost = req[r].lost
    BY <1>1 DEF Handlers
  <2>4. req' = [req EXCEPT ![r] = q]
    BY <1>4
  <2> HIDE DEF q
  <2>5. AnswerOK(r, q, reservations, ledger)
    BY <1>1, <1>2, <2>3 DEF HandlerOK, AnswerOK, Early, Unanswered, Unsettled, At
  <2>6. HandlerOK(r, q, reservations, ledger, audit)
    BY <1>1, <1>2, <2>3, <2>5 DEF HandlerOK, Early, Holding, Trying, At
  <2> QED BY <1>2, <2>2, <2>4, <2>6, QuietSuffices DEF NoBooks
<1>5. ASSUME NEW a \in AgentIds, Holder(a, req[r].token)
      PROVE  (IF agents[a].maxRequest = NoLimit THEN DefaultReservation
                                                ELSE agents[a].maxRequest) \in Amounts
  BY <1>5 DEF Holder, IInv, TypeOK, Agents, Amounts
<1> QED BY <1>3, <1>4, <1>5 DEF Authenticate

LEMMA LoadKeyKeeps ==
  ASSUME IInv, NEW r \in Requests, LoadKey(r)
  PROVE  IInv'
<1>1. Free(r, reservations) /\ req[r] \in Handlers
  BY Handler0 DEF LoadKey, At, HandlerOK, Early
<1>2. CASE End(r, "failed")
  BY <1>1, <1>2, QuietEnd DEF LoadKey, End, At, NoBooks, Replies, IInv, TypeOK
<1>3. CASE Goto(r, "authorize")
  BY <1>1, <1>3, QuietGoto DEF LoadKey, Goto, NoBooks
<1> QED BY <1>2, <1>3 DEF LoadKey

LEMMA AuthorizeKeeps ==
  ASSUME IInv, NEW r \in Requests, Authorize(r)
  PROVE  IInv'
<1>1. req[r] \in Handlers /\ HandlerOK(r, req[r], reservations, ledger, audit)
  BY Handler0
<1>2. At(r, "authorize") /\ NoBooks
  BY DEF Authorize
<1>3. CASE Goto(r, "blocked")
  BY <1>1, <1>2, <1>3, QuietGoto DEF At, Goto, NoBooks
<1>4. ASSUME NEW a \in AgentIds, Holder(a, req[r].token),
             req' = [req EXCEPT ![r].pc = "reserve", ![r].agent = a,
                                ![r].limit = agents[a].dailyBudget]
      PROVE  IInv'
  <2> DEFINE limit == agents[a].dailyBudget
             q == [req[r] EXCEPT !.pc = "reserve", !.agent = a, !.limit = limit]
  <2>1. limit \in DailyBudgets /\ a \in Opened
    BY <1>4 DEF Holder, IInv, TypeOK, Agents, Opened
  <2>2. req' = [req EXCEPT ![r] = q]
    BY <1>4
  <2> HIDE DEF limit
  <2>3. "reserve" \in Places
    BY DEF Places
  <2>4. q \in Handlers
    BY <1>1, <2>1, <2>3 DEF Handlers
  <2>5. /\ q.pc = "reserve" /\ q.reply = req[r].reply /\ q.ok = req[r].ok
        /\ q.sent = req[r].sent /\ q.lost = req[r].lost
        /\ q.amount = req[r].amount /\ q.agent = a /\ q.limit = limit
    BY <1>1 DEF Handlers
  <2> HIDE DEF q
  <2>6. AnswerOK(r, q, reservations, ledger)
    BY <1>1, <1>2, <2>5 DEF HandlerOK, AnswerOK, Early, Unanswered, Unsettled, At
  <2>7. HandlerOK(r, q, reservations, ledger, audit)
    BY <1>1, <1>2, <2>1, <2>5, <2>6 DEF HandlerOK, Early, Holding, Trying, At
  <2> QED BY <1>2, <2>2, <2>4, <2>7, QuietSuffices DEF NoBooks
<1> QED BY <1>3, <1>4 DEF Authorize

LEMMA RecordBlockedKeeps ==
  ASSUME IInv, NEW r \in Requests, RecordBlocked(r)
  PROVE  IInv'
<1>1. req[r] \in Handlers /\ HandlerOK(r, req[r], reservations, ledger, audit)
  BY Handler0
<1>2. At(r, "blocked") /\ Free(r, reservations) /\ Unseen(r, ledger)
  BY <1>1 DEF RecordBlocked, HandlerOK, At, Early
<1>3. CASE End(r, "failed") /\ Fault /\ UNCHANGED <<books, audit>>
  BY <1>1, <1>2, <1>3, QuietEnd DEF At, End, Replies
<1>4. ASSUME NEW reply \in {"denied", "failed"},
             Record(r, "REQUEST_BLOCKED"), End(r, reply), NoFault \/ Fault
      PROVE  IInv'
  <2> DEFINE q == Ended(req[r], reply)
  <2>1. /\ q \in Handlers /\ q.pc = "ended" /\ q.reply = reply
        /\ q.ok = req[r].ok /\ q.sent = req[r].sent /\ q.lost = req[r].lost
    BY <1>1, EndedIs DEF Replies
  <2>2. req' = [req EXCEPT ![r] = q]
    BY <1>1, <1>4 DEF End, IInv, TypeOK
  <2> HIDE DEF q
  <2>3. AnswerOK(r, q, reservations, ledger)
    BY <1>1, <1>2, <2>1 DEF HandlerOK, AnswerOK, Early, Unanswered, Unsettled, At
  <2>4. ASSUME \A t : Told(r, t, audit') <=> Told(r, t, audit) \/ t = "REQUEST_BLOCKED"
        PROVE  HandlerOK(r, q, reservations, ledger, audit')
    BY <1>1, <1>2, <2>1, <2>3, <2>4 DEF HandlerOK, Early, Holding, Trying, At
  <2> QED BY <1>4, <2>1, <2>2, <2>4, RecordSuffices
<1> QED BY <1>3, <1>4 DEF RecordBlocked, Rejects

LEMMA RecordAllowedKeeps ==
  ASSUME IInv, NEW r \in Requests, RecordAllowed(r)
  PROVE  IInv'
<1>1. req[r] \in Handlers /\ HandlerOK(r, req[r], reservations, ledger, audit)
  BY Handler0
<1>2. At(r, "record")
  BY DEF RecordAllowed
<1>3. CASE Goto(r, "undo") /\ Fault /\ UNCHANGED <<books, audit>>
  BY <1>1, <1>2, <1>3, QuietGoto DEF Goto
<1>4. ASSUME NEW place \in {"fetch", "undo"},
             Record(r, "REQUEST_ALLOWED"), Goto(r, place), NoFault \/ Fault
      PROVE  IInv'
  <2> DEFINE q == [req[r] EXCEPT !.pc = place]
  <2>1. place \in Places
    BY DEF Places, Trying
  <2>2. /\ q \in Handlers /\ q.pc = place /\ q.reply = req[r].reply
        /\ q.amount = req[r].amount
        /\ q.ok = req[r].ok /\ q.sent = req[r].sent /\ q.lost = req[r].lost
    BY <1>1, <2>1, GotoIs
  <2>3. req' = [req EXCEPT ![r] = q]
    BY <1>4 DEF Goto
  <2> HIDE DEF q
  <2>4. AnswerOK(r, q, reservations, ledger)
    BY <1>1, <1>2, <2>2 DEF HandlerOK, AnswerOK, Early, Unanswered, Unsettled, At
  <2>5. ASSUME \A t : Told(r, t, audit') <=> Told(r, t, audit) \/ t = "REQUEST_ALLOWED"
        PROVE  HandlerOK(r, q, reservations, ledger, audit')
    BY <1>1, <1>2, <2>2, <2>4, <2>5 DEF HandlerOK, Early, Holding, Trying, At
  <2> QED BY <1>4, <2>2, <2>3, <2>5, RecordSuffices
<1> QED BY <1>3, <1>4 DEF RecordAllowed, Rejects

LEMMA NoteKeeps ==
  ASSUME IInv, NEW r \in Requests, NoteUpstreamError(r)
  PROVE  IInv'
<1>1. req[r] \in Handlers /\ HandlerOK(r, req[r], reservations, ledger, audit)
  BY Handler0
<1>2. At(r, "note")
  BY DEF NoteUpstreamError
<1>3. CASE Goto(r, "catch") /\ Fault /\ UNCHANGED <<books, audit>>
  BY <1>1, <1>2, <1>3, QuietGoto DEF At, Goto
<1>4. CASE Record(r, "UPSTREAM_ERROR") /\ End(r, "upstream") /\ NoFault
  <2> DEFINE q == Ended(req[r], "upstream")
  <2>1. /\ q \in Handlers /\ q.pc = "ended" /\ q.reply = "upstream"
        /\ q.ok = req[r].ok /\ q.sent = req[r].sent /\ q.lost = req[r].lost
    BY <1>1, EndedIs DEF Replies
  <2>2. req' = [req EXCEPT ![r] = q]
    BY <1>1, <1>4 DEF End, IInv, TypeOK
  <2> HIDE DEF q
  <2>3. AnswerOK(r, q, reservations, ledger)
    BY <1>1, <1>2, <2>1 DEF HandlerOK, AnswerOK, Early, Unanswered, Unsettled, At
  <2>4. ASSUME \A t : Told(r, t, audit') <=> Told(r, t, audit) \/ t = "UPSTREAM_ERROR"
        PROVE  HandlerOK(r, q, reservations, ledger, audit')
    BY <1>1, <1>2, <2>1, <2>3, <2>4 DEF HandlerOK, Early, Holding, Trying, At
  <2> QED BY <1>4, <2>1, <2>2, <2>4, RecordSuffices
<1>5. CASE Record(r, "UPSTREAM_ERROR") /\ Goto(r, "catch") /\ Fault
  <2> DEFINE q == [req[r] EXCEPT !.pc = "catch"]
  <2>1. "catch" \in Places
    BY DEF Places, Trying
  <2>2. /\ q \in Handlers /\ q.pc = "catch" /\ q.reply = req[r].reply
        /\ q.amount = req[r].amount
        /\ q.ok = req[r].ok /\ q.sent = req[r].sent /\ q.lost = req[r].lost
    BY <1>1, <2>1, GotoIs
  <2>3. req' = [req EXCEPT ![r] = q]
    BY <1>5 DEF Goto
  <2> HIDE DEF q
  <2>4. AnswerOK(r, q, reservations, ledger)
    BY <1>1, <1>2, <2>2 DEF HandlerOK, AnswerOK, Early, Unanswered, Unsettled, At
  <2>5. ASSUME \A t : Told(r, t, audit') <=> Told(r, t, audit) \/ t = "UPSTREAM_ERROR"
        PROVE  HandlerOK(r, q, reservations, ledger, audit')
    BY <1>1, <1>2, <2>2, <2>4, <2>5 DEF HandlerOK, Early, Holding, Trying, At
  <2> QED BY <1>5, <2>2, <2>3, <2>5, RecordSuffices
<1> QED BY <1>3, <1>4, <1>5 DEF NoteUpstreamError, Rejects

LEMMA CatchNoteKeeps ==
  ASSUME IInv, NEW r \in Requests, CatchNote(r)
  PROVE  IInv'
<1>1. req[r] \in Handlers /\ HandlerOK(r, req[r], reservations, ledger, audit)
  BY Handler0
<1>2. At(r, "catchNote") /\ Free(r, reservations)
  BY <1>1 DEF CatchNote, At, HandlerOK
<1>3. PICK reply \in Replies :
        /\ End(r, reply) /\ reply \in {"failed", "timeout", "open"}
        /\ \/ Record(r, "UPSTREAM_ERROR") /\ (NoFault \/ Fault)
           \/ UNCHANGED <<books, audit>> /\ Fault /\ reply \in {"failed", "open"}
  BY <1>1, ErrorIs DEF CatchNote, Rejects
<1>4. CASE UNCHANGED <<books, audit>> /\ Fault /\ reply \in {"failed", "open"}
  BY <1>1, <1>2, <1>3, <1>4, QuietEnd DEF At, End
<1>5. CASE Record(r, "UPSTREAM_ERROR") /\ (NoFault \/ Fault)
  <2> DEFINE q == Ended(req[r], reply)
  <2>1. /\ q \in Handlers /\ q.pc = "ended" /\ q.reply = reply
        /\ q.ok = req[r].ok /\ q.sent = req[r].sent /\ q.lost = req[r].lost
    BY <1>1, EndedIs
  <2>2. req' = [req EXCEPT ![r] = q]
    BY <1>1, <1>3 DEF End, IInv, TypeOK
  <2> HIDE DEF q
  <2>3. AnswerOK(r, q, reservations, ledger)
    BY <1>1, <1>2, <1>3, <2>1 DEF HandlerOK, AnswerOK, Early, Unanswered, Unsettled, At
  <2>4. ASSUME \A t : Told(r, t, audit') <=> Told(r, t, audit) \/ t = "UPSTREAM_ERROR"
        PROVE  HandlerOK(r, q, reservations, ledger, audit')
    BY <1>1, <1>2, <1>3, <2>1, <2>3, <2>4 DEF HandlerOK, Early, Holding, Trying, At
  <2> QED BY <1>5, <2>1, <2>2, <2>4, RecordSuffices
<1> QED BY <1>3, <1>4, <1>5

\* A handler between the provider and the client: its answer arrives, is passed on, ends.
LEMMA AnswerSuffices ==
  ASSUME IInv, NEW r \in Requests, NEW place \in {"stream", "drain", "settle"},
         NEW ok \in BOOLEAN, NEW cost \in ReportedCosts \cup {NoCost},
         NEW sent \in {"nothing", "part", "whole"},
         req' = [req EXCEPT ![r] =
                   [@ EXCEPT !.pc = place, !.ok = ok, !.cost = cost, !.sent = sent]],
         NoBooks, req[r].pc \in {"fetch", "stream", "drain"},
         place \in {"stream", "drain"} => ok /\ sent # "whole",
         sent # "nothing" => ok
  PROVE  IInv'
<1> DEFINE q == [req[r] EXCEPT !.pc = place, !.ok = ok, !.cost = cost, !.sent = sent]
<1>1. req[r] \in Handlers /\ HandlerOK(r, req[r], reservations, ledger, audit)
  BY Handler0
<1>2. place \in Places
  BY DEF Places, Trying
<1>3. q \in Handlers
  BY <1>1, <1>2, AnswerFields
<1>4. /\ q.pc = place /\ q.reply = req[r].reply /\ q.amount = req[r].amount
      /\ q.ok = ok /\ q.sent = sent /\ q.lost = req[r].lost
  BY <1>1 DEF Handlers
<1>5. req' = [req EXCEPT ![r] = q]
  OBVIOUS
<1> HIDE DEF q
<1>6. AnswerOK(r, q, reservations, ledger)
  BY <1>1, <1>4 DEF HandlerOK, AnswerOK, Early, Unanswered, Unsettled
<1>7. HandlerOK(r, q, reservations, ledger, audit)
  BY <1>1, <1>4, <1>6 DEF HandlerOK, Early, Holding, Trying
<1> QED BY <1>3, <1>5, <1>7, QuietSuffices DEF NoBooks

LEMMA AnswerKeeps ==
  ASSUME IInv, NEW r \in Requests, NEW ok \in BOOLEAN, NEW cost \in ReportedCosts \cup {NoCost},
         UpstreamReplies(r, ok, cost) \/ StreamEnds(r, cost)
  PROVE  IInv'
<1>1. req[r] \in Handlers /\ HandlerOK(r, req[r], reservations, ledger, audit)
  BY Handler0
<1>2. CASE UpstreamReplies(r, ok, cost)
  <2> DEFINE place == IF req[r].stream /\ ok THEN "stream" ELSE "settle"
             c == IF req[r].stream /\ ok THEN NoCost ELSE cost
  <2>1. /\ req' = [req EXCEPT ![r] = [@ EXCEPT !.pc = place, !.ok = ok, !.cost = c]]
        /\ NoBooks /\ At(r, "fetch")
    BY <1>2 DEF UpstreamReplies
  <2>2. req[r].sent = "nothing"
    BY <1>1, <2>1 DEF HandlerOK, AnswerOK, Unanswered, At
  <2>3. place \in {"stream", "drain", "settle"} /\ c \in ReportedCosts \cup {NoCost}
        /\ (place = "stream" => ok) /\ place # "drain"
    OBVIOUS
  <2> HIDE DEF place, c
  <2>4. [req[r] EXCEPT !.pc = place, !.ok = ok, !.cost = c] =
          [req[r] EXCEPT !.pc = place, !.ok = ok, !.cost = c, !.sent = "nothing"]
    BY <1>1, <2>2 DEF Handlers
  <2>5. req' = [req EXCEPT ![r] =
                  [@ EXCEPT !.pc = place, !.ok = ok, !.cost = c, !.sent = "nothing"]]
    BY <2>1, <2>4
  <2> QED BY <2>1, <2>3, <2>5, AnswerSuffices DEF At
<1>3. CASE StreamEnds(r, cost)
  <2> DEFINE sent == IF req[r].sent = "nothing" THEN req[r].sent ELSE "whole"
  <2>1. /\ req' = [req EXCEPT ![r] = [@ EXCEPT !.pc = "settle", !.cost = cost, !.sent = sent]]
        /\ NoBooks /\ At(r, "stream")
    BY <1>3 DEF StreamEnds
  <2>2. req[r].ok = TRUE
    BY <1>1, <2>1 DEF HandlerOK, AnswerOK, At, Handlers
  <2>3. sent \in {"nothing", "part", "whole"}
    OBVIOUS
  <2> HIDE DEF sent
  <2>4. [req[r] EXCEPT !.pc = "settle", !.cost = cost, !.sent = sent] =
          [req[r] EXCEPT !.pc = "settle", !.ok = TRUE, !.cost = cost, !.sent = sent]
    BY <1>1, <2>2 DEF Handlers
  <2>5. req' = [req EXCEPT ![r] =
                  [@ EXCEPT !.pc = "settle", !.ok = TRUE, !.cost = cost, !.sent = sent]]
    BY <2>1, <2>4
  <2> QED BY <2>1, <2>3, <2>5, AnswerSuffices DEF At
<1> QED BY <1>2, <1>3

\* What the provider and the client do to a handler that waits for them.
LEMMA WaitKeeps ==
  ASSUME IInv, NEW r \in Requests,
         Chunk(r) \/ Backpressure(r) \/ Drained(r) \/ UpstreamFails(r)
  PROVE  IInv'
<1>1. req[r] \in Handlers /\ HandlerOK(r, req[r], reservations, ledger, audit)
  BY Handler0
<1>2. req[r].cost \in ReportedCosts \cup {NoCost}
  BY <1>1 DEF Handlers
<1>3. CASE Chunk(r) \/ Backpressure(r)
  <2>1. NoBooks /\ req[r].pc = "stream"
    BY <1>3 DEF Chunk, Backpressure, At
  <2>2. req[r].ok = TRUE /\ req[r].sent \in {"nothing", "part"}
    BY <1>1, <2>1 DEF HandlerOK, AnswerOK, Handlers
  <2>3. PICK place \in {"stream", "drain"}, sent \in {"nothing", "part"} :
          req' = [req EXCEPT ![r] = [@ EXCEPT !.pc = place, !.sent = sent]]
    <3>1. CASE Chunk(r)
      <4>1. [req[r] EXCEPT !.sent = "part"] = [req[r] EXCEPT !.pc = "stream", !.sent = "part"]
        BY <1>1, <2>1 DEF Handlers
      <4> QED BY <3>1, <4>1 DEF Chunk
    <3>2. CASE Backpressure(r)
      <4> DEFINE sent == IF req[r].closed THEN req[r].sent ELSE "part"
      <4>1. req' = [req EXCEPT ![r] = [@ EXCEPT !.pc = "drain", !.sent = sent]]
        BY <3>2 DEF Backpressure
      <4>2. sent \in {"nothing", "part"}
        BY <2>2
      <4> HIDE DEF sent
      <4> QED BY <4>1, <4>2
    <3> QED BY <1>3, <3>1, <3>2
  <2>4. [req[r] EXCEPT !.pc = place, !.sent = sent] =
          [req[r] EXCEPT !.pc = place, !.ok = TRUE, !.cost = req[r].cost, !.sent = sent]
    BY <1>1, <2>2 DEF Handlers
  <2>5. req' = [req EXCEPT ![r] =
                  [@ EXCEPT !.pc = place, !.ok = TRUE, !.cost = req[r].cost, !.sent = sent]]
    BY <2>3, <2>4
  <2> QED BY <1>2, <2>1, <2>5, AnswerSuffices
<1>4. CASE Drained(r)
  BY <1>1, <1>4, QuietGoto DEF Drained, Goto, NoBooks
<1>5. CASE UpstreamFails(r)
  BY <1>1, <1>5, QuietGoto DEF UpstreamFails, Goto, NoBooks
<1> QED BY <1>3, <1>4, <1>5

\* The timer fires, or the client leaves: nothing else changes.
LEMMA AbortKeeps ==
  ASSUME IInv, NEW r \in Requests, Timeout(r) \/ ClientCloses(r)
  PROVE  IInv'
<1>1. req[r] \in Handlers /\ HandlerOK(r, req[r], reservations, ledger, audit)
  BY Handler0
<1>2. NoBooks
  BY DEF Timeout, ClientCloses
<1>3. ASSUME NEW aborted \in BOOLEAN, NEW closed \in BOOLEAN,
             req' = [req EXCEPT ![r].closed = closed, ![r].aborted = aborted]
      PROVE  IInv'
  <2> DEFINE q == [req[r] EXCEPT !.closed = closed, !.aborted = aborted]
  <2>1. q \in Handlers
    BY <1>1 DEF Handlers
  <2>2. /\ q.pc = req[r].pc /\ q.reply = req[r].reply /\ q.amount = req[r].amount
        /\ q.sent = req[r].sent /\ q.lost = req[r].lost
        /\ q.ok = req[r].ok /\ q.agent = req[r].agent /\ q.limit = req[r].limit
    BY <1>1 DEF Handlers
  <2>3. req' = [req EXCEPT ![r] = q]
    BY <1>3
  <2> HIDE DEF q
  <2>4. HandlerOK(r, q, reservations, ledger, audit)
    BY <1>1, <2>2 DEF HandlerOK, AnswerOK
  <2> QED BY <1>2, <2>1, <2>3, <2>4, QuietSuffices DEF NoBooks
<1>4. req[r].closed \in BOOLEAN /\ req[r].aborted \in BOOLEAN
  BY <1>1 DEF Handlers
<1>5. CASE Timeout(r)
  <2>1. req' = [req EXCEPT ![r].closed = req[r].closed, ![r].aborted = TRUE]
    <3>1. [req[r] EXCEPT !.aborted = TRUE] = [req[r] EXCEPT !.closed = req[r].closed, !.aborted = TRUE]
      BY <1>1 DEF Handlers
    <3> QED BY <1>5, <3>1 DEF Timeout, IInv, TypeOK
  <2> QED BY <1>3, <1>4, <2>1
<1>6. CASE ClientCloses(r)
  <2>1. (req[r].aborted \/ req[r].pc \in Trying) \in BOOLEAN
    OBVIOUS
  <2> QED BY <1>3, <1>6, <2>1 DEF ClientCloses
<1> QED BY <1>5, <1>6

\* A reservation is taken, by a handler that is told so or one that is not.
LEMMA ReserveIs ==
  ASSUME IInv, NEW r \in Requests, At(r, "reserve"), Reserve(r, req[r].agent, req[r].amount)
  PROVE  /\ Books(reservations, confirmed, ledger)' /\ ~Free(r, reservations')
         /\ OnlyOf(r, reservations, reservations') /\ OnlyOf(r, ledger, ledger')
         /\ ~ChargedIn(r, ledger') /\ UNCHANGED audit
<1> DEFINE p == req[r]
           x == [id |-> r, agent |-> p.agent, date |-> UtcDate[now],
                 amount |-> p.amount, createdAt |-> now]
           e == Event("BUDGET_RESERVED", x, x.amount)
<1>1. HandlerOK(r, p, reservations, ledger, audit)
  BY Handler0
<1>2. now \in Clock /\ UtcDate[now] \in Days
  BY LocalAssumption DEF IInv, TypeOK
<1>3. p.agent \in AgentIds /\ p.amount \in Amounts
  BY <1>1 DEF HandlerOK, At, Opened
<1>4. x \in Reservations /\ x.id = r
  BY <1>2, <1>3 DEF Reservations
<1>5. x.amount \in Nat
  BY <1>3, AmountsAreNatural
<1>6. e.id = r /\ e.type = "BUDGET_RESERVED"
  BY <1>4, <1>5, EventOf
<1>7. /\ reservations' = reservations \cup {x} /\ UNCHANGED <<confirmed, audit>>
      /\ ledger' = ledger \cup {e}
  BY DEF Reserve
<1> HIDE DEF p, x
<1>8. Free(r, reservations) /\ Unseen(r, ledger)
  BY <1>1 DEF HandlerOK, Early, At, p
<1>9. Books(reservations', confirmed, ledger')
  BY <1>4, <1>7, <1>8, ReserveKeepsBooks DEF Free, Unseen, IInv
<1> HIDE DEF e
<1>10. OnlyOf(r, reservations, reservations') /\ OnlyOf(r, ledger, ledger')
  BY <1>4, <1>6, <1>7 DEF OnlyOf
<1>11. Books(reservations, confirmed, ledger)'
  BY <1>7, <1>9 DEF Books, SettledIn, ChargesIn, Of
<1>12. ~Free(r, reservations') /\ ~ChargedIn(r, ledger')
  BY <1>4, <1>6, <1>7, <1>8 DEF Free, Unseen, ChargedIn
<1> QED BY <1>7, <1>10, <1>11, <1>12

LEMMA ReserveBudgetKeeps ==
  ASSUME IInv, NEW r \in Requests, ReserveBudget(r)
  PROVE  IInv'
<1> DEFINE p == req[r]
<1>1. p \in Handlers /\ HandlerOK(r, p, reservations, ledger, audit)
  BY Handler0
<1>2. At(r, "reserve")
  BY DEF ReserveBudget
<1>3. CASE Goto(r, "blocked") /\ NoBooks
  BY <1>1, <1>2, <1>3, QuietGoto DEF At, Goto, NoBooks
<1>4. CASE Rejects(Reserve(r, p.agent, p.amount)) /\ EndLost(r, "failed", "reserve")
  <2> DEFINE l == Lost(p, "reserve")
             q == Ended(l, "failed")
  <2>1. /\ l \in Handlers /\ l.ok = p.ok /\ l.sent = p.sent /\ l.lost = p.lost \cup {"reserve"}
    BY <1>1, LostIs DEF Updates
  <2>2. req' = [req EXCEPT ![r] = q]
    BY <1>1, <1>4 DEF EndLost, IInv, TypeOK
  <2>3. "failed" \in Replies
    BY DEF Replies
  <2>4. CASE UNCHANGED <<books, audit>>
    <3> HIDE DEF l
    <3> QED BY <1>2, <1>4, <2>1, <2>2, <2>3, <2>4, QuietEnd DEF At, Rejects
  <2>5. CASE Reserve(r, p.agent, p.amount)
    <3>1. /\ q \in Handlers /\ q.pc = "ended" /\ q.reply = "failed"
          /\ q.ok = p.ok /\ q.sent = p.sent /\ q.lost = p.lost \cup {"reserve"}
      <4> HIDE DEF l
      <4> QED BY <2>1, <2>3, EndedIs
    <3> HIDE DEF q, l
    <3>2. AnswerOK(r, q, reservations', ledger')
      BY <1>1, <1>2, <2>5, <3>1, ReserveIs
         DEF HandlerOK, AnswerOK, Early, Unanswered, Unsettled, At
    <3>3. HandlerOK(r, q, reservations', ledger', audit)
      BY <1>1, <1>2, <3>1, <3>2 DEF HandlerOK, Early, Holding, Trying, At
    <3> QED BY <1>2, <1>4, <2>2, <2>5, <3>1, <3>3, ReserveIs, BookSuffices DEF Rejects
  <2> QED BY <1>4, <2>4, <2>5 DEF Rejects
<1>5. CASE Reserve(r, p.agent, p.amount) /\ Goto(r, "record") /\ NoFault
  <2> DEFINE q == [req[r] EXCEPT !.pc = "record"]
  <2>1. "record" \in Places
    BY DEF Places
  <2>2. /\ q \in Handlers /\ q.pc = "record" /\ q.reply = p.reply /\ q.amount = p.amount
        /\ q.ok = p.ok /\ q.sent = p.sent /\ q.lost = p.lost
    BY <1>1, <2>1, GotoIs
  <2>3. req' = [req EXCEPT ![r] = q]
    BY <1>5 DEF Goto
  <2> HIDE DEF q
  <2>4. AnswerOK(r, q, reservations', ledger')
    BY <1>1, <1>2, <1>5, <2>2, ReserveIs
       DEF HandlerOK, AnswerOK, Early, Unanswered, Unsettled, At
  <2>5. HandlerOK(r, q, reservations', ledger', audit)
    BY <1>1, <1>2, <2>2, <2>4 DEF HandlerOK, Early, Holding, Trying, At
  <2> QED BY <1>2, <1>5, <2>2, <2>3, <2>5, ReserveIs, BookSuffices
<1> QED BY <1>3, <1>4, <1>5 DEF ReserveBudget, Rejects

\* A handler finds its own reservation, if any.
LEMMA FoundIs ==
  ASSUME IInv, NEW r \in Requests
  PROVE  Found(r) = {} \/ \E x \in reservations : x.id = r /\ Found(r) = {x}
BY DEF Found, IInv, Books

\* A release settles what is left of the handler's reservation.
LEMMA ReleaseIs ==
  ASSUME IInv, NEW r \in Requests, Release(r)
  PROVE  /\ Books(reservations, confirmed, ledger)' /\ Free(r, reservations')
         /\ OnlyOf(r, reservations, reservations') /\ OnlyOf(r, ledger, ledger')
         /\ ChargedIn(r, ledger') <=> ChargedIn(r, ledger)
<1>1. /\ reservations' = reservations \ Found(r) /\ UNCHANGED confirmed
      /\ ledger' = ledger \cup {Event("RESERVATION_RELEASED", x, x.amount) : x \in Found(r)}
      /\ Books(reservations, confirmed, ledger)
  BY DEF Release, IInv
<1>2. Free(r, reservations')
  BY <1>1 DEF Free, Found
<1>3. CASE Found(r) = {}
  <2>1. reservations' = reservations /\ ledger' = ledger
    BY <1>1, <1>3
  <2>2. Books(reservations, confirmed, ledger)'
    BY <1>1, <2>1 DEF Books, SettledIn, ChargesIn, Of
  <2> QED BY <1>2, <2>1, <2>2 DEF OnlyOf, ChargedIn
<1>4. ASSUME NEW x \in reservations, x.id = r, Found(r) = {x}
      PROVE  /\ Books(reservations, confirmed, ledger)'
             /\ OnlyOf(r, reservations, reservations') /\ OnlyOf(r, ledger, ledger')
             /\ ChargedIn(r, ledger') <=> ChargedIn(r, ledger)
  <2> DEFINE e == Event("RESERVATION_RELEASED", x, x.amount)
  <2>1. x \in Reservations /\ x.amount \in Nat
    BY <1>1, AmountsAreNatural DEF Books, Reservations
  <2>2. "RESERVATION_RELEASED" \in Settlement /\ "RESERVATION_RELEASED" \notin ChargeTypes
    BY DEF Settlement, ChargeTypes
  <2>3. e.id = r /\ e.type = "RESERVATION_RELEASED"
    BY <1>4, <2>1, <2>2, EventOf
  <2>4. reservations' = reservations \ {x} /\ ledger' = ledger \cup {e}
    BY <1>1, <1>4
  <2>5. Counted(confirmed, x, "RESERVATION_RELEASED", x.amount) = confirmed
    BY <2>2 DEF Counted
  <2>6. Books(reservations', confirmed, ledger')
    BY <1>1, <2>1, <2>2, <2>4, <2>5, SettleKeepsBooks
  <2> HIDE DEF e
  <2>7. Books(reservations, confirmed, ledger)'
    BY <1>1, <2>6 DEF Books, SettledIn, ChargesIn, Of
  <2>8. OnlyOf(r, reservations, reservations') /\ OnlyOf(r, ledger, ledger')
    BY <1>4, <2>3, <2>4 DEF OnlyOf
  <2>9. ChargedIn(r, ledger') <=> ChargedIn(r, ledger)
    BY <2>3, <2>4 DEF ChargedIn
  <2> QED BY <2>7, <2>8, <2>9
<1> QED BY <1>2, <1>3, <1>4, FoundIs

\* A confirmation charges the handler's reservation, which has to be there.
LEMMA ConfirmIs ==
  ASSUME IInv, NEW r \in Requests, NEW amount \in Nat, Confirm(r, amount)
  PROVE  /\ Books(reservations, confirmed, ledger)' /\ Free(r, reservations')
         /\ OnlyOf(r, reservations, reservations') /\ OnlyOf(r, ledger, ledger')
         /\ ChargedIn(r, ledger')
<1>1. PICK x \in Found(r) :
        /\ reservations' = reservations \ {x}
        /\ confirmed' = [confirmed EXCEPT ![x.agent][x.date] = @ + amount]
        /\ ledger' = ledger \cup {Event("SPEND_CONFIRMED", x, amount)}
  BY DEF Confirm
<1>2. x \in reservations /\ x.id = r /\ Books(reservations, confirmed, ledger)
  BY DEF Found, IInv
<1> DEFINE e == Event("SPEND_CONFIRMED", x, amount)
<1>3. x \in Reservations
  BY <1>2 DEF Books
<1>4. "SPEND_CONFIRMED" \in Settlement /\ "SPEND_CONFIRMED" \in ChargeTypes
  BY DEF Settlement, ChargeTypes
<1>5. e.id = r /\ e.type = "SPEND_CONFIRMED"
  BY <1>2, <1>3, <1>4, EventOf
<1>6. Counted(confirmed, x, "SPEND_CONFIRMED", amount) = confirmed'
  BY <1>1, <1>4 DEF Counted
<1>7. Books(reservations', confirmed', ledger')
  <2>1. Books(reservations \ {x}, Counted(confirmed, x, "SPEND_CONFIRMED", amount),
              ledger \cup {e})
    BY <1>2, <1>4, SettleKeepsBooks
  <2> QED BY <1>1, <1>6, <2>1
<1>8. ledger' = ledger \cup {e}
  BY <1>1
<1> HIDE DEF e
<1>9. Books(reservations, confirmed, ledger)'
  BY <1>7 DEF Books, SettledIn, ChargesIn, Of
<1>10. Free(r, reservations')
  BY <1>1, <1>2 DEF Free, Books
<1>11. OnlyOf(r, reservations, reservations') /\ OnlyOf(r, ledger, ledger')
  BY <1>1, <1>2, <1>5, <1>8 DEF OnlyOf
<1> QED BY <1>5, <1>8, <1>9, <1>10, <1>11 DEF ChargedIn

\* A handler that releases its reservation, and is told so or not.
LEMMA ReleaseSuffices ==
  ASSUME IInv, NEW r \in Requests, NEW q \in Handlers, req' = [req EXCEPT ![r] = q],
         Release(r), NoFault \/ Fault,
         req[r].pc \in {"undo", "catch", "settle"}, At(r, "settle") => ~req[r].ok,
         q.ok = req[r].ok /\ q.sent = req[r].sent /\ req[r].lost \subseteq q.lost,
         \/ q.pc = "ended" /\ q.reply \in {"failed", "open"}
         \/ /\ q.pc \in {"note", "catch", "catchNote"} /\ ~At(r, "undo")
            /\ q.reply = "none" /\ q.amount = req[r].amount
            /\ q.pc = "note" => ~q.ok
  PROVE  IInv'
<1>1. req[r] \in Handlers /\ HandlerOK(r, req[r], reservations, ledger, audit)
  BY Handler0
<1>2. AnswerOK(r, q, reservations', ledger')
  <2>1. \A e \in ledger : e \in ledger'
    BY DEF Release
  <2>2. RecoveredIn(r, ledger) => RecoveredIn(r, ledger')
    BY <2>1 DEF RecoveredIn
  <2>3. (\E u \in req[r].lost \cap {"confirm", "process"} : TRUE) =>
           q.lost \cap {"confirm", "process"} # {}
    OBVIOUS
  <2> QED BY <1>1, <2>2, <2>3, ReleaseIs DEF HandlerOK, AnswerOK, Early, Unanswered, Unsettled, At
<1>3. HandlerOK(r, q, reservations', ledger', audit)
  BY <1>1, <1>2, ReleaseIs DEF HandlerOK, Early, Holding, Trying, At
<1> QED BY <1>3, ReleaseIs, BookSuffices DEF Release

LEMMA UndoKeeps ==
  ASSUME IInv, NEW r \in Requests, Undo(r)
  PROVE  IInv'
<1> DEFINE l == Lost(req[r], "release")
<1>1. req[r] \in Handlers /\ At(r, "undo") /\ HandlerOK(r, req[r], reservations, ledger, audit)
  BY Handler0 DEF Undo
<1>2. /\ l \in Handlers /\ l.lost = req[r].lost \cup {"release"}
      /\ l.ok = req[r].ok /\ l.sent = req[r].sent
  BY <1>1, LostIs DEF Updates
<1>3. "failed" \in Replies
  BY DEF Replies
<1>4. PICK p \in {req[r], l} :
        /\ req' = [req EXCEPT ![r] = Ended(p, "failed")]
        /\ \/ Release(r) /\ (NoFault \/ Fault)
           \/ UNCHANGED <<books, audit>> /\ Fault /\ p = l
  BY DEF Undo, Rejects, End, EndLost
<1> HIDE DEF l
<1>5. p \in Handlers /\ p.ok = req[r].ok /\ p.sent = req[r].sent /\ req[r].lost \subseteq p.lost
  BY <1>1, <1>2
<1>6. CASE UNCHANGED <<books, audit>> /\ Fault /\ p = l
  BY <1>1, <1>2, <1>3, <1>4, <1>5, <1>6, QuietEnd DEF At
<1>7. CASE Release(r) /\ (NoFault \/ Fault)
  <2> DEFINE q == Ended(p, "failed")
  <2>1. /\ q \in Handlers /\ q.pc = "ended" /\ q.reply = "failed"
        /\ q.ok = req[r].ok /\ q.sent = req[r].sent /\ req[r].lost \subseteq q.lost
    BY <1>3, <1>5, EndedIs
  <2>2. req' = [req EXCEPT ![r] = q]
    BY <1>4
  <2> HIDE DEF q
  <2> QED BY <1>1, <1>7, <2>1, <2>2, ReleaseSuffices DEF At
<1> QED BY <1>4, <1>6, <1>7

LEMMA CatchKeeps ==
  ASSUME IInv, NEW r \in Requests, Catch(r)
  PROVE  IInv'
<1> DEFINE l == Lost(req[r], "release")
           reply == sendError(req[r], "failed")
<1>1. req[r] \in Handlers /\ At(r, "catch") /\ HandlerOK(r, req[r], reservations, ledger, audit)
  BY Handler0 DEF Catch
<1>2. /\ l \in Handlers /\ l.lost = req[r].lost \cup {"release"}
      /\ l.ok = req[r].ok /\ l.sent = req[r].sent
  BY <1>1, LostIs DEF Updates
<1>3. reply \in Replies /\ reply \in {"failed", "open"}
  BY <1>1, ErrorIs
<1> HIDE DEF l, reply
<1>4. CASE Release(r) /\ Goto(r, "catchNote") /\ NoFault
  <2> DEFINE q == [req[r] EXCEPT !.pc = "catchNote"]
  <2>1. "catchNote" \in Places
    BY DEF Places, Trying
  <2>2. /\ q \in Handlers /\ q.pc = "catchNote" /\ q.reply = req[r].reply /\ q.amount = req[r].amount
        /\ q.ok = req[r].ok /\ q.sent = req[r].sent /\ q.lost = req[r].lost
    BY <1>1, <2>1, GotoIs
  <2>3. req' = [req EXCEPT ![r] = q]
    BY <1>4 DEF Goto
  <2>4. req[r].reply = "none"
    BY <1>1 DEF HandlerOK, At
  <2> HIDE DEF q
  <2> QED BY <1>1, <1>4, <2>2, <2>3, <2>4, ReleaseSuffices DEF At
<1>5. CASE Rejects(Release(r)) /\ req' = [req EXCEPT ![r] = Ended(l, reply)]
  <2>1. CASE UNCHANGED <<books, audit>> /\ Fault
    BY <1>1, <1>2, <1>3, <1>5, <2>1, QuietEnd DEF At
  <2>2. CASE Release(r) /\ Fault
    <3> DEFINE q == Ended(l, reply)
    <3>1. /\ q \in Handlers /\ q.pc = "ended" /\ q.reply = reply
          /\ q.ok = req[r].ok /\ q.sent = req[r].sent /\ req[r].lost \subseteq q.lost
      BY <1>2, <1>3, EndedIs
    <3>2. req' = [req EXCEPT ![r] = q]
      BY <1>5
    <3> HIDE DEF q
    <3> QED BY <1>1, <1>3, <2>2, <3>1, <3>2, ReleaseSuffices DEF At
  <2> QED BY <1>5, <2>1, <2>2 DEF Rejects
<1> QED BY <1>4, <1>5 DEF Catch, EndLost, l, reply

\* What is charged is a natural number.
LEMMA ChargeType ==
  ASSUME IInv, NEW r \in Requests, Settle(r)
  PROVE  Charge(r) \in Nat
<1>1. req[r] \in Handlers /\ HandlerOK(r, req[r], reservations, ledger, audit)
  BY Handler0
<1>2. req[r].amount \in Nat
  BY <1>1, AmountsAreNatural DEF Settle, HandlerOK, Holding, Trying, At
<1>3. req[r].cost \in ReportedCosts \cup {NoCost}
  BY <1>1 DEF Handlers
<1> QED BY <1>2, <1>3, LocalAssumption DEF Charge

\* A handler that confirms its reservation, and is told so or not.
LEMMA ConfirmSuffices ==
  ASSUME IInv, NEW r \in Requests, NEW q \in Handlers, req' = [req EXCEPT ![r] = q],
         Settle(r), Confirm(r, Charge(r)), NoFault \/ Fault,
         q.ok = req[r].ok /\ q.sent = req[r].sent /\ req[r].lost \subseteq q.lost,
         \/ q.pc = "ended" /\ q.reply = "upstream"
         \/ /\ q.pc \in {"note", "catch"} /\ q.reply = "none" /\ q.amount = req[r].amount
            /\ q.pc = "note" => ~q.ok
            /\ q.pc = "catch" => "confirm" \in q.lost
  PROVE  IInv'
<1>1. req[r] \in Handlers /\ At(r, "settle") /\ HandlerOK(r, req[r], reservations, ledger, audit)
  BY Handler0 DEF Settle
<1>2. /\ Books(reservations, confirmed, ledger)' /\ Free(r, reservations')
      /\ OnlyOf(r, reservations, reservations') /\ OnlyOf(r, ledger, ledger')
      /\ ChargedIn(r, ledger')
  BY ChargeType, ConfirmIs
<1>3. AnswerOK(r, q, reservations', ledger')
  BY <1>1, <1>2 DEF HandlerOK, AnswerOK, Early, Unanswered, Unsettled, At
<1>4. HandlerOK(r, q, reservations', ledger', audit)
  BY <1>1, <1>2, <1>3 DEF HandlerOK, Early, Holding, Trying, At
<1> QED BY <1>2, <1>4, BookSuffices DEF Confirm

LEMMA SettleKeeps ==
  ASSUME IInv, NEW r \in Requests, Settle(r)
  PROVE  IInv'
<1> DEFINE l == Lost(req[r], "confirm")
           confirms == req[r].cost # NoCost \/ req[r].ok
<1>1. req[r] \in Handlers /\ At(r, "settle") /\ HandlerOK(r, req[r], reservations, ledger, audit)
  BY Handler0 DEF Settle
<1>2. /\ l \in Handlers /\ l.lost = req[r].lost \cup {"confirm"} /\ l.reply = req[r].reply
      /\ l.ok = req[r].ok /\ l.sent = req[r].sent /\ l.amount = req[r].amount
  BY <1>1, LostIs DEF Updates
<1>3. req[r].reply = "none"
  BY <1>1 DEF HandlerOK, At
<1>4. ASSUME NEW place \in {"note", "catch"}, NEW p \in {req[r], l}
      PROVE  LET q == [p EXCEPT !.pc = place]
             IN /\ q \in Handlers /\ q.pc = place /\ q.reply = "none" /\ q.ok = req[r].ok
                /\ q.sent = req[r].sent /\ req[r].lost \subseteq q.lost /\ q.lost = p.lost
                /\ q.amount = req[r].amount
  <2>1. place \in Places /\ p \in Handlers
    BY <1>1, <1>2 DEF Places, Trying
  <2>2. /\ p.reply = "none" /\ p.ok = req[r].ok /\ p.sent = req[r].sent
        /\ req[r].lost \subseteq p.lost /\ p.amount = req[r].amount
    BY <1>2, <1>3
  <2> HIDE DEF l
  <2> QED BY <2>1, <2>2, GotoIs
<1>5. CASE Confirm(r, Charge(r)) /\ NoFault /\ req[r].ok /\ End(r, "upstream")
  <2> DEFINE q == Ended(req[r], "upstream")
  <2>1. /\ q \in Handlers /\ q.pc = "ended" /\ q.reply = "upstream"
        /\ q.ok = req[r].ok /\ q.sent = req[r].sent /\ req[r].lost \subseteq q.lost
    BY <1>1, EndedIs DEF Replies
  <2>2. req' = [req EXCEPT ![r] = q]
    BY <1>5 DEF End
  <2> HIDE DEF q
  <2> QED BY <1>5, <2>1, <2>2, ConfirmSuffices
<1>6. CASE Confirm(r, Charge(r)) /\ NoFault /\ ~req[r].ok /\ Goto(r, "note")
  <2> DEFINE q == [req[r] EXCEPT !.pc = "note"]
  <2>1. /\ q \in Handlers /\ q.pc = "note" /\ q.reply = "none" /\ q.ok = req[r].ok
        /\ q.sent = req[r].sent /\ req[r].lost \subseteq q.lost /\ q.amount = req[r].amount
    BY <1>4
  <2>2. req' = [req EXCEPT ![r] = q]
    BY <1>6 DEF Goto
  <2> HIDE DEF q
  <2> QED BY <1>6, <2>1, <2>2, ConfirmSuffices
<1>7. CASE Found(r) = {} /\ Goto(r, "catch") /\ NoBooks
  <2>1. Free(r, reservations)
    BY <1>7 DEF Found, Free
  <2> QED BY <1>1, <1>7, <2>1, QuietGoto DEF Goto, NoBooks
<1>8. CASE Rejects(Confirm(r, Charge(r))) /\ GotoLost(r, "catch", "confirm")
  <2> DEFINE q == [l EXCEPT !.pc = "catch"]
  <2>1. /\ q \in Handlers /\ q.pc = "catch" /\ q.reply = "none" /\ q.ok = req[r].ok
        /\ q.sent = req[r].sent /\ req[r].lost \subseteq q.lost /\ q.amount = req[r].amount
        /\ "confirm" \in q.lost
    BY <1>2, <1>4
  <2>2. req' = [req EXCEPT ![r] = q]
    BY <1>8 DEF GotoLost
  <2>3. CASE UNCHANGED <<books, audit>> /\ Fault
    <3>1. "confirm" \in l.lost
      BY <1>2
    <3>2. l = Lost(req[r], "confirm")
      OBVIOUS
    <3> HIDE DEF l
    <3> QED BY <1>1, <1>2, <2>2, <2>3, <3>1, <3>2, QuietGoto
  <2>4. CASE Confirm(r, Charge(r)) /\ Fault
    <3> HIDE DEF q
    <3> QED BY <2>1, <2>2, <2>4, ConfirmSuffices
  <2> QED BY <1>8, <2>3, <2>4 DEF Rejects
<1>9. ASSUME ~confirms, NEW place \in {"note", "catch"}, Release(r), NoFault \/ Fault,
             Goto(r, place)
      PROVE  IInv'
  <2> DEFINE q == [req[r] EXCEPT !.pc = place]
  <2>1. /\ q \in Handlers /\ q.pc = place /\ q.reply = "none" /\ q.ok = req[r].ok
        /\ q.sent = req[r].sent /\ req[r].lost \subseteq q.lost /\ q.amount = req[r].amount
    BY <1>4
  <2>2. req' = [req EXCEPT ![r] = q]
    BY <1>9 DEF Goto
  <2> HIDE DEF q
  <2> QED BY <1>1, <1>9, <2>1, <2>2, ReleaseSuffices DEF At
<1>10. CASE ~confirms /\ Fault /\ UNCHANGED <<books, audit>> /\ Goto(r, "catch")
  BY <1>1, <1>10, QuietGoto DEF Goto
<1> QED BY <1>5, <1>6, <1>7, <1>8, <1>9, <1>10 DEF Settle, Rejects

LEMMA HandlerKeeps ==
  ASSUME IInv, NEW r \in Requests, Handler(r)
  PROVE  IInv'
BY AuthenticateKeeps, LoadKeyKeeps, AuthorizeKeeps, RecordBlockedKeeps, ReserveBudgetKeeps,
   RecordAllowedKeeps, UndoKeeps, SettleKeeps, NoteKeeps, CatchKeeps, CatchNoteKeeps
   DEF Handler

LEMMA OutsideKeeps ==
  ASSUME IInv, NEW r \in Requests, Outside(r)
  PROVE  IInv'
BY ArriveKeeps, AnswerKeeps, WaitKeeps, AbortKeeps DEF Outside
-----------------------------------------------------------------------------
StaleTypes == {"STALE_RESERVATION_CONFIRMED", "STALE_RESERVATION_RELEASED"}

\* A recovery takes reservations away and puts an event of each into the ledger.
LEMMA RecoveryIs ==
  ASSUME IInv, NEW policy \in Policies, recoverStaleReservations(policy)
  PROVE  /\ Books(reservations, confirmed, ledger)'
         /\ reservations' \subseteq reservations /\ ledger \subseteq ledger'
         /\ \A e \in ledger' : e \in ledger \/
              (e.type \in StaleTypes /\ \E x \in reservations : x.id = e.id)
         /\ \A x \in reservations \ reservations' :
              \E e \in ledger' : e.id = x.id /\ e.type \in StaleTypes
<1> DEFINE S == {x \in reservations : now - x.createdAt >= Ttl}
           type == IF policy = "confirm" THEN "STALE_RESERVATION_CONFIRMED"
                                         ELSE "STALE_RESERVATION_RELEASED"
<1>1. Books(reservations, confirmed, ledger) /\ S \in SUBSET reservations
  BY DEF IInv
<1>2. type \in Settlement /\ type \in StaleTypes /\ (type \in ChargeTypes <=> policy # "release")
  BY DEF Settlement, ChargeTypes, Policies, StaleTypes
<1>3. /\ reservations' = reservations \ S /\ ledger' = ledger \cup Recoveries(S, type)
      /\ confirmed' = CountedAll(confirmed, S, type)
  BY <1>2 DEF recoverStaleReservations, Recoveries, CountedAll
<1> HIDE DEF type, S
<1>4. Books(reservations \ S, CountedAll(confirmed, S, type), ledger \cup Recoveries(S, type))
  BY <1>1, <1>2, RecoverKeepsBooks
<1>5. Books(reservations', confirmed', ledger')
  BY <1>3, <1>4
<1>6. Books(reservations, confirmed, ledger)'
  BY <1>5 DEF Books, SettledIn, ChargesIn, Of
<1>7. ASSUME NEW e \in Recoveries(S, type)
      PROVE  e.type \in StaleTypes /\ \E x \in reservations : x.id = e.id
  <2>1. PICK x \in S : e = Event(type, x, x.amount)
    BY DEF Recoveries
  <2> QED BY <1>1, <1>2, <2>1 DEF Event
<1>8. ASSUME NEW x \in S
      PROVE  \E e \in Recoveries(S, type) : e.id = x.id /\ e.type \in StaleTypes
  <2>1. Event(type, x, x.amount) \in Recoveries(S, type)
    BY DEF Recoveries
  <2> QED BY <1>2, <2>1 DEF Event
<1>9. \A x \in reservations \ reservations' :
        \E e \in ledger' : e.id = x.id /\ e.type \in StaleTypes
  BY <1>1, <1>3, <1>8
<1> QED BY <1>3, <1>6, <1>7, <1>9

\* No handler is wronged by it: a handler that relies on holding nothing still does,
\* and one that has lost its reservation to it finds that in the ledger.
LEMMA RecoveryKeeps ==
  ASSUME IInv, NEW policy \in Policies, recoverStaleReservations(policy),
         UNCHANGED <<control, audit, now, faults, req>>, running' \in BOOLEAN
  PROVE  IInv'
<1>1. /\ Books(reservations, confirmed, ledger)'
      /\ reservations' \subseteq reservations /\ ledger \subseteq ledger'
      /\ \A e \in ledger' : e \in ledger \/
           (e.type \in StaleTypes /\ \E x \in reservations : x.id = e.id)
      /\ \A x \in reservations \ reservations' :
           \E e \in ledger' : e.id = x.id /\ e.type \in StaleTypes
  BY RecoveryIs
<1>2. TypeOK'
  BY <1>1 DEF IInv, TypeOK, Books, control
<1>3. ASSUME NEW r \in Requests
      PROVE  HandlerOK(r, req[r], reservations, ledger, audit)'
  <2>1. HandlerOK(r, req[r], reservations, ledger, audit)
    BY Handler0
  <2>2. Free(r, reservations) => Free(r, reservations')
    BY <1>1 DEF Free
  <2>3. Free(r, reservations) /\ Unseen(r, ledger) => Unseen(r, ledger')
    BY <1>1 DEF Free, Unseen
  <2>4. ChargedIn(r, ledger) <=> ChargedIn(r, ledger')
    BY <1>1 DEF ChargedIn, StaleTypes
  <2>5. ~Free(r, reservations) => ~Free(r, reservations') \/ RecoveredIn(r, ledger')
    BY <1>1 DEF Free, RecoveredIn, StaleTypes
  <2>6. RecoveredIn(r, ledger) => RecoveredIn(r, ledger')
    BY <1>1 DEF RecoveredIn
  <2>7. Opened' = Opened
    BY DEF control, Opened
  <2>8. AnswerOK(r, req[r], reservations, ledger)'
    BY <2>1, <2>4, <2>5, <2>6 DEF HandlerOK, AnswerOK
  <2> QED BY <2>1, <2>2, <2>3, <2>4, <2>7, <2>8 DEF HandlerOK
<1> QED BY <1>1, <1>2, <1>3 DEF IInv, Handled

LEMMA CrashKeeps ==
  ASSUME IInv, Crash
  PROVE  IInv'
<1>1. /\ faults' = faults + 1 /\ faults < MaxFaults /\ running' = FALSE
      /\ UNCHANGED <<control, books, audit, now>>
      /\ req' = [r \in Requests |-> IF req[r].pc \in {"idle", "ended"} THEN req[r]
                                    ELSE Ended(Lost(req[r], "process"), "none")]
  BY DEF Crash
<1>2. faults' \in 0..MaxFaults
  BY <1>1, LocalAssumption DEF IInv, TypeOK
<1>3. ASSUME NEW r \in Requests
      PROVE  /\ req'[r] \in Handlers
             /\ HandlerOK(r, req'[r], reservations, ledger, audit)
  <2>1. req[r] \in Handlers /\ HandlerOK(r, req[r], reservations, ledger, audit)
    BY Handler0
  <2>2. CASE req[r].pc \in {"idle", "ended"}
    <3>1. req'[r] = req[r]
      BY <1>1, <2>2
    <3> QED BY <2>1, <3>1
  <2>3. CASE req[r].pc \notin {"idle", "ended"}
    <3> DEFINE l == Lost(req[r], "process")
               q == Ended(l, "none")
    <3>1. req'[r] = q
      BY <1>1, <2>3
    <3>2. l \in Handlers /\ l.lost = req[r].lost \cup {"process"} /\ l.ok = req[r].ok
          /\ l.sent = req[r].sent
      BY <2>1, LostIs DEF Updates
    <3>3. q \in Handlers /\ q.pc = "ended" /\ q.reply = "none" /\ q.ok = req[r].ok
          /\ q.sent = req[r].sent /\ q.lost = req[r].lost \cup {"process"}
      <4> HIDE DEF l
      <4> QED BY <3>2, EndedIs DEF Replies
    <3> HIDE DEF q, l
    <3>4. req[r].reply # "upstream"
      BY <2>1, <2>3 DEF HandlerOK
    <3>5. AnswerOK(r, q, reservations, ledger)
      BY <2>1, <3>3, <3>4 DEF HandlerOK, AnswerOK, Early, Unanswered, Unsettled
    <3>6. HandlerOK(r, q, reservations, ledger, audit)
      BY <2>1, <3>3, <3>5 DEF HandlerOK, Early, Holding, Trying
    <3> QED BY <3>1, <3>3, <3>6
  <2> QED BY <2>2, <2>3
<1>4. req' \in [Requests -> Handlers]
  BY <1>1, <1>3
<1>5. TypeOK'
  BY <1>1, <1>2, <1>4 DEF IInv, TypeOK, control, books
<1>6. Books(reservations, confirmed, ledger)'
  BY <1>1 DEF IInv, books, Books, SettledIn, ChargesIn, Of
<1>7. Handled'
  <2>1. Opened' = Opened
    BY <1>1 DEF control, Opened
  <2> QED BY <1>1, <1>3, <2>1 DEF Handled, HandlerOK, AnswerOK, books
<1> QED BY <1>5, <1>6, <1>7 DEF IInv

\* A step that concerns no handler and no book.
LEMMA AsideSuffices ==
  ASSUME IInv, TypeOK', UNCHANGED <<books, audit, faults, req>>, Opened \subseteq Opened'
  PROVE  IInv'
<1>1. Books(reservations, confirmed, ledger)'
  BY DEF IInv, books, Books, SettledIn, ChargesIn, Of
<1>2. ASSUME NEW r \in Requests
      PROVE  HandlerOK(r, req[r], reservations, ledger, audit)'
  BY Handler0 DEF books, HandlerOK, AnswerOK
<1> QED BY <1>1, <1>2 DEF IInv, Handled

\* The operator changes what the control service keeps, and nothing else.
LEMMA OperatorIs ==
  ASSUME IInv, Operator
  PROVE  /\ Change /\ OnlyControl /\ issued' \subseteq Tokens
         /\ \E a \in AgentIds : \E agent \in Agents : agents' = [agents EXCEPT ![a] = agent]
<1>1. PICK a \in AgentIds :
        \/ \E t \in Tokens : rotateToken(a, t)
        \/ \E status \in Statuses : setStatus(a, status)
        \/ \E models \in SUBSET Models, budget \in DailyBudgets,
              limit \in MaxRequests \cup {NoLimit} :
             \/ \E t \in Tokens : addAgent(a, t, models, budget, limit)
             \/ updatePolicy(a, models, budget, limit)
  BY DEF Operator
<1>2. Change /\ OnlyControl
  BY <1>1 DEF rotateToken, setStatus, addAgent, updatePolicy
<1>3. agents[a] # NoAgent => agents[a] \in Agents
  BY DEF IInv, TypeOK
<1> DEFINE Edited == /\ issued' \subseteq Tokens
                     /\ \E agent \in Agents : agents' = [agents EXCEPT ![a] = agent]
<1>4. Edited
  <2>1. ASSUME NEW t \in Tokens, rotateToken(a, t)
        PROVE  Edited
    <3> DEFINE agent == [agents[a] EXCEPT !.token = t]
    <3>1. agent \in Agents
      BY <1>3, <2>1 DEF rotateToken, Agents
    <3> QED BY <2>1, <3>1 DEF rotateToken, IInv, TypeOK
  <2>2. ASSUME NEW status \in Statuses, setStatus(a, status)
        PROVE  Edited
    <3> DEFINE agent == [agents[a] EXCEPT !.status = status]
    <3>1. agent \in Agents
      BY <1>3, <2>2 DEF setStatus, Agents
    <3> QED BY <2>2, <3>1 DEF setStatus, IInv, TypeOK
  <2>3. ASSUME NEW models \in SUBSET Models, NEW budget \in DailyBudgets,
               NEW limit \in MaxRequests \cup {NoLimit}, NEW t \in Tokens,
               addAgent(a, t, models, budget, limit)
        PROVE  Edited
    <3> DEFINE agent == [status |-> "active", token |-> t, allowedModels |-> models,
                         dailyBudget |-> budget, maxRequest |-> limit]
    <3>1. agent \in Agents
      BY DEF Agents, Statuses
    <3> QED BY <2>3, <3>1 DEF addAgent, IInv, TypeOK
  <2>4. ASSUME NEW models \in SUBSET Models, NEW budget \in DailyBudgets,
               NEW limit \in MaxRequests \cup {NoLimit},
               updatePolicy(a, models, budget, limit)
        PROVE  Edited
    <3> DEFINE agent == [agents[a] EXCEPT !.allowedModels = models, !.dailyBudget = budget,
                                          !.maxRequest = limit]
    <3>1. agent \in Agents
      BY <1>3, <2>4 DEF updatePolicy, Agents
    <3>2. agents' = [agents EXCEPT ![a] = agent]
      BY <2>4 DEF updatePolicy
    <3> QED BY <2>4, <3>1, <3>2 DEF updatePolicy, IInv, TypeOK
  <2> QED BY <1>1, <2>1, <2>2, <2>3, <2>4
<1> QED BY <1>2, <1>4

LEMMA OperatorKeeps ==
  ASSUME IInv, Operator
  PROVE  IInv'
<1>1. PICK a \in AgentIds, agent \in Agents :
        /\ Change /\ OnlyControl /\ issued' \subseteq Tokens
        /\ agents' = [agents EXCEPT ![a] = agent]
  BY OperatorIs
<1>2. changes' \in 0..MaxChanges
  BY <1>1, LocalAssumption DEF Change, IInv, TypeOK
<1>3. TypeOK'
  BY <1>1, <1>2 DEF OnlyControl, IInv, TypeOK, books, world
<1>4. Opened \subseteq Opened'
  BY <1>1, NoAgentAssumption DEF Opened, IInv, TypeOK
<1> QED BY <1>1, <1>3, <1>4, AsideSuffices DEF OnlyControl

LEMMA InitIsCorrect ==
  ASSUME Init
  PROVE  IInv
<1>1. NoRequest \in Handlers
  BY DEF NoRequest, Handlers, Places
<1>2. TypeOK
  BY <1>1, LocalAssumption DEF Init, TypeOK, Clock
<1>3. Books(reservations, confirmed, ledger)
  <2>1. SettledIn({}) = {} /\ ChargesIn({}) = {} /\ \A a, d : Of({}, a, d) = {}
    BY DEF SettledIn, ChargesIn, Of
  <2> QED BY <2>1, TotalEmpty DEF Init, Books
<1>4. ASSUME NEW r \in Requests
      PROVE  HandlerOK(r, req[r], reservations, ledger, audit)
  BY DEF Init, NoRequest, HandlerOK, AnswerOK, ChargedIn, RecoveredIn, Unanswered, Unsettled,
         Free, Unseen, Told, Early, Holding, Trying
<1> QED BY <1>2, <1>3, <1>4 DEF IInv, Handled

LEMMA StepKeepsIt ==
  ASSUME IInv, [Next]_vars
  PROVE  IInv'
<1>1. CASE UNCHANGED vars
  <2>1. TypeOK'
    BY <1>1 DEF IInv, TypeOK, vars, control, books, world
  <2> QED BY <1>1, <2>1, AsideSuffices DEF vars, control, Opened
<1>2. CASE CliRecover
  <2>1. running' \in BOOLEAN
    BY <1>2 DEF CliRecover, world, IInv, TypeOK
  <2> QED BY <1>2, <2>1, RecoveryKeeps DEF CliRecover, world
<1>3. CASE startProxyServer
  BY <1>3, LocalAssumption, RecoveryKeeps DEF startProxyServer
<1>4. CASE Tick
  <2>1. now' \in Clock
    BY <1>4, LocalAssumption DEF Tick, Clock, IInv, TypeOK
  <2>2. TypeOK'
    BY <1>4, <2>1 DEF Tick, IInv, TypeOK, control, books
  <2> QED BY <1>4, <2>2, AsideSuffices DEF Tick, control, Opened
<1> QED BY <1>1, <1>2, <1>3, <1>4, OperatorKeeps, CrashKeeps, HandlerKeeps, OutsideKeeps
        DEF Next

LEMMA AlwaysCorrect == Spec => []IInv
<1>1. Init => IInv
  BY InitIsCorrect
<1>2. IInv /\ [Next]_vars => IInv'
  BY StepKeepsIt
<1> QED BY <1>1, <1>2, PTL DEF Spec
-----------------------------------------------------------------------------
\* Every variable of the runtime keeps its type: the handlers, the books and the agents
\* that the control service edits.
THEOREM TypeCorrect == Spec => []TypeOK
<1>1. IInv => TypeOK
  BY DEF IInv
<1> QED BY <1>1, AlwaysCorrect, PTL

\* The counter of every budget day is the sum of the charges in the ledger, however the
\* handlers, the CLI and a restarted proxy interleave their updates (BudgetService).
THEOREM CountersMatchLedger == Spec => []ConfirmedMatchesLedger
<1>1. IInv => ConfirmedMatchesLedger
  BY DEF IInv, Books, ConfirmedMatchesLedger, Charges, ChargesIn, ChargeTypes
<1> QED BY <1>1, AlwaysCorrect, PTL

\* Whatever has failed, a client that was denied holds nothing, a good answer that was
\* ended is charged, one that got a 504 holds nothing and is on record; a client that has
\* all of a stream is not charged only after a recovery, a confirm that rejected or a
\* crash, and one left without an end is charged for a good answer only after a confirm
\* that rejected (handleRequest, streamUpstreamResponse, sendError).
THEOREM RepliesAreTrue == Spec => []RepliesTellTheBooks
<1>1. ASSUME IInv, NEW r \in Requests
      PROVE  RepliesTellTheBooks!(r)
  <2>1. HandlerOK(r, req[r], reservations, ledger, audit)
    BY <1>1, Handler0
  <2>2. Free(r, reservations) => ~Outstanding(r)
    BY DEF Free, Outstanding, Found
  <2>3. /\ ChargedIn(r, ledger) <=> Charged(r)
        /\ RecoveredIn(r, ledger) <=> Recovered(r)
    BY DEF ChargedIn, RecoveredIn, Charged, Recovered
  <2>4. req[r].pc = "ended" => req[r].pc \notin Unsettled
    BY DEF Unsettled, Unanswered, Early
  <2> QED BY <2>1, <2>2, <2>3, <2>4 DEF HandlerOK, AnswerOK, Unseen, Told, Recorded
<1>2. IInv => RepliesTellTheBooks
  BY <1>1 DEF RepliesTellTheBooks
<1> QED BY <1>2, AlwaysCorrect, PTL

\* No path through the handler, the authorizer and their error branches leaves a
\* reservation behind: one whose handler is gone was left by a crash, or by a release or
\* a reservation of its own that rejected.
THEOREM OrphansAreFaults == Spec => []OrphansComeFromFaults
<1>1. ASSUME IInv, NEW x \in reservations
      PROVE  OrphansComeFromFaults!(x)
  <2>1. x.id \in Requests
    BY <1>1 DEF IInv, Books, Reservations
  <2>2. HandlerOK(x.id, req[x.id], reservations, ledger, audit)
    BY <1>1, <2>1, Handler0
  <2> QED BY <2>2 DEF HandlerOK, Free, Holding
<1>2. IInv => OrphansComeFromFaults
  BY <1>1 DEF OrphansComeFromFaults
<1> QED BY <1>2, AlwaysCorrect, PTL

\* The provider is only contacted for a request that is recorded as allowed, and none is
\* recorded as both allowed and blocked (handleRequest, BudgetAuthorizer).
THEOREM AllowedBeforeForwarded == Spec => []ForwardedIsRecorded
<1>1. IInv => ForwardedIsRecorded
  BY Handler0 DEF ForwardedIsRecorded, HandlerOK, Told, Recorded
<1> QED BY <1>1, AlwaysCorrect, PTL
-----------------------------------------------------------------------------
\* e settles reservation x.
EndsIt(e, x) ==
  /\ e.type \in Settlement /\ e.id = x.id /\ e.agent = x.agent /\ e.date = x.date
  /\ e.reserved = x.amount
  /\ e.type = "STALE_RESERVATION_CONFIRMED" => e.amount = x.amount

\* Reservations end, each in an event of its own.
EndStep == \E S \in SUBSET reservations, E \in SUBSET Events :
  /\ reservations' = reservations \ S /\ ledger' = ledger \cup E
  /\ \A e \in E : \E x \in S : EndsIt(e, x)
  /\ \A x \in S : \E e \in E : EndsIt(e, x)
  /\ \A e, f \in E : e.id = f.id => e = f

\* A reservation begins.
BeginStep == \E r \in Requests : LET q == req[r] IN
  At(r, "reserve") /\ Fits(q.agent, q.amount, q.limit) /\ Reserve(r, q.agent, q.amount)

LEMMA EndEvent ==
  ASSUME NEW x \in Reservations, NEW type \in Settlement, NEW amount \in Nat,
         type = "STALE_RESERVATION_CONFIRMED" => amount = x.amount
  PROVE  LET e == Event(type, x, amount) IN e \in Events /\ EndsIt(e, x)
BY EventOf DEF EndsIt

LEMMA EndSet ==
  ASSUME IInv, NEW S \in SUBSET reservations, NEW type \in Settlement,
         reservations' = reservations \ S, ledger' = ledger \cup Recoveries(S, type)
  PROVE  EndStep
<1> DEFINE E == Recoveries(S, type)
<1>1. S \subseteq Reservations /\ \A x, y \in S : x.id = y.id => x = y
  BY DEF IInv, Books
<1>2. ASSUME NEW x \in S
      PROVE  LET e == Event(type, x, x.amount) IN e \in Events /\ EndsIt(e, x)
  <2>1. x \in Reservations /\ x.amount \in Nat
    BY <1>1, AmountsAreNatural DEF Reservations
  <2> QED BY <2>1, EndEvent
<1>3. \A e \in E : e \in Events /\ \E x \in S : EndsIt(e, x) /\ e = Event(type, x, x.amount)
  BY <1>2 DEF Recoveries
<1>4. \A x \in S : \E e \in E : EndsIt(e, x)
  BY <1>2 DEF Recoveries
<1>5. \A e, f \in E : e.id = f.id => e = f
  BY <1>1, <1>3 DEF EndsIt
<1> HIDE DEF E
<1>6. E \in SUBSET Events /\ ledger' = ledger \cup E
  BY <1>3 DEF E
<1> QED BY <1>3, <1>4, <1>5, <1>6 DEF EndStep

LEMMA ReleaseEnds ==
  ASSUME IInv, NEW r \in Requests, Release(r)
  PROVE  EndStep
<1>1. Found(r) \in SUBSET reservations /\ "RESERVATION_RELEASED" \in Settlement
  BY DEF Found, Settlement
<1>2. /\ reservations' = reservations \ Found(r)
      /\ ledger' = ledger \cup Recoveries(Found(r), "RESERVATION_RELEASED")
  BY DEF Release, Recoveries
<1> QED BY <1>1, <1>2, EndSet

LEMMA RecoveryEnds ==
  ASSUME IInv, NEW policy \in Policies, recoverStaleReservations(policy)
  PROVE  EndStep
<1> DEFINE S == {x \in reservations : now - x.createdAt >= Ttl}
           type == IF policy = "confirm" THEN "STALE_RESERVATION_CONFIRMED"
                                         ELSE "STALE_RESERVATION_RELEASED"
<1>1. S \in SUBSET reservations /\ type \in Settlement
  BY DEF Settlement
<1>2. reservations' = reservations \ S /\ ledger' = ledger \cup Recoveries(S, type)
  BY DEF recoverStaleReservations, Recoveries
<1> HIDE DEF S, type
<1> QED BY <1>1, <1>2, EndSet

LEMMA ConfirmEnds ==
  ASSUME IInv, NEW r \in Requests, NEW amount \in Nat, Confirm(r, amount)
  PROVE  EndStep
<1>1. PICK x \in Found(r) :
        /\ reservations' = reservations \ {x}
        /\ ledger' = ledger \cup {Event("SPEND_CONFIRMED", x, amount)}
  BY DEF Confirm
<1> DEFINE e == Event("SPEND_CONFIRMED", x, amount)
<1>2. x \in reservations /\ x \in Reservations
  BY DEF Found, IInv, Books
<1>3. "SPEND_CONFIRMED" \in Settlement
  BY DEF Settlement
<1>4. e \in Events /\ EndsIt(e, x)
  BY <1>2, <1>3, EndEvent
<1>5. ledger' = ledger \cup {e}
  BY <1>1
<1> HIDE DEF e
<1>6. {x} \in SUBSET reservations /\ {e} \in SUBSET Events
  BY <1>2, <1>4
<1>7. /\ \A f \in {e} : \E y \in {x} : EndsIt(f, y)
      /\ \A y \in {x} : \E f \in {e} : EndsIt(f, y)
      /\ \A f, g \in {e} : f.id = g.id => f = g
  BY <1>4
<1> QED BY <1>1, <1>5, <1>6, <1>7 DEF EndStep

\* What a step does to the books, and who changes the agents.
LEMMA StepsOfTheBooks ==
  ASSUME IInv, [Next]_vars
  PROVE  \/ Operator
         \/ /\ UNCHANGED agents
            /\ UNCHANGED <<reservations, ledger>> \/ EndStep \/ BeginStep
<1>1. ASSUME NEW r \in Requests, Handler(r)
      PROVE  /\ UNCHANGED agents
             /\ UNCHANGED <<reservations, ledger>> \/ EndStep \/ BeginStep
  <2> USE DEF NoBooks, NoFault, Rejects, Fault, Record, books, control
  <2>1. CASE Authenticate(r) \/ LoadKey(r) \/ Authorize(r)
    BY <2>1 DEF Authenticate, LoadKey, Authorize
  <2>2. CASE RecordBlocked(r) \/ RecordAllowed(r) \/ NoteUpstreamError(r) \/ CatchNote(r)
    BY <2>2 DEF RecordBlocked, RecordAllowed, NoteUpstreamError, CatchNote
  <2>3. CASE ReserveBudget(r)
    BY <2>3 DEF ReserveBudget, BeginStep
  <2>4. CASE Undo(r) \/ Catch(r)
    BY <2>4, ReleaseEnds DEF Undo, Catch
  <2>5. CASE Settle(r)
    <3>1. Charge(r) \in Nat
      BY <2>5, ChargeType
    <3> QED BY <2>5, <3>1, ReleaseEnds, ConfirmEnds DEF Settle
  <2> QED BY <1>1, <2>1, <2>2, <2>3, <2>4, <2>5 DEF Handler
<1>2. ASSUME NEW r \in Requests, Outside(r)
      PROVE  UNCHANGED <<agents, reservations, ledger>>
  BY <1>2 DEF Outside, Arrive, UpstreamReplies, StreamEnds, Chunk, Backpressure, Drained,
              UpstreamFails, Timeout, ClientCloses, NoBooks, NoFault, books, control
<1>3. CASE CliRecover
  BY <1>3, RecoveryEnds DEF CliRecover, control
<1>4. CASE startProxyServer
  BY <1>4, RecoveryEnds, LocalAssumption DEF startProxyServer, control
<1>5. CASE Crash \/ Tick \/ UNCHANGED vars
  BY <1>5 DEF Crash, Tick, vars, control, books
<1> QED BY <1>1, <1>2, <1>3, <1>4, <1>5 DEF Next

\* Books name agents there are.
KnownAgents == \A x \in reservations \cup SettledIn(ledger) : x.agent \in Opened

LEMMA KnownAgentsStep ==
  ASSUME IInv, KnownAgents, [Next]_vars
  PROVE  KnownAgents'
<1>1. CASE Operator
  <2>1. UNCHANGED <<reservations, ledger>>
    BY <1>1, OperatorIs DEF OnlyControl, books
  <2>2. Opened \subseteq Opened'
    BY <1>1, OperatorIs, NoAgentAssumption DEF Opened, IInv, TypeOK
  <2> QED BY <2>1, <2>2 DEF KnownAgents, SettledIn
<1>2. CASE UNCHANGED agents /\ UNCHANGED <<reservations, ledger>>
  BY <1>2 DEF KnownAgents, SettledIn, Opened
<1>3. CASE UNCHANGED agents /\ EndStep
  BY <1>3 DEF EndStep, EndsIt, KnownAgents, SettledIn, Opened
<1>4. CASE UNCHANGED agents /\ BeginStep
  <2>1. PICK r \in Requests : At(r, "reserve") /\ Reserve(r, req[r].agent, req[r].amount)
    BY <1>4 DEF BeginStep
  <2>2. req[r].agent \in Opened
    BY <2>1, Handler0 DEF HandlerOK, At
  <2> QED BY <1>4, <2>1, <2>2
          DEF Reserve, Event, KnownAgents, SettledIn, Settlement, Opened
<1> QED BY <1>1, <1>2, <1>3, <1>4, StepsOfTheBooks
\* A settlement as the abstract account sees it.
As(e) == [e EXCEPT !.type = AccountType(@)]

LEMMA AsIs ==
  ASSUME NEW e \in Events, e.type \in Settlement
  PROVE  /\ As(e).type = AccountType(e.type) /\ As(e).id = e.id /\ As(e).agent = e.agent
         /\ As(e).date = e.date /\ As(e).reserved = e.reserved /\ As(e).amount = e.amount
BY DEF As, Events

LEMMA SettledIs == AccountSettled = {As(e) : e \in SettledIn(ledger)}
BY DEF AccountSettled, Settlements, SettledIn, As

LEMMA TypesAre ==
  ASSUME NEW type \in Settlement
  PROVE  /\ AccountType(type) # "RESERVATION_RELEASED" <=> type \in ChargeTypes
         /\ AccountType(type) = "RESERVATION_RECOVERED" => type = "STALE_RESERVATION_CONFIRMED"
         /\ \A u \in ChargeTypes :
              type \in ChargeTypes /\ AccountType(u) = AccountType(type) => u = type
BY DEF AccountType, Settlement, ChargeTypes

\* The account adds up as the runtime does.
LEMMA AccountTotal == ASSUME NEW S PROVE Account!Total(S) = Total(S)
<1>1. ASSUME NEW T PROVE Account!Cardinality(T) = Cardinality(T)
  BY Zenon DEF Account!Cardinality, Cardinality
<1>2. Account!Units(S) = Units(S)
  BY DEF Account!Units, Units
<1> QED BY <1>1, <1>2 DEF Total, Account!Total

\* What the account has charged is what the counters hold.
LEMMA ChargedIs ==
  ASSUME IInv, NEW a \in AgentIds, NEW d \in Days
  PROVE  Total(Account!OnDay(Account!Charged, a, d)) = confirmed[a][d]
<1> DEFINE S == Of(ChargesIn(ledger), a, d)
           T == {As(e) : e \in S}
           f == [e \in S |-> As(e)]
<1>1. ledger \subseteq Events /\ S \subseteq SettledIn(ledger)
  BY DEF IInv, Books, Of, ChargesIn, SettledIn, ChargeTypes, Settlement
<1>2. ASSUME NEW e \in SettledIn(ledger)
      PROVE  /\ e \in Events /\ e.type \in Settlement
             /\ As(e).type = AccountType(e.type) /\ As(e).id = e.id /\ As(e).agent = e.agent
             /\ As(e).date = e.date /\ As(e).reserved = e.reserved /\ As(e).amount = e.amount
  BY <1>1, AsIs DEF SettledIn
<1>3. Account!OnDay(Account!Charged, a, d) = T
  <2>1. Account!OnDay(Account!Charged, a, d) =
          {x \in AccountSettled : x.type # "RESERVATION_RELEASED" /\ x.agent = a /\ x.date = d}
    BY DEF Account!OnDay, Account!Charged
  <2>2. ASSUME NEW e \in SettledIn(ledger)
        PROVE  e \in S <=> /\ As(e).type # "RESERVATION_RELEASED" /\ As(e).agent = a
                           /\ As(e).date = d
    BY <1>2, TypesAre DEF Of, ChargesIn, SettledIn
  <2> HIDE DEF S
  <2> QED BY <1>1, <2>1, <2>2, SettledIs
<1>4. ASSUME NEW e \in S, NEW g \in S, As(e) = As(g)
      PROVE  e = g
  <2>1. e.type \in ChargeTypes /\ g.type \in ChargeTypes
    BY DEF Of, ChargesIn
  <2>2. e.type = g.type
    BY <1>1, <1>2, <1>4, <2>1, TypesAre
  <2> QED BY <1>1, <1>2, <1>4, <2>2 DEF Events
<1>5. f \in Bijection(S, T)
  BY <1>4 DEF Bijection, Injection, Surjection, IsInjective
<1>6. \A e \in S : f[e].amount = e.amount
  BY <1>1, <1>2
<1>7. Summable(S) /\ Total(S) = confirmed[a][d]
  BY PartsFinite DEF IInv, Books
<1> HIDE DEF S, T, f
<1> QED BY <1>3, <1>5, <1>6, <1>7, TotalRelabel

\* Reservations that end are holds that end.
LEMMA EndMaps ==
  ASSUME IInv, EndStep, UNCHANGED agents
  PROVE  Account!Use
<1>1. PICK S \in SUBSET reservations, E \in SUBSET Events :
        /\ reservations' = reservations \ S /\ ledger' = ledger \cup E
        /\ \A e \in E : \E x \in S : EndsIt(e, x)
        /\ \A x \in S : \E e \in E : EndsIt(e, x)
        /\ \A e, f \in E : e.id = f.id => e = f
  BY DEF EndStep
<1> DEFINE closing == {As(e) : e \in E}
<1>2. \A r, s \in reservations : r.id = s.id => r = s
  BY DEF IInv, Books
<1>3. reservations \ reservations' = S /\ reservations' \ reservations = {}
  BY <1>1
<1>4. ASSUME NEW e \in E
      PROVE  /\ e.type \in Settlement
             /\ As(e).type = AccountType(e.type) /\ As(e).id = e.id /\ As(e).agent = e.agent
             /\ As(e).date = e.date /\ As(e).reserved = e.reserved /\ As(e).amount = e.amount
  BY <1>1, AsIs DEF EndsIt
<1>5. ASSUME NEW x \in S, NEW e \in E, EndsIt(e, x)
      PROVE  Account!Closes(As(e), x)
  BY <1>4, <1>5, TypesAre DEF EndsIt, Account!Closes
<1>6. SettledIn(ledger') = SettledIn(ledger) \cup E
  BY <1>1, <1>4 DEF SettledIn
<1>7. AccountSettled' = {As(e) : e \in SettledIn(ledger')}
  BY SettledIs DEF AccountSettled, Settlements, SettledIn, As
<1>8. AccountSettled' = AccountSettled \cup closing
  BY <1>6, <1>7, SettledIs
<1>9. ASSUME NEW e \in E
      PROVE  As(e) \notin AccountSettled
  <2>1. PICK x \in S : EndsIt(e, x)
    BY <1>1
  <2>2. ASSUME NEW f \in SettledIn(ledger)
        PROVE  As(f).id # x.id
    BY AsIs DEF SettledIn, IInv, Books
  <2> QED BY <1>4, <2>1, <2>2, SettledIs DEF EndsIt
<1>10. AccountSettled' \ AccountSettled = closing
  BY <1>8, <1>9
<1>11. \A s \in closing : \E h \in S : Account!Closes(s, h)
  BY <1>1, <1>5
<1>12. ASSUME NEW h \in S
       PROVE  /\ \E s \in closing : Account!Closes(s, h)
              /\ \A s, t \in closing : Account!Closes(s, h) /\ Account!Closes(t, h) => s = t
  <2>1. \E s \in closing : Account!Closes(s, h)
    BY <1>1, <1>5
  <2>2. ASSUME NEW s \in closing, NEW t \in closing,
               Account!Closes(s, h), Account!Closes(t, h)
        PROVE  s = t
    <3>1. PICK e \in E : s = As(e)
      OBVIOUS
    <3>2. PICK f \in E : t = As(f)
      OBVIOUS
    <3>3. s.id = h.id /\ t.id = h.id
      BY <2>2 DEF Account!Closes
    <3> QED BY <1>1, <1>4, <3>1, <3>2, <3>3
  <2> QED BY <2>1, <2>2
<1>13. AccountLimit' = AccountLimit
  BY DEF AccountLimit
<1> HIDE DEF closing
<1> QED BY <1>3, <1>8, <1>10, <1>11, <1>12, <1>13 DEF Account!Use

\* There is a highest budget.
LEMMA HighestIs == HighestBudget \in DailyBudgets /\ \A c \in DailyBudgets : c <= HighestBudget
BY BudgetsAssumption DEF HighestBudget

\* A reservation that begins is a hold that fits.
LEMMA BeginMaps ==
  ASSUME IInv, BeginStep, UNCHANGED agents
  PROVE  Account!Use
<1>1. PICK r \in Requests :
        /\ At(r, "reserve") /\ Fits(req[r].agent, req[r].amount, req[r].limit)
        /\ Reserve(r, req[r].agent, req[r].amount)
  BY DEF BeginStep
<1>2. PICK a, d, x :
        /\ a = req[r].agent /\ d = UtcDate[now]
        /\ x = [id |-> r, agent |-> a, date |-> d, amount |-> req[r].amount,
                createdAt |-> now]
  OBVIOUS
<1>3. HandlerOK(r, req[r], reservations, ledger, audit)
  BY Handler0
<1>4. /\ Free(r, reservations) /\ Unseen(r, ledger) /\ req[r].amount \in Amounts
      /\ a \in AgentIds /\ agents[a] # NoAgent /\ req[r].limit \in DailyBudgets
  BY <1>1, <1>2, <1>3 DEF HandlerOK, Early, At, Opened
<1>5. x.id = r /\ x.agent = a /\ x.date = d /\ x.amount = req[r].amount
  BY <1>2
<1>6. /\ reservations' = reservations \cup {x} /\ UNCHANGED confirmed
      /\ ledger' = ledger \cup {Event("BUDGET_RESERVED", x, req[r].amount)}
  BY <1>1, <1>2 DEF Reserve
<1>7. d \in Days
  BY <1>2, LocalAssumption DEF IInv, TypeOK
<1>8. x \notin reservations
  BY <1>4, <1>5 DEF Free
<1>9. reservations \ reservations' = {} /\ reservations' \ reservations = {x}
  BY <1>6, <1>8
<1>10. AccountSettled' = AccountSettled /\ AccountLimit' = AccountLimit
  <2>1. Settlements' = Settlements
    BY <1>6 DEF Settlements, Settlement, Event
  <2> QED BY <2>1 DEF AccountSettled, AccountLimit
<1>11. \A y \in reservations \cup AccountSettled : y.id # x.id
  <2>1. ASSUME NEW e \in SettledIn(ledger)
        PROVE  As(e).id # r
    BY <1>4, AsIs DEF SettledIn, IInv, Books, Unseen
  <2> QED BY <1>4, <1>5, <2>1, SettledIs DEF Free
<1>12. Account!Used(a, d)' <= AccountLimit[a]
  <2>1. Account!Used(a, d)' =
          Total(Account!OnDay(Account!Charged, a, d)) + Total(Of(reservations', a, d))
    <3>1. Account!Charged' = Account!Charged
      BY <1>10 DEF Account!Charged
    <3>2. Account!Used(a, d)' =
            Total(Account!OnDay(Account!Charged', a, d)) + Total(Account!OnDay(reservations', a, d))
      BY AccountTotal DEF Account!Used, Account!OnDay
    <3>3. Account!OnDay(reservations', a, d) = Of(reservations', a, d)
      BY DEF Account!OnDay, Of
    <3> QED BY <3>1, <3>2, <3>3
  <2>2. /\ Summable(Of(reservations, a, d)) /\ Total(Of(reservations, a, d)) \in Nat
        /\ x \notin Of(reservations, a, d)
    <3>1. Summable(reservations)
      BY DEF IInv, Books
    <3>2. x \notin Of(reservations, a, d)
      BY <1>8 DEF Of
    <3> QED BY <3>1, <3>2, PartsFinite
  <2>3. Of(reservations', a, d) = Of(reservations, a, d) \cup {x}
    BY <1>5, <1>6 DEF Of
  <2>4. x.amount \in Nat
    BY <1>4, <1>5, AmountsAreNatural
  <2>5. Total(Of(reservations', a, d)) = Total(Of(reservations, a, d)) + x.amount
    BY <2>2, <2>3, <2>4, TotalAdd
  <2>6. Total(Account!OnDay(Account!Charged, a, d)) = confirmed[a][d]
    BY <1>4, <1>7, ChargedIs
  <2>7. confirmed[a][d] + Total(Of(reservations, a, d)) + x.amount <= req[r].limit
    BY <1>1, <1>2, <1>5 DEF Fits
  <2>8. req[r].limit <= HighestBudget /\ AccountLimit[a] = HighestBudget
    BY <1>4, HighestIs DEF AccountLimit
  <2>9. confirmed[a][d] \in Nat
    BY <1>4, <1>7 DEF IInv, Books
  <2>10. req[r].limit \in Nat /\ HighestBudget \in Nat
    BY <1>4, HighestIs, LocalAssumption
  <2> QED BY <2>1, <2>2, <2>4, <2>5, <2>6, <2>7, <2>8, <2>9, <2>10
<1> QED BY <1>5, <1>9, <1>10, <1>11, <1>12 DEF Account!Use

\* An agent that is added is an owner whose limit is set; other changes by the operator
\* do not concern the account.
LEMMA OperatorMaps ==
  ASSUME IInv, KnownAgents, Operator
  PROVE  (\E a \in AgentIds : Account!Open(a)) \/ UNCHANGED Account!vars
<1>1. PICK a \in AgentIds, agent \in Agents :
        OnlyControl /\ agents' = [agents EXCEPT ![a] = agent]
  BY OperatorIs
<1>2. UNCHANGED reservations /\ AccountSettled' = AccountSettled
  BY <1>1 DEF OnlyControl, books, AccountSettled, Settlements
<1>3. agent # NoAgent /\ agents \in [AgentIds -> Agents \cup {NoAgent}]
  BY NoAgentAssumption DEF IInv, TypeOK
<1>4. CASE agents[a] # NoAgent
  <2>1. AccountLimit' = AccountLimit
    BY <1>1, <1>3, <1>4 DEF AccountLimit
  <2> QED BY <1>2, <2>1 DEF Account!vars
<1>5. CASE agents[a] = NoAgent
  <2>1. AccountLimit[a] = 0 /\ AccountLimit' = [AccountLimit EXCEPT ![a] = HighestBudget]
    BY <1>1, <1>3, <1>5 DEF AccountLimit
  <2>2. HighestBudget \in Nat
    BY HighestIs, LocalAssumption
  <2>3. AccountLimit'[a] = HighestBudget
    BY <2>1 DEF AccountLimit
  <2>4. ASSUME NEW d \in Days
        PROVE  Account!OnDay(reservations \cup AccountSettled, a, d) = {}
    <3>1. \A x \in reservations \cup SettledIn(ledger) : x.agent # a
      BY <1>5 DEF KnownAgents, Opened
    <3>2. ASSUME NEW e \in SettledIn(ledger)
          PROVE  As(e).agent # a
      BY <3>1, AsIs DEF SettledIn, IInv, Books
    <3> QED BY <3>1, <3>2, SettledIs DEF Account!OnDay
  <2>5. Account!Open(a)
    BY <1>2, <2>1, <2>2, <2>3, <2>4 DEF Account!Open
  <2> QED BY <2>5
<1> QED BY <1>4, <1>5

LEMMA InitMaps ==
  ASSUME Init
  PROVE  Account!Init /\ KnownAgents
BY DEF Init, Account!Init, AccountLimit, AccountSettled, Settlements, KnownAgents, SettledIn

LEMMA StepMaps ==
  ASSUME IInv, KnownAgents, [Next]_vars
  PROVE  [Account!Next]_(Account!vars)
<1>1. CASE Operator
  BY <1>1, OperatorMaps DEF Account!Next
<1>2. CASE UNCHANGED agents /\ UNCHANGED <<reservations, ledger>>
  BY <1>2 DEF Account!vars, AccountLimit, AccountSettled, Settlements
<1>3. CASE UNCHANGED agents /\ (EndStep \/ BeginStep)
  BY <1>3, EndMaps, BeginMaps DEF Account!Next
<1> QED BY <1>1, <1>2, <1>3, StepsOfTheBooks

\* Every behaviour of the runtime is a behaviour of the abstract account: holds fit the
\* highest budget the agent can have, and each is settled once, whoever settles it.
THEOREM Implements == Spec => ImplementsSpendAccount
<1>1. Init => Account!Init /\ KnownAgents
  BY InitMaps
<1>2. IInv /\ KnownAgents /\ [Next]_vars => KnownAgents'
  BY KnownAgentsStep
<1>3. IInv /\ KnownAgents /\ [Next]_vars => [Account!Next]_(Account!vars)
  BY StepMaps
<1> QED BY <1>1, <1>2, <1>3, AlwaysCorrect, PTL DEF Spec, ImplementsSpendAccount, Account!Spec
=============================================================================
