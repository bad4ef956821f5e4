----------------------- MODULE GuardCoordinatorProofs -----------------------
(***************************************************************************)
(* The budget of GuardCoordinator, for every set of agents, models, costs, *)
(* budgets and days, every staleness threshold and every length of the     *)
(* clock.                                                                  *)
(*                                                                         *)
(* The operations change the books, that is the reservations R, the        *)
(* confirmed counters C and the ledger L, in three ways only: a new        *)
(* reservation, the settlement of one reservation, and the recovery of a   *)
(* set of them.  Each way is a lemma about arbitrary R, C and L; an        *)
(* operation is a composition of them.  Before these come the arithmetic   *)
(* of Total and of TotalExcess, for sets whose units are finite in number. *)
(***************************************************************************)
EXTENDS GuardCoordinator, FiniteSetTheorems, TLAPS

\* A set of records whose amounts can be added up.
Summable(S) == IsFiniteSet(Units(S))

\* A set of charges whose overruns can be added up.
ExcessSummable(S) == IsFiniteSet(ExcessUnits(S))

\* Nothing adds up to nothing.
LEMMA TotalEmpty == Summable({}) /\ Total({}) = 0
<1>1. Units({}) = {}
  BY DEF Units
<1> QED
  BY <1>1, FS_EmptySet DEF Summable, Total

\* A total is a natural number.
LEMMA TotalType ==
  ASSUME NEW S, Summable(S)
  PROVE  Total(S) \in Nat
BY FS_CardinalityType DEF Summable, Total

\* A part of a set of amounts adds up to no more than the whole.
LEMMA TotalSubset ==
  ASSUME NEW S, NEW T, Summable(T), S \subseteq T
  PROVE  Summable(S) /\ Total(S) <= Total(T)
<1>1. Units(S) \in SUBSET Units(T)
  BY DEF Units
<1> QED
  BY <1>1, FS_Subset DEF Summable, Total

\* The totals of two disjoint sets add up to the total of both.
LEMMA TotalUnion ==
  ASSUME NEW S, NEW T, Summable(S), Summable(T), S \cap T = {}
  PROVE  Summable(S \cup T) /\ Total(S \cup T) = Total(S) + Total(T)
<1>1. Units(S \cup T) = Units(S) \cup Units(T)
  BY DEF Units
<1>2. Units(S) \cap Units(T) = {}
  BY DEF Units
<1>3. /\ IsFiniteSet(Units(S) \cup Units(T))
      /\ Cardinality(Units(S) \cup Units(T)) =
           Cardinality(Units(S)) + Cardinality(Units(T)) - Cardinality({})
  BY <1>2, FS_Union DEF Summable
<1>4. Cardinality(Units(S)) \in Nat /\ Cardinality(Units(T)) \in Nat
  BY FS_CardinalityType DEF Summable
<1>5. Cardinality({}) = 0
  BY FS_EmptySet
<1>6. Cardinality(Units(S) \cup Units(T)) =
        Cardinality(Units(S)) + Cardinality(Units(T))
  BY <1>3, <1>4, <1>5
<1> QED
  BY <1>1, <1>3, <1>6 DEF Summable, Total

\* One record adds up to its amount.
LEMMA TotalSingle ==
  ASSUME NEW x, x.amount \in Nat
  PROVE  Summable({x}) /\ Total({x}) = x.amount
<1>1. Units({x}) = {x} \X (1..x.amount)
  BY DEF Units
<1>2. IsFiniteSet({x}) /\ Cardinality({x}) = 1
  BY FS_Singleton
<1>3. IsFiniteSet(1..x.amount) /\ Cardinality(1..x.amount) = x.amount
  BY FS_Interval, 1 \in Int, x.amount \in Int
<1>4. /\ IsFiniteSet({x} \X (1..x.amount))
      /\ Cardinality({x} \X (1..x.amount)) = Cardinality({x}) * Cardinality(1..x.amount)
  BY ONLY <1>2, <1>3, FS_Product, Zenon
<1>5. \A n \in Nat : 1 * n = n
  OBVIOUS
<1> QED
  BY <1>1, <1>2, <1>3, <1>4, <1>5 DEF Summable, Total

\* A new record adds its amount.
LEMMA TotalAdd ==
  ASSUME NEW S, NEW x, Summable(S), x \notin S, x.amount \in Nat
  PROVE  Summable(S \cup {x}) /\ Total(S \cup {x}) = Total(S) + x.amount
<1>1. Summable({x}) /\ Total({x}) = x.amount
  BY TotalSingle
<1>2. S \cap {x} = {}
  OBVIOUS
<1> QED
  BY <1>1, <1>2, TotalUnion

\* A record that is taken away takes its amount with it.
LEMMA TotalRemove ==
  ASSUME NEW S, NEW x, Summable(S), x \in S, x.amount \in Nat
  PROVE  /\ Summable(S \ {x})
         /\ Total(S \ {x}) = Total(S) - x.amount
         /\ x.amount <= Total(S)
<1>1. Summable(S \ {x}) /\ Total(S \ {x}) \in Nat
  BY TotalSubset, TotalType
<1>2. (S \ {x}) \cup {x} = S
  OBVIOUS
<1>3. Total(S) = Total(S \ {x}) + x.amount
  BY <1>1, <1>2, TotalAdd
<1> QED
  BY <1>1, <1>3

\* Renaming the records of a set one by one keeps the total.
LEMMA TotalRelabel ==
  ASSUME NEW S, NEW T, NEW f \in Bijection(S, T), Summable(S),
         \A x \in S : f[x].amount = x.amount
  PROVE  Summable(T) /\ Total(T) = Total(S)
<1> DEFINE g == [u \in Units(S) |-> <<f[u[1]], u[2]>>]
<1>1. /\ f \in [S -> T]
      /\ \A x, y \in S : f[x] = f[y] => x = y
      /\ \A t \in T : \E x \in S : f[x] = t
  BY DEF Bijection, Injection, Surjection, IsInjective
<1>2. \A u \in Units(S) : \E x \in S : \E i \in 1..x.amount : u = <<x, i>>
  BY DEF Units
<1>3. \A x \in S : \A i \in 1..x.amount : <<x, i>> \in Units(S)
  BY DEF Units
<1>4. \A u \in Units(T) : \E y \in T : \E i \in 1..y.amount : u = <<y, i>>
  BY DEF Units
<1>5. \A y \in T : \A i \in 1..y.amount : <<y, i>> \in Units(T)
  BY DEF Units
<1>6. g \in [Units(S) -> Units(T)]
  <2> SUFFICES ASSUME NEW u \in Units(S)
               PROVE  <<f[u[1]], u[2]>> \in Units(T)
    OBVIOUS
  <2>1. PICK x \in S : \E i \in 1..x.amount : u = <<x, i>>
    BY <1>2
  <2>2. PICK i \in 1..x.amount : u = <<x, i>>
    BY <2>1
  <2>3. f[x] \in T /\ i \in 1..f[x].amount
    BY <1>1
  <2> QED
    BY <2>2, <2>3, <1>5
<1>7. ASSUME NEW u \in Units(S), NEW v \in Units(S), g[u] = g[v]
      PROVE  u = v
  <2>1. PICK x \in S : \E i \in 1..x.amount : u = <<x, i>>
    BY <1>2
  <2>2. PICK i \in 1..x.amount : u = <<x, i>>
    BY <2>1
  <2>3. PICK y \in S : \E j \in 1..y.amount : v = <<y, j>>
    BY <1>2
  <2>4. PICK j \in 1..y.amount : v = <<y, j>>
    BY <2>3
  <2>5. <<f[x], i>> = <<f[y], j>>
    BY <1>7, <2>2, <2>4
  <2> QED
    BY <2>2, <2>4, <2>5, <1>1
<1>8. ASSUME NEW w \in Units(T)
      PROVE  \E u \in Units(S) : g[u] = w
  <2>1. PICK y \in T : \E i \in 1..y.amount : w = <<y, i>>
    BY <1>4
  <2>2. PICK i \in 1..y.amount : w = <<y, i>>
    BY <2>1
  <2>3. PICK x \in S : f[x] = y
    BY <1>1
  <2>4. <<x, i>> \in Units(S)
    BY <2>2, <2>3, <1>1, <1>3
  <2>5. g[<<x, i>>] = <<f[x], i>>
    BY <2>4
  <2> QED
    BY <2>2, <2>3, <2>4, <2>5
<1>9. g \in Bijection(Units(S), Units(T))
  BY <1>6, <1>7, <1>8 DEF Bijection, Injection, Surjection, IsInjective
<1> QED
  BY <1>9, FS_Bijection DEF ExistsBijection, Summable, Total

-----------------------------------------------------------------------------

\* No charge, no overrun.
LEMMA ExcessEmpty == ExcessSummable({}) /\ TotalExcess({}) = 0
<1>1. ExcessUnits({}) = {}
  BY DEF ExcessUnits
<1> QED
  BY <1>1, FS_EmptySet DEF ExcessSummable, TotalExcess

\* A total of overruns is a natural number.
LEMMA ExcessType ==
  ASSUME NEW S, ExcessSummable(S)
  PROVE  TotalExcess(S) \in Nat
BY FS_CardinalityType DEF ExcessSummable, TotalExcess

\* Some of the charges are over by no more than all of them.
LEMMA ExcessSubset ==
  ASSUME NEW S, NEW T, ExcessSummable(T), S \subseteq T
  PROVE  ExcessSummable(S) /\ TotalExcess(S) <= TotalExcess(T)
<1>1. ExcessUnits(S) \in SUBSET ExcessUnits(T)
  BY DEF ExcessUnits
<1> QED
  BY <1>1, FS_Subset DEF ExcessSummable, TotalExcess

\* A new charge adds what it is over its reservation, and nothing if it is not.
LEMMA ExcessAdd ==
  ASSUME NEW S, NEW x, ExcessSummable(S), x \notin S,
         x.amount \in Nat, x.reserved \in Nat
  PROVE  /\ ExcessSummable(S \cup {x})
         /\ TotalExcess(S \cup {x}) =
              TotalExcess(S) + (IF x.amount > x.reserved
                                THEN x.amount - x.reserved ELSE 0)
<1> DEFINE U == {x} \X ((x.reserved + 1)..x.amount)
           over == IF x.amount > x.reserved THEN x.amount - x.reserved ELSE 0
<1>1. ExcessUnits(S \cup {x}) = ExcessUnits(S) \cup U
  BY DEF ExcessUnits
<1>2. ExcessUnits(S) \cap U = {}
  BY DEF ExcessUnits
<1>3. IsFiniteSet({x}) /\ Cardinality({x}) = 1
  BY FS_Singleton
<1>4. /\ IsFiniteSet((x.reserved + 1)..x.amount)
      /\ Cardinality((x.reserved + 1)..x.amount) = over
  <2>1. ASSUME NEW m \in Nat, NEW n \in Nat
        PROVE  /\ IsFiniteSet((m + 1)..n)
               /\ Cardinality((m + 1)..n) = IF n > m THEN n - m ELSE 0
    <3>1. ASSUME NEW k \in Int, k = m + 1
          PROVE  /\ IsFiniteSet(k..n)
                 /\ Cardinality(k..n) = IF k > n THEN 0 ELSE n - k + 1
      <4>1. n \in Int
        OBVIOUS
      <4> QED
        BY ONLY <4>1, k \in Int, FS_Interval, Zenon
    <3>2. /\ IsFiniteSet((m + 1)..n)
          /\ Cardinality((m + 1)..n) = IF m + 1 > n THEN 0 ELSE n - (m + 1) + 1
      BY <3>1
    <3>3. (IF m + 1 > n THEN 0 ELSE n - (m + 1) + 1) = (IF n > m THEN n - m ELSE 0)
      OBVIOUS
    <3> QED
      BY <3>2, <3>3
  <2> QED
    BY <2>1
<1>5. over \in Nat
  OBVIOUS
<1>6. IsFiniteSet(U) /\ Cardinality(U) = 1 * over
  <2> HIDE DEF over
  <2> QED
    BY <1>3, <1>4, FS_Product
<1> HIDE DEF U, over
<1>7. /\ IsFiniteSet(ExcessUnits(S) \cup U)
      /\ Cardinality(ExcessUnits(S) \cup U) =
           Cardinality(ExcessUnits(S)) + Cardinality(U) - Cardinality({})
  BY <1>2, <1>6, FS_Union DEF ExcessSummable
<1>8. Cardinality(ExcessUnits(S)) \in Nat
  BY FS_CardinalityType DEF ExcessSummable
<1>9. Cardinality({}) = 0
  BY FS_EmptySet
<1>10. Cardinality(U) = over
  BY <1>5, <1>6
<1>11. Cardinality(ExcessUnits(S) \cup U) = Cardinality(ExcessUnits(S)) + over
  BY <1>5, <1>7, <1>8, <1>9, <1>10
<1>12. TotalExcess(S \cup {x}) = TotalExcess(S) + over
  BY <1>1, <1>11 DEF TotalExcess
<1> QED
  BY <1>1, <1>7, <1>12 DEF ExcessSummable, over

\* Charges that equal their reservations leave the overrun as it is.
LEMMA ExcessNeutral ==
  ASSUME NEW S, NEW T, ExcessSummable(S),
         \A x \in T : x.amount \in Nat /\ x.reserved = x.amount
  PROVE  ExcessSummable(S \cup T) /\ TotalExcess(S \cup T) = TotalExcess(S)
<1>1. ASSUME NEW x \in T
      PROVE  {x} \X ((x.reserved + 1)..x.amount) = {}
  <2>1. \A n \in Nat : (n + 1)..n = {}
    OBVIOUS
  <2> QED
    BY <2>1
<1>2. ExcessUnits(S \cup T) = ExcessUnits(S)
  BY <1>1 DEF ExcessUnits
<1> QED
  BY <1>2 DEF ExcessSummable, TotalExcess
-----------------------------------------------------------------------------
ChargeTypes == {"SPEND_CONFIRMED", "RESERVATION_RECOVERED"}

ChargesIn(L) == {e \in L : e.type \in ChargeTypes}

SettlementsIn(L) == {e \in L : e.type \in SettlementTypes}

IssuedIn(L) == {e.id : e \in {f \in L : f.type = "BUDGET_RESERVED"}}

\* The values R, C and L take.
BooksType(R, C, L) ==
  /\ R \subseteq Reservations
  /\ C \in [AgentIds -> [Days -> Nat]]
  /\ L \subseteq Events

\* The reservations and the settlements of L partition the ids issued in L.
Partition(R, L) ==
  /\ \A r \in R, s \in R : r.id = s.id => r = s
  /\ \A r \in R, e \in SettlementsIn(L) : r.id # e.id
  /\ \A e \in SettlementsIn(L), f \in SettlementsIn(L) : e.id = f.id => e = f
  /\ IssuedIn(L) = {r.id : r \in R} \cup {e.id : e \in SettlementsIn(L)}

\* All sums over the books are sums of finitely many units.
Finite(R, L) ==
  Summable(R) /\ Summable(ChargesIn(L)) /\ ExcessSummable(ChargesIn(L))

\* The counters are the totals of the charges.
Matches(C, L) ==
  \A a \in AgentIds, d \in Days : C[a][d] = Total(Of(ChargesIn(L), a, d))

Consistent(R, C, L) ==
  BooksType(R, C, L) /\ Partition(R, L) /\ Finite(R, L) /\ Matches(C, L)

\* What is spent and reserved, and what providers reported above the bounds.
Used(R, C, a, d) == C[a][d] + Total(Of(R, a, d))

Over(L, a, d) == TotalExcess(Of(ChargesIn(L), a, d))

-----------------------------------------------------------------------------

\* The parts of finite books are finite, and their totals are numbers.
LEMMA PartsFinite ==
  ASSUME NEW S, Summable(S), NEW a, NEW d
  PROVE  Summable(Of(S, a, d)) /\ Total(Of(S, a, d)) \in Nat
BY TotalSubset, TotalType DEF Of

LEMMA ExcessPartsFinite ==
  ASSUME NEW S, ExcessSummable(S), NEW a, NEW d
  PROVE  ExcessSummable(Of(S, a, d)) /\ TotalExcess(Of(S, a, d)) \in Nat
BY ExcessSubset, ExcessType DEF Of

\* What a new reservation r does to the books: Q and M add its amount to the
\* budget it belongs to and change no other.
Added(R, C, L, r, Q, M) ==
  /\ Consistent(Q, C, M)
  /\ \A a \in AgentIds, d \in Days :
       /\ Used(Q, C, a, d) =
            Used(R, C, a, d) + (IF a = r.agent /\ d = r.date THEN r.amount ELSE 0)
       /\ Over(M, a, d) = Over(L, a, d)

\* A reservation with an id that was never issued keeps the books consistent.
LEMMA Reserve ==
  ASSUME NEW R, NEW C, NEW L, Consistent(R, C, L),
         NEW r \in Reservations, r.id \notin IssuedIn(L)
  PROVE  Added(R, C, L, r, R \cup {r},
               L \cup {Event("BUDGET_RESERVED", r, r.amount)})
<1> DEFINE e == Event("BUDGET_RESERVED", r, r.amount)
           M == L \cup {e}
<1>1. /\ r.id \in ReservationIds /\ r.agent \in AgentIds /\ r.date \in Days
      /\ r.amount \in EstimatedCosts /\ r.amount \in Nat
  BY AmountAssumption DEF Reservations
<1>2. e \in Events /\ e.type = "BUDGET_RESERVED" /\ e.id = r.id
  BY <1>1 DEF Event, Events, EventTypes
<1>3. r \notin R
  BY DEF Consistent, Partition
<1>4. ChargesIn(M) = ChargesIn(L)
  BY <1>2 DEF ChargesIn, ChargeTypes
<1>5. SettlementsIn(M) = SettlementsIn(L)
  BY <1>2 DEF SettlementsIn, SettlementTypes
<1>6. IssuedIn(M) = IssuedIn(L) \cup {r.id}
  BY <1>2 DEF IssuedIn
<1>7. BooksType(R \cup {r}, C, M)
  BY <1>2 DEF BooksType, Consistent
<1>8. Partition(R \cup {r}, M)
  <2> HIDE DEF e, M
  <2>1. \A s \in R : s.id # r.id
    BY DEF Consistent, Partition
  <2>2. \A f \in SettlementsIn(L) : f.id # r.id
    BY DEF Consistent, Partition
  <2> QED
    BY <1>5, <1>6, <2>1, <2>2 DEF Consistent, Partition
<1>9. Summable(R) /\ Summable(ChargesIn(L)) /\ ExcessSummable(ChargesIn(L))
  BY DEF Consistent, Finite
<1>10. Finite(R \cup {r}, M)
  BY <1>1, <1>3, <1>4, <1>9, TotalAdd DEF Finite
<1>11. Matches(C, M)
  BY <1>4 DEF Matches, Consistent
<1>12. ASSUME NEW a \in AgentIds, NEW d \in Days
       PROVE  Used(R \cup {r}, C, a, d) =
                Used(R, C, a, d)
                  + (IF a = r.agent /\ d = r.date THEN r.amount ELSE 0)
  <2>1. Summable(Of(R, a, d)) /\ Total(Of(R, a, d)) \in Nat
    BY <1>9, PartsFinite
  <2>2. C[a][d] \in Nat
    BY DEF Consistent, BooksType
  <2>3. CASE a = r.agent /\ d = r.date
    <3>1. Of(R \cup {r}, a, d) = Of(R, a, d) \cup {r} /\ r \notin Of(R, a, d)
      BY <1>3, <2>3 DEF Of
    <3>2. Total(Of(R \cup {r}, a, d)) = Total(Of(R, a, d)) + r.amount
      BY <1>1, <2>1, <3>1, TotalAdd
    <3> QED
      BY <1>1, <2>1, <2>2, <2>3, <3>2 DEF Used
  <2>4. CASE ~(a = r.agent /\ d = r.date)
    <3>1. Of(R \cup {r}, a, d) = Of(R, a, d)
      BY <2>4 DEF Of
    <3> QED
      BY <2>1, <2>2, <2>4, <3>1 DEF Used
  <2> QED
    BY <2>3, <2>4
<1>13. \A a \in AgentIds, d \in Days : Over(M, a, d) = Over(L, a, d)
  BY <1>4 DEF Over
<1> QED
  BY <1>7, <1>8, <1>10, <1>11, <1>12, <1>13 DEF Consistent, Added

\* A charge can be added to the counters of its budget.
Charge(C, r, amount) == [C EXCEPT ![r.agent][r.date] = @ + amount]

\* What the settlement of reservation r by an event of the given type does to
\* the ids, the charges and the finiteness of the books.
Settling(R, L, r, type, amount) ==
  LET e == Event(type, r, amount)
      M == L \cup {e}
  IN  /\ r \in Reservations /\ r.amount \in Nat
      /\ e \in Events /\ e.type = type /\ e.id = r.id /\ e.amount = amount
      /\ e.reserved = r.amount /\ e.agent = r.agent /\ e.date = r.date
      /\ e \notin ChargesIn(L)
      /\ type \in ChargeTypes => ChargesIn(M) = ChargesIn(L) \cup {e}
      /\ type \notin ChargeTypes => ChargesIn(M) = ChargesIn(L)
      /\ Partition(R \ {r}, M)
      /\ Finite(R \ {r}, M)

\* A settlement of an outstanding reservation is the only one of its id.
LEMMA SettleBooks ==
  ASSUME NEW R, NEW C, NEW L, Consistent(R, C, L),
         NEW r \in R, NEW type \in SettlementTypes, NEW amount \in Nat
  PROVE  Settling(R, L, r, type, amount)
<1> DEFINE e == Event(type, r, amount)
           M == L \cup {e}
<1>1. /\ r \in Reservations
      /\ r.id \in ReservationIds /\ r.agent \in AgentIds /\ r.date \in Days
      /\ r.amount \in EstimatedCosts /\ r.amount \in Nat
  BY AmountAssumption DEF Reservations, Consistent, BooksType
<1>2. /\ e \in Events /\ e.type = type /\ e.id = r.id /\ e.amount = amount
      /\ e.reserved = r.amount /\ e.agent = r.agent /\ e.date = r.date
  BY <1>1 DEF Event, Events, SettlementTypes
<1>3. ChargesIn(L) \subseteq SettlementsIn(L)
  BY DEF ChargesIn, ChargeTypes, SettlementsIn, SettlementTypes, EventTypes
<1>4. \A f \in SettlementsIn(L) : f.id # r.id
  BY DEF Consistent, Partition
<1>5. e \notin ChargesIn(L)
  BY <1>2, <1>3, <1>4
<1> HIDE DEF e
<1>6. ChargesIn(M) = (IF type \in ChargeTypes
                      THEN ChargesIn(L) \cup {e} ELSE ChargesIn(L))
  BY <1>2 DEF ChargesIn
<1>7. SettlementsIn(M) = SettlementsIn(L) \cup {e}
  BY <1>2 DEF SettlementsIn
<1>8. IssuedIn(M) = IssuedIn(L)
  BY <1>2 DEF IssuedIn, SettlementTypes
<1> HIDE DEF M
<1>9. Partition(R \ {r}, M)
  <2>1. \A s \in R \ {r} : s.id # r.id
    BY DEF Consistent, Partition
  <2>2. \A s, t \in R \ {r} : s.id = t.id => s = t
    BY DEF Consistent, Partition
  <2>3. \A s \in R \ {r}, f \in SettlementsIn(M) : s.id # f.id
    BY <1>2, <1>7, <2>1 DEF Consistent, Partition
  <2>4. \A f, g \in SettlementsIn(M) : f.id = g.id => f = g
    BY <1>2, <1>4, <1>7 DEF Consistent, Partition
  <2>5. {s.id : s \in R} = {s.id : s \in R \ {r}} \cup {r.id}
    OBVIOUS
  <2>6. {f.id : f \in SettlementsIn(M)} = {f.id : f \in SettlementsIn(L)} \cup {r.id}
    BY <1>2, <1>7
  <2>7. IssuedIn(L) = {s.id : s \in R} \cup {f.id : f \in SettlementsIn(L)}
    BY DEF Consistent, Partition
  <2> QED
    BY <1>8, <2>2, <2>3, <2>4, <2>5, <2>6, <2>7 DEF Partition
<1>10. Summable(R) /\ Summable(ChargesIn(L)) /\ ExcessSummable(ChargesIn(L))
  BY DEF Consistent, Finite
<1>11. Summable(R \ {r})
  BY <1>10, TotalSubset
<1>12. /\ Summable(ChargesIn(L) \cup {e})
       /\ ExcessSummable(ChargesIn(L) \cup {e})
  BY <1>1, <1>2, <1>5, <1>10, TotalAdd, ExcessAdd
<1>13. Finite(R \ {r}, M)
  BY <1>6, <1>10, <1>11, <1>12 DEF Finite
<1> QED
  BY <1>1, <1>2, <1>5, <1>6, <1>9, <1>13 DEF M, e, Settling

\* The books Q, D and M are consistent, and use no limit by more than R, C and L
\* did, apart from what M has of recorded overruns.
Freed(R, C, L, Q, D, M) ==
  /\ Consistent(Q, D, M)
  /\ \A a \in AgentIds, d \in Days :
       /\ Used(Q, D, a, d) - Over(M, a, d) <= Used(R, C, a, d) - Over(L, a, d)
       /\ Over(L, a, d) \in Nat /\ Over(M, a, d) \in Nat
       /\ Used(R, C, a, d) \in Nat /\ Used(Q, D, a, d) \in Nat

\* A confirmed cost keeps the books consistent; it uses the limit by no more
\* than it adds to the recorded overrun, in its own budget and in no other.
LEMMA Confirm ==
  ASSUME NEW R, NEW C, NEW L, Consistent(R, C, L),
         NEW r \in R, NEW cost \in Nat
  PROVE  Freed(R, C, L, R \ {r}, Charge(C, r, cost),
               L \cup {Event("SPEND_CONFIRMED", r, cost)})
<1> DEFINE e == Event("SPEND_CONFIRMED", r, cost)
           M == L \cup {e}
           D == Charge(C, r, cost)
<1>1. "SPEND_CONFIRMED" \in SettlementTypes /\ "SPEND_CONFIRMED" \in ChargeTypes
  BY DEF SettlementTypes, EventTypes, ChargeTypes
<1>2. /\ r \in Reservations /\ r.amount \in Nat
      /\ e \in Events /\ e.amount = cost /\ e.reserved = r.amount
      /\ e.agent = r.agent /\ e.date = r.date
      /\ e \notin ChargesIn(L)
      /\ ChargesIn(M) = ChargesIn(L) \cup {e}
      /\ Partition(R \ {r}, M)
      /\ Finite(R \ {r}, M)
  <2>1. Settling(R, L, r, "SPEND_CONFIRMED", cost)
    BY <1>1, SettleBooks
  <2> QED
    BY <1>1, <2>1 DEF Settling
<1> HIDE DEF e
<1>3. Summable(R) /\ Summable(ChargesIn(L)) /\ ExcessSummable(ChargesIn(L))
  BY DEF Consistent, Finite
<1>4. C \in [AgentIds -> [Days -> Nat]] /\ L \subseteq Events /\ R \subseteq Reservations
  BY DEF Consistent, BooksType
<1>5. r.agent \in AgentIds /\ r.date \in Days
  BY <1>2 DEF Reservations
<1>6. /\ D \in [AgentIds -> [Days -> Nat]]
      /\ \A a \in AgentIds, d \in Days :
           D[a][d] = IF a = r.agent /\ d = r.date THEN C[a][d] + cost ELSE C[a][d]
  BY <1>4, <1>5 DEF Charge
<1>7. BooksType(R \ {r}, D, M)
  BY <1>2, <1>4, <1>6 DEF BooksType
<1> HIDE DEF M, D
<1>8. ASSUME NEW a \in AgentIds, NEW d \in Days, a = r.agent, d = r.date
      PROVE  /\ D[a][d] = Total(Of(ChargesIn(M), a, d))
             /\ Used(R \ {r}, D, a, d) - Over(M, a, d)
                  <= Used(R, C, a, d) - Over(L, a, d)
             /\ Over(L, a, d) \in Nat /\ Over(M, a, d) \in Nat
             /\ Used(R, C, a, d) \in Nat /\ Used(R \ {r}, D, a, d) \in Nat
  <2>1. /\ Of(ChargesIn(M), a, d) = Of(ChargesIn(L), a, d) \cup {e}
        /\ e \notin Of(ChargesIn(L), a, d)
        /\ Of(R \ {r}, a, d) = Of(R, a, d) \ {r}
        /\ r \in Of(R, a, d)
    BY <1>2, <1>8 DEF Of
  <2>2. Summable(Of(ChargesIn(L), a, d)) /\ Summable(Of(R, a, d))
    BY <1>3, PartsFinite
  <2>3. ExcessSummable(Of(ChargesIn(L), a, d)) /\ Over(L, a, d) \in Nat
    BY <1>3, ExcessPartsFinite DEF Over
  <2>4. C[a][d] = Total(Of(ChargesIn(L), a, d)) /\ C[a][d] \in Nat
    BY <1>4 DEF Consistent, Matches
  <2>5. Total(Of(ChargesIn(M), a, d)) = Total(Of(ChargesIn(L), a, d)) + cost
    BY <1>2, <2>1, <2>2, TotalAdd
  <2>6. /\ Total(Of(R \ {r}, a, d)) = Total(Of(R, a, d)) - r.amount
        /\ Total(Of(R \ {r}, a, d)) \in Nat /\ Total(Of(R, a, d)) \in Nat
    BY <1>2, <2>1, <2>2, TotalRemove, TotalType
  <2>7. Over(M, a, d) = Over(L, a, d)
                          + (IF cost > r.amount THEN cost - r.amount ELSE 0)
    BY <1>2, <2>1, <2>3, ExcessAdd DEF Over
  <2>8. D[a][d] = C[a][d] + cost
    BY <1>6, <1>8
  <2>9. /\ Used(R \ {r}, D, a, d) = C[a][d] + cost + (Total(Of(R, a, d)) - r.amount)
        /\ Used(R, C, a, d) = C[a][d] + Total(Of(R, a, d))
    BY <2>4, <2>6, <2>8 DEF Used
  <2>10. Used(R \ {r}, D, a, d) \in Nat /\ Used(R, C, a, d) \in Nat
    BY <2>4, <2>6, <2>8 DEF Used
  <2>11. Over(M, a, d) \in Nat
    BY <1>2, <2>3, <2>7
  <2>12. Used(R \ {r}, D, a, d) - Over(M, a, d) <= Used(R, C, a, d) - Over(L, a, d)
    BY <1>2, <2>3, <2>4, <2>6, <2>7, <2>9
  <2> QED
    BY <2>3, <2>4, <2>5, <2>8, <2>10, <2>11, <2>12
<1>9. ASSUME NEW a \in AgentIds, NEW d \in Days, ~(a = r.agent /\ d = r.date)
      PROVE  /\ D[a][d] = Total(Of(ChargesIn(M), a, d))
             /\ Used(R \ {r}, D, a, d) - Over(M, a, d)
                  <= Used(R, C, a, d) - Over(L, a, d)
             /\ Over(L, a, d) \in Nat /\ Over(M, a, d) \in Nat
             /\ Used(R, C, a, d) \in Nat /\ Used(R \ {r}, D, a, d) \in Nat
  <2>1. /\ Of(ChargesIn(M), a, d) = Of(ChargesIn(L), a, d)
        /\ Of(R \ {r}, a, d) = Of(R, a, d)
    BY <1>2, <1>9 DEF Of
  <2>2. Total(Of(R, a, d)) \in Nat
    BY <1>3, PartsFinite
  <2>3. Over(M, a, d) = Over(L, a, d) /\ Over(L, a, d) \in Nat
    BY <1>3, <2>1, ExcessPartsFinite DEF Over
  <2>4. C[a][d] = Total(Of(ChargesIn(L), a, d)) /\ C[a][d] \in Nat
    BY <1>4 DEF Consistent, Matches
  <2>5. D[a][d] = C[a][d]
    BY <1>6, <1>9
  <2>6. Used(R \ {r}, D, a, d) = Used(R, C, a, d) /\ Used(R, C, a, d) \in Nat
    BY <2>1, <2>2, <2>4, <2>5 DEF Used
  <2> QED
    BY <2>1, <2>3, <2>4, <2>5, <2>6
<1>10. Matches(D, M)
  BY <1>8, <1>9 DEF Matches
<1> QED
  BY <1>2, <1>7, <1>8, <1>9, <1>10 DEF Consistent, M, D, e, Freed

\* A release keeps the books consistent and frees what was reserved.
LEMMA Release ==
  ASSUME NEW R, NEW C, NEW L, Consistent(R, C, L), NEW r \in R
  PROVE  Freed(R, C, L, R \ {r}, C,
               L \cup {Event("RESERVATION_RELEASED", r, r.amount)})
<1> DEFINE e == Event("RESERVATION_RELEASED", r, r.amount)
           M == L \cup {e}
<1>1. /\ "RESERVATION_RELEASED" \in SettlementTypes
      /\ "RESERVATION_RELEASED" \notin ChargeTypes
  BY DEF SettlementTypes, EventTypes, ChargeTypes
<1>2. r.amount \in Nat
  BY AmountAssumption DEF Reservations, Consistent, BooksType
<1>3. Settling(R, L, r, "RESERVATION_RELEASED", r.amount)
  BY <1>1, <1>2, SettleBooks
<1>4. /\ e \in Events
      /\ ChargesIn(M) = ChargesIn(L)
      /\ Partition(R \ {r}, M)
      /\ Finite(R \ {r}, M)
  BY <1>1, <1>3 DEF Settling
<1> HIDE DEF e
<1>5. Consistent(R \ {r}, C, M)
  BY <1>4 DEF Consistent, BooksType, Matches
<1>6. ASSUME NEW a \in AgentIds, NEW d \in Days
      PROVE  /\ Used(R \ {r}, C, a, d) - Over(M, a, d)
                  <= Used(R, C, a, d) - Over(L, a, d)
             /\ Over(L, a, d) \in Nat /\ Over(M, a, d) \in Nat
             /\ Used(R, C, a, d) \in Nat /\ Used(R \ {r}, C, a, d) \in Nat
  <2>1. Of(R \ {r}, a, d) \subseteq Of(R, a, d)
    BY DEF Of
  <2>2. Summable(Of(R, a, d)) /\ Total(Of(R, a, d)) \in Nat
    BY PartsFinite DEF Consistent, Finite
  <2>3. /\ Total(Of(R \ {r}, a, d)) <= Total(Of(R, a, d))
        /\ Total(Of(R \ {r}, a, d)) \in Nat
    BY <2>1, <2>2, TotalSubset, TotalType
  <2>4. C[a][d] \in Nat
    BY DEF Consistent, BooksType
  <2>5. Over(M, a, d) = Over(L, a, d) /\ Over(L, a, d) \in Nat
    BY <1>4, ExcessPartsFinite DEF Over, Consistent, Finite
  <2>6. /\ Used(R \ {r}, C, a, d) \in Nat /\ Used(R, C, a, d) \in Nat
        /\ Used(R \ {r}, C, a, d) <= Used(R, C, a, d)
    BY <2>2, <2>3, <2>4 DEF Used
  <2> QED
    BY <2>5, <2>6
<1> QED
  BY <1>5, <1>6 DEF e, Freed

\* The counters after the reservations of S have become confirmed spend.
RecoverCharge(C, S) ==
  [a \in AgentIds |-> [d \in Days |-> C[a][d] + Total(Of(S, a, d))]]

Recoveries(S) == {Event("RESERVATION_RECOVERED", r, r.amount) : r \in S}

\* What the recovery of S does to the books: they become Q, D and M, in which no
\* budget is used more or less than before.
Moved(R, C, L, Q, D, M) ==
  /\ Consistent(Q, D, M)
  /\ IssuedIn(M) = IssuedIn(L)
  /\ \A a \in AgentIds, d \in Days :
       /\ Used(Q, D, a, d) = Used(R, C, a, d)
       /\ Over(M, a, d) = Over(L, a, d)
       /\ Over(L, a, d) \in Nat
       /\ Used(R, C, a, d) \in Nat

\* The recovery of any set of reservations keeps the books consistent and moves
\* money from reserved to confirmed.
LEMMA Recover ==
  ASSUME NEW R, NEW C, NEW L, Consistent(R, C, L), NEW S \in SUBSET R
  PROVE  Moved(R, C, L, R \ S, RecoverCharge(C, S), L \cup Recoveries(S))
<1> DEFINE E == Recoveries(S)
           M == L \cup E
           D == RecoverCharge(C, S)
           ev(r) == Event("RESERVATION_RECOVERED", r, r.amount)
<1>1. /\ R \subseteq Reservations /\ L \subseteq Events
      /\ C \in [AgentIds -> [Days -> Nat]]
  BY DEF Consistent, BooksType
<1>2. ASSUME NEW r \in S
      PROVE  /\ r \in R /\ r.amount \in Nat
             /\ ev(r) \in Events /\ ev(r).id = r.id /\ ev(r).agent = r.agent
             /\ ev(r).date = r.date /\ ev(r).amount = r.amount
             /\ ev(r).reserved = r.amount
             /\ ev(r).type = "RESERVATION_RECOVERED"
  BY <1>1, AmountAssumption DEF Event, Events, EventTypes, Reservations
<1> HIDE DEF ev
<1>3. E = {ev(r) : r \in S}
  BY DEF Recoveries, ev
<1> HIDE DEF E
<1>4. \A e \in E : /\ e \in Events /\ e.type = "RESERVATION_RECOVERED"
                   /\ e.amount \in Nat /\ e.reserved = e.amount
                   /\ \E r \in S : e = ev(r) /\ e.id = r.id
  BY <1>2, <1>3
<1>5. /\ ChargesIn(M) = ChargesIn(L) \cup E
      /\ SettlementsIn(M) = SettlementsIn(L) \cup E
  BY <1>4 DEF ChargesIn, ChargeTypes, SettlementsIn, SettlementTypes, EventTypes
<1>6. IssuedIn(M) = IssuedIn(L)
  BY <1>4 DEF IssuedIn
<1>7. /\ \A r, s \in R : r.id = s.id => r = s
      /\ \A r \in R, e \in SettlementsIn(L) : r.id # e.id
      /\ \A e, f \in SettlementsIn(L) : e.id = f.id => e = f
      /\ IssuedIn(L) = {r.id : r \in R} \cup {e.id : e \in SettlementsIn(L)}
  BY DEF Consistent, Partition
<1>8. ChargesIn(L) \subseteq SettlementsIn(L)
  BY DEF ChargesIn, ChargeTypes, SettlementsIn, SettlementTypes, EventTypes
<1>9. ChargesIn(L) \cap E = {}
  BY <1>4, <1>7, <1>8
<1> HIDE DEF M
<1>10. Partition(R \ S, M)
  <2>1. \A r \in R \ S, e \in SettlementsIn(M) : r.id # e.id
    BY <1>4, <1>5, <1>7
  <2>2. \A e, f \in SettlementsIn(M) : e.id = f.id => e = f
    BY <1>4, <1>5, <1>7
  <2>3. {e.id : e \in E} = {r.id : r \in S}
    BY <1>2, <1>3
  <2>4. {r.id : r \in R} = {r.id : r \in R \ S} \cup {r.id : r \in S}
    OBVIOUS
  <2>5. {e.id : e \in SettlementsIn(M)} =
          {e.id : e \in SettlementsIn(L)} \cup {e.id : e \in E}
    BY <1>5
  <2>6. IssuedIn(M) = {r.id : r \in R \ S} \cup {e.id : e \in SettlementsIn(M)}
    BY <1>6, <1>7, <2>3, <2>4, <2>5
  <2> QED
    BY <1>7, <2>1, <2>2, <2>6 DEF Partition
<1>11. Summable(R) /\ Summable(ChargesIn(L)) /\ ExcessSummable(ChargesIn(L))
  BY DEF Consistent, Finite
<1>12. ASSUME NEW T \in SUBSET S
       PROVE  /\ Summable({ev(r) : r \in T})
              /\ Total({ev(r) : r \in T}) = Total(T)
  <2> DEFINE f == [r \in T |-> ev(r)]
  <2>1. \A r, s \in T : ev(r) = ev(s) => r = s
    BY <1>2, <1>7
  <2>2. f \in Bijection(T, {ev(r) : r \in T})
    BY <2>1 DEF Bijection, Injection, Surjection, IsInjective
  <2>3. \A r \in T : f[r].amount = r.amount
    BY <1>2
  <2>4. Summable(T)
    BY <1>11, TotalSubset
  <2> QED
    BY <2>2, <2>3, <2>4, TotalRelabel
<1>13. Summable(E)
  BY <1>3, <1>12
<1>14. Finite(R \ S, M)
  <2>1. Summable(R \ S)
    BY <1>11, TotalSubset
  <2>2. Summable(ChargesIn(L) \cup E)
    BY <1>9, <1>11, <1>13, TotalUnion
  <2>3. ExcessSummable(ChargesIn(L) \cup E)
    BY <1>4, <1>11, ExcessNeutral
  <2> QED
    BY <1>5, <2>1, <2>2, <2>3 DEF Finite
<1>15. ASSUME NEW a \in AgentIds, NEW d \in Days
       PROVE  /\ D[a][d] = C[a][d] + Total(Of(S, a, d))
              /\ D[a][d] \in Nat
              /\ D[a][d] = Total(Of(ChargesIn(M), a, d))
              /\ Used(R \ S, D, a, d) = Used(R, C, a, d)
              /\ Over(M, a, d) = Over(L, a, d)
              /\ Over(L, a, d) \in Nat
              /\ Used(R, C, a, d) \in Nat
  <2>1. D[a][d] = C[a][d] + Total(Of(S, a, d))
    BY DEF RecoverCharge
  <2>2. Summable(S)
    BY <1>11, TotalSubset
  <2>3. /\ Summable(Of(S, a, d)) /\ Total(Of(S, a, d)) \in Nat
        /\ Summable(Of(R, a, d)) /\ Total(Of(R, a, d)) \in Nat
        /\ Summable(Of(R \ S, a, d)) /\ Total(Of(R \ S, a, d)) \in Nat
        /\ Summable(Of(ChargesIn(L), a, d)) /\ Summable(Of(E, a, d))
    BY <1>11, <1>13, <1>14, <2>2, PartsFinite DEF Finite
  <2>4. C[a][d] \in Nat /\ C[a][d] = Total(Of(ChargesIn(L), a, d))
    BY <1>1 DEF Consistent, Matches
  <2>5. Of(E, a, d) = {ev(r) : r \in Of(S, a, d)}
    BY <1>2, <1>3 DEF Of
  <2>6. Total(Of(E, a, d)) = Total(Of(S, a, d))
    <3>1. Of(S, a, d) \in SUBSET S
      BY DEF Of
    <3> QED
      BY <1>12, <2>5, <3>1
  <2>7. /\ Of(ChargesIn(M), a, d) = Of(ChargesIn(L), a, d) \cup Of(E, a, d)
        /\ Of(ChargesIn(L), a, d) \cap Of(E, a, d) = {}
    BY <1>5, <1>9 DEF Of
  <2>8. D[a][d] = Total(Of(ChargesIn(M), a, d))
    BY <2>1, <2>3, <2>4, <2>6, <2>7, TotalUnion
  <2>9. /\ Of(R, a, d) = Of(R \ S, a, d) \cup Of(S, a, d)
        /\ Of(R \ S, a, d) \cap Of(S, a, d) = {}
    BY DEF Of
  <2>10. Total(Of(R, a, d)) = Total(Of(R \ S, a, d)) + Total(Of(S, a, d))
    BY <2>3, <2>9, TotalUnion
  <2> HIDE DEF D
  <2>11. /\ Used(R \ S, D, a, d) = Used(R, C, a, d)
         /\ Used(R, C, a, d) \in Nat
         /\ D[a][d] \in Nat
    BY <2>1, <2>3, <2>4, <2>10 DEF Used
  <2>12. \A e \in Of(E, a, d) : e.amount \in Nat /\ e.reserved = e.amount
    BY <1>4 DEF Of
  <2>13. ExcessSummable(Of(ChargesIn(L), a, d)) /\ Over(L, a, d) \in Nat
    BY <1>11, ExcessPartsFinite DEF Over
  <2>14. Over(M, a, d) = Over(L, a, d)
    BY <2>7, <2>12, <2>13, ExcessNeutral DEF Over
  <2> QED
    BY <2>1, <2>8, <2>11, <2>13, <2>14
<1>16. D \in [AgentIds -> [Days -> Nat]]
  BY <1>15 DEF RecoverCharge
<1>17. BooksType(R \ S, D, M)
  BY <1>1, <1>4, <1>16 DEF BooksType, M
<1> QED
  BY <1>6, <1>10, <1>14, <1>15, <1>17 DEF Consistent, Matches, M, E, Moved

-----------------------------------------------------------------------------

\* What the budget of an agent allows: nothing until it is created.
Allowed(ag, a) ==
  IF ag[a] = NoAgent \/ ag[a].dailyBudget < 0 THEN 0 ELSE ag[a].dailyBudget

Bounded(ag, R, C, L) ==
  \A a \in AgentIds, d \in Days : Used(R, C, a, d) <= Allowed(ag, a) + Over(L, a, d)

\* The inductive invariant: consistent books within the bound.
IInv == TypeOK /\ Consistent(reservations, confirmed, ledger)
               /\ Bounded(agents, reservations, confirmed, ledger)

\* The parts of the invariant, in the words of the specification.
LEMMA IInvParts ==
  ASSUME IInv
  PROVE  BudgetBound /\ ConfirmedMatchesLedger /\ SettledExactlyOnce
<1>1. /\ Charges = ChargesIn(ledger) /\ Settlements = SettlementsIn(ledger)
      /\ IssuedIds = IssuedIn(ledger)
  BY DEF Charges, ChargesIn, ChargeTypes, Settlements, SettlementsIn, IssuedIds, IssuedIn
<1>2. ConfirmedMatchesLedger
  BY <1>1 DEF ConfirmedMatchesLedger, IInv, Consistent, Matches
<1>3. SettledExactlyOnce
  BY <1>1 DEF SettledExactlyOnce, IInv, Consistent, Partition
<1>4. ASSUME NEW a \in AgentIds
      PROVE  Allowed(agents, a) = IF a \in Created THEN DailyLimit(a) ELSE 0
  BY DEF Allowed, Created, DailyLimit
<1>5. \A a \in AgentIds, d \in Days :
        /\ Exposure(a, d) = Used(reservations, confirmed, a, d)
        /\ TotalExcess(Of(Charges, a, d)) = Over(ledger, a, d)
  BY <1>1 DEF Exposure, Used, Over
<1>6. BudgetBound
  BY <1>4, <1>5 DEF BudgetBound, IInv, Bounded
<1> QED
  BY <1>2, <1>3, <1>6

\* The limits are numbers that are not negative.
LEMMA AllowedType ==
  ASSUME NEW ag \in [AgentIds -> Agents \cup {NoAgent}], NEW a \in AgentIds
  PROVE  /\ Allowed(ag, a) \in Nat
         /\ ag[a] # NoAgent => /\ ag[a] \in Agents /\ ag[a].dailyBudget \in Int
                              /\ ag[a].dailyBudget <= Allowed(ag, a)
<1>1. CASE ag[a] = NoAgent
  BY <1>1 DEF Allowed
<1>2. CASE ag[a] # NoAgent
  <2>1. ag[a] \in Agents
    BY <1>2
  <2>2. ag[a].dailyBudget \in Int
    BY <2>1, AmountAssumption DEF Agents
  <2>3. \A n \in Int : /\ (IF n < 0 THEN 0 ELSE n) \in Nat
                       /\ n <= (IF n < 0 THEN 0 ELSE n)
    OBVIOUS
  <2>4. Allowed(ag, a) = IF ag[a].dailyBudget < 0 THEN 0 ELSE ag[a].dailyBudget
    BY <1>2 DEF Allowed
  <2> QED
    BY <1>2, <2>1, <2>2, <2>3, <2>4
<1> QED
  BY <1>1, <1>2

\* A change of anything but the budget of an agent keeps every limit.
LEMMA AllowedKept ==
  ASSUME NEW ag \in [AgentIds -> Agents \cup {NoAgent}], NEW b \in AgentIds,
         ag[b] # NoAgent, NEW x \in Agents, x.dailyBudget = ag[b].dailyBudget,
         NEW a \in AgentIds
  PROVE  Allowed([ag EXCEPT ![b] = x], a) = Allowed(ag, a)
BY NoAgentAssumption DEF Allowed

\* The recovery at the head of authorize and dashboard.
LEMMA Recovering ==
  ASSUME IInv
  PROVE  LET M == ledger \cup RecoveryEvents
         IN  /\ Consistent(Retained, RecoveredConfirmed, M)
             /\ Bounded(agents, Retained, RecoveredConfirmed, M)
             /\ IssuedIn(M) = IssuedIds
             /\ \A a \in AgentIds, d \in Days : Over(M, a, d) \in Nat
<1>1. Stale \in SUBSET reservations
  BY DEF Stale
<1>2. /\ Retained = reservations \ Stale
      /\ RecoveredConfirmed = RecoverCharge(confirmed, Stale)
      /\ RecoveryEvents = Recoveries(Stale)
      /\ IssuedIds = IssuedIn(ledger)
  BY DEF Retained, RecoveredConfirmed, RecoverCharge, RecoveryEvents, Recoveries,
         IssuedIds, IssuedIn
<1>3. Consistent(reservations, confirmed, ledger)
  BY DEF IInv
<1>4. Moved(reservations, confirmed, ledger,
            Retained, RecoveredConfirmed, ledger \cup RecoveryEvents)
  BY <1>1, <1>2, <1>3, Recover
<1>5. /\ Consistent(Retained, RecoveredConfirmed, ledger \cup RecoveryEvents)
      /\ IssuedIn(ledger \cup RecoveryEvents) = IssuedIds
      /\ \A a \in AgentIds, d \in Days :
           /\ Used(Retained, RecoveredConfirmed, a, d) = Used(reservations, confirmed, a, d)
           /\ Over(ledger \cup RecoveryEvents, a, d) = Over(ledger, a, d)
           /\ Over(ledger, a, d) \in Nat
  BY <1>2, <1>4 DEF Moved
<1>6. Bounded(agents, Retained, RecoveredConfirmed, ledger \cup RecoveryEvents)
  BY <1>5 DEF IInv, Bounded
<1> QED
  BY <1>5, <1>6

\* The books are empty at the start.
LEMMA InitIInv == Init => IInv
<1> SUFFICES ASSUME Init PROVE IInv
  OBVIOUS
<1>1. /\ reservations = {} /\ ledger = {} /\ issuedTokens = {} /\ now = 0
      /\ agents = [a \in AgentIds |-> NoAgent]
      /\ confirmed = [a \in AgentIds |-> [d \in Days |-> 0]]
  BY DEF Init
<1>2. TypeOK
  BY <1>1, ClockAssumption DEF TypeOK, Clock
<1>3. ChargesIn({}) = {} /\ SettlementsIn({}) = {} /\ IssuedIn({}) = {}
  BY DEF ChargesIn, SettlementsIn, IssuedIn
<1>4. \A a, d : Of({}, a, d) = {}
  BY DEF Of
<1>5. Consistent({}, confirmed, {})
  BY <1>1, <1>3, <1>4, TotalEmpty, ExcessEmpty
     DEF Consistent, BooksType, Partition, Finite, Matches
<1>6. Bounded(agents, {}, confirmed, {})
  BY <1>1, <1>3, <1>4, TotalEmpty, ExcessEmpty DEF Bounded, Used, Over, Allowed
<1> QED
  BY <1>1, <1>2, <1>5, <1>6 DEF IInv

-----------------------------------------------------------------------------

\* An admission keeps the invariant: the recovery moves no budget, and the new
\* reservation was compared with the limit after it.
LEMMA AdmitIInv ==
  ASSUME IInv, NEW a \in AgentIds, NEW model \in Models, NEW cost \in EstimatedCosts,
         NEW id \in ReservationIds, Admit(a, model, cost, id)
  PROVE  IInv'
<1> DEFINE r == [id |-> id, agent |-> a, date |-> utcDate, amount |-> cost,
                 createdAt |-> now]
           M == ledger \cup RecoveryEvents
<1>1. /\ now \in Clock /\ utcDate \in Days
      /\ agents \in [AgentIds -> Agents \cup {NoAgent}]
  BY DateAssumption DEF IInv, TypeOK, utcDate
<1>2. r \in Reservations /\ r.id = id /\ r.amount = cost /\ r.agent = a /\ r.date = utcDate
  BY <1>1 DEF Reservations
<1> HIDE DEF r
<1>3. /\ agents[a] # NoAgent
      /\ FitsDailyBudget(a, cost)
      /\ id \notin IssuedIds
      /\ reservations' = Retained \cup {r}
      /\ confirmed' = RecoveredConfirmed
      /\ ledger' = M \cup {Event("BUDGET_RESERVED", r, r.amount)}
      /\ UNCHANGED <<agents, issuedTokens, now>>
  BY <1>2 DEF Admit, Created, r
<1>4. /\ Consistent(Retained, RecoveredConfirmed, M)
      /\ Bounded(agents, Retained, RecoveredConfirmed, M)
      /\ IssuedIn(M) = IssuedIds
      /\ \A b \in AgentIds, d \in Days : Over(M, b, d) \in Nat
  BY Recovering
<1> HIDE DEF M
<1>5. /\ Consistent(reservations', confirmed', ledger')
      /\ \A b \in AgentIds, d \in Days :
           /\ Used(reservations', confirmed', b, d) =
                Used(Retained, RecoveredConfirmed, b, d)
                  + (IF b = r.agent /\ d = r.date THEN r.amount ELSE 0)
           /\ Over(ledger', b, d) = Over(M, b, d)
  <2>1. Added(Retained, RecoveredConfirmed, M, r, Retained \cup {r},
              M \cup {Event("BUDGET_RESERVED", r, r.amount)})
    BY <1>2, <1>3, <1>4, Reserve
  <2> QED
    BY <1>3, <2>1 DEF Added
<1>6. ASSUME NEW b \in AgentIds, NEW d \in Days
      PROVE  Used(reservations', confirmed', b, d) <= Allowed(agents', b) + Over(ledger', b, d)
  <2>1. /\ Allowed(agents, b) \in Nat
        /\ b = a => agents[a].dailyBudget \in Int /\ agents[a].dailyBudget <= Allowed(agents, b)
    BY <1>1, <1>3, AllowedType
  <2>2. Over(M, b, d) \in Nat /\ Over(ledger', b, d) = Over(M, b, d)
    BY <1>4, <1>5
  <2>3. Used(Retained, RecoveredConfirmed, b, d) \in Nat
    BY <1>4, PartsFinite DEF Used, Consistent, BooksType, Finite
  <2>4. CASE b = a /\ d = utcDate
    <3>1. cost \in Nat
      BY AmountAssumption
    <3>2. Used(Retained, RecoveredConfirmed, b, d) + cost <= agents[a].dailyBudget
      BY <1>3, <2>4 DEF FitsDailyBudget, Used
    <3>3. Used(reservations', confirmed', b, d) =
            Used(Retained, RecoveredConfirmed, b, d) + cost
      BY <1>2, <1>5, <2>4
    <3> QED
      BY <1>3, <2>1, <2>2, <2>3, <2>4, <3>1, <3>2, <3>3
  <2>5. CASE ~(b = a /\ d = utcDate)
    <3>1. Used(reservations', confirmed', b, d) = Used(Retained, RecoveredConfirmed, b, d)
      BY <1>2, <1>5, <2>3, <2>5
    <3> QED
      BY <1>3, <1>4, <2>2, <3>1 DEF Bounded
  <2> QED
    BY <2>4, <2>5
<1>7. TypeOK'
  BY <1>3, <1>5 DEF IInv, TypeOK, Consistent, BooksType
<1> QED
  BY <1>5, <1>6, <1>7 DEF IInv, Bounded

\* A recovery alone keeps the invariant (dashboard, and a refused authorize).
LEMMA RecoveryIInv ==
  ASSUME IInv, recoverStaleReservations, UNCHANGED <<agents, issuedTokens, now>>
  PROVE  IInv'
<1>1. /\ Consistent(reservations', confirmed', ledger')
      /\ Bounded(agents', reservations', confirmed', ledger')
  BY Recovering DEF recoverStaleReservations
<1>2. TypeOK'
  BY <1>1 DEF IInv, TypeOK, Consistent, BooksType
<1> QED
  BY <1>1, <1>2 DEF IInv

\* A step that changes agents but no budget and no books keeps the invariant.
LEMMA AgentsIInv ==
  ASSUME IInv, UNCHANGED <<confirmed, reservations, ledger, now>>,
         agents' \in [AgentIds -> Agents \cup {NoAgent}], issuedTokens' \subseteq Tokens,
         \A a \in AgentIds : Allowed(agents, a) <= Allowed(agents', a)
  PROVE  IInv'
<1>1. TypeOK'
  BY DEF IInv, TypeOK
<1>2. ASSUME NEW a \in AgentIds, NEW d \in Days
      PROVE  Used(reservations, confirmed, a, d) <= Allowed(agents', a) + Over(ledger, a, d)
  <2>1. Allowed(agents, a) \in Nat /\ Allowed(agents', a) \in Nat
    BY AllowedType DEF IInv, TypeOK
  <2>2. Used(reservations, confirmed, a, d) \in Nat /\ Over(ledger, a, d) \in Nat
    BY PartsFinite, ExcessPartsFinite
       DEF Used, Over, IInv, Consistent, BooksType, Finite
  <2>3. Used(reservations, confirmed, a, d) <= Allowed(agents, a) + Over(ledger, a, d)
    BY DEF IInv, Bounded
  <2> QED
    BY <2>1, <2>2, <2>3
<1> QED
  BY <1>1, <1>2 DEF IInv, Bounded

\* Replacing the record of an agent by one with the same budget keeps it.
LEMMA ReplaceIInv ==
  ASSUME IInv, NEW a \in AgentIds, agents[a] # NoAgent, NEW x \in Agents,
         x.dailyBudget = agents[a].dailyBudget,
         agents' = [agents EXCEPT ![a] = x], issuedTokens' \subseteq Tokens,
         UNCHANGED <<confirmed, reservations, ledger, now>>
  PROVE  IInv'
<1>1. agents \in [AgentIds -> Agents \cup {NoAgent}]
  BY DEF IInv, TypeOK
<1>2. agents' \in [AgentIds -> Agents \cup {NoAgent}]
  BY <1>1
<1>3. \A b \in AgentIds : Allowed(agents', b) = Allowed(agents, b)
  BY <1>1, AllowedKept
<1>4. \A b \in AgentIds : Allowed(agents, b) \in Nat
  BY <1>1, AllowedType
<1>5. ASSUME NEW b \in AgentIds
      PROVE  Allowed(agents, b) <= Allowed(agents', b)
  <2>1. \A n \in Nat : n <= n
    OBVIOUS
  <2> QED
    BY <1>3, <1>4, <2>1, Zenon
<1> QED
  BY <1>2, <1>5, AgentsIInv

\* addAgent raises the limit of the new agent from nothing.
LEMMA AddAgentIInv ==
  ASSUME IInv, NEW a \in AgentIds, NEW token \in Tokens, NEW allowed \in SUBSET Models,
         NEW budget \in DailyBudgets, NEW maxRequest \in MaxRequests \cup {NoLimit},
         addAgent(a, token, allowed, budget, maxRequest)
  PROVE  IInv'
<1> DEFINE x == [status |-> "active", archived |-> FALSE, token |-> token,
                 allowedModels |-> allowed, dailyBudget |-> budget,
                 maxRequest |-> maxRequest]
<1>1. x \in Agents
  BY DEF Agents, Statuses
<1>2. /\ agents[a] = NoAgent
      /\ agents' = [agents EXCEPT ![a] = x]
      /\ issuedTokens' = issuedTokens \cup {token}
      /\ UNCHANGED <<confirmed, reservations, ledger, now>>
  BY DEF addAgent
<1> HIDE DEF x
<1>3. agents \in [AgentIds -> Agents \cup {NoAgent}] /\ issuedTokens \subseteq Tokens
  BY DEF IInv, TypeOK
<1>4. agents' \in [AgentIds -> Agents \cup {NoAgent}] /\ issuedTokens' \subseteq Tokens
  BY <1>1, <1>2, <1>3
<1>5. ASSUME NEW b \in AgentIds
      PROVE  Allowed(agents, b) <= Allowed(agents', b)
  <2>1. Allowed(agents, b) \in Nat /\ Allowed(agents', b) \in Nat
    BY <1>3, <1>4, AllowedType
  <2>2. b = a => Allowed(agents, b) = 0
    BY <1>2 DEF Allowed
  <2>3. b # a => Allowed(agents', b) = Allowed(agents, b)
    BY <1>2, <1>3 DEF Allowed
  <2> QED
    BY <2>1, <2>2, <2>3
<1> QED
  BY <1>2, <1>4, <1>5, AgentsIInv

\* setStatus keeps the budget of its agent.
LEMMA SetStatusIInv ==
  ASSUME IInv, NEW a \in AgentIds, NEW status \in Statuses, setStatus(a, status)
  PROVE  IInv'
<1>1. agents \in [AgentIds -> Agents \cup {NoAgent}] /\ issuedTokens \subseteq Tokens
  BY DEF IInv, TypeOK
<1>2. agents[a] # NoAgent /\ agents[a] \in Agents
  BY <1>1 DEF setStatus, Created
<1> DEFINE x == [agents[a] EXCEPT !.status = status]
<1>3. x \in Agents /\ x.dailyBudget = agents[a].dailyBudget
  BY <1>2 DEF Agents
<1>4. agents' = [agents EXCEPT ![a] = x]
  BY <1>1 DEF setStatus
<1>5. issuedTokens' \subseteq Tokens /\ UNCHANGED <<confirmed, reservations, ledger, now>>
  BY <1>1 DEF setStatus
<1> HIDE DEF x
<1> QED
  BY <1>2, <1>3, <1>4, <1>5, ReplaceIInv

\* archiveAgent keeps the budget of its agent.
LEMMA ArchiveIInv ==
  ASSUME IInv, NEW a \in AgentIds, archiveAgent(a)
  PROVE  IInv'
<1>1. agents \in [AgentIds -> Agents \cup {NoAgent}] /\ issuedTokens \subseteq Tokens
  BY DEF IInv, TypeOK
<1>2. agents[a] # NoAgent /\ agents[a] \in Agents
  BY <1>1 DEF archiveAgent, Created
<1> DEFINE x == [agents[a] EXCEPT !.archived = TRUE]
<1>3. x \in Agents /\ x.dailyBudget = agents[a].dailyBudget
  BY <1>2 DEF Agents
<1>4. agents' = [agents EXCEPT ![a] = x]
  BY <1>1 DEF archiveAgent
<1>5. issuedTokens' \subseteq Tokens /\ UNCHANGED <<confirmed, reservations, ledger, now>>
  BY <1>1 DEF archiveAgent
<1> HIDE DEF x
<1> QED
  BY <1>2, <1>3, <1>4, <1>5, ReplaceIInv

\* rotateAgentToken keeps the budget of its agent.
LEMMA RotateIInv ==
  ASSUME IInv, NEW a \in AgentIds, NEW token \in Tokens, rotateAgentToken(a, token)
  PROVE  IInv'
<1>1. agents \in [AgentIds -> Agents \cup {NoAgent}] /\ issuedTokens \subseteq Tokens
  BY DEF IInv, TypeOK
<1>2. agents[a] # NoAgent /\ agents[a] \in Agents
  BY <1>1 DEF rotateAgentToken, Created
<1> DEFINE x == [agents[a] EXCEPT !.token = token]
<1>3. x \in Agents /\ x.dailyBudget = agents[a].dailyBudget
  BY <1>2 DEF Agents
<1>4. agents' = [agents EXCEPT ![a] = x]
  BY <1>1 DEF rotateAgentToken
<1>5. issuedTokens' \subseteq Tokens /\ UNCHANGED <<confirmed, reservations, ledger, now>>
  BY <1>1 DEF rotateAgentToken
<1> HIDE DEF x
<1> QED
  BY <1>2, <1>3, <1>4, <1>5, ReplaceIInv

\* A settlement that frees the books keeps them within the limits.
LEMMA FreedBounded ==
  ASSUME IInv, NEW Q, NEW D, NEW M, NEW ag \in [AgentIds -> Agents \cup {NoAgent}],
         Freed(reservations, confirmed, ledger, Q, D, M),
         \A a \in AgentIds : Allowed(ag, a) = Allowed(agents, a)
  PROVE  Consistent(Q, D, M) /\ Bounded(ag, Q, D, M)
<1>1. ASSUME NEW a \in AgentIds, NEW d \in Days
      PROVE  Used(Q, D, a, d) <= Allowed(ag, a) + Over(M, a, d)
  <2>1. Allowed(ag, a) \in Nat /\ Allowed(ag, a) = Allowed(agents, a)
    BY AllowedType
  <2>2. /\ Used(Q, D, a, d) - Over(M, a, d)
             <= Used(reservations, confirmed, a, d) - Over(ledger, a, d)
        /\ Over(ledger, a, d) \in Nat /\ Over(M, a, d) \in Nat
        /\ Used(reservations, confirmed, a, d) \in Nat /\ Used(Q, D, a, d) \in Nat
    BY DEF Freed
  <2>3. Used(reservations, confirmed, a, d) <= Allowed(agents, a) + Over(ledger, a, d)
    BY DEF IInv, Bounded
  <2> QED
    BY <2>1, <2>2, <2>3
<1> QED
  BY <1>1 DEF Freed, Bounded

\* confirm keeps the invariant, with or without the disabling of the agent.
LEMMA ConfirmIInv ==
  ASSUME IInv, NEW id, NEW cost \in ReportedCosts, confirm(id, cost)
  PROVE  IInv'
<1>1. CASE UNCHANGED vars
  BY <1>1 DEF vars, IInv, TypeOK, Clock
<1>2. CASE \E r \in reservations :
             /\ reservations' = reservations \ {r}
             /\ confirmed' = [confirmed EXCEPT ![r.agent][r.date] = @ + cost]
             /\ ledger' = ledger \cup {Event("SPEND_CONFIRMED", r, cost)}
             /\ agents' = IF cost > r.amount /\ r.agent \in Created
                          THEN [agents EXCEPT ![r.agent].status = "disabled"]
                          ELSE agents
             /\ UNCHANGED <<issuedTokens, now>>
  <2>1. PICK r \in reservations :
          /\ reservations' = reservations \ {r}
          /\ confirmed' = Charge(confirmed, r, cost)
          /\ ledger' = ledger \cup {Event("SPEND_CONFIRMED", r, cost)}
          /\ agents' = IF cost > r.amount /\ r.agent \in Created
                       THEN [agents EXCEPT ![r.agent].status = "disabled"]
                       ELSE agents
          /\ UNCHANGED <<issuedTokens, now>>
    BY <1>2 DEF Charge
  <2>2. cost \in Nat
    BY AmountAssumption
  <2>3. Freed(reservations, confirmed, ledger, reservations', confirmed', ledger')
    BY <2>1, <2>2, Confirm DEF IInv
  <2>4. /\ agents \in [AgentIds -> Agents \cup {NoAgent}]
        /\ r.agent \in AgentIds
    BY DEF IInv, TypeOK, Reservations
  <2>5. /\ agents' \in [AgentIds -> Agents \cup {NoAgent}]
        /\ \A a \in AgentIds : Allowed(agents', a) = Allowed(agents, a)
    <3>1. CASE agents' = agents
      BY <2>4, <3>1
    <3>2. CASE /\ r.agent \in Created
               /\ agents' = [agents EXCEPT ![r.agent].status = "disabled"]
      <4> DEFINE x == [agents[r.agent] EXCEPT !.status = "disabled"]
      <4>1. agents[r.agent] # NoAgent /\ agents[r.agent] \in Agents
        BY <2>4, <3>2 DEF Created
      <4>2. x \in Agents /\ x.dailyBudget = agents[r.agent].dailyBudget
        BY <4>1 DEF Agents, Statuses
      <4>3. agents' = [agents EXCEPT ![r.agent] = x]
        BY <2>4, <3>2
      <4> HIDE DEF x
      <4>4. agents' \in [AgentIds -> Agents \cup {NoAgent}]
        BY <2>4, <4>2, <4>3
      <4>5. ASSUME NEW b \in AgentIds, b = r.agent, NEW a \in AgentIds
            PROVE  Allowed([agents EXCEPT ![b] = x], a) = Allowed(agents, a)
        BY <2>4, <4>1, <4>2, <4>5, AllowedKept
      <4> QED
        BY <2>4, <4>3, <4>4, <4>5
    <3> QED
      BY <2>1, <3>1, <3>2
  <2>6. /\ Consistent(reservations', confirmed', ledger')
        /\ Bounded(agents', reservations', confirmed', ledger')
    BY <2>3, <2>5, FreedBounded
  <2>7. TypeOK'
    BY <2>1, <2>5, <2>6 DEF IInv, TypeOK, Consistent, BooksType
  <2> QED
    BY <2>6, <2>7 DEF IInv
<1> QED
  BY <1>1, <1>2 DEF confirm

\* release keeps the invariant.
LEMMA ReleaseIInv ==
  ASSUME IInv, NEW id, release(id)
  PROVE  IInv'
<1>1. CASE UNCHANGED vars
  BY <1>1 DEF vars, IInv, TypeOK, Clock
<1>2. CASE \E r \in reservations :
             /\ reservations' = reservations \ {r}
             /\ ledger' = ledger \cup {Event("RESERVATION_RELEASED", r, r.amount)}
             /\ UNCHANGED <<agents, issuedTokens, confirmed, now>>
  <2>1. PICK r \in reservations :
          /\ reservations' = reservations \ {r}
          /\ ledger' = ledger \cup {Event("RESERVATION_RELEASED", r, r.amount)}
          /\ UNCHANGED <<agents, issuedTokens, confirmed, now>>
    BY <1>2
  <2>2. Freed(reservations, confirmed, ledger, reservations', confirmed', ledger')
    BY <2>1, Release DEF IInv
  <2>3. agents' \in [AgentIds -> Agents \cup {NoAgent}] /\ agents' = agents
    BY <2>1 DEF IInv, TypeOK
  <2>4. /\ Consistent(reservations', confirmed', ledger')
        /\ Bounded(agents', reservations', confirmed', ledger')
    BY <2>2, <2>3, FreedBounded
  <2>5. TypeOK'
    BY <2>1, <2>4 DEF IInv, TypeOK, Consistent, BooksType
  <2> QED
    BY <2>4, <2>5 DEF IInv
<1> QED
  BY <1>1, <1>2 DEF release

\* The passing of time leaves the books alone.
LEMMA TickIInv == IInv /\ Tick => IInv'
<1> SUFFICES ASSUME IInv, Tick PROVE IInv'
  OBVIOUS
<1>1. now' \in Clock
  <2>1. \A m, n \in Nat : n \in 0..m /\ n < m => n + 1 \in 0..m
    OBVIOUS
  <2>2. now \in 0..MaxClock /\ now \in Nat
    BY ClockAssumption DEF IInv, TypeOK, Clock
  <2> QED
    BY <2>1, <2>2, ClockAssumption DEF Tick, Clock
<1> QED
  BY <1>1 DEF Tick, IInv, TypeOK

-----------------------------------------------------------------------------

\* Every step of the coordinator keeps the invariant.
LEMMA NextIInv == IInv /\ [Next]_vars => IInv'
<1> SUFFICES ASSUME IInv, [Next]_vars PROVE IInv'
  OBVIOUS
<1>1. CASE authorize
  <2>1. PICK model \in Models, cost \in EstimatedCosts :
          \/ \E a \in AgentIds, id \in ReservationIds : Admit(a, model, cost, id)
          \/ \E token \in Tokens : Refuse(token, model, cost)
    BY <1>1 DEF authorize
  <2>2. ASSUME NEW a \in AgentIds, NEW id \in ReservationIds, Admit(a, model, cost, id)
        PROVE  IInv'
    BY <2>2, AdmitIInv
  <2>3. ASSUME NEW token \in Tokens, Refuse(token, model, cost)
        PROVE  IInv'
    BY <2>3, RecoveryIInv DEF Refuse
  <2> QED
    BY <2>1, <2>2, <2>3
<1>2. CASE settle
  <2>1. ASSUME NEW id \in IssuedIds, release(id)
        PROVE  IInv'
    BY <2>1, ReleaseIInv
  <2>2. ASSUME NEW id \in IssuedIds, NEW cost \in ReportedCosts, confirm(id, cost)
        PROVE  IInv'
    BY <2>2, ConfirmIInv
  <2> QED
    BY <1>2, <2>1, <2>2 DEF settle
<1>3. CASE administer
  BY <1>3, AddAgentIInv, SetStatusIInv, ArchiveIInv, RotateIInv DEF administer
<1>4. CASE dashboard
  BY <1>4, RecoveryIInv DEF dashboard
<1>5. CASE Tick
  BY <1>5, TickIInv
<1>6. CASE UNCHANGED vars
  BY <1>6 DEF vars, IInv, TypeOK, Clock
<1> QED
  BY <1>1, <1>2, <1>3, <1>4, <1>5, <1>6 DEF Next

\* The inductive invariant: every operation of authorize, confirm, release,
\* dashboard and the administration of agents keeps it.
THEOREM Invariance == Spec => []IInv
<1> QED
  BY InitIInv, NextIInv, PTL DEF Spec

\* The variables of the coordinator keep their types, confirmedMicroUsd its sign.
THEOREM TypeCorrect == Spec => []TypeOK
<1>1. IInv => TypeOK
  BY DEF IInv
<1> QED
  BY <1>1, Invariance, PTL

\* The daily budget holds, apart from what providers reported above their bounds.
THEOREM BudgetHolds == Spec => []BudgetBound
<1>1. IInv => BudgetBound
  BY IInvParts
<1> QED
  BY <1>1, Invariance, PTL

\* The confirmed counters are what the ledger says was charged.
THEOREM CountersMatchLedger == Spec => []ConfirmedMatchesLedger
<1>1. IInv => ConfirmedMatchesLedger
  BY IInvParts
<1> QED
  BY <1>1, Invariance, PTL

\* Every reservation is outstanding or settled once.
THEOREM OneSettlement == Spec => []SettledExactlyOnce
<1>1. IInv => SettledExactlyOnce
  BY IInvParts
<1> QED
  BY <1>1, Invariance, PTL

\* The reservation of an admission fits the daily budget, with the stale ones charged.
LEMMA AdmitFits ==
  ASSUME IInv, NEW a \in AgentIds, NEW model \in Models, NEW cost \in EstimatedCosts,
         NEW id \in ReservationIds, Admit(a, model, cost, id)
  PROVE  confirmed'[a][utcDate] + Total(Of(reservations', a, utcDate)) <= agents[a].dailyBudget
<1>1. PICK r : r = [id |-> id, agent |-> a, date |-> utcDate, amount |-> cost,
                    createdAt |-> now]
  OBVIOUS
<1>2. /\ r.id = id /\ r.agent = a /\ r.date = utcDate /\ r.amount = cost
      /\ utcDate \in Days /\ cost \in Nat
  BY <1>1, DateAssumption, AmountAssumption DEF IInv, TypeOK, utcDate
<1>3. /\ a \in Created /\ FitsDailyBudget(a, cost) /\ id \notin IssuedIds
      /\ reservations' = Retained \cup {r} /\ confirmed' = RecoveredConfirmed
  BY <1>1 DEF Admit
<1>4. Summable(Retained) /\ r \notin Retained
  <2>1. Summable(reservations) /\ Retained \subseteq reservations
    BY DEF IInv, Consistent, Finite, Retained
  <2>2. r \notin reservations
    BY <1>2, <1>3 DEF IInv, Consistent, Partition, IssuedIds, IssuedIn
  <2> QED
    BY <2>1, <2>2, TotalSubset
<1> DEFINE R == Of(Retained, a, utcDate)
<1>5. Summable(R) /\ Total(R) \in Nat /\ r \notin R
  <2>1. r \notin R
    BY <1>4 DEF Of
  <2> QED
    BY <1>4, <2>1, PartsFinite
<1>6. Of(reservations', a, utcDate) = R \cup {r}
  BY <1>2, <1>3 DEF Of
<1>7. Total(Of(reservations', a, utcDate)) = Total(R) + cost
  BY <1>2, <1>5, <1>6, TotalAdd
<1>8. RecoveredConfirmed[a][utcDate] + Total(R) + cost <= agents[a].dailyBudget
  BY <1>3 DEF FitsDailyBudget
<1>9. RecoveredConfirmed[a][utcDate] \in Nat /\ agents[a].dailyBudget \in Int
  <2>1. RecoveredConfirmed[a][utcDate] \in Nat
    BY <1>2, Recovering DEF Consistent, BooksType
  <2> QED
    BY <1>3, <2>1, AllowedType DEF Created, IInv, TypeOK
<1> HIDE DEF R
<1> QED
  BY <1>2, <1>3, <1>5, <1>7, <1>8, <1>9

\* What an admission takes out of the reservations it charges to their budgets.
LEMMA AdmitCharges ==
  ASSUME IInv, NEW a \in AgentIds, NEW model \in Models, NEW cost \in EstimatedCosts,
         NEW id \in ReservationIds, Admit(a, model, cost, id)
  PROVE  \A b \in AgentIds, d \in Days :
           confirmed'[b][d] = confirmed[b][d] + Total(Of(reservations \ reservations', b, d))
<1>1. PICK r : /\ reservations' = Retained \cup {r} /\ r.id = id
               /\ confirmed' = RecoveredConfirmed /\ id \notin IssuedIds
  BY DEF Admit
<1>2. r \notin reservations
  BY <1>1 DEF IInv, Consistent, Partition, IssuedIds, IssuedIn
<1>3. reservations \ reservations' = Stale
  BY <1>1, <1>2 DEF Retained, Stale
<1> QED
  BY <1>1, <1>3 DEF RecoveredConfirmed

\* A reservation is made on books on which every stale one, of any agent and day, is
\* confirmed spend of its own budget, and fits the daily budget beside that spend.
THEOREM RecoveredBeforeAdmission == Spec => AdmissionAfterRecovery
<1> DEFINE Decided ==
      \A r \in reservations' \ reservations :
        /\ \A s \in reservations' : s.createdAt >= now - StaleAfter
        /\ \A a \in AgentIds, d \in Days :
             confirmed'[a][d] = confirmed[a][d] + Total(Of(reservations \ reservations', a, d))
        /\ confirmed'[r.agent][r.date] + Total(Of(reservations', r.agent, r.date))
             <= agents[r.agent].dailyBudget
<1>1. IInv /\ [Next]_vars => Decided
  <2> SUFFICES ASSUME IInv, [Next]_vars PROVE Decided
    OBVIOUS
  <2>1. ASSUME NEW a \in AgentIds, NEW model \in Models, NEW cost \in EstimatedCosts,
               NEW id \in ReservationIds, Admit(a, model, cost, id)
        PROVE  Decided
    <3>1. now \in Nat /\ StaleAfter \in Nat
      BY ClockAssumption DEF IInv, TypeOK, Clock
    <3>2. ASSUME NEW r \in Retained
          PROVE  r.createdAt >= now - StaleAfter
      <4>1. r \in Reservations /\ ~(r.createdAt < now - StaleAfter)
        BY DEF Retained, Stale, IInv, TypeOK
      <4>2. r.createdAt \in Int
        BY <4>1, ClockAssumption DEF Reservations, Clock
      <4> QED BY <3>1, <4>1, <4>2
    <3>3. \A r \in reservations' : \/ r \in Retained
                                   \/ r.createdAt = now /\ r.agent = a /\ r.date = utcDate
      BY <2>1 DEF Admit
    <3>4. Retained \subseteq reservations
      BY DEF Retained
    <3>5. \A s \in reservations' : s.createdAt >= now - StaleAfter
      BY <3>1, <3>2, <3>3
    <3>6. \A r \in reservations' \ reservations : r.agent = a /\ r.date = utcDate
      BY <3>3, <3>4
    <3> QED BY <2>1, <3>5, <3>6, AdmitFits, AdmitCharges
  <2>2. CASE reservations' \subseteq reservations
    BY <2>2
  <2>3. CASE recoverStaleReservations
    BY <2>2, <2>3 DEF recoverStaleReservations, Retained
  <2>4. CASE settle
    BY <2>2, <2>4 DEF settle, release, confirm, vars
  <2>5. CASE administer \/ Tick \/ UNCHANGED vars
    BY <2>2, <2>5 DEF administer, addAgent, setStatus, archiveAgent, rotateAgentToken, Tick, vars
  <2> QED
    BY <2>1, <2>3, <2>4, <2>5 DEF Next, authorize, Refuse, dashboard
<1>2. [][Decided]_vars <=> AdmissionAfterRecovery
  BY PTL DEF AdmissionAfterRecovery
<1> QED
  BY <1>1, <1>2, Invariance, PTL DEF Spec

\* The budget of a past day that has nothing outstanding never changes again.
THEOREM ClosedDays == Spec => ClosedDayIsFrozen
<1> DEFINE Closed(a, d) == d # utcDate /\ Of(reservations, a, d) = {}
           Frozen(a, d) == /\ confirmed'[a][d] = confirmed[a][d]
                           /\ Of(reservations', a, d) = {}
           Kept == \A a \in AgentIds, d \in Days : Closed(a, d) => Frozen(a, d)
<1>1. IInv /\ [Next]_vars => Kept
  <2> SUFFICES ASSUME IInv, [Next]_vars, NEW a \in AgentIds, NEW d \in Days, Closed(a, d)
               PROVE  Frozen(a, d)
    OBVIOUS
  <2>1. /\ confirmed \in [AgentIds -> [Days -> Nat]] /\ reservations \subseteq Reservations
        /\ \A r \in reservations : ~(r.agent = a /\ r.date = d)
    BY DEF IInv, TypeOK, Of
  <2>2. RecoveredConfirmed[a][d] = confirmed[a][d] /\ Of(Retained, a, d) = {}
    <3>1. Of(Stale, a, d) = {} /\ Of(Retained, a, d) = {}
      BY <2>1 DEF Of, Stale, Retained
    <3>2. RecoveredConfirmed[a][d] = confirmed[a][d] + 0
      BY <3>1, TotalEmpty DEF RecoveredConfirmed
    <3>3. confirmed[a][d] \in Nat
      BY <2>1
    <3> QED BY <3>1, <3>2, <3>3
  <2>3. ASSUME NEW b \in AgentIds, NEW model \in Models, NEW cost \in EstimatedCosts,
               NEW id \in ReservationIds, Admit(b, model, cost, id)
        PROVE  Frozen(a, d)
    BY <2>2, <2>3 DEF Admit, Of
  <2>4. CASE recoverStaleReservations
    BY <2>2, <2>4 DEF recoverStaleReservations
  <2>5. CASE UNCHANGED <<reservations, confirmed>>
    BY <2>5 DEF Of
  <2>6. ASSUME NEW id, release(id)
        PROVE  Frozen(a, d)
    BY <2>1, <2>6 DEF release, Of, vars
  <2>7. ASSUME NEW id, NEW cost \in ReportedCosts, confirm(id, cost)
        PROVE  Frozen(a, d)
    <3>1. CASE UNCHANGED vars
      BY <2>5, <3>1 DEF vars
    <3>2. ASSUME NEW r \in reservations, reservations' = reservations \ {r},
                 confirmed' = [confirmed EXCEPT ![r.agent][r.date] = @ + cost]
          PROVE  Frozen(a, d)
      <4>1. r.agent \in AgentIds /\ r.date \in Days /\ (r.agent # a \/ r.date # d)
        BY <2>1 DEF Reservations
      <4>2. confirmed'[a][d] = confirmed[a][d]
        BY <2>1, <3>2, <4>1
      <4>3. Of(reservations', a, d) = {}
        BY <2>1, <3>2 DEF Of
      <4> QED BY <4>2, <4>3
    <3> QED BY <2>7, <3>1, <3>2 DEF confirm
  <2>8. CASE administer \/ Tick \/ UNCHANGED vars
    BY <2>5, <2>8 DEF administer, addAgent, setStatus, archiveAgent, rotateAgentToken, Tick, vars
  <2> QED
    BY <2>3, <2>4, <2>6, <2>7, <2>8 DEF Next, authorize, settle, Refuse, dashboard
<1>2. [][Kept]_vars <=> ClosedDayIsFrozen
  BY PTL DEF ClosedDayIsFrozen
<1> QED
  BY <1>1, <1>2, Invariance, PTL DEF Spec

-----------------------------------------------------------------------------

\* The account adds up as the coordinator does.
LEMMA AccountTotal == ASSUME NEW S PROVE Account!Total(S) = Total(S)
<1>1. ASSUME NEW T PROVE Account!Cardinality(T) = Cardinality(T)
  BY Zenon DEF Account!Cardinality, Cardinality
<1>2. Account!Units(S) = Units(S)
  BY DEF Account!Units, Units
<1> QED
  BY <1>1, <1>2 DEF Total, Account!Total

\* The limits of the account are the limits of the invariant.
LEMMA LimitIs ==
  ASSUME NEW a \in AgentIds
  PROVE  AccountLimit[a] = Allowed(agents, a)
BY DEF AccountLimit, DailyLimit, Allowed

\* S ends, in the settlements E, and B, at most one reservation that fits, begins.
Uses(S, E, B) ==
  /\ reservations' = (reservations \ S) \cup B /\ Settlements' = Settlements \cup E
  /\ \A e \in E : \E x \in S : Account!Closes(e, x)
  /\ \A x \in S : \E e \in E : Account!Closes(e, x)
  /\ \A e, f \in E : e.id = f.id => e = f
  /\ \A h, k \in B : h = k
  /\ \A h \in B : /\ \A x \in reservations \cup Settlements : x.id # h.id
                  /\ Account!Used(h.agent, h.date)' <= AccountLimit[h.agent]
  /\ AccountLimit' = AccountLimit

\* That is a step of the account, since what is outstanding is not settled.
LEMMA UseSuffices ==
  ASSUME IInv, NEW S \in SUBSET reservations, NEW E, NEW B, Uses(S, E, B)
  PROVE  Account!Use
<1>1. Settlements = SettlementsIn(ledger)
  BY DEF Settlements, SettlementsIn
<1>2. \A r \in reservations, e \in Settlements : r.id # e.id
  BY <1>1 DEF IInv, Consistent, Partition
<1>3. reservations \ reservations' = S /\ reservations' \ reservations = B
  BY DEF Uses
<1>4. Settlements' \ Settlements = E
  BY <1>2 DEF Uses, Account!Closes
<1>5. \A x \in S : \A e, f \in E : Account!Closes(e, x) /\ Account!Closes(f, x) => e = f
  BY DEF Uses, Account!Closes
<1> QED
  BY <1>3, <1>4, <1>5 DEF Uses, Account!Use

\* The settlement of a reservation closes the hold.
LEMMA EventCloses ==
  ASSUME NEW x \in Reservations, NEW type \in SettlementTypes, NEW amount,
         type = "RESERVATION_RECOVERED" => amount = x.amount
  PROVE  LET e == Event(type, x, amount)
         IN e.type = type /\ e.id = x.id /\ Account!Closes(e, x)
BY DEF Event, Account!Closes

\* The recovery closes the stale holds; an admission's event is no settlement.
LEMMA RecoveryCloses ==
  ASSUME IInv
  PROVE  /\ Stale \in SUBSET reservations
         /\ \A e \in RecoveryEvents : e.type \in SettlementTypes
         /\ \A e \in RecoveryEvents : \E x \in Stale : Account!Closes(e, x)
         /\ \A x \in Stale : \E e \in RecoveryEvents : Account!Closes(e, x)
         /\ \A e, f \in RecoveryEvents : e.id = f.id => e = f
<1>1. "RESERVATION_RECOVERED" \in SettlementTypes
  BY DEF SettlementTypes, EventTypes
<1>2. /\ Stale \subseteq Reservations /\ Stale \in SUBSET reservations
      /\ \A x, y \in Stale : x.id = y.id => x = y
  BY DEF Stale, IInv, TypeOK, Consistent, Partition
<1>3. ASSUME NEW x \in Stale
      PROVE  LET e == Event("RESERVATION_RECOVERED", x, x.amount)
             IN e.type \in SettlementTypes /\ e.id = x.id /\ Account!Closes(e, x)
  BY <1>1, <1>2, EventCloses
<1> QED
  BY <1>2, <1>3 DEF RecoveryEvents

LEMMA RecoveryMaps ==
  ASSUME IInv, recoverStaleReservations, UNCHANGED agents
  PROVE  Account!Use
<1>1. reservations' = (reservations \ Stale) \cup {}
  BY DEF recoverStaleReservations, Retained
<1>2. Settlements' = Settlements \cup RecoveryEvents
  BY RecoveryCloses DEF recoverStaleReservations, Settlements
<1>3. AccountLimit' = AccountLimit
  BY DEF AccountLimit, DailyLimit
<1>4. Uses(Stale, RecoveryEvents, {})
  BY <1>1, <1>2, <1>3, RecoveryCloses DEF Uses
<1> QED
  BY <1>4, RecoveryCloses, UseSuffices

LEMMA SettlementMaps ==
  ASSUME IInv, NEW x \in reservations, NEW type \in SettlementTypes \ {"RESERVATION_RECOVERED"},
         NEW amount, reservations' = reservations \ {x},
         ledger' = ledger \cup {Event(type, x, amount)}, AccountLimit' = AccountLimit
  PROVE  Account!Use
<1> DEFINE e == Event(type, x, amount)
<1>1. x \in Reservations
  BY DEF IInv, TypeOK
<1>2. e.type = type /\ Account!Closes(e, x)
  BY <1>1, EventCloses
<1>3. ledger' = ledger \cup {e}
  OBVIOUS
<1> HIDE DEF e
<1>4. Settlements' = Settlements \cup {e}
  BY <1>2, <1>3 DEF Settlements
<1>5. {x} \in SUBSET reservations /\ reservations' = (reservations \ {x}) \cup {}
  OBVIOUS
<1>6. /\ \A f \in {e} : \E y \in {x} : Account!Closes(f, y)
      /\ \A y \in {x} : \E f \in {e} : Account!Closes(f, y)
      /\ \A f, g \in {e} : f.id = g.id => f = g
  BY <1>2
<1>7. Uses({x}, {e}, {})
  BY <1>4, <1>5, <1>6 DEF Uses
<1> QED
  BY <1>5, <1>7, UseSuffices

\* What the account has used on a day after a step is what the coordinator counts.
LEMMA UsedIs ==
  ASSUME IInv', NEW a \in AgentIds, NEW d \in Days
  PROVE  Account!Used(a, d)' = Used(reservations', confirmed', a, d)
<1>1. Account!OnDay(Account!Charged', a, d) = Of(ChargesIn(ledger'), a, d)
  BY DEF Account!OnDay, Account!Charged, Settlements, SettlementTypes, EventTypes,
         ChargesIn, ChargeTypes, Of, IInv, TypeOK, Events
<1>2. Account!OnDay(reservations', a, d) = Of(reservations', a, d)
  BY DEF Account!OnDay, Of
<1>3. confirmed'[a][d] = Total(Of(ChargesIn(ledger'), a, d))
  BY DEF IInv, Consistent, Matches, Of, ChargesIn
<1>4. Account!Used(a, d)' =
        Total(Account!OnDay(Account!Charged', a, d)) + Total(Account!OnDay(reservations', a, d))
  BY AccountTotal DEF Account!Used, Account!OnDay
<1> QED
  BY <1>1, <1>2, <1>3, <1>4 DEF Used

LEMMA AdmitMaps ==
  ASSUME IInv, IInv', NEW a \in AgentIds, NEW model \in Models, NEW cost \in EstimatedCosts,
         NEW id \in ReservationIds, Admit(a, model, cost, id)
  PROVE  Account!Use
<1>1. PICK d, r : d = utcDate /\ r = [id |-> id, agent |-> a, date |-> d, amount |-> cost,
                                    createdAt |-> now]
  OBVIOUS
<1>2. /\ d \in Days /\ r.id = id /\ r.agent = a /\ r.date = d /\ r.amount = cost
      /\ cost \in Nat
  BY <1>1, DateAssumption, AmountAssumption DEF IInv, TypeOK, utcDate
<1>3. /\ a \in Created /\ FitsDailyBudget(a, cost) /\ id \notin IssuedIds
      /\ reservations' = (reservations \ Stale) \cup {r} /\ confirmed' = RecoveredConfirmed
      /\ ledger' = ledger \cup RecoveryEvents \cup {Event("BUDGET_RESERVED", r, cost)}
      /\ UNCHANGED agents
  BY <1>1 DEF Admit, Retained
<1>4. AccountLimit' = AccountLimit
  BY <1>3 DEF AccountLimit, DailyLimit
<1>5. Settlements' = Settlements \cup RecoveryEvents
  BY <1>3, RecoveryCloses DEF Settlements, SettlementTypes, Event
<1>6. \A x \in reservations \cup Settlements : x.id # id
  <2>1. IssuedIds = IssuedIn(ledger) /\ Settlements = SettlementsIn(ledger)
    BY DEF IssuedIds, IssuedIn, Settlements, SettlementsIn
  <2> QED
    BY <1>3, <2>1 DEF IInv, Consistent, Partition
<1>7. Account!Used(a, d)' <= AccountLimit[a]
  <2>1. Account!Used(a, d)' = Used(reservations', confirmed', a, d)
    BY <1>2, UsedIs
  <2>2. confirmed'[a][d] + Total(Of(reservations', a, d)) <= agents[a].dailyBudget
    BY <1>1, AdmitFits
  <2>3. /\ AccountLimit[a] \in Nat /\ agents[a].dailyBudget \in Int
        /\ agents[a].dailyBudget <= AccountLimit[a]
    BY <1>3, LimitIs, AllowedType DEF Created, IInv, TypeOK
  <2>4. /\ confirmed'[a][d] \in Nat
        /\ Total(Of(reservations', a, d)) \in Nat
    BY <1>2, PartsFinite DEF IInv, TypeOK, Consistent, Finite
  <2> QED
    BY <2>1, <2>2, <2>3, <2>4 DEF Used
<1>8. /\ \A h, k \in {r} : h = k
      /\ \A h \in {r} : /\ \A x \in reservations \cup Settlements : x.id # h.id
                        /\ Account!Used(h.agent, h.date)' <= AccountLimit[h.agent]
  BY <1>2, <1>6, <1>7
<1>9. Uses(Stale, RecoveryEvents, {r})
  BY <1>3, <1>4, <1>5, <1>8, RecoveryCloses DEF Uses
<1> QED
  BY <1>9, RecoveryCloses, UseSuffices

\* The books name agents that were created.
KnownAgents == \A x \in reservations \cup Settlements : x.agent \in Created

\* Agents are added, and never removed.
LEMMA CreatedKept ==
  ASSUME IInv, [Next]_vars
  PROVE  Created \subseteq Created'
<1>1. agents \in [AgentIds -> Agents \cup {NoAgent}]
  BY DEF IInv, TypeOK
<1>2. ASSUME NEW a \in AgentIds, NEW x \in Agents, agents' = [agents EXCEPT ![a] = x]
      PROVE  Created \subseteq Created'
  BY <1>1, <1>2, NoAgentAssumption DEF Created
<1>3. ASSUME NEW a \in Created
      PROVE  /\ agents[a] \in Agents /\ a \in AgentIds
             /\ \A s \in Statuses : [agents[a] EXCEPT !.status = s] \in Agents
             /\ [agents[a] EXCEPT !.archived = TRUE] \in Agents
             /\ \A t \in Tokens : [agents[a] EXCEPT !.token = t] \in Agents
  <2>1. agents[a] \in Agents
    BY <1>1 DEF Created
  <2> QED
    BY <2>1 DEF Agents, Created
<1>4. CASE UNCHANGED agents
  BY <1>4 DEF Created
<1>5. CASE administer
  <2>1. ASSUME NEW a \in AgentIds, NEW token \in Tokens, NEW allowed \in SUBSET Models,
               NEW budget \in DailyBudgets, NEW maxRequest \in MaxRequests \cup {NoLimit},
               addAgent(a, token, allowed, budget, maxRequest)
        PROVE  Created \subseteq Created'
    <3> DEFINE x == [status |-> "active", archived |-> FALSE, token |-> token,
                     allowedModels |-> allowed, dailyBudget |-> budget,
                     maxRequest |-> maxRequest]
    <3>1. x \in Agents
      BY DEF Agents, Statuses
    <3>2. agents' = [agents EXCEPT ![a] = x]
      BY <2>1 DEF addAgent
    <3> HIDE DEF x
    <3> QED
      BY <1>2, <3>1, <3>2
  <2>2. ASSUME NEW a \in AgentIds, NEW status \in Statuses, setStatus(a, status)
        PROVE  Created \subseteq Created'
    BY <1>2, <1>3, <2>2 DEF setStatus
  <2>3. ASSUME NEW a \in AgentIds, archiveAgent(a)
        PROVE  Created \subseteq Created'
    BY <1>2, <1>3, <2>3 DEF archiveAgent
  <2>4. ASSUME NEW a \in AgentIds, NEW token \in Tokens, rotateAgentToken(a, token)
        PROVE  Created \subseteq Created'
    BY <1>2, <1>3, <2>4 DEF rotateAgentToken
  <2> QED
    BY <1>5, <2>1, <2>2, <2>3, <2>4 DEF administer
<1>6. CASE settle
  <2>1. "disabled" \in Statuses
    BY DEF Statuses
  <2> QED
    BY <1>2, <1>3, <1>4, <1>6, <2>1 DEF settle, release, confirm, vars
<1> QED
  BY <1>4, <1>5, <1>6 DEF Next, authorize, Admit, Refuse, dashboard, Tick, vars

\* A change of anything but the budget of an agent does not concern the account.
LEMMA LimitKept ==
  ASSUME IInv, NEW a \in Created, NEW x \in Agents, x.dailyBudget = agents[a].dailyBudget,
         agents' = [agents EXCEPT ![a] = x]
  PROVE  AccountLimit' = AccountLimit
<1>1. agents \in [AgentIds -> Agents \cup {NoAgent}] /\ a \in AgentIds /\ agents[a] # NoAgent
  BY DEF IInv, TypeOK, Created
<1>2. ASSUME NEW b \in AgentIds
      PROVE  (IF agents'[b] = NoAgent THEN 0
              ELSE IF agents'[b].dailyBudget < 0 THEN 0 ELSE agents'[b].dailyBudget)
               = (IF agents[b] = NoAgent THEN 0
                  ELSE IF agents[b].dailyBudget < 0 THEN 0 ELSE agents[b].dailyBudget)
  BY <1>1, NoAgentAssumption
<1> QED
  BY <1>2 DEF AccountLimit, DailyLimit

\* A record of an agent may change its status, its archiving or its token.
LEMMA Edited ==
  ASSUME IInv, NEW a \in Created
  PROVE  /\ \A s \in Statuses : LET x == [agents[a] EXCEPT !.status = s]
                              IN x \in Agents /\ x.dailyBudget = agents[a].dailyBudget
         /\ LET x == [agents[a] EXCEPT !.archived = TRUE]
            IN x \in Agents /\ x.dailyBudget = agents[a].dailyBudget
         /\ \A t \in Tokens : LET x == [agents[a] EXCEPT !.token = t]
                            IN x \in Agents /\ x.dailyBudget = agents[a].dailyBudget
<1>1. agents[a] \in Agents
  BY DEF IInv, TypeOK, Created
<1> QED
  BY <1>1 DEF Agents

LEMMA AddAgentMaps ==
  ASSUME IInv, KnownAgents, NEW a \in AgentIds, NEW token \in Tokens,
         NEW allowed \in SUBSET Models, NEW budget \in DailyBudgets,
         NEW maxRequest \in MaxRequests \cup {NoLimit},
         addAgent(a, token, allowed, budget, maxRequest)
  PROVE  Account!Open(a)
<1> DEFINE x == [status |-> "active", archived |-> FALSE, token |-> token,
                 allowedModels |-> allowed, dailyBudget |-> budget,
                 maxRequest |-> maxRequest]
           new == IF budget < 0 THEN 0 ELSE budget
<1>1. x \in Agents /\ x.dailyBudget = budget
  BY DEF Agents, Statuses
<1>2. /\ agents' = [agents EXCEPT ![a] = x] /\ agents[a] = NoAgent
      /\ UNCHANGED <<reservations, ledger>>
  BY DEF addAgent
<1> HIDE DEF x
<1>3. agents \in [AgentIds -> Agents \cup {NoAgent}] /\ x # NoAgent
  BY <1>1, NoAgentAssumption DEF IInv, TypeOK
<1>4. ASSUME NEW b \in AgentIds
      PROVE  AccountLimit'[b] = IF b = a THEN new ELSE AccountLimit[b]
  BY <1>1, <1>2, <1>3 DEF AccountLimit, DailyLimit
<1>5. new \in Nat
  BY AmountAssumption
<1> HIDE DEF new
<1>6. AccountLimit'[a] = new /\ AccountLimit' = [AccountLimit EXCEPT ![a] = new]
  <2>1. /\ AccountLimit = [b \in AgentIds |-> AccountLimit[b]]
        /\ AccountLimit' = [b \in AgentIds |-> AccountLimit'[b]]
    BY DEF AccountLimit
  <2> QED
    BY <1>4, <2>1
<1>7. AccountLimit[a] = 0
  BY <1>2 DEF AccountLimit
<1>8. ASSUME NEW d \in Days
      PROVE  Account!OnDay(reservations \cup Settlements, a, d) = {}
  BY <1>2 DEF KnownAgents, Created, Account!OnDay
<1>9. UNCHANGED <<reservations, Settlements>>
  BY <1>2 DEF Settlements
<1> QED
  BY <1>5, <1>6, <1>7, <1>8, <1>9 DEF Account!Open

LEMMA AdministerMaps ==
  ASSUME IInv, KnownAgents, administer
  PROVE  Account!Next \/ UNCHANGED Account!vars
<1>1. UNCHANGED <<reservations, Settlements>>
  BY DEF administer, addAgent, setStatus, archiveAgent, rotateAgentToken, Settlements
<1>2. CASE AccountLimit' = AccountLimit
  BY <1>1, <1>2 DEF Account!vars
<1>3. ASSUME NEW a \in AgentIds, NEW status \in Statuses, setStatus(a, status)
      PROVE  AccountLimit' = AccountLimit
  BY <1>3, Edited, LimitKept DEF setStatus
<1>4. ASSUME NEW a \in AgentIds, archiveAgent(a)
      PROVE  AccountLimit' = AccountLimit
  BY <1>4, Edited, LimitKept DEF archiveAgent
<1>5. ASSUME NEW a \in AgentIds, NEW token \in Tokens, rotateAgentToken(a, token)
      PROVE  AccountLimit' = AccountLimit
  BY <1>5, Edited, LimitKept DEF rotateAgentToken
<1> QED
  BY <1>2, <1>3, <1>4, <1>5, AddAgentMaps DEF administer, Account!Next

LEMMA SettleMaps ==
  ASSUME IInv, settle
  PROVE  Account!Use \/ UNCHANGED Account!vars
<1>1. CASE UNCHANGED vars
  BY <1>1 DEF vars, Account!vars, AccountLimit, DailyLimit, Settlements
<1>2. ASSUME NEW x \in reservations, reservations' = reservations \ {x},
             ledger' = ledger \cup {Event("RESERVATION_RELEASED", x, x.amount)},
             UNCHANGED agents
      PROVE  Account!Use
  <2>1. AccountLimit' = AccountLimit
    BY <1>2 DEF AccountLimit, DailyLimit
  <2> QED
    BY <1>2, <2>1, SettlementMaps DEF SettlementTypes, EventTypes
<1>3. ASSUME NEW x \in reservations, NEW cost, reservations' = reservations \ {x},
             ledger' = ledger \cup {Event("SPEND_CONFIRMED", x, cost)},
             agents' = IF cost > x.amount /\ x.agent \in Created
                       THEN [agents EXCEPT ![x.agent].status = "disabled"] ELSE agents
      PROVE  Account!Use
  <2>1. CASE UNCHANGED agents
    <3>1. AccountLimit' = AccountLimit
      BY <2>1 DEF AccountLimit, DailyLimit
    <3> QED
      BY <1>3, <3>1, SettlementMaps DEF SettlementTypes, EventTypes
  <2>2. CASE x.agent \in Created /\ agents' = [agents EXCEPT ![x.agent].status = "disabled"]
    <3>1. AccountLimit' = AccountLimit
      BY <2>2, Edited, LimitKept DEF Statuses
    <3> QED
      BY <1>3, <3>1, SettlementMaps DEF SettlementTypes, EventTypes
  <2> QED
    BY <1>3, <2>1, <2>2
<1> QED
  BY <1>1, <1>2, <1>3 DEF settle, release, confirm

LEMMA KnownAgentsStep ==
  ASSUME IInv, KnownAgents, [Next]_vars
  PROVE  KnownAgents'
<1>1. Created \subseteq Created'
  BY CreatedKept
<1>2. ASSUME NEW a \in AgentIds, NEW model \in Models, NEW cost \in EstimatedCosts,
             NEW id \in ReservationIds, Admit(a, model, cost, id)
      PROVE  KnownAgents'
  BY <1>1, <1>2 DEF Admit, Retained, RecoveryEvents, Stale, Event, Settlements, SettlementTypes,
                    KnownAgents
<1>3. CASE recoverStaleReservations
  BY <1>1, <1>3 DEF recoverStaleReservations, Retained, RecoveryEvents, Stale, Event,
                    Settlements, KnownAgents
<1>4. CASE settle
  <2>1. CASE UNCHANGED <<reservations, ledger>>
    BY <1>1, <2>1 DEF KnownAgents, Settlements
  <2>2. ASSUME NEW x \in reservations, NEW type, NEW amount,
               reservations' = reservations \ {x},
               ledger' = ledger \cup {Event(type, x, amount)}
        PROVE  KnownAgents'
    BY <1>1, <2>2 DEF Event, Settlements, KnownAgents
  <2> QED
    BY <1>4, <2>1, <2>2 DEF settle, release, confirm, vars
<1>5. CASE administer \/ Tick \/ UNCHANGED vars
  <2>1. UNCHANGED <<reservations, Settlements>>
    BY <1>5 DEF administer, addAgent, setStatus, archiveAgent, rotateAgentToken, Tick, vars,
                Settlements
  <2> QED
    BY <1>1, <2>1 DEF KnownAgents
<1> QED
  BY <1>2, <1>3, <1>4, <1>5 DEF Next, authorize, Refuse, dashboard

LEMMA StepMaps ==
  ASSUME IInv, IInv', KnownAgents, [Next]_vars
  PROVE  [Account!Next]_(Account!vars)
<1>1. ASSUME NEW a \in AgentIds, NEW model \in Models, NEW cost \in EstimatedCosts,
             NEW id \in ReservationIds, Admit(a, model, cost, id)
      PROVE  Account!Use
  BY <1>1, AdmitMaps
<1>2. CASE recoverStaleReservations /\ UNCHANGED agents
  BY <1>2, RecoveryMaps DEF Account!Next
<1>3. CASE Tick \/ UNCHANGED vars
  BY <1>3 DEF Tick, vars, Account!vars, AccountLimit, DailyLimit, Settlements
<1> QED
  BY <1>1, <1>2, <1>3, AdministerMaps, SettleMaps
     DEF Next, authorize, Refuse, dashboard, Account!Next

LEMMA InitMaps ==
  ASSUME Init
  PROVE  Account!Init /\ KnownAgents
BY DEF Init, Account!Init, AccountLimit, Settlements, KnownAgents

\* The coordinator is an account: a hold that is placed fits the daily budget with all that
\* is spent and held, and each is closed by one confirm, release or recovery.
THEOREM Implements == Spec => ImplementsSpendAccount
<1>1. Init => Account!Init /\ KnownAgents
  BY InitMaps
<1>2. IInv /\ KnownAgents /\ [Next]_vars => KnownAgents'
  BY KnownAgentsStep
<1>3. IInv /\ IInv' /\ KnownAgents /\ [Next]_vars => [Account!Next]_(Account!vars)
  BY StepMaps
<1> QED
  BY <1>1, <1>2, <1>3, Invariance, PTL DEF Spec, ImplementsSpendAccount, Account!Spec
=============================================================================
