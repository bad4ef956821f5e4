------------------------------ MODULE MicroUsd ------------------------------
(***************************************************************************)
(* Sums of micro-USD amounts.  The code keeps amounts as decimal strings   *)
(* and adds them as BigInts, so amounts are natural numbers and nothing    *)
(* ever overflows.                                                         *)
(*                                                                         *)
(* A sum over a set is defined without recursion: every record stands for  *)
(* as many units as its amount, and the total is the number of units.      *)
(***************************************************************************)
EXTENDS Integers, FiniteSets

\* The units of a set of records that carry an amount.
Units(S) == UNION { {x} \X (1..x.amount) : x \in S }

\* The sum of the amounts of S, the reduce(... + BigInt(amountMicroUsd)).
Total(S) == Cardinality(Units(S))

\* The units by which a charge went over the amount that was reserved for it.
ExcessUnits(S) == UNION { {x} \X ((x.reserved + 1)..x.amount) : x \in S }

\* The sum of what the charges in S exceed their reservations by.
TotalExcess(S) == Cardinality(ExcessUnits(S))
=============================================================================
