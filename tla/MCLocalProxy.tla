----------------------------- MODULE MCLocalProxy -----------------------------
EXTENDS LocalProxy, TLC

CONSTANT DayLength  \* instants in a UTC day

MCDays == {t \div DayLength : t \in Clock}
MCUtcDate == [t \in Clock |-> t \div DayLength]

HandlerSymmetry == Permutations(Requests)
=============================================================================
