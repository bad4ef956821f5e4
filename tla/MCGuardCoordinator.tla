------------------------- MODULE MCGuardCoordinator -------------------------
EXTENDS GuardCoordinator, TLC

CONSTANT DayLength  \* instants in a UTC day

MCDays == {t \div DayLength : t \in Clock}
MCUtcDate == [t \in Clock |-> t \div DayLength]

\* Ids and tokens are interchangeable; the models of one run are not, since
\* an allowed one and a refused one are both wanted.
Symmetry == Permutations(Tokens) \cup Permutations(ReservationIds)
              \cup Permutations(AgentIds)
=============================================================================
