------------------------- MODULE MCWorkerInference -------------------------
EXTENDS WorkerInference, TLC

CONSTANT DayLength  \* instants in a UTC day

MCClock == 0..MaxClock
MCDays == {t \div DayLength : t \in MCClock}
MCUtcDate == [t \in MCClock |-> t \div DayLength]
=============================================================================
