----------------------------- MODULE MCFailover -----------------------------
EXTENDS Failover, TLC

\* A dev with a job of its own, and an app.
MCConsumerOf == [p \in Projects |-> IF p = "dev:job" THEN "dev" ELSE p]

PoolOf2 == <<2, 1>>
PoolOf3 == <<2, 1, 3>>

AppPinned == [p \in Projects |-> IF p = "app" THEN 2 ELSE IF p = "dev" THEN 1 ELSE None]

\* A spent window.
OneReading == {[left |-> 0, spent |-> TRUE, reset |-> 1]}

\* Calls are interchangeable (safety runs only).
Symmetry == Permutations(Calls)
=============================================================================
