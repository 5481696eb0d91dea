----------------------------- MODULE MCAccounts -----------------------------
EXTENDS Accounts

\* A dev with a job of its own, and an app.
MCConsumerOf == [p \in Projects |-> IF p = "dev:job" THEN "dev" ELSE p]

PoolOf2 == <<2, 1>>

AppPinned == [p \in Projects |-> IF p = "app" THEN 2 ELSE IF p = "dev" THEN 1 ELSE None]

\* A spent window.
OneReading == {[left |-> 0, spent |-> TRUE, reset |-> 1]}

\* Roomy and late, nearly spent and soon, spent.
MCReadings == OneReading \cup {[left |-> 2, spent |-> FALSE, reset |-> 2],
                               [left |-> 1, spent |-> FALSE, reset |-> 1]}
=============================================================================
