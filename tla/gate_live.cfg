\* Three posts for one slot and one seat: releases reach the waiter, and so do the
\* timers.
SPECIFICATION FairSpec
CONSTANTS
    Requests = {r1, r2, r3}
    Reads = {}
    Limit = 1
    QueueMax = 1
PROPERTIES SlotReturned WaiterAnswered
