\* Four posts for two slots and two seats, with a read that passes by the gate: every
\* order of arrival, grant, expiry, hang-up, throw and close.
SPECIFICATION Spec
CONSTANTS
    Requests = {r1, r2, r3, r4, g1}
    Reads = {g1}
    Limit = 2
    QueueMax = 2
SYMMETRY Symmetry
INVARIANTS IInv ConnectedWorkBound
PROPERTIES FirstComeFirstServed ImplementsAdmission
