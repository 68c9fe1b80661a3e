CONSTANTS
    Callers <- MCCallers
    AllocStep = 2
    InitCeiling = 0
    MaxId = 5
    MaxRestarts = 1
    NoCaller = NoCaller

SPECIFICATION Spec

INVARIANT TypeOK
PROPERTY ImplementsContract
INVARIANT IssuedBelowCeiling
PROPERTY CallReturns

\* Callers make finitely many calls (none starts once last_id reaches MaxId),
\* after which the allocator is idle.
CHECK_DEADLOCK FALSE
