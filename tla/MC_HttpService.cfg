\* Two tables with one write each, two connections, and two calls
\* of start() (the second must fail); graceful shutdown by stop() or by
\* dropping the service.
CONSTANTS
    Tables = {"t1", "t2"}
    TableOrder <- MCTableOrder
    Requests = {r1, r2}
    MaxWrites = 1
    MaxStarts = 2
SPECIFICATION Spec
INVARIANT AtMostOneServer FlushReplyTruthful
PROPERTY ServerStops AcceptedAnswered
CHECK_DEADLOCK FALSE
