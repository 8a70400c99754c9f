CONSTANTS
    Statuses = {200, 500}
    MaxHandlerSteps = 3
    HTTPHeaderName = "X-Trace"
SPECIFICATION Spec
\* A single exchange: the client and the server stop once it is over.
CHECK_DEADLOCK FALSE
INVARIANTS
    TypeOK
    ClientEdgeToServerExit
    StatusReported
