CONSTANTS
    MDs <- MCMDs
    ValidMDs <- MCValidMDs
    BaggageKeys = {"k1"}
    TracerLists <- MCTracerLists
    OtherIDs = {"o1"}
    Formats = {"TextMap", "HTTPHeaders", "Binary"}
    CarrierKinds = {"map", "http", "stream"}
    ReadModes = {"full"}
    ChildOfNil = TRUE
    MaxSpanCalls = 0
SPECIFICATION Spec
\* A single request crosses the two hops and then nothing more happens.
CHECK_DEADLOCK FALSE
INVARIANT
    NoPanic
