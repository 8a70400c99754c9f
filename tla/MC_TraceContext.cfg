SPECIFICATION Spec
CONSTANTS
    OptKeys <- MCOptKeys
    OptVals <- MCOptVals
    CustomKeys <- MCCustomKeys
    Numerals <- MCNumerals
    SpanIDs <- MCSpanIDs
    ForeignVals <- MCForeignVals
    OwnStates <- MCOwnStates
    FwdParents <- MCFwdParents
    FwdStates <- MCFwdStates
    OptHeaders <- MCOptHeaders
    Sigs <- MCSigs
\* One request crosses one hop and then the system stops.
CHECK_DEADLOCK FALSE
INVARIANTS
    TypeOK
    SwRoundTrip
    ForeignEntriesKept
    OptionsReachB
