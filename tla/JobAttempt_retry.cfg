SPECIFICATION FairSpec
CONSTANTS
    Types = {"HEARTBEAT", "CALLS", "STREAMS"}
    MaxRetries = 3
    SlackOn = TRUE
    Faults = {"crash", "db", "slack", "account"}
INVARIANT TypeOK
INVARIANT NoFutileCall
INVARIANT OneLateCall
INVARIANT AlertNamesTheFailure
INVARIANT FailureIsAlerted
INVARIANT OutageIsAlerted
PROPERTY ExecutionEnds
CHECK_DEADLOCK FALSE
