SPECIFICATION Spec
CONSTANTS
    MaxResponse = 4
    Chunk = 2
    MaxAddresses = 2
    NoLength = NoLength
    Huge = Huge
    Endless = Endless
    Timeout = 2
    Responses <- MCResponses
    Jobs <- MCJobs
    Containers <- MCContainers
    SessionLists <- MCSessionLists
INVARIANTS
    ReadyIsJustified
PROPERTIES
    WaitReturns
