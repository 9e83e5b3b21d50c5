SPECIFICATION Spec
CONSTANTS
    Roots = {1, 2}
    Hashes = {"h1", "h2", "h3"}
    HashOf <- MCHashOf
    Names = {"n1", "n2", "x"}
    NameOf <- MCNameOf
    None = None
    Exec = Exec
    Mortal = {1}
    Startable = {1, 2}
    Procs = {s1}
    Jobs <- MCJobs
    Leftovers <- MCLeftovers
INVARIANTS
    TypeOK
    OkLeavesOnlyDrifted
    TakenIsOffered
    OfferedIsTaken
PROPERTIES
    StopIsExact
    TokenLeavesWithSessions
