SPECIFICATION FairSpec
CONSTANTS
    Roots = {1, 2}
    Hashes = {"h1", "h2", "h3"}
    HashOf <- MCHashOf
    Names = {"n1", "n2", "x"}
    NameOf <- MCNameOf
    None = None
    Exec = Exec
    Mortal = {}
    Startable = {2}
    Procs = {s1, s2}
    Jobs <- FewJobs
    Leftovers <- FewLeftovers
INVARIANTS
    OkLeavesOnlyDrifted
PROPERTIES
    StopReturns
