SPECIFICATION FairSpec
CONSTANTS
    Procs = {p1, p2}
    Jobs <- AllJobs
    Killable = {p1}
    Earlier = Earlier
    Foreign = Foreign
    None = None
    Empty = Empty
INVARIANTS
    ReportsAreTrue
PROPERTIES
    CommandsEnd
