SPECIFICATION Spec
CONSTANTS
    Procs = {p1, p2, p3}
    Jobs <- AllJobs
    Killable = {}
    Earlier = Earlier
    Foreign = Foreign
    None = None
    Empty = Empty
SYMMETRY ProcSymmetry
INVARIANTS
    TypeOK
    VerifiedGone
    CleanedUpIsTrue
    RunLeavesNothing
    TokenSettled
PROPERTIES
    SessionsAreSafe
    EndsWhatItFound
    VolumeIsPreserved
