SPECIFICATION Spec
CONSTANTS
    Procs = {p1, p2}
    Jobs <- AllJobs
    Killable = {p1, p2}
    Earlier = Earlier
    Foreign = Foreign
    None = None
    Empty = Empty
PROPERTIES StableIdStopIsExact
