SPECIFICATION Spec
CONSTANTS
    Procs = {p1, p2}
    Jobs <- AllJobs
    Killable = {}
    Earlier = Earlier
    Foreign = Foreign
    None = None
    Empty = Empty
INVARIANTS ReadySessionHasToken
