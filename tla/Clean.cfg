SPECIFICATION Spec
CONSTANTS
    Procs = {p1, p2}
    Jobs <- MCJobs
    Killable = {p1, p2}
    Runtimes = {"codex", "opencode"}
    Contexts = {"old", "new"}
    Workspaces = {"w"}
    MaxVersion = 2
    Earlier = Earlier
    None = None
    Invalid = Invalid
    Leftovers <- MCLeftovers
SYMMETRY ProcSymmetry
INVARIANTS
    TypeOK
    RecordedWasBuilt
    EnsuredImageStays
    CleanedIsGone
    MetadataFollowsImage
PROPERTIES
    CleanSparesReferenced
