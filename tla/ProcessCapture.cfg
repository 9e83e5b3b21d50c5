SPECIFICATION Spec
CONSTANTS
    PipeSize = 2
    Jobs <- MCJobs
INVARIANTS
    OutputComplete
PROPERTIES
    CaptureReturns
