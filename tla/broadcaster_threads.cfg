\* Two goroutines of one process share a Broadcaster.
SPECIFICATION Spec
CONSTANTS
    mm = mm
    cancel = cancel
    c1 = c1
    c2 = c2
    NoCaller = NoCaller
    Process <- OneProcess
    Caller <- Callers
    Owner <- SameOwner
    Quota = 2
    MaxFaults = 3
SYMMETRY CallerSymmetry
INVARIANTS
    TypeOK
    ConfirmedAccepted
    CacheNotAhead
    NoPileUpBehindUnknown
    SequenceFits
PROPERTIES
    ImplementsAccount
