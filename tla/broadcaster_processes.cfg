\* The bot and a cancel command sign with the same account.
SPECIFICATION FairSpec
CONSTANTS
    mm = mm
    cancel = cancel
    c1 = c1
    c2 = c2
    NoCaller = NoCaller
    Process <- TwoProcesses
    Caller <- Callers
    Owner <- OwnOwner
    Quota = 2
    MaxFaults = 1
PROPERTIES
    EveryCallerSucceeds
