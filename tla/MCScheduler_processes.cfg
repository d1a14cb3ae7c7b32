SPECIFICATION FairSpec
CONSTANTS
    Main = main
    Process = {main, p, q}
    Semaphore = {s}
    NumPriorities = 2
    Priority = {0, 2, 3}
    NoList = NoList
    UntilIdle = TRUE
    TransferScope = "suspended"
    MaxSignals = 2
    MaxTime = 1
INVARIANTS
    TypeOK
    ListsAgree
    OneState
    NoSignalWithheld
    TimersKeepPolling
PROPERTIES
    SemaphoresAreFifo
    TerminatedForGood
    NoInversion
    NoOvertaking
    SleeperWakes
