SPECIFICATION FairSpec
CONSTANTS
    p1 = p1
    p2 = p2
    emit = emit
    message = message
    close = close
    NoChange = NoChange
    Proc <- Processes
    Change <- Calls
    Keyed <- KeyedCalls
    Durable <- CloseCalls
    Control <- CloseCalls
    Closing <- CloseCalls
    MaxRetries = 2
    MaxOps = 6
    Interval = 2
    FaultKinds = {"create"}
    MaxPending = 2
    MaxFaults = 1
    MaxStops = 0
PROPERTY
    AcceptedSettles
