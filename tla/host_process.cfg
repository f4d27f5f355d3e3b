SPECIFICATION FairSpec
CONSTANTS
    qa = qa
    qb = qb
    la = la
    lb = lb
    ct = ct
    NoSession = 0
    NoDescriptor = 0
    Session <- Sessions
    Socket <- Sockets
    Descriptor <- Descriptors
    Persister <- Persisters
    QueueSize = 1
    Delays <- TwoDelays
    MaxRestarts = 2
    Window = 3
    HealthyAfter = 2
    Grace = 2
    KillGrace = 1
    Epoch <- Extensions
    Base <- Bases
    Launcher <- Launchers
    Pusher <- Pushers
    Unserved <- SecondWithoutCodex
    Scopes <- Environments
CHECK_DEADLOCK FALSE
INVARIANTS
    TypeOK
    StopIsBounded
    EndsWhenItShould
    DeadlineNotLowered
    DescriptorsAreOwn
    NoGapNoRepeat
    GhostsCoverCrash
    ClosedStaysClosed
    LifetimeTicketEnds
    VerifiedIsInForce
PROPERTIES
    ServerComesBack
    NobodyStaysBehind
