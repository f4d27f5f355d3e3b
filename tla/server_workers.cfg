SPECIFICATION WorkersFairSpec
CONSTANTS
    w1 = w1
    w2 = w2
    jobs = jobs
    pipelines = pipelines
    loop = loop
    request = request
    a1 = a1
    a2 = a2
    c1 = c1
    c2 = c2
    rotation_thread = rotation_thread
    nobody = nobody
    NoToken = 0
    Token <- Tokens
    Issued <- IssuedAt
    Expires <- ExpiresAt
    Writer <- Writers
    Scopes <- HostScopes
    Adapter <- Adapters
    Baselined <- Timeless
    Resource <- Resources
    AdapterOf <- Kinds
    Old <- BeforeRun
    Loop = loop
    Caller <- Requests1
    NoAdapter = NoAdapter
    Interval = 1
    IdleInterval = 2
    Lifetimes <- OneOrTwo
    Delays <- OneOrTwo
    Bounds <- Environments
    Asker <- Askers
    OutboxPage = 1
    HelpScopes <- HelpEnvironments
    Client <- Clients
    BearerLife = 5
    ProbeInterval = 2
    ProbeWindow = 4
    ForceWindow = 3
    Cooldown = 1
    Margin = 1
    MaxAge = 2
    Rotation = rotation_thread
    Nobody = nobody
    CredentialScopes <- BearerEnvironments
CHECK_DEADLOCK FALSE
INVARIANTS
    StopIsHonest
    CacheIsCurrent
    BackoffIsAFloor
    WakeIsNotLost
    ToldIsRetained
    DroppedIsFiled
    FileIsNeverExpired
PROPERTIES
    MirrorAdvances
    FreshTokenRunsHost
    Converges
    HelpIsHeard
