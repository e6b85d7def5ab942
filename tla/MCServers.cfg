\* Two clients, at once, one after the other or in different runs; the limit is
\* met when both are there; one restart, one retry of the bind.
SPECIFICATION ServersSpec
CONSTANTS
    MaxClients = 2
    MaxSessions = 2
    MaxRuns = 2
    MaxCount = 1
    MaxBindRetries = 1
INVARIANTS
    TotalsExact
    StopQuiesces
    CleanupAdvances
    AcceptLoopLives
PROPERTY
    NotificationsFenced
CHECK_DEADLOCK FALSE
