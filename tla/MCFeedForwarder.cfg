CONSTANTS
    NumFeeds <- MCNumFeeds
    QueueCapacity <- MCQueueCapacity
    ReconnectInterval <- MCReconnectInterval
    StatsInterval <- MCStatsInterval
    ClockWrap <- MCClockWrap
    Uris <- MCUris
    MaxTime <- MCMaxTime
    MaxPackets <- MCMaxPackets

SPECIFICATION Spec

INVARIANT TypeOK
INVARIANT NoSocketLeak

PROPERTY ReconnectRateLimited
