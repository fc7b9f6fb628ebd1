CONSTANTS
    NumFeeds <- MCOneFeed
    QueueCapacity <- MCQueueCapacity
    ReconnectInterval <- MCReconnectInterval
    StatsInterval <- MCStatsInterval
    ClockWrap <- MCClockWrap
    Uris <- MCUris
    MaxTime <- MCMaxTime
    MaxPackets <- MCMaxPackets

SPECIFICATION Spec


PROPERTY InactiveFeedClosed
