CONSTANTS
    NumClients <- MCNumClients
    NumRetries <- MCNumRetries
    QueueCapacity <- MCQueueCapacity
    MaxMessages <- MCMaxMessages

SPECIFICATION Spec

INVARIANT TypeOK
INVARIANT RetryOnlyOnEnomem

PROPERTY FanOutEnds
PROPERTY ImplementsAPBroadcast
