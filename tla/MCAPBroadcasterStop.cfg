CONSTANTS
    NumClients <- MCNumClients
    NumRetries <- MCNumRetries
    QueueCapacity <- MCQueueCapacity
    MaxMessages <- MCMaxMessages

SPECIFICATION Spec

PROPERTY StopsWhenCleared
