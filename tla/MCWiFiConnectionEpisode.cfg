CONSTANTS
    MaxReconnectAttempts <- MCMaxReconnectAttempts

SPECIFICATION Spec

PROPERTY EveryEpisodeRetried
