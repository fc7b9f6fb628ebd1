CONSTANTS
    MaxReconnectAttempts <- MCMaxReconnectAttempts

SPECIFICATION Spec

INVARIANT TypeOK
INVARIANT TerminalFailure

PROPERTY InitTerminates
