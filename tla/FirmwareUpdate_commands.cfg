CONSTANTS
    RetryAttempts = 2
    Exclusive = FALSE
    Shutdown = FALSE
    Options <- CommandLines
    MaxVersion = 2
    MaxCommands = 2
SPECIFICATION FirmwareSpec
INVARIANTS FirmwareTypeOK RetryFindsAutopilot FlashesConfirmedOrNewer
PROPERTIES RebootOnlyWhenSafe CommandEnds
