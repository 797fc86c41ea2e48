SPECIFICATION Spec
CONSTANTS
    INPUT_BUFFER_SIZE = 4
    Chars <- MCChars
    CaptureName <- MCCapture
    EchoName <- MCEcho
    BootloaderName <- MCBootloader
    PrintNames <- MCPrint
    MAX_COMMAND_NAME_SIZE = 3
    MaxLine = 6
    MaxDepth = 3
INVARIANTS
    TypeOK
    RunsWhatWasTyped
    RestartsOnPurpose
PROPERTIES
    CaptureReleases
