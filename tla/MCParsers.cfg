SPECIFICATION MCSpec
CONSTANTS
    MAX_DNS_MSG_SIZE = 300
    HEADER_SIZE = 12
    MAX_LABEL = 63
    MAX_QUESTION = 255
    QUESTION_TAIL = 4
    ANSWER_SIZE = 16
    Lengths <- MCLengths
    RequestChars = {"/", "query", "space"}
    MAX_TEXT = 6
    Rubbish <- MCRubbish
    BODY = 210
    TextChars = {"newline", "a", "b"}
    MAX_INPUT = 5
    SIZE = 36
    ClientCodes = {12, 50, 53}
    OptionLengths = {0, 3}
    Bytes = {53, 255}
    MAX_OPTIONS = 3
INVARIANTS
    ReplyFits
    CutOnlyIfTooLong
    UrlSplitRight
    ReplacesNewlines
    FindsFirst
    ReplyReadsBack
PROPERTIES
    AddressOnceStarted
    EveryQueryEnds
CHECK_DEADLOCK FALSE
