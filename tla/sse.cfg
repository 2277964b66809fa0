SPECIFICATION Spec
CONSTANTS
    Payloads = {"data", "long data"}
    Long = {"long data"}
    Cap = 5
    MaxChunk = 3
    MaxLines = 5
INVARIANTS
    TypeOK
    HandsOnWhatWasSaid
    OnlyLongLinesRefused
