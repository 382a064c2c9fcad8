SPECIFICATION FairStreamSpec
CONSTANTS
    Bytes = {1, 2, 3}
    Chunks <- ThreeChunks
    ReadSizes = {0, 1, 2}
    BufferSize = 2
    PipeSize = 2
    MaxBytes = 4
INVARIANTS StreamTypeOK ConfirmedHandedOver EndMeansAll
PROPERTIES WritesArriveInOrder ReadsArriveInOrder WritesEnd
\* A dropped stream does nothing more.
CHECK_DEADLOCK FALSE
