SPECIFICATION Spec
CONSTANTS
    RingSize = 3
    Sizes = {1, 2, 3}
    Alignments = {1, 2}
    MaxUploads = 4
    MaxSerial = 2
VIEW LiveView
INVARIANTS
    NoOverlap
    InUseIsBacked
    UploaderAsserts
