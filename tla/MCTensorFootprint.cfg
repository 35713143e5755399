CONSTANTS
    W = 5
    MaxDims = 8
    MaxShmNameLen = 4
    MaxCaps = 2
    MaxCapLen = 2
    MaxDigestLen = 3
    LenWidth = 3
    Digests <- AllDigests
    Claims <- AllClaims
    Segments <- AllSegments
    Descriptors <- Hypercubes
SPECIFICATION Spec
INVARIANTS
    SpansCover
