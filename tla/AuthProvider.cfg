CONSTANTS
    c1 = c1
    c2 = c2
    c3 = c3
    Callers <- MCCallers
    Writes <- MCBodyWrites
    MaxConcurrent = 2
    MaxAuthBody = 2
    MaxCalls = 7
SYMMETRY MCSymmetry
SPECIFICATION Spec
INVARIANT TypeOK
INVARIANT HalfOpenSingleProbe
INVARIANT ResultMatchesResponse
INVARIANT CapturerMatchesSize
PROPERTY RejectsOnlyOverflow
