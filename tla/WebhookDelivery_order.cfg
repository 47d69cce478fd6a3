CONSTANTS
    URLConfigured = TRUE
    MaxEvents = 2
    MaxTime = 1
SPECIFICATION Spec
INVARIANT AppSeesFinalOccupancy
