SPECIFICATION Spec
CONSTANTS
    v1 = v1
    v2 = v2
    i1 = i1
    i2 = i2
    i3 = i3
    Tracks = {v1, v2}
    Insts = {i1, i2, i3}
    TrackOf <- MCTrackOf
    Profiles = {"aac", "opus"}
    Default = "aac"
    Literal = TRUE
    Lossy = FALSE
    NoInst = NoInst
    NoProfile = NoProfile
SYMMETRY Slots
INVARIANTS
    TypeOK
    StreamsOwnEncoder
PROPERTY ImplementsOwnership
CHECK_DEADLOCK FALSE
