SPECIFICATION FairSpec
CONSTANTS
    v1 = v1
    v2 = v2
    i1 = i1
    i2 = i2
    i3 = i3
    Tracks = {v1}
    Insts = {i1, i2}
    TrackOf <- MCTrackOf
    Profiles = {"aac"}
    Default = "aac"
    Literal = FALSE
    Lossy = TRUE
    NoInst = NoInst
    NoProfile = NoProfile
INVARIANTS
    NothingLeftBehind
    CameraObeys
PROPERTY StartSettles
CHECK_DEADLOCK FALSE
