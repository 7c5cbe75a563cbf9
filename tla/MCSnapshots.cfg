SPECIFICATION Spec
CONSTANTS
    Reqs = {q1, q2}
    Caps = {c1, c2}
    Nats = {n1, n2}
    Rszs = {z1}
    Kinds <- Events
    FullRes = TRUE
    MaxPictures = 2
    MaxEra = 1
    MaxGeneration = 1
    None = None
    q1 = q1
    q2 = q2
    c1 = c1
    c2 = c2
    n1 = n1
    n2 = n2
    z1 = z1
SYMMETRY Slots
INVARIANTS TypeOK PicturesAreOurs EventIsFresh OneCapturePerLane
