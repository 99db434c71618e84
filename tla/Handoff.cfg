SPECIFICATION Spec
CONSTANTS
    Stations = {s1, s2, s3}
    Entities = {e1}
    MaxEpoch = 2
    MaxMoves = 2
    Nobody = Nobody
INVARIANTS
    OwnerWindow
    NoForwardingCycle
    MovesAccounted
PROPERTIES
    SingleAuthority
    OwnerDemotedForOwner
SYMMETRY StationSymmetry
