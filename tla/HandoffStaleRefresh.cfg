SPECIFICATION SpecDelayed
CONSTANTS
    Stations = {s1, s2}
    Entities = {e1}
    MaxEpoch = 2
    MaxMoves = 0
    Nobody = Nobody
PROPERTIES
    OwnerDemotedForOwner
