\* Two UI components whose commands overlap with each other and with delete-all,
\* within one launch under a floor; store errors.
SPECIFICATION Spec
CONSTANTS
    Clients = {c1, c2}
    RequestLevels = {0, 1, 3}
    Floors = {2}
    None = None
    Faults = {"store"}
SYMMETRY ClientSymmetry
INVARIANTS NothingForged FloorHolds
