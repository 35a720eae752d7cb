SPECIFICATION Spec
CONSTANTS
    Users = {u1, u2, u3}
    Actors = {u1, u2}
    Poles = {p}
    VeillePoles = {p}
    Projects = {}
    Wanted <- Asked
    Named <- NamedPositions
    Idle <- IdleRequest
INVARIANT
    MembershipInv
PROPERTY
    LifecycleIsOneWay
SYMMETRY Symmetry
CHECK_DEADLOCK FALSE
