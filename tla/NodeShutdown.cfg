CONSTANTS
    Clients = {c1, c2}
    Nobody = Nobody
    BlockRoom = 1
    MayDie = FALSE
SPECIFICATION Spec
PROPERTIES
    ShutdownCutsNoMine
