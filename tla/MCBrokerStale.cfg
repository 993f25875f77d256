CONSTANTS
    Entities = {c}
    Clients = {c}
    MaxTransports = 3
    MaxEvents = 4
SPECIFICATION Spec
PROPERTY CleanupClosesOwnProtocol
CHECK_DEADLOCK FALSE
