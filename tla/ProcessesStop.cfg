SPECIFICATION ProcessesSpec
CONSTANTS
    Pids = {p1, p2}
    Environments = {dev, prod}
    NoFile = NoFile
    Garbled = Garbled
    Nowhere = Nowhere
PROPERTIES
    StopsOnlyItsGateway
