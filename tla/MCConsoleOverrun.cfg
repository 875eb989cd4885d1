CONSTANTS
    CONSBUFSIZE = 3
    Chars = {"a", "b"}
    NUL = "NUL"
    DeviceSize = 2
    MaxWaiting = 3
SPECIFICATION Spec
PROPERTIES
    ReturnsNextAlways
