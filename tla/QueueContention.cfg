SPECIFICATION Spec
CONSTANTS
    Producers = {p1, p2}
    Consumers = {c1}
    Size = 2
    VersionLimit = 8
    OffsetLimit = 16
    SpinLimit = 2
    MaxPush = 4
PROPERTIES SidesExclusive
