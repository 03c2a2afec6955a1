SPECIFICATION Spec
CONSTANTS
    Producers = {p1}
    Consumers = {c1}
    Size = 2
    VersionLimit = 2
    OffsetLimit = 16
    SpinLimit = 2
    MaxPush = 8
INVARIANTS QueueInv
PROPERTIES ImplementsFifo EverythingArrives
