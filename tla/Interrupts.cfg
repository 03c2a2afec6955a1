SPECIFICATION Spec
CONSTANTS
    InstSteps = {1, 4}
    Setups = {"machine", "supervisor"}
    CyclesPerTick = 2
    Intervals = {1, 3}
    MaxTime = 3
    MaxChars = 1
    MaxIpi = 1
    MaxGpio = 1
    MaxCalls = 1
    MaxReset = 1
INVARIANTS InterruptsInv ReturnsToInterrupted
PROPERTIES DevicesServed TimerServed
