SPECIFICATION MCSpec
CONSTANTS
    Technologies = {"wifi", "ethernet"}
    Services = {"home", "cafe"}
    MaxChanges = 4
    Display = "DisplayDevice"
    Devices = {"battery", "mouse"}
    States = {2, 7}
    Actions = {"PowerOff"}
    MaxPowerChanges = 3
INVARIANTS OrderIsKnown TechnologiesMatch ServicesMatch DevicesMatch
PROPERTY ConnmanCatchesUp
CHECK_DEADLOCK FALSE
