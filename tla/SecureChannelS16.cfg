CONSTANTS
    none = none
    Channels = {0, 1}
    Protocols = {"SCP02", "SCP03"}
    SMode = 16
    Levels <- SomeLevels
    Sizes = {0, 20, 230, 240}
    NoScp = none
    MaxSessions = 2
    MaxCommands = 3
    MaxFaults = 1
SPECIFICATION Spec
INVARIANT AlwaysAsMeant
