SPECIFICATION ServiceSpec
CONSTANTS
    Child = {p1}
    NoProcess = no_process
    Stranger = stranger
    Adopting = FALSE
    Crashing = FALSE
    AlarmThreshold = 3
    MaxPolls = 1
    MaxOperations = 1
PROPERTY StopLeavesNobody
