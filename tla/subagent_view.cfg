CONSTANTS
    MaxGroups = 3
    MaxPanes = 4
    MaxItems = 3
    MaxTasks = 1
    RestoredGroups = 2
    Agent <- OneAgent
    Calm = FALSE
SPECIFICATION Spec
INVARIANTS
    SubagentKeepsUserView
