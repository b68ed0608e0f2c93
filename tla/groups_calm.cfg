CONSTANTS
    MaxGroups = 3
    MaxPanes = 3
    MaxItems = 3
    MaxTasks = 1
    RestoredGroups = 2
    Agent <- NoAgents
    Calm = TRUE
SPECIFICATION Spec
INVARIANTS
    TypeOK
    PanesDisjoint
    BadgeOnOwner
    
PROPERTIES
    BadgeKept
    RosterSpec
