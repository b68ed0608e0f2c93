CONSTANTS
    MaxGroups = 3
    MaxPanes = 3
    MaxItems = 2
    MaxTasks = 1
    RestoredGroups = 2
    Agent <- OneAgent
    Calm = FALSE
SPECIFICATION Spec
PROPERTIES
    HandlersKeepTabs
    GroupContentKept
    OnlyLateTabsUntraced
    
