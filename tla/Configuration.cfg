SPECIFICATION BindingsSpec
CONSTANTS
    TypeEntries <- MCTypeEntries
    InstanceEntries <- MCInstanceEntries
    GlobalEntries <- MCGlobalEntries
    FilterEntries <- MCFilterEntries
    Nothing = Nothing
    Remote <- MCRemote
    OtherTexts <- MCOtherTexts
    FoundIds = {5}
    MaxTypes = 2
    MaxInstances = 2
    MaxFilterEntries = 3
    MaxInitializes = 2
INVARIANTS
    ConfigurationIsConsistent
    OnlyRepeatsEndTheProcess
    ListedUsersAreAdmitted
CHECK_DEADLOCK FALSE
