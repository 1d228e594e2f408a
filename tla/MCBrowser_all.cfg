SPECIFICATION BrowserSpec

CONSTANTS
    c1 = c1
    c2 = c2
    c3 = c3
    t1 = t1
    s1 = s1
    s2 = s2
    backups = backups
    library1 = library1
    Kinds = {"repositories", "dashboard", "backends", "schedules", "runs", "integrations", "snapshots"}
    Changes <- MCChanges
    Ids = {1, 2}
    MaxOpen = 2
    Tabs <- MCTabs
    Saves <- MCSaves
    Policies = {"60d", "never"}
    Crons = {"three", "unreadable"}
    Folders <- MCFolders
    Offered <- MCFolders
    Items = {}
    Backups = backups
    Libraries <- MCLibraries
    Every = Every
    Unset = Unset
    Unknown = Unknown
    MaxEdits = 1

SYMMETRY BrowserSymmetry


    
    

PROPERTIES
    UntouchedSettingsStay
