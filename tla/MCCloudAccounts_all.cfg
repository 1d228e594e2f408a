SPECIFICATION AccountsSpec

CONSTANTS
    person = person
    other = other
    tab1 = tab1
    device = device
    c1 = c1
    c2 = c2
    a1 = a1
    a2 = a2
    Persons <- MCPersons
    MaxUsers = 2
    CodeLogins <- MCTabs
    DeviceLogins <- MCDevices
    Calls <- MCCalls
    AdminOps <- MCOps
    None = None

CHECK_DEADLOCK FALSE

INVARIANTS
    DisabledIsLoggedOut
    AccountsAreTheirs

PROPERTIES
    DeviceStreamsEnd
