SPECIFICATION Spec
CONSTANTS
    None = None
    MaxInputs <- AllInputs
    Parts = {"notices", "list", "sleuth", "directory", "managed", "access", "push", "forms", "account"}
    Notice = {1, 2}
    ListLimit = 1
    MaxPopups = 1
    Item = {1, 2}
    PageSize = 1
    Project = {1, 2}
    MaxVersion = 1
    Entry = {1}
    Account = {1, 2}
    Tab = {1, 2}
    Person = {1, 2}
    Attempts = 2
    Section = {1, 2}
    TopicInputs <- AllTopics
    Device = {1, 2}
    Channel = {1, 2}
INVARIANTS
    TypeOK
    BellRight
    ConfirmedRight
    ManagedRight
    SignedOutIsOut
    
    AccountRight
PROPERTIES
    LateLoadsTakeNothingBack
    ListSettles
    UnsavedKept
CHECK_DEADLOCK FALSE
