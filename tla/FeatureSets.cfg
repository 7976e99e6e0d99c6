SPECIFICATION Spec
CONSTANTS
    c1 = c1  c2 = c2  a = a  b = b  u = u
    Clients = {c1, c2}
    Tenants = {a, b}
    Registered = {a}
    Closing = {a}
    Keys = {a, b, u}
    ApiKey <- OwnKey
    NonAscii = {u}
    Missing = Missing
    Credentials <- SomeCredentials
    NumSets = 2
    MaxTries = 2
    BatchRetryLimit = 1
    Batches <- AllSets
    MaxItems = 2
SYMMETRY ClientSymmetry
INVARIANTS TypeOK ListBetweenStates BatchBetweenStates RefusalJustified AnswerTellsEffect
           OnlyOwnerAnswered
PROPERTIES OnlyOwnerWrites RepeatedOnlyIfUndone
CHECK_DEADLOCK FALSE
