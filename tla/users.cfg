SPECIFICATION MCSpec
CONSTANTS
    Ids       <- MCIds
    Emails    <- MCEmails
    Usernames <- MCUsernames
    Passwords <- MCPasswords
    Times     <- MCTimes
    Bodies    <- MCBodies
    Existing  <- MCExisting
    Holders   <- MCHolders
    Calls    = {c1, c2}
    First    = c1
    Messages = {m1, m2, m3, m4}
    Walks    = {w1}
    Limit    = 1
    MaxRestarts = 1
    MaxNews  = 2
    Faults = {"redis", "db", "broker", "crash"}
    None = None
    NoId = NoId
INVARIANTS
    TypeOK
    EmailsUnique
    LoginsKept
    NotificationsBounded
    NothingMissed
PROPERTIES
    ProfilesSettle
    LoginsLogged
