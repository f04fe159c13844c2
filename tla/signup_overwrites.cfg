SPECIFICATION FairSpec
CONSTANTS
    Ids       <- MCIds
    Emails    <- MCEmails
    Usernames <- MCUsernames
    Passwords <- MCPasswords
    Times     <- MCTimes
    Bodies    <- Signups
    Existing  <- Nobody
    Holders   <- MCHolders
    Calls    = {c1, c2}
    First    = c1
    Messages = {m1}
    Walks    = {}
    Limit    = 1
    MaxRestarts = 0
    MaxNews  = 0
    Faults = {}
    None = None
    NoId = NoId
PROPERTY SignupSparesActive
