SPECIFICATION FairSpec
CONSTANTS
    None = None
    u1 = u1
    u2 = u2
    e1 = e1
    e2 = e2
    n1 = n1
    n2 = n2
    google1 = google1
    apple1 = apple1
    r1 = r1
    r2 = r2
    Users = {u1, u2}
    Emails = {e1, e2}
    Usernames = {n1, n2}
    Identities = {google1, apple1}
    Requests = {r1, r2}
    Tries = 2
    Faults = {"fail"}
    Registers = {e1}
    Brings <- MCBrings
    Suspects = {u1}
    Logins = 2
INVARIANTS
    TypeOK
    IdentityIsOneUser
    AddressIsOneUser
    LinksAreEarned
    UsersAreTraced
    SuspendedNeverSignsIn
PROPERTIES
    EveryRequestIsAnswered
    ImplementsDirectory
