SPECIFICATION FairSpec
CONSTANTS
    None = None
    u1 = u1
    c1 = c1
    sc1 = sc1
    s1 = s1
    s2 = s2
    k1 = k1
    r1 = r1
    r2 = r2
    Users = {u1}
    Clients = {c1}
    Scopes = {sc1}
    Sessions = {s1, s2}
    Codes = {k1}
    Requests = {r1, r2}
    Ops = {"login", "refresh", "logout", "logoutAll"}
    Faults = {}
    EphemeralKey = FALSE
PROPERTIES
    EveryRequestIsAnswered
