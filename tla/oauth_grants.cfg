SPECIFICATION Spec
CONSTANTS
    None = None
    u1 = u1
    u2 = u2
    c1 = c1
    c2 = c2
    sc1 = sc1
    sc2 = sc2
    s1 = s1
    s2 = s2
    s3 = s3
    k1 = k1
    r1 = r1
    r2 = r2
    Users = {u1, u2}
    Clients = {c1, c2}
    Scopes = {sc1, sc2}
    Sessions = {s1, s2, s3}
    Codes = {k1}
    Requests = {r1, r2}
    Ops = {"login", "approve", "redeem", "clientRefresh", "clientCredentials"}
    Faults = {}
    EphemeralKey = FALSE
INVARIANTS
    ExchangeKeepsBinding
    ExchangeSpends
    DeadIsNeverServed
SYMMETRY Symmetry
