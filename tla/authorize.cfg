SPECIFICATION FairSpec
CONSTANTS
    t1 = t1
    t2 = t2
    u1 = u1
    u2 = u2
    st = st
    challenge = challenge
    c1 = c1
    uri1 = uri1
    uri2 = uri2
    read = read
    write = write
    admin = admin
    Tabs = {t1}
    Users = {u1, u2}
    Clients <- MCClients
    URIs <- MCURIs
    Scopes <- MCScopes
    States = {st}
    Challenges = {challenge}
    RedirectURIs <- MCRedirectURIs
    Allowed <- MCAllowed
    Absent = {absent}
    Malformed = Malformed
    absent = absent
    None = None
    MaxTrouble = 2
INVARIANTS
    TypeOK
    CodesAreRegistered
    ConsentIsWhatIsGranted
    FlowKeepsItsRequest
PROPERTIES
    FlowEnds
    ImplementsProtocol
