SPECIFICATION Spec
CONSTANTS
    None = None
    a1 = a1
    a2 = a2
    Addresses = {a1, a2}
    MaxRequests = 2
    Window = 1
    Retention = 2
    Period = 2
    MaxTime = 6
INVARIANTS
    TypeOK
    AtMostMaxPerWindow
    EntriesAreForgotten
PROPERTIES
    ImplementsBursts
