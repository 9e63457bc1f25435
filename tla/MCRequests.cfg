SPECIFICATION Spec
CONSTANTS
    None = None
    tA = tA
    tB = tB
    keyA = keyA
    keyB = keyB
    own = own
    other = other
    twin = twin
    box = box
    Box = Box
    Tenants = {tA, tB}
    Default = tA
    Keys = {keyA, keyB}
    Addresses = {box, Box}
    Lower <- LowerCase
    Requests = {r1, r2}
    Calls <- SomeCalls
    KeyLists <- SomeKeyLists
    Ids = {own, other, twin}
    Owner <- Mailboxes
    Seeded = {own, other}
    MaxIssue <- Issues
INVARIANTS TypeOK ReachesOwnAccount RetryIsFresh
PROPERTY ImplementsOutbox
SYMMETRY RequestSymmetry
CHECK_DEADLOCK FALSE
