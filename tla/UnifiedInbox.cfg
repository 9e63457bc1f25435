SPECIFICATION Spec
CONSTANTS
    NumAccounts = 3
    MaxDate = 2
    MaxMail = 3
    Asked = {0, 1, 2, 4, 9}
    DefaultLimit = 3
    MaxLimit = 5
    None = None
INVARIANTS TypeOK InboxIsNewest InboxIsOrdered
CHECK_DEADLOCK FALSE
