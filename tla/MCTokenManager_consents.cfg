SPECIFICATION Spec
CONSTANTS
    None = None
    serve = serve
    cli = cli
    rest1 = rest1
    rest2 = rest2
    command = command
    acc1 = acc1
    acc2 = acc2
    tA = tA
    mail1 = mail1
    Mail2 = Mail2
    mail2 = mail2
    Procs = {serve, cli}
    Workers = {rest1, rest2, command}
    ProcOf <- CommandInCli
    Duty <- ConsentDuty
    Ids = {acc1, acc2, acc3}
    Tenants = {tA}
    Emails = {mail1, mail2, Mail2}
    Lower <- LowerCase
    States = {s1, s2}
    Seeded <- OneAccount
    Rotation = {"keep"}
    Outside = {}
    MaxIssue = 2
    IdleCap = 1
INVARIANTS TokenBelongsToAccount ConsentKeepsItsMailbox ActiveHasToken NoOrphanToken
SYMMETRY ConsentSymmetry
CHECK_DEADLOCK FALSE
