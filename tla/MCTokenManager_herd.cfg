SPECIFICATION Spec
CONSTANTS
    None = None
    serve = serve
    cli = cli
    rest1 = rest1
    rest2 = rest2
    command = command
    acc1 = acc1
    acc2 = acc2
    tA = tA
    mail1 = mail1
    Mail2 = Mail2
    mail2 = mail2
    Procs = {serve, cli}
    Workers = {rest1, rest2}
    ProcOf <- CommandInCli
    Duty <- UseDuty
    Ids = {acc1}
    Tenants = {tA}
    Emails = {mail1}
    Lower <- LowerCase
    States = {}
    Seeded <- OneAccount
    Rotation = {"keep"}
    Outside = {"lapse", "revoke"}
    MaxIssue = 3
    IdleCap = 0
PROPERTIES NoThunderingHerd
