--------------------------- MODULE MCTokenManager ---------------------------
(***************************************************************************)
(* Instances of TokenManager for TLC.  The processes and workers are named *)
(* here; each Duty below is one cast of callers; the remaining sets come   *)
(* from the configuration.                                                 *)
(***************************************************************************)
EXTENDS TokenManager, TLC

CONSTANTS serve, cli,          \* processes
          rest1, rest2,        \* workers of the server
          command,             \* worker that runs CLI commands
          acc1, acc2,          \* accounts
          tA,                  \* their tenant
          mail1, mail2, Mail2  \* the address of each, the second in two spellings

LowerCase == [e \in Emails |-> IF e = Mail2 THEN mail2 ELSE e]

OneAccount == [i \in {acc1} |-> [tenant |-> tA, email |-> mail1]]
TwoAccounts == [i \in {acc1, acc2} |->
                   [tenant |-> tA, email |-> IF i = acc1 THEN mail1 ELSE mail2]]

CommandInCli == [w \in Workers |-> IF w = command THEN cli ELSE serve]

\* Consents in the server; another process over the same database, which may be a
\* command, an MCP server or a second server, takes one call of any other kind at a time.
ConsentDuty ==
    [w \in Workers |-> IF w = command THEN {"use", "refresh_all", "disconnect", "remove"}
                       ELSE {"connect"}]

\* What ConsentDuty does not tell apart, for a run of invariants.
ConsentSymmetry ==
    Permutations(States) \cup Permutations(Ids \ {acc1}) \cup Permutations(Workers \ {command})

\* Mail requests, consents and disconnections beside a CLI that removes accounts.
MailDuty ==
    [w \in Workers |-> IF w = command THEN {"remove"}
                       ELSE {"use", "retry", "connect", "disconnect"}]

\* Requests that Graph answered with a 401, in the server and in an MCP server, beside
\* the background loop and removals.
BatchDuty ==
    [w \in Workers |-> CASE w = rest1 -> {"retry"}
                         [] w = rest2 -> {"refresh_stale"}
                         [] w = command -> {"retry", "remove"}]

\* Mail requests only, or with disconnections.
UseDuty == [w \in Workers |-> {"use", "retry"}]
DisconnectDuty == [w \in Workers |-> {"use", "disconnect"}]
ReconsentDuty == [w \in Workers |-> {"connect", "disconnect"}]
=============================================================================
