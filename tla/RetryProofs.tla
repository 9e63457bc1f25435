----------------------------- MODULE RetryProofs -----------------------------
(***************************************************************************)
(* That a second try has a token which was not refused before, for any     *)
(* number of requests and accounts.                                        *)
(*                                                                         *)
(* The argument is about the age of tokens.  A token is in the hands of    *)
(* the one request that was issued it until that request stores it; only   *)
(* a token that has been in the table can have been refused.  So what a    *)
(* refresh or a consent stores was never refused, and only a write-back    *)
(* brings a refused token into the table again.                            *)
(***************************************************************************)
EXTENDS RequestsProofs

hand(r) == job[r].hand
refused(r) == job[r].refused

\* Without an account there is no token.
Bare(r) == pc[r] \in {"idle", "get", "get_by_email", "list", "done"} => job[r] = NoJob

\* Tokens are issued one after the other.
Issued(r) ==
    Account(r) \in Ids =>
        hand(r) <= issued[Account(r)] /\ refused(r) <= issued[Account(r)]

\* r has a token that it has not stored yet, and that is nowhere else.
Carries(r) == pc[r] \in {"store", "restore"}

New(r) ==
    Carries(r) =>
        /\ Account(r) \in DOMAIN tokens => tokens[Account(r)] # hand(r)
        /\ \A q \in Requests : Account(q) = Account(r) =>
               refused(q) # hand(r) /\ (q # r => hand(q) # hand(r))

\* What r was refused it finds in the table only if a write-back put it there.
Retries(r) == pc[r] \in {"token", "bump", "refresh", "store", "reread", "send", "await"}

Spent(r) ==
    Retries(r) =>
        /\ Account(r) \in DOMAIN tokens /\ tokens[Account(r)] = refused(r) =>
               Token(Account(r), refused(r)) \in revived
        /\ pc[r] \in {"bump", "send", "await"} /\ hand(r) = refused(r) =>
               Token(Account(r), refused(r)) \in revived

TableIssued == \A i \in DOMAIN tokens : tokens[i] <= issued[i]

RetryInv ==
    /\ TableIssued
    /\ \A r \in Requests : Bare(r) /\ Issued(r) /\ New(r) /\ Spent(r)

LEMMA InitRetry == Init => RetryInv
<1> SUFFICES ASSUME Init PROVE RetryInv
  OBVIOUS
<1>1. TableIssued
  <2>1. ASSUME NEW i \in DOMAIN tokens PROVE tokens[i] <= issued[i]
    <3>1. i \in Seeded /\ i \in Ids
      BY RequestsConstants DEF Init
    <3>2. tokens[i] = 1 /\ issued[i] = 1
      BY <3>1 DEF Init
    <3> QED
      BY <3>2
  <2> QED
    BY <2>1 DEF TableIssued
<1>2. ASSUME NEW r \in Requests PROVE Bare(r) /\ Issued(r) /\ New(r) /\ Spent(r)
  BY RequestsConstants DEF Init, Bare, Issued, New, Spent, Carries, Retries, NoJob, Account
<1> QED
  BY <1>1, <1>2 DEF RetryInv

----------------------------------------------------------------------------
(* Steps that leave the tokens alone *)

\* The types that the arguments below need.
LEMMA Numbers ==
    ASSUME IInv
    PROVE  /\ \A r \in Requests : /\ hand(r) \in Nat /\ refused(r) \in Nat
                                  /\ Account(r) \in Ids \cup {None}
                                  /\ Carries(r) => hand(r) > 0 /\ Account(r) \in Ids
           /\ \A i \in Ids : issued[i] \in Nat
           /\ \A i \in DOMAIN tokens : i \in Ids /\ tokens[i] \in Nat \ {0}
           /\ None \notin Ids
<1>1. \A r \in Requests : job[r] \in Job /\ Equipped(r)
  BY DEF IInv, TypeOK, ControlOK
<1> QED
  BY <1>1, RequestsConstants
  DEF IInv, TypeOK, TablesOK, IsTable, Job, Equipped, hand, refused, Account, Carries

\* r moves on; its hand is empty, what it was, or what the table has.
LEMMA MoveRetry ==
    ASSUME IInv, IInv', RetryInv, NEW r \in Requests, Others(r),
           UNCHANGED <<tokens, issued, revived>>, ~ Carries(r)',
           Bare(r)', Spent(r)',
           \/ hand(r)' = 0
           \/ hand(r)' = hand(r) /\ ~ Carries(r)
           \/ Account(r) \in DOMAIN tokens /\ hand(r)' = tokens[Account(r)],
           \/ refused(r)' \in {0, refused(r)}
           \/ refused(r)' = hand(r) /\ ~ Carries(r),
           \/ Account(r)' = Account(r)
           \/ hand(r)' = 0 /\ refused(r)' = 0
    PROVE  RetryInv'
<1>1. TableIssued'
  BY DEF RetryInv, TableIssued
<1>2. Issued(r)' /\ New(r)'
  <2>1. Issued(r)'
    BY Numbers DEF RetryInv, TableIssued, Issued
  <2> QED
    BY <2>1 DEF New
<1>3. ASSUME NEW q \in Requests \ {r} PROVE (Bare(q) /\ Issued(q) /\ New(q) /\ Spent(q))'
  <2>1. pc'[q] = pc[q] /\ job'[q] = job[q]
    BY DEF Others
  <2>2. /\ Account(q)' = Account(q) /\ hand(q)' = hand(q) /\ refused(q)' = refused(q)
        /\ Carries(q)' = Carries(q) /\ Retries(q)' = Retries(q)
    BY <2>1 DEF Account, hand, refused, Carries, Retries
  <2>3. Bare(q)' /\ Issued(q)' /\ Spent(q)'
    BY <2>1, <2>2 DEF RetryInv, Bare, Issued, Spent, Token
  <2>4. ASSUME Carries(q) PROVE New(q)'
    <3>1. Account(r)' = Account(q) => refused(r)' # hand(q) /\ hand(r)' # hand(q)
      BY <2>4, Numbers DEF RetryInv, New
    <3>2. ASSUME NEW p \in Requests, Account(p)' = Account(q)
          PROVE  refused(p)' # hand(q) /\ (p # q => hand(p)' # hand(q))
      <4>1. CASE p = r
        BY <3>1, <3>2, <4>1
      <4>2. CASE p # r
        <5>1. Account(p) = Account(q) /\ hand(p)' = hand(p) /\ refused(p)' = refused(p)
          BY <3>2, <4>2 DEF Others, Account, hand, refused
        <5> QED
          BY <2>4, <5>1 DEF RetryInv, New
      <4> QED
        BY <4>1, <4>2
    <3>3. Account(q) \in DOMAIN tokens => tokens[Account(q)] # hand(q)
      BY <2>4 DEF RetryInv, New
    <3> QED
      BY <2>2, <3>2, <3>3 DEF New
  <2> QED
    BY <2>2, <2>3, <2>4 DEF New
<1> QED
  BY <1>1, <1>2, <1>3 DEF RetryInv

\* A request that returns forgets its token.
LEMMA ReturnRetry ==
    ASSUME IInv, IInv', RetryInv, NEW r \in Requests, NEW kind, Return(r, kind),
           UNCHANGED <<tokens, issued, revived>>
    PROVE  RetryInv'
<1>1. Others(r) /\ pc'[r] = "done" /\ job'[r] = NoJob
  BY DEF Return, Goto, Others, IInv, TypeOK, ControlOK
<1>2. ~ Carries(r)' /\ Bare(r)' /\ Spent(r)' /\ hand(r)' = 0 /\ refused(r)' = 0
  BY <1>1 DEF Carries, Bare, Spent, Retries, hand, refused, NoJob
<1> QED
  BY <1>1, <1>2, MoveRetry

\* What a Continue means for the parts of a job.
LEMMA Continued ==
    ASSUME IInv, NEW r \in Requests, NEW step, NEW j, Continue(r, step, j)
    PROVE  Others(r) /\ pc'[r] = step /\ job'[r] = j
BY DEF Continue, Goto, Others, IInv, TypeOK, ControlOK

LEMMA ContinueRetry ==
    ASSUME IInv, IInv', RetryInv, NEW r \in Requests, NEW step, NEW j,
           Continue(r, step, j), UNCHANGED <<tokens, issued, revived>>,
           step \notin {"store", "restore"}, Bare(r)', Spent(r)',
           \/ j.hand = 0
           \/ j.hand = hand(r) /\ ~ Carries(r)
           \/ Account(r) \in DOMAIN tokens /\ j.hand = tokens[Account(r)],
           \/ j.refused \in {0, refused(r)}
           \/ j.refused = hand(r) /\ ~ Carries(r),
           j.account = Account(r) \/ (j.hand = 0 /\ j.refused = 0)
    PROVE  RetryInv'
<1>1. Others(r) /\ pc'[r] = step /\ job'[r] = j
  BY Continued
<1>2. /\ hand(r)' = j.hand /\ refused(r)' = j.refused /\ Account(r)' = j.account
      /\ ~ Carries(r)'
  BY <1>1 DEF hand, refused, Account, Carries
<1> HIDE DEF hand, refused
<1> QED
  BY <1>1, <1>2, MoveRetry

----------------------------------------------------------------------------
(* Steps that change the tokens *)

\* A token n put into the table of account i is the hand of no request that carries
\* another, and was refused to nobody unless a write-back put it there.
Safe(i, n) ==
    /\ n <= issued'[i]
    /\ \A q \in Requests : Account(q) = i =>
           /\ refused(q) = n => Token(i, n) \in revived'
           /\ Carries(q)' => hand(q) # n

LEMMA TokensRetry ==
    ASSUME IInv, IInv', RetryInv, revived \subseteq revived',
           \A i \in Ids : issued[i] <= issued'[i],
           \A i \in DOMAIN tokens' :
               (i \in DOMAIN tokens /\ tokens'[i] = tokens[i]) \/ Safe(i, tokens'[i]),
           \A q \in Requests :
               /\ job'[q] = job[q] \/ job'[q] = NoJob
               /\ \/ pc'[q] = pc[q] /\ job'[q] = job[q]
                  \/ ~ Carries(q)' /\ Bare(q)' /\ Spent(q)'
    PROVE  RetryInv'
<1>1. TableIssued'
  <2>1. ASSUME NEW i \in DOMAIN tokens' PROVE tokens'[i] <= issued'[i]
    <3>1. i \in Ids /\ issued[i] \in Nat /\ issued'[i] \in Nat /\ tokens'[i] \in Nat
      BY <2>1 DEF IInv, TypeOK, TablesOK, IsTable
    <3>2. CASE i \in DOMAIN tokens /\ tokens'[i] = tokens[i]
      BY <3>1, <3>2 DEF RetryInv, TableIssued
    <3>3. CASE Safe(i, tokens'[i])
      BY <3>3 DEF Safe
    <3> QED
      BY <3>2, <3>3
  <2> QED
    BY <2>1 DEF TableIssued
<1>2. ASSUME NEW q \in Requests
      PROVE  \/ Account(q)' = Account(q) /\ hand(q)' = hand(q) /\ refused(q)' = refused(q)
             \/ Account(q)' = None /\ hand(q)' = 0 /\ refused(q)' = 0
  BY DEF Account, hand, refused, NoJob
<1>3. ASSUME NEW q \in Requests PROVE Issued(q)'
  <2>1. CASE Account(q)' = None
    BY <2>1, Numbers DEF Issued
  <2>2. CASE /\ Account(q)' = Account(q) /\ Account(q) \in Ids
             /\ hand(q)' = hand(q) /\ refused(q)' = refused(q)
    <3>1. /\ hand(q) \in Nat /\ refused(q) \in Nat /\ issued[Account(q)] \in Nat
          /\ issued[Account(q)] <= issued'[Account(q)] /\ issued'[Account(q)] \in Nat
      BY <2>2, Numbers DEF IInv, TypeOK, TablesOK
    <3>2. hand(q) <= issued[Account(q)] /\ refused(q) <= issued[Account(q)]
      BY <2>2 DEF RetryInv, Issued
    <3>3. hand(q) <= issued'[Account(q)] /\ refused(q) <= issued'[Account(q)]
      BY <3>1, <3>2
    <3> QED
      BY <2>2, <3>3 DEF Issued
  <2> QED
    BY <1>2, <2>1, <2>2 DEF Issued
<1>4. ASSUME NEW q \in Requests PROVE Bare(q)' /\ New(q)' /\ Spent(q)'
  <2>1. CASE ~ Carries(q)' /\ Bare(q)' /\ Spent(q)'
    BY <2>1 DEF New
  <2>2. CASE pc'[q] = pc[q] /\ job'[q] = job[q]
    <3>1. /\ Account(q)' = Account(q) /\ hand(q)' = hand(q) /\ refused(q)' = refused(q)
          /\ Carries(q)' = Carries(q) /\ Retries(q)' = Retries(q)
      BY <2>2 DEF Account, hand, refused, Carries, Retries
    <3>2. Bare(q)'
      BY <2>2 DEF RetryInv, Bare
    <3>3. ASSUME Carries(q) PROVE New(q)'
      <4>1. Account(q) \in DOMAIN tokens' => tokens'[Account(q)] # hand(q)
        BY <3>1, <3>3 DEF RetryInv, New, Safe
      <4>2. ASSUME NEW p \in Requests, Account(p)' = Account(q)
            PROVE  refused(p)' # hand(q) /\ (p # q => hand(p)' # hand(q))
        BY <1>2, <3>3, <4>2, Numbers DEF RetryInv, New
      <4> QED
        BY <3>1, <4>1, <4>2 DEF New
    <3>4. Spent(q)'
      <4> DEFINE t == Token(Account(q), refused(q))
      <4>1. ASSUME Retries(q), Account(q) \in DOMAIN tokens', tokens'[Account(q)] = refused(q)
            PROVE  t \in revived'
        BY <4>1 DEF RetryInv, Spent, Safe
      <4>2. ASSUME Retries(q), pc[q] \in {"bump", "send", "await"}, hand(q) = refused(q)
            PROVE  t \in revived'
        BY <4>2 DEF RetryInv, Spent
      <4>3. Token(Account(q), refused(q))' = t
        BY <3>1 DEF Token
      <4> QED
        BY <2>2, <3>1, <4>1, <4>2, <4>3 DEF Spent
    <3> QED
      BY <3>1, <3>2, <3>3, <3>4 DEF New
  <2> QED
    BY <2>1, <2>2
<1> QED
  BY <1>1, <1>3, <1>4 DEF RetryInv

----------------------------------------------------------------------------
(* Each action preserves the invariant *)

\* r has its next locals; what it held was not a token of its own making.
LEMMA Parts ==
    ASSUME IInv, NEW r \in Requests
    PROVE  /\ job[r] \in Job
           /\ \A n \in Nat : LET j == [job[r] EXCEPT !.hand = n]
                           IN  /\ j.account = job[r].account /\ j.tries = job[r].tries
                               /\ j.refused = job[r].refused /\ j.hand = n
           /\ \A n \in Nat : LET j == [job[r] EXCEPT !.refused = n]
                           IN  /\ j.account = job[r].account /\ j.tries = job[r].tries
                               /\ j.refused = n /\ j.hand = job[r].hand
           /\ \A n \in 0..2 : LET j == [job[r] EXCEPT !.tries = n]
                           IN  /\ j.account = job[r].account /\ j.tries = n
                               /\ j.refused = job[r].refused /\ j.hand = job[r].hand
           /\ \A i \in Ids : LET j == [job[r] EXCEPT !.account = i]
                           IN  /\ j.account = i /\ j.tries = job[r].tries
                               /\ j.refused = job[r].refused /\ j.hand = job[r].hand
BY DEF IInv, TypeOK, ControlOK, Job

LEMMA ArriveRetry ==
    ASSUME IInv, IInv', RetryInv, NEW r \in Requests, NEW c \in Calls, Arrive(r, c)
    PROVE  RetryInv'
<1>1. UNCHANGED <<tokens, issued, revived>>
  BY DEF Arrive, tables
<1>2. CASE Tenant(c) = None
  BY <1>1, <1>2, ReturnRetry DEF Arrive
<1>3. CASE Tenant(c) # None
  <2>1. PICK step \in {"get", "list"} : Continue(r, step, NoJob)
    BY <1>3 DEF Arrive
  <2>2. Bare(r)' /\ Spent(r)'
    BY <2>1, Continued DEF Bare, Spent, Retries
  <2>3. NoJob.hand = 0 /\ NoJob.refused = 0
    BY DEF NoJob
  <2> QED
    BY <1>1, <2>1, <2>2, <2>3, ContinueRetry
<1> QED
  BY <1>2, <1>3

\* A request that finds its account was refused nothing.
LEMMA FoundRetry ==
    ASSUME IInv, IInv', RetryInv, NEW r \in Requests, NEW ids \in SUBSET Ids, Found(r, ids),
           pc[r] \in {"get", "get_by_email"}, UNCHANGED <<tokens, issued, revived>>
    PROVE  RetryInv'
<1> DEFINE step == Begin(call[r].op)
<1>1. PICK i \in ids : Continue(r, step, [job[r] EXCEPT !.account = i])
  BY DEF Found
<1> DEFINE j == [job[r] EXCEPT !.account = i]
<1>2. step \in {"token", "drop", "delete"}
  BY DEF Begin
<1>3. job[r] = NoJob
  BY DEF RetryInv, Bare
<1>4. j.hand = 0 /\ j.refused = 0 /\ j.account = i
  BY <1>3, Parts DEF NoJob
<1> HIDE DEF j, step
<1>5. Others(r) /\ pc'[r] = step /\ job'[r] = j
  BY <1>1, Continued DEF j
<1>6. hand(r)' = 0 /\ refused(r)' = 0 /\ Account(r)' = i /\ Account(r)' \in Ids
  BY <1>4, <1>5 DEF hand, refused, Account
<1>7. Bare(r)' /\ ~ Carries(r)'
  BY <1>2, <1>5 DEF Bare, Carries
<1>8. Spent(r)'
  <2>1. Account(r)' \in DOMAIN tokens' => tokens'[Account(r)'] # 0
    BY DEF IInv, TypeOK, TablesOK, IsTable
  <2> QED
    BY <1>2, <1>5, <1>6, <2>1 DEF Spent
<1> QED
  BY <1>5, <1>6, <1>7, <1>8, MoveRetry

\* Before it has found its account, a request has no token.
LEMMA Unprovided ==
    ASSUME RetryInv, NEW r \in Requests, pc[r] \in {"idle", "get", "get_by_email", "list", "done"}
    PROVE  job[r] = NoJob /\ job[r].hand = 0 /\ job[r].refused = 0
BY DEF RetryInv, Bare, NoJob

LEMMA EmailRetry ==
    ASSUME IInv, IInv', RetryInv, NEW r \in Requests, pc[r] = "get",
           Continue(r, "get_by_email", job[r]), UNCHANGED <<tokens, issued, revived>>
    PROVE  RetryInv'
<1>1. job[r] = NoJob /\ job[r].hand = 0 /\ job[r].refused = 0
  BY Unprovided
<1>2. Bare(r)' /\ Spent(r)'
  BY <1>1, Continued DEF Bare, Spent, Retries
<1> QED
  BY <1>1, <1>2, ContinueRetry

LEMMA GetRetry ==
    ASSUME IInv, IInv', RetryInv, NEW r \in Requests, Get(r)
    PROVE  RetryInv'
<1> DEFINE ids == ById(accounts, Tenant(call[r]), call[r].names)
<1>1. UNCHANGED <<tokens, issued, revived>> /\ pc[r] = "get"
  BY DEF Get, tables
<1>2. ids \subseteq Ids
  BY DEF ById, IInv, TypeOK, TablesOK, IsTable
<1>3. CASE Found(r, ids)
  BY <1>1, <1>2, <1>3, FoundRetry
<1>4. CASE Return(r, "NotFound")
  BY <1>1, <1>4, ReturnRetry
<1>5. CASE Continue(r, "get_by_email", job[r])
  BY <1>1, <1>5, EmailRetry
<1> QED
  BY <1>3, <1>4, <1>5 DEF Get

LEMMA GetByEmailRetry ==
    ASSUME IInv, IInv', RetryInv, NEW r \in Requests, GetByEmail(r)
    PROVE  RetryInv'
<1> DEFINE ids == ByAddress(accounts, Tenant(call[r]), call[r].names)
<1>1. UNCHANGED <<tokens, issued, revived>> /\ pc[r] = "get_by_email"
  BY DEF GetByEmail, tables
<1>2. ids \subseteq Ids
  BY DEF ByAddress, IInv, TypeOK, TablesOK, IsTable
<1>3. CASE Found(r, ids)
  BY <1>1, <1>2, <1>3, FoundRetry
<1>4. CASE Return(r, "NotFound")
  BY <1>1, <1>4, ReturnRetry
<1> QED
  BY <1>3, <1>4 DEF GetByEmail

\* What is in the table is old news to a request that reads it; so is what it reads.
LEMMA ReadRetry ==
    ASSUME IInv, IInv', RetryInv, NEW r \in Requests, pc[r] \in {"token", "reread"},
           Account(r) \in DOMAIN tokens, NEW step \in {"bump", "send"},
           Continue(r, step, Holding(r, tokens[Account(r)])),
           UNCHANGED <<tokens, issued, revived>>
    PROVE  RetryInv'
<1> DEFINE n == tokens[Account(r)]
           j == [job[r] EXCEPT !.hand = n]
<1>1. n \in Nat
  BY Numbers
<1>2. j.account = Account(r) /\ j.refused = refused(r) /\ j.hand = n
  BY <1>1, Parts DEF Account, refused
<1>3. Continue(r, step, j)
  BY DEF Holding
<1> HIDE DEF j
<1>4. Others(r) /\ pc'[r] = step /\ job'[r] = j
  BY <1>3, Continued
<1>5. hand(r)' = n /\ refused(r)' = refused(r) /\ Account(r)' = Account(r)
  BY <1>2, <1>4 DEF hand, refused, Account
<1>6. Bare(r)'
  BY <1>4 DEF Bare
<1>7. Spent(r)'
  <2>1. n = refused(r) => Token(Account(r), refused(r)) \in revived
    BY DEF RetryInv, Spent, Retries
  <2> QED
    BY <1>5, <2>1 DEF Spent, Token
<1> QED
  BY <1>2, <1>3, <1>6, <1>7, ContinueRetry DEF hand, refused

\* r goes on with what it has, and keeps what it knows of refusals.
LEMMA SameJobRetry ==
    ASSUME IInv, IInv', RetryInv, NEW r \in Requests, NEW step, Continue(r, step, job[r]),
           ~ Carries(r), Retries(r), step \notin {"store", "restore"}, UNCHANGED <<tokens, issued, revived>>,
           step \in {"idle", "get", "get_by_email", "list", "done"} => job[r] = NoJob,
           step \in {"bump", "send", "await"} => pc[r] \in {"bump", "send", "await"}
    PROVE  RetryInv'
<1>1. Others(r) /\ pc'[r] = step /\ job'[r] = job[r]
  BY Continued
<1>2. /\ hand(r)' = hand(r) /\ refused(r)' = refused(r) /\ Account(r)' = Account(r)
  BY <1>1 DEF hand, refused, Account
<1>3. Bare(r)'
  BY <1>1 DEF Bare
<1>4. Spent(r)'
  BY <1>1, <1>2 DEF RetryInv, Spent, Token
<1>5. ~ Carries(r)'
  BY <1>1 DEF Carries
<1> QED
  BY <1>1, <1>2, <1>3, <1>4, <1>5, MoveRetry

LEMMA GetTokenRetry ==
    ASSUME IInv, IInv', RetryInv, NEW r \in Requests, GetToken(r)
    PROVE  RetryInv'
<1>1. UNCHANGED <<tokens, issued, revived>> /\ pc[r] = "token"
  BY DEF GetToken, tables
<1>2. ASSUME Account(r) \in DOMAIN tokens, NEW step \in {"bump", "send"},
             Continue(r, step, Holding(r, tokens[Account(r)]))
      PROVE  RetryInv'
  BY <1>1, <1>2, ReadRetry
<1>3. CASE Continue(r, "refresh", job[r])
  BY <1>1, <1>3, SameJobRetry DEF Carries, Retries
<1> QED
  BY <1>2, <1>3 DEF GetToken

LEMMA RereadRetry ==
    ASSUME IInv, IInv', RetryInv, NEW r \in Requests, Reread(r)
    PROVE  RetryInv'
<1>1. UNCHANGED <<tokens, issued, revived>> /\ pc[r] = "reread"
  BY DEF Reread, tables
<1>2. CASE Account(r) \in DOMAIN tokens
  BY <1>1, <1>2, ReadRetry DEF Reread
<1>3. CASE Account(r) \notin DOMAIN tokens
  BY <1>1, <1>3, ReturnRetry DEF Reread
<1> QED
  BY <1>2, <1>3

LEMMA SendRetry ==
    ASSUME IInv, IInv', RetryInv, NEW r \in Requests, Send(r)
    PROVE  RetryInv'
<1> DEFINE t == job[r].tries + 1
           j == [job[r] EXCEPT !.tries = t]
<1>1. UNCHANGED <<tokens, issued, revived>> /\ pc[r] = "send" /\ Continue(r, "await", j)
  BY DEF Send, tables
<1>2. t \in 0..2
  <2>1. job[r].tries \in 0..2 /\ job[r].tries < 2
    BY <1>1 DEF IInv, TypeOK, ControlOK, Equipped, Job
  <2> QED
    BY <2>1
<1>3. j.hand = hand(r) /\ j.refused = refused(r) /\ j.account = Account(r)
  BY <1>2, Parts DEF hand, refused, Account
<1> HIDE DEF j
<1>4. pc'[r] = "await" /\ job'[r] = j
  BY <1>1, Continued
<1>5. hand(r)' = hand(r) /\ refused(r)' = refused(r) /\ Account(r)' = Account(r)
  BY <1>3, <1>4 DEF hand, refused, Account
<1>6. Bare(r)'
  BY <1>4 DEF Bare
<1>7. Spent(r)'
  BY <1>1, <1>4, <1>5 DEF RetryInv, Spent, Retries, Token
<1> QED
  BY <1>1, <1>3, <1>6, <1>7, ContinueRetry DEF Carries

\* A refused token is remembered; the request goes on to ask for another.
LEMMA ReceiveRetry ==
    ASSUME IInv, IInv', RetryInv, NEW r \in Requests, Receive(r)
    PROVE  RetryInv'
<1> DEFINE j == [job[r] EXCEPT !.refused = job[r].hand]
<1>1. UNCHANGED <<tokens, issued, revived>> /\ pc[r] = "await"
  BY DEF Receive, tables
<1>2. CASE Continue(r, "force", j)
  <2>1. j.hand = hand(r) /\ j.refused = hand(r) /\ j.account = Account(r)
    BY Parts, Numbers DEF hand, refused, Account
  <2> HIDE DEF j
  <2>2. pc'[r] = "force"
    BY <1>2, Continued
  <2>3. Bare(r)' /\ Spent(r)'
    BY <2>2 DEF Bare, Spent, Retries
  <2> QED
    BY <1>1, <1>2, <2>1, <2>3, ContinueRetry DEF Carries
<1>3. CASE Return(r, "Ok") \/ Return(r, "Provider")
  BY <1>1, <1>3, ReturnRetry
<1> QED
  BY <1>2, <1>3 DEF Receive, RetryStep

\* A token that was just issued is nobody's, and nowhere yet.
LEMMA RefreshRetry ==
    ASSUME IInv, IInv', RetryInv, NEW r \in Requests, Refresh(r)
    PROVE  RetryInv'
<1> DEFINE i == Account(r)
           n == issued[i] + 1
           step == IF pc[r] = "force" THEN "restore" ELSE "store"
<1>1. UNCHANGED <<tokens, revived>> /\ pc[r] \in {"refresh", "force"}
  BY DEF Refresh, tables
<1>2. CASE Return(r, "TokenExpired") /\ UNCHANGED issued
  BY <1>1, <1>2, ReturnRetry
<1>3. ASSUME i \in DOMAIN tokens, issued' = [issued EXCEPT ![i] = n],
             Continue(r, step, Holding(r, n))
      PROVE  RetryInv'
  <2>1. i \in Ids /\ issued[i] \in Nat /\ n \in Nat
    BY <1>3, Numbers
  <2>2. /\ Holding(r, n).hand = n /\ Holding(r, n).refused = refused(r)
        /\ Holding(r, n).account = Account(r)
    BY <2>1, Parts DEF Holding, refused, Account
  <2>3. Others(r) /\ pc'[r] = step /\ job'[r] = Holding(r, n)
    BY <1>3, Continued
  <2>4. hand(r)' = n /\ refused(r)' = refused(r) /\ Account(r)' = i
    BY <2>2, <2>3 DEF hand, refused, Account
  <2>5. issued'[i] = n /\ \A a \in Ids : issued[a] \in Nat /\ issued'[a] \in Nat /\ issued[a] <= issued'[a]
    <3>1. issued \in [Ids -> Nat]
      BY DEF IInv, TypeOK, TablesOK
    <3>2. \A a \in Ids : issued'[a] = IF a = i THEN n ELSE issued[a]
      BY <1>3, <3>1
    <3> QED
      BY <2>1, <3>1, <3>2
  <2> HIDE DEF n, step
  <2>6. n = issued[i] + 1
    BY DEF n
  <2>7. step \in {"store", "restore"} /\ (step = "store" => pc[r] = "refresh")
    BY <1>1 DEF step
  <2>8. TableIssued'
    <3>1. ASSUME NEW a \in DOMAIN tokens' PROVE tokens'[a] <= issued'[a]
      <4>1. a \in Ids /\ tokens[a] \in Nat /\ tokens[a] <= issued[a] /\ tokens'[a] = tokens[a]
        BY <1>1, Numbers DEF RetryInv, TableIssued
      <4>2. issued[a] \in Nat /\ issued'[a] \in Nat /\ issued[a] <= issued'[a]
        BY <2>5, <4>1
      <4> QED
        BY <4>1, <4>2
    <3> QED
      BY <3>1 DEF TableIssued
  <2>9. \A q \in Requests : Account(q) = i => hand(q) < n /\ refused(q) < n
    BY <2>1, <2>6, Numbers DEF RetryInv, Issued
  <2>10. Bare(r)' /\ Issued(r)' /\ Spent(r)'
    <3>1. Bare(r)'
      BY <2>3, <2>7 DEF Bare
    <3>2. Issued(r)'
      BY <2>1, <2>4, <2>5, <2>9, Numbers DEF Issued
    <3>3. Spent(r)'
      <4>1. CASE step = "restore"
        BY <2>3, <4>1 DEF Spent, Retries
      <4>2. CASE step = "store"
        BY <1>1, <2>3, <2>4, <2>7, <4>2 DEF RetryInv, Spent, Retries, Token
      <4> QED
        BY <2>7, <4>1, <4>2
    <3> QED
      BY <3>1, <3>2, <3>3
  <2>11. ASSUME NEW q \in Requests \ {r} PROVE (Bare(q) /\ Issued(q) /\ New(q) /\ Spent(q))'
    <3>1. pc'[q] = pc[q] /\ job'[q] = job[q]
      BY <2>3 DEF Others
    <3>2. /\ Account(q)' = Account(q) /\ hand(q)' = hand(q) /\ refused(q)' = refused(q)
          /\ Carries(q)' = Carries(q) /\ Retries(q)' = Retries(q)
      BY <3>1 DEF Account, hand, refused, Carries, Retries
    <3>3. Bare(q)' /\ Spent(q)'
      BY <1>1, <3>1, <3>2 DEF RetryInv, Bare, Spent, Token
    <3>4. Issued(q)'
      <4>1. ASSUME Account(q) \in Ids
            PROVE  hand(q) <= issued'[Account(q)] /\ refused(q) <= issued'[Account(q)]
        BY <2>5, <4>1, Numbers DEF RetryInv, Issued
      <4> QED
        BY <3>2, <4>1 DEF Issued
    <3>5. New(q)'
      <4>1. ASSUME Carries(q), NEW p \in Requests, Account(p)' = Account(q)
            PROVE  refused(p)' # hand(q) /\ (p # q => hand(p)' # hand(q))
        <5>1. CASE p = r
          <6>1. Account(q) = i
            BY <2>4, <4>1, <5>1
          <6>2. hand(q) \in Nat /\ hand(q) < n /\ n \in Nat
            BY <2>1, <2>9, <6>1, Numbers
          <6>3. refused(r) # hand(q)
            BY <4>1, <6>1 DEF RetryInv, New
          <6> QED
            BY <2>4, <5>1, <6>2, <6>3
        <5>2. CASE p # r
          <6>1. Account(p) = Account(q) /\ hand(p)' = hand(p) /\ refused(p)' = refused(p)
            BY <2>3, <4>1, <5>2 DEF Others, Account, hand, refused
          <6> QED
            BY <4>1, <6>1 DEF RetryInv, New
        <5> QED
          BY <5>1, <5>2
      <4>2. Carries(q) /\ Account(q) \in DOMAIN tokens => tokens[Account(q)] # hand(q)
        BY DEF RetryInv, New
      <4> QED
        BY <1>1, <3>2, <4>1, <4>2 DEF New
    <3> QED
      BY <3>3, <3>4, <3>5
  <2>12. New(r)'
    <3>1. i \in DOMAIN tokens => tokens[i] # n
      BY <2>1, <2>6, Numbers DEF RetryInv, TableIssued
    <3>2. ASSUME NEW p \in Requests, Account(p)' = i
          PROVE  refused(p)' # n /\ (p # r => hand(p)' # n)
      <4>1. refused(p)' = refused(p) /\ Account(p) = i /\ (p # r => hand(p)' = hand(p))
        BY <2>3, <2>4, <3>2 DEF Others, Account, hand, refused
      <4> QED
        BY <2>1, <2>9, <4>1, Numbers
    <3> QED
      BY <1>1, <2>4, <3>1, <3>2 DEF New
  <2> QED
    BY <2>8, <2>10, <2>11, <2>12 DEF RetryInv
<1> QED
  BY <1>2, <1>3 DEF Refresh

\* A token that is stored for the first time was refused to nobody, and is in the
\* hands of no other request that still has to store its own.
LEMMA StoreRetry ==
    ASSUME IInv, IInv', RetryInv, NEW r \in Requests, Store(r)
    PROVE  RetryInv'
<1> DEFINE i == Account(r)
           n == hand(r)
           step == IF pc[r] = "restore" THEN "token" ELSE "reread"
<1>1. UNCHANGED <<issued, revived>> /\ Carries(r) /\ tokens' = Upserted(i, n)
  BY DEF Store, Carries, hand
<1>2. CASE i \notin DOMAIN accounts
  <2>1. UNCHANGED tokens /\ Return(r, "Storage")
    BY <1>1, <1>2 DEF Store, Upserted
  <2> QED
    BY <1>1, <2>1, ReturnRetry
<1>3. CASE i \in DOMAIN accounts
  <2>1. Continue(r, step, job[r])
    BY <1>3 DEF Store
  <2>2. Others(r) /\ pc'[r] = step /\ job'[r] = job[r]
    BY <2>1, Continued
  <2>3. \A q \in Requests : job'[q] = job[q] /\ (q # r => pc'[q] = pc[q])
    BY <2>2 DEF Others
  <2>4. /\ DOMAIN tokens' = DOMAIN tokens \cup {i} /\ tokens'[i] = n
        /\ \A a \in DOMAIN tokens' \ {i} : a \in DOMAIN tokens /\ tokens'[a] = tokens[a]
    BY <1>1, <1>3 DEF Upserted, Put
  <2>5. ~ Carries(r)' /\ Bare(r)'
    BY <2>2 DEF Carries, Bare
  <2>6. \A q \in Requests : Account(q) = i => refused(q) # n /\ (q # r => hand(q) # n)
    BY <1>1 DEF RetryInv, New
  <2>7. Safe(i, n)
    <3>1. n <= issued'[i]
      BY <1>1, Numbers DEF RetryInv, Issued
    <3>2. ASSUME NEW q \in Requests, Account(q) = i, Carries(q)' PROVE hand(q) # n
      BY <2>5, <2>6, <3>2
    <3> QED
      BY <2>6, <3>1, <3>2 DEF Safe
  <2>8. Spent(r)'
    <3>1. hand(r)' = n /\ refused(r)' = refused(r) /\ Account(r)' = i
      BY <2>2 DEF hand, refused, Account
    <3>2. refused(r) # n
      BY <2>6
    <3> HIDE DEF n, i
    <3> QED
      BY <2>2, <2>4, <3>1, <3>2 DEF Spent
  <2>9. \A a \in Ids : issued[a] <= issued'[a]
    BY <1>1, Numbers
  <2>10. \A a \in DOMAIN tokens' :
            (a \in DOMAIN tokens /\ tokens'[a] = tokens[a]) \/ Safe(a, tokens'[a])
    BY <2>4, <2>7
  <2> QED
    BY <1>1, <2>3, <2>5, <2>8, <2>9, <2>10, TokensRetry
<1> QED
  BY <1>2, <1>3

\* A write-back that changes the table is remembered.
LEMMA BumpRetry ==
    ASSUME IInv, IInv', RetryInv, NEW r \in Requests, Bump(r)
    PROVE  RetryInv'
<1> DEFINE i == Account(r)
           n == hand(r)
<1>1. /\ UNCHANGED issued /\ pc[r] = "bump" /\ Continue(r, "send", job[r])
      /\ tokens' \in {tokens, Upserted(i, n)}
      /\ revived' = IF tokens' = tokens THEN revived ELSE revived \cup {Token(i, n)}
  BY DEF Bump, hand
<1>2. CASE tokens' = tokens
  BY <1>1, <1>2, SameJobRetry DEF Carries, Retries
<1>3. CASE tokens' # tokens
  <2>1. Others(r) /\ pc'[r] = "send" /\ job'[r] = job[r]
    BY <1>1, Continued
  <2>2. \A q \in Requests : job'[q] = job[q] /\ (q # r => pc'[q] = pc[q])
    BY <2>1 DEF Others
  <2>3. /\ tokens'[i] = n
        /\ \A a \in DOMAIN tokens' \ {i} : a \in DOMAIN tokens /\ tokens'[a] = tokens[a]
    BY <1>1, <1>3 DEF Upserted, Put
  <2>4. ~ Carries(r)' /\ Bare(r)' /\ ~ Carries(r)
    BY <1>1, <2>1 DEF Carries, Bare
  <2>5. revived \subseteq revived' /\ Token(i, n) \in revived'
    BY <1>1, <1>3
  <2>6. Safe(i, n)
    <3>1. i \in Ids
      BY <1>1 DEF IInv, TypeOK, ControlOK, Equipped
    <3>2. n <= issued'[i]
      BY <1>1, <3>1 DEF RetryInv, Issued
    <3>3. ASSUME NEW q \in Requests, Account(q) = i, Carries(q)' PROVE hand(q) # n
      <4>1. q # r /\ Carries(q)
        BY <2>2, <2>4, <3>3 DEF Carries
      <4> QED
        BY <3>3, <4>1 DEF RetryInv, New
    <3> QED
      BY <2>5, <3>2, <3>3 DEF Safe
  <2>7. Spent(r)'
    <3>1. hand(r)' = n /\ refused(r)' = refused(r) /\ Account(r)' = i
      BY <2>1 DEF hand, refused, Account
    <3>2. n = refused(r) => Token(i, refused(r)) \in revived'
      BY <2>5
    <3> HIDE DEF n, i
    <3> QED
      BY <2>1, <2>3, <3>1, <3>2 DEF Spent, Token
  <2>8. \A a \in Ids : issued[a] <= issued'[a]
    BY <1>1, Numbers
  <2>9. \A a \in DOMAIN tokens' :
            (a \in DOMAIN tokens /\ tokens'[a] = tokens[a]) \/ Safe(a, tokens'[a])
    BY <2>3, <2>6
  <2> QED
    BY <2>2, <2>4, <2>5, <2>7, <2>8, <2>9, TokensRetry
<1> QED
  BY <1>2, <1>3

\* Tokens that go, and a request that is no longer after one.
LEMMA WithoutRetry ==
    ASSUME IInv, IInv', RetryInv, NEW r \in Requests, Others(r), NEW ids,
           tokens' = Without(tokens, ids), UNCHANGED <<issued, revived>>,
           \/ pc'[r] = "done" /\ job'[r] = NoJob
           \/ pc'[r] = "mark" /\ job'[r] = job[r]
    PROVE  RetryInv'
<1>1. \A a \in DOMAIN tokens' : a \in DOMAIN tokens /\ tokens'[a] = tokens[a]
  BY WithoutTable DEF IInv, TypeOK, TablesOK
<1>2. ~ Carries(r)' /\ Bare(r)' /\ Spent(r)'
  BY DEF Carries, Bare, Spent, Retries
<1>3. \A a \in Ids : issued[a] <= issued'[a]
  BY Numbers
<1>4. \A q \in Requests \ {r} : pc'[q] = pc[q] /\ job'[q] = job[q]
  BY DEF Others
<1> QED
  BY <1>1, <1>2, <1>3, <1>4, TokensRetry

LEMMA DropRetry ==
    ASSUME IInv, IInv', RetryInv, NEW r \in Requests, Drop(r)
    PROVE  RetryInv'
BY Continued, WithoutRetry DEF Drop

LEMMA DeleteRetry ==
    ASSUME IInv, IInv', RetryInv, NEW r \in Requests, Delete(r)
    PROVE  RetryInv'
<1>1. Others(r) /\ pc'[r] = "done" /\ job'[r] = NoJob
  BY DEF Delete, Return, Goto, Others, IInv, TypeOK, ControlOK
<1> QED
  BY <1>1, WithoutRetry DEF Delete

LEMMA ConsentRetry ==
    ASSUME IInv, IInv', RetryInv, NEW i \in Ids, Consent(i)
    PROVE  RetryInv'
<1> DEFINE n == issued[i] + 1
<1>1. /\ UNCHANGED <<pc, job, revived>> /\ issued' = [issued EXCEPT ![i] = n]
      /\ tokens' \in {tokens, Put(tokens, i, n)}
  BY DEF Consent, progress
<1>2. /\ issued[i] \in Nat /\ issued'[i] = n
      /\ \A a \in Ids : issued[a] \in Nat /\ (a # i => issued'[a] = issued[a])
  BY <1>1 DEF IInv, TypeOK, TablesOK
<1>3. n \in Nat /\ n > issued[i] /\ n <= issued'[i]
  BY <1>2
<1> HIDE DEF n
<1>4. \A a \in Ids : issued[a] <= issued'[a]
  BY <1>2, <1>3
<1>5. Safe(i, n)
  <2>1. ASSUME NEW q \in Requests, Account(q) = i PROVE hand(q) # n /\ refused(q) # n
    BY <1>2, <1>3, <2>1, Numbers DEF RetryInv, Issued
  <2> QED
    BY <1>3, <2>1 DEF Safe
<1>6. \A a \in DOMAIN tokens' :
          (a \in DOMAIN tokens /\ tokens'[a] = tokens[a]) \/ Safe(a, tokens'[a])
  BY <1>1, <1>5 DEF Put
<1> QED
  BY <1>1, <1>4, <1>6, TokensRetry

----------------------------------------------------------------------------
(* The theorem *)

LEMMA NextRetry == IInv /\ IInv' /\ RetryInv /\ [Next]_vars => RetryInv'
<1> SUFFICES ASSUME IInv, IInv', RetryInv, [Next]_vars PROVE RetryInv'
  OBVIOUS
<1>1. ASSUME NEW r \in Requests, NEW c \in Calls, Arrive(r, c) PROVE RetryInv'
  BY <1>1, ArriveRetry
<1>2. ASSUME NEW r \in Requests, Get(r) \/ GetByEmail(r) PROVE RetryInv'
  BY <1>2, GetRetry, GetByEmailRetry
<1>3. ASSUME NEW r \in Requests, List(r) PROVE RetryInv'
  BY <1>3, ReturnRetry DEF List, tables
<1>4. ASSUME NEW r \in Requests, GetToken(r) \/ Bump(r) \/ Refresh(r) \/ Store(r) \/ Reread(r)
      PROVE  RetryInv'
  BY <1>4, GetTokenRetry, BumpRetry, RefreshRetry, StoreRetry, RereadRetry
<1>5. ASSUME NEW r \in Requests, Send(r) \/ Receive(r) PROVE RetryInv'
  BY <1>5, SendRetry, ReceiveRetry
<1>6. ASSUME NEW r \in Requests, Drop(r) \/ Delete(r) PROVE RetryInv'
  BY <1>6, DropRetry, DeleteRetry
<1>7. ASSUME NEW r \in Requests, Mark(r) PROVE RetryInv'
  BY <1>7, ReturnRetry DEF Mark
<1>8. ASSUME NEW r \in Requests, Fails(r) PROVE RetryInv'
  <2>1. UNCHANGED <<tokens, issued, revived>>
    BY <1>8 DEF Fails, tables
  <2> QED
    BY <1>8, <2>1, EmailRetry, ReturnRetry DEF Fails
<1>9. ASSUME NEW r \in Requests, Abort(r) PROVE RetryInv'
  <2>1. UNCHANGED <<tokens, issued, revived>>
    BY <1>9 DEF Abort, tables
  <2> QED
    BY <1>9, <2>1, ReturnRetry DEF Abort
<1>10. ASSUME NEW i \in Ids, Consent(i) PROVE RetryInv'
  BY <1>10, ConsentRetry
<1>11. ASSUME UNCHANGED <<pc, job, tokens, issued, revived>> PROVE RetryInv'
  <2>1. \A a \in Ids : issued[a] <= issued'[a]
    BY <1>11, Numbers
  <2> QED
    BY <1>11, <2>1, TokensRetry
<1>12. ASSUME NEW m \in wire, GraphHandles(m) PROVE RetryInv'
  BY <1>11, <1>12 DEF GraphHandles, progress, tables
<1>13. CASE UNCHANGED vars
  BY <1>11, <1>13 DEF vars, progress, tables
<1> QED
  BY <1>1, <1>2, <1>3, <1>4, <1>5, <1>6, <1>7, <1>8, <1>9, <1>10, <1>12, <1>13
  DEF Next, Proceed

\* graph.rs:43-44: whoever else refreshes, connects or removes the account, and
\* whatever fails, a request that Graph refused is repeated with a token that it has
\* not refused, but for tokens that a write-back has brought back.
THEOREM SecondTriesAreFresh == Spec => []RetryIsFresh
<1>1. RetryInv => RetryIsFresh
  <2> SUFFICES ASSUME RetryInv, NEW r \in Requests, pc[r] \in {"send", "await"},
                      job[r].hand = job[r].refused
               PROVE  Token(Account(r), job[r].hand) \in revived
    BY DEF RetryIsFresh
  <2> QED
    BY DEF RetryInv, Spent, Retries, hand, refused
<1> QED
  BY <1>1, InitIInv, NextIInv, InitRetry, NextRetry, PTL DEF Spec
=============================================================================
