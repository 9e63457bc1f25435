-------------------------- MODULE TokenOwnerProofs --------------------------
(***************************************************************************)
(* The token of an account is a token of the account's mailbox: a proof    *)
(* for any number of callers, processes, tenants and mailboxes.            *)
(*                                                                         *)
(* The account id is what ties the tables and the calls in flight          *)
(* together, so the argument is about claims.  A row of accounts, a row of *)
(* tokens, and a call that holds a token set for an account each claim     *)
(* that the account's id belongs to a mailbox.  All claims on one id agree,*)
(* because a step either repeats a claim that is there already, or makes   *)
(* the first claim on a UUID that was never drawn before.                  *)
(***************************************************************************)
EXTENDS TokenManagerProofs

\* The call of worker w knows its account and holds a token set for it.
Holds(w) == pc[w] \in {"bump", "refresh", "store", "check", "create", "upsert"}

AccountClaim(i, e) == i \in DOMAIN accounts /\ Lower[accounts[i].email] = e
TokenClaim(i, e) == i \in DOMAIN tokens /\ tokens[i].owner = e
WorkerClaim(w, i, e) == Holds(w) /\ job[w].id = i /\ hand[w].owner = e

Claim(i, e) ==
    AccountClaim(i, e) \/ TokenClaim(i, e) \/ \E w \in Workers : WorkerClaim(w, i, e)

OneMailbox ==
    \A i \in Ids, e, f \in Emails : Claim(i, e) /\ Claim(i, f) => e = f

ClaimsBorn == \A i \in Ids, e \in Emails : Claim(i, e) => i \in born

\* The token set of a consent is that of the mailbox it resolved.
Consenting(w) == pc[w] \in {"lookup", "check", "create"}
ConsentOwner == \A w \in Workers : Consenting(w) => hand[w].owner = Lower[job[w].email]

OwnerInv == OneMailbox /\ ClaimsBorn /\ ConsentOwner

\* A step of one worker that makes no new claim.
LEMMA RepeatedClaims ==
    ASSUME OwnerInv, NEW w \in Workers, Others(w), born' = born,
           \A i \in Ids, e \in Emails : AccountClaim(i, e)' => Claim(i, e),
           \A i \in Ids, e \in Emails : TokenClaim(i, e)' => Claim(i, e),
           \A i \in Ids, e \in Emails : WorkerClaim(w, i, e)' => Claim(i, e),
           Consenting(w)' => hand'[w].owner = Lower[job'[w].email]
    PROVE  OwnerInv'
<1>1. ASSUME NEW i \in Ids, NEW e \in Emails, Claim(i, e)' PROVE Claim(i, e)
  <2>1. ASSUME NEW v \in Workers \ {w}, WorkerClaim(v, i, e)' PROVE WorkerClaim(v, i, e)
    BY <2>1 DEF WorkerClaim, Holds, Others
  <2> QED
    BY <1>1, <2>1 DEF Claim
<1>2. OneMailbox' /\ ClaimsBorn'
  BY <1>1 DEF OwnerInv, OneMailbox, ClaimsBorn
<1>3. ConsentOwner'
  BY DEF OwnerInv, ConsentOwner, Consenting, Others
<1> QED
  BY <1>2, <1>3 DEF OwnerInv

\* A step of one worker that ends up holding no token set, and does not write the
\* tables, or only removes rows.
LEMMA ClaimsGivenUp ==
    ASSUME OwnerInv, NEW w \in Workers, Others(w), born' = born,
           ~Holds(w)', ~Consenting(w)',
           \A i \in Ids, e \in Emails : AccountClaim(i, e)' => AccountClaim(i, e),
           \A i \in Ids, e \in Emails : TokenClaim(i, e)' => TokenClaim(i, e)
    PROVE  OwnerInv'
BY RepeatedClaims DEF WorkerClaim, Claim

LEMMA ReturnOwner ==
    ASSUME IInv, OwnerInv, NEW w \in Workers, Return(w), born' = born,
           \A i \in Ids, e \in Emails : AccountClaim(i, e)' => Claim(i, e),
           \A i \in Ids, e \in Emails : TokenClaim(i, e)' => Claim(i, e)
    PROVE  OwnerInv'
<1>1. Others(w) /\ pc'[w] \in {"idle", "batch"}
  BY ReturnControl DEF IInv, TypeOK
<1>2. ~Holds(w)' /\ ~Consenting(w)'
  BY <1>1 DEF Holds, Consenting
<1> QED
  BY <1>1, <1>2, RepeatedClaims DEF WorkerClaim

\* The call of w stores a record of the owner it holds a claim for.
LEMMA UpsertedOwner ==
    ASSUME IInv, OwnerInv, NEW w \in Workers, Return(w), born' = born,
           accounts' = accounts, Holds(w), NEW row,
           tokens' = Upserted(job[w].id, row), row.owner = hand[w].owner
    PROVE  OwnerInv'
<1>1. ASSUME NEW i \in Ids, NEW e \in Emails, TokenClaim(i, e)' PROVE Claim(i, e)
  <2>1. CASE TokenClaim(i, e)
    BY <2>1 DEF Claim
  <2>2. CASE i = job[w].id /\ hand[w].owner = e
    BY <2>2 DEF Claim, WorkerClaim
  <2> QED
    BY <1>1, <2>1, <2>2 DEF TokenClaim, Upserted, Put
<1>2. \A i \in Ids, e \in Emails : AccountClaim(i, e)' => Claim(i, e)
  BY DEF AccountClaim, Claim
<1> QED
  BY <1>1, <1>2, ReturnOwner

----------------------------------------------------------------------------
(* The steps *)

LEMMA InitOwner == Init => OwnerInv
<1> SUFFICES ASSUME Init PROVE OwnerInv
  OBVIOUS
<1>1. \A i \in Ids, e \in Emails :
          Claim(i, e) => i \in DOMAIN Seeded /\ Lower[Seeded[i].email] = e
  BY DEF Init, Claim, AccountClaim, TokenClaim, WorkerClaim, Holds, Issue
<1>2. OneMailbox /\ ClaimsBorn
  BY <1>1 DEF Init, OneMailbox, ClaimsBorn
<1>3. ConsentOwner
  BY DEF Init, ConsentOwner, Consenting
<1> QED
  BY <1>2, <1>3 DEF OwnerInv

LEMMA StartOwner ==
    ASSUME IInv, OwnerInv, NEW w \in Workers, Start(w)
    PROVE  OwnerInv'
<1>1. UNCHANGED db /\ born' = born
  BY DEF Start, StartUse, StartRetry, StartDisconnect, StartRemove, StartBatch, Callback
<1>2. /\ \A i \in Ids, e \in Emails : AccountClaim(i, e)' => AccountClaim(i, e)
      /\ \A i \in Ids, e \in Emails : TokenClaim(i, e)' => TokenClaim(i, e)
  BY <1>1 DEF db, AccountClaim, TokenClaim
<1>3. ASSUME NEW i \in Ids, StartUse(w, i), pc'[w] = "bump" PROVE OwnerInv'
  <2>1. /\ i \in DOMAIN tokens
        /\ hand' = [hand EXCEPT ![w] = tokens[i]]
        /\ job' = [job EXCEPT ![w] = JobOn("use", i)]
        /\ pc' = [pc EXCEPT ![w] = "bump"]
    BY <1>3 DEF StartUse, Call, Goto, IInv, TypeOK, ControlOK
  <2>2. Others(w) /\ hand'[w] = tokens[i] /\ job'[w].id = i
    BY <2>1, JobOnType DEF IInv, TypeOK, ControlOK, Others, Operations
  <2>3. \A k \in Ids, e \in Emails : WorkerClaim(w, k, e)' => Claim(k, e)
    BY <2>1, <2>2 DEF WorkerClaim, Claim, TokenClaim
  <2> QED
    BY <1>1, <1>2, <1>3, <2>2, <2>3, RepeatedClaims DEF Claim, Consenting
<1>4. CASE ~(pc'[w] = "bump")
  <2>1. Others(w) /\ ~Holds(w)' /\ ~Consenting(w)'
    <3>1. \/ \E j, step : /\ step \in {"lock", "bump", "drop", "delete", "batch", "exchange"}
                          /\ Call(w, j, step)
                          /\ \A v \in Workers \ {w} : hand'[v] = hand[v]
          \/ pc' = pc /\ job' = job /\ hand' = hand /\ pc[w] = "idle"
      <4>1. ASSUME NEW i \in Ids, StartUse(w, i)
            PROVE  \E j, step : /\ step \in {"lock", "bump"}
                                /\ Call(w, j, step)
                                /\ \A v \in Workers \ {w} : hand'[v] = hand[v]
        BY <4>1 DEF StartUse, IInv, TypeOK, ControlOK
      <4> QED
        BY <4>1 DEF Start, StartRetry, StartDisconnect, StartRemove, StartBatch, Callback
    <3> QED
      BY <1>4, <3>1 DEF Call, Goto, Others, Holds, Consenting, IInv, TypeOK, ControlOK
  <2> QED
    BY <1>1, <1>2, <2>1, ClaimsGivenUp
<1>5. ASSUME pc'[w] = "bump" PROVE \E i \in Ids : StartUse(w, i)
  BY <1>5 DEF Start, StartRetry, StartDisconnect, StartRemove, StartBatch, Callback, Call,
      Goto, IInv, TypeOK, ControlOK
<1> QED
  BY <1>3, <1>4, <1>5

LEMMA AcquireOwner ==
    ASSUME IInv, OwnerInv, NEW w \in Workers, Acquire(w)
    PROVE  OwnerInv'
<1> DEFINE i == job[w].id
<1>1. UNCHANGED db /\ born' = born
  BY DEF Acquire
<1>2. /\ \A k \in Ids, e \in Emails : AccountClaim(k, e)' => Claim(k, e)
      /\ \A k \in Ids, e \in Emails : TokenClaim(k, e)' => Claim(k, e)
  BY <1>1 DEF db, AccountClaim, TokenClaim, Claim
<1>3. CASE i \in DOMAIN tokens
  <2>1. /\ hand' = [hand EXCEPT ![w] = tokens[i]]
        /\ job' = job /\ pc' = [pc EXCEPT ![w] = "refresh"]
    BY <1>3 DEF Acquire, Goto
  <2>2. Others(w) /\ hand'[w] = tokens[i] /\ ~Consenting(w)'
    BY <2>1 DEF IInv, TypeOK, ControlOK, Others, Consenting
  <2>3. \A k \in Ids, e \in Emails : WorkerClaim(w, k, e)' => Claim(k, e)
    BY <1>3, <2>1, <2>2 DEF WorkerClaim, Claim, TokenClaim
  <2> QED
    BY <1>1, <1>2, <2>2, <2>3, RepeatedClaims
<1>4. CASE i \notin DOMAIN tokens
  BY <1>1, <1>2, <1>4, ReturnOwner DEF Acquire
<1> QED
  BY <1>3, <1>4

LEMMA StoringOwner ==
    ASSUME IInv, OwnerInv, NEW w \in Workers, Bump(w) \/ Store(w) \/ Upsert(w)
    PROVE  OwnerInv'
<1>1. Return(w) /\ born' = born /\ accounts' = accounts /\ Holds(w)
  BY DEF Bump, Store, Upsert, Holds
<1>2. PICK row : tokens' = Upserted(job[w].id, row) /\ row.owner = hand[w].owner
  <2>1. CASE Bump(w)
    <3>1. [hand[w] EXCEPT !.used = 0].owner = hand[w].owner
      BY <2>1 DEF Bump, IInv, TypeOK, ControlOK, Equipped, TokenRow
    <3> QED
      BY <2>1, <3>1 DEF Bump
  <2> QED
    BY <2>1 DEF Store, Upsert
<1> QED
  BY <1>1, <1>2, UpsertedOwner

LEMMA IdpRefreshOwner ==
    ASSUME IInv, OwnerInv, NEW w \in Workers, IdpRefresh(w)
    PROVE  OwnerInv'
<1>1. UNCHANGED db /\ born' = born /\ job' = job /\ pc[w] = "refresh"
      /\ pc' = [pc EXCEPT ![w] = "store"]
  BY DEF IdpRefresh, Goto
<1>2. PICK n, r : hand' = [hand EXCEPT ![w] = Issue(hand[w].owner, n, r)]
  BY DEF IdpRefresh
<1>3. Others(w) /\ hand'[w].owner = hand[w].owner /\ ~Consenting(w)'
  BY <1>1, <1>2 DEF IInv, TypeOK, ControlOK, Others, Issue, Consenting
<1>4. /\ \A k \in Ids, e \in Emails : AccountClaim(k, e)' => Claim(k, e)
      /\ \A k \in Ids, e \in Emails : TokenClaim(k, e)' => Claim(k, e)
      /\ \A k \in Ids, e \in Emails : WorkerClaim(w, k, e)' => Claim(k, e)
  BY <1>1, <1>3 DEF db, AccountClaim, TokenClaim, WorkerClaim, Claim, Holds
<1> QED
  BY <1>1, <1>3, <1>4, RepeatedClaims

LEMMA ExchangeOwner ==
    ASSUME IInv, OwnerInv, NEW w \in Workers, NEW e \in Emails, Exchange(w, e)
    PROVE  OwnerInv'
<1>1. /\ UNCHANGED db /\ born' = born
      /\ pc' = [pc EXCEPT ![w] = "lookup"] /\ job' = [job EXCEPT ![w].email = e]
  BY DEF Exchange, Goto
<1>2. PICK n : hand' = [hand EXCEPT ![w] = Issue(Lower[e], n, n)]
  BY DEF Exchange
<1>3. Others(w) /\ hand'[w].owner = Lower[e] /\ job'[w].email = e /\ pc'[w] = "lookup"
  BY <1>1, <1>2 DEF IInv, TypeOK, ControlOK, Job, Others, Issue
<1>4. /\ \A k \in Ids, f \in Emails : AccountClaim(k, f)' => Claim(k, f)
      /\ \A k \in Ids, f \in Emails : TokenClaim(k, f)' => Claim(k, f)
      /\ \A k \in Ids, f \in Emails : WorkerClaim(w, k, f)' => Claim(k, f)
  BY <1>1, <1>3 DEF db, AccountClaim, TokenClaim, WorkerClaim, Claim, Holds
<1> QED
  BY <1>1, <1>3, <1>4, RepeatedClaims

\* The row of the mailbox, or a UUID on which nobody has a claim.
LEMMA LookupOwner ==
    ASSUME IInv, OwnerInv, NEW w \in Workers, Lookup(w)
    PROVE  OwnerInv'
<1> DEFINE m == Lower[job[w].email]
<1>1. PICK i : /\ \/ i \in DOMAIN accounts /\ Lower[accounts[i].email] = m
                  \/ i \in Ids \ born
               /\ job' = [job EXCEPT ![w].id = i]
               /\ born' = born \cup {i}
  BY DEF Lookup, Found, IsMailbox
<1>2. /\ UNCHANGED db /\ hand' = hand
      /\ pc[w] = "lookup" /\ pc' = [pc EXCEPT ![w] = "check"]
  BY DEF Lookup, Goto
<1>3. /\ Others(w) /\ job'[w].id = i /\ job'[w].email = job[w].email
      /\ pc'[w] = "check" /\ hand[w].owner = m
  BY <1>1, <1>2 DEF IInv, TypeOK, ControlOK, Job, Others, OwnerInv, ConsentOwner, Consenting
<1>4. ASSUME NEW k \in Ids, NEW e \in Emails, Claim(k, e)'
      PROVE  Claim(k, e) \/ (k = i /\ e = m)
  <2>1. AccountClaim(k, e)' => Claim(k, e)
    BY <1>2 DEF db, AccountClaim, Claim
  <2>2. TokenClaim(k, e)' => Claim(k, e)
    BY <1>2 DEF db, TokenClaim, Claim
  <2>3. ASSUME NEW v \in Workers \ {w}, WorkerClaim(v, k, e)' PROVE Claim(k, e)
    BY <1>3, <2>3 DEF WorkerClaim, Holds, Others, Claim
  <2>4. WorkerClaim(w, k, e)' => k = i /\ e = m
    BY <1>2, <1>3 DEF WorkerClaim
  <2> QED
    BY <1>4, <2>1, <2>2, <2>3, <2>4 DEF Claim
<1>5. \A e \in Emails : Claim(i, e) => e = m
  <2>1. CASE i \in DOMAIN accounts /\ Lower[accounts[i].email] = m
    <3>1. i \in Ids /\ m \in Emails
      BY <1>2, <2>1, Population DEF IInv, TypeOK, TablesOK, ControlOK, Equipped, IsTable
    <3>2. Claim(i, m)
      BY <2>1 DEF Claim, AccountClaim
    <3> QED
      BY <3>1, <3>2 DEF OwnerInv, OneMailbox
  <2>2. CASE i \in Ids \ born
    BY <2>2 DEF OwnerInv, ClaimsBorn
  <2> QED
    BY <1>1, <2>1, <2>2
<1>6. OneMailbox' /\ ClaimsBorn'
  BY <1>1, <1>4, <1>5 DEF OwnerInv, OneMailbox, ClaimsBorn
<1>7. ConsentOwner'
  BY <1>2, <1>3 DEF OwnerInv, ConsentOwner, Consenting, Others
<1> QED
  BY <1>6, <1>7 DEF OwnerInv

LEMMA CheckOwner ==
    ASSUME IInv, OwnerInv, NEW w \in Workers, Check(w)
    PROVE  OwnerInv'
<1>1. /\ UNCHANGED db /\ born' = born /\ hand' = hand /\ job' = job /\ pc[w] = "check"
      /\ \E step \in {"upsert", "create"} : pc' = [pc EXCEPT ![w] = step]
  BY DEF Check, Goto
<1>2. Others(w) /\ hand[w].owner = Lower[job[w].email]
  BY <1>1 DEF IInv, TypeOK, ControlOK, Others, OwnerInv, ConsentOwner, Consenting
<1>3. /\ \A k \in Ids, f \in Emails : AccountClaim(k, f)' => Claim(k, f)
      /\ \A k \in Ids, f \in Emails : TokenClaim(k, f)' => Claim(k, f)
      /\ \A k \in Ids, f \in Emails : WorkerClaim(w, k, f)' => Claim(k, f)
  BY <1>1 DEF db, AccountClaim, TokenClaim, WorkerClaim, Claim, Holds
<1> QED
  BY <1>1, <1>2, <1>3, RepeatedClaims

LEMMA CreateOwner ==
    ASSUME IInv, OwnerInv, NEW w \in Workers, Create(w)
    PROVE  OwnerInv'
<1> DEFINE row == [tenant |-> job[w].tenant, email |-> job[w].email, status |-> "active"]
<1>1. /\ pc[w] = "create" /\ tokens' = tokens /\ born' = born
      /\ hand[w].owner = Lower[job[w].email]
  BY DEF Create, OwnerInv, ConsentOwner, Consenting
<1>2. \A k \in Ids, f \in Emails : TokenClaim(k, f)' => Claim(k, f)
  BY <1>1 DEF TokenClaim, Claim
<1>3. CASE Return(w) /\ accounts' = accounts
  BY <1>1, <1>2, <1>3, ReturnOwner DEF AccountClaim, Claim
<1>4. CASE /\ accounts' = Put(accounts, job[w].id, row)
           /\ pc' = [pc EXCEPT ![w] = "upsert"]
           /\ UNCHANGED <<lock, job, hand>>
  <2>1. Others(w) /\ ~Consenting(w)'
    BY <1>4 DEF IInv, TypeOK, ControlOK, Others, Consenting
  <2>2. \A k \in Ids, f \in Emails : WorkerClaim(w, k, f)' => Claim(k, f)
    BY <1>1, <1>4 DEF WorkerClaim, Claim, Holds
  <2>3. \A k \in Ids, f \in Emails : AccountClaim(k, f)' => Claim(k, f)
    <3> SUFFICES ASSUME NEW k \in Ids, NEW f \in Emails, AccountClaim(k, f)'
                 PROVE  Claim(k, f)
      OBVIOUS
    <3>1. CASE k = job[w].id
      <4>1. f = Lower[job[w].email]
        BY <1>4, <3>1 DEF AccountClaim, Put
      <4> QED
        BY <1>1, <3>1, <4>1 DEF Claim, WorkerClaim, Holds
    <3>2. CASE k # job[w].id
      BY <1>4, <3>2 DEF AccountClaim, Put, Claim
    <3> QED
      BY <3>1, <3>2
  <2> QED
    BY <1>1, <1>2, <2>1, <2>2, <2>3, RepeatedClaims
<1> QED
  BY <1>3, <1>4 DEF Create, Goto

\* Mark changes the status of a row, and neither its tenant nor its mailbox.
LEMMA MarkKeepsMailboxes ==
    ASSUME IInv, NEW w \in Workers, Mark(w)
    PROVE  /\ DOMAIN accounts' = DOMAIN accounts
           /\ \A k \in DOMAIN accounts : /\ accounts'[k].tenant = accounts[k].tenant
                                         /\ accounts'[k].email = accounts[k].email
<1>1. \A k \in DOMAIN accounts : accounts[k] \in AccountRow
  BY DEF IInv, TypeOK, TablesOK, IsTable
<1> QED
  BY <1>1 DEF Mark, AccountRow

LEMMA RemovalOwner ==
    ASSUME IInv, OwnerInv, NEW w \in Workers, Drop(w) \/ Mark(w) \/ Delete(w)
    PROVE  OwnerInv'
<1>1. \A k \in Ids, e \in Emails : TokenClaim(k, e)' => TokenClaim(k, e)
  BY DEF Drop, Mark, Delete, Without, Restrict, TokenClaim
<1>2. \A k \in Ids, e \in Emails : AccountClaim(k, e)' => AccountClaim(k, e)
  <2>1. CASE Mark(w)
    BY <2>1, MarkKeepsMailboxes DEF AccountClaim
  <2> QED
    BY <2>1 DEF Drop, Delete, Without, Restrict, AccountClaim
<1>3. CASE Drop(w)
  <2>1. Others(w) /\ ~Holds(w)' /\ ~Consenting(w)' /\ born' = born
    BY <1>3 DEF Drop, Goto, Others, Holds, Consenting, IInv, TypeOK, ControlOK
  <2> QED
    BY <1>1, <1>2, <2>1, ClaimsGivenUp
<1>4. CASE Mark(w) \/ Delete(w)
  <2>1. Return(w) /\ born' = born
    BY <1>4 DEF Mark, Delete
  <2> QED
    BY <1>1, <1>2, <2>1, ReturnOwner DEF Claim
<1> QED
  BY <1>3, <1>4

\* Calls that end, and batches that go on, without a statement.
LEMMA EndOwner ==
    ASSUME IInv, OwnerInv, NEW w \in Workers, Refused(w) \/ Interrupted(w) \/ BatchNext(w)
    PROVE  OwnerInv'
<1>1. UNCHANGED db /\ born' = born
  BY DEF Refused, Interrupted, BatchNext
<1>2. /\ \A k \in Ids, e \in Emails : AccountClaim(k, e)' => AccountClaim(k, e)
      /\ \A k \in Ids, e \in Emails : TokenClaim(k, e)' => TokenClaim(k, e)
  BY <1>1 DEF db, AccountClaim, TokenClaim
<1>3. CASE BatchNext(w)
  <2>1. Others(w) /\ ~Holds(w)' /\ ~Consenting(w)'
    BY <1>3 DEF BatchNext, Goto, Others, Holds, Consenting, IInv, TypeOK, ControlOK
  <2> QED
    BY <1>1, <1>2, <2>1, ClaimsGivenUp
<1>4. CASE Return(w)
  BY <1>1, <1>2, <1>4, ReturnOwner DEF Claim
<1> QED
  BY <1>3, <1>4 DEF Refused, Interrupted

\* A step outside the workers, or a crash of some of them, makes no claim.
LEMMA FewerClaims ==
    ASSUME OwnerInv, born' = born,
           \A i \in Ids, e \in Emails : AccountClaim(i, e)' => AccountClaim(i, e),
           \A i \in Ids, e \in Emails : TokenClaim(i, e)' => TokenClaim(i, e),
           \A w \in Workers : \/ pc'[w] = pc[w] /\ job'[w] = job[w] /\ hand'[w] = hand[w]
                              \/ pc'[w] = "idle"
    PROVE  OwnerInv'
<1>1. ASSUME NEW i \in Ids, NEW e \in Emails, Claim(i, e)' PROVE Claim(i, e)
  <2>1. ASSUME NEW v \in Workers, WorkerClaim(v, i, e)' PROVE WorkerClaim(v, i, e)
    BY <2>1 DEF WorkerClaim, Holds
  <2> QED
    BY <1>1, <2>1 DEF Claim
<1>2. OneMailbox' /\ ClaimsBorn'
  BY <1>1 DEF OwnerInv, OneMailbox, ClaimsBorn
<1>3. ConsentOwner'
  BY DEF OwnerInv, ConsentOwner, Consenting
<1> QED
  BY <1>2, <1>3 DEF OwnerInv

LEMMA WorldOwner ==
    ASSUME IInv, OwnerInv, World
    PROVE  OwnerInv'
<1>1. ASSUME NEW i \in Ids, Idle(i) PROVE OwnerInv'
  <2>1. \A k \in Ids, e \in Emails : TokenClaim(k, e)' => TokenClaim(k, e)
    <3>1. \A k \in DOMAIN tokens : tokens[k] \in TokenRow
      BY DEF IInv, TypeOK, TablesOK, IsTable
    <3> QED
      BY <1>1, <3>1 DEF Idle, TokenClaim, TokenRow
  <2>2. accounts' = accounts /\ born' = born /\ UNCHANGED <<pc, job, hand>>
    BY <1>1 DEF Idle, control
  <2> QED
    BY <2>1, <2>2, FewerClaims DEF AccountClaim
<1>2. ASSUME NEW p \in Procs, Crash(p) PROVE OwnerInv'
  <2>1. UNCHANGED db /\ born' = born
    BY <1>2 DEF Crash
  <2>2. \A w \in Workers : \/ pc'[w] = pc[w] /\ job'[w] = job[w] /\ hand'[w] = hand[w]
                           \/ pc'[w] = "idle"
    BY <1>2 DEF Crash
  <2> QED
    BY <2>1, <2>2, FewerClaims DEF db, AccountClaim, TokenClaim
<1>3. CASE UNCHANGED <<db, born, control>>
  BY <1>3, FewerClaims DEF db, control, AccountClaim, TokenClaim
<1> QED
  BY <1>1, <1>2, <1>3 DEF World, BeginFlow, Lapse, RevokeConsent

LEMMA NextOwner == IInv /\ OwnerInv /\ [Next]_vars => OwnerInv'
<1> SUFFICES ASSUME IInv, OwnerInv, [Next]_vars PROVE OwnerInv'
  OBVIOUS
<1>1. ASSUME NEW w \in Workers, Proceed(w) PROVE OwnerInv'
  BY <1>1, StoringOwner, IdpRefreshOwner, EndOwner, ExchangeOwner, LookupOwner,
      CheckOwner, CreateOwner, RemovalOwner DEF Proceed
<1>2. CASE UNCHANGED vars
  BY <1>2, FewerClaims DEF vars, db, control, AccountClaim, TokenClaim
<1> QED
  BY <1>1, <1>2, StartOwner, AcquireOwner, EndOwner, WorldOwner DEF Next

\* All claims on one account id agree on the mailbox, in every behaviour.
THEOREM ClaimsAgree == Spec => []OwnerInv
BY InitOwner, Invariance, NextOwner, PTL DEF Spec

LEMMA OwnerBelongs == IInv /\ OwnerInv => TokenBelongsToAccount
<1> SUFFICES ASSUME IInv, OwnerInv, NEW i \in DOMAIN tokens \cap DOMAIN accounts
             PROVE  tokens[i].owner = Lower[accounts[i].email]
  BY DEF TokenBelongsToAccount
<1>1. i \in Ids /\ tokens[i].owner \in Emails /\ Lower[accounts[i].email] \in Emails
  BY Population DEF IInv, TypeOK, TablesOK, IsTable, TokenRow, AccountRow
<1>2. Claim(i, tokens[i].owner) /\ Claim(i, Lower[accounts[i].email])
  BY DEF Claim, TokenClaim, AccountClaim
<1> QED
  BY <1>1, <1>2 DEF OwnerInv, OneMailbox

\* Whatever consents, refreshes, write-backs and removals overlap, the token stored
\* for an account opens that account's mailbox and no other: a stale record is only
\* ever written under the id it was read or resolved for, and UUIDs do not recur.
THEOREM TokensBelong == Spec => []TokenBelongsToAccount
BY ClaimsAgree, Invariance, OwnerBelongs, PTL

----------------------------------------------------------------------------
(* An account id names one mailbox of one tenant, for ever *)

\* Whose the account is, as its row has it: mailbox e of tenant t, in any letters.
RowNames(i, t, e) ==
    i \in DOMAIN accounts /\ accounts[i].tenant = t /\ Lower[accounts[i].email] = e

\* Whose it is, as a consent that resolved it has it.
CallNames(w, i, t, e) ==
    /\ pc[w] \in {"check", "create", "upsert"}
    /\ job[w].id = i /\ job[w].tenant = t /\ Lower[job[w].email] = e

Names(i, t, e) == RowNames(i, t, e) \/ \E w \in Workers : CallNames(w, i, t, e)

NamesAgree ==
    \A i, t, e, u, f : Names(i, t, e) /\ Names(i, u, f) => t = u /\ e = f

NamesBorn == \A i, t, e : Names(i, t, e) => i \in born

\* The consents other than that of w go on as they were.
OtherJobs(w) == \A v \in Workers \ {w} : pc'[v] = pc[v] /\ job'[v] = job[v]

\* A step that names no account anew.
NoNewName == \A i, t, e : Names(i, t, e)' => Names(i, t, e)

LEMMA SameNames ==
    ASSUME NEW w \in Workers, OtherJobs(w),
           \A i, t, e : RowNames(i, t, e)' => Names(i, t, e),
           \A i, t, e : CallNames(w, i, t, e)' => Names(i, t, e)
    PROVE  NoNewName
<1> SUFFICES ASSUME NEW i, NEW t, NEW e, Names(i, t, e)' PROVE Names(i, t, e)
  BY DEF NoNewName
<1>1. ASSUME NEW v \in Workers \ {w}, CallNames(v, i, t, e)' PROVE CallNames(v, i, t, e)
  BY <1>1 DEF CallNames, OtherJobs
<1> QED
  BY <1>1 DEF Names

\* A call that ends, or is not a consent, names none.
LEMMA ReturnNames ==
    ASSUME IInv, NEW w \in Workers, Return(w),
           \A i, t, e : RowNames(i, t, e)' => Names(i, t, e)
    PROVE  NoNewName
<1>1. OtherJobs(w) /\ pc'[w] \in {"idle", "batch"}
  BY ReturnControl DEF IInv, TypeOK, Others, OtherJobs
<1>2. \A i, t, e : ~CallNames(w, i, t, e)'
  BY <1>1 DEF CallNames
<1> QED
  BY <1>1, <1>2, SameNames

LEMMA StartNames ==
    ASSUME IInv, NEW w \in Workers, Start(w)
    PROVE  NoNewName
<1>1. accounts' = accounts
  BY DEF Start, StartUse, StartRetry, StartDisconnect, StartRemove, StartBatch, Callback, db
<1>2. \/ \E j, step : /\ step \in {"lock", "bump", "drop", "delete", "batch", "exchange"}
                      /\ Call(w, j, step)
      \/ pc' = pc /\ job' = job /\ pc[w] = "idle"
  BY DEF Start, StartUse, StartRetry, StartDisconnect, StartRemove, StartBatch, Callback
<1>3. OtherJobs(w) /\ pc'[w] \notin {"check", "create", "upsert"}
  BY <1>2 DEF Call, Goto, OtherJobs, IInv, TypeOK, ControlOK
<1>4. \A i, t, e : ~CallNames(w, i, t, e)'
  BY <1>3 DEF CallNames
<1>5. \A i, t, e : RowNames(i, t, e)' => Names(i, t, e)
  BY <1>1 DEF RowNames, Names
<1> QED
  BY <1>3, <1>4, <1>5, SameNames

\* Steps that keep the rows and are not the lookup of a consent.
LEMMA RowsKeptNames ==
    ASSUME IInv, NEW w \in Workers,
           \/ Acquire(w) \/ Bump(w) \/ IdpRefresh(w) \/ Store(w) \/ Refused(w)
           \/ BatchNext(w) \/ (\E e \in Emails : Exchange(w, e)) \/ Upsert(w)
           \/ Drop(w) \/ Interrupted(w)
    PROVE  NoNewName
<1>1. accounts' = accounts
  BY DEF Acquire, Bump, IdpRefresh, Store, Refused, BatchNext, Exchange, Upsert, Drop,
      Interrupted, db
<1>2. \A i, t, e : RowNames(i, t, e)' => Names(i, t, e)
  BY <1>1 DEF RowNames, Names
<1>3. CASE Return(w)
  BY <1>2, <1>3, ReturnNames
<1>4. CASE ~Return(w)
  <2>1. \/ \E step \in {"refresh", "store", "lock", "idle", "lookup", "mark"} :
               Goto(w, step)
    BY <1>4 DEF Acquire, Bump, IdpRefresh, Store, Refused, BatchNext, Exchange, Upsert,
        Drop, Interrupted
  <2>2. \A v \in Workers \ {w} : job'[v] = job[v]
    BY <1>4 DEF Acquire, Bump, IdpRefresh, Store, Refused, BatchNext, Exchange, Upsert,
        Drop, Interrupted, IInv, TypeOK, ControlOK
  <2>3. OtherJobs(w) /\ pc'[w] \notin {"check", "create", "upsert"}
    BY <2>1, <2>2 DEF Goto, OtherJobs, IInv, TypeOK, ControlOK
  <2>4. \A i, t, e : ~CallNames(w, i, t, e)'
    BY <2>3 DEF CallNames
  <2> QED
    BY <1>2, <2>3, <2>4, SameNames
<1> QED
  BY <1>3, <1>4

LEMMA CheckNames ==
    ASSUME IInv, NEW w \in Workers, Check(w)
    PROVE  NoNewName
<1>1. /\ accounts' = accounts /\ job' = job /\ pc[w] = "check"
      /\ \E step \in {"upsert", "create"} : pc' = [pc EXCEPT ![w] = step]
  BY DEF Check, Goto, db
<1>2. OtherJobs(w)
  BY <1>1 DEF OtherJobs, IInv, TypeOK, ControlOK
<1>3. \A i, t, e : RowNames(i, t, e)' => Names(i, t, e)
  BY <1>1 DEF RowNames, Names
<1>4. \A i, t, e : CallNames(w, i, t, e)' => CallNames(w, i, t, e)
  BY <1>1 DEF CallNames
<1> QED
  BY <1>2, <1>3, <1>4, SameNames DEF Names

\* The row that a consent creates names what the consent resolved.
LEMMA CreateNames ==
    ASSUME IInv, NEW w \in Workers, Create(w)
    PROVE  NoNewName
<1> DEFINE row == [tenant |-> job[w].tenant, email |-> job[w].email, status |-> "active"]
<1>1. CASE Return(w) /\ accounts' = accounts
  BY <1>1, ReturnNames DEF RowNames, Names
<1>2. CASE /\ accounts' = Put(accounts, job[w].id, row)
           /\ pc' = [pc EXCEPT ![w] = "upsert"]
           /\ UNCHANGED <<lock, job, hand>>
  <2>1. pc[w] = "create" /\ OtherJobs(w)
    BY <1>2 DEF Create, OtherJobs, IInv, TypeOK, ControlOK
  <2>2. \A i, t, e : CallNames(w, i, t, e)' => CallNames(w, i, t, e)
    BY <1>2, <2>1 DEF CallNames
  <2>3. ASSUME NEW i, NEW t, NEW e, RowNames(i, t, e)' PROVE Names(i, t, e)
    <3>1. CASE i = job[w].id
      <4>1. t = job[w].tenant /\ e = Lower[job[w].email]
        BY <1>2, <2>3, <3>1 DEF RowNames, Put
      <4> QED
        BY <2>1, <3>1, <4>1 DEF Names, CallNames
    <3>2. CASE i # job[w].id
      BY <1>2, <2>3, <3>2 DEF RowNames, Put, Names
    <3> QED
      BY <3>1, <3>2
  <2> QED
    BY <2>1, <2>2, <2>3, SameNames DEF Names
<1> QED
  BY <1>1, <1>2 DEF Create, Goto

LEMMA RowsChangedNames ==
    ASSUME IInv, NEW w \in Workers, Mark(w) \/ Delete(w)
    PROVE  NoNewName
<1>1. Return(w)
  BY DEF Mark, Delete
<1>2. \A i, t, e : RowNames(i, t, e)' => RowNames(i, t, e)
  <2>1. CASE Mark(w)
    BY <2>1, MarkKeepsMailboxes DEF RowNames
  <2>2. CASE Delete(w)
    BY <2>2 DEF Delete, Without, Restrict, RowNames
  <2> QED
    BY <2>1, <2>2
<1> QED
  BY <1>1, <1>2, ReturnNames DEF Names

LEMMA WorldNames ==
    ASSUME IInv, World \/ UNCHANGED vars
    PROVE  NoNewName
<1>1. accounts' = accounts
  BY DEF World, BeginFlow, Lapse, Idle, RevokeConsent, Crash, vars, db
<1>2. \A v \in Workers : (pc'[v] = pc[v] /\ job'[v] = job[v]) \/ pc'[v] = "idle"
  <2>1. ASSUME NEW p \in Procs, Crash(p) PROVE <1>2
    BY <2>1 DEF Crash
  <2>2. CASE UNCHANGED control
    BY <2>2 DEF control
  <2> QED
    BY <2>1, <2>2 DEF World, BeginFlow, Lapse, Idle, RevokeConsent, vars, control
<1> SUFFICES ASSUME NEW i, NEW t, NEW e, Names(i, t, e)' PROVE Names(i, t, e)
  BY DEF NoNewName
<1>3. ASSUME NEW v \in Workers, CallNames(v, i, t, e)' PROVE CallNames(v, i, t, e)
  BY <1>2, <1>3 DEF CallNames
<1>4. RowNames(i, t, e)' => RowNames(i, t, e)
  BY <1>1 DEF RowNames
<1> QED
  BY <1>3, <1>4 DEF Names

\* What a lookup names was named so before, or has an id that was never drawn.
LEMMA LookupNames ==
    ASSUME IInv, NEW w \in Workers, Lookup(w)
    PROVE  \/ NoNewName
           \/ \E j \in born' \ born : \E u, f : \A i, t, e :
                  Names(i, t, e)' => Names(i, t, e) \/ (i = j /\ t = u /\ e = f)
<1> DEFINE u == job[w].tenant
           f == Lower[job[w].email]
<1>1. PICK j : /\ \/ RowNames(j, u, f)
                  \/ j \in Ids \ born
               /\ job' = [job EXCEPT ![w].id = j]
               /\ born' = born \cup {j}
  BY DEF Lookup, Found, IsMailbox, RowNames
<1>2. accounts' = accounts /\ pc[w] = "lookup" /\ pc' = [pc EXCEPT ![w] = "check"]
  BY DEF Lookup, Goto, db
<1>3. /\ OtherJobs(w)
      /\ job'[w].id = j /\ job'[w].tenant = u /\ Lower[job'[w].email] = f
  BY <1>1, <1>2 DEF OtherJobs, IInv, TypeOK, ControlOK, Job
<1>4. \A i, t, e : RowNames(i, t, e)' => Names(i, t, e)
  BY <1>2 DEF RowNames, Names
<1>5. \A i, t, e : CallNames(w, i, t, e)' => i = j /\ t = u /\ e = f
  BY <1>3 DEF CallNames
<1> HIDE DEF u, f
<1>6. CASE RowNames(j, u, f)
  <2>1. Names(j, u, f)
    BY <1>6 DEF Names, RowNames
  <2>2. \A i, t, e : CallNames(w, i, t, e)' => Names(i, t, e)
    BY <1>5, <2>1
  <2> QED
    BY <1>3, <1>4, <2>2, SameNames
<1>7. CASE j \in Ids \ born
  <2>1. j \in born' \ born
    BY <1>1, <1>7
  <2>2. ASSUME NEW i, NEW t, NEW e, Names(i, t, e)'
        PROVE  Names(i, t, e) \/ (i = j /\ t = u /\ e = f)
    <3>1. ASSUME NEW v \in Workers \ {w}, CallNames(v, i, t, e)' PROVE Names(i, t, e)
      BY <1>3, <3>1 DEF CallNames, OtherJobs, Names
    <3> QED
      BY <1>4, <1>5, <2>2, <3>1 DEF Names
  <2> QED
    BY <2>1, <2>2
<1> QED
  BY <1>1, <1>6, <1>7

\* A step names at most one account anew, by an id that was never drawn.
LEMMA NextNames ==
    ASSUME IInv, [Next]_vars
    PROVE  /\ born \subseteq born'
           /\ \/ NoNewName
              \/ \E j \in born' \ born : \E u, f : \A i, t, e :
                     Names(i, t, e)' => Names(i, t, e) \/ (i = j /\ t = u /\ e = f)
<1>1. born \subseteq born'
  <2>1. ASSUME NEW w \in Workers, Lookup(w) PROVE born \subseteq born'
    BY <2>1 DEF Lookup
  <2>2. ASSUME NEW w \in Workers, Start(w) PROVE born' = born
    BY <2>2 DEF Start, StartUse, StartRetry, StartDisconnect, StartRemove, StartBatch, Callback
  <2>3. ASSUME NEW w \in Workers, Proceed(w), ~Lookup(w) PROVE born' = born
    BY <2>3 DEF Proceed, Bump, IdpRefresh, Store, Refused, BatchNext, Exchange, Check,
        Create, Upsert, Drop, Mark, Delete
  <2>4. ASSUME NEW w \in Workers, Acquire(w) \/ Interrupted(w) PROVE born' = born
    BY <2>4 DEF Acquire, Interrupted
  <2>5. CASE World \/ UNCHANGED vars
    BY <2>5 DEF World, BeginFlow, Lapse, Idle, RevokeConsent, Crash, vars
  <2> QED
    BY <2>1, <2>2, <2>3, <2>4, <2>5 DEF Next
<1>2. ASSUME NEW w \in Workers, Proceed(w) PROVE Lookup(w) \/ NoNewName
  BY <1>2, RowsKeptNames, CheckNames, CreateNames, RowsChangedNames DEF Proceed
<1>3. CASE \E w \in Workers : Lookup(w)
  BY <1>1, <1>3, LookupNames
<1>4. CASE ~(\E w \in Workers : Lookup(w))
  BY <1>1, <1>2, <1>4, StartNames, RowsKeptNames, WorldNames DEF Next
<1> QED
  BY <1>3, <1>4

NamesInv == NamesAgree /\ NamesBorn

LEMMA InitNames == Init => NamesInv
<1> SUFFICES ASSUME Init PROVE NamesInv
  OBVIOUS
<1>1. \A i, t, e : Names(i, t, e) =>
          i \in DOMAIN Seeded /\ t = Seeded[i].tenant /\ e = Lower[Seeded[i].email]
  BY DEF Init, Names, RowNames, CallNames
<1> QED
  BY <1>1 DEF Init, NamesInv, NamesAgree, NamesBorn

LEMMA NextNamesInv == IInv /\ NamesInv /\ [Next]_vars => NamesInv'
<1> SUFFICES ASSUME IInv, NamesInv, [Next]_vars PROVE NamesInv'
  OBVIOUS
<1>1. born \subseteq born'
  BY NextNames
<1>2. CASE NoNewName
  BY <1>1, <1>2 DEF NoNewName, NamesInv, NamesAgree, NamesBorn
<1>3. ASSUME NEW j \in born' \ born, NEW u, NEW f,
             \A i, t, e : Names(i, t, e)' => Names(i, t, e) \/ (i = j /\ t = u /\ e = f)
      PROVE  NamesInv'
  <2>1. \A t, e : ~Names(j, t, e)
    BY DEF NamesInv, NamesBorn
  <2> QED
    BY <1>1, <1>3, <2>1 DEF NamesInv, NamesAgree, NamesBorn
<1> QED
  BY <1>2, <1>3, NextNames

\* The rows and the consents in flight that share an account id agree on whose the
\* account is, and the id was drawn.
THEOREM NamesStayUnique == Spec => []NamesInv
BY InitNames, Invariance, NextNamesInv, PTL DEF Spec

LEMMA NamesKeep == NamesInv => ConsentKeepsItsMailbox
<1> SUFFICES ASSUME NamesInv, NEW w \in Workers,
                    pc[w] \in {"check", "create", "upsert"}, job[w].id \in DOMAIN accounts
             PROVE  IsMailbox(job[w].id, job[w].tenant, job[w].email)
  BY DEF ConsentKeepsItsMailbox
<1> DEFINE i == job[w].id
<1>1. Names(i, job[w].tenant, Lower[job[w].email])
  BY DEF Names, CallNames
<1>2. Names(i, accounts[i].tenant, Lower[accounts[i].email])
  BY DEF Names, RowNames
<1> HIDE DEF i
<1>3. /\ accounts[i].tenant = job[w].tenant
      /\ Lower[accounts[i].email] = Lower[job[w].email]
  BY <1>1, <1>2 DEF NamesInv, NamesAgree
<1> QED
  BY <1>3 DEF IsMailbox, i

\* The token set of a consent is written to the account of the tenant and the mailbox
\* that consented, though its lookup, its check and its two writes are four statements
\* with other consents and removals in between (token.rs:116-142).
THEOREM ConsentsKeepTheirMailbox == Spec => []ConsentKeepsItsMailbox
BY NamesStayUnique, NamesKeep, PTL

----------------------------------------------------------------------------
(* ... even after the account was removed *)

\* Id i was drawn, and nobody names it but as mailbox e of tenant t.
Settled(i, t, e) ==
    /\ i \in born
    /\ \A u, f : Names(i, u, f) => u = t /\ f = e

LEMMA NextSettled ==
    ASSUME NEW i, NEW t, NEW e
    PROVE  IInv /\ Settled(i, t, e) /\ [Next]_vars => Settled(i, t, e)'
<1> SUFFICES ASSUME IInv, Settled(i, t, e), [Next]_vars PROVE Settled(i, t, e)'
  OBVIOUS
<1>1. i \in born'
  BY NextNames DEF Settled
<1>2. \A u, f : Names(i, u, f)' => Names(i, u, f)
  BY NextNames DEF Settled, NoNewName
<1> QED
  BY <1>1, <1>2 DEF Settled

\* An account id that was ever the account of one mailbox of one tenant is never that
\* of another: an account that is removed while a consent is in flight may come back
\* under its id, but only as itself, so whoever kept the id (a client, a call in
\* flight) never reaches someone else's mailbox.
THEOREM IdsAreForever ==
    ASSUME NEW i, NEW t, NEW e
    PROVE  Spec => [](RowNames(i, t, e) => [](i \in DOMAIN accounts => RowNames(i, t, e)))
<1>1. NamesInv /\ RowNames(i, t, e) => Settled(i, t, e)
  BY DEF NamesInv, NamesAgree, NamesBorn, Names, Settled
<1>2. Settled(i, t, e) => (i \in DOMAIN accounts => RowNames(i, t, e))
  <2> SUFFICES ASSUME Settled(i, t, e), i \in DOMAIN accounts PROVE RowNames(i, t, e)
    OBVIOUS
  <2>1. RowNames(i, accounts[i].tenant, Lower[accounts[i].email])
    BY DEF RowNames
  <2>2. accounts[i].tenant = t /\ Lower[accounts[i].email] = e
    BY <2>1 DEF Settled, Names
  <2> QED
    BY <2>1, <2>2
<1>3. IInv /\ Settled(i, t, e) /\ [Next]_vars => Settled(i, t, e)'
  BY NextSettled
<1> QED
  BY <1>1, <1>2, <1>3, Invariance, NamesStayUnique, PTL DEF Spec
=============================================================================
