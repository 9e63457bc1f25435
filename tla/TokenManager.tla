---------------------------- MODULE TokenManager ----------------------------
(***************************************************************************)
(* TokenManager (src/auth/token.rs) over the tables accounts and tokens:   *)
(* consent callbacks, transparent refreshes, activity bumps, the batch     *)
(* refreshes of the background loop and of the CLI, disconnection and      *)
(* removal, run by concurrent callers in processes that share a database.  *)
(*                                                                         *)
(* A worker is one caller: a request handler, the background loop, a CLI   *)
(* command.  Control moves from one await or SQL statement to the next;    *)
(* pc names the one that comes next.  A SQL statement runs under the       *)
(* connection mutex and is one step.  A refresh holds the in-memory mutex  *)
(* of its account, which is private to its process.                        *)
(*                                                                         *)
(* The identity provider is external.  It answers with a new access token  *)
(* and, as Rotation allows, keeps the refresh token, adds a new one, or    *)
(* replaces it; or it refuses.  It may omit the expiry of a token.         *)
(***************************************************************************)
EXTENDS Integers, Tables

CONSTANTS Procs,     \* processes that have the database open
          Workers,   \* concurrent callers
          ProcOf,    \* worker |-> its process
          Duty,      \* worker |-> the operations it performs
          Ids,       \* account ids: UUIDs, never drawn twice
          Tenants,
          Emails,    \* mail addresses, in the spellings the provider reports
          Lower,     \* SQL's lower(), and the name of the mailbox at the provider
          States,    \* CSRF states
          Seeded,    \* id |-> [tenant, email]: accounts connected beforehand
          Rotation,  \* what the provider does with the refresh token it is shown
          Outside,   \* "lapse": tokens expire; "revoke": consents are withdrawn
          MaxIssue,  \* bound on the tokens issued for one mailbox
          IdleCap,   \* how idle a token may become (see Idleness)
          None       \* no worker, no token, no account

\* Classes of now - last_used_at: 0 recent, 1 longer than USAGE_WRITE_INTERVAL,
\* 2 longer than TOKEN_INACTIVITY_DAYS.
Idleness == 0..2

Batches == {"refresh_all", "refresh_stale"}
Operations == Batches \cup {"use", "retry", "connect", "disconnect", "remove"}

ASSUME Population ==
    /\ ProcOf \in [Workers -> Procs]
    /\ Duty \in [Workers -> SUBSET Operations]
    /\ IsTable(Seeded, Ids, [tenant : Tenants, email : Emails])
    /\ Lower \in [Emails -> Emails]
    /\ \A i, j \in DOMAIN Seeded : Lower[Seeded[i].email] = Lower[Seeded[j].email] => i = j
    /\ None \notin Workers \cup Ids \cup Tenants \cup Emails \cup Operations

ASSUME Bounds ==
    /\ Rotation \subseteq {"keep", "rotate", "replace"}
    /\ Outside \subseteq {"lapse", "revoke"}
    /\ MaxIssue \in Nat
    /\ IdleCap \in Idleness

VARIABLES accounts,  \* table accounts: id |-> [tenant, email, status]
          tokens,    \* table tokens: id |-> [owner, access, refresh, used]
          pending,   \* table oauth_flows, as PendingFlows has it
          minted,    \* CSRF states handed out
          born,      \* account ids drawn so far
          lock,      \* process |-> id |-> worker that holds refresh_locks[id]
          pc,        \* worker |-> its next step
          job,       \* worker |-> the call it serves
          hand,      \* worker |-> the token record it holds across a step
          issued,    \* provider: mailbox |-> number of tokens issued
          live,      \* provider: refresh tokens it honours
          lapsed,    \* access tokens that are expired or carry no expiry
          excused,   \* refresh tokens the code could not keep alive (history)
          unfinished \* accounts that a failure left half connected or disconnected (history)

db == <<accounts, tokens>>
flows == <<pending, minted>>
idp == <<issued, live, lapsed>>
control == <<lock, pc, job, hand>>
history == <<excused, unfinished>>
vars == <<db, flows, born, control, idp, history>>

Flows == INSTANCE PendingFlows

Status == {"active", "disconnected"}
AccountRow == [tenant : Tenants, email : Emails, status : Status]
TokenRow == [owner : Emails, access : Nat, refresh : Nat, used : Idleness]
Token == [owner : Emails, n : Nat]
Steps == {"idle", "bump", "lock", "refresh", "store", "batch", "exchange",
          "lookup", "check", "create", "upsert", "drop", "mark", "delete"}
Job == [op : Operations \cup {None}, id : Ids \cup {None},
        tenant : Tenants \cup {None}, email : Emails \cup {None},
        todo : SUBSET Ids]

\* The two tokens in a stored record.
AccessOf(row) == [owner |-> row.owner, n |-> row.access]
RefreshOf(row) == [owner |-> row.owner, n |-> row.refresh]

\* The record of a token set that was just issued.
Issue(e, n, refresh) == [owner |-> e, access |-> n, refresh |-> refresh, used |-> 0]

NoJob == [op |-> None, id |-> None, tenant |-> None, email |-> None, todo |-> {}]
JobOn(op, i) == [NoJob EXCEPT !.op = op, !.id = i]

Init ==
    /\ accounts = [i \in DOMAIN Seeded |-> [tenant |-> Seeded[i].tenant,
                                            email |-> Seeded[i].email,
                                            status |-> "active"]]
    /\ tokens = [i \in DOMAIN Seeded |-> Issue(Lower[Seeded[i].email], 1, 1)]
    /\ Flows!Init
    /\ born = DOMAIN Seeded
    /\ lock = [p \in Procs |-> [i \in Ids |-> None]]
    /\ pc = [w \in Workers |-> "idle"]
    /\ job = [w \in Workers |-> NoJob]
    /\ hand = [w \in Workers |-> None]
    /\ issued = [e \in Emails |-> IF \E i \in DOMAIN Seeded : Lower[Seeded[i].email] = e
                                  THEN 1 ELSE 0]
    /\ live = {RefreshOf(tokens[i]) : i \in DOMAIN Seeded}
    /\ lapsed = {}
    /\ excused = {}
    /\ unfinished = {}

----------------------------------------------------------------------------
(* Calls: how they begin, move on and end *)

Goto(w, step) == pc' = [pc EXCEPT ![w] = step]

\* An idle worker takes up job j.
Call(w, j, step) ==
    /\ pc[w] = "idle"
    /\ j.op \in Duty[w]
    /\ job' = [job EXCEPT ![w] = j]
    /\ Goto(w, step)

\* Defect: a batch keeps the guard of an account until the batch is over.
UnlockedAfterBatch(ws) ==
    [p \in Procs |-> [i \in Ids |->
        IF lock[p][i] \in {w \in ws : job[w].op \notin Batches} THEN None ELSE lock[p][i]]]

\* The lock guards of workers ws are dropped.
Unlocked(ws) ==
    [p \in Procs |-> [i \in Ids |-> IF lock[p][i] \in ws THEN None ELSE lock[p][i]]]

\* Defect: a batch ends with the first account that fails.
ReturnAtFailure(w) ==
    /\ lock' = Unlocked({w})
    /\ hand' = [hand EXCEPT ![w] = None]
    /\ IF job[w].op \in Batches /\ pc[w] = "store"
       THEN /\ job' = [job EXCEPT ![w].id = None]
            /\ Goto(w, "batch")
       ELSE /\ job' = [job EXCEPT ![w] = NoJob]
            /\ Goto(w, "idle")

\* A refresh that ends goes on with its batch; any other call is over.
Return(w) ==
    /\ lock' = Unlocked({w})
    /\ hand' = [hand EXCEPT ![w] = None]
    /\ IF job[w].op \in Batches
       THEN /\ job' = [job EXCEPT ![w].id = None]
            /\ Goto(w, "batch")
       ELSE /\ job' = [job EXCEPT ![w] = NoJob]
            /\ Goto(w, "idle")

\* Workers ws are stopped.  They lose the answers they were about to store: a refresh
\* token that is still in the table, though the provider replaced it, is dead through
\* no step the code could have taken.  And they leave accounts half connected, or half
\* disconnected.
Excuse(ws) ==
    LET losers == {w \in ws : pc[w] = "store" /\ job[w].id \in DOMAIN tokens}
        halfway == {w \in ws : pc[w] \in {"upsert", "mark"}}
    IN  /\ excused' = excused \cup ({RefreshOf(tokens[job[w].id]) : w \in losers} \ live)
        /\ unfinished' = unfinished \cup {job[w].id : w \in halfway}

\* The call of worker w has done to its account all it had to do.
Finish(w) ==
    /\ unfinished' = unfinished \ {job[w].id}
    /\ UNCHANGED excused

----------------------------------------------------------------------------
(* get_access_token and refresh_account *)

\* get_access_token on an account its caller found; a recent token whose expiry
\* is far enough is returned without a change, so that branch takes no step.
StartUse(w, i) ==
    /\ i \in DOMAIN accounts
    /\ \/ /\ i \in DOMAIN tokens => AccessOf(tokens[i]) \in lapsed
          /\ Call(w, JobOn("use", i), "lock")
          /\ UNCHANGED hand
       \/ /\ i \in DOMAIN tokens
          /\ AccessOf(tokens[i]) \notin lapsed
          /\ tokens[i].used > 0
          /\ Call(w, JobOn("use", i), "bump")
          /\ hand' = [hand EXCEPT ![w] = tokens[i]]
    /\ UNCHANGED <<db, flows, born, lock, idp, history>>

\* Graph answered 401: the provider layer forces a refresh.
StartRetry(w, i) ==
    /\ i \in DOMAIN accounts
    /\ Call(w, JobOn("retry", i), "lock")
    /\ UNCHANGED <<db, flows, born, lock, hand, idp, history>>

\* Defect: foreign keys are not enforced on this connection.
UpsertedUnchecked(i, row) == Put(tokens, i, row)

\* tokens.upsert: the foreign key refuses a token without an account.
Upserted(i, row) ==
    IF i \in DOMAIN accounts THEN Put(tokens, i, row) ELSE tokens

\* bump_last_used writes the whole record back, as it was read.
Bump(w) ==
    /\ pc[w] = "bump"
    /\ tokens' = Upserted(job[w].id, [hand[w] EXCEPT !.used = 0])
    /\ Return(w)
    /\ UNCHANGED <<accounts, flows, born, idp, history>>

\* Defect: refreshes of one account do not wait for each other.
LockIgnored(p, i) == TRUE

LockFree(p, i) == lock[p][i] = None

\* The account's mutex is acquired and the current token is read under it.
Acquire(w) ==
    LET i == job[w].id
        p == ProcOf[w]
    IN  /\ pc[w] = "lock"
        /\ LockFree(p, i)
        /\ IF i \in DOMAIN tokens
           THEN /\ lock' = [lock EXCEPT ![p][i] = w]
                /\ hand' = [hand EXCEPT ![w] = tokens[i]]
                /\ Goto(w, "refresh")
                /\ UNCHANGED job
           ELSE Return(w)
        /\ UNCHANGED <<db, flows, born, idp, history>>

\* Defect: the refresh token of the answer is ignored.
NextRefreshOld(cur, n, rotation) == cur.refresh

\* Defect: the answer is stored as it is, without unwrap_or.
NextRefreshRaw(cur, n, rotation) == IF rotation = "keep" THEN None ELSE n

\* The refresh token of the new set: token_set.refresh_token.unwrap_or(current).
NextRefresh(cur, n, rotation) == IF rotation = "keep" THEN cur.refresh ELSE n

\* The provider's answer to a refresh token, which it knows, for access token n.
StillLive(cur, n, rotation) ==
    CASE rotation = "keep" -> live
      [] rotation = "rotate" -> live \cup {[owner |-> cur.owner, n |-> n]}
      [] rotation = "replace" ->
             (live \ {RefreshOf(cur)}) \cup {[owner |-> cur.owner, n |-> n]}

\* The provider issues access token n of mailbox e, perhaps without an expiry.
IssueAccess(e, n) ==
    /\ n <= MaxIssue
    /\ issued' = [issued EXCEPT ![e] = n]
    /\ \/ UNCHANGED lapsed
       \/ "lapse" \in Outside /\ lapsed' = lapsed \cup {[owner |-> e, n |-> n]}

\* oauth.refresh succeeds at the provider; its answer is on the way to "store".
IdpRefresh(w) ==
    LET cur == hand[w]
        n == issued[cur.owner] + 1
    IN  /\ pc[w] = "refresh"
        /\ RefreshOf(cur) \in live
        /\ IssueAccess(cur.owner, n)
        /\ \E rotation \in Rotation :
               /\ hand' = [hand EXCEPT ![w] =
                               Issue(cur.owner, n, NextRefresh(cur, n, rotation))]
               /\ live' = StillLive(cur, n, rotation)
        /\ Goto(w, "store")
        /\ UNCHANGED <<db, flows, born, lock, job, history>>

\* The answer of a refresh is stored, unless the account is gone.
Store(w) ==
    /\ pc[w] = "store"
    /\ tokens' = Upserted(job[w].id, hand[w])
    /\ Return(w)
    /\ UNCHANGED <<accounts, flows, born, idp, history>>

\* A request to the provider fails: oauth.refresh, exchange_code, or /me.
Refused(w) ==
    /\ pc[w] \in {"refresh", "exchange"}
    /\ Return(w)
    /\ UNCHANGED <<db, flows, born, idp, history>>

----------------------------------------------------------------------------
(* refresh_all and refresh_stale *)

\* Both take their list once; refresh_all leaves out disconnected accounts.
StartBatch(w, op) ==
    /\ op \in Batches
    /\ Call(w, [NoJob EXCEPT !.op = op, !.todo =
                   IF op = "refresh_all"
                   THEN {i \in DOMAIN accounts : accounts[i].status # "disconnected"}
                   ELSE {i \in DOMAIN tokens : tokens[i].used = 2}],
            "batch")
    /\ UNCHANGED <<db, flows, born, lock, hand, idp, history>>

\* The next account of the batch; its order in the list plays no part.
BatchNext(w) ==
    /\ pc[w] = "batch"
    /\ \/ \E i \in job[w].todo :
              /\ job' = [job EXCEPT ![w].id = i, ![w].todo = @ \ {i}]
              /\ Goto(w, "lock")
       \/ /\ job[w].todo = {}
          /\ job' = [job EXCEPT ![w] = NoJob]
          /\ Goto(w, "idle")
    /\ UNCHANGED <<db, flows, born, lock, hand, idp, history>>

----------------------------------------------------------------------------
(* begin_flow and complete_flow *)

\* A consent URL is handed out; FlowStore says what happens in the table.
BeginFlow(s, t) ==
    /\ \E dropped \in SUBSET DOMAIN pending, kept \in BOOLEAN :
           Flows!Begin(s, t, dropped, kept)
    /\ UNCHANGED <<db, born, control, idp, history>>

\* The callback of state s: flows.take consumes the flow even if it then rejects it.
Callback(w, s) ==
    /\ Flows!Take(s)
    /\ \/ Call(w, [NoJob EXCEPT !.op = "connect", !.tenant = pending[s]], "exchange")
       \/ /\ pc[w] = "idle" /\ "connect" \in Duty[w]
          /\ UNCHANGED <<pc, job>>
    /\ UNCHANGED <<db, born, lock, hand, idp, history>>

\* exchange_code and profile.resolve: the user consented for the mailbox with address e.
Exchange(w, e) ==
    LET m == Lower[e]
        n == issued[m] + 1
    IN  /\ pc[w] = "exchange"
        /\ IssueAccess(m, n)
        /\ live' = live \cup {[owner |-> m, n |-> n]}
        /\ hand' = [hand EXCEPT ![w] = Issue(m, n, n)]
        /\ job' = [job EXCEPT ![w].email = e]
        /\ Goto(w, "lookup")
        /\ UNCHANGED <<db, flows, born, lock, history>>

\* Row i of accounts is that of tenant t and the mailbox with address e.
IsMailbox(i, t, e) == accounts[i].tenant = t /\ Lower[accounts[i].email] = Lower[e]

\* Defect: the lookup does not compare the address.
FoundByTenant(t, e) == {i \in DOMAIN accounts : accounts[i].tenant = t}

\* accounts.get_by_email, in any letters; any of these rows may come first.
Found(t, e) == {i \in DOMAIN accounts : IsMailbox(i, t, e)}

\* The account is the mailbox's row, or one with a new UUID.
Lookup(w) ==
    LET found == Found(job[w].tenant, job[w].email)
    IN  /\ pc[w] = "lookup"
        /\ \E i \in IF found # {} THEN found ELSE Ids \ born :
               /\ job' = [job EXCEPT ![w].id = i]
               /\ born' = born \cup {i}
        /\ Goto(w, "check")
        /\ UNCHANGED <<db, flows, lock, hand, idp, history>>

\* accounts.get(tenant, id).is_err(): an error of the statement, too, leads to create.
Check(w) ==
    LET i == job[w].id
        found == i \in DOMAIN accounts /\ accounts[i].tenant = job[w].tenant
    IN  /\ pc[w] = "check"
        /\ \/ found /\ Goto(w, "upsert")
           \/ Goto(w, "create")
        /\ UNCHANGED <<db, flows, born, lock, job, hand, idp, history>>

\* No row has the primary key i, or the address e of tenant t, letter by letter (UNIQUE).
Insertable(i, t, e) ==
    \A j \in DOMAIN accounts : j # i /\ ~(accounts[j].tenant = t /\ accounts[j].email = e)

\* accounts.create; a constraint violation ends the flow.
Create(w) ==
    /\ pc[w] = "create"
    /\ IF Insertable(job[w].id, job[w].tenant, job[w].email)
       THEN /\ accounts' = Put(accounts, job[w].id, [tenant |-> job[w].tenant,
                                                     email |-> job[w].email,
                                                     status |-> "active"])
            /\ Goto(w, "upsert")
            /\ UNCHANGED <<lock, job, hand>>
       ELSE /\ Return(w)
            /\ UNCHANGED accounts
    /\ UNCHANGED <<tokens, flows, born, idp, history>>

\* tokens.upsert ends the flow; the account row of a re-consent is not written.
Upsert(w) ==
    /\ pc[w] = "upsert"
    /\ tokens' = Upserted(job[w].id, hand[w])
    /\ Return(w)
    /\ Finish(w)
    /\ UNCHANGED <<accounts, flows, born, idp>>

----------------------------------------------------------------------------
(* disconnect (REST) and remove-account (CLI) *)

StartDisconnect(w, i) ==
    /\ i \in DOMAIN accounts
    /\ Call(w, JobOn("disconnect", i), "drop")
    /\ UNCHANGED <<db, flows, born, lock, hand, idp, history>>

\* Defect: the status of the account is forgotten.
DropUnmarked(w) ==
    /\ pc[w] = "drop"
    /\ tokens' = Without(tokens, {job[w].id})
    /\ Return(w)
    /\ UNCHANGED <<accounts, flows, born, idp, history>>

Drop(w) ==
    /\ pc[w] = "drop"
    /\ tokens' = Without(tokens, {job[w].id})
    /\ Goto(w, "mark")
    /\ UNCHANGED <<accounts, flows, born, lock, job, hand, idp, history>>

\* set_status; the row may be gone by now.
Mark(w) ==
    LET i == job[w].id
    IN  /\ pc[w] = "mark"
        /\ accounts' = IF i \in DOMAIN accounts
                       THEN [accounts EXCEPT ![i].status = "disconnected"]
                       ELSE accounts
        /\ Return(w)
        /\ Finish(w)
        /\ UNCHANGED <<tokens, flows, born, idp>>

StartRemove(w, i) ==
    /\ i \in DOMAIN accounts
    /\ Call(w, JobOn("remove", i), "delete")
    /\ UNCHANGED <<db, flows, born, lock, hand, idp, history>>

\* accounts.delete: the foreign key cascades to the account's token.
Delete(w) ==
    /\ pc[w] = "delete"
    /\ accounts' = Without(accounts, {job[w].id})
    /\ tokens' = Without(tokens, {job[w].id})
    /\ Return(w)
    /\ Finish(w)
    /\ UNCHANGED <<flows, born, idp>>

----------------------------------------------------------------------------
(* Failures, and the world outside *)

\* A caller goes away, and its handler's future is dropped at an await; or a SQL
\* statement fails.  Nobody drops a batch: it gives up an account only under its
\* lock.
Interrupted(w) ==
    /\ pc[w] \notin {"idle", "batch"}
    /\ pc[w] = "lock" /\ job[w].op \in Batches => LockFree(ProcOf[w], job[w].id)
    /\ Excuse({w})
    /\ Return(w)
    /\ UNCHANGED <<db, flows, born, idp>>

\* Process p stops: its callers and its locks are gone, the database stays.
Crash(p) ==
    LET ws == {w \in Workers : ProcOf[w] = p}
    IN  /\ \E w \in ws : pc[w] # "idle"
        /\ Excuse(ws)
        /\ lock' = [lock EXCEPT ![p] = [i \in Ids |-> None]]
        /\ pc' = [w \in Workers |-> IF w \in ws THEN "idle" ELSE pc[w]]
        /\ job' = [w \in Workers |-> IF w \in ws THEN NoJob ELSE job[w]]
        /\ hand' = [w \in Workers |-> IF w \in ws THEN None ELSE hand[w]]
        /\ UNCHANGED <<db, flows, born, idp>>

\* The access token of account i comes within EXPIRY_SKEW of its expiry.
Lapse(i) ==
    /\ "lapse" \in Outside
    /\ i \in DOMAIN tokens
    /\ AccessOf(tokens[i]) \notin lapsed
    /\ lapsed' = lapsed \cup {AccessOf(tokens[i])}
    /\ UNCHANGED <<db, flows, born, control, issued, live, history>>

\* Nobody uses account i for so long that its token is in the next class.
Idle(i) ==
    /\ i \in DOMAIN tokens
    /\ tokens[i].used < IdleCap
    /\ tokens' = [tokens EXCEPT ![i].used = @ + 1]
    /\ UNCHANGED <<accounts, flows, born, control, idp, history>>

\* The user of mailbox e withdraws the consent.
RevokeConsent(e) ==
    LET revoked == {t \in live : t.owner = e}
    IN  /\ "revoke" \in Outside
        /\ revoked # {}
        /\ live' = live \ revoked
        /\ excused' = excused \cup revoked
        /\ UNCHANGED <<db, flows, born, control, issued, lapsed, unfinished>>

----------------------------------------------------------------------------
(* The specification *)

\* A step of worker w that does not wait for a lock.
Proceed(w) ==
    \/ Bump(w) \/ IdpRefresh(w) \/ Store(w) \/ Refused(w) \/ BatchNext(w)
    \/ \E e \in Emails : Exchange(w, e)
    \/ Lookup(w) \/ Check(w) \/ Create(w) \/ Upsert(w)
    \/ Drop(w) \/ Mark(w) \/ Delete(w)

Start(w) ==
    \/ \E i \in Ids : \/ StartUse(w, i) \/ StartRetry(w, i)
                      \/ StartDisconnect(w, i) \/ StartRemove(w, i)
    \/ \E op \in Batches : StartBatch(w, op)
    \/ \E s \in States : Callback(w, s)

World ==
    \/ \E s \in States, t \in Tenants : BeginFlow(s, t)
    \/ \E i \in Ids : Lapse(i) \/ Idle(i)
    \/ \E e \in Emails : RevokeConsent(e)
    \/ \E p \in Procs : Crash(p)

Next ==
    \/ \E w \in Workers : Start(w) \/ Proceed(w) \/ Acquire(w) \/ Interrupted(w)
    \/ World

Spec == Init /\ [][Next]_vars

\* The executor keeps polling what is ready, every statement and every request to
\* the provider ends, and tokio's mutex serves its waiters in turn.
Fairness == \A w \in Workers : WF_vars(Proceed(w)) /\ SF_vars(Acquire(w))

FairSpec == Spec /\ Fairness

----------------------------------------------------------------------------
(* Properties *)

\* A worker at a step has what the step works on.
Equipped(w) ==
    /\ pc[w] \notin {"idle", "batch", "exchange", "lookup"} => job[w].id \in Ids
    /\ pc[w] \in {"exchange", "lookup", "check", "create"} => job[w].tenant \in Tenants
    /\ pc[w] \in {"lookup", "check", "create"} => job[w].email \in Emails
    /\ pc[w] \in {"bump", "refresh", "store", "lookup", "check", "create", "upsert"}
          => hand[w] \in TokenRow

TablesOK ==
    /\ IsTable(accounts, Ids, AccountRow)
    /\ IsTable(tokens, Ids, TokenRow)
    /\ IsTable(pending, States, Tenants)
    /\ minted \subseteq States
    /\ born \subseteq Ids

ControlOK ==
    /\ lock \in [Procs -> [Ids -> Workers \cup {None}]]
    /\ pc \in [Workers -> Steps]
    /\ job \in [Workers -> Job]
    /\ hand \in [Workers -> TokenRow \cup {None}]
    /\ \A w \in Workers : Equipped(w)

ProviderOK ==
    /\ issued \in [Emails -> Nat]
    /\ live \subseteq Token
    /\ lapsed \subseteq Token
    /\ excused \subseteq Token
    /\ unfinished \subseteq Ids

\* Every variable has its type, and each step finds the account, the consent and
\* the token record it works on: token.rs never unwraps a value that is missing.
TypeOK == TablesOK /\ ControlOK /\ ProviderOK

\* The steps of refresh_account that run under the account's mutex.
Refreshing(w, i) == pc[w] \in {"refresh", "store"} /\ job[w].id = i

\* token.rs:54 and 168: within a process, no two callers refresh one account at
\* the same time.
RefreshSerialised ==
    \A v, w \in Workers, i \in Ids :
        ProcOf[v] = ProcOf[w] /\ Refreshing(v, i) /\ Refreshing(w, i) => v = w

\* No exit from refresh_account leaks its guard (token.rs:170): a locked account is
\* being refreshed by the holder, so a waiter never waits for a call that is over.
NoLeakedLock ==
    \A p \in Procs, i \in Ids :
        lock[p][i] # None => ProcOf[lock[p][i]] = p /\ Refreshing(lock[p][i], i)

\* README.md:258-262: only a revoked consent forces a reconnection.  The refresh
\* token in the table is honoured by the provider, unless a refresh is about to
\* replace it or it was lost through no step of the code.
StoredTokenHonoured ==
    \A i \in DOMAIN tokens :
        \/ RefreshOf(tokens[i]) \in live \cup excused
        \/ \E w \in Workers : pc[w] = "store" /\ job[w].id = i

\* The token of an account is a token of the account's mailbox, whatever consents,
\* refreshes and removals overlap: no tenant reads another mailbox through it.
TokenBelongsToAccount ==
    \A i \in DOMAIN tokens \cap DOMAIN accounts : tokens[i].owner = Lower[accounts[i].email]

\* token.rs:116-142: the account a consent resolved is still that of its mailbox and
\* its tenant when the token set is written, though rows come and go in between and
\* an id that was removed may be created again.
ConsentKeepsItsMailbox ==
    \A w \in Workers :
        pc[w] \in {"check", "create", "upsert"} /\ job[w].id \in DOMAIN accounts =>
            IsMailbox(job[w].id, job[w].tenant, job[w].email)

\* token.rs:139-142 and 236-238: overlapping consents, disconnections and removals
\* never leave an active account without a token.  Only a failure between the two
\* statements of one of them does, and the next one that gets through repairs it.
ActiveHasToken ==
    \A i \in DOMAIN accounts \ DOMAIN tokens :
        \/ accounts[i].status = "disconnected"
        \/ i \in unfinished
        \/ \E w \in Workers : pc[w] \in {"upsert", "mark"} /\ job[w].id = i

\* cli/mod.rs:40 removes "an account and its stored token": no call in flight over
\* the removal writes the token back.
NoOrphanToken == DOMAIN tokens \subseteq DOMAIN accounts

\* Every call returns: a request that waits for its account's mutex, and a batch, come
\* to their end whatever fails on the way.
EveryCallReturns == \A w \in Workers : pc[w] # "idle" ~> pc[w] = "idle"

\* token.rs:191-192 ("a single bad account never aborts the batch"): whatever becomes
\* of an account of the list, and of the rows behind it, a batch leaves no account
\* behind that it has not tried, unless its process stops.
BatchTriesAll ==
    [][\A w \in Workers :
          \/ job[w].todo \subseteq job'[w].todo \cup {job'[w].id}
          \/ Crash(ProcOf[w])]_vars

\* token.rs:110 and 138 ("update identity + status", "Insert-or-update the
\* account"): a consent that succeeds leaves its account active.
ReconsentReactivates ==
    [][\A w \in Workers :
          pc[w] = "upsert" /\ tokens' # tokens /\ job'[w] = NoJob =>
              accounts'[job[w].id].status = "active"]_vars

\* README.md:263-264: a disconnected account has no token.
DisconnectedHasNoToken ==
    \A i \in DOMAIN tokens \cap DOMAIN accounts : accounts[i].status # "disconnected"

\* token.rs:27 and 242: the activity bump of a cache hit touches last_used_at.
BumpOnlyTouchesUsage ==
    [][\A w \in Workers :
          pc[w] = "bump" /\ pc'[w] = "idle" /\ tokens' # tokens =>
              /\ DOMAIN tokens' = DOMAIN tokens
              /\ \A i \in DOMAIN tokens :
                    tokens'[i] = [tokens[i] EXCEPT !.used = tokens'[i].used]]_vars

\* token.rs:168: callers that find one token expired do not each refresh it.
NoThunderingHerd ==
    [][\A w \in Workers :
          job[w].op = "use" /\ pc[w] = "lock" /\ pc'[w] = "refresh" =>
              AccessOf(hand'[w]) \in lapsed]_vars
=============================================================================
