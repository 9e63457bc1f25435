------------------------------- MODULE Requests -------------------------------
(***************************************************************************)
(* Requests at the three doors of UniMail, from the key to the answer: the *)
(* REST API (src/api), the MCP tools (src/mcp) and the commands that list  *)
(* and remove accounts (src/cli), over the tables accounts and tokens; and *)
(* send_authorized (src/provider/graph.rs), which repeats a request to     *)
(* Graph once if Graph answers 401.                                        *)
(*                                                                         *)
(* pc names the next await or SQL statement of a request.  Requests share  *)
(* the tables with each other and with the consents below.                 *)
(* The refresh mutex is left out: it reaches one process only, and here    *)
(* the doors may be three; TokenManager has it.                            *)
(*                                                                         *)
(* Graph and the network are external.  A request on the wire is carried   *)
(* out, refused or lost, whether or not its sender still waits; a 401 says *)
(* that it was not carried out, any other failure says nothing.  The clock *)
(* is external too: whenever a token is read, it may prove to be close to  *)
(* its expiry, or unused for USAGE_WRITE_INTERVAL.                         *)
(***************************************************************************)
EXTENDS Tenancy

CONSTANTS Requests,  \* requests, one call each
          Calls,     \* what they may ask for
          KeyLists,  \* what API_KEYS may be
          Ids,       \* account ids
          Owner,     \* id |-> [tenant, address] of the consent that draws it
          Seeded,    \* ids of the accounts connected beforehand
          MaxIssue   \* id |-> bound on the access tokens issued for it

Doors == {"rest", "mcp", "cli"}
Operations == {"mail", "list", "disconnect", "remove"}
Replies == {"success", "unauthorized", "failure"}

\* Ok, and the kinds of AppError these operations end with: the others belong to consents,
\* to a wrong configuration, and to the start of a server.  Denied is the middleware's
\* refusal, Gone that nobody is there to be answered.
Kinds == {"Ok", "Denied", "NotFound", "TokenExpired", "Provider", "Storage", "Gone"}

\* names is the id, or at the MCP server and on the command line the address.
Call == [door : Doors, op : Operations, bearer : Keys \cup {None},
         xkey : Keys \cup {None}, tenant : Tenants \cup {None},
         names : Ids \cup Addresses \cup {None}]

\* What has at most one row with an address: UNIQUE (tenant_id, email_address).
Distinct(ids) == \A i, j \in ids : Owner[i] = Owner[j] => i = j

ASSUME RequestsConstants ==
    /\ Calls \subseteq Call
    /\ KeyLists \subseteq Seq(KeyEntry)
    /\ Owner \in [Ids -> [tenant : Tenants, address : Addresses]]
    /\ Seeded \subseteq Ids /\ Distinct(Seeded)
    /\ None \notin Ids \cup Replies \cup Kinds
    /\ MaxIssue \in [Ids -> Nat]

VARIABLES entries,   \* API_KEYS
          accounts,  \* table accounts: id |-> [tenant, address, status]
          tokens,    \* table tokens: id |-> its access token, a number
          issued,    \* provider: id |-> access tokens issued for it
          call,      \* request |-> what it asks for
          pc,        \* request |-> its next step
          job,       \* request |-> the locals of its handler
          shown,     \* request |-> the accounts it was answered with
          answer,    \* request |-> its outcome: Ok, or the kind of its error
          reply,     \* request |-> Graph's answer, not yet received
          wire,      \* requests on their way to Graph
          served,    \* request |-> how often Graph carried it out
          revived    \* tokens that a write-back put in the place of others (history)

tables == <<accounts, tokens>>
progress == <<pc, job, answer>>
graph == <<wire, reply, served>>
vars == <<entries, tables, issued, call, progress, shown, graph, revived>>

AccountRow == [tenant : Tenants, address : Addresses, status : {"active", "disconnected"}]
Steps == {"idle", "get", "get_by_email", "list", "token", "bump", "refresh", "store",
          "reread", "send", "await", "force", "restore", "drop", "mark", "delete", "done"}
Message == [req : Requests, try : {1, 2}, id : Ids, access : Nat]

\* The account a handler found, the access token in its hand (0 for none), how often
\* it was sent to Graph, and the token that Graph refused (history).
Job == [account : Ids \cup {None}, hand : Nat, tries : 0..2, refused : Nat]

NoJob == [account |-> None, hand |-> 0, tries |-> 0, refused |-> 0]

NoCall == [door |-> None, op |-> None, bearer |-> None, xkey |-> None,
           tenant |-> None, names |-> None]

NewRow(i) == [tenant |-> Owner[i].tenant, address |-> Owner[i].address, status |-> "active"]

Init ==
    /\ entries \in KeyLists
    /\ accounts = [i \in Seeded |-> NewRow(i)]
    /\ tokens = [i \in Seeded |-> 1]
    /\ issued = [i \in Ids |-> IF i \in Seeded THEN 1 ELSE 0]
    /\ call = [r \in Requests |-> NoCall]
    /\ pc = [r \in Requests |-> "idle"]
    /\ job = [r \in Requests |-> NoJob]
    /\ shown = [r \in Requests |-> {}]
    /\ answer = [r \in Requests |-> None]
    /\ reply = [r \in Requests |-> None]
    /\ wire = {}
    /\ served = [r \in Requests |-> 0]
    /\ revived = {}

----------------------------------------------------------------------------
(* A request comes in and finds its account *)

Goto(r, step) == pc' = [pc EXCEPT ![r] = step]

\* The handler goes on to step with locals j.
Continue(r, step, j) ==
    /\ Goto(r, step)
    /\ job' = [job EXCEPT ![r] = j]
    /\ UNCHANGED answer

\* The handler returns, and its locals are gone.
Return(r, kind) ==
    /\ Goto(r, "done")
    /\ job' = [job EXCEPT ![r] = NoJob]
    /\ answer' = [answer EXCEPT ![r] = kind]

Account(r) == job[r].account
Holding(r, n) == [job[r] EXCEPT !.hand = n]

\* The tenant that the middleware attaches to the request, or the door's default.
Tenant(c) == TenantOf(c, ParseApiKeys(entries))

\* The router and api_key_middleware; the other two doors let everyone in.
Arrive(r, c) ==
    /\ pc[r] = "idle"
    /\ call' = [call EXCEPT ![r] = c]
    /\ IF Tenant(c) = None THEN Return(r, "Denied")
       ELSE Continue(r, IF c.op = "list" THEN "list" ELSE "get", NoJob)
    /\ UNCHANGED <<entries, tables, issued, shown, graph, revived>>

\* What a handler does with the account it found.
Begin(op) ==
    CASE op = "mail" -> "token" [] op = "disconnect" -> "drop" [] OTHER -> "delete"

\* One of the rows ids is the request's account; there may be none.
Found(r, ids) ==
    \E i \in ids : Continue(r, Begin(call[r].op), [job[r] EXCEPT !.account = i])

\* accounts.get(tenant, id); at the other doors the address is tried after any error.
Get(r) ==
    LET ids == ById(accounts, Tenant(call[r]), call[r].names)
    IN  /\ pc[r] = "get"
        /\ \/ Found(r, ids)
           \/ ids = {} /\ call[r].door = "rest" /\ Return(r, "NotFound")
           \/ ids = {} /\ call[r].door # "rest" /\ Continue(r, "get_by_email", job[r])
        /\ UNCHANGED <<entries, tables, issued, call, shown, graph, revived>>

GetByEmail(r) ==
    LET ids == ByAddress(accounts, Tenant(call[r]), call[r].names)
    IN  /\ pc[r] = "get_by_email"
        /\ Found(r, ids) \/ (ids = {} /\ Return(r, "NotFound"))
        /\ UNCHANGED <<entries, tables, issued, call, shown, graph, revived>>

\* list_accounts at each door.
List(r) ==
    /\ pc[r] = "list"
    /\ shown' = [shown EXCEPT ![r] = Listed(accounts, Tenant(call[r]))]
    /\ Return(r, "Ok")
    /\ UNCHANGED <<entries, tables, issued, call, graph, revived>>

----------------------------------------------------------------------------
(* get_access_token and refresh_account, as one caller goes through them *)

Token(i, n) == [id |-> i, access |-> n]

\* get_access_token reads the token, which is good, good but long unused, or close to
\* its expiry; or there is none.
GetToken(r) ==
    LET i == Account(r)
    IN  /\ pc[r] = "token"
        /\ \/ /\ i \in DOMAIN tokens
              /\ \E step \in {"bump", "send"} : Continue(r, step, Holding(r, tokens[i]))
           \/ Continue(r, "refresh", job[r])
        /\ UNCHANGED <<entries, tables, issued, call, shown, graph, revived>>

\* tokens.upsert: the foreign key refuses a token without an account.
Upserted(i, n) == IF i \in DOMAIN accounts THEN Put(tokens, i, n) ELSE tokens

\* bump_last_used writes back the record it was given; its errors are ignored.
Bump(r) ==
    LET i == Account(r)
        n == job[r].hand
    IN  /\ pc[r] = "bump"
        /\ tokens' \in {tokens, Upserted(i, n)}
        /\ revived' = IF tokens' = tokens THEN revived ELSE revived \cup {Token(i, n)}
        /\ Continue(r, "send", job[r])
        /\ UNCHANGED <<entries, accounts, issued, call, shown, graph>>

\* refresh_account up to the provider's answer; "force" is the refresh after a 401.
Refresh(r) ==
    LET i == Account(r)
        n == issued[i] + 1
    IN  /\ pc[r] \in {"refresh", "force"}
        /\ \/ /\ i \in DOMAIN tokens
              /\ n <= MaxIssue[i]
              /\ issued' = [issued EXCEPT ![i] = n]
              /\ Continue(r, IF pc[r] = "force" THEN "restore" ELSE "store", Holding(r, n))
           \/ Return(r, "TokenExpired") /\ UNCHANGED issued
        /\ UNCHANGED <<entries, tables, call, shown, graph, revived>>

\* refresh_account stores the new set.  Within get_access_token the table is read
\* once more; after a 401, get_access_token begins.
Store(r) ==
    LET i == Account(r)
    IN  /\ pc[r] \in {"store", "restore"}
        /\ tokens' = Upserted(i, job[r].hand)
        /\ IF i \in DOMAIN accounts
           THEN Continue(r, IF pc[r] = "restore" THEN "token" ELSE "reread", job[r])
           ELSE Return(r, "Storage")
        /\ UNCHANGED <<entries, accounts, issued, call, shown, graph, revived>>

\* Defect: an absent token is taken for an empty one.
RereadLoosely(r) ==
    LET i == Account(r)
    IN  /\ pc[r] = "reread"
        /\ Continue(r, "send", Holding(r, IF i \in DOMAIN tokens THEN tokens[i] ELSE 0))
        /\ UNCHANGED <<entries, tables, issued, call, shown, graph, revived>>

\* get_access_token's second read: a token that is gone by now is an error.
Reread(r) ==
    LET i == Account(r)
    IN  /\ pc[r] = "reread"
        /\ IF i \in DOMAIN tokens THEN Continue(r, "send", Holding(r, tokens[i]))
           ELSE Return(r, "TokenExpired")
        /\ UNCHANGED <<entries, tables, issued, call, shown, graph, revived>>

----------------------------------------------------------------------------
(* send_authorized *)

\* send: the request goes out with the token in hand.
Send(r) ==
    LET t == job[r].tries + 1
    IN  /\ pc[r] = "send"
        /\ wire' = wire \cup {[req |-> r, try |-> t, id |-> Account(r), access |-> job[r].hand]}
        /\ Continue(r, "await", [job[r] EXCEPT !.tries = t])
        /\ UNCHANGED <<entries, tables, issued, call, shown, reply, served, revived>>

\* Defect: every failure is tried again.
RetriesAfterAny(s, t) == s # "success" /\ t = 1

\* Only a 401 is worth a second try, and only once.
RetriesAfter(s, t) == s = "unauthorized" /\ t = 1

\* Defect: a 401 leads to another get_access_token, without a forced refresh.
RetryStepUnforced == "token"

\* What the second try begins with: a forced refresh.
RetryStep == "force"

\* Graph's answer arrives; to_json and send_message make most of them an error.
Receive(r) ==
    LET s == reply[r]
    IN  /\ pc[r] = "await" /\ s # None
        /\ reply' = [reply EXCEPT ![r] = None]
        /\ IF RetriesAfter(s, job[r].tries)
           THEN Continue(r, RetryStep, [job[r] EXCEPT !.refused = job[r].hand])
           ELSE (s = "success" /\ Return(r, "Ok")) \/ Return(r, "Provider")
        /\ UNCHANGED <<entries, tables, issued, call, shown, wire, served, revived>>

\* Graph takes a request off the wire and answers whoever still waits.
GraphHandles(m) ==
    /\ m \in wire
    /\ wire' = wire \ {m}
    /\ \E s \in Replies, n \in {0, 1} :
           /\ s = "success" => n = 1
           /\ s = "unauthorized" => n = 0
           /\ served' = [served EXCEPT ![m.req] = @ + n]
           /\ reply' = [reply EXCEPT ![m.req] =
                            IF pc[m.req] = "await" /\ job[m.req].tries = m.try THEN s ELSE @]
    /\ UNCHANGED <<entries, tables, issued, call, progress, shown, revived>>

----------------------------------------------------------------------------
(* disconnect_account (REST) and remove-account (CLI) *)

Drop(r) ==
    /\ pc[r] = "drop"
    /\ tokens' = Without(tokens, {Account(r)})
    /\ Continue(r, "mark", job[r])
    /\ UNCHANGED <<entries, accounts, issued, call, shown, graph, revived>>

\* set_status finds the row by tenant and id.
Mark(r) ==
    LET ids == ById(accounts, Tenant(call[r]), Account(r))
    IN  /\ pc[r] = "mark"
        /\ accounts' = [i \in DOMAIN accounts |->
                           IF i \in ids THEN [accounts[i] EXCEPT !.status = "disconnected"]
                           ELSE accounts[i]]
        /\ Return(r, IF ids = {} THEN "NotFound" ELSE "Ok")
        /\ UNCHANGED <<entries, tokens, issued, call, shown, graph, revived>>

\* accounts.delete, with its cascade; that nothing was deleted is not an error.
Delete(r) ==
    LET ids == ById(accounts, Tenant(call[r]), Account(r))
    IN  /\ pc[r] = "delete"
        /\ accounts' = Without(accounts, ids)
        /\ tokens' = Without(tokens, ids)
        /\ Return(r, "Ok")
        /\ UNCHANGED <<entries, issued, call, shown, graph, revived>>

----------------------------------------------------------------------------
(* Failures, and the world outside *)

\* A SQL statement fails; resolve_account goes on after any error of its first.
Fails(r) ==
    /\ pc[r] \in {"get", "get_by_email", "list", "token", "refresh", "force", "store",
                  "restore", "reread", "drop", "mark", "delete"}
    /\ IF pc[r] = "get" /\ call[r].door # "rest" THEN Continue(r, "get_by_email", job[r])
       ELSE Return(r, "Storage")
    /\ UNCHANGED <<entries, tables, issued, call, shown, graph, revived>>

\* A request ends early, and drops its connections: the one to Graph fails, or its
\* own client goes away.
Abort(r) ==
    /\ \/ pc[r] = "await" /\ Return(r, "Provider")
       \/ pc[r] \notin {"idle", "done"} /\ Return(r, "Gone")
    /\ reply' = [reply EXCEPT ![r] = None]
    /\ UNCHANGED <<entries, tables, issued, call, shown, wire, served, revived>>

\* A consent draws id i, or renews the token of account i; the token may fail to be
\* stored.  Two consents that race leave rows whose addresses differ in case only.
Consent(i) ==
    LET n == issued[i] + 1
    IN  /\ n <= MaxIssue[i]
        /\ \/ i \in DOMAIN accounts /\ UNCHANGED accounts
           \/ /\ issued[i] = 0
              /\ Distinct(DOMAIN accounts \cup {i})
              /\ accounts' = Put(accounts, i, NewRow(i))
        /\ issued' = [issued EXCEPT ![i] = n]
        /\ tokens' \in {tokens, Put(tokens, i, n)}
        /\ UNCHANGED <<entries, call, progress, shown, graph, revived>>

----------------------------------------------------------------------------
(* The specification *)

Proceed(r) ==
    \/ Get(r) \/ GetByEmail(r) \/ List(r)
    \/ GetToken(r) \/ Bump(r) \/ Refresh(r) \/ Store(r) \/ Reread(r)
    \/ Send(r) \/ Receive(r)
    \/ Drop(r) \/ Mark(r) \/ Delete(r)

Next ==
    \/ \E r \in Requests :
           \/ \E c \in Calls : Arrive(r, c)
           \/ Proceed(r) \/ Fails(r) \/ Abort(r)
    \/ \E m \in wire : GraphHandles(m)
    \/ \E i \in Ids : Consent(i)

Spec == Init /\ [][Next]_vars

----------------------------------------------------------------------------
(* Properties *)

\* A request at a step has what the step works on.
Equipped(r) ==
    /\ pc[r] # "idle" => call[r] \in Calls
    /\ pc[r] \notin {"idle", "get", "get_by_email", "list", "done"} => Account(r) \in Ids
    /\ pc[r] \in {"bump", "send", "await", "force", "store", "restore"} => job[r].hand > 0
    /\ pc[r] # "await" => job[r].tries < 2

TablesOK ==
    /\ entries \in KeyLists
    /\ IsTable(accounts, Ids, AccountRow)
    /\ IsTable(tokens, Ids, Nat \ {0})
    /\ issued \in [Ids -> Nat]
    /\ revived \subseteq [id : Ids, access : Nat]

ControlOK ==
    /\ call \in [Requests -> Calls \cup {NoCall}]
    /\ pc \in [Requests -> Steps]
    /\ job \in [Requests -> Job]
    /\ shown \in [Requests -> SUBSET Ids]
    /\ answer \in [Requests -> Kinds \cup {None}]
    /\ \A r \in Requests : Equipped(r)

GraphOK ==
    /\ reply \in [Requests -> Replies \cup {None}]
    /\ wire \subseteq Message
    /\ served \in [Requests -> Nat]

\* Every variable has its type, a request is sent with a token, never with an empty
\* string for one that is gone (token.rs:160-163), and at most twice.
TypeOK == TablesOK /\ ControlOK /\ GraphOK

\* The tenants that call c may act for, as README.md:229-240 has it.
Entitled(c) ==
    CASE c.door = "rest" ->
             IF entries = <<>> THEN {Default}
             ELSE {IF entries[n].tenant = None THEN Default ELSE entries[n].tenant :
                      n \in {m \in DOMAIN entries : entries[m].key \in {c.bearer, c.xkey}}}
      [] c.door = "mcp" -> {Default}
      [] c.door = "cli" -> {IF c.tenant = None THEN Default ELSE c.tenant}

\* The caller's x names account i: its id, or its address in some spelling.
Names(x, i) ==
    x = i \/ (x \in Addresses /\ Lower[x] = Lower[Owner[i].address])

\* auth.rs:5-6, README.md:32: whatever consents, removals and other requests happen
\* between its steps, a request shows, uses, disconnects and removes no account but
\* one of its own tenant that its caller named; also when two rows answer to one
\* address, and when two tenants have connected one mailbox.
ReachesOwnAccount ==
    /\ \A r \in Requests, i \in Ids :
          \/ Account(r) = i
          \/ \E m \in wire : m.req = r /\ m.id = i
          => Owner[i].tenant \in Entitled(call[r]) /\ Names(call[r].names, i)
    /\ \A r \in Requests : \A i \in shown[r] : Owner[i].tenant \in Entitled(call[r])

\* graph.rs:43-44: the second try carries a token that Graph has not refused to this
\* request, although others refresh, disconnect and reconnect the account meanwhile;
\* but for a write-back that has put an old token into the table.
RetryIsFresh ==
    \A r \in Requests :
        pc[r] \in {"send", "await"} /\ job[r].hand = job[r].refused =>
            Token(Account(r), job[r].hand) \in revived

\* Defect: a failure of Graph is an internal error.
StatusForAllInternal(kind) ==
    CASE kind = "Ok" -> 200
      [] kind \in {"Denied", "TokenExpired"} -> 401
      [] kind = "NotFound" -> 404
      [] kind \in {"Provider", "Storage"} -> 500
      [] OTHER -> 0

\* status_for, where 200 stands for the 202 and 204 of the routes, too; a client that
\* has gone away sees nothing.
StatusFor(kind) ==
    CASE kind = "Ok" -> 200
      [] kind \in {"Denied", "TokenExpired"} -> 401
      [] kind = "NotFound" -> 404
      [] kind = "Provider" -> 502
      [] kind = "Storage" -> 500
      [] OTHER -> 0

\* What the client of a request for mail may conclude from its status.
Verdict(r) ==
    IF call[r].op # "mail" \/ answer[r] = None THEN "none"
    ELSE CASE StatusFor(answer[r]) = 200 -> "done"
           [] StatusFor(answer[r]) \in {401, 404, 500} -> "rejected"
           [] OTHER -> "unknown"

Promised == INSTANCE Outbox WITH verdict <- [r \in Requests |-> Verdict(r)]

\* graph.rs:43-62 and routes.rs:117-129: retries, lost answers and late deliveries
\* included, a mail is sent at most once; 200 says it was, 401, 404 and 500 that it
\* was not and will not be, so that its client may repeat it.
ImplementsOutbox == Promised!Spec
=============================================================================
