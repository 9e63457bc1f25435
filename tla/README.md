# UniMail: TLA+ models and proofs

UniMail is a service that connects personal Microsoft accounts by OAuth and
serves their mail over a REST API, an MCP server and a command line. This
directory holds TLA+ modules of the part of it that keeps state and runs
concurrently: the registry of pending consents, the life cycle of tokens, the
SQLite tables under them, the callback server, the unified inbox, and requests on
their way from an API key to an account, to Graph and back; the TLC configurations
that check them on small instances; and proofs of the main invariants for
instances of every size.

Line numbers refer to `src/` (the repository), so `token.rs:139` is
`src/src/auth/token.rs`, line 139.

## 1. Inventory

| component | state it keeps | operations | who calls it |
|---|---|---|---|
| flow store (`storage/flows.rs`) | table `oauth_flows` | `insert` (with purge), `take` | token manager |
| token manager (`auth/token.rs`) | per-account refresh mutexes, in memory | `begin_flow`, `complete_flow`, `get_access_token`, `refresh_account`, `refresh_all`, `refresh_stale`, `disconnect` | API, MCP, CLI, callback server, background loop, Graph provider |
| account store (`storage/accounts.rs`) | table `accounts` | `create`, `get`, `get_by_email`, `list`, `list_all`, `set_status`, `delete`, `touch` (no caller) | all of the above |
| token store (`storage/tokens.rs`) | table `tokens`, encrypted | `get`, `upsert`, `delete`, `list_inactive` | token manager |
| database (`storage/db.rs`) | one connection behind a mutex; the schema | `open`, `lock`, migrations | the stores |
| encryption (`storage/crypto.rs`) | none | `encrypt`, `decrypt` | flow and token store |
| OAuth client (`auth/oauth.rs`) | none | `authorize_url`, `exchange_code`, `refresh` | token manager |
| callback server (`auth/callback.rs`) | result slot and shutdown channel of `add-account` | `handle_callback`, `serve_callback_once` | the browser; CLI |
| Graph provider (`provider/graph.rs`) | none | `send_authorized` (one retry after a 401), list, get, send, `/me` | API, MCP, token manager |
| unified inbox (`provider/mod.rs`) | none | concurrent fetch, merge, sort, truncate | API, MCP |
| REST API (`api/`) | key to tenant map | routes, key middleware | HTTP clients |
| MCP server (`mcp/mod.rs`) | none | tools over the default tenant | an MCP client on stdio |
| command line (`cli/mod.rs`) | none | `add-account`, `list-accounts`, `remove-account`, `refresh-all`, `serve`, `mcp`; the background refresh loop | the operator |

How they interact: handlers run concurrently on tokio's executor and meet in
three places: the SQLite database (shared also by other processes: a CLI command
or an MCP server beside a running `serve`), the in-memory refresh mutexes of a
process, and the identity provider, which remembers which refresh tokens it has
replaced.

What is hard here, and what the properties are for (`PROJECT.json`, `hazards`,
has every one with its line):

- state is read, the provider is awaited, and the state is written back, while
  other calls disconnect, remove, refresh or re-consent the account;
- the refresh mutex covers `refresh_account` and nothing else: `complete_flow`,
  `bump_last_used`, `disconnect` and other processes write without it;
- a refresh can end in many ways (stored, refused, statement failed, caller
  gone, process gone), at each of which the mutex and the only copy of a new
  refresh token are at stake;
- statements run one by one: `create` and `upsert`, `delete` and `set_status`
  are not transactions, and two of the flow store's statements ignore errors;
- the flow store reads the clock before it waits for the connection;
- the callback server of `add-account` shares one result slot and one shutdown
  signal among handlers that overlap, and the process ends when it has drained;
- the unified inbox merges one page of each account, answered in any order, with
  accounts that fail and messages without a date;
- `send_authorized` sends a request a second time, between two refreshes of a table
  that others write; an answer of Graph may be lost or come late, and what was sent
  may then be sent again by the client;
- an account is named by its id or its address, in any letters, under the tenant of
  a key in one of two headers, of an option, or of the configuration.

What makes each component correct:

- flow store: a state is honoured once, in time, for its tenant, and a valid
  flow is lost to nothing but its own callback;
- token manager: the token of an account opens that account's mailbox, the
  stored refresh token is one the provider honours, one refresh at a time, locks
  are released, calls end;
- tables: a token only with its account, an active account only with its token,
  and whatever is written for an account belongs to its mailbox;
- callback server: `add-account` returns, with an outcome, which is true, and the
  one that a request was answered with;
- unified inbox: the newest messages of all the accounts that answered, in an
  order that does not depend on who answered first;
- REST API, MCP server, command line: no request reaches an account of another
  tenant, or one that it did not name;
- Graph provider: a mail is sent at most once, its client learns what it may rely
  on, and a second try has a token that was not refused before.

## 2. Modules

| module | models | lines |
|---|---|---|
| `Tables` | an SQLite table as a partial function; upsert and delete | `db.rs`, `tokens.rs` |
| `PendingFlows` | abstract: what the registry of flows promises, without clock, storage or process | |
| `FlowStore` | the table `oauth_flows` and `begin_flow` in detail; implements `PendingFlows` | `flows.rs` |
| `TokenManager` | calls, locks, tables `accounts` and `tokens`, and the provider; uses `PendingFlows` for the flows | `token.rs`, `accounts.rs`, `tokens.rs`, and the entry points in `api`, `cli`, `graph.rs` |
| `CallbackServer` | `add-account`, the server for its redirect, and the handlers; uses `PendingFlows` | `callback.rs`, `cli/mod.rs` |
| `UnifiedInbox` | the fetches and the merge | `provider/mod.rs`, `graph.rs`, `routes.rs` |
| `Tenancy` | pure: API keys, the tenant of a request, the lookups of an account | `config.rs`, `api/auth.rs`, `accounts.rs` |
| `Outbox` | abstract: what a client may conclude from the answer to a request for mail | |
| `Requests` | requests at the three doors, the tables, `send_authorized` and the network; uses `Tenancy`, implements `Outbox` | `api`, `mcp/mod.rs`, `cli/mod.rs`, `graph.rs`, `token.rs` |
| `MCTokenManager`, `MCRequests` | casts of callers, and calls, for TLC; the other modules are run as they are | |
| `FlowStoreProofs`, `TokenManagerProofs`, `TokenOwnerProofs`, `TokenHonouredProofs`, `CallbackServerProofs`, `UnifiedInboxProofs`, `RequestsProofs`, `RetryProofs` | theorems | |

`TokenManager` and `CallbackServer` compose with the flow store through the
abstraction: they take `Begin` and `Take` from `PendingFlows`, and `FlowStore` is
shown to implement that module, by TLC and by proof. So neither carries a clock.

### FlowStore

| in the code | in the module |
|---|---|
| `authorize_url` draws a CSRF state | `Mint` |
| `insert` up to `unix_now()` (57) | `StartInsert`: a draft with the time it read |
| `insert` under the mutex (61-71), and `begin_flow`'s return | `FinishInsert`; `PurgeOutcomes` and `InsertOutcomes` include the ignored errors when `StorageFails` |
| `take`: SELECT and DELETE | `Consume`, atomic under the connection mutex |
| `take` returns a flow, or `Expired` or a decryption error | `TakeHonoured`, `TakeRejected` |
| process restart, with the same or another `ENCRYPTION_KEY` | `Restart` |

A failing SELECT or DELETE of `take` changes nothing, so it takes no step.

### TokenManager

A *worker* is one caller: a request handler, the background loop, a CLI command.
`pc[w]` is the next await or SQL statement of its call; between two of them
everything else may happen. `Duty` says which operations a worker performs.

| in the code | in the module |
|---|---|
| `get_access_token` (148-157) | `StartUse`: fresh and recently used (no step), fresh and idle (`bump`), else `lock` |
| `bump_last_used` (243-256) | `Bump` |
| `refresh_account` (168-174) | `Acquire`: mutex, then the current row or the error |
| `oauth.refresh` (175) | `IdpRefresh`, or `Refused` |
| `refresh_account` (178-188) | `NextRefresh`, `Store` |
| the guard's drop at any exit | `Return`, `Crash` (`Unlocked`) |
| `refresh_all`, `refresh_stale` | `StartBatch` (the list, once), `BatchNext` |
| `begin_flow` | `BeginFlow` |
| `complete_flow` | `Callback` (90), `Exchange` (96-103), `Lookup` (105-127), `Check` (139), `Create` (140), `Upsert` (142) |
| `disconnect` | `StartDisconnect`, `Drop`, `Mark` |
| `remove-account` | `StartRemove`, `Delete` with its cascade |
| `send_authorized` after a 401 | `StartRetry` |
| a handler's future is dropped; a statement fails | `Interrupted` |
| a process stops | `Crash` |

The provider is external: `issued` counts the tokens of a mailbox, `live` holds
the refresh tokens it honours. An answer keeps the refresh token, adds one, or
replaces it (`Rotation`), and may come without an expiry. `Lapse` lets an access
token come within `EXPIRY_SKEW`; `Idle` moves a row into the next class of
`now - last_used_at`: recent, older than `USAGE_WRITE_INTERVAL`, older than
`TOKEN_INACTIVITY_DAYS`; `RevokeConsent` withdraws a consent.

Abstractions, and why they lose nothing the properties speak of:

- `StartUse` joins the caller's `accounts.get` with `get_access_token`'s
  `tokens.get`: nothing is written between them, and a row that disappears
  between them behaves like one that disappears after both.
- The read at 160 returns a token and changes no state; it is not a step.
- `Exchange` joins `exchange_code` and `/me`: their only common effect is the
  token set in the caller's hand.
- An address is a spelling. `Lower` maps it to the name of its mailbox: the lookup of
  a consent (`Found`) compares names, as `get_by_email` does with `lower()`, UNIQUE
  (`Insertable`) compares spellings, and the provider may report any of them (`mail` or
  else `userPrincipalName`, `graph.rs:203`). So two consents for one mailbox that both
  miss its row, and whose addresses differ in a letter's case, leave two rows for it;
  `consents` has such states. What holds of them is stated by mailbox: each row's
  token, and each consent under way, is of the row's own mailbox.
- `Outside` says what else happens in a run: access tokens lapse, consents are
  withdrawn. Neither matters where only rows are at stake.
- `display_name`, `scope` and timestamps other than `last_used_at` are left out.
- Callbacks are received by the processes of the workers with duty `connect`;
  `take` is atomic, which across processes relies on one of them owning the
  callback address.

### CallbackServer

| in the code | in the module |
|---|---|
| `add_account` (`cli/mod.rs:76-93`) | `AddAccount`, `Bind` |
| consents begun by other processes over the same database | `ConnectElsewhere` |
| a request with a code and a state; any other request on any path | `Redirect`; `Stray` |
| `complete_flow` | `TakeFlow`, then `Connect` or `Refuse` after the provider's answer |
| hyper drops the handler of a closed connection | `Abandon` |
| the slot (101-104), the signal (105-107) | `StoreOutcome`, `Signal` |
| `with_graceful_shutdown`: stop accepting, wait for the handlers | `Shutdown`, `Drained` |
| `result.take()`, or "callback completed without a result" | `Return` |

`complete_flow` is three steps here, for only its flow and its outcome matter;
`TokenManager` has it in detail. An interrupt from the terminal is not modelled.

### UnifiedInbox

`Answer` and `Fail` are one account's `list_messages`, `Merge` is what follows
`join_all`. A message is its account, its place in its mailbox and its date;
Graph's messages always have an id, the one field without which
`graph_message_to_email` would drop them. A mailbox is chosen when its account
answers: mail that arrives during the call makes no difference to the others.
The sort is a rank: an element's place is the number of elements that a stable
sort puts no later. The MCP tool differs in its default (50) and cap (500) only.

### Requests

| in the code | in the module |
|---|---|
| `api_key_middleware` and the router; the MCP server and the commands, which ask for no key | `Arrive`, with `TenantOf`, `ResolveTenant`, `ExtractApiKey`, `ParseApiKeys` |
| `accounts.get`, and at the MCP server and on the command line `get_by_email` after any error of it | `Get`, `GetByEmail`, with `ById`, `ByAddress` |
| `list_accounts` at each door | `List` |
| `get_access_token` | `GetToken`, `Bump`, `Refresh`, `Store`, `Reread` |
| `send_authorized`: the first request, the 401, the forced refresh, `get_access_token` again, the second request | `Send`, `Receive`, then `Refresh` and `Store` at `force` and `restore`, `GetToken`, `Send` |
| `to_json`, `get_json`, `send_message`: what becomes of the answer | `Receive` |
| `disconnect_account` | `Drop`, `Mark` |
| `remove-account` | `Delete` with its cascade |
| a statement fails | `Fails` |
| a client or a process goes away, the connection to Graph breaks | `Abort` |
| `status_for` | `StatusFor` |
| Graph carries a request out, refuses it, fails, or its answer is lost | `GraphHandles` |
| a consent by anyone | `Consent` |

`Kinds` has the errors that these operations end with. The other kinds of `AppError` are
not among them: Config and InvalidRequest (400) come of a URL that the configuration has
wrong, Auth of a consent, InvalidRequest of its insertion, too, Internal and Io of the
start of a server. 200 stands for every success; the code answers 202 to a mail sent and
204 to a disconnection. `Verdict` tells successes, promises that nothing was sent, and
the rest apart, and nothing finer.

The operation `mail` is every request to Graph on behalf of a client: a list, a
search, one message, a mail sent. What is at stake in being carried out twice or
not at all is the sending; the others take the same path. The two consents that
`Consent` lets coexist have addresses that differ in case, which only the UNIQUE
constraint tells apart.

Abstractions:

- The refresh mutex is left out. The two requests may be in two processes, which
  it does not connect (an MCP server beside `serve`); requests of one process
  have fewer interleavings.
- Refresh tokens are left out: whether the provider grants a refresh is up to it.
- The clock is a choice: whenever the table is read, the token found may be good,
  good and long unused, or about to expire.
- An access token is a number that counts the tokens issued for its account.
- A statement of `disconnect_account` may be the last one of its process, which is
  `Abort` between the two.
- A mailbox that Graph reports under another address later is not modelled: an id
  keeps the address of the consent that drew it, as its row does. That an id is
  never the account of another tenant or address, even when it is removed under a
  consent and created again, is `IdsAreForever` of `TokenOwnerProofs`.
- Graph answers 401 before it does anything. That is how it uses the status, and
  what the retry of `send_authorized` relies on.

## 3. Runs

| run | asks | bounds |
|---|---|---|
| `flow_store` | single use, in time, survival, refinement | 3 states, 2 tenants, 2 keys, TTL 1, clock to 3, failing storage |
| `consents` | ownership of mailboxes, by tables and by consents under way; an active account has a token; no token without account | 2 workers that consent, a second process that reads mail, refreshes all, disconnects or removes; 3 ids, 2 mailboxes, one of them in 2 spellings, 2 states |
| `mail` | the stored refresh token is honoured; types | 2 workers, 1 account, 3 tokens, refresh tokens kept or replaced |
| `batch` | serialisation, no leaked lock, a batch tries every account, every call returns | forced refresh and background loop in one process, refreshes and removals in another, 2 accounts, 2 tokens of each, fairness |
| `callback_once` | an outcome at shutdown, a true report that a request was answered with, the command returns | 3 requests, 2 flows |
| `callback_overwritten` (violated) | a connected account is reported | 3 requests, 2 flows |
| `requests` | own accounts only, a fresh token for the second try, mail at most once and truthful answers, types | 2 requests out of 8 calls, open API or 3 key entries, 2 tenants, 3 accounts of which 2 share a mailbox and 2 an address but for its case, 3 tokens of one account |
| `inbox` | newest of all, order | 3 accounts, 3 messages each, dates absent, equal or different, limits 0 to 9 with a cap of 5 |
| `reconsent`, `disconnected`, `bump`, `herd` (violated) | what comments and README say of these cases | 1 or 2 workers, 1 account |

Why the bounds are enough. Hazards here are races of two calls on one account,
plus one process that interferes: two workers and a command give every such
pair, and a third flow state or account id lets a stale one meet a fresh one. A
TTL of one or two ticks and a clock that runs beyond it give an age below, at
and above the TTL. Three tokens of one mailbox are an initial one, the one that
replaces it, and the one that replaces that. Three callbacks are one that connects
the account, one that overlaps it and one that comes too late. Three mailboxes of
three messages hold more than the largest limit, and ties within and between
accounts. In `requests` one request can disturb the other at every step, and
consents both; the first account sees a refresh by each request, or one refresh
and a consent, so that a second try can meet a token that is new, old, gone or
written back. In `batch` one account can be locked, refused, removed or fail
to be stored while the other is still to be tried. All invariants of the passing runs,
`BatchTriesAll` and both refinements are also proved without bounds,
`StoredTokenHonoured` under the conditions named below. `consents` exchanges
states, new ids and the two consenting workers by symmetry: it checks invariants only.
`requests` exchanges its two requests; its refinement is of a safety specification
that does not tell them apart either.

`flow_store` and `consents` switch deadlock checking off:
states and UUIDs are drawn from a finite set, and time ends at `MaxTime`; so do
the runs of `CallbackServer`, `UnifiedInbox` and `Requests`, whose commands and
requests end.
In the other runs of `TokenManager` some worker can always take up a call or
nothing is left to stop: deadlock is checked.

`StoredTokenHonoured` is checked with `IdleCap = 0` and refreshes in one
process, and proved under the same conditions. With idle tokens it is false: the
activity bump writes an old record back (run `bump`). Across processes the refresh
mutex does not reach, and the code promises nothing. Its history variable `excused` records the refresh tokens
that died through no fault of the code: the consent was revoked, or the answer
that would have replaced them was lost with its caller.

`ActiveHasToken` has an exception of the same kind: `unfinished` records the accounts
that a failed statement, a dropped caller or a stopped process left between the two
statements of a consent (`create`, `upsert`) or of a disconnection (`delete`,
`set_status`). The next consent, disconnection or removal that gets through takes the
account off the record: that it repairs the account is part of what is checked. Two
calls that overlap, without a failure, leave no such account.

### What the violated runs show

- `reconsent`: a consent for a disconnected account succeeds, stores a token,
  and leaves `status = disconnected`: token.rs:112 changes a copy, and 139-141
  write only new accounts. `refresh_all` then skips the account.
- `disconnected`: a refresh waits for the provider, the account is disconnected,
  the answer is stored: a disconnected account with a token.
- `bump`: a request reads a fresh idle token; another refreshes it; the first
  writes the old token set back. It takes an access token that is good for longer than
  `USAGE_WRITE_INTERVAL` (6 h), else it expires before its row is idle.
- `herd`: two callers find the token expired; the second refreshes again what
  the first has just refreshed.
- `callback_overwritten`: the redirect's handler stores its account and signals;
  a stray request accepted before the shutdown ends after it and puts its error
  into the slot: `add-account` fails, and the account is connected.

### Fairness

`FairSpec` of `TokenManager` has weak fairness of each worker's own steps: tokio
polls a task that is ready, SQL statements are short and synchronous
(`db.rs:11-13`, `busy_timeout` bounds the wait for other processes), and a
request to the provider ends. The last is an assumption: `build_http_client`
(`api/state.rs:70`) sets no timeout, so it rests on the peer or on TCP.
`Acquire` has strong fairness: `tokio::sync::Mutex` is a FIFO queue, so a waiter
is served although the lock may be taken again and again. No fairness is given
to new calls, crashes, expiry or the user.

`FairSpec` of `CallbackServer` has weak fairness of each handler, of the shutdown
and of the return, on the same grounds; nobody is obliged to send a request.

## 4. Proofs

All theorems hold for any number of workers, processes, accounts, states,
tenants and mailboxes, for every `Duty` and `Rotation`, and any bound on tokens
and time; they assume only `FlowConstants`, `Population` and `Bounds`, which say
what kind of values the constants are, and that accounts connected beforehand
have distinct addresses, whatever their letters (as every seeding in the runs does). The one theorem that
assumes more is `StoredTokensHonoured`, which says so.

- `FlowStoreProofs`. `IInv` adds to `TypeOK`, `SingleUse` and `HonouredInTime`
  the whereabouts of a state: it is in a draft, in the table, or honoured, never
  in two of them, and always minted before. `SingleUse` alone is not inductive:
  one must know that an honoured state is in no row and in no draft. The same
  invariant gives the refinement of `PendingFlows` step by step.
  `ValidFlowSurvives` needs one fact more, `Punctual`: the time that `insert`
  carries into its purge has come, however long it waited for the connection.
- `TokenManagerProofs`. `IInv` is `TypeOK` and `Guarded`: a worker that
  refreshes holds its account's lock in its process (`HoldersRefresh`), and a
  lock that is held is held by a worker of that process that refreshes that
  account (`NoLeakedLock`). Each direction needs the other: when a call returns,
  its lock must be known to be the only one it held. `RefreshSerialised`
  follows since a lock has one holder. Two lemmas carry most actions:
  `ReturnIInv` for the calls that end, and `OutsideGuarded` for steps outside
  `refresh_account`. The same module proves `NoOrphanToken` from the
  foreign key and its cascade.
  `ActiveHasToken` is inductive with `IInv`, but seven actions write what it speaks
  of: `Excepted` is its excuse for one account, `ExceptedButOne` says that a worker's
  step takes the excuse away from no account but its own, and `HalvesKeepActive` that
  for its own account the second statement of a consent or disconnection makes up for
  what the first did; that `Upsert` meets a foreign key is why a consent that finds
  its row removed leaves nothing behind.
  `BatchTriesAll` needs `ListsOfBatches`: only a batch has a list, and an idle worker
  has no call. Then a call that ends is never a batch with a list, however it ends,
  and of the steps of a batch only `BatchNext` shortens the list, by the account it
  goes to.
- `TokenOwnerProofs`. `TokenBelongsToAccount` is far from inductive: calls hold
  ids and token sets across steps in which rows vanish and come back. The
  strengthening is about claims: an account row, a token row, and a call that
  holds a token set for an id each claim a mailbox for that id, and all claims
  on an id agree. Every step repeats a claim or gives one up, except `Lookup`,
  which makes the first claim on a UUID never drawn before. A claim is on the mailbox, not the
  spelling, so that a lookup in any letters repeats the row's claim.
  The same argument about names, that is, the tenant and mailbox of a row and of a
  consent between its lookup and its last write, proves `ConsentKeepsItsMailbox`:
  all names of an id agree, and an id with a name was drawn (`NamesInv`). No step
  gives a name to an id that was drawn already, so `IdsAreForever` follows: once an
  id was a row of one tenant and mailbox, it is never a row of another (`Settled` is
  its invariant). It holds from a state on, so TLC would have to check it as a
  temporal formula, without the symmetry that makes `consents` small; there is
  only the proof. `Requests` builds on it: its `Owner` of an id is a constant.
- `TokenHonouredProofs`. `StoredTokenHonoured`, for `IdleCap = 0` and
  `OneRefresher`: the callers whose duty leads to `refresh_account` share a
  process. The argument is about copies of refresh tokens (`Apart`): each is in
  one row or in one hand, except that who refreshes an account has a copy of the
  account's row. So a token that the provider replaces is in no row but the one
  about to be written. That `Acquire` makes the only copy is where the mutex is
  needed, and where a second process would break it.

- `CallbackServerProofs`. `OutcomeBeforeShutdown` needs `SlotFilled`: a handler
  that is about to signal has filled the slot, and nobody empties it before the
  return. `ReportIsTrue` needs that what handlers carry to the slot is true, and
  `ReportIsAnAnswer` that what is in the slot belongs to a handler that is about to
  answer or has answered it (`SlotIsHeld`), for no handler is dropped between the two,
  and that by the return every handler is over (`HandlersOver`), so it has answered.

- `UnifiedInboxProofs`. The work is in the operators, each of which gets a lemma
  that says what it returns.
  - `FlattenSeq` is a recursive function: that there is one is proved by induction
    over sets of lengths (`UpTo`, from well-foundedness), so that `Concatenation`
    may say that the merge lists the pages' messages, each once, by account and
    place.
  - `Sorted` gives an element the place of its rank. A rank grows along the order of
    a stable sort (`RankGrows`), so ranks are an injection of a finite set into
    itself, hence a bijection (`SortedSorts`): the list is permuted, and ordered.
  - One page per account is enough (`CutIsNewest`): a message that is left out
    is behind a full page of its own account, or behind the cut. In the first
    case a page as long as the limit is in front of it (`FullPage`), and by the
    pigeonhole principle the inbox holds nothing that is older.

  `IInv` adds to the run's invariants that `fetched` is the first page of `seen` for
  each account (`Answers`), and that nothing has answered before the call
  (`Untouched`); without the first, nothing connects the inbox with the mailboxes.
- `RequestsProofs`. That a request reaches its own accounts only needs that the
  rows keep the tenant and address of their consent, and that whatever
  `ParseApiKeys` and `ResolveTenant` make of a call is a tenant it is entitled to;
  the last entry of a key exists because numbers are well-founded
  (`LastEntry`). The refinement of `Outbox` rests on `Accounted`: what a request
  has on the wire is its last try, not carried out yet, and its sender waits for
  it or has given up; what was carried out belongs to a request that waits with
  an answer at hand, has given up, or was told so. Hence before a request waits,
  every error may promise that nothing was sent (`ReturnPromise`).
- `RetryProofs`. `RetryIsFresh` is an argument about the age of tokens: tokens are
  issued one after the other (`Issued`, `TableIssued`); one that is issued to a
  request is nowhere else until the request stores it (`New`); so what a refresh
  or a consent stores was refused to nobody, and a request finds what it was
  refused in the table only if a write-back put it there (`Spent`).

The assumption of `CallbackServer`, `Outcomes`, only keeps an error, an account
and the absence of an outcome apart. `TenancyConstants` and `RequestsConstants`
say that `None` is nothing else, that `lower` maps addresses to addresses, and
that accounts connected beforehand respect UNIQUE. `Limits` of `UnifiedInbox` says that its
bounds are natural numbers, any ones, and that `None` is neither a number nor a
mailbox.

Only model-checked: liveness (`EveryCallReturns`, `AddAccountReturns`), for which
one needs ENABLED and fairness, out of this prover's reach. The induction theorems
of the library take an operator as parameter and cannot be used either; where the
proofs need induction (`LastEntry`, `UpTo`), they take a least element of a set of
numbers instead.

Run `tlapm` on each module whose name ends in `Proofs` to check them.

## 5. Not modelled

Cryptography (AES-GCM, PKCE), HTTP, HTML, logging, argument and environment
parsing but for `API_KEYS`; the migration; WAL. Time zones and text forms of
timestamps. The mapping of Graph's messages and of `/me` to the program's types
(`graph.rs:194-313`) is data without a decision that a property would tell apart,
but for the message without an id, which it drops. `touch` has no caller.
That a client acts on a status as `Outbox` supposes is the client's affair.

## 6. Plan

1. `PendingFlows`, `FlowStore`, `TokenManager` and their proofs: done.
2. `CallbackServer` and its proofs, `UnifiedInbox`: done.
3. `Tenancy`, `Outbox`, `Requests` and their proofs: done.
4. `RetryProofs`, `TokenHonouredProofs`: done.
5. `UnifiedInboxProofs`; whom an account id belongs to (`TokenOwnerProofs`): done.
6. Open: an abstract registry of accounts that both `TokenManager` and `Requests`
   implement; today `IdsAreForever` is the one fact about accounts that the second
   takes from the first.
