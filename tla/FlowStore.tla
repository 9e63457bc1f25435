------------------------------ MODULE FlowStore ------------------------------
(***************************************************************************)
(* FlowStore (src/storage/flows.rs): the registry of in-flight OAuth flows *)
(* in the SQLite table oauth_flows, and TokenManager::begin_flow, which    *)
(* hands out the consent URL of a flow (src/auth/token.rs).                *)
(*                                                                         *)
(* insert() reads the clock before it waits for the connection mutex, so   *)
(* it takes two steps here; each critical section under the mutex is one   *)
(* step.  The two statements of insert() ignore their errors.  The table   *)
(* outlives the process; a process that restarts may have been given       *)
(* another ENCRYPTION_KEY, and then cannot decrypt older verifiers.        *)
(*                                                                         *)
(* The wall clock only moves forward, and one process at a time receives   *)
(* callbacks: take() is atomic under that process's connection mutex.      *)
(***************************************************************************)
EXTENDS Integers, Sequences, Tables

CONSTANTS States,        \* CSRF states that CsrfToken::new_random can produce
          Tenants,       \* tenants that begin flows
          Keys,          \* master keys the process may be started with
          TTL,           \* FLOW_TTL_SECS, in clock ticks
          StorageFails,  \* whether a statement of insert() may fail
          MaxTime        \* bound on the clock

ASSUME FlowConstants == /\ TTL \in Nat
                        /\ MaxTime \in Nat
                        /\ StorageFails \in BOOLEAN

VARIABLES flows,     \* table oauth_flows: state |-> [tenant, created, key]
          drafts,    \* insert() calls between unix_now() and db.lock()
          key,       \* the key the running process encrypts and decrypts with
          now,       \* unix_now()
          minted,    \* states generated so far
          opened,    \* state |-> [tenant, created], for consent URLs handed out
          honoured   \* takes that returned a PendingFlow, in order

vars == <<flows, drafts, key, now, minted, opened, honoured>>

Row == [tenant : Tenants, created : Nat, key : Keys]
Draft == [state : States, tenant : Tenants, created : Nat]
Url == [tenant : Tenants, created : Nat]
Honour == [state : States, tenant : Tenants, at : Nat]

Init ==
    /\ flows = EmptyTable
    /\ drafts = {}
    /\ key \in Keys
    /\ now = 0
    /\ minted = {}
    /\ opened = EmptyTable
    /\ honoured = <<>>

----------------------------------------------------------------------------
(* begin_flow and insert *)

\* authorize_url() draws a state that was never drawn before.
Mint(s) == s \notin minted /\ minted' = minted \cup {s}

\* Defect: the row is stamped with the purge's cutoff.
StartInsertBackdated(s, t) ==
    /\ Mint(s)
    /\ drafts' = drafts \cup {[state |-> s, tenant |-> t, created |-> now - TTL]}
    /\ UNCHANGED <<flows, key, now, opened, honoured>>

\* insert() reads the clock, then waits for the lock.
StartInsert(s, t) ==
    /\ Mint(s)
    /\ drafts' = drafts \cup {[state |-> s, tenant |-> t, created |-> now]}
    /\ UNCHANGED <<flows, key, now, opened, honoured>>

\* Defect: the cutoff is not FLOW_TTL_SECS in the past.
PurgeableAtOnce(created) == {s \in DOMAIN flows : flows[s].created <= created}

\* DELETE ... WHERE created_at <= ?1, with ?1 = created_at - FLOW_TTL_SECS.
Purgeable(created) == {s \in DOMAIN flows : flows[s].created <= created - TTL}

\* What the purge removes: its error, if any, is ignored.
PurgeOutcomes(created) ==
    {Purgeable(created)} \cup (IF StorageFails THEN {{}} ELSE {})

\* Whether the INSERT takes effect: its error, too, is ignored.
InsertOutcomes == {TRUE} \cup (IF StorageFails THEN {FALSE} ELSE {})

\* Defect: the row's key is not the state in the consent URL (see token.rs:80-82).
FlowKeyOther(d) == CHOOSE s \in States : s # d.state

\* The key of the row: the state that authorize_url() put into the URL.
FlowKey(d) == d.state

\* The critical section of insert(); begin_flow then returns the URL.
FinishInsert(d) ==
    /\ \E purged \in PurgeOutcomes(d.created), kept \in InsertOutcomes :
           flows' = LET rest == Without(flows, purged)
                        row == [tenant |-> d.tenant, created |-> d.created, key |-> key]
                    IN  IF kept THEN Put(rest, FlowKey(d), row) ELSE rest
    /\ drafts' = drafts \ {d}
    /\ opened' = Put(opened, d.state, [tenant |-> d.tenant, created |-> d.created])
    /\ UNCHANGED <<key, now, minted, honoured>>

----------------------------------------------------------------------------
(* take *)

\* Defect: a flow is accepted for one tick too long.
ExpiredLate(s) == now - flows[s].created > TTL + 1

\* unix_now().saturating_sub(created_at) > FLOW_TTL_SECS
Expired(s) == now - flows[s].created > TTL

\* Defect: the row is not deleted.
Peek(s) ==
    /\ s \in DOMAIN flows
    /\ UNCHANGED <<flows, drafts, key, now, minted, opened>>

\* The row is selected and deleted before it is looked at.
Consume(s) ==
    /\ s \in DOMAIN flows
    /\ flows' = Without(flows, {s})
    /\ UNCHANGED <<drafts, key, now, minted, opened>>

\* The PendingFlow that a successful take returns.
Flow(s) == [state |-> s, tenant |-> flows[s].tenant, at |-> now]

TakeHonoured(s) ==
    /\ Consume(s)
    /\ ~Expired(s)
    /\ flows[s].key = key
    /\ honoured' = Append(honoured, Flow(s))

\* FlowError::Expired, or FlowError::Storage when the verifier does not decrypt.
TakeRejected(s) ==
    /\ Consume(s)
    /\ Expired(s) \/ flows[s].key # key
    /\ UNCHANGED honoured

----------------------------------------------------------------------------
(* environment *)

Tick ==
    /\ now < MaxTime
    /\ now' = now + 1
    /\ UNCHANGED <<flows, drafts, key, minted, opened, honoured>>

\* The process stops and is started again: only the database survives.
Restart ==
    /\ key' \in Keys
    /\ drafts' = {}
    /\ UNCHANGED <<flows, now, minted, opened, honoured>>

Next ==
    \/ \E s \in States, t \in Tenants : StartInsert(s, t)
    \/ \E d \in drafts : FinishInsert(d)
    \/ \E s \in States : TakeHonoured(s) \/ TakeRejected(s)
    \/ Tick
    \/ Restart

Spec == Init /\ [][Next]_vars

----------------------------------------------------------------------------
(* properties *)

\* Every variable has its type, and only minted states are in use: the rows,
\* drafts and consent URLs of insert() belong to states of authorize_url().
TypeOK ==
    /\ IsTable(flows, States, Row)
    /\ drafts \subseteq Draft
    /\ key \in Keys
    /\ now \in Nat
    /\ minted \subseteq States
    /\ IsTable(opened, States, Url)
    /\ honoured \in Seq(Honour)

\* take() honours a state at most once (flows.rs:98, "a state is single-use"),
\* whatever inserts, purges, restarts and other callbacks come in between.
SingleUse ==
    \A i, j \in 1..Len(honoured) :
        honoured[i].state = honoured[j].state => i = j

\* A flow that take() honours is one whose consent URL was handed out, for the
\* tenant that asked for it, no more than FLOW_TTL_SECS after it was begun.
HonouredInTime ==
    \A i \in 1..Len(honoured) :
        LET h == honoured[i] IN
        /\ h.state \in DOMAIN opened
        /\ h.tenant = opened[h.state].tenant
        /\ h.at - opened[h.state].created <= TTL

\* A pending flow younger than FLOW_TTL_SECS leaves the table in one way only:
\* its own callback takes it.  No other begin_flow purges it, no restart loses it.
\* (At an age of exactly FLOW_TTL_SECS take() still honours a flow that the purge,
\* which compares with <=, may remove.)
ValidFlowSurvives ==
    [][\A s \in DOMAIN flows \ DOMAIN flows' :
          \/ now - flows[s].created >= TTL
          \/ flows[s].key # key
          \/ honoured' = Append(honoured, Flow(s))]_vars

\* The table implements the abstract registry: its rows are the pending flows
\* and the consent URLs handed out are the minted states.
Registry == INSTANCE PendingFlows
                WITH pending <- [s \in DOMAIN flows |-> flows[s].tenant],
                     minted <- DOMAIN opened
ImplementsPendingFlows == Registry!Spec
=============================================================================
