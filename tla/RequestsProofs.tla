---------------------------- MODULE RequestsProofs ----------------------------
(***************************************************************************)
(* Theorems about Requests, for any number of requests, keys, tenants and  *)
(* accounts.                                                               *)
(***************************************************************************)
EXTENDS Requests, WellFoundedInduction, TLAPS

----------------------------------------------------------------------------
(* Keys and tenants *)

\* A key that occurs in a list has a last entry, whose tenant parse_api_keys keeps.
LEMMA LastEntry ==
    ASSUME NEW list \in Seq(KeyEntry), NEW k \in DOMAIN ParseApiKeys(list)
    PROVE  \E n \in DOMAIN list : list[n].key = k /\ ParseApiKeys(list)[k] = list[n].tenant
<1> DEFINE Last(n) == /\ list[n].key = k
                      /\ \A m \in DOMAIN list : m > n => list[m].key # k
           L == Len(list)
           T == {L - n : n \in {m \in DOMAIN list : list[m].key = k}}
           R == OpToRel(<, Nat)
<1>1. DOMAIN list = 1..L /\ L \in Nat
  OBVIOUS
<1>2. T \subseteq Nat /\ T # {}
  BY <1>1 DEF ParseApiKeys
<1>3. PICK x \in T : \A y \in T : ~ (<<y, x>> \in R)
  <2> HIDE DEF T, R
  <2> QED
    BY <1>2, NatLessThanWellFounded, WFMin, Zenon DEF R
<1>4. \A y \in T : ~ (y < x)
  BY <1>2, <1>3 DEF OpToRel
<1>5. PICK n \in DOMAIN list : x = L - n /\ list[n].key = k
  BY <1>3
<1>6. Last(n)
  <2> SUFFICES ASSUME NEW m \in DOMAIN list, m > n, list[m].key = k PROVE FALSE
    BY <1>5
  <2>1. L - m \in T
    OBVIOUS
  <2> QED
    BY <2>1, <1>1, <1>4, <1>5
<1>7. \E c \in DOMAIN list : Last(c)
  BY <1>6
<1>8. ParseApiKeys(list)[k] = list[CHOOSE c \in DOMAIN list : Last(c)].tenant
  BY DEF ParseApiKeys
<1> QED
  BY <1>7, <1>8, Zenon

\* Whatever the middleware or a default makes of a call, its caller is entitled to it.
LEMMA TenantEntitled ==
    ASSUME NEW c \in Calls, entries \in Seq(KeyEntry), Tenant(c) # None
    PROVE  Tenant(c) \in Entitled(c) /\ Tenant(c) \in Tenants
<1> DEFINE keys == ParseApiKeys(entries)
           k == ExtractApiKey(c)
<1>1. c \in Call /\ Default \in Tenants
  BY RequestsConstants, TenancyConstants
<1>2. CASE c.door = "rest"
  <2>1. Tenant(c) = ResolveTenant(keys, k)
    BY <1>2 DEF Tenant, TenantOf
  <2>2. DOMAIN keys = {entries[n].key : n \in DOMAIN entries} /\ (DOMAIN keys = {} <=> entries = <<>>)
    <3>1. DOMAIN keys = {entries[n].key : n \in DOMAIN entries}
      BY DEF ParseApiKeys
    <3>2. DOMAIN entries = 1..Len(entries) /\ (Len(entries) = 0 => entries = <<>>) /\ Len(entries) \in Nat
      OBVIOUS
    <3>3. entries # <<>> => entries[1].key \in DOMAIN keys
      BY <3>1, <3>2
    <3>4. entries = <<>> => DOMAIN entries = {}
      OBVIOUS
    <3> HIDE DEF keys
    <3> QED
      BY <3>1, <3>3, <3>4
  <2>3. CASE DOMAIN keys = {}
    BY <1>1, <1>2, <2>1, <2>2, <2>3 DEF ResolveTenant, Entitled
  <2>4. CASE DOMAIN keys # {}
    <3>1. k \in DOMAIN keys
      BY <2>1, <2>4 DEF ResolveTenant
    <3>2. PICK n \in DOMAIN entries : entries[n].key = k /\ keys[k] = entries[n].tenant
      BY <3>1, LastEntry
    <3>3. entries[n] \in KeyEntry /\ k \in {c.bearer, c.xkey}
      BY DEF ExtractApiKey
    <3>4. Tenant(c) = IF entries[n].tenant = None THEN Default ELSE entries[n].tenant
      BY <2>1, <2>4, <3>1, <3>2 DEF ResolveTenant
    <3> HIDE DEF keys, k
    <3> QED
      BY <1>1, <1>2, <2>2, <2>4, <3>2, <3>3, <3>4 DEF Entitled, KeyEntry
  <2> QED
    BY <2>3, <2>4
<1>3. CASE c.door # "rest"
  BY <1>1, <1>3 DEF Call, Doors, Tenant, TenantOf, Entitled
<1> QED
  BY <1>2, <1>3
----------------------------------------------------------------------------
(* Rows *)

LEMMA PutTable ==
    ASSUME NEW K, NEW R, NEW f, IsTable(f, K, R), NEW k \in K, NEW row \in R
    PROVE  IsTable(Put(f, k, row), K, R)
BY DEF IsTable, Put

LEMMA WithoutTable ==
    ASSUME NEW K, NEW R, NEW f, IsTable(f, K, R), NEW ks
    PROVE  /\ IsTable(Without(f, ks), K, R)
           /\ DOMAIN Without(f, ks) \subseteq DOMAIN f
           /\ \A k \in DOMAIN Without(f, ks) : Without(f, ks)[k] = f[k]
BY DEF IsTable, Without, Restrict

LEMMA UpsertedTable ==
    ASSUME TablesOK, NEW i \in Ids, NEW n \in Nat \ {0}
    PROVE  IsTable(Upserted(i, n), Ids, Nat \ {0})
BY PutTable DEF TablesOK, Upserted

----------------------------------------------------------------------------
(* The inductive invariant *)

\* A row is the one of the consent that drew its id.
RowsTrue ==
    \A i \in DOMAIN accounts :
        accounts[i].tenant = Owner[i].tenant /\ accounts[i].address = Owner[i].address

\* The steps of a call for mail once it has its account, and those of no such call.
MailSteps == {"token", "bump", "refresh", "store", "reread", "send", "await", "force", "restore"}
OtherSteps == {"list", "drop", "mark", "delete"}

Suits(op, step) ==
    /\ step \in MailSteps => op = "mail"
    /\ step \in OtherSteps => op # "mail"
    /\ step \in {"get", "get_by_email"} => op # "list"

\* A request that has not come in yet has done nothing; one that has its answer is at
\* its end.
OnItsWay(r) ==
    /\ pc[r] = "idle" => job[r] = NoJob /\ shown[r] = {}
    /\ pc[r] = "done" <=> answer[r] # None
    /\ Suits(call[r].op, pc[r])

\* What of a request may still be carried out, and what has been: nothing, unless it
\* waits for Graph or has given up waiting.
Waits(r) == pc[r] = "await"
GaveUp(r) == pc[r] = "done" /\ answer[r] \in {"Provider", "Gone"}

Accounted(r) ==
    /\ \A m \in wire : m.req = r =>
           /\ served[r] = 0
           /\ GaveUp(r) \/ (Waits(r) /\ m.try = job[r].tries /\ reply[r] = None)
    /\ served[r] \in {0, 1}
    /\ served[r] = 1 =>
           \/ GaveUp(r)
           \/ Waits(r) /\ reply[r] \in {"success", "failure"}
           \/ pc[r] = "done" /\ answer[r] = "Ok"
    /\ reply[r] # None => Waits(r)
    /\ reply[r] = "success" => served[r] = 1

OneMessage == \A m, n \in wire : m.req = n.req => m = n

Outcomes == OneMessage /\ \A r \in Requests : OnItsWay(r) /\ Accounted(r)

IInv == TypeOK /\ RowsTrue /\ ReachesOwnAccount /\ Outcomes

----------------------------------------------------------------------------
(* What the building blocks of the actions preserve *)

\* Requests that do not step.
Others(r) ==
    \A q \in Requests \ {r} : pc'[q] = pc[q] /\ job'[q] = job[q] /\ answer'[q] = answer[q]

LEMMA NoJobType == NoJob \in Job /\ NoJob.account = None /\ NoJob.tries = 0
BY DEF NoJob, Job

LEMMA ContinueControl ==
    ASSUME ControlOK, NEW r \in Requests, NEW step \in Steps, NEW j \in Job,
           Continue(r, step, j), call' = call, shown' = shown, call[r] \in Calls,
           step \notin {"get", "get_by_email", "list", "done"} => j.account \in Ids,
           step \in {"bump", "send", "await", "force", "store", "restore"} => j.hand > 0,
           step # "await" => j.tries < 2
    PROVE  ControlOK' /\ Others(r) /\ pc'[r] = step /\ job'[r] = j /\ answer' = answer
<1>1. /\ pc' \in [Requests -> Steps] /\ pc'[r] = step
      /\ job' \in [Requests -> Job] /\ job'[r] = j
      /\ answer' = answer /\ Others(r)
  BY DEF ControlOK, Continue, Goto, Others
<1>2. ASSUME NEW q \in Requests PROVE Equipped(q)'
  <2>1. CASE q = r
    BY <1>1, <2>1 DEF Equipped, Account
  <2>2. CASE q # r
    BY <1>1, <2>2 DEF Equipped, Account, ControlOK, Others
  <2> QED
    BY <2>1, <2>2
<1> QED
  BY <1>1, <1>2 DEF ControlOK

LEMMA ReturnControl ==
    ASSUME ControlOK, NEW r \in Requests, NEW kind \in Kinds, Return(r, kind),
           call' = call, shown' \in [Requests -> SUBSET Ids], call[r] \in Calls
    PROVE  /\ ControlOK' /\ Others(r) /\ pc'[r] = "done" /\ job'[r] = NoJob
           /\ answer'[r] = kind
<1>1. /\ pc' \in [Requests -> Steps] /\ pc'[r] = "done"
      /\ job' \in [Requests -> Job] /\ job'[r] = NoJob
      /\ answer' \in [Requests -> Kinds \cup {None}] /\ answer'[r] = kind
      /\ Others(r)
  BY NoJobType DEF ControlOK, Return, Goto, Others, Steps
<1>2. ASSUME NEW q \in Requests PROVE Equipped(q)'
  <2>1. CASE q = r
    BY <1>1, <2>1, NoJobType DEF Equipped, Account
  <2>2. CASE q # r
    BY <1>1, <2>2 DEF Equipped, Account, ControlOK, Others
  <2> QED
    BY <2>1, <2>2
<1> QED
  BY <1>1, <1>2 DEF ControlOK

\* An account that a request let go, or still has, was its own already.
LEMMA ReachKept ==
    ASSUME ReachesOwnAccount, call' = call, entries' = entries, shown' = shown,
           \A r \in Requests : Account(r)' \in {Account(r), None},
           \A m \in wire' : m \in wire \/ m.id = Account(m.req)
    PROVE  ReachesOwnAccount'
<1>1. ASSUME NEW r \in Requests, NEW i \in Ids,
             Account(r)' = i \/ \E m \in wire' : m.req = r /\ m.id = i
      PROVE  (Owner[i].tenant \in Entitled(call[r]) /\ Names(call[r].names, i))'
  <2>1. Account(r) = i \/ \E m \in wire : m.req = r /\ m.id = i
    BY <1>1, RequestsConstants DEF Account
  <2>2. Owner[i].tenant \in Entitled(call[r]) /\ Names(call[r].names, i)
    BY <2>1 DEF ReachesOwnAccount
  <2>3. (Owner[i].tenant \in Entitled(call[r]))'
    BY <2>2 DEF Entitled
  <2>4. Names(call[r].names, i)'
    BY <2>2 DEF Names
  <2> QED
    BY <2>3, <2>4
<1>2. ASSUME NEW r \in Requests, NEW i \in shown'[r]
      PROVE  (Owner[i].tenant \in Entitled(call[r]))'
  <2>1. Owner[i].tenant \in Entitled(call[r])
    BY <1>2 DEF ReachesOwnAccount
  <2> QED
    BY <2>1 DEF Entitled
<1> QED
  BY <1>1, <1>2 DEF ReachesOwnAccount

\* A step between two others, away from Graph, carries nothing out.
LEMMA OutcomesKept ==
    ASSUME ControlOK, Outcomes, NEW r \in Requests, Others(r),
           UNCHANGED <<graph, call>>, \A q \in Requests \ {r} : shown'[q] = shown[q],
           pc[r] \notin {"await", "done"}, pc'[r] \notin {"idle", "await"},
           pc'[r] = "done" <=> answer'[r] # None,
           Suits(call[r].op, pc'[r])
    PROVE  Outcomes'
<1>1. served[r] = 0 /\ reply[r] = None /\ \A m \in wire : m.req # r
  BY DEF Outcomes, OnItsWay, Accounted, Waits, GaveUp
<1>2. OneMessage'
  BY DEF Outcomes, OneMessage, graph
<1>3. (OnItsWay(r) /\ Accounted(r))'
  BY <1>1, RequestsConstants DEF OnItsWay, Accounted, Waits, GaveUp, graph, Replies
<1>4. ASSUME NEW q \in Requests \ {r} PROVE (OnItsWay(q) /\ Accounted(q))'
  BY DEF Outcomes, OnItsWay, Accounted, Waits, GaveUp, graph, Others
<1> QED
  BY <1>2, <1>3, <1>4 DEF Outcomes
\* Before its end, and not before its arrival, a request is one of Calls.
Runs(r) == pc[r] \notin {"idle", "await", "done"}

\* A request that goes on keeps its account.
LEMMA ContinueIInv ==
    ASSUME IInv, NEW r \in Requests, NEW step \in Steps, NEW j \in Job,
           Continue(r, step, j), UNCHANGED <<entries, call, shown, graph>>,
           TablesOK', RowsTrue', Runs(r),
           step \notin {"idle", "get", "list", "await", "done"},
           j.account = Account(r), step # "get_by_email" => Account(r) \in Ids,
           step \in {"bump", "send", "force", "store", "restore"} => j.hand > 0,
           j.tries = job[r].tries, Suits(call[r].op, step)
    PROVE  IInv'
<1>1. call[r] \in Calls /\ job[r].tries < 2
  BY DEF IInv, TypeOK, ControlOK, Equipped, Runs
<1>2. ControlOK' /\ Others(r) /\ pc'[r] = step /\ job'[r] = j /\ answer' = answer
  BY <1>1, ContinueControl DEF IInv, TypeOK
<1>3. ReachesOwnAccount'
  <2>1. \A q \in Requests : Account(q)' = Account(q)
    BY <1>2 DEF Account, Others
  <2> QED
    BY <2>1, ReachKept DEF IInv, graph
<1>4. Outcomes'
  BY <1>2, OutcomesKept DEF IInv, TypeOK, Outcomes, OnItsWay, Runs
<1> QED
  BY <1>2, <1>3, <1>4 DEF IInv, TypeOK, GraphOK, graph

LEMMA ReturnIInv ==
    ASSUME IInv, NEW r \in Requests, NEW kind \in Kinds, Return(r, kind),
           UNCHANGED <<entries, call, shown, graph>>, TablesOK', RowsTrue', Runs(r)
    PROVE  IInv'
<1>1. call[r] \in Calls /\ kind # None
  BY RequestsConstants DEF IInv, TypeOK, ControlOK, Equipped, Runs
<1>2. /\ ControlOK' /\ Others(r) /\ pc'[r] = "done" /\ job'[r] = NoJob
      /\ answer'[r] = kind
  BY <1>1, ReturnControl DEF IInv, TypeOK, ControlOK
<1>3. ReachesOwnAccount'
  <2>1. \A q \in Requests : Account(q)' \in {Account(q), None}
    BY <1>2, NoJobType DEF Account, Others
  <2> QED
    BY <2>1, ReachKept DEF IInv, graph
<1>4. Outcomes'
  BY <1>1, <1>2, OutcomesKept DEF IInv, TypeOK, Runs, Suits, MailSteps, OtherSteps
<1> QED
  BY <1>2, <1>3, <1>4 DEF IInv, TypeOK, GraphOK, graph

LEMMA SameTables ==
    ASSUME IInv, UNCHANGED <<entries, tables, issued, revived>>
    PROVE  TablesOK' /\ RowsTrue'
BY DEF IInv, TypeOK, TablesOK, RowsTrue, tables

----------------------------------------------------------------------------
(* Each action preserves the invariant *)

LEMMA InitIInv == Init => IInv
<1> SUFFICES ASSUME Init PROVE IInv
  OBVIOUS
<1>1. TablesOK /\ RowsTrue
  BY RequestsConstants DEF Init, TablesOK, RowsTrue, NewRow, AccountRow, IsTable
<1>2. ControlOK
  BY NoJobType DEF Init, ControlOK, Steps, Equipped, Account
<1>3. GraphOK
  BY DEF Init, GraphOK
<1>4. ReachesOwnAccount
  BY NoJobType, RequestsConstants DEF Init, ReachesOwnAccount, Account
<1>5. Outcomes
  BY RequestsConstants DEF Init, Outcomes, OneMessage, OnItsWay, Accounted, Suits, MailSteps,
     OtherSteps, NoCall, Replies
<1> QED
  BY <1>1, <1>2, <1>3, <1>4, <1>5 DEF IInv, TypeOK
\* A call has one of two fates, and its request nothing on the wire.
LEMMA ArriveIInv ==
    ASSUME IInv, NEW r \in Requests, NEW c \in Calls, Arrive(r, c)
    PROVE  IInv'
<1>1. /\ pc[r] = "idle" /\ job[r] = NoJob /\ shown[r] = {} /\ served[r] = 0
      /\ reply[r] = None /\ answer[r] = None /\ \A m \in wire : m.req # r
  BY DEF Arrive, IInv, Outcomes, OnItsWay, Accounted, Waits, GaveUp
<1>2. /\ Others(r) /\ job' = job /\ call' \in [Requests -> Calls \cup {NoCall}]
      /\ call'[r] = c /\ \A q \in Requests \ {r} : call'[q] = call[q]
      /\ UNCHANGED <<entries, tables, issued, shown, graph, revived>>
      /\ \/ pc'[r] = "done" /\ answer'[r] = "Denied"
         \/ answer'[r] = None /\ pc'[r] = IF c.op = "list" THEN "list" ELSE "get"
      /\ pc' \in [Requests -> Steps] /\ answer' \in [Requests -> Kinds \cup {None}]
  BY <1>1 DEF Arrive, Return, Continue, Goto, Others, IInv, TypeOK, ControlOK, Steps, Kinds
<1>3. TablesOK' /\ RowsTrue' /\ GraphOK'
  BY <1>2, SameTables DEF IInv, TypeOK, GraphOK, graph
<1>4. ControlOK'
  <2>1. ASSUME NEW q \in Requests PROVE Equipped(q)'
    <3>1. CASE q = r
      BY <1>1, <1>2, <3>1, NoJobType DEF Equipped, Account
    <3>2. CASE q # r
      BY <1>2, <3>2 DEF Equipped, Account, IInv, TypeOK, ControlOK, Others
    <3> QED
      BY <3>1, <3>2
  <2> QED
    BY <1>2, <2>1 DEF IInv, TypeOK, ControlOK
<1>5. ReachesOwnAccount'
  <2>1. ASSUME NEW q \in Requests, NEW i \in Ids,
               (Account(q) = i \/ \E m \in wire : m.req = q /\ m.id = i)'
        PROVE  (Owner[i].tenant \in Entitled(call[q]) /\ Names(call[q].names, i))'
    <3>1. q # r
      BY <1>1, <1>2, <2>1, NoJobType, RequestsConstants DEF Account, graph
    <3>2. Account(q) = i \/ \E m \in wire : m.req = q /\ m.id = i
      BY <1>2, <2>1 DEF Account, graph
    <3>3. Owner[i].tenant \in Entitled(call[q]) /\ Names(call[q].names, i)
      BY <3>2 DEF IInv, ReachesOwnAccount
    <3>4. call'[q] = call[q]
      BY <1>2, <3>1
    <3>5. Names(call[q].names, i)'
      BY <3>3, <3>4 DEF Names
    <3>6. (Owner[i].tenant \in Entitled(call[q]))'
      BY <1>2, <3>3, <3>4 DEF Entitled
    <3> QED
      BY <3>5, <3>6
  <2>2. ASSUME NEW q \in Requests, NEW i \in shown'[q]
        PROVE  (Owner[i].tenant \in Entitled(call[q]))'
    <3>1. call'[q] = call[q] /\ i \in shown[q]
      BY <1>1, <1>2, <2>2
    <3>2. Owner[i].tenant \in Entitled(call[q])
      BY <3>1 DEF IInv, ReachesOwnAccount
    <3> QED
      BY <1>2, <3>1, <3>2 DEF Entitled
  <2> QED
    BY <2>1, <2>2 DEF ReachesOwnAccount
<1>6. Outcomes'
  <2>1. (OnItsWay(r) /\ Accounted(r))'
    BY <1>1, <1>2, RequestsConstants DEF OnItsWay, Accounted, Suits, MailSteps, OtherSteps,
       graph, Replies, Kinds
  <2>2. ASSUME NEW q \in Requests \ {r} PROVE (OnItsWay(q) /\ Accounted(q))'
    BY <1>2 DEF IInv, Outcomes, OnItsWay, Accounted, Waits, GaveUp, graph, Others
  <2> QED
    BY <1>2, <2>1, <2>2 DEF IInv, Outcomes, OneMessage, graph
<1> QED
  BY <1>3, <1>4, <1>5, <1>6 DEF IInv, TypeOK

\* The account that a lookup found belongs to the caller's tenant, and was named.
LEMMA FoundIInv ==
    ASSUME IInv, NEW r \in Requests, NEW ids, Found(r, ids), Runs(r),
           UNCHANGED <<entries, tables, issued, call, shown, graph, revived>>,
           call[r].op # "list", ids \subseteq DOMAIN accounts,
           \A i \in ids : Owner[i].tenant \in Entitled(call[r]) /\ Names(call[r].names, i)
    PROVE  IInv'
<1>1. PICK i \in ids :
          Continue(r, Begin(call[r].op), [job[r] EXCEPT !.account = i])
  BY DEF Found
<1> DEFINE j == [job[r] EXCEPT !.account = i]
           step == Begin(call[r].op)
<1>2. /\ call[r] \in Calls /\ job[r].tries < 2 /\ i \in Ids /\ j \in Job
      /\ j.account = i /\ j.tries = job[r].tries
  BY DEF IInv, TypeOK, TablesOK, IsTable, ControlOK, Equipped, Runs, Job
<1>3. step \in {"token", "drop", "delete"} /\ Suits(call[r].op, step) /\ step \in Steps
  BY DEF Begin, Suits, MailSteps, OtherSteps, Steps
<1>4. ControlOK' /\ Others(r) /\ pc'[r] = step /\ job'[r] = j /\ answer' = answer
  <2> HIDE DEF j, step
  <2> QED
    BY <1>1, <1>2, <1>3, ContinueControl DEF IInv, TypeOK, j, step
<1>5. ReachesOwnAccount'
  <2>1. ASSUME NEW q \in Requests, NEW k \in Ids,
               (Account(q) = k \/ \E m \in wire : m.req = q /\ m.id = k)'
        PROVE  (Owner[k].tenant \in Entitled(call[q]) /\ Names(call[q].names, k))'
    <3>1. \/ Account(q) = k \/ \E m \in wire : m.req = q /\ m.id = k
          \/ q = r /\ k = i
      BY <1>2, <1>4, <2>1 DEF Account, graph, Others
    <3>2. Owner[k].tenant \in Entitled(call[q]) /\ Names(call[q].names, k)
      BY <3>1 DEF IInv, ReachesOwnAccount
    <3>3. Names(call[q].names, k)'
      BY <3>2 DEF Names
    <3>4. (Owner[k].tenant \in Entitled(call[q]))'
      BY <3>2 DEF Entitled
    <3> QED
      BY <3>3, <3>4
  <2>2. ASSUME NEW q \in Requests, NEW k \in shown'[q]
        PROVE  (Owner[k].tenant \in Entitled(call[q]))'
    <3>1. Owner[k].tenant \in Entitled(call[q])
      BY <2>2 DEF IInv, ReachesOwnAccount
    <3> QED
      BY <3>1 DEF Entitled
  <2> QED
    BY <2>1, <2>2 DEF ReachesOwnAccount
<1>6. Outcomes'
  BY <1>3, <1>4, OutcomesKept DEF IInv, TypeOK, Outcomes, OnItsWay, Runs
<1> QED
  BY <1>4, <1>5, <1>6, SameTables DEF IInv, TypeOK, GraphOK, graph
LEMMA GetIInv ==
    ASSUME IInv, NEW r \in Requests, Get(r)
    PROVE  IInv'
<1> DEFINE ids == ById(accounts, Tenant(call[r]), call[r].names)
<1>1. Runs(r) /\ call[r] \in Calls /\ call[r].op # "list" /\ pc[r] = "get"
  BY DEF Get, IInv, TypeOK, ControlOK, Equipped, Runs, Outcomes, OnItsWay, Suits
<1>2. entries \in Seq(KeyEntry)
  BY RequestsConstants DEF IInv, TypeOK, TablesOK
<1>3. TablesOK' /\ RowsTrue' /\ UNCHANGED <<entries, call, shown, graph>>
  BY SameTables DEF Get
<1>4. CASE Found(r, ids)
  <2>1. ASSUME NEW i \in ids
        PROVE  /\ i \in DOMAIN accounts
               /\ Owner[i].tenant \in Entitled(call[r]) /\ Names(call[r].names, i)
    <3>1. /\ i \in DOMAIN accounts /\ accounts[i].tenant = Tenant(call[r])
          /\ i = call[r].names
      BY DEF ById
    <3>2. accounts[i].tenant \in Tenants /\ Owner[i].tenant = Tenant(call[r])
      BY <3>1 DEF IInv, TypeOK, TablesOK, IsTable, AccountRow, RowsTrue
    <3>3. Tenant(call[r]) # None
      BY <3>1, <3>2, TenancyConstants
    <3> QED
      BY <1>1, <1>2, <3>1, <3>2, <3>3, TenantEntitled DEF Names
  <2> HIDE DEF ids
  <2> QED
    BY <1>1, <1>4, <2>1, FoundIInv DEF Get
<1>5. CASE Return(r, "NotFound")
  BY <1>1, <1>3, <1>5, ReturnIInv DEF Kinds
<1>6. CASE Continue(r, "get_by_email", job[r])
  <2>1. job[r] \in Job /\ Suits(call[r].op, "get_by_email")
    BY <1>1 DEF IInv, TypeOK, ControlOK, Suits, MailSteps, OtherSteps
  <2> QED
    BY <1>1, <1>3, <1>6, <2>1, ContinueIInv DEF Account, Steps
<1> QED
  BY <1>4, <1>5, <1>6 DEF Get

LEMMA GetByEmailIInv ==
    ASSUME IInv, NEW r \in Requests, GetByEmail(r)
    PROVE  IInv'
<1> DEFINE ids == ByAddress(accounts, Tenant(call[r]), call[r].names)
<1>1. Runs(r) /\ call[r] \in Calls /\ call[r].op # "list"
  BY DEF GetByEmail, IInv, TypeOK, ControlOK, Equipped, Runs, Outcomes, OnItsWay, Suits
<1>2. entries \in Seq(KeyEntry)
  BY RequestsConstants DEF IInv, TypeOK, TablesOK
<1>3. TablesOK' /\ RowsTrue' /\ UNCHANGED <<entries, call, shown, graph>>
  BY SameTables DEF GetByEmail
<1>4. CASE Found(r, ids)
  <2>1. ASSUME NEW i \in ids
        PROVE  /\ i \in DOMAIN accounts
               /\ Owner[i].tenant \in Entitled(call[r]) /\ Names(call[r].names, i)
    <3>1. /\ i \in DOMAIN accounts /\ accounts[i].tenant = Tenant(call[r])
          /\ call[r].names \in Addresses
          /\ Lower[accounts[i].address] = Lower[call[r].names]
      BY DEF ByAddress
    <3>2. /\ accounts[i].tenant \in Tenants /\ Owner[i].tenant = Tenant(call[r])
          /\ Owner[i].address = accounts[i].address
      BY <3>1 DEF IInv, TypeOK, TablesOK, IsTable, AccountRow, RowsTrue
    <3>3. Tenant(call[r]) # None
      BY <3>1, <3>2, TenancyConstants
    <3> QED
      BY <1>1, <1>2, <3>1, <3>2, <3>3, TenantEntitled DEF Names
  <2> HIDE DEF ids
  <2> QED
    BY <1>1, <1>4, <2>1, FoundIInv DEF GetByEmail
<1>5. CASE Return(r, "NotFound")
  BY <1>1, <1>3, <1>5, ReturnIInv DEF Kinds
<1> QED
  BY <1>4, <1>5 DEF GetByEmail

LEMMA ListIInv ==
    ASSUME IInv, NEW r \in Requests, List(r)
    PROVE  IInv'
<1> DEFINE ids == Listed(accounts, Tenant(call[r]))
<1>1. /\ Runs(r) /\ call[r] \in Calls /\ pc[r] = "list" /\ Return(r, "Ok")
      /\ UNCHANGED <<entries, tables, issued, call, graph, revived>>
      /\ shown' = [shown EXCEPT ![r] = ids]
  BY DEF List, IInv, TypeOK, ControlOK, Equipped, Runs
<1>2. entries \in Seq(KeyEntry)
  BY RequestsConstants DEF IInv, TypeOK, TablesOK
<1>3. ids \subseteq Ids /\ \A i \in ids : Owner[i].tenant \in Entitled(call[r])
  <2> SUFFICES ASSUME NEW i \in ids
               PROVE  i \in Ids /\ Owner[i].tenant \in Entitled(call[r])
    OBVIOUS
  <2>1. i \in DOMAIN accounts /\ accounts[i].tenant = Tenant(call[r])
    BY DEF Listed
  <2>2. /\ i \in Ids /\ accounts[i].tenant \in Tenants
        /\ Owner[i].tenant = Tenant(call[r])
    BY <2>1 DEF IInv, TypeOK, TablesOK, IsTable, AccountRow, RowsTrue
  <2>3. Tenant(call[r]) # None
    BY <2>1, <2>2, TenancyConstants
  <2> QED
    BY <1>1, <1>2, <2>2, <2>3, TenantEntitled
<1> HIDE DEF ids
<1>4. /\ shown' \in [Requests -> SUBSET Ids] /\ shown'[r] = ids
      /\ \A q \in Requests \ {r} : shown'[q] = shown[q]
  BY <1>1, <1>3 DEF IInv, TypeOK, ControlOK
<1>5. /\ ControlOK' /\ Others(r) /\ pc'[r] = "done" /\ job'[r] = NoJob
      /\ answer'[r] = "Ok"
  BY <1>1, <1>4, ReturnControl DEF IInv, TypeOK, Kinds
<1>6. ReachesOwnAccount'
  <2>1. ASSUME NEW q \in Requests, NEW k \in Ids,
               (Account(q) = k \/ \E m \in wire : m.req = q /\ m.id = k)'
        PROVE  (Owner[k].tenant \in Entitled(call[q]) /\ Names(call[q].names, k))'
    <3>1. Account(q) = k \/ \E m \in wire : m.req = q /\ m.id = k
      BY <1>1, <1>5, <2>1, NoJobType, RequestsConstants DEF Account, graph, Others
    <3>2. Owner[k].tenant \in Entitled(call[q]) /\ Names(call[q].names, k)
      BY <3>1 DEF IInv, ReachesOwnAccount
    <3>3. Names(call[q].names, k)'
      BY <1>1, <3>2 DEF Names
    <3>4. (Owner[k].tenant \in Entitled(call[q]))'
      BY <1>1, <3>2 DEF Entitled
    <3> QED
      BY <3>3, <3>4
  <2>2. ASSUME NEW q \in Requests, NEW k \in shown'[q]
        PROVE  (Owner[k].tenant \in Entitled(call[q]))'
    <3>1. Owner[k].tenant \in Entitled(call[q])
      BY <1>3, <1>4, <2>2 DEF IInv, ReachesOwnAccount
    <3> QED
      BY <1>1, <3>1 DEF Entitled
  <2> QED
    BY <2>1, <2>2 DEF ReachesOwnAccount
<1>7. Outcomes'
  BY <1>1, <1>4, <1>5, OutcomesKept, RequestsConstants
  DEF IInv, TypeOK, Suits, MailSteps, OtherSteps, Kinds
<1> QED
  BY <1>1, <1>5, <1>6, <1>7, SameTables DEF IInv, TypeOK, GraphOK, graph
\* What the steps with an account have in common.
LEMMA AtWork ==
    ASSUME IInv, NEW r \in Requests, pc[r] \in (MailSteps \ {"await"}) \cup {"drop", "mark", "delete"}
    PROVE  /\ Runs(r) /\ call[r] \in Calls /\ Account(r) \in Ids /\ job[r].tries < 2
           /\ Suits(call[r].op, pc[r])
           /\ \A n \in Nat : /\ Holding(r, n) \in Job /\ Holding(r, n).account = Account(r)
                             /\ Holding(r, n).hand = n
                             /\ Holding(r, n).tries = job[r].tries
<1>1. job[r] \in Job
  BY DEF IInv, TypeOK, ControlOK
<1> QED
  BY <1>1 DEF IInv, TypeOK, ControlOK, Equipped, Runs, Outcomes, OnItsWay, MailSteps,
     Job, Holding, Account

LEMMA GetTokenIInv ==
    ASSUME IInv, NEW r \in Requests, GetToken(r)
    PROVE  IInv'
<1>1. pc[r] = "token" /\ UNCHANGED <<entries, call, shown, graph>> /\ TablesOK' /\ RowsTrue'
  BY SameTables DEF GetToken
<1>2. CASE Continue(r, "refresh", job[r])
  BY <1>1, <1>2, AtWork, ContinueIInv
  DEF MailSteps, OtherSteps, Suits, Steps, Account, IInv, TypeOK, ControlOK
<1>3. ASSUME Account(r) \in DOMAIN tokens, NEW step \in {"bump", "send"},
             Continue(r, step, Holding(r, tokens[Account(r)]))
      PROVE  IInv'
  <2>1. tokens[Account(r)] \in Nat \ {0}
    BY <1>3 DEF IInv, TypeOK, TablesOK, IsTable
  <2> QED
    BY <1>1, <1>3, <2>1, AtWork, ContinueIInv DEF MailSteps, OtherSteps, Suits, Steps
<1> QED
  BY <1>2, <1>3 DEF GetToken

LEMMA BumpIInv ==
    ASSUME IInv, NEW r \in Requests, Bump(r)
    PROVE  IInv'
<1>1. /\ pc[r] = "bump" /\ UNCHANGED <<entries, accounts, issued, call, shown, graph>>
      /\ Continue(r, "send", job[r])
      /\ tokens' \in {tokens, Upserted(Account(r), job[r].hand)}
      /\ revived' \subseteq revived \cup {Token(Account(r), job[r].hand)}
  BY DEF Bump
<1>2. job[r] \in Job /\ job[r].hand \in Nat \ {0} /\ Account(r) \in Ids
  BY <1>1, AtWork DEF MailSteps, IInv, TypeOK, ControlOK, Equipped, Job
<1>3. TablesOK' /\ RowsTrue'
  <2>1. IsTable(tokens', Ids, Nat \ {0})
    BY <1>1, <1>2, UpsertedTable DEF IInv, TypeOK, TablesOK
  <2>2. revived' \subseteq [id : Ids, access : Nat]
    BY <1>1, <1>2 DEF IInv, TypeOK, TablesOK, Token
  <2> QED
    BY <1>1, <2>1, <2>2 DEF IInv, TypeOK, TablesOK, RowsTrue
<1> QED
  BY <1>1, <1>2, <1>3, AtWork, ContinueIInv DEF MailSteps, OtherSteps, Suits, Steps, Account

LEMMA RefreshIInv ==
    ASSUME IInv, NEW r \in Requests, Refresh(r)
    PROVE  IInv'
<1> DEFINE n == issued[Account(r)] + 1
<1>1. pc[r] \in {"refresh", "force"} /\ UNCHANGED <<entries, tables, call, shown, graph, revived>>
  BY DEF Refresh
<1>2. Account(r) \in Ids /\ n \in Nat \ {0}
  BY <1>1, AtWork DEF MailSteps, IInv, TypeOK, TablesOK
<1>3. TablesOK' /\ RowsTrue'
  <2>1. issued' \in [Ids -> Nat]
    BY <1>2 DEF Refresh, IInv, TypeOK, TablesOK
  <2> QED
    BY <1>1, <2>1 DEF IInv, TypeOK, TablesOK, RowsTrue, tables
<1>4. CASE Return(r, "TokenExpired")
  BY <1>1, <1>3, <1>4, AtWork, ReturnIInv DEF MailSteps, Kinds
<1>5. CASE Continue(r, IF pc[r] = "force" THEN "restore" ELSE "store", Holding(r, n))
  <2> HIDE DEF n
  <2> QED
    BY <1>1, <1>2, <1>3, <1>5, AtWork, ContinueIInv DEF MailSteps, OtherSteps, Suits, Steps
<1> QED
  BY <1>4, <1>5 DEF Refresh

LEMMA StoreIInv ==
    ASSUME IInv, NEW r \in Requests, Store(r)
    PROVE  IInv'
<1>1. /\ pc[r] \in {"store", "restore"}
      /\ UNCHANGED <<entries, accounts, issued, call, shown, graph, revived>>
      /\ tokens' = Upserted(Account(r), job[r].hand)
  BY DEF Store
<1>2. job[r] \in Job /\ job[r].hand \in Nat \ {0} /\ Account(r) \in Ids
  BY <1>1, AtWork DEF MailSteps, IInv, TypeOK, ControlOK, Equipped, Job
<1>3. TablesOK' /\ RowsTrue'
  <2>1. IsTable(tokens', Ids, Nat \ {0})
    BY <1>1, <1>2, UpsertedTable DEF IInv, TypeOK
  <2> QED
    BY <1>1, <2>1 DEF IInv, TypeOK, TablesOK, RowsTrue
<1>4. CASE Return(r, "Storage")
  BY <1>1, <1>3, <1>4, AtWork, ReturnIInv DEF MailSteps, Kinds
<1>5. CASE Continue(r, IF pc[r] = "restore" THEN "token" ELSE "reread", job[r])
  BY <1>1, <1>2, <1>3, <1>5, AtWork, ContinueIInv
  DEF MailSteps, OtherSteps, Suits, Steps, Account
<1> QED
  BY <1>4, <1>5 DEF Store

LEMMA RereadIInv ==
    ASSUME IInv, NEW r \in Requests, Reread(r)
    PROVE  IInv'
<1>1. pc[r] = "reread" /\ UNCHANGED <<entries, call, shown, graph>> /\ TablesOK' /\ RowsTrue'
  BY SameTables DEF Reread
<1>2. CASE Return(r, "TokenExpired")
  BY <1>1, <1>2, AtWork, ReturnIInv DEF MailSteps, Kinds
<1>3. ASSUME Account(r) \in DOMAIN tokens, Continue(r, "send", Holding(r, tokens[Account(r)]))
      PROVE  IInv'
  <2>1. tokens[Account(r)] \in Nat \ {0}
    BY <1>3 DEF IInv, TypeOK, TablesOK, IsTable
  <2> QED
    BY <1>1, <1>3, <2>1, AtWork, ContinueIInv DEF MailSteps, OtherSteps, Suits, Steps
<1> QED
  BY <1>2, <1>3 DEF Reread

LEMMA DropIInv ==
    ASSUME IInv, NEW r \in Requests, Drop(r)
    PROVE  IInv'
<1>1. /\ pc[r] = "drop" /\ Continue(r, "mark", job[r])
      /\ UNCHANGED <<entries, accounts, issued, call, shown, graph, revived>>
  BY DEF Drop
<1>2. TablesOK' /\ RowsTrue'
  BY <1>1, WithoutTable DEF Drop, IInv, TypeOK, TablesOK, RowsTrue
<1> QED
  BY <1>1, <1>2, AtWork, ContinueIInv
  DEF MailSteps, OtherSteps, Suits, Steps, Account, IInv, TypeOK, ControlOK

LEMMA MarkIInv ==
    ASSUME IInv, NEW r \in Requests, Mark(r)
    PROVE  IInv'
<1>1. /\ pc[r] = "mark" /\ UNCHANGED <<entries, tokens, issued, call, shown, graph, revived>>
      /\ \E kind \in {"NotFound", "Ok"} : Return(r, kind)
  BY DEF Mark
<1>2. DOMAIN accounts' = DOMAIN accounts /\ IsTable(accounts', Ids, AccountRow)
  BY DEF Mark, IInv, TypeOK, TablesOK, IsTable, AccountRow
<1>3. \A i \in DOMAIN accounts :
          accounts'[i].tenant = accounts[i].tenant /\ accounts'[i].address = accounts[i].address
  BY DEF Mark, IInv, TypeOK, TablesOK, IsTable, AccountRow
<1>4. TablesOK' /\ RowsTrue'
  BY <1>1, <1>2, <1>3 DEF IInv, TypeOK, TablesOK, RowsTrue
<1> QED
  BY <1>1, <1>4, AtWork, ReturnIInv DEF Kinds

LEMMA DeleteIInv ==
    ASSUME IInv, NEW r \in Requests, Delete(r)
    PROVE  IInv'
<1>1. /\ pc[r] = "delete" /\ UNCHANGED <<entries, issued, call, shown, graph, revived>>
      /\ Return(r, "Ok")
  BY DEF Delete
<1>2. TablesOK' /\ RowsTrue'
  BY <1>1, WithoutTable DEF Delete, IInv, TypeOK, TablesOK, RowsTrue
<1> QED
  BY <1>1, <1>2, AtWork, ReturnIInv DEF Kinds
LEMMA FailsIInv ==
    ASSUME IInv, NEW r \in Requests, Fails(r)
    PROVE  IInv'
<1>1. /\ Runs(r) /\ UNCHANGED <<entries, call, shown, graph>> /\ TablesOK' /\ RowsTrue'
      /\ call[r] \in Calls /\ job[r] \in Job
  BY SameTables DEF Fails, Runs, IInv, TypeOK, ControlOK, Equipped
<1>2. CASE Return(r, "Storage")
  BY <1>1, <1>2, ReturnIInv DEF Kinds
<1>3. CASE pc[r] = "get" /\ Continue(r, "get_by_email", job[r])
  <2>1. Suits(call[r].op, "get_by_email")
    BY <1>3 DEF IInv, Outcomes, OnItsWay, Suits, MailSteps, OtherSteps
  <2> QED
    BY <1>1, <1>3, <2>1, ContinueIInv DEF Account, Steps
<1> QED
  BY <1>2, <1>3 DEF Fails

\* A request that gives up leaves on the wire what it has sent.
LEMMA AbortIInv ==
    ASSUME IInv, NEW r \in Requests, Abort(r)
    PROVE  IInv'
<1>1. /\ pc[r] \notin {"idle", "done"}
      /\ UNCHANGED <<entries, tables, issued, call, shown, wire, served, revived>>
      /\ reply' = [reply EXCEPT ![r] = None]
  BY DEF Abort
<1>2. PICK kind \in {"Provider", "Gone"} : Return(r, kind)
  BY DEF Abort
<1>3. /\ ControlOK' /\ Others(r) /\ pc'[r] = "done" /\ job'[r] = NoJob
      /\ answer'[r] = kind /\ call[r] \in Calls /\ kind # None
  BY <1>1, <1>2, ReturnControl, RequestsConstants DEF IInv, TypeOK, ControlOK, Equipped, Kinds
<1>4. ReachesOwnAccount'
  <2>1. \A q \in Requests : Account(q)' \in {Account(q), None}
    BY <1>3, NoJobType DEF Account, Others
  <2> QED
    BY <1>1, <2>1, ReachKept DEF IInv
<1>5. Outcomes'
  <2>1. (OnItsWay(r) /\ Accounted(r))'
    BY <1>1, <1>3, RequestsConstants DEF IInv, TypeOK, GraphOK, Outcomes, OnItsWay, Accounted,
       Waits, GaveUp, Suits, MailSteps, OtherSteps, Replies
  <2>2. ASSUME NEW q \in Requests \ {r} PROVE (OnItsWay(q) /\ Accounted(q))'
    BY <1>1, <1>3 DEF IInv, TypeOK, GraphOK, Outcomes, OnItsWay, Accounted, Waits, GaveUp, Others
  <2> QED
    BY <1>1, <2>1, <2>2 DEF IInv, Outcomes, OneMessage
<1>6. TablesOK' /\ RowsTrue' /\ GraphOK'
  BY <1>1, SameTables DEF IInv, TypeOK, GraphOK
<1> QED
  BY <1>3, <1>4, <1>5, <1>6 DEF IInv, TypeOK

LEMMA SendIInv ==
    ASSUME IInv, NEW r \in Requests, Send(r)
    PROVE  IInv'
<1> DEFINE t == job[r].tries + 1
           m == [req |-> r, try |-> t, id |-> Account(r), access |-> job[r].hand]
           j == [job[r] EXCEPT !.tries = t]
<1>1. /\ pc[r] = "send" /\ wire' = wire \cup {m} /\ Continue(r, "await", j)
      /\ UNCHANGED <<entries, tables, issued, call, shown, reply, served, revived>>
  BY DEF Send
<1>2. /\ t \in {1, 2} /\ j \in Job /\ m \in Message /\ j.account = Account(r)
      /\ j.hand > 0 /\ j.tries = t /\ Account(r) \in Ids /\ call[r] \in Calls
      /\ call[r].op = "mail"
  BY <1>1, AtWork DEF IInv, TypeOK, ControlOK, Equipped, Job, Message, MailSteps, Suits, Account
<1>3. m.req = r /\ m.try = t /\ m.id = Account(r)
  OBVIOUS
<1> HIDE DEF m, j, t
<1>4. ControlOK' /\ Others(r) /\ pc'[r] = "await" /\ job'[r] = j /\ answer' = answer
  BY <1>1, <1>2, ContinueControl DEF IInv, TypeOK, Steps
<1>5. ReachesOwnAccount'
  <2>1. \A q \in Requests : Account(q)' = Account(q)
    BY <1>2, <1>4 DEF Account, Others
  <2> QED
    BY <1>1, <1>3, <2>1, ReachKept DEF IInv
<1>6. Outcomes'
  <2>1. served[r] = 0 /\ reply[r] = None /\ \A n \in wire : n.req # r
    BY <1>1 DEF IInv, Outcomes, OnItsWay, Accounted, Waits, GaveUp
  <2>2. OneMessage'
    BY <1>1, <1>3, <2>1 DEF IInv, Outcomes, OneMessage
  <2>3. (OnItsWay(r) /\ Accounted(r))'
    <3>1. answer[r] = None
      BY <1>1 DEF IInv, Outcomes, OnItsWay
    <3>2. OnItsWay(r)'
      BY <1>1, <1>2, <1>4, <3>1 DEF OnItsWay, Suits, OtherSteps
    <3> QED
      BY <1>1, <1>2, <1>3, <1>4, <2>1, <3>2, RequestsConstants DEF Accounted, Waits, Replies
  <2>4. ASSUME NEW q \in Requests \ {r} PROVE (OnItsWay(q) /\ Accounted(q))'
    BY <1>1, <1>3, <1>4 DEF IInv, Outcomes, OnItsWay, Accounted, Waits, GaveUp, Others
  <2> QED
    BY <2>2, <2>3, <2>4 DEF Outcomes
<1>7. TablesOK' /\ RowsTrue' /\ GraphOK'
  BY <1>1, <1>2, SameTables DEF IInv, TypeOK, GraphOK
<1> QED
  BY <1>4, <1>5, <1>6, <1>7 DEF IInv, TypeOK

\* An answer that is received was given to the last try, which is off the wire.
LEMMA Answered ==
    ASSUME IInv, NEW r \in Requests, Receive(r)
    PROVE  /\ pc[r] = "await" /\ call[r] \in Calls /\ call[r].op = "mail"
           /\ reply[r] \in Replies /\ answer[r] = None
           /\ \A m \in wire : m.req # r
           /\ served[r] = 1 => reply[r] \in {"success", "failure"}
           /\ reply[r] = "success" => served[r] = 1
<1>1. pc[r] = "await" /\ reply[r] # None
  BY DEF Receive
<1>2. call[r] \in Calls /\ reply[r] \in Replies
  BY <1>1 DEF IInv, TypeOK, ControlOK, GraphOK, Equipped
<1>3. OnItsWay(r) /\ Accounted(r)
  BY DEF IInv, Outcomes
<1> QED
  BY <1>1, <1>2, <1>3 DEF OnItsWay, Accounted, Waits, GaveUp, Suits, MailSteps

LEMMA ReceiveIInv ==
    ASSUME IInv, NEW r \in Requests, Receive(r)
    PROVE  IInv'
<1> DEFINE j == [job[r] EXCEPT !.refused = job[r].hand]
<1>1. /\ reply' = [reply EXCEPT ![r] = None]
      /\ UNCHANGED <<entries, tables, issued, call, shown, wire, served, revived>>
  BY DEF Receive
<1>2. TablesOK' /\ RowsTrue' /\ GraphOK'
  BY <1>1, SameTables DEF IInv, TypeOK, GraphOK
<1>3. ASSUME Others(r)
      PROVE  OneMessage' /\ \A q \in Requests \ {r} : (OnItsWay(q) /\ Accounted(q))'
  BY <1>1, <1>3 DEF IInv, TypeOK, GraphOK, Outcomes, OneMessage, OnItsWay, Accounted, Waits, GaveUp, Others
<1>4. CASE RetriesAfter(reply[r], job[r].tries) /\ Continue(r, "force", j)
  <2>1. j \in Job /\ j.account = Account(r) /\ j.hand = job[r].hand /\ j.tries = 1
    BY <1>4 DEF IInv, TypeOK, ControlOK, Job, Account, RetriesAfter
  <2>2. Account(r) \in Ids /\ job[r].hand > 0
    BY Answered DEF IInv, TypeOK, ControlOK, Equipped
  <2> HIDE DEF j
  <2>3. ControlOK' /\ Others(r) /\ pc'[r] = "force" /\ job'[r] = j /\ answer' = answer
    BY <1>1, <1>4, <2>1, <2>2, Answered, ContinueControl DEF IInv, TypeOK, Steps
  <2>4. ReachesOwnAccount'
    <3>1. \A q \in Requests : Account(q)' = Account(q)
      BY <2>1, <2>3 DEF Account, Others
    <3> QED
      BY <1>1, <3>1, ReachKept DEF IInv
  <2>5. (OnItsWay(r) /\ Accounted(r))'
    <3>1. served[r] = 0
      BY <1>4, Answered DEF RetriesAfter, IInv, Outcomes, Accounted
    <3>2. reply'[r] = None
      BY <1>1 DEF IInv, TypeOK, GraphOK
    <3> QED
      BY <1>1, <2>3, <3>1, <3>2, Answered, RequestsConstants
      DEF OnItsWay, Accounted, Suits, OtherSteps, Replies
  <2> QED
    BY <1>2, <1>3, <2>3, <2>4, <2>5 DEF IInv, TypeOK, Outcomes
<1>5. ASSUME NEW kind \in {"Ok", "Provider"}, Return(r, kind),
             kind = "Ok" => reply[r] = "success"
      PROVE  IInv'
  <2>1. /\ ControlOK' /\ Others(r) /\ pc'[r] = "done" /\ job'[r] = NoJob
        /\ answer'[r] = kind /\ kind # None
    BY <1>1, <1>5, Answered, ReturnControl, RequestsConstants DEF IInv, TypeOK, ControlOK, Kinds
  <2>2. ReachesOwnAccount'
    <3>1. \A q \in Requests : Account(q)' \in {Account(q), None}
      BY <2>1, NoJobType DEF Account, Others
    <3> QED
      BY <1>1, <3>1, ReachKept DEF IInv
  <2>3. (OnItsWay(r) /\ Accounted(r))'
    <3>1. served[r] \in {0, 1} /\ reply'[r] = None
      BY <1>1 DEF IInv, TypeOK, GraphOK, Outcomes, Accounted
    <3> QED
      BY <1>1, <1>5, <2>1, <3>1, Answered, RequestsConstants
      DEF OnItsWay, Accounted, Suits, MailSteps, OtherSteps, Replies, GaveUp, Waits
  <2> QED
    BY <1>2, <1>3, <2>1, <2>2, <2>3 DEF IInv, TypeOK, Outcomes
<1> QED
  BY <1>4, <1>5 DEF Receive, RetryStep
\* What Graph takes off the wire was not carried out before, and its sender waits or
\* has given up.
LEMMA Delivered ==
    ASSUME IInv, NEW m \in wire
    PROVE  /\ m.req \in Requests /\ served[m.req] = 0
           /\ \/ GaveUp(m.req)
              \/ Waits(m.req) /\ m.try = job[m.req].tries /\ reply[m.req] = None
BY DEF IInv, TypeOK, GraphOK, Message, Outcomes, Accounted

LEMMA GraphHandlesIInv ==
    ASSUME IInv, NEW m \in wire, GraphHandles(m)
    PROVE  IInv'
<1> DEFINE r == m.req
<1>1. /\ wire' = wire \ {m}
      /\ UNCHANGED <<entries, tables, issued, call, progress, shown, revived>>
  BY DEF GraphHandles
<1>2. PICK s \in Replies, n \in {0, 1} :
          /\ s = "success" => n = 1
          /\ s = "unauthorized" => n = 0
          /\ served' = [served EXCEPT ![r] = @ + n]
          /\ reply' = [reply EXCEPT ![r] =
                           IF pc[r] = "await" /\ job[r].tries = m.try THEN s ELSE @]
  BY DEF GraphHandles
<1>3. /\ served[r] = 0 /\ r \in Requests
      /\ GaveUp(r) \/ (Waits(r) /\ m.try = job[r].tries /\ reply[r] = None)
  BY Delivered
<1>4. TablesOK' /\ RowsTrue' /\ ControlOK' /\ GraphOK'
  <2>1. ControlOK'
    BY <1>1 DEF IInv, TypeOK, ControlOK, progress, Equipped, Account
  <2>2. GraphOK'
    BY <1>1, <1>2, <1>3 DEF IInv, TypeOK, GraphOK
  <2> QED
    BY <1>1, <2>1, <2>2, SameTables
<1>5. ReachesOwnAccount'
  <2>1. \A q \in Requests : Account(q)' = Account(q)
    BY <1>1 DEF Account, progress
  <2> QED
    BY <1>1, <2>1, ReachKept DEF IInv
<1>6. Outcomes'
  <2>1. /\ served'[r] = n
        /\ reply'[r] = IF Waits(r) THEN s ELSE reply[r]
        /\ \A q \in Requests \ {r} : served'[q] = served[q] /\ reply'[q] = reply[q]
    BY <1>2, <1>3 DEF IInv, TypeOK, GraphOK, Waits, GaveUp
  <2>2. \A q \in Requests : OnItsWay(q)'
    BY <1>1 DEF IInv, Outcomes, OnItsWay, progress
  <2>3. \A k \in wire' : k \in wire /\ k.req # r
    BY <1>1 DEF IInv, Outcomes, OneMessage
  <2>4. Accounted(r)'
    <3>1. GaveUp(r)' = GaveUp(r) /\ Waits(r)' = Waits(r)
      BY <1>1 DEF GaveUp, Waits, progress
    <3>2. CASE GaveUp(r)
      <4>1. reply[r] = None /\ reply'[r] = None /\ ~ Waits(r)
        BY <1>3, <2>1, <3>2 DEF IInv, Outcomes, Accounted, Waits, GaveUp
      <4> QED
        BY <2>1, <2>3, <3>1, <3>2, <4>1, RequestsConstants DEF Accounted, Replies
    <3>3. CASE Waits(r)
      BY <1>2, <2>1, <2>3, <3>1, <3>3, RequestsConstants DEF Accounted, Replies
    <3> QED
      BY <1>3, <3>2, <3>3
  <2>5. ASSUME NEW q \in Requests \ {r} PROVE Accounted(q)'
    BY <1>1, <2>1 DEF IInv, Outcomes, Accounted, Waits, GaveUp, progress
  <2>6. OneMessage'
    BY <1>1 DEF IInv, Outcomes, OneMessage
  <2> QED
    BY <2>2, <2>4, <2>5, <2>6 DEF Outcomes
<1> QED
  BY <1>4, <1>5, <1>6 DEF IInv, TypeOK

\* A step that touches no request.
LEMMA WorldIInv ==
    ASSUME IInv, UNCHANGED <<entries, call, progress, shown, graph>>, TablesOK', RowsTrue'
    PROVE  IInv'
<1>1. ControlOK' /\ GraphOK'
  BY DEF IInv, TypeOK, ControlOK, GraphOK, progress, graph, Equipped, Account
<1>2. ReachesOwnAccount'
  <2>1. \A q \in Requests : Account(q)' = Account(q)
    BY DEF Account, progress
  <2> QED
    BY <2>1, ReachKept DEF IInv, graph
<1>3. Outcomes'
  BY DEF IInv, Outcomes, OneMessage, OnItsWay, Accounted, Waits, GaveUp, progress, graph
<1> QED
  BY <1>1, <1>2, <1>3 DEF IInv, TypeOK

LEMMA ConsentIInv ==
    ASSUME IInv, NEW i \in Ids, Consent(i)
    PROVE  IInv'
<1>1. NewRow(i) \in AccountRow
  BY RequestsConstants DEF NewRow, AccountRow
<1>2. IsTable(accounts', Ids, AccountRow) /\ RowsTrue'
  <2>1. CASE UNCHANGED accounts
    BY <2>1 DEF IInv, TypeOK, TablesOK, RowsTrue
  <2>2. CASE accounts' = Put(accounts, i, NewRow(i))
    <3>1. RowsTrue'
      BY <2>2 DEF IInv, RowsTrue, Put, NewRow
    <3> QED
      BY <1>1, <2>2, <3>1, PutTable DEF IInv, TypeOK, TablesOK
  <2> QED
    BY <2>1, <2>2 DEF Consent
<1>3. issued' \in [Ids -> Nat] /\ IsTable(tokens', Ids, Nat \ {0})
  <2> DEFINE n == issued[i] + 1
  <2>1. n \in Nat \ {0}
    BY DEF IInv, TypeOK, TablesOK
  <2>2. issued' = [issued EXCEPT ![i] = n] /\ tokens' \in {tokens, Put(tokens, i, n)}
    BY DEF Consent
  <2> HIDE DEF n
  <2> QED
    BY <2>1, <2>2, PutTable DEF IInv, TypeOK, TablesOK
<1>4. TablesOK' /\ RowsTrue' /\ UNCHANGED <<entries, call, progress, shown, graph>>
  BY <1>2, <1>3 DEF Consent, IInv, TypeOK, TablesOK
<1> QED
  BY <1>4, WorldIInv

LEMMA NextIInv == IInv /\ [Next]_vars => IInv'
<1> SUFFICES ASSUME IInv, [Next]_vars PROVE IInv'
  OBVIOUS
<1>1. CASE UNCHANGED vars
  BY <1>1, SameTables, WorldIInv DEF vars
<1>2. ASSUME NEW r \in Requests, Proceed(r) PROVE IInv'
  BY <1>2, GetIInv, GetByEmailIInv, ListIInv, GetTokenIInv, BumpIInv, RefreshIInv, StoreIInv,
     RereadIInv, SendIInv, ReceiveIInv, DropIInv, MarkIInv, DeleteIInv DEF Proceed
<1> QED
  BY <1>1, <1>2, ArriveIInv, FailsIInv, AbortIInv, GraphHandlesIInv, ConsentIInv DEF Next

----------------------------------------------------------------------------
(* The invariants *)

LEMMA Invariance == Spec => []IInv
BY InitIInv, NextIInv, PTL DEF Spec

\* Every variable keeps its type: in particular a request goes out with a token, and
\* at most twice (token.rs:160-163, graph.rs:53-62).
THEOREM RequestsTypeOK == Spec => []TypeOK
<1>1. IInv => TypeOK
  BY DEF IInv
<1> QED
  BY <1>1, Invariance, PTL

\* A request reaches the accounts of its own tenant only, and of those the one it
\* named (src/api/auth.rs, src/mcp/mod.rs:196-205, accounts.rs:78-114).
THEOREM AccountsAreReachedByTheirOwners == Spec => []ReachesOwnAccount
<1>1. IInv => ReachesOwnAccount
  BY DEF IInv
<1> QED
  BY <1>1, Invariance, PTL
----------------------------------------------------------------------------
(* Requests implements Outbox *)

verdicts == [r \in Requests |-> Verdict(r)]
Promise == [Promised!Next]_<<served, verdicts>>

LEMMA InitPromise == Init => Promised!Init
<1> SUFFICES ASSUME Init PROVE Promised!Init
  OBVIOUS
<1>1. \A r \in Requests : Verdict(r) = "none"
  BY DEF Init, Verdict
<1> QED
  BY <1>1 DEF Init, Promised!Init

\* Neither is Graph at work, nor does anyone get an answer.
LEMMA SilentPromise ==
    ASSUME UNCHANGED <<served, answer, call>>
    PROVE  Promise
<1>1. \A r \in Requests : Verdict(r)' = Verdict(r)
  BY DEF Verdict
<1> QED
  BY <1>1 DEF Promise, verdicts

\* An answer that agrees with what Graph did.
LEMMA AnswerPromise ==
    ASSUME NEW r \in Requests, Others(r), served' = served, answer[r] = None,
           \A q \in Requests \ {r} : call'[q] = call[q],
           answer'[r] \in Kinds \cup {None},
           answer'[r] = "Ok" => call'[r].op # "mail" \/ served[r] = 1,
           answer'[r] \in Kinds \ {"Ok", "Provider", "Gone"} => served[r] = 0
    PROVE  Promise
<1>1. Verdict(r) = "none" /\ \A q \in Requests \ {r} : Verdict(q)' = Verdict(q)
  BY DEF Verdict, Others
<1>2. /\ Verdict(r)' \in {"none", "done", "rejected", "unknown"}
      /\ Verdict(r)' = "done" => served[r] = 1
      /\ Verdict(r)' = "rejected" => served[r] = 0
  BY DEF Verdict, StatusFor, Kinds
<1>3. CASE Verdict(r)' = "none"
  <2>1. \A q \in Requests : Verdict(q)' = Verdict(q)
    BY <1>1, <1>3
  <2> QED
    BY <2>1 DEF Promise, verdicts
<1>4. CASE Verdict(r)' # "none"
  <2>1. verdicts' = [verdicts EXCEPT ![r] = Verdict(r)'] /\ verdicts[r] = "none"
    BY <1>1 DEF verdicts
  <2>2. Promised!Answer(r, Verdict(r)')
    BY <1>2, <2>1 DEF Promised!Answer, verdicts
  <2> QED
    BY <1>2, <1>4, <2>2 DEF Promise, Promised!Next, Promised!Verdicts
<1> QED
  BY <1>3, <1>4

LEMMA ContinuePromise ==
    ASSUME NEW r, NEW step, NEW j, Continue(r, step, j), UNCHANGED <<call, served>>
    PROVE  Promise
BY SilentPromise DEF Continue

\* Before a request waits for Graph, nothing was carried out, and every error says so.
LEMMA ReturnPromise ==
    ASSUME IInv, NEW r \in Requests, NEW kind \in Kinds, Return(r, kind), Runs(r),
           UNCHANGED <<call, served>>, kind = "Ok" => call[r].op # "mail"
    PROVE  Promise
<1>1. Others(r) /\ answer'[r] = kind
  BY DEF Return, Goto, Others, IInv, TypeOK, ControlOK
<1>2. answer[r] = None /\ served[r] = 0
  BY DEF IInv, Outcomes, OnItsWay, Accounted, Waits, GaveUp, Runs
<1> QED
  BY <1>1, <1>2, AnswerPromise

LEMMA ArrivePromise ==
    ASSUME IInv, NEW r \in Requests, NEW c \in Calls, Arrive(r, c)
    PROVE  Promise
<1>1. answer[r] = None /\ served[r] = 0
  BY DEF Arrive, IInv, Outcomes, OnItsWay, Accounted, Waits, GaveUp
<1>2. /\ Others(r) /\ served' = served /\ answer'[r] \in {"Denied", None}
      /\ \A q \in Requests \ {r} : call'[q] = call[q]
  BY <1>1 DEF Arrive, Return, Continue, Goto, Others, IInv, TypeOK, ControlOK, graph
<1> QED
  BY <1>1, <1>2, AnswerPromise, RequestsConstants DEF Kinds

LEMMA ReceivePromise ==
    ASSUME IInv, NEW r \in Requests, Receive(r)
    PROVE  Promise
<1>1. UNCHANGED <<call, served>>
  BY DEF Receive
<1>2. ASSUME NEW kind \in {"Ok", "Provider"}, Return(r, kind),
             kind = "Ok" => reply[r] = "success"
      PROVE  Promise
  <2>1. Others(r) /\ answer'[r] = kind
    BY <1>2 DEF Return, Goto, Others, IInv, TypeOK, ControlOK
  <2> QED
    BY <1>1, <1>2, <2>1, Answered, AnswerPromise DEF Kinds
<1> QED
  BY <1>1, <1>2, ContinuePromise DEF Receive

LEMMA AbortPromise ==
    ASSUME IInv, NEW r \in Requests, Abort(r)
    PROVE  Promise
<1>1. PICK kind \in {"Provider", "Gone"} : Return(r, kind)
  BY DEF Abort
<1>2. Others(r) /\ answer'[r] = kind /\ answer[r] = None /\ UNCHANGED <<call, served>>
  BY <1>1 DEF Abort, Return, Goto, Others, IInv, TypeOK, ControlOK, Outcomes, OnItsWay
<1> QED
  BY <1>2, AnswerPromise DEF Kinds

\* Graph carries out only what nobody was told to be done or rejected.
LEMMA GraphHandlesPromise ==
    ASSUME IInv, NEW m \in wire, GraphHandles(m)
    PROVE  Promise
<1> DEFINE r == m.req
<1>1. PICK n \in {0, 1} : served' = [served EXCEPT ![r] = @ + n]
  BY DEF GraphHandles
<1>2. \A q \in Requests : Verdict(q)' = Verdict(q)
  BY DEF GraphHandles, Verdict, progress
<1>3. served \in [Requests -> Nat] /\ r \in Requests /\ served[r] = 0
  BY Delivered DEF IInv, TypeOK, GraphOK
<1>4. verdicts' = verdicts
  BY <1>2 DEF verdicts
<1>5. CASE n = 0
  <2>1. served' = served
    BY <1>1, <1>3, <1>5
  <2> QED
    BY <1>4, <2>1 DEF Promise
<1>6. CASE n = 1
  <2>1. Verdict(r) \in {"none", "unknown"}
    <3>1. answer[r] \in {None, "Provider", "Gone"}
      BY <1>3, Delivered DEF IInv, Outcomes, OnItsWay, Waits, GaveUp
    <3> QED
      BY <3>1 DEF Verdict, StatusFor
  <2>2. Promised!Serve(r)
    BY <1>1, <1>3, <1>4, <1>6, <2>1 DEF Promised!Serve, verdicts
  <2> QED
    BY <1>3, <2>2 DEF Promise, Promised!Next
<1> QED
  BY <1>5, <1>6

LEMMA NextPromise == IInv /\ [Next]_vars => Promise
<1> SUFFICES ASSUME IInv, [Next]_vars PROVE Promise
  OBVIOUS
<1>1. CASE UNCHANGED vars
  BY <1>1, SilentPromise DEF vars, progress, graph
<1>2. ASSUME NEW r \in Requests, Proceed(r) PROVE Promise
  <2>1. CASE Get(r)
    BY <2>1, ContinuePromise, ReturnPromise DEF Get, Found, Runs, Kinds, graph
  <2>2. CASE GetByEmail(r)
    BY <2>2, ContinuePromise, ReturnPromise DEF GetByEmail, Found, Runs, Kinds, graph
  <2>3. CASE List(r) \/ Mark(r) \/ Delete(r)
    <3>1. call[r].op # "mail"
      BY <2>3 DEF List, Mark, Delete, IInv, Outcomes, OnItsWay, Suits, OtherSteps
    <3> QED
      BY <2>3, <3>1, ReturnPromise DEF List, Mark, Delete, Runs, Kinds, graph
  <2>4. CASE GetToken(r) \/ Bump(r) \/ Drop(r) \/ Send(r)
    BY <2>4, ContinuePromise DEF GetToken, Bump, Drop, Send, graph
  <2>5. CASE Refresh(r) \/ Store(r) \/ Reread(r)
    BY <2>5, ContinuePromise, ReturnPromise DEF Refresh, Store, Reread, Runs, Kinds, graph
  <2> QED
    BY <1>2, <2>1, <2>2, <2>3, <2>4, <2>5, ReceivePromise DEF Proceed
<1>3. ASSUME NEW r \in Requests, Fails(r) PROVE Promise
  BY <1>3, ContinuePromise, ReturnPromise DEF Fails, Runs, Kinds, graph
<1>4. ASSUME NEW i \in Ids, Consent(i) PROVE Promise
  BY <1>4, SilentPromise DEF Consent, progress, graph
<1> QED
  BY <1>1, <1>2, <1>3, <1>4, ArrivePromise, AbortPromise, GraphHandlesPromise DEF Next

\* A mail is sent at most once, and its client learns the truth: send_authorized's
\* retry, answers that are lost and requests that outlive their senders included
\* (graph.rs:43-62, routes.rs:117-129).
THEOREM RequestsImplementOutbox == Spec => ImplementsOutbox
<1>1. Init => Promised!Init
  BY InitPromise
<1>2. IInv /\ [Next]_vars => [Promised!Next]_Promised!vars
  BY NextPromise DEF Promise, Promised!vars, verdicts
<1> QED
  BY <1>1, <1>2, Invariance, PTL DEF Spec, ImplementsOutbox, Promised!Spec
=============================================================================
