------------------------- MODULE TokenManagerProofs -------------------------
(***************************************************************************)
(* Theorems about TokenManager, for any number of processes, workers,      *)
(* accounts, tenants and mailboxes, any cast of callers, any rotation of   *)
(* refresh tokens, and with crashes and failures at every step.            *)
(***************************************************************************)
EXTENDS TokenManager, TLAPS

----------------------------------------------------------------------------
(* What the building blocks of the actions preserve *)

\* A worker that is not the one stepping keeps its part of the control state.
Others(w) ==
    \A v \in Workers \ {w} : pc'[v] = pc[v] /\ job'[v] = job[v] /\ hand'[v] = hand[v]

LEMMA UnlockedType ==
    ASSUME ControlOK, NEW ws
    PROVE  Unlocked(ws) \in [Procs -> [Ids -> Workers \cup {None}]]
BY DEF ControlOK, Unlocked

LEMMA NoJobType == NoJob \in Job /\ NoJob.op = None
BY DEF NoJob, Job

\* A call that returns leaves its worker idle, or before the next of its batch.
LEMMA ReturnControl ==
    ASSUME ControlOK, NEW w \in Workers, Return(w)
    PROVE  ControlOK' /\ pc'[w] \in {"idle", "batch"} /\ Others(w)
<1>1. lock' \in [Procs -> [Ids -> Workers \cup {None}]]
  BY UnlockedType DEF Return
<1>2. /\ pc' \in [Workers -> Steps] /\ pc'[w] \in {"idle", "batch"}
      /\ hand' \in [Workers -> TokenRow \cup {None}]
      /\ \A v \in Workers \ {w} : pc'[v] = pc[v] /\ hand'[v] = hand[v]
  BY DEF Return, Goto, ControlOK, Steps
<1>3. /\ job' \in [Workers -> Job]
      /\ \A v \in Workers \ {w} : job'[v] = job[v]
  <2>1. [job[w] EXCEPT !.id = None] \in Job
    BY DEF ControlOK, Job
  <2> QED
    BY <2>1, NoJobType DEF Return, ControlOK
<1>4. ASSUME NEW v \in Workers PROVE Equipped(v)'
  BY <1>2, <1>3 DEF Equipped, ControlOK
<1> QED
  BY <1>1, <1>2, <1>3, <1>4 DEF ControlOK, Others

\* A call begins with a job that suits its first step.
LEMMA CallControl ==
    ASSUME ControlOK, NEW w \in Workers, NEW j \in Job, NEW step \in Steps,
           Call(w, j, step), lock' = lock,
           hand' \in [Workers -> TokenRow \cup {None}],
           \A v \in Workers \ {w} : hand'[v] = hand[v],
           step \in {"lock", "bump", "drop", "delete"} => j.id \in Ids,
           step = "bump" => hand'[w] \in TokenRow,
           step = "exchange" => j.tenant \in Tenants,
           step \in {"lock", "bump", "drop", "delete", "batch", "exchange"}
    PROVE  ControlOK' /\ Others(w) /\ pc'[w] = step /\ job'[w] = j
<1>1. /\ pc' \in [Workers -> Steps] /\ pc'[w] = step
      /\ job' \in [Workers -> Job] /\ job'[w] = j
      /\ \A v \in Workers \ {w} : pc'[v] = pc[v] /\ job'[v] = job[v]
  BY DEF Call, Goto, ControlOK
<1>2. ASSUME NEW v \in Workers PROVE Equipped(v)'
  <2>1. CASE v = w
    BY <1>1, <2>1 DEF Equipped
  <2>2. CASE v # w
    BY <1>1, <2>2 DEF Equipped, ControlOK
  <2> QED
    BY <2>1, <2>2
<1> QED
  BY <1>1, <1>2 DEF ControlOK, Others

----------------------------------------------------------------------------
(* Locks and their holders *)

InRefresh(w) == pc[w] \in {"refresh", "store"}

\* A worker that refreshes holds the lock of its account.
HoldersRefresh ==
    \A w \in Workers : InRefresh(w) => lock[ProcOf[w]][job[w].id] = w

\* The two directions together are inductive; RefreshSerialised follows, since a
\* lock has one holder.
Guarded == HoldersRefresh /\ NoLeakedLock

IInv == TypeOK /\ Guarded

\* A worker outside refresh_account steps outside it: no lock is concerned.
LEMMA OutsideGuarded ==
    ASSUME ControlOK, Guarded, NEW w \in Workers, lock' = lock, Others(w),
           ~InRefresh(w), ~InRefresh(w)'
    PROVE  Guarded'
<1>1. \A p \in Procs, i \in Ids : lock[p][i] # None => lock[p][i] \in Workers \ {w}
  BY DEF ControlOK, Guarded, NoLeakedLock, Refreshing, InRefresh
<1>2. NoLeakedLock'
  BY <1>1 DEF Guarded, NoLeakedLock, Refreshing, Others
<1>3. HoldersRefresh'
  BY DEF Guarded, HoldersRefresh, InRefresh, Others
<1> QED
  BY <1>2, <1>3 DEF Guarded

\* The guard of a call that returns is dropped, and no other.
LEMMA ReturnGuarded ==
    ASSUME ControlOK, Guarded, NEW w \in Workers, Return(w)
    PROVE  Guarded'
<1>1. Others(w) /\ pc'[w] \in {"idle", "batch"}
  BY ReturnControl
<1>2. \A p \in Procs, i \in Ids :
          lock'[p][i] = IF lock[p][i] = w THEN None ELSE lock[p][i]
  BY DEF Return, Unlocked
<1>3. NoLeakedLock'
  <2> SUFFICES ASSUME NEW p \in Procs, NEW i \in Ids, lock'[p][i] # None
               PROVE  (ProcOf[lock[p][i]] = p /\ Refreshing(lock[p][i], i))'
    BY DEF NoLeakedLock
  <2>1. lock'[p][i] = lock[p][i] /\ lock[p][i] \in Workers \ {w}
    BY <1>2 DEF ControlOK
  <2> QED
    BY <2>1, <1>1 DEF Guarded, NoLeakedLock, Refreshing, Others
<1>4. HoldersRefresh'
  <2> SUFFICES ASSUME NEW v \in Workers, InRefresh(v)'
               PROVE  lock'[ProcOf[v]][job'[v].id] = v
    BY DEF HoldersRefresh
  <2>1. v # w /\ InRefresh(v) /\ job'[v] = job[v]
    BY <1>1 DEF InRefresh, Others
  <2>2. job[v].id \in Ids /\ ProcOf[v] \in Procs
    BY <2>1, Population DEF InRefresh, ControlOK, Equipped
  <2> QED
    BY <2>1, <2>2, <1>2 DEF Guarded, HoldersRefresh
<1> QED
  BY <1>3, <1>4 DEF Guarded

----------------------------------------------------------------------------
(* Types of rows *)

LEMMA PutTokens ==
    ASSUME TablesOK, NEW i \in Ids, NEW row \in TokenRow
    PROVE  IsTable(Upserted(i, row), Ids, TokenRow)
BY DEF TablesOK, Upserted, Put, IsTable

LEMMA RowTypes ==
    ASSUME TablesOK, NEW i \in DOMAIN tokens
    PROVE  i \in Ids /\ tokens[i] \in TokenRow
BY DEF TablesOK, IsTable

LEMMA IssueType ==
    ASSUME NEW e \in Emails, NEW n \in Nat, NEW r \in Nat
    PROVE  Issue(e, n, r) \in TokenRow /\ [owner |-> e, n |-> n] \in Token
BY DEF Issue, TokenRow, Token, Idleness

LEMMA JobOnType ==
    ASSUME NEW op \in Operations, NEW i \in Ids
    PROVE  JobOn(op, i) \in Job /\ JobOn(op, i).id = i
BY DEF JobOn, NoJob, Job

----------------------------------------------------------------------------
(* IInv is inductive: the initial states *)

LEMMA InitIInv == Init => IInv
<1> SUFFICES ASSUME Init PROVE IInv
  OBVIOUS
<1>1. \A i \in DOMAIN Seeded :
          /\ i \in Ids
          /\ Seeded[i].tenant \in Tenants /\ Seeded[i].email \in Emails
          /\ Lower[Seeded[i].email] \in Emails
          /\ Issue(Lower[Seeded[i].email], 1, 1) \in TokenRow
  BY Population, IssueType DEF IsTable
<1>2. IsTable(accounts, Ids, AccountRow)
  BY <1>1 DEF Init, IsTable, AccountRow, Status
<1>3. IsTable(tokens, Ids, TokenRow)
  BY <1>1 DEF Init, IsTable
<1>4. TablesOK
  <2>1. IsTable(pending, States, Tenants) /\ minted = {}
    BY DEF Init, Flows!Init, Flows!EmptyTable, IsTable
  <2> QED
    BY <1>1, <1>2, <1>3, <2>1 DEF Init, TablesOK
<1>5. ControlOK
  BY NoJobType DEF Init, ControlOK, Equipped, Steps
<1>6. ProviderOK
  <2>1. \A i \in DOMAIN Seeded : RefreshOf(tokens[i]) \in Token
    BY <1>1 DEF Init, RefreshOf, Token, Issue
  <2> QED
    BY <2>1 DEF Init, ProviderOK
<1>7. Guarded
  BY <1>5 DEF Init, Guarded, HoldersRefresh, NoLeakedLock, InRefresh
<1> QED
  BY <1>4, <1>5, <1>6, <1>7 DEF IInv, TypeOK

----------------------------------------------------------------------------
(* Calls that begin *)

LEMMA StartUseIInv ==
    ASSUME IInv, NEW w \in Workers, NEW i \in Ids, StartUse(w, i)
    PROVE  IInv'
<1>1. TablesOK' /\ ProviderOK'
  BY DEF StartUse, IInv, TypeOK, TablesOK, ProviderOK, db, flows, idp, history
<1>2. JobOn("use", i) \in Job /\ JobOn("use", i).id = i
  BY JobOnType DEF Operations
<1>3. ControlOK' /\ Others(w) /\ pc'[w] \in {"lock", "bump"} /\ pc[w] = "idle"
  <2> DEFINE j == JobOn("use", i)
  <2>0. ControlOK /\ lock' = lock
    BY DEF StartUse, IInv, TypeOK
  <2>1. CASE Call(w, j, "lock") /\ UNCHANGED hand
    <3>1. /\ pc[w] = "idle" /\ j \in Job /\ j.id \in Ids
          /\ hand' \in [Workers -> TokenRow \cup {None}]
      BY <1>2, <2>0, <2>1 DEF Call, ControlOK
    <3> HIDE DEF j
    <3> QED
      BY <2>0, <2>1, <3>1, CallControl DEF Steps
  <2>2. CASE /\ i \in DOMAIN tokens
             /\ Call(w, j, "bump")
             /\ hand' = [hand EXCEPT ![w] = tokens[i]]
    <3>1. /\ hand' \in [Workers -> TokenRow \cup {None}]
          /\ hand'[w] \in TokenRow
          /\ \A v \in Workers \ {w} : hand'[v] = hand[v]
      BY <2>2, RowTypes DEF IInv, TypeOK, ControlOK
    <3>2. pc[w] = "idle" /\ j \in Job /\ j.id \in Ids
      BY <1>2, <2>2 DEF Call
    <3> HIDE DEF j
    <3> QED
      BY <2>0, <2>2, <3>1, <3>2, CallControl DEF Steps
  <2> QED
    BY <2>1, <2>2 DEF StartUse
<1>4. Guarded'
  BY <1>3, OutsideGuarded DEF StartUse, IInv, TypeOK, InRefresh
<1> QED
  BY <1>1, <1>3, <1>4 DEF IInv, TypeOK

LEMMA StartOnAccountIInv ==
    ASSUME IInv, NEW w \in Workers, NEW i \in Ids,
           StartRetry(w, i) \/ StartDisconnect(w, i) \/ StartRemove(w, i)
    PROVE  IInv'
<1>1. TablesOK' /\ ProviderOK' /\ lock' = lock /\ hand' = hand
  BY DEF StartRetry, StartDisconnect, StartRemove, IInv, TypeOK, TablesOK,
      ProviderOK, db, flows, idp, history
<1>2. PICK op \in {"retry", "disconnect", "remove"}, step \in {"lock", "drop", "delete"} :
          Call(w, JobOn(op, i), step)
  BY DEF StartRetry, StartDisconnect, StartRemove
<1>3. JobOn(op, i) \in Job /\ JobOn(op, i).id = i
  BY JobOnType DEF Operations
<1>4. ControlOK' /\ Others(w) /\ pc'[w] = step /\ pc[w] = "idle"
  <2> DEFINE j == JobOn(op, i)
  <2>1. /\ ControlOK /\ Call(w, j, step) /\ pc[w] = "idle"
        /\ j \in Job /\ j.id \in Ids
        /\ hand' \in [Workers -> TokenRow \cup {None}]
    BY <1>1, <1>2, <1>3 DEF IInv, TypeOK, ControlOK, Call
  <2> HIDE DEF j
  <2> QED
    BY <1>1, <2>1, CallControl DEF Steps
<1>5. Guarded'
  BY <1>1, <1>4, OutsideGuarded DEF IInv, TypeOK, InRefresh
<1> QED
  BY <1>1, <1>4, <1>5 DEF IInv, TypeOK

LEMMA StartBatchIInv ==
    ASSUME IInv, NEW w \in Workers, NEW op \in Batches, StartBatch(w, op)
    PROVE  IInv'
<1> DEFINE todo == IF op = "refresh_all"
                   THEN {i \in DOMAIN accounts : accounts[i].status # "disconnected"}
                   ELSE {i \in DOMAIN tokens : tokens[i].used = 2}
           j == [NoJob EXCEPT !.op = op, !.todo = todo]
<1>1. TablesOK' /\ ProviderOK' /\ lock' = lock /\ hand' = hand
  BY DEF StartBatch, IInv, TypeOK, TablesOK, ProviderOK, db, flows, idp, history
<1>2. todo \subseteq Ids
  BY DEF IInv, TypeOK, TablesOK, IsTable
<1>3. j \in Job
  <2> HIDE DEF todo
  <2> QED
    BY <1>2 DEF NoJob, Job, Operations
<1>4. ControlOK' /\ Others(w) /\ pc'[w] = "batch" /\ pc[w] = "idle"
  <2>1. Call(w, j, "batch")
    BY DEF StartBatch
  <2> HIDE DEF j
  <2> QED
    BY <1>1, <1>3, <2>1, CallControl DEF IInv, TypeOK, ControlOK, Steps, Call
<1>5. Guarded'
  BY <1>1, <1>4, OutsideGuarded DEF IInv, TypeOK, InRefresh
<1> QED
  BY <1>1, <1>4, <1>5 DEF IInv, TypeOK

LEMMA CallbackIInv ==
    ASSUME IInv, NEW w \in Workers, NEW s \in States, Callback(w, s)
    PROVE  IInv'
<1>1. s \in DOMAIN pending /\ pending' = Flows!Without(pending, {s}) /\ minted' = minted
  BY DEF Callback, Flows!Take
<1>2. TablesOK' /\ ProviderOK' /\ lock' = lock /\ hand' = hand
  <2>1. IsTable(pending', States, Tenants)
    BY <1>1 DEF IInv, TypeOK, TablesOK, IsTable, Flows!Without, Flows!Restrict
  <2> QED
    BY <1>1, <2>1 DEF Callback, IInv, TypeOK, TablesOK, ProviderOK, db, idp, history
<1>3. pending[s] \in Tenants
  BY <1>1 DEF IInv, TypeOK, TablesOK, IsTable
<1> DEFINE j == [NoJob EXCEPT !.op = "connect", !.tenant = pending[s]]
<1>4. CASE Call(w, j, "exchange")
  <2>1. j \in Job /\ j.tenant = pending[s]
    BY <1>3 DEF NoJob, Job, Operations
  <2> HIDE DEF j
  <2>2. ControlOK' /\ Others(w) /\ pc'[w] = "exchange" /\ pc[w] = "idle"
    BY <1>2, <1>3, <1>4, <2>1, CallControl DEF IInv, TypeOK, ControlOK, Steps, Call
  <2>3. Guarded'
    BY <1>2, <2>2, OutsideGuarded DEF IInv, TypeOK, InRefresh
  <2> QED
    BY <1>2, <2>2, <2>3 DEF IInv, TypeOK
<1>5. CASE UNCHANGED <<pc, job>>
  BY <1>2, <1>5 DEF IInv, TypeOK, ControlOK, Equipped, Guarded, HoldersRefresh,
      NoLeakedLock, InRefresh, Refreshing
<1> QED
  BY <1>4, <1>5 DEF Callback

----------------------------------------------------------------------------
(* Steps of a refresh *)

\* The parts of IInv that a call's return does not disturb, put together.
LEMMA ReturnIInv ==
    ASSUME IInv, NEW w \in Workers, Return(w), TablesOK', ProviderOK'
    PROVE  IInv'
BY ReturnControl, ReturnGuarded DEF IInv, TypeOK

LEMMA BumpIInv ==
    ASSUME IInv, NEW w \in Workers, Bump(w)
    PROVE  IInv'
<1>1. job[w].id \in Ids /\ [hand[w] EXCEPT !.used = 0] \in TokenRow
  BY DEF Bump, IInv, TypeOK, ControlOK, Equipped, TokenRow, Idleness
<1>2. IsTable(tokens', Ids, TokenRow)
  BY <1>1, PutTokens DEF Bump, IInv, TypeOK
<1>3. TablesOK' /\ ProviderOK' /\ Return(w)
  BY <1>2 DEF Bump, IInv, TypeOK, TablesOK, ProviderOK, flows, idp, history
<1> QED
  BY <1>3, ReturnIInv

LEMMA StoreIInv ==
    ASSUME IInv, NEW w \in Workers, Store(w) \/ Upsert(w)
    PROVE  IInv'
<1>1. job[w].id \in Ids /\ hand[w] \in TokenRow
  BY DEF Store, Upsert, IInv, TypeOK, ControlOK, Equipped
<1>2. IsTable(tokens', Ids, TokenRow)
  BY <1>1, PutTokens DEF Store, Upsert, IInv, TypeOK
<1>3. TablesOK' /\ ProviderOK' /\ Return(w)
  BY <1>2 DEF Store, Upsert, Finish, IInv, TypeOK, TablesOK, ProviderOK, flows, idp, history
<1> QED
  BY <1>3, ReturnIInv

LEMMA RefusedIInv ==
    ASSUME IInv, NEW w \in Workers, Refused(w)
    PROVE  IInv'
<1>1. TablesOK' /\ ProviderOK' /\ Return(w)
  BY DEF Refused, IInv, TypeOK, TablesOK, ProviderOK, db, flows, idp, history
<1> QED
  BY <1>1, ReturnIInv

LEMMA AcquireIInv ==
    ASSUME IInv, NEW w \in Workers, Acquire(w)
    PROVE  IInv'
<1> DEFINE i == job[w].id
           p == ProcOf[w]
<1>1. /\ pc[w] = "lock" /\ i \in Ids /\ p \in Procs /\ w # None
      /\ lock[p][i] = None
  BY Population DEF Acquire, LockFree, IInv, TypeOK, ControlOK, Equipped
<1>2. TablesOK' /\ ProviderOK'
  BY DEF Acquire, IInv, TypeOK, TablesOK, ProviderOK, db, flows, idp, history
<1>3. CASE i \notin DOMAIN tokens
  BY <1>2, <1>3, ReturnIInv DEF Acquire
<1>4. CASE i \in DOMAIN tokens
  <2>1. /\ lock' = [lock EXCEPT ![p][i] = w]
        /\ hand' = [hand EXCEPT ![w] = tokens[i]]
        /\ pc' = [pc EXCEPT ![w] = "refresh"]
        /\ job' = job
    BY <1>4 DEF Acquire, Goto
  <2>2. tokens[i] \in TokenRow
    BY <1>4, RowTypes DEF IInv, TypeOK
  <2>3. /\ pc' \in [Workers -> Steps] /\ pc'[w] = "refresh"
        /\ hand' \in [Workers -> TokenRow \cup {None}] /\ hand'[w] \in TokenRow
        /\ Others(w)
    BY <2>1, <2>2 DEF IInv, TypeOK, ControlOK, Steps, Others
  <2>4. /\ lock' \in [Procs -> [Ids -> Workers \cup {None}]]
        /\ \A q \in Procs, k \in Ids :
              lock'[q][k] = IF q = p /\ k = i THEN w ELSE lock[q][k]
    BY <1>1, <2>1 DEF IInv, TypeOK, ControlOK
  <2>5. \A v \in Workers : Equipped(v)'
    BY <1>1, <2>1, <2>3 DEF IInv, TypeOK, ControlOK, Equipped, Others
  <2>6. ControlOK'
    BY <2>1, <2>3, <2>4, <2>5 DEF IInv, TypeOK, ControlOK
  <2>7. HoldersRefresh'
    <3> SUFFICES ASSUME NEW v \in Workers, InRefresh(v)'
                 PROVE  lock'[ProcOf[v]][job'[v].id] = v
      BY DEF HoldersRefresh
    <3>1. CASE v = w
      BY <1>1, <2>1, <2>4, <3>1
    <3>2. CASE v # w
      <4>1. InRefresh(v) /\ job'[v] = job[v]
        BY <2>3, <3>2 DEF InRefresh, Others
      <4>2. lock[ProcOf[v]][job[v].id] = v /\ v # None
        BY <4>1, Population DEF IInv, Guarded, HoldersRefresh
      <4>3. ProcOf[v] \in Procs /\ job[v].id \in Ids
        BY <4>1, Population DEF IInv, TypeOK, ControlOK, Equipped, InRefresh
      <4> QED
        BY <1>1, <2>4, <4>1, <4>2, <4>3
    <3> QED
      BY <3>1, <3>2
  <2>8. NoLeakedLock'
    <3> SUFFICES ASSUME NEW q \in Procs, NEW k \in Ids, lock'[q][k] # None
                 PROVE  (ProcOf[lock[q][k]] = q /\ Refreshing(lock[q][k], k))'
      BY DEF NoLeakedLock
    <3>1. CASE q = p /\ k = i
      BY <2>1, <2>3, <2>4, <3>1 DEF Refreshing
    <3>2. CASE ~(q = p /\ k = i)
      <4>1. lock'[q][k] = lock[q][k] /\ lock[q][k] \in Workers
        BY <2>4, <3>2 DEF IInv, TypeOK, ControlOK
      <4>2. ProcOf[lock[q][k]] = q /\ Refreshing(lock[q][k], k)
        BY <4>1 DEF IInv, Guarded, NoLeakedLock
      <4>3. lock[q][k] # w
        BY <1>1, <4>2 DEF Refreshing
      <4> QED
        BY <2>3, <4>1, <4>2, <4>3 DEF Refreshing, Others
    <3> QED
      BY <3>1, <3>2
  <2> QED
    BY <1>2, <2>6, <2>7, <2>8 DEF IInv, TypeOK, Guarded
<1> QED
  BY <1>3, <1>4

LEMMA IdpRefreshIInv ==
    ASSUME IInv, NEW w \in Workers, IdpRefresh(w)
    PROVE  IInv'
<1> DEFINE cur == hand[w]
           n == issued[cur.owner] + 1
<1>1. /\ pc[w] = "refresh" /\ job[w].id \in Ids
      /\ cur \in TokenRow /\ cur.owner \in Emails /\ n \in Nat /\ cur.refresh \in Nat
  BY DEF IdpRefresh, IInv, TypeOK, ControlOK, Equipped, ProviderOK, TokenRow
<1>2. PICK rotation \in Rotation :
          /\ hand' = [hand EXCEPT ![w] = Issue(cur.owner, n, NextRefresh(cur, n, rotation))]
          /\ live' = StillLive(cur, n, rotation)
  BY DEF IdpRefresh
<1>3. Issue(cur.owner, n, NextRefresh(cur, n, rotation)) \in TokenRow
  BY <1>1, IssueType DEF NextRefresh
<1>4. /\ pc' = [pc EXCEPT ![w] = "store"] /\ job' = job /\ lock' = lock
      /\ issued' = [issued EXCEPT ![cur.owner] = n]
      /\ lapsed' \in {lapsed, lapsed \cup {[owner |-> cur.owner, n |-> n]}}
      /\ UNCHANGED history
  BY DEF IdpRefresh, Goto, IssueAccess
<1>5. TablesOK'
  BY DEF IdpRefresh, IInv, TypeOK, TablesOK, db, flows
<1>6. ProviderOK'
  <2>1. [owner |-> cur.owner, n |-> n] \in Token
    BY <1>1 DEF Token
  <2>2. StillLive(cur, n, rotation) \subseteq Token
    <3>1. rotation \in {"keep", "rotate", "replace"} /\ live \subseteq Token
      BY Bounds DEF IInv, TypeOK, ProviderOK
    <3> HIDE DEF cur, n
    <3> QED
      BY <2>1, <3>1 DEF StillLive
  <2> QED
    BY <1>1, <1>2, <1>4, <2>1, <2>2 DEF IInv, TypeOK, ProviderOK, history
<1>7. /\ Others(w) /\ pc'[w] = "store" /\ hand'[w] \in TokenRow
      /\ pc' \in [Workers -> Steps]
      /\ hand' \in [Workers -> TokenRow \cup {None}]
  BY <1>2, <1>3, <1>4 DEF IInv, TypeOK, ControlOK, Steps, Others
<1>8. ControlOK'
  BY <1>1, <1>4, <1>7 DEF IInv, TypeOK, ControlOK, Equipped, Others
<1>9. Guarded'
  BY <1>1, <1>4, <1>7 DEF IInv, TypeOK, ControlOK, Guarded, HoldersRefresh, NoLeakedLock,
      InRefresh, Refreshing, Others
<1> QED
  BY <1>5, <1>6, <1>8, <1>9 DEF IInv, TypeOK

LEMMA BatchNextIInv ==
    ASSUME IInv, NEW w \in Workers, BatchNext(w)
    PROVE  IInv'
<1>1. TablesOK' /\ ProviderOK' /\ lock' = lock /\ hand' = hand /\ pc[w] = "batch"
  BY DEF BatchNext, IInv, TypeOK, TablesOK, ProviderOK, db, flows, idp, history
<1>2. PICK j \in Job, step \in {"lock", "idle"} :
          /\ job' = [job EXCEPT ![w] = j]
          /\ pc' = [pc EXCEPT ![w] = step]
          /\ step = "lock" => j.id \in Ids
  <2>1. CASE \E i \in job[w].todo :
                 /\ job' = [job EXCEPT ![w].id = i, ![w].todo = @ \ {i}]
                 /\ Goto(w, "lock")
    <3>1. PICK i \in job[w].todo :
              job' = [job EXCEPT ![w] = [job[w] EXCEPT !.id = i, !.todo = job[w].todo \ {i}]]
      BY <2>1 DEF IInv, TypeOK, ControlOK, Job
    <3>2. /\ [job[w] EXCEPT !.id = i, !.todo = job[w].todo \ {i}] \in Job
          /\ [job[w] EXCEPT !.id = i, !.todo = job[w].todo \ {i}].id \in Ids
      BY <3>1 DEF IInv, TypeOK, ControlOK, Job
    <3> QED
      BY <2>1, <3>1, <3>2 DEF Goto
  <2>2. CASE job' = [job EXCEPT ![w] = NoJob] /\ Goto(w, "idle")
    BY <2>2, NoJobType DEF Goto
  <2> QED
    BY <2>1, <2>2 DEF BatchNext
<1>3. /\ Others(w) /\ pc'[w] = step /\ job'[w] = j
      /\ pc' \in [Workers -> Steps] /\ job' \in [Workers -> Job]
  BY <1>1, <1>2 DEF IInv, TypeOK, ControlOK, Steps, Others
<1>4. ControlOK'
  BY <1>1, <1>2, <1>3 DEF IInv, TypeOK, ControlOK, Equipped, Others
<1>5. Guarded'
  BY <1>1, <1>3, OutsideGuarded DEF IInv, TypeOK, InRefresh
<1> QED
  BY <1>1, <1>4, <1>5 DEF IInv, TypeOK

----------------------------------------------------------------------------
(* Steps of a consent *)

LEMMA ExchangeIInv ==
    ASSUME IInv, NEW w \in Workers, NEW e \in Emails, Exchange(w, e)
    PROVE  IInv'
<1> DEFINE m == Lower[e]
           n == issued[m] + 1
           j == [job[w] EXCEPT !.email = e]
<1>1. /\ pc[w] = "exchange" /\ job[w].tenant \in Tenants /\ n \in Nat
      /\ m \in Emails /\ Issue(m, n, n) \in TokenRow /\ [owner |-> m, n |-> n] \in Token
  BY IssueType, Population DEF Exchange, IInv, TypeOK, ControlOK, Equipped, ProviderOK
<1>2. j \in Job /\ j.tenant = job[w].tenant /\ j.email = e
  BY DEF IInv, TypeOK, ControlOK, Job
<1>3. /\ pc' = [pc EXCEPT ![w] = "lookup"]
      /\ job' = [job EXCEPT ![w] = j]
      /\ hand' = [hand EXCEPT ![w] = Issue(m, n, n)]
      /\ lock' = lock
  BY DEF Exchange, Goto, IInv, TypeOK, ControlOK
<1>4. TablesOK'
  BY DEF Exchange, IInv, TypeOK, TablesOK, db, flows
<1>5. ProviderOK'
  BY <1>1 DEF Exchange, IssueAccess, IInv, TypeOK, ProviderOK, history
<1>6. /\ Others(w) /\ pc'[w] = "lookup" /\ job'[w] = j /\ hand'[w] \in TokenRow
      /\ pc' \in [Workers -> Steps] /\ job' \in [Workers -> Job]
      /\ hand' \in [Workers -> TokenRow \cup {None}]
  <2> HIDE DEF j, m, n
  <2> QED
    BY <1>1, <1>2, <1>3 DEF IInv, TypeOK, ControlOK, Steps, Others
<1>7. ControlOK'
  <2> HIDE DEF j
  <2> QED
    BY <1>1, <1>2, <1>3, <1>6 DEF IInv, TypeOK, ControlOK, Equipped, Others
<1>8. Guarded'
  BY <1>1, <1>3, <1>6, OutsideGuarded DEF IInv, TypeOK, InRefresh
<1> QED
  BY <1>4, <1>5, <1>7, <1>8 DEF IInv, TypeOK

LEMMA LookupIInv ==
    ASSUME IInv, NEW w \in Workers, Lookup(w)
    PROVE  IInv'
<1>1. PICK i : /\ i \in DOMAIN accounts \/ i \in Ids \ born
               /\ job' = [job EXCEPT ![w].id = i]
               /\ born' = born \cup {i}
  BY DEF Lookup, Found
<1>2. i \in Ids
  BY <1>1 DEF IInv, TypeOK, TablesOK, IsTable
<1> DEFINE j == [job[w] EXCEPT !.id = i]
<1>3. /\ pc[w] = "lookup" /\ pc' = [pc EXCEPT ![w] = "check"]
      /\ job' = [job EXCEPT ![w] = j]
      /\ hand' = hand /\ lock' = lock
  BY <1>1 DEF Lookup, Goto, IInv, TypeOK, ControlOK
<1>4. j \in Job /\ j.id = i /\ j.tenant = job[w].tenant /\ j.email = job[w].email
  BY <1>2 DEF IInv, TypeOK, ControlOK, Job
<1>5. TablesOK' /\ ProviderOK'
  BY <1>1, <1>2 DEF Lookup, IInv, TypeOK, TablesOK, ProviderOK, db, flows, idp, history
<1>6. /\ Others(w) /\ pc'[w] = "check" /\ job'[w] = j
      /\ pc' \in [Workers -> Steps] /\ job' \in [Workers -> Job]
  <2> HIDE DEF j
  <2> QED
    BY <1>3, <1>4 DEF IInv, TypeOK, ControlOK, Steps, Others
<1>7. ControlOK'
  <2> HIDE DEF j
  <2> QED
    BY <1>2, <1>3, <1>4, <1>6 DEF IInv, TypeOK, ControlOK, Equipped, Others
<1>8. Guarded'
  BY <1>3, <1>6, OutsideGuarded DEF IInv, TypeOK, InRefresh
<1> QED
  BY <1>5, <1>7, <1>8 DEF IInv, TypeOK

\* A step within a call that keeps its job and its record.
LEMMA GotoIInv ==
    ASSUME IInv, NEW w \in Workers, NEW step \in {"upsert", "create", "mark"},
           pc' = [pc EXCEPT ![w] = step],
           UNCHANGED <<lock, job, hand>>, TablesOK', ProviderOK',
           step = "create" => pc[w] = "check",
           step = "upsert" => pc[w] \in {"check", "create"},
           step = "mark" => pc[w] = "drop"
    PROVE  IInv'
<1>1. /\ Others(w) /\ pc'[w] = step /\ pc' \in [Workers -> Steps]
  BY DEF IInv, TypeOK, ControlOK, Steps, Others
<1>2. ControlOK'
  BY <1>1 DEF IInv, TypeOK, ControlOK, Equipped, Others
<1>3. Guarded'
  BY <1>1, OutsideGuarded DEF IInv, TypeOK, InRefresh
<1> QED
  BY <1>2, <1>3 DEF IInv, TypeOK

LEMMA CheckIInv ==
    ASSUME IInv, NEW w \in Workers, Check(w)
    PROVE  IInv'
<1>1. TablesOK' /\ ProviderOK'
  BY DEF Check, IInv, TypeOK, TablesOK, ProviderOK, db, flows, idp, history
<1>2. PICK step \in {"upsert", "create"} : pc' = [pc EXCEPT ![w] = step]
  BY DEF Check, Goto
<1> QED
  BY <1>1, <1>2, GotoIInv DEF Check

LEMMA CreateIInv ==
    ASSUME IInv, NEW w \in Workers, Create(w)
    PROVE  IInv'
<1> DEFINE j == job[w]
           row == [tenant |-> j.tenant, email |-> j.email, status |-> "active"]
<1>1. CASE Insertable(j.id, j.tenant, j.email)
  <2>1. /\ accounts' = Put(accounts, j.id, row) /\ pc[w] = "create"
        /\ pc' = [pc EXCEPT ![w] = "upsert"]
        /\ UNCHANGED <<lock, job, hand>>
    BY <1>1 DEF Create, Goto
  <2>2. j.id \in Ids /\ row \in AccountRow
    BY <2>1 DEF IInv, TypeOK, ControlOK, Equipped, AccountRow, Status
  <2>3. IsTable(accounts', Ids, AccountRow)
    <3> HIDE DEF row
    <3> QED
      BY <2>1, <2>2 DEF IInv, TypeOK, TablesOK, IsTable, Put
  <2>4. TablesOK' /\ ProviderOK'
    BY <2>3 DEF Create, IInv, TypeOK, TablesOK, ProviderOK, flows, idp, history
  <2> QED
    BY <2>1, <2>4, GotoIInv
<1>2. CASE ~Insertable(j.id, j.tenant, j.email)
  <2>1. TablesOK' /\ ProviderOK' /\ Return(w)
    BY <1>2 DEF Create, IInv, TypeOK, TablesOK, ProviderOK, flows, idp, history
  <2> QED
    BY <2>1, ReturnIInv
<1> QED
  BY <1>1, <1>2

\* A consent URL concerns the flows only.
LEMMA BeginFlowIInv ==
    ASSUME IInv, NEW s \in States, NEW t \in Tenants, BeginFlow(s, t)
    PROVE  IInv'
<1>1. PICK dropped \in SUBSET DOMAIN pending, kept \in BOOLEAN :
          Flows!Begin(s, t, dropped, kept)
  BY DEF BeginFlow
<1>2. IsTable(Flows!Without(pending, dropped), States, Tenants)
  BY DEF IInv, TypeOK, TablesOK, IsTable, Flows!Without, Flows!Restrict
<1>3. IsTable(pending', States, Tenants) /\ minted' = minted \cup {s}
  <2> DEFINE rest == Flows!Without(pending, dropped)
  <2>1. pending' = IF kept THEN Flows!Put(rest, s, t) ELSE rest
    BY <1>1 DEF Flows!Begin
  <2> HIDE DEF rest
  <2>2. IsTable(rest, States, Tenants) /\ minted' = minted \cup {s}
    BY <1>1, <1>2 DEF rest, Flows!Begin
  <2> QED
    BY <2>1, <2>2 DEF IsTable, Flows!Put
<1> QED
  BY <1>3 DEF BeginFlow, IInv, TypeOK, TablesOK, ProviderOK, ControlOK, Equipped,
      Guarded, HoldersRefresh, NoLeakedLock, InRefresh, Refreshing, db, control, idp,
      history

----------------------------------------------------------------------------
(* Disconnection and removal *)

LEMMA DropIInv ==
    ASSUME IInv, NEW w \in Workers, Drop(w)
    PROVE  IInv'
<1>1. IsTable(tokens', Ids, TokenRow)
  BY DEF Drop, IInv, TypeOK, TablesOK, IsTable, Without, Restrict
<1>2. TablesOK' /\ ProviderOK'
  BY <1>1 DEF Drop, IInv, TypeOK, TablesOK, ProviderOK, flows, idp, history
<1> QED
  BY <1>2, GotoIInv DEF Drop, Goto

LEMMA MarkIInv ==
    ASSUME IInv, NEW w \in Workers, Mark(w)
    PROVE  IInv'
<1> DEFINE i == job[w].id
<1>1. IsTable(accounts', Ids, AccountRow)
  <2>1. CASE i \in DOMAIN accounts
    <3>1. [accounts[i] EXCEPT !.status = "disconnected"] \in AccountRow
      BY <2>1 DEF IInv, TypeOK, TablesOK, IsTable, AccountRow, Status
    <3>2. accounts' = [accounts EXCEPT ![i] = [accounts[i] EXCEPT !.status = "disconnected"]]
      BY <2>1 DEF Mark
    <3> QED
      BY <3>1, <3>2 DEF IInv, TypeOK, TablesOK, IsTable
  <2>2. CASE i \notin DOMAIN accounts
    BY <2>2 DEF Mark, IInv, TypeOK, TablesOK
  <2> QED
    BY <2>1, <2>2
<1>2. TablesOK' /\ ProviderOK' /\ Return(w)
  BY <1>1 DEF Mark, Finish, IInv, TypeOK, TablesOK, ProviderOK, flows, idp
<1> QED
  BY <1>2, ReturnIInv

LEMMA DeleteIInv ==
    ASSUME IInv, NEW w \in Workers, Delete(w)
    PROVE  IInv'
<1>1. IsTable(accounts', Ids, AccountRow) /\ IsTable(tokens', Ids, TokenRow)
  BY DEF Delete, IInv, TypeOK, TablesOK, IsTable, Without, Restrict
<1>2. TablesOK' /\ ProviderOK' /\ Return(w)
  BY <1>1 DEF Delete, Finish, IInv, TypeOK, TablesOK, ProviderOK, flows, idp
<1> QED
  BY <1>2, ReturnIInv

----------------------------------------------------------------------------
(* Failures, and the world outside *)

LEMMA TokensOfRow ==
    ASSUME TablesOK, NEW i \in DOMAIN tokens
    PROVE  AccessOf(tokens[i]) \in Token /\ RefreshOf(tokens[i]) \in Token
BY RowTypes DEF AccessOf, RefreshOf, Token, TokenRow

LEMMA ExcuseType ==
    ASSUME IInv, NEW ws \in SUBSET Workers, Excuse(ws), issued' = issued,
           live' = live, lapsed' = lapsed
    PROVE  ProviderOK'
<1>1. \A w \in ws : pc[w] \in {"upsert", "mark"} => job[w].id \in Ids
  BY DEF IInv, TypeOK, ControlOK, Equipped
<1>2. unfinished' \subseteq Ids
  BY <1>1 DEF Excuse, IInv, TypeOK, ProviderOK
<1> QED
  BY <1>2, TokensOfRow DEF Excuse, IInv, TypeOK, ProviderOK

LEMMA InterruptedIInv ==
    ASSUME IInv, NEW w \in Workers, Interrupted(w)
    PROVE  IInv'
<1>1. ProviderOK'
  BY ExcuseType DEF Interrupted, idp
<1>2. TablesOK'
  BY DEF Interrupted, IInv, TypeOK, TablesOK, db, flows
<1> QED
  BY <1>1, <1>2, ReturnIInv DEF Interrupted

\* The locks of a process die with its callers; other processes have their own.
LEMMA CrashIInv ==
    ASSUME IInv, NEW p \in Procs, Crash(p)
    PROVE  IInv'
<1> DEFINE ws == {w \in Workers : ProcOf[w] = p}
<1>1. ProviderOK'
  <2> HIDE DEF ws
  <2>1. ws \in SUBSET Workers /\ Excuse(ws)
    BY DEF ws, Crash
  <2> QED
    BY <2>1, ExcuseType DEF Crash, idp
<1>2. TablesOK'
  BY DEF Crash, IInv, TypeOK, TablesOK, db, flows
<1>3. \A w \in Workers :
          IF ProcOf[w] = p
          THEN pc'[w] = "idle" /\ job'[w] = NoJob /\ hand'[w] = None
          ELSE pc'[w] = pc[w] /\ job'[w] = job[w] /\ hand'[w] = hand[w]
  BY DEF Crash
<1>4. /\ pc' \in [Workers -> Steps] /\ job' \in [Workers -> Job]
      /\ hand' \in [Workers -> TokenRow \cup {None}]
  BY NoJobType DEF Crash, IInv, TypeOK, ControlOK, Steps
<1>5. /\ lock' \in [Procs -> [Ids -> Workers \cup {None}]]
      /\ \A q \in Procs, i \in Ids : lock'[q][i] = IF q = p THEN None ELSE lock[q][i]
  BY DEF Crash, IInv, TypeOK, ControlOK
<1>6. ControlOK'
  BY <1>3, <1>4, <1>5 DEF IInv, TypeOK, ControlOK, Equipped
<1>7. HoldersRefresh'
  <2> SUFFICES ASSUME NEW v \in Workers, InRefresh(v)'
               PROVE  lock'[ProcOf[v]][job'[v].id] = v
    BY DEF HoldersRefresh
  <2>1. ProcOf[v] # p /\ InRefresh(v) /\ job'[v] = job[v]
    BY <1>3 DEF InRefresh
  <2>2. job[v].id \in Ids /\ ProcOf[v] \in Procs
    BY <2>1, Population DEF InRefresh, IInv, TypeOK, ControlOK, Equipped
  <2> QED
    BY <2>1, <2>2, <1>5 DEF IInv, Guarded, HoldersRefresh
<1>8. NoLeakedLock'
  <2> SUFFICES ASSUME NEW q \in Procs, NEW i \in Ids, lock'[q][i] # None
               PROVE  (ProcOf[lock[q][i]] = q /\ Refreshing(lock[q][i], i))'
    BY DEF NoLeakedLock
  <2>1. q # p /\ lock'[q][i] = lock[q][i] /\ lock[q][i] \in Workers
    BY <1>5 DEF IInv, TypeOK, ControlOK
  <2>2. ProcOf[lock[q][i]] = q /\ Refreshing(lock[q][i], i)
    BY <2>1 DEF IInv, Guarded, NoLeakedLock
  <2> QED
    BY <2>1, <2>2, <1>3 DEF Refreshing
<1> QED
  BY <1>1, <1>2, <1>6, <1>7, <1>8 DEF IInv, TypeOK, Guarded

\* Steps that touch neither the callers nor their locks.
LEMMA QuietIInv ==
    ASSUME IInv, UNCHANGED control, TablesOK', ProviderOK'
    PROVE  IInv'
BY DEF control, IInv, TypeOK, ControlOK, Equipped, Guarded, HoldersRefresh, NoLeakedLock,
    InRefresh, Refreshing

LEMMA LapseIInv ==
    ASSUME IInv, NEW i \in Ids, Lapse(i)
    PROVE  IInv'
<1>1. TablesOK' /\ UNCHANGED control
  BY DEF Lapse, IInv, TypeOK, TablesOK, db, flows
<1>2. ProviderOK'
  BY TokensOfRow DEF Lapse, IInv, TypeOK, ProviderOK, history
<1> QED
  BY <1>1, <1>2, QuietIInv

LEMMA IdleIInv ==
    ASSUME IInv, NEW i \in Ids, Idle(i)
    PROVE  IInv'
<1>1. IsTable(tokens', Ids, TokenRow)
  <2>1. i \in DOMAIN tokens /\ tokens[i] \in TokenRow /\ tokens[i].used \in {0, 1}
    BY RowTypes, Bounds DEF Idle, IInv, TypeOK, Idleness, TokenRow
  <2>2. [tokens[i] EXCEPT !.used = tokens[i].used + 1] \in TokenRow
    BY <2>1 DEF TokenRow, Idleness
  <2>3. tokens' = [tokens EXCEPT ![i] = [tokens[i] EXCEPT !.used = tokens[i].used + 1]]
    BY <2>1 DEF Idle, TokenRow
  <2> QED
    BY <2>1, <2>2, <2>3 DEF IInv, TypeOK, TablesOK, IsTable
<1>2. TablesOK' /\ ProviderOK' /\ UNCHANGED control
  BY <1>1 DEF Idle, IInv, TypeOK, TablesOK, ProviderOK, flows, idp, history
<1> QED
  BY <1>2, QuietIInv

LEMMA RevokeConsentIInv ==
    ASSUME IInv, NEW e \in Emails, RevokeConsent(e)
    PROVE  IInv'
<1>1. TablesOK' /\ UNCHANGED control
  BY DEF RevokeConsent, IInv, TypeOK, TablesOK, db, flows
<1>2. ProviderOK'
  BY DEF RevokeConsent, IInv, TypeOK, ProviderOK
<1> QED
  BY <1>1, <1>2, QuietIInv

LEMMA StutterIInv == IInv /\ UNCHANGED vars => IInv'
BY QuietIInv DEF vars, db, flows, idp, history, IInv, TypeOK, TablesOK, ProviderOK

----------------------------------------------------------------------------
(* IInv is inductive, and what it implies *)

LEMMA NextIInv == IInv /\ [Next]_vars => IInv'
<1> SUFFICES ASSUME IInv, [Next]_vars PROVE IInv'
  OBVIOUS
<1>1. ASSUME NEW w \in Workers, Start(w) PROVE IInv'
  BY <1>1, StartUseIInv, StartOnAccountIInv, StartBatchIInv, CallbackIInv DEF Start
<1>2. ASSUME NEW w \in Workers, Proceed(w) PROVE IInv'
  BY <1>2, BumpIInv, IdpRefreshIInv, StoreIInv, RefusedIInv, BatchNextIInv, ExchangeIInv,
      LookupIInv, CheckIInv, CreateIInv, DropIInv, MarkIInv, DeleteIInv DEF Proceed
<1>3. CASE World
  BY <1>3, BeginFlowIInv, LapseIInv, IdleIInv, RevokeConsentIInv, CrashIInv DEF World
<1> QED
  BY <1>1, <1>2, <1>3, AcquireIInv, InterruptedIInv, StutterIInv DEF Next

\* The inductive invariant: at every step of token.rs each caller has what the step
\* works on, and the account mutexes and the refreshes in flight match.
THEOREM Invariance == Spec => []IInv
BY InitIInv, NextIInv, PTL DEF Spec

\* Every variable has its type, and no step of get_access_token, refresh_account,
\* complete_flow, disconnect or remove-account lacks the value it unwraps.
THEOREM TokenManagerTypeOK == Spec => []TypeOK
<1>1. IInv => TypeOK
  BY DEF IInv
<1> QED
  BY <1>1, Invariance, PTL

\* However a refresh ends (answer stored, refused, SQL error, caller gone, crash),
\* its guard goes with it: a locked account is being refreshed by the holder.
THEOREM LockNeverLeaks == Spec => []NoLeakedLock
<1>1. IInv => NoLeakedLock
  BY DEF IInv, Guarded
<1> QED
  BY <1>1, Invariance, PTL

LEMMA GuardedSerialises == IInv => RefreshSerialised
<1> SUFFICES ASSUME IInv, NEW v \in Workers, NEW w \in Workers, NEW i \in Ids,
                    ProcOf[v] = ProcOf[w], Refreshing(v, i), Refreshing(w, i)
             PROVE  v = w
  BY DEF RefreshSerialised
<1>1. lock[ProcOf[v]][i] = v /\ lock[ProcOf[w]][i] = w
  BY DEF IInv, Guarded, HoldersRefresh, InRefresh, Refreshing
<1> QED
  BY <1>1

\* The mutex of refresh_account (token.rs:168-170) does its work: within a process
\* at most one caller talks to the provider about an account or stores its answer.
THEOREM RefreshesAreSerialised == Spec => []RefreshSerialised
BY Invariance, GuardedSerialises, PTL

----------------------------------------------------------------------------
(* The constraints of the schema, over every statement the callers run *)

\* A token is only ever written next to its account, and goes with it.
LEMMA UpsertedKeepsOrphansOut ==
    ASSUME NoOrphanToken, NEW i, NEW row, tokens' = Upserted(i, row), accounts' = accounts
    PROVE  NoOrphanToken'
BY DEF NoOrphanToken, Upserted, Put

LEMMA NextNoOrphan == NoOrphanToken /\ [Next]_vars => NoOrphanToken'
<1> SUFFICES ASSUME NoOrphanToken, [Next]_vars PROVE NoOrphanToken'
  OBVIOUS
<1>1. ASSUME NEW w \in Workers, Bump(w) \/ Store(w) \/ Upsert(w) PROVE NoOrphanToken'
  BY <1>1, UpsertedKeepsOrphansOut DEF Bump, Store, Upsert
<1>2. ASSUME NEW w \in Workers, Create(w) PROVE NoOrphanToken'
  BY <1>2 DEF Create, Put, NoOrphanToken
<1>3. ASSUME NEW w \in Workers, Drop(w) PROVE NoOrphanToken'
  BY <1>3 DEF Drop, Without, Restrict, NoOrphanToken
<1>4. ASSUME NEW w \in Workers, Mark(w) PROVE NoOrphanToken'
  BY <1>4 DEF Mark, NoOrphanToken
<1>5. ASSUME NEW w \in Workers, Delete(w) PROVE NoOrphanToken'
  BY <1>5 DEF Delete, Without, Restrict, NoOrphanToken
<1>6. ASSUME NEW i \in Ids, Idle(i) PROVE NoOrphanToken'
  BY <1>6 DEF Idle, NoOrphanToken
<1>7. CASE UNCHANGED db
  BY <1>7 DEF db, NoOrphanToken
<1>8. ASSUME NEW w \in Workers, Start(w) PROVE UNCHANGED db
  BY <1>8 DEF Start, StartUse, StartRetry, StartDisconnect, StartRemove, StartBatch, Callback
<1>9. ASSUME NEW w \in Workers,
             IdpRefresh(w) \/ Refused(w) \/ BatchNext(w) \/ (\E e \in Emails : Exchange(w, e))
               \/ Lookup(w) \/ Check(w) \/ Acquire(w) \/ Interrupted(w)
      PROVE  UNCHANGED db
  BY <1>9 DEF IdpRefresh, Refused, BatchNext, Exchange, Lookup, Check, Acquire, Interrupted
<1>10. ASSUME World, ~\E i \in Ids : Idle(i) PROVE UNCHANGED db
  BY <1>10 DEF World, BeginFlow, Lapse, RevokeConsent, Crash
<1> QED
  BY <1>1, <1>2, <1>3, <1>4, <1>5, <1>6, <1>7, <1>8, <1>9, <1>10 DEF Next, Proceed, World, vars

\* No call in flight over a removal writes the token back: the foreign key refuses
\* it, at every interleaving of refreshes, bumps, consents and removals.
THEOREM NoTokenWithoutAccount == Spec => []NoOrphanToken
<1>1. Init => NoOrphanToken
  BY DEF Init, NoOrphanToken
<1> QED
  BY <1>1, NextNoOrphan, PTL DEF Spec

----------------------------------------------------------------------------
(* Active accounts and their tokens *)

\* A worker's step is its own.
LEMMA StepIsOwn ==
    ASSUME IInv, NEW w \in Workers,
           Start(w) \/ Proceed(w) \/ Acquire(w) \/ Interrupted(w)
    PROVE  Others(w)
<1> USE DEF Others, Goto, Call, IInv, TypeOK, ControlOK
<1>1. ASSUME Return(w) PROVE Others(w)
  BY <1>1, ReturnControl
<1>2. CASE Start(w)
  <2>1. CASE \E i \in Ids : \/ StartUse(w, i) \/ StartRetry(w, i)
                            \/ StartDisconnect(w, i) \/ StartRemove(w, i)
    BY <2>1 DEF StartUse, StartRetry, StartDisconnect, StartRemove
  <2>2. CASE \E op \in Batches : StartBatch(w, op)
    BY <2>2 DEF StartBatch
  <2>3. CASE \E s \in States : Callback(w, s)
    BY <2>3 DEF Callback
  <2> QED
    BY <1>2, <2>1, <2>2, <2>3 DEF Start
<1>3. CASE Proceed(w)
  <2>1. ASSUME Bump(w) \/ Store(w) \/ Refused(w) \/ Upsert(w) \/ Mark(w) \/ Delete(w)
        PROVE  Others(w)
    BY <1>1, <2>1 DEF Bump, Store, Refused, Upsert, Mark, Delete
  <2>2. ASSUME IdpRefresh(w) \/ BatchNext(w) PROVE Others(w)
    BY <2>2 DEF IdpRefresh, BatchNext
  <2>3. ASSUME NEW e \in Emails, Exchange(w, e) PROVE Others(w)
    BY <2>3 DEF Exchange
  <2>4. ASSUME Lookup(w) \/ Check(w) \/ Drop(w) PROVE Others(w)
    BY <2>4 DEF Lookup, Check, Drop
  <2>5. ASSUME Create(w) PROVE Others(w)
    BY <1>1, <2>5 DEF Create
  <2> QED
    BY <1>3, <2>1, <2>2, <2>3, <2>4, <2>5 DEF Proceed
<1>4. CASE Acquire(w)
  BY <1>1, <1>4 DEF Acquire
<1>5. CASE Interrupted(w)
  BY <1>1, <1>5 DEF Interrupted
<1> QED
  BY <1>2, <1>3, <1>4, <1>5

\* Account i needs no token yet, or no more.
Excepted(i) ==
    \/ accounts[i].status = "disconnected"
    \/ i \in unfinished
    \/ \E w \in Workers : pc[w] \in {"upsert", "mark"} /\ job[w].id = i

\* A step of a worker that is not between the two statements of a consent or of a
\* disconnection takes no exception away.
LEMMA ExceptedKept ==
    ASSUME ActiveHasToken, NEW w \in Workers, Others(w), pc[w] \notin {"upsert", "mark"},
           accounts' = accounts, DOMAIN tokens \subseteq DOMAIN tokens',
           unfinished' = unfinished
    PROVE  ActiveHasToken'
BY DEF ActiveHasToken, Others

\* The step between them ends what it began: no exception of another account goes.
LEMMA ExceptedButOne ==
    ASSUME NEW w \in Workers, Others(w), NEW i \in DOMAIN accounts, Excepted(i),
           i # job[w].id, i \in DOMAIN accounts', accounts'[i] = accounts[i],
           unfinished \ {job[w].id} \subseteq unfinished'
    PROVE  Excepted(i)'
BY DEF Excepted, Others

LEMMA UpsertedDomain ==
    ASSUME NEW i, NEW row, tokens' = Upserted(i, row)
    PROVE  /\ DOMAIN tokens \subseteq DOMAIN tokens'
           /\ i \in DOMAIN accounts => i \in DOMAIN tokens'
BY DEF Upserted, Put

\* The two statements of a consent and of a disconnection.
LEMMA HalvesKeepActive ==
    ASSUME IInv, ActiveHasToken, NEW w \in Workers,
           Create(w) \/ Upsert(w) \/ Drop(w) \/ Mark(w) \/ Delete(w)
    PROVE  ActiveHasToken'
<1> SUFFICES ASSUME NEW i \in DOMAIN accounts', i \notin DOMAIN tokens'
             PROVE  Excepted(i)'
  BY DEF ActiveHasToken, Excepted
<1>1. Others(w)
  BY StepIsOwn DEF Proceed
<1>2. ASSUME i \in DOMAIN accounts, i \notin DOMAIN tokens PROVE Excepted(i)
  BY <1>2 DEF ActiveHasToken, Excepted
<1>3. CASE Create(w)
  <2>1. CASE accounts' = accounts
    BY <1>1, <1>2, <1>3, <2>1 DEF Create, Excepted, Others, history
  <2>2. CASE accounts' # accounts
    <3>1. /\ accounts' = Put(accounts, job[w].id, [tenant |-> job[w].tenant,
                                                   email |-> job[w].email,
                                                   status |-> "active"])
          /\ pc'[w] = "upsert" /\ job' = job /\ tokens' = tokens
          /\ unfinished' = unfinished
      BY <1>3, <2>2 DEF Create, Goto, IInv, TypeOK, ControlOK, history
    <3>2. CASE i = job[w].id
      BY <3>1, <3>2 DEF Excepted
    <3>3. CASE i # job[w].id
      BY <1>1, <1>2, <3>1, <3>3, ExceptedButOne DEF Put
    <3> QED
      BY <3>2, <3>3
  <2> QED
    BY <2>1, <2>2
<1>4. CASE Upsert(w)
  <2>1. accounts' = accounts /\ tokens' = Upserted(job[w].id, hand[w])
        /\ unfinished' = unfinished \ {job[w].id}
    BY <1>4 DEF Upsert, Finish
  <2>2. i # job[w].id /\ i \notin DOMAIN tokens
    BY <2>1, UpsertedDomain
  <2> QED
    BY <1>1, <1>2, <2>1, <2>2, ExceptedButOne
<1>5. CASE Drop(w)
  <2>1. /\ accounts' = accounts /\ tokens' = Without(tokens, {job[w].id})
        /\ pc'[w] = "mark" /\ job' = job /\ unfinished' = unfinished
    BY <1>5 DEF Drop, Goto, IInv, TypeOK, ControlOK, history
  <2>2. CASE i = job[w].id
    BY <2>1, <2>2 DEF Excepted
  <2>3. CASE i # job[w].id
    BY <1>1, <1>2, <2>1, <2>3, ExceptedButOne DEF Without, Restrict
  <2> QED
    BY <2>2, <2>3
<1>6. CASE Mark(w)
  <2>1. /\ DOMAIN accounts' = DOMAIN accounts /\ tokens' = tokens
        /\ unfinished' = unfinished \ {job[w].id}
        /\ \A k \in DOMAIN accounts \ {job[w].id} : accounts'[k] = accounts[k]
    BY <1>6 DEF Mark, Finish
  <2>2. CASE i = job[w].id
    <3>1. accounts[i] \in AccountRow
      BY <2>1 DEF IInv, TypeOK, TablesOK, IsTable
    <3>2. accounts'[i].status = "disconnected"
      BY <1>6, <2>1, <2>2, <3>1 DEF Mark, AccountRow
    <3> QED
      BY <3>2 DEF Excepted
  <2>3. CASE i # job[w].id
    BY <1>1, <1>2, <2>1, <2>3, ExceptedButOne
  <2> QED
    BY <2>2, <2>3
<1>7. CASE Delete(w)
  <2>1. /\ accounts' = Without(accounts, {job[w].id})
        /\ tokens' = Without(tokens, {job[w].id})
        /\ unfinished' = unfinished \ {job[w].id}
    BY <1>7 DEF Delete, Finish
  <2>2. /\ i # job[w].id /\ i \in DOMAIN accounts /\ i \notin DOMAIN tokens
        /\ accounts'[i] = accounts[i]
    BY <2>1 DEF Without, Restrict
  <2> QED
    BY <1>1, <1>2, <2>1, <2>2, ExceptedButOne
<1> QED
  BY <1>3, <1>4, <1>5, <1>6, <1>7

\* Callers that are stopped between the two statements leave their account on record.
LEMMA ExcusedKeepsActive ==
    ASSUME ActiveHasToken, NEW ws \in SUBSET Workers, Excuse(ws), UNCHANGED db,
           \A v \in Workers \ ws : pc'[v] = pc[v] /\ job'[v] = job[v]
    PROVE  ActiveHasToken'
BY DEF ActiveHasToken, Excuse, db

LEMMA NextActive == IInv /\ ActiveHasToken /\ [Next]_vars => ActiveHasToken'
<1> SUFFICES ASSUME IInv, ActiveHasToken, [Next]_vars PROVE ActiveHasToken'
  OBVIOUS
<1>1. ASSUME NEW w \in Workers, Start(w) PROVE ActiveHasToken'
  <2>1. Others(w) /\ UNCHANGED <<db, history>> /\ pc[w] = "idle"
    BY <1>1, StepIsOwn DEF Start, StartUse, StartRetry, StartDisconnect, StartRemove,
        StartBatch, Callback, Call
  <2> QED
    BY <2>1, ExceptedKept DEF db, history
<1>2. ASSUME NEW w \in Workers,
             IdpRefresh(w) \/ Refused(w) \/ BatchNext(w) \/ (\E e \in Emails : Exchange(w, e))
               \/ Lookup(w) \/ Check(w) \/ Acquire(w)
      PROVE  ActiveHasToken'
  <2>1. Others(w) /\ UNCHANGED <<db, history>> /\ pc[w] \notin {"upsert", "mark"}
    BY <1>2, StepIsOwn DEF Proceed, IdpRefresh, Refused, BatchNext, Exchange, Lookup, Check,
        Acquire
  <2> QED
    BY <2>1, ExceptedKept DEF db, history
<1>3. ASSUME NEW w \in Workers, Bump(w) \/ Store(w) PROVE ActiveHasToken'
  <2>1. /\ Others(w) /\ accounts' = accounts /\ unfinished' = unfinished
        /\ pc[w] \notin {"upsert", "mark"}
    BY <1>3, StepIsOwn DEF Proceed, Bump, Store, history
  <2>2. DOMAIN tokens \subseteq DOMAIN tokens'
    BY <1>3, UpsertedDomain DEF Bump, Store
  <2> QED
    BY <2>1, <2>2, ExceptedKept
<1>4. ASSUME NEW w \in Workers, Interrupted(w) PROVE ActiveHasToken'
  <2>1. Others(w) /\ Excuse({w}) /\ UNCHANGED db
    BY <1>4, StepIsOwn DEF Interrupted
  <2> QED
    BY <2>1, ExcusedKeepsActive DEF Others
<1>5. ASSUME NEW p \in Procs, Crash(p) PROVE ActiveHasToken'
  <2> DEFINE ws == {w \in Workers : ProcOf[w] = p}
  <2>1. /\ ws \in SUBSET Workers /\ Excuse(ws) /\ UNCHANGED db
        /\ \A v \in Workers \ ws : pc'[v] = pc[v] /\ job'[v] = job[v]
    BY <1>5 DEF Crash
  <2> HIDE DEF ws
  <2> QED
    BY <2>1, ExcusedKeepsActive
<1>6. CASE World /\ ~\E p \in Procs : Crash(p)
  <2>1. UNCHANGED <<accounts, control, unfinished>> /\ DOMAIN tokens' = DOMAIN tokens
    BY <1>6 DEF World, BeginFlow, Lapse, Idle, RevokeConsent, db, history
  <2> QED
    BY <2>1 DEF ActiveHasToken, control
<1>7. CASE UNCHANGED vars
  BY <1>7 DEF vars, db, control, history, ActiveHasToken
<1> QED
  BY <1>1, <1>2, <1>3, <1>4, <1>5, <1>6, <1>7, HalvesKeepActive DEF Next, Proceed, World

\* Whatever consents, refreshes, disconnections and removals overlap, an account left
\* active without a token was left so by a failure between two statements, and the
\* next consent or disconnection that gets through repairs it.
THEOREM ActiveAccountsHaveTokens == Spec => []ActiveHasToken
<1>1. Init => ActiveHasToken
  BY DEF Init, ActiveHasToken
<1> QED
  BY <1>1, Invariance, NextActive, PTL DEF Spec

----------------------------------------------------------------------------
(* Batches and their lists *)

\* Only a batch has a list.
ListsOfBatches ==
    \A w \in Workers : /\ pc[w] = "idle" => job[w] = NoJob
                       /\ job[w].op \notin Batches => job[w].todo = {}

\* The list of w loses at most the account that w turns to.
Tries(w) == job[w].todo \subseteq job'[w].todo \cup {job'[w].id}

\* What a step does to the list of the worker that takes it.
LEMMA OwnStepTries ==
    ASSUME IInv, ListsOfBatches, NEW w \in Workers,
           Start(w) \/ Proceed(w) \/ Acquire(w) \/ Interrupted(w)
    PROVE  /\ Tries(w)
           /\ pc'[w] = "idle" => job'[w] = NoJob
           /\ job'[w].op \notin Batches => job'[w].todo = {}
<1> DEFINE Kept == /\ Tries(w)
                   /\ pc'[w] = "idle" => job'[w] = NoJob
                   /\ job'[w].op \notin Batches => job'[w].todo = {}
<1> USE DEF Goto, IInv, TypeOK, ControlOK
<1>1. /\ NoJob.todo = {} /\ NoJob.op = None /\ None \notin Batches
      /\ job[w] \in Job /\ pc[w] \in Steps
      /\ pc[w] = "idle" => job[w] = NoJob
      /\ job[w].op \notin Batches => job[w].todo = {}
  BY Population DEF NoJob, ListsOfBatches, Operations
<1>2. ASSUME Return(w) PROVE Kept
  <2>1. CASE job[w].op \in Batches
    <3>1. job'[w] = [job[w] EXCEPT !.id = None] /\ pc'[w] = "batch"
      BY <1>2, <2>1 DEF Return
    <3>2. job'[w].todo = job[w].todo /\ job'[w].op = job[w].op
      BY <1>1, <3>1 DEF Job
    <3> QED
      BY <2>1, <3>1, <3>2 DEF Tries
  <2>2. CASE job[w].op \notin Batches
    BY <1>1, <1>2, <2>2 DEF Return, Tries
  <2> QED
    BY <2>1, <2>2
<1>3. ASSUME job'[w] = job[w], pc'[w] # "idle" PROVE Kept
  BY <1>1, <1>3 DEF Tries
<1>4. CASE Start(w)
  <2>1. ASSUME NEW op \in Operations \ Batches, NEW i \in Ids, NEW step,
               Call(w, JobOn(op, i), step), step # "idle"
        PROVE  Kept
    BY <1>1, <2>1 DEF Call, JobOn, NoJob, Tries
  <2>2. CASE \E i \in Ids : \/ StartUse(w, i) \/ StartRetry(w, i)
                            \/ StartDisconnect(w, i) \/ StartRemove(w, i)
    <3>1. {"use", "retry", "disconnect", "remove"} \subseteq Operations \ Batches
      BY DEF Operations, Batches
    <3>2. PICK op \in Operations \ Batches, i \in Ids,
               step \in {"lock", "bump", "drop", "delete"} : Call(w, JobOn(op, i), step)
      BY <2>2, <3>1 DEF StartUse, StartRetry, StartDisconnect, StartRemove
    <3>3. step # "idle"
      OBVIOUS
    <3> QED
      BY <2>1, <3>2, <3>3
  <2>3. ASSUME NEW op \in Batches, StartBatch(w, op) PROVE Kept
    BY <1>1, <2>3 DEF StartBatch, Call, NoJob, Tries
  <2>4. ASSUME NEW s \in States, Callback(w, s) PROVE Kept
    <3>1. CASE UNCHANGED <<pc, job>>
      BY <1>1, <3>1 DEF Tries
    <3>2. CASE Call(w, [NoJob EXCEPT !.op = "connect", !.tenant = pending[s]], "exchange")
      BY <1>1, <3>2 DEF Call, NoJob, Tries
    <3> QED
      BY <2>4, <3>1, <3>2 DEF Callback
  <2> QED
    BY <1>4, <2>2, <2>3, <2>4 DEF Start
<1>5. CASE Proceed(w)
  <2>1. ASSUME Bump(w) \/ Store(w) \/ Refused(w) \/ Upsert(w) \/ Mark(w) \/ Delete(w)
        PROVE  Kept
    BY <1>2, <2>1 DEF Bump, Store, Refused, Upsert, Mark, Delete
  <2>2. ASSUME IdpRefresh(w) \/ Check(w) \/ Drop(w) PROVE Kept
    BY <1>3, <2>2 DEF IdpRefresh, Check, Drop
  <2>3. ASSUME BatchNext(w) PROVE Kept
    <3>1. CASE job' = [job EXCEPT ![w] = NoJob] /\ job[w].todo = {}
      BY <1>1, <3>1 DEF Tries
    <3>2. ASSUME NEW i \in job[w].todo, Goto(w, "lock"),
                 job' = [job EXCEPT ![w].id = i, ![w].todo = @ \ {i}]
          PROVE  Kept
      <4>1. job'[w] = [job[w] EXCEPT !.id = i, !.todo = job[w].todo \ {i}]
        BY <1>1, <3>2 DEF Job
      <4>2. /\ job'[w].id = i /\ job'[w].todo = job[w].todo \ {i}
            /\ job'[w].op = job[w].op /\ pc'[w] = "lock"
        BY <1>1, <3>2, <4>1 DEF Job
      <4> QED
        BY <1>1, <4>2 DEF Tries
    <3> QED
      BY <2>3, <3>1, <3>2 DEF BatchNext
  <2>4. ASSUME Lookup(w) \/ (\E e \in Emails : Exchange(w, e)) PROVE Kept
    <3>1. PICK x : /\ \/ job' = [job EXCEPT ![w].id = x]
                      \/ job' = [job EXCEPT ![w].email = x]
                   /\ pc'[w] # "idle"
      BY <2>4 DEF Lookup, Exchange
    <3>2. job'[w].todo = job[w].todo /\ job'[w].op = job[w].op
      BY <1>1, <3>1 DEF Job
    <3> QED
      BY <1>1, <3>1, <3>2 DEF Tries
  <2>5. ASSUME Create(w) PROVE Kept
    BY <1>2, <1>3, <2>5 DEF Create
  <2> QED
    BY <1>5, <2>1, <2>2, <2>3, <2>4, <2>5 DEF Proceed
<1>6. CASE Acquire(w)
  BY <1>2, <1>3, <1>6 DEF Acquire
<1>7. CASE Interrupted(w)
  BY <1>2, <1>7 DEF Interrupted
<1> QED
  BY <1>4, <1>5, <1>6, <1>7

LEMMA NextTries ==
    IInv /\ ListsOfBatches /\ [Next]_vars =>
        ListsOfBatches' /\ \A w \in Workers : Tries(w) \/ Crash(ProcOf[w])
<1> SUFFICES ASSUME IInv, ListsOfBatches, [Next]_vars
             PROVE  ListsOfBatches' /\ \A w \in Workers : Tries(w) \/ Crash(ProcOf[w])
  OBVIOUS
<1>1. ASSUME NEW w \in Workers, Start(w) \/ Proceed(w) \/ Acquire(w) \/ Interrupted(w)
      PROVE  ListsOfBatches' /\ \A v \in Workers : Tries(v)
  <2>1. Others(w)
    BY <1>1, StepIsOwn
  <2> QED
    BY <1>1, <2>1, OwnStepTries DEF ListsOfBatches, Tries, Others
<1>2. ASSUME NEW p \in Procs, Crash(p)
      PROVE  ListsOfBatches' /\ \A v \in Workers : Tries(v) \/ Crash(ProcOf[v])
  <2>1. \A v \in Workers :
            IF ProcOf[v] = p THEN job'[v] = NoJob
                             ELSE pc'[v] = pc[v] /\ job'[v] = job[v]
    BY <1>2 DEF Crash
  <2> QED
    <3>1. ListsOfBatches'
      <4>1. NoJob.todo = {}
        BY DEF NoJob
      <4> QED
        BY <2>1, <4>1 DEF ListsOfBatches
    <3>2. ASSUME NEW v \in Workers PROVE Tries(v) \/ Crash(ProcOf[v])
      <4>1. CASE ProcOf[v] = p
        BY <1>2, <4>1
      <4>2. CASE ProcOf[v] # p
        BY <2>1, <4>2 DEF Tries
      <4> QED
        BY <4>1, <4>2
    <3> QED
      BY <3>1, <3>2
<1>3. CASE UNCHANGED control
  BY <1>3 DEF control, ListsOfBatches, Tries
<1>4. CASE World /\ ~\E p \in Procs : Crash(p)
  <2>1. UNCHANGED control
    BY <1>4 DEF World, BeginFlow, Lapse, Idle, RevokeConsent
  <2> QED
    BY <1>3, <2>1
<1> QED
  BY <1>1, <1>2, <1>3, <1>4 DEF Next, World, vars

\* A batch, however its refreshes end and whatever happens to the rows behind its
\* list, turns to every account of the list before it is over, or its process stops.
THEOREM BatchesTryAll == Spec => BatchTriesAll
<1>1. Init => ListsOfBatches
  BY DEF Init, ListsOfBatches, NoJob
<1>2. IInv /\ ListsOfBatches /\ [Next]_vars => ListsOfBatches'
  BY NextTries
<1>3. IInv /\ ListsOfBatches /\ [Next]_vars =>
          [\A w \in Workers : \/ job[w].todo \subseteq job'[w].todo \cup {job'[w].id}
                              \/ Crash(ProcOf[w])]_vars
  BY NextTries DEF Tries
<1> QED
  BY <1>1, <1>2, <1>3, Invariance, PTL DEF Spec, BatchTriesAll
=============================================================================
