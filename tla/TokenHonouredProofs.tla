------------------------ MODULE TokenHonouredProofs ------------------------
(***************************************************************************)
(* The refresh token of an account is one that the provider honours, for   *)
(* any number of callers, accounts and mailboxes, if no token is idle and  *)
(* one process makes the refreshes (the other processes may do the rest).  *)
(*                                                                         *)
(* The argument is about copies.  A refresh token is in one row of tokens, *)
(* or in the hand of one caller; only the caller that refreshes an account *)
(* has a copy of what is in the account's row.  So a token that dies       *)
(* because the provider replaced it is in no row but the one that this     *)
(* caller is about to write.                                               *)
(***************************************************************************)
EXTENDS TokenManagerProofs

\* The calls that come to refresh_account, and that one process only serves them.
RefreshDuties == Batches \cup {"use", "retry"}

OneRefresher ==
    \A v, w \in Workers :
        Duty[v] \cap RefreshDuties # {} /\ Duty[w] \cap RefreshDuties # {}
            => ProcOf[v] = ProcOf[w]

----------------------------------------------------------------------------
(* Who refreshes has the duty to *)

OnDuty(w) ==
    /\ job[w].op \in Duty[w] \cup {None}
    /\ pc[w] \in {"lock", "refresh", "store", "batch"} => job[w].op \in RefreshDuties

DutyInv == \A w \in Workers : OnDuty(w)

LEMMA InitDuty == Init => DutyInv
BY NoJobType DEF Init, DutyInv, OnDuty

LEMMA ReturnDuty ==
    ASSUME IInv, DutyInv, NEW w \in Workers, Return(w)
    PROVE  DutyInv'
<1>1. Others(w)
  BY ReturnControl DEF IInv, TypeOK
<1>2. OnDuty(w)'
  <2>1. CASE job[w].op \in Batches
    <3>1. pc'[w] = "batch" /\ job'[w].op = job[w].op
      BY <2>1 DEF Return, Goto, IInv, TypeOK, ControlOK, Job
    <3> QED
      BY <2>1, <3>1 DEF DutyInv, OnDuty, RefreshDuties
  <2>2. CASE job[w].op \notin Batches
    BY <2>2, NoJobType DEF Return, Goto, IInv, TypeOK, ControlOK, OnDuty
  <2> QED
    BY <2>1, <2>2
<1> QED
  BY <1>1, <1>2 DEF DutyInv, OnDuty, Others

LEMMA CallDuty ==
    ASSUME IInv, DutyInv, NEW w \in Workers, NEW j, NEW step, Call(w, j, step),
           step \in {"lock", "batch"} => j.op \in RefreshDuties,
           step \notin {"refresh", "store"}
    PROVE  DutyInv'
<1>1. /\ pc'[w] = step /\ job'[w] = j
      /\ \A v \in Workers \ {w} : pc'[v] = pc[v] /\ job'[v] = job[v]
  BY DEF Call, Goto, IInv, TypeOK, ControlOK
<1> QED
  BY <1>1 DEF Call, DutyInv, OnDuty

LEMMA StartDuty ==
    ASSUME IInv, DutyInv, NEW w \in Workers, Start(w)
    PROVE  DutyInv'
<1>1. \A op \in Operations, i \in Ids : JobOn(op, i).op = op
  BY DEF JobOn, NoJob
<1>2. ASSUME NEW i \in Ids, StartUse(w, i) PROVE DutyInv'
  BY <1>1, <1>2, CallDuty DEF StartUse, Operations, RefreshDuties
<1>3. ASSUME NEW i \in Ids, StartRetry(w, i) PROVE DutyInv'
  BY <1>1, <1>3, CallDuty DEF StartRetry, Operations, RefreshDuties
<1>4. ASSUME NEW i \in Ids, StartDisconnect(w, i) \/ StartRemove(w, i) PROVE DutyInv'
  BY <1>1, <1>4, CallDuty DEF StartDisconnect, StartRemove
<1>5. ASSUME NEW op \in Batches, StartBatch(w, op) PROVE DutyInv'
  <2>1. PICK todo : Call(w, [NoJob EXCEPT !.op = op, !.todo = todo], "batch")
    BY <1>5 DEF StartBatch
  <2> DEFINE j == [NoJob EXCEPT !.op = op, !.todo = todo]
  <2>2. Call(w, j, "batch") /\ j.op \in RefreshDuties
    BY <2>1 DEF NoJob, RefreshDuties
  <2> HIDE DEF j
  <2> QED
    BY <2>2, CallDuty
<1>6. ASSUME NEW s \in States, Callback(w, s) PROVE DutyInv'
  BY <1>6, CallDuty DEF Callback, DutyInv, OnDuty
<1> QED
  BY <1>2, <1>3, <1>4, <1>5, <1>6 DEF Start

\* A step within a call.
LEMMA WithinDuty ==
    ASSUME IInv, DutyInv, NEW w \in Workers, NEW step, pc' = [pc EXCEPT ![w] = step],
           \A v \in Workers \ {w} : job'[v] = job[v], job'[w].op = job[w].op,
           step \in {"lock", "refresh", "store", "batch"} =>
               pc[w] \in {"lock", "refresh", "store", "batch"}
    PROVE  DutyInv'
<1>1. pc'[w] = step /\ \A v \in Workers \ {w} : pc'[v] = pc[v]
  BY DEF IInv, TypeOK, ControlOK
<1> QED
  BY <1>1 DEF DutyInv, OnDuty

LEMMA ProceedDuty ==
    ASSUME IInv, DutyInv, NEW w \in Workers, Proceed(w) \/ Acquire(w) \/ Interrupted(w)
    PROVE  DutyInv'
<1>1. CASE Return(w)
  BY <1>1, ReturnDuty
<1>2. CASE BatchNext(w)
  <2>1. ASSUME NEW i \in job[w].todo,
               job' = [job EXCEPT ![w].id = i, ![w].todo = @ \ {i}], Goto(w, "lock")
        PROVE  DutyInv'
    <3>1. job'[w].op = job[w].op /\ \A v \in Workers \ {w} : job'[v] = job[v]
      BY <2>1 DEF IInv, TypeOK, ControlOK, Job
    <3> QED
      BY <1>2, <2>1, <3>1, WithinDuty DEF BatchNext, Goto
  <2>2. CASE job' = [job EXCEPT ![w] = NoJob] /\ Goto(w, "idle")
    BY <2>2, NoJobType DEF Goto, DutyInv, OnDuty, IInv, TypeOK, ControlOK
  <2> QED
    BY <1>2, <2>1, <2>2 DEF BatchNext
<1>3. CASE Acquire(w) /\ ~ Return(w)
  BY <1>3, WithinDuty DEF Acquire, Goto
<1>4. CASE IdpRefresh(w)
  BY <1>4, WithinDuty DEF IdpRefresh, Goto
<1>5. ASSUME NEW e \in Emails, Exchange(w, e) PROVE DutyInv'
  <2>1. job'[w].op = job[w].op /\ \A v \in Workers \ {w} : job'[v] = job[v]
    BY <1>5 DEF Exchange, IInv, TypeOK, ControlOK, Job
  <2> QED
    BY <1>5, <2>1, WithinDuty DEF Exchange, Goto
<1>6. CASE Lookup(w)
  <2>1. job'[w].op = job[w].op /\ \A v \in Workers \ {w} : job'[v] = job[v]
    BY <1>6 DEF Lookup, IInv, TypeOK, ControlOK, Job
  <2> QED
    BY <1>6, <2>1, WithinDuty DEF Lookup, Goto
<1>7. CASE Check(w) \/ (Create(w) /\ ~ Return(w)) \/ Drop(w)
  BY <1>7, WithinDuty DEF Check, Create, Drop, Goto
<1> QED
  BY <1>1, <1>2, <1>3, <1>4, <1>5, <1>6, <1>7
  DEF Proceed, Bump, Store, Refused, Upsert, Mark, Delete, Interrupted

LEMMA NextDuty == IInv /\ DutyInv /\ [Next]_vars => DutyInv'
<1> SUFFICES ASSUME IInv, DutyInv, [Next]_vars PROVE DutyInv'
  OBVIOUS
<1>1. ASSUME NEW p \in Procs, Crash(p) PROVE DutyInv'
  BY <1>1, NoJobType DEF Crash, DutyInv, OnDuty
<1>2. CASE UNCHANGED control
  BY <1>2 DEF control, DutyInv, OnDuty
<1> QED
  BY <1>1, <1>2, StartDuty, ProceedDuty
  DEF Next, World, BeginFlow, Lapse, Idle, RevokeConsent, vars

----------------------------------------------------------------------------
(* Where the refresh tokens are *)

Consents(w) == pc[w] \in {"lookup", "check", "create", "upsert"}
Keeps(w) == InRefresh(w) \/ Consents(w)

Row(i) == RefreshOf(tokens[i])
Hand(w) == RefreshOf(hand[w])
Good(t) == t \in live \cup excused

\* No record is idle, so that none is written back, and each was issued in its turn.
Recent(record) == record.used = 0 /\ record.refresh <= issued[record.owner]

AllRecent ==
    /\ \A i \in DOMAIN tokens : Recent(tokens[i])
    /\ \A w \in Workers : pc[w] # "bump" /\ (Keeps(w) => Recent(hand[w]))

\* No two rows, no two hands, and no row and hand have the same refresh token, except
\* an account's row and the caller that refreshes the account.
Apart ==
    /\ \A i, j \in DOMAIN tokens : Row(i) = Row(j) => i = j
    /\ \A v, w \in Workers : Keeps(v) /\ Keeps(w) /\ Hand(v) = Hand(w) => v = w
    /\ \A i \in DOMAIN tokens, w \in Workers :
           Keeps(w) /\ Row(i) = Hand(w) => InRefresh(w) /\ job[w].id = i

Storing(w, i) == pc[w] = "store" /\ job[w].id = i

AllGood ==
    /\ \A w \in Workers : Keeps(w) /\ pc[w] # "refresh" => Good(Hand(w))
    /\ \A i \in DOMAIN tokens : Good(Row(i)) \/ \E w \in Workers : Storing(w, i)

HInv == NoOrphanToken /\ AllRecent /\ Apart /\ AllGood

LEMMA InitHInv == Init => HInv
<1> SUFFICES ASSUME Init PROVE HInv
  OBVIOUS
<1>1. /\ DOMAIN tokens = DOMAIN Seeded /\ DOMAIN accounts = DOMAIN Seeded
      /\ \A i \in DOMAIN Seeded : /\ tokens[i] = Issue(Lower[Seeded[i].email], 1, 1)
                                  /\ Lower[Seeded[i].email] \in Emails
  BY Population DEF Init, IsTable
<1>2. \A w \in Workers : pc[w] = "idle"
  BY DEF Init
<1>3. NoOrphanToken
  BY <1>1 DEF NoOrphanToken
<1>4. AllRecent
  <2>1. ASSUME NEW i \in DOMAIN tokens PROVE Recent(tokens[i])
    <3>1. issued[Lower[Seeded[i].email]] = 1
      BY <1>1, <2>1 DEF Init
    <3> QED
      BY <1>1, <2>1, <3>1 DEF Recent, Issue
  <2> QED
    BY <1>2, <2>1 DEF AllRecent, Keeps, Consents, InRefresh
<1>5. Apart
  BY <1>1, <1>2, Population DEF Apart, Keeps, Consents, InRefresh, Row, RefreshOf, Issue
<1>6. AllGood
  BY <1>1, <1>2 DEF Init, AllGood, Keeps, Consents, InRefresh, Row, Good
<1> QED
  BY <1>3, <1>4, <1>5, <1>6 DEF HInv

----------------------------------------------------------------------------
(* Steps that copy no token, write none, and kill none *)

\* v lets go of its token; if it was about to store it, the row is good as it is.
LetsGo(v) ==
    /\ ~ Keeps(v)' /\ pc'[v] # "bump"
    /\ \A i \in DOMAIN tokens' : Storing(v, i) => Good(Row(i))'

\* v keeps its token.
Goes(v) ==
    /\ hand'[v] = hand[v]
    /\ \/ pc'[v] = pc[v] /\ job'[v] = job[v]
       \/ Consents(v) /\ Consents(v)'

LEMMA CalmHonoured ==
    ASSUME HInv, NoOrphanToken', issued' = issued,
           live \cup excused \subseteq live' \cup excused',
           \A i \in DOMAIN tokens' : i \in DOMAIN tokens /\ tokens'[i] = tokens[i],
           \A v \in Workers : LetsGo(v) \/ Goes(v)
    PROVE  HInv'
<1>1. ASSUME NEW v \in Workers, Keeps(v)'
      PROVE  /\ Keeps(v) /\ hand'[v] = hand[v] /\ Hand(v)' = Hand(v)
             /\ InRefresh(v) <=> InRefresh(v)'
             /\ pc'[v] # "refresh" => pc[v] # "refresh"
             /\ InRefresh(v) => job'[v] = job[v] /\ pc'[v] = pc[v]
  BY <1>1 DEF LetsGo, Goes, Keeps, Consents, InRefresh, Hand
<1>2. \A i \in DOMAIN tokens' : i \in DOMAIN tokens /\ Row(i)' = Row(i)
  BY DEF Row
<1>3. AllRecent'
  <2>1. \A v \in Workers : pc'[v] # "bump"
    BY DEF LetsGo, Goes, HInv, AllRecent, Consents
  <2> QED
    BY <1>1, <2>1 DEF HInv, AllRecent, Recent
<1>4. Apart'
  <2>1. \A i, j \in DOMAIN tokens' : Row(i)' = Row(j)' => i = j
    BY <1>2 DEF HInv, Apart
  <2>2. \A v, w \in Workers : Keeps(v)' /\ Keeps(w)' /\ Hand(v)' = Hand(w)' => v = w
    BY <1>1 DEF HInv, Apart
  <2>3. ASSUME NEW i \in DOMAIN tokens', NEW w \in Workers, Keeps(w)', Row(i)' = Hand(w)'
        PROVE  InRefresh(w)' /\ job'[w].id = i
    BY <1>1, <1>2, <2>3 DEF HInv, Apart
  <2> QED
    BY <2>1, <2>2, <2>3 DEF Apart
<1>5. AllGood'
  <2>1. ASSUME NEW w \in Workers, Keeps(w)', pc'[w] # "refresh" PROVE Good(Hand(w))'
    BY <1>1, <2>1 DEF HInv, AllGood, Good
  <2>2. ASSUME NEW i \in DOMAIN tokens' PROVE Good(Row(i))' \/ \E w \in Workers : Storing(w, i)'
    <3>1. CASE Good(Row(i))
      BY <1>2, <3>1 DEF Good
    <3>2. ASSUME NEW w \in Workers, Storing(w, i) PROVE Good(Row(i))' \/ Storing(w, i)'
      <4>2. CASE LetsGo(w)
        BY <3>2, <4>2 DEF LetsGo
      <4>3. CASE Goes(w)
        BY <3>2, <4>3 DEF Goes, Storing, Consents
      <4> QED
        BY <4>2, <4>3
    <3> QED
      BY <1>2, <3>1, <3>2 DEF HInv, AllGood
  <2> QED
    BY <2>1, <2>2 DEF AllGood
<1> QED
  BY <1>3, <1>4, <1>5 DEF HInv

\* A step of one caller that ends up with no token, and was not about to store one.
LEMMA EmptyHonoured ==
    ASSUME HInv, NoOrphanToken', NEW w \in Workers, Others(w),
           ~ Keeps(w)', pc'[w] # "bump", pc[w] # "store",
           UNCHANGED <<issued, live, excused>>,
           \A i \in DOMAIN tokens' : i \in DOMAIN tokens /\ tokens'[i] = tokens[i]
    PROVE  HInv'
<1>1. LetsGo(w) /\ \A v \in Workers \ {w} : Goes(v)
  BY DEF LetsGo, Goes, Storing, Others
<1> QED
  BY <1>1, CalmHonoured

LEMMA ReturnHonoured ==
    ASSUME IInv, HInv, NoOrphanToken', NEW w \in Workers, Return(w), pc[w] # "store",
           UNCHANGED <<issued, live, excused>>,
           \A i \in DOMAIN tokens' : i \in DOMAIN tokens /\ tokens'[i] = tokens[i]
    PROVE  HInv'
<1>1. Others(w) /\ pc'[w] \in {"idle", "batch"}
  BY ReturnControl DEF IInv, TypeOK
<1> QED
  BY <1>1, EmptyHonoured DEF Keeps, Consents, InRefresh

\* No token is idle, so that no call begins with a write-back.
LEMMA StartHonoured ==
    ASSUME IInv, HInv, NoOrphanToken', NEW w \in Workers, Start(w)
    PROVE  HInv'
<1>1. UNCHANGED <<tokens, issued, live, excused>>
  BY DEF Start, StartUse, StartRetry, StartDisconnect, StartRemove, StartBatch, Callback, db,
      idp, history
<1>2. \/ \E j, step : /\ step \in {"lock", "drop", "delete", "batch", "exchange"}
                      /\ Call(w, j, step) /\ hand' = hand
      \/ pc' = pc /\ job' = job /\ hand' = hand /\ pc[w] = "idle"
  <2>1. ASSUME NEW i \in Ids, StartUse(w, i) PROVE Call(w, JobOn("use", i), "lock") /\ hand' = hand
    <3>1. i \in DOMAIN tokens => ~ (tokens[i].used > 0)
      BY DEF HInv, AllRecent, Recent
    <3> QED
      BY <2>1, <3>1 DEF StartUse
  <2> QED
    BY <2>1 DEF Start, StartRetry, StartDisconnect, StartRemove, StartBatch, Callback
<1>3. /\ Others(w) /\ pc[w] = "idle"
      /\ pc'[w] \in {"idle", "lock", "drop", "delete", "batch", "exchange"}
  BY <1>2 DEF Call, Goto, Others, IInv, TypeOK, ControlOK
<1> QED
  BY <1>1, <1>3, EmptyHonoured DEF Keeps, Consents, InRefresh

\* The steps of a consent between the provider's answer and the upsert.
LEMMA ConsentHonoured ==
    ASSUME IInv, HInv, NoOrphanToken', NEW w \in Workers,
           Lookup(w) \/ Check(w) \/ (Create(w) /\ ~ Return(w))
    PROVE  HInv'
<1>1. UNCHANGED <<tokens, hand, issued, live, excused>>
  BY DEF Lookup, Check, Create, db, idp, history
<1>2. Goes(w) /\ \A v \in Workers \ {w} : Goes(v)
  BY <1>1 DEF Lookup, Check, Create, Goto, Goes, Consents, IInv, TypeOK, ControlOK
<1> QED
  BY <1>1, <1>2, CalmHonoured

\* A caller that goes away with an answer leaves a row that is excused.
LEMMA InterruptedHonoured ==
    ASSUME IInv, HInv, NoOrphanToken', NEW w \in Workers, Interrupted(w)
    PROVE  HInv'
<1>1. Others(w) /\ pc'[w] \in {"idle", "batch"}
  BY ReturnControl DEF Interrupted, IInv, TypeOK
<1>2. UNCHANGED <<tokens, issued, live>> /\ Excuse({w})
  BY DEF Interrupted, db, idp, history
<1>3. excused \subseteq excused'
  BY <1>2 DEF Excuse
<1>4. ASSUME NEW i \in DOMAIN tokens, Storing(w, i) PROVE Good(Row(i))'
  BY <1>2, <1>4 DEF Excuse, Storing, Good, Row
<1>5. LetsGo(w) /\ \A v \in Workers \ {w} : Goes(v)
  BY <1>1, <1>2, <1>4 DEF LetsGo, Goes, Others, Keeps, Consents, InRefresh
<1> QED
  BY <1>2, <1>3, <1>5, CalmHonoured

LEMMA CrashHonoured ==
    ASSUME IInv, HInv, NoOrphanToken', NEW p \in Procs, Crash(p)
    PROVE  HInv'
<1> DEFINE ws == {w \in Workers : ProcOf[w] = p}
<1>1. UNCHANGED <<tokens, issued, live>> /\ Excuse(ws)
  BY DEF Crash, db, idp, history
<1>2. excused \subseteq excused'
  BY <1>1 DEF Excuse
<1>3. ASSUME NEW w \in ws, NEW i \in DOMAIN tokens, Storing(w, i) PROVE Good(Row(i))'
  BY <1>1, <1>3 DEF Excuse, Storing, Good, Row
<1>4. ASSUME NEW w \in Workers PROVE LetsGo(w) \/ Goes(w)
  <2>1. CASE w \in ws
    <3>1. pc'[w] = "idle"
      BY <2>1 DEF Crash
    <3> QED
      BY <1>1, <1>3, <2>1, <3>1 DEF LetsGo, Keeps, Consents, InRefresh
  <2>2. CASE w \notin ws
    BY <2>2 DEF Crash, Goes
  <2> QED
    BY <2>1, <2>2
<1> QED
  BY <1>1, <1>2, <1>4, CalmHonoured

\* A user who withdraws a consent excuses what dies with it.
LEMMA WorldHonoured ==
    ASSUME IInv, HInv, NoOrphanToken', UNCHANGED <<tokens, control, issued>>,
           live \cup excused \subseteq live' \cup excused'
    PROVE  HInv'
<1>1. \A v \in Workers : Goes(v)
  BY DEF Goes, control
<1> QED
  BY <1>1, CalmHonoured

----------------------------------------------------------------------------
(* Steps that copy, write or kill a token *)

\* The types that the arguments below need.
LEMMA Records ==
    ASSUME IInv
    PROVE  /\ \A i \in DOMAIN tokens : i \in Ids /\ tokens[i] \in TokenRow
           /\ \A w \in Workers : Keeps(w) => hand[w] \in TokenRow
           /\ \A w \in Workers : InRefresh(w) => job[w].id \in Ids
           /\ \A e \in Emails : issued[e] \in Nat
BY RowTypes DEF IInv, TypeOK, ControlOK, Equipped, ProviderOK, Keeps, Consents, InRefresh

\* The next token of a mailbox is nowhere yet.
LEMMA NewToken ==
    ASSUME IInv, HInv, NEW e \in Emails, NEW t, t = [owner |-> e, n |-> issued[e] + 1]
    PROVE  /\ \A i \in DOMAIN tokens : Row(i) # t
           /\ \A w \in Workers : Keeps(w) => Hand(w) # t
<1>1. ASSUME NEW row \in TokenRow, Recent(row), RefreshOf(row) = t PROVE FALSE
  <2>1. row.owner = e /\ row.refresh = issued[e] + 1
    BY <1>1 DEF RefreshOf
  <2>2. row.refresh <= issued[e] /\ issued[e] \in Nat
    BY <1>1, <2>1, Records DEF Recent
  <2> QED
    BY <2>1, <2>2
<1> QED
  BY <1>1, Records DEF HInv, AllRecent, Row, Hand

\* Issuing tokens keeps records recent.
LEMMA StillRecent ==
    ASSUME IInv, NEW row \in TokenRow, Recent(row), NEW e \in Emails,
           issued' = [issued EXCEPT ![e] = issued[e] + 1]
    PROVE  row.used = 0 /\ row.refresh <= issued'[row.owner]
<1>1. /\ issued[row.owner] \in Nat /\ row.refresh \in Nat /\ row.owner \in Emails
      /\ row.refresh <= issued[row.owner]
  BY Records DEF Recent, TokenRow
<1>2. issued'[row.owner] = IF row.owner = e THEN issued[row.owner] + 1 ELSE issued[row.owner]
  BY <1>1 DEF IInv, TypeOK, ProviderOK
<1> QED
  BY <1>1, <1>2 DEF Recent

\* The one process in which accounts are refreshed has one lock for the account: the
\* copy that its holder takes is the only one.
LEMMA AcquireHonoured ==
    ASSUME OneRefresher, IInv, DutyInv, HInv, NoOrphanToken', NEW w \in Workers,
           Acquire(w), ~ Return(w)
    PROVE  HInv'
<1> DEFINE i == job[w].id
<1>1. /\ i \in DOMAIN tokens /\ UNCHANGED <<tokens, issued, live, excused, job>>
      /\ pc[w] = "lock" /\ pc' = [pc EXCEPT ![w] = "refresh"]
      /\ hand' = [hand EXCEPT ![w] = tokens[i]] /\ lock[ProcOf[w]][i] = None
  BY DEF Acquire, LockFree, Goto, db, idp, history
<1>2. /\ pc'[w] = "refresh" /\ hand'[w] = tokens[i]
      /\ \A v \in Workers \ {w} : pc'[v] = pc[v] /\ hand'[v] = hand[v]
  BY <1>1 DEF IInv, TypeOK, ControlOK
<1>3. /\ Hand(w)' = Row(i) /\ InRefresh(w)' /\ Keeps(w)'
      /\ \A v \in Workers \ {w} :
             /\ Hand(v)' = Hand(v) /\ (InRefresh(v) <=> InRefresh(v)')
             /\ Keeps(v) <=> Keeps(v)'
  BY <1>2 DEF Hand, Row, InRefresh, Keeps, Consents
<1>4. \A j : Row(j)' = Row(j)
  BY <1>1 DEF Row
<1>5. ASSUME NEW v \in Workers \ {w}, Keeps(v), Hand(v) = Row(i) PROVE FALSE
  <2>1. InRefresh(v) /\ job[v].id = i
    BY <1>1, <1>5 DEF HInv, Apart
  <2>2. ProcOf[v] = ProcOf[w]
    <3>1. job[v].op \in Duty[v] \cap RefreshDuties /\ job[w].op \in Duty[w] \cap RefreshDuties
      BY <1>1, <2>1, Population DEF DutyInv, OnDuty, InRefresh, RefreshDuties, Operations
    <3> QED
      BY <3>1 DEF OneRefresher
  <2>3. lock[ProcOf[v]][job[v].id] = v /\ v # None
    BY <2>1, Population DEF IInv, Guarded, HoldersRefresh
  <2> QED
    BY <1>1, <2>1, <2>2, <2>3
<1>6. AllRecent'
  <2>1. \A row : Recent(row)' <=> Recent(row)
    BY <1>1 DEF Recent
  <2> QED
    BY <1>1, <1>2, <1>3, <2>1 DEF HInv, AllRecent, Recent
<1>7. Apart'
  <2>1. \A j, k \in DOMAIN tokens' : Row(j)' = Row(k)' => j = k
    BY <1>1, <1>4 DEF HInv, Apart
  <2>2. \A v, u \in Workers : Keeps(v)' /\ Keeps(u)' /\ Hand(v)' = Hand(u)' => v = u
    BY <1>3, <1>5 DEF HInv, Apart
  <2>3. \A j \in DOMAIN tokens', v \in Workers :
            Keeps(v)' /\ Row(j)' = Hand(v)' => InRefresh(v)' /\ job'[v].id = j
    BY <1>1, <1>3, <1>4 DEF HInv, Apart
  <2> QED
    BY <2>1, <2>2, <2>3 DEF Apart
<1>8. AllGood'
  <2>1. \A v \in Workers, j \in DOMAIN tokens : Storing(v, j) => Storing(v, j)'
    BY <1>1, <1>2 DEF Storing
  <2>2. \A t : Good(t)' <=> Good(t)
    BY <1>1 DEF Good
  <2>3. \A v \in Workers : Keeps(v)' /\ pc'[v] # "refresh" => Good(Hand(v)')
    BY <1>2, <1>3 DEF HInv, AllGood
  <2> QED
    BY <1>1, <1>4, <2>1, <2>2, <2>3 DEF HInv, AllGood, Good
<1> QED
  BY <1>6, <1>7, <1>8 DEF HInv

\* The provider may replace the token it is shown; the only row that may have it is
\* about to be written.
LEMMA IdpRefreshHonoured ==
    ASSUME IInv, HInv, NoOrphanToken', NEW w \in Workers, IdpRefresh(w)
    PROVE  HInv'
<1> DEFINE e == hand[w].owner
           n == issued[e] + 1
           t == [owner |-> e, n |-> n]
           i == job[w].id
<1>1. /\ pc[w] = "refresh" /\ UNCHANGED <<tokens, job, excused>>
      /\ pc' = [pc EXCEPT ![w] = "store"] /\ issued' = [issued EXCEPT ![e] = n]
      /\ Hand(w) \in live
  BY DEF IdpRefresh, IssueAccess, Goto, db, history, Hand
<1>2. hand[w] \in TokenRow /\ e \in Emails /\ issued[e] \in Nat /\ i \in Ids
  BY <1>1, Records DEF Keeps, InRefresh, TokenRow
<1>3. PICK rotation \in {"keep", "rotate", "replace"} :
          /\ hand' = [hand EXCEPT ![w] = Issue(e, n, NextRefresh(hand[w], n, rotation))]
          /\ live' = StillLive(hand[w], n, rotation)
  BY Bounds DEF IdpRefresh
<1>4. /\ pc'[w] = "store" /\ hand'[w] = Issue(e, n, NextRefresh(hand[w], n, rotation))
      /\ \A v \in Workers \ {w} : pc'[v] = pc[v] /\ hand'[v] = hand[v]
  BY <1>1, <1>3 DEF IInv, TypeOK, ControlOK
<1>5. /\ Hand(w)' = IF rotation = "keep" THEN Hand(w) ELSE t
      /\ InRefresh(w) /\ Keeps(w) /\ InRefresh(w)' /\ Keeps(w)'
      /\ \A v \in Workers \ {w} :
             /\ Hand(v)' = Hand(v) /\ (InRefresh(v) <=> InRefresh(v)')
             /\ Keeps(v) <=> Keeps(v)'
  BY <1>1, <1>4 DEF Hand, RefreshOf, Issue, NextRefresh, InRefresh, Keeps, Consents
<1>6. Hand(w)' \in live' /\ live \ {Hand(w)} \subseteq live'
  BY <1>1, <1>3, <1>5 DEF StillLive, Hand
<1>7. /\ \A j \in DOMAIN tokens : Row(j) # t
      /\ \A v \in Workers : Keeps(v) => Hand(v) # t
  BY <1>2, NewToken
<1>8. \A j : Row(j)' = Row(j)
  BY <1>1 DEF Row
<1>9. \A v \in Workers \ {w} : Keeps(v) => Hand(v) # Hand(w)
  BY <1>5 DEF HInv, Apart
<1> HIDE DEF t
<1>10. AllRecent'
  <2>1. \A j \in DOMAIN tokens : Recent(tokens[j])'
    BY <1>1, <1>2, StillRecent, Records DEF HInv, AllRecent, Recent
  <2>2. \A v \in Workers \ {w} : pc'[v] # "bump" /\ (Keeps(v)' => Recent(hand[v])')
    <3> SUFFICES ASSUME NEW v \in Workers \ {w}
                 PROVE  pc'[v] # "bump" /\ (Keeps(v) => hand[v].used = 0 /\ hand[v].refresh <= issued'[hand[v].owner])
      BY <1>4, <1>5 DEF Recent
    <3> QED
      BY <1>1, <1>2, <1>4, StillRecent, Records DEF HInv, AllRecent
  <2>3. Recent(hand[w])'
    <3>1. hand[w].refresh \in Nat /\ hand[w].refresh <= issued[e]
      BY <1>2, <1>5 DEF HInv, AllRecent, Recent, TokenRow
    <3>2. issued'[e] = n
      BY <1>1, <1>2 DEF IInv, TypeOK, ProviderOK
    <3>3. hand'[w].used = 0 /\ hand'[w].owner = e /\ hand'[w].refresh \in {hand[w].refresh, n}
      BY <1>4 DEF Issue, NextRefresh
    <3> QED
      BY <1>2, <3>1, <3>2, <3>3 DEF Recent
  <2> QED
    BY <1>1, <1>4, <2>1, <2>2, <2>3 DEF AllRecent
<1>11. Apart'
  <2>1. \A j, k \in DOMAIN tokens' : Row(j)' = Row(k)' => j = k
    BY <1>1, <1>8 DEF HInv, Apart
  <2>2. \A v, u \in Workers : Keeps(v)' /\ Keeps(u)' /\ Hand(v)' = Hand(u)' => v = u
    BY <1>5, <1>7, <1>9 DEF HInv, Apart
  <2>3. \A j \in DOMAIN tokens', v \in Workers :
            Keeps(v)' /\ Row(j)' = Hand(v)' => InRefresh(v)' /\ job'[v].id = j
    BY <1>1, <1>5, <1>7, <1>8 DEF HInv, Apart
  <2> QED
    BY <2>1, <2>2, <2>3 DEF Apart
<1>12. AllGood'
  <2>1. \A u : Good(u) /\ u # Hand(w) => Good(u)'
    BY <1>1, <1>6 DEF Good
  <2>2. ASSUME NEW v \in Workers, Keeps(v)', pc'[v] # "refresh" PROVE Good(Hand(v))'
    <3>1. CASE v = w
      BY <1>6, <3>1 DEF Good
    <3>2. CASE v # w
      BY <1>4, <1>5, <1>6, <1>9, <1>1, <2>2, <3>2 DEF HInv, AllGood, Good
    <3> QED
      BY <3>1, <3>2
  <2>3. ASSUME NEW j \in DOMAIN tokens' PROVE Good(Row(j))' \/ \E v \in Workers : Storing(v, j)'
    <3>1. CASE j = i
      BY <1>1, <1>4, <3>1 DEF Storing
    <3>2. CASE j # i
      <4>1. Row(j) # Hand(w)
        BY <1>1, <1>5, <3>2 DEF HInv, Apart
      <4>2. \A v \in Workers : Storing(v, j) => Storing(v, j)'
        BY <1>1, <1>4 DEF Storing
      <4>3. Good(Row(j)) => Good(Row(j))'
        BY <1>1, <1>6, <1>8, <4>1 DEF Good
      <4> QED
        BY <1>1, <4>2, <4>3 DEF HInv, AllGood
    <3> QED
      BY <3>1, <3>2
  <2> QED
    BY <2>2, <2>3 DEF AllGood
<1> QED
  BY <1>10, <1>11, <1>12 DEF HInv

\* A consent brings a token that is new.
LEMMA ExchangeHonoured ==
    ASSUME IInv, HInv, NoOrphanToken', NEW w \in Workers, NEW m \in Emails, Exchange(w, m)
    PROVE  HInv'
<1>0. PICK e \in Emails : e = Lower[m]
  BY Population
<1> DEFINE n == issued[e] + 1
           t == [owner |-> e, n |-> n]
<1>1. /\ pc[w] = "exchange" /\ UNCHANGED <<tokens, excused>>
      /\ pc' = [pc EXCEPT ![w] = "lookup"] /\ issued' = [issued EXCEPT ![e] = n]
      /\ hand' = [hand EXCEPT ![w] = Issue(e, n, n)] /\ live' = live \cup {t}
      /\ job' = [job EXCEPT ![w] = [job[w] EXCEPT !.email = m]]
  BY <1>0 DEF Exchange, IssueAccess, Goto, db, history, IInv, TypeOK, ControlOK
<1>2. issued[e] \in Nat
  BY Records
<1>3. /\ pc'[w] = "lookup" /\ hand'[w] = Issue(e, n, n)
      /\ \A v \in Workers \ {w} : pc'[v] = pc[v] /\ hand'[v] = hand[v] /\ job'[v] = job[v]
  BY <1>1 DEF IInv, TypeOK, ControlOK
<1>4. /\ Hand(w)' = t /\ Keeps(w)' /\ ~ InRefresh(w)'
      /\ \A v \in Workers \ {w} :
             /\ Hand(v)' = Hand(v) /\ (InRefresh(v) <=> InRefresh(v)')
             /\ Keeps(v) <=> Keeps(v)'
  BY <1>3 DEF Hand, RefreshOf, Issue, InRefresh, Keeps, Consents
<1>5. /\ \A j \in DOMAIN tokens : Row(j) # t
      /\ \A v \in Workers : Keeps(v) => Hand(v) # t
  BY NewToken
<1>6. \A j : Row(j)' = Row(j)
  BY <1>1 DEF Row
<1> HIDE DEF t
<1>7. AllRecent'
  <2>1. \A j \in DOMAIN tokens : Recent(tokens[j])'
    BY <1>1, StillRecent, Records DEF HInv, AllRecent, Recent
  <2>2. \A v \in Workers \ {w} : pc'[v] # "bump" /\ (Keeps(v)' => Recent(hand[v])')
    <3> SUFFICES ASSUME NEW v \in Workers \ {w}
                 PROVE  pc'[v] # "bump" /\ (Keeps(v) => hand[v].used = 0 /\ hand[v].refresh <= issued'[hand[v].owner])
      BY <1>3, <1>4 DEF Recent
    <3> QED
      BY <1>1, <1>3, StillRecent, Records DEF HInv, AllRecent
  <2>3. Recent(hand[w])'
    <3>1. issued'[e] = n
      BY <1>1 DEF IInv, TypeOK, ProviderOK
    <3>2. hand'[w].used = 0 /\ hand'[w].owner = e /\ hand'[w].refresh = n
      BY <1>3 DEF Issue
    <3> QED
      BY <1>2, <3>1, <3>2 DEF Recent
  <2> QED
    BY <1>1, <1>3, <2>1, <2>2, <2>3 DEF AllRecent
<1>8. Apart'
  <2>1. \A j, k \in DOMAIN tokens' : Row(j)' = Row(k)' => j = k
    BY <1>1, <1>6 DEF HInv, Apart
  <2>2. \A v, u \in Workers : Keeps(v)' /\ Keeps(u)' /\ Hand(v)' = Hand(u)' => v = u
    BY <1>4, <1>5 DEF HInv, Apart
  <2>3. \A j \in DOMAIN tokens', v \in Workers :
            Keeps(v)' /\ Row(j)' = Hand(v)' => InRefresh(v)' /\ job'[v].id = j
    BY <1>1, <1>3, <1>4, <1>5, <1>6 DEF HInv, Apart
  <2> QED
    BY <2>1, <2>2, <2>3 DEF Apart
<1>9. AllGood'
  <2>1. ASSUME NEW v \in Workers, Keeps(v)', pc'[v] # "refresh" PROVE Good(Hand(v))'
    BY <1>1, <1>3, <1>4, <2>1 DEF HInv, AllGood, Good
  <2>2. ASSUME NEW j \in DOMAIN tokens' PROVE Good(Row(j))' \/ \E v \in Workers : Storing(v, j)'
    <3>1. \A v \in Workers : Storing(v, j) => Storing(v, j)'
      BY <1>1, <1>3 DEF Storing
    <3>2. Good(Row(j)) => Good(Row(j))'
      BY <1>1, <1>6 DEF Good
    <3> QED
      BY <1>1, <3>1, <3>2 DEF HInv, AllGood
  <2> QED
    BY <2>1, <2>2 DEF AllGood
<1> QED
  BY <1>7, <1>8, <1>9 DEF HInv

\* A token moves from a hand into the row of the caller's account.
LEMMA WriteHonoured ==
    ASSUME IInv, HInv, NoOrphanToken', NEW w \in Workers, Store(w) \/ Upsert(w)
    PROVE  HInv'
<1>0. PICK i : i = job[w].id
  OBVIOUS
<1>1. /\ UNCHANGED <<accounts, issued, live, excused>> /\ pc[w] \in {"store", "upsert"}
      /\ tokens' = Upserted(i, hand[w]) /\ Return(w)
  BY <1>0 DEF Store, Upsert, Finish, idp, history
<1>2. Others(w) /\ pc'[w] \in {"idle", "batch"}
  BY <1>1, ReturnControl DEF IInv, TypeOK
<1>3. ~ Keeps(w)' /\ Keeps(w) /\ (InRefresh(w) => pc[w] = "store")
  BY <1>1, <1>2 DEF Keeps, Consents, InRefresh
<1>4. CASE i \notin DOMAIN accounts
  <2>1. tokens' = tokens /\ i \notin DOMAIN tokens
    BY <1>1, <1>4 DEF Upserted, HInv, NoOrphanToken
  <2>2. LetsGo(w) /\ \A v \in Workers \ {w} : Goes(v)
    BY <1>0, <1>2, <1>3, <2>1 DEF LetsGo, Goes, Storing, Others
  <2> QED
    BY <1>1, <2>1, <2>2, CalmHonoured
<1>5. CASE i \in DOMAIN accounts
  <2>1. /\ i \in DOMAIN tokens' /\ tokens'[i] = hand[w] /\ Row(i)' = Hand(w)
        /\ \A j \in DOMAIN tokens' \ {i} :
               j \in DOMAIN tokens /\ tokens'[j] = tokens[j] /\ Row(j)' = Row(j)
    BY <1>1, <1>5 DEF Upserted, Put, Row, Hand
  <2>2. \A v \in Workers \ {w} :
            /\ pc'[v] = pc[v] /\ job'[v] = job[v] /\ hand'[v] = hand[v] /\ Hand(v)' = Hand(v)
            /\ InRefresh(v) <=> InRefresh(v)'
            /\ Keeps(v) <=> Keeps(v)'
    BY <1>2 DEF Others, Hand, InRefresh, Keeps, Consents
  <2>3. \A j \in DOMAIN tokens \ {i} : Row(j) # Hand(w)
    BY <1>0, <1>3 DEF HInv, Apart
  <2>4. \A v \in Workers \ {w} : Keeps(v) => Hand(v) # Hand(w)
    BY <1>3 DEF HInv, Apart
  <2>5. AllRecent'
    <3>1. \A row : Recent(row)' <=> Recent(row)
      BY <1>1 DEF Recent
    <3>2. ASSUME NEW j \in DOMAIN tokens' PROVE Recent(tokens'[j])
      BY <1>3, <2>1 DEF HInv, AllRecent
    <3>3. ASSUME NEW v \in Workers PROVE pc'[v] # "bump" /\ (Keeps(v)' => Recent(hand'[v]))
      BY <1>2, <1>3, <2>2 DEF HInv, AllRecent
    <3> QED
      BY <1>1, <3>2, <3>3 DEF AllRecent, Recent
  <2>6. Apart'
    <3>1. \A j, k \in DOMAIN tokens' : Row(j)' = Row(k)' => j = k
      BY <2>1, <2>3 DEF HInv, Apart
    <3>2. \A v, u \in Workers : Keeps(v)' /\ Keeps(u)' /\ Hand(v)' = Hand(u)' => v = u
      BY <1>3, <2>2 DEF HInv, Apart
    <3>3. \A j \in DOMAIN tokens', v \in Workers :
              Keeps(v)' /\ Row(j)' = Hand(v)' => InRefresh(v)' /\ job'[v].id = j
      BY <1>3, <2>1, <2>2, <2>4 DEF HInv, Apart
    <3> QED
      BY <3>1, <3>2, <3>3 DEF Apart
  <2>7. AllGood'
    <3>1. ASSUME NEW v \in Workers, Keeps(v)', pc'[v] # "refresh" PROVE Good(Hand(v))'
      BY <1>1, <1>3, <2>2, <3>1 DEF HInv, AllGood, Good
    <3>2. Good(Row(i))'
      BY <1>1, <1>3, <2>1 DEF HInv, AllGood, Good
    <3>3. ASSUME NEW j \in DOMAIN tokens' \ {i}
          PROVE  Good(Row(j))' \/ \E v \in Workers : Storing(v, j)'
      <4>1. \A v \in Workers : Storing(v, j) => v # w /\ Storing(v, j)'
        BY <1>0, <2>2, <3>3 DEF Storing
      <4>2. Good(Row(j)) => Good(Row(j))'
        BY <1>1, <2>1, <3>3 DEF Good
      <4> QED
        BY <2>1, <3>3, <4>1, <4>2 DEF HInv, AllGood
    <3> QED
      BY <3>1, <3>2, <3>3 DEF AllGood
  <2> QED
    BY <2>5, <2>6, <2>7 DEF HInv
<1> QED
  BY <1>4, <1>5

----------------------------------------------------------------------------
(* The theorem *)

LEMMA NextHonoured ==
    ASSUME IdleCap = 0, OneRefresher
    PROVE  IInv /\ DutyInv /\ HInv /\ [Next]_vars => HInv'
<1> SUFFICES ASSUME IInv, DutyInv, HInv, [Next]_vars PROVE HInv'
  OBVIOUS
<1>1. NoOrphanToken'
  BY NextNoOrphan DEF HInv
<1>2. ASSUME NEW w \in Workers, Refused(w) \/ Mark(w) \/ Delete(w) PROVE HInv'
  <2>1. CASE pc[w] = "store"
    BY <1>2, <2>1 DEF Refused, Mark, Delete
  <2>2. /\ Return(w) /\ UNCHANGED <<issued, live, excused>>
        /\ \A i \in DOMAIN tokens' : i \in DOMAIN tokens /\ tokens'[i] = tokens[i]
    BY <1>2 DEF Refused, Mark, Delete, Finish, Without, Restrict, db, idp, history
  <2> QED
    BY <1>1, <2>1, <2>2, ReturnHonoured
<1>3. ASSUME NEW w \in Workers, BatchNext(w) \/ Drop(w) PROVE HInv'
  <2>1. /\ Others(w) /\ pc'[w] \in {"lock", "idle", "mark"} /\ pc[w] # "store"
        /\ UNCHANGED <<issued, live, excused>>
    BY <1>3 DEF BatchNext, Drop, Goto, Others, IInv, TypeOK, ControlOK, idp, history
  <2>2. \A i \in DOMAIN tokens' : i \in DOMAIN tokens /\ tokens'[i] = tokens[i]
    BY <1>3 DEF BatchNext, Drop, Without, Restrict, db
  <2> QED
    BY <1>1, <2>1, <2>2, EmptyHonoured DEF Keeps, Consents, InRefresh
<1>4. ASSUME NEW w \in Workers, Create(w), Return(w) PROVE HInv'
  BY <1>1, <1>4, ReturnHonoured DEF Create, idp, history
<1>5. ASSUME NEW w \in Workers, Acquire(w), Return(w) PROVE HInv'
  BY <1>1, <1>5, ReturnHonoured DEF Acquire, db, idp, history
<1>6. ASSUME NEW w \in Workers, Proceed(w) PROVE HInv'
  <2>1. ~ Bump(w)
    BY DEF Bump, HInv, AllRecent
  <2> QED
    BY <1>1, <1>2, <1>3, <1>4, <1>6, <2>1, IdpRefreshHonoured, WriteHonoured, ExchangeHonoured,
       ConsentHonoured DEF Proceed
<1>7. ASSUME NEW w \in Workers, Start(w) \/ Acquire(w) \/ Interrupted(w) PROVE HInv'
  BY <1>1, <1>5, <1>7, StartHonoured, AcquireHonoured, InterruptedHonoured
<1>8. CASE World
  <2>1. ASSUME NEW i \in Ids PROVE ~ Idle(i)
    BY DEF Idle, HInv, AllRecent, Recent
  <2>2. ASSUME NEW e \in Emails, RevokeConsent(e) PROVE HInv'
    BY <1>1, <2>2, WorldHonoured DEF RevokeConsent, db
  <2>3. ASSUME NEW i \in Ids, Lapse(i) PROVE HInv'
    BY <1>1, <2>3, WorldHonoured DEF Lapse, db, history
  <2>4. ASSUME NEW s \in States, NEW t \in Tenants, BeginFlow(s, t) PROVE HInv'
    BY <1>1, <2>4, WorldHonoured DEF BeginFlow, db, idp, history
  <2> QED
    BY <1>1, <1>8, <2>1, <2>2, <2>3, <2>4, CrashHonoured DEF World
<1>9. CASE UNCHANGED vars
  BY <1>1, <1>9, WorldHonoured DEF vars, db, idp, history
<1> QED
  BY <1>6, <1>7, <1>8, <1>9 DEF Next

\* README.md:258-262: however refreshes, consents, disconnections, removals, lost
\* callers and crashes overlap, the refresh token in the table is one the provider
\* honours, unless a refresh is about to replace it, the user withdrew the consent, or
\* the answer that replaced it was lost.
THEOREM StoredTokensHonoured ==
    ASSUME IdleCap = 0, OneRefresher
    PROVE  Spec => []StoredTokenHonoured
<1>1. HInv => StoredTokenHonoured
  BY DEF HInv, AllGood, StoredTokenHonoured, Good, Row, Storing
<1> QED
  BY <1>1, InitIInv, NextIInv, InitDuty, NextDuty, InitHInv, NextHonoured, PTL DEF Spec
=============================================================================
