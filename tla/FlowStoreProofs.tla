--------------------------- MODULE FlowStoreProofs ---------------------------
(***************************************************************************)
(* Theorems about FlowStore, for every set of states, tenants and keys and *)
(* every FLOW_TTL_SECS, whether or not storage fails.                      *)
(*                                                                         *)
(* SingleUse and HonouredInTime are not inductive alone: that a state is   *)
(* not honoured twice rests on where it is.  A minted state is in a draft, *)
(* or its URL was opened; only opened states are in the table, with the    *)
(* tenant and the time of their URL; and an honoured state has left the    *)
(* table for good.  Whereabouts says so.                                   *)
(***************************************************************************)
EXTENDS FlowStore, TLAPS

Whereabouts ==
    /\ \A d \in drafts : d.state \in minted /\ d.state \notin DOMAIN opened
    /\ \A d, e \in drafts : d.state = e.state => d = e
    /\ DOMAIN opened \subseteq minted
    /\ \A s \in DOMAIN flows :
          /\ s \in DOMAIN opened
          /\ flows[s].tenant = opened[s].tenant
          /\ flows[s].created = opened[s].created
    /\ \A i \in 1..Len(honoured) :
          honoured[i].state \in DOMAIN opened \ DOMAIN flows

IInv == TypeOK /\ Whereabouts /\ SingleUse /\ HonouredInTime

----------------------------------------------------------------------------
(* Tables *)

\* What Without does to a table's domain, its rows, and its type.
LEMMA WithoutTable ==
    ASSUME NEW K, NEW R, NEW f, IsTable(f, K, R), NEW ks
    PROVE  /\ IsTable(Without(f, ks), K, R)
           /\ DOMAIN Without(f, ks) = DOMAIN f \ ks
           /\ \A x \in DOMAIN f \ ks : Without(f, ks)[x] = f[x]
BY DEF Without, IsTable, Restrict

LEMMA EmptyIsTable ==
    ASSUME NEW K, NEW R
    PROVE  IsTable(EmptyTable, K, R) /\ DOMAIN EmptyTable = {}
BY DEF EmptyTable, IsTable

----------------------------------------------------------------------------
(* The inductive invariant *)

LEMMA InitIInv == Init => IInv
<1> SUFFICES ASSUME Init PROVE IInv
  OBVIOUS
<1>1. DOMAIN EmptyTable = {}
  BY EmptyIsTable
<1>2. TypeOK
  BY EmptyIsTable DEF Init, TypeOK, Honour
<1>3. Whereabouts
  BY <1>1 DEF Init, Whereabouts
<1>4. SingleUse /\ HonouredInTime
  BY DEF Init, SingleUse, HonouredInTime
<1> QED
  BY <1>2, <1>3, <1>4 DEF IInv

LEMMA StartInsertIInv ==
    ASSUME IInv, NEW s \in States, NEW t \in Tenants, StartInsert(s, t)
    PROVE  IInv'
<1> USE DEF IInv, StartInsert, Mint
<1>1. TypeOK'
  BY DEF TypeOK, Draft
<1>2. Whereabouts'
  BY DEF TypeOK, Whereabouts, Draft
<1>3. SingleUse' /\ HonouredInTime'
  BY DEF SingleUse, HonouredInTime
<1> QED
  BY <1>1, <1>2, <1>3

LEMMA FinishInsertIInv ==
    ASSUME IInv, NEW d \in drafts, FinishInsert(d)
    PROVE  IInv'
<1> DEFINE url == [tenant |-> d.tenant, created |-> d.created]
           row == [tenant |-> d.tenant, created |-> d.created, key |-> key]
<1>1. /\ d \in Draft /\ url \in Url /\ row \in Row
      /\ d.state \in States /\ d.state \in minted
      /\ d.state \notin DOMAIN opened /\ d.state \notin DOMAIN flows
  BY DEF IInv, TypeOK, Whereabouts, Draft, Url, Row
<1>2. /\ IsTable(opened', States, Url)
      /\ DOMAIN opened' = DOMAIN opened \cup {d.state}
      /\ opened'[d.state] = url
      /\ \A s \in DOMAIN opened : opened'[s] = opened[s]
  <2>1. opened' = Put(opened, d.state, url) /\ IsTable(opened, States, Url)
    BY DEF FinishInsert, IInv, TypeOK
  <2> HIDE DEF url
  <2>2. /\ IsTable(Put(opened, d.state, url), States, Url)
        /\ DOMAIN Put(opened, d.state, url) = DOMAIN opened \cup {d.state}
        /\ Put(opened, d.state, url)[d.state] = url
        /\ \A x \in DOMAIN opened : x # d.state =>
               Put(opened, d.state, url)[x] = opened[x]
    BY <2>1, <1>1 DEF Put, IsTable
  <2> QED
    BY <2>1, <2>2, <1>1
<1>3. /\ IsTable(flows', States, Row)
      /\ DOMAIN flows' \subseteq DOMAIN flows \cup {d.state}
      /\ \A s \in DOMAIN flows \cap DOMAIN flows' : flows'[s] = flows[s]
      /\ d.state \in DOMAIN flows' => flows'[d.state] = row
  <2>1. PICK purged \in PurgeOutcomes(d.created), kept \in InsertOutcomes :
            flows' = IF kept THEN Put(Without(flows, purged), d.state, row)
                             ELSE Without(flows, purged)
    BY DEF FinishInsert, FlowKey
  <2>2. /\ IsTable(Without(flows, purged), States, Row)
        /\ DOMAIN Without(flows, purged) = DOMAIN flows \ purged
        /\ \A s \in DOMAIN flows \ purged : Without(flows, purged)[s] = flows[s]
    <3>1. IsTable(flows, States, Row)
      BY DEF IInv, TypeOK
    <3> QED
      BY <3>1 DEF Without, IsTable, Restrict
  <2> HIDE DEF row
  <2>3. CASE kept
    <3> DEFINE rest == Without(flows, purged)
    <3> HIDE DEF rest
    <3>1. /\ IsTable(Put(rest, d.state, row), States, Row)
          /\ DOMAIN Put(rest, d.state, row) = DOMAIN rest \cup {d.state}
          /\ Put(rest, d.state, row)[d.state] = row
          /\ \A x \in DOMAIN rest : x # d.state => Put(rest, d.state, row)[x] = rest[x]
      <4>1. IsTable(rest, States, Row)
        BY <2>2 DEF rest
      <4> QED
        BY <4>1, <1>1 DEF Put, IsTable
    <3>2. flows' = Put(rest, d.state, row)
      BY <2>1, <2>3 DEF rest
    <3> QED
      BY <3>1, <3>2, <2>2, <1>1 DEF rest
  <2>4. CASE ~kept
    BY <2>1, <2>2, <2>4, <1>1
  <2> QED
    BY <2>3, <2>4
<1>4. TypeOK'
  BY <1>2, <1>3 DEF IInv, TypeOK, FinishInsert
<1>5. Whereabouts'
  <2>1. \A e \in drafts' : e.state \in minted' /\ e.state \notin DOMAIN opened'
    BY <1>2 DEF IInv, Whereabouts, FinishInsert
  <2>2. \A e, f \in drafts' : e.state = f.state => e = f
    BY DEF IInv, Whereabouts, FinishInsert
  <2>3. DOMAIN opened' \subseteq minted'
    BY <1>1, <1>2 DEF IInv, Whereabouts, FinishInsert
  <2>4. ASSUME NEW s \in DOMAIN flows'
        PROVE  /\ s \in DOMAIN opened'
               /\ flows'[s].tenant = opened'[s].tenant
               /\ flows'[s].created = opened'[s].created
    BY <1>1, <1>2, <1>3 DEF IInv, Whereabouts
  <2>5. \A i \in 1..Len(honoured') : honoured'[i].state \in DOMAIN opened' \ DOMAIN flows'
    BY <1>1, <1>2, <1>3 DEF IInv, Whereabouts, FinishInsert
  <2> QED
    BY <2>1, <2>2, <2>3, <2>4, <2>5 DEF Whereabouts
<1>6. SingleUse'
  BY DEF IInv, SingleUse, FinishInsert
<1>7. HonouredInTime'
  BY <1>1, <1>2 DEF IInv, HonouredInTime, FinishInsert
<1> QED
  BY <1>4, <1>5, <1>6, <1>7 DEF IInv

----------------------------------------------------------------------------
\* Consuming a flow takes its row and nothing else out of the tables.
LEMMA ConsumeRow ==
    ASSUME IInv, NEW s \in States, Consume(s)
    PROVE  /\ IsTable(flows', States, Row)
           /\ DOMAIN flows' = DOMAIN flows \ {s}
           /\ \A x \in DOMAIN flows' : flows'[x] = flows[x]
           /\ s \in DOMAIN flows /\ flows[s] \in Row
<1>1. IsTable(flows, States, Row) /\ s \in DOMAIN flows /\ flows' = Without(flows, {s})
  BY DEF Consume, IInv, TypeOK
<1>2. flows[s] \in Row
  BY <1>1 DEF IsTable
<1>3. /\ DOMAIN flows' = DOMAIN flows \ {s}
      /\ \A x \in DOMAIN flows' : flows'[x] = flows[x]
  BY <1>1 DEF Without, Restrict
<1>4. IsTable(flows', States, Row)
  BY <1>1 DEF Without, Restrict, IsTable
<1> QED
  BY <1>1, <1>2, <1>3, <1>4

LEMMA TakeHonouredIInv ==
    ASSUME IInv, NEW s \in States, TakeHonoured(s)
    PROVE  IInv'
<1>1. Consume(s) /\ honoured' = Append(honoured, Flow(s)) /\ ~Expired(s)
  BY DEF TakeHonoured
<1>2. /\ IsTable(flows', States, Row)
      /\ DOMAIN flows' = DOMAIN flows \ {s}
      /\ \A x \in DOMAIN flows' : flows'[x] = flows[x]
      /\ s \in DOMAIN flows /\ flows[s] \in Row
  BY <1>1, ConsumeRow
<1>3. /\ drafts' = drafts /\ key' = key /\ now' = now
      /\ minted' = minted /\ opened' = opened
  BY <1>1 DEF Consume
<1>4. Flow(s) \in Honour /\ Flow(s).state = s
  BY <1>2 DEF Flow, Honour, Row, IInv, TypeOK
<1>5. /\ honoured \in Seq(Honour) /\ honoured' \in Seq(Honour)
      /\ Len(honoured') = Len(honoured) + 1
      /\ honoured'[Len(honoured')] = Flow(s)
      /\ \A i \in 1..Len(honoured) : honoured'[i] = honoured[i]
  BY <1>1, <1>4 DEF IInv, TypeOK
<1>6. TypeOK'
  BY <1>2, <1>3, <1>5 DEF IInv, TypeOK
<1>7. \A i \in 1..Len(honoured) : honoured[i].state \in DOMAIN opened \ DOMAIN flows
  BY DEF IInv, Whereabouts
<1>8. s \in DOMAIN opened /\ flows[s].tenant = opened[s].tenant
                          /\ flows[s].created = opened[s].created
  BY <1>2 DEF IInv, Whereabouts
<1>9. Whereabouts'
  <2>1. \A i \in 1..Len(honoured') : honoured'[i].state \in DOMAIN opened' \ DOMAIN flows'
    BY <1>2, <1>3, <1>4, <1>5, <1>7, <1>8
  <2> QED
    BY <2>1, <1>2, <1>3 DEF IInv, Whereabouts
<1>10. SingleUse'
  BY <1>2, <1>4, <1>5, <1>7 DEF IInv, SingleUse
<1>11. HonouredInTime'
  <2>1. Flow(s).tenant = opened[s].tenant /\ Flow(s).at - opened[s].created <= TTL
    BY <1>1, <1>2, <1>8, FlowConstants DEF Flow, Expired, Row, IInv, TypeOK
  <2> QED
    BY <2>1, <1>3, <1>4, <1>5, <1>8 DEF IInv, HonouredInTime
<1> QED
  BY <1>6, <1>9, <1>10, <1>11 DEF IInv

LEMMA TakeRejectedIInv ==
    ASSUME IInv, NEW s \in States, TakeRejected(s)
    PROVE  IInv'
<1>1. /\ IsTable(flows', States, Row)
      /\ DOMAIN flows' = DOMAIN flows \ {s}
      /\ \A x \in DOMAIN flows' : flows'[x] = flows[x]
  BY ConsumeRow DEF TakeRejected
<1>2. UNCHANGED <<drafts, key, now, minted, opened, honoured>>
  BY DEF TakeRejected, Consume
<1>3. TypeOK'
  BY <1>1, <1>2 DEF IInv, TypeOK
<1>4. Whereabouts'
  BY <1>1, <1>2 DEF IInv, Whereabouts
<1>5. SingleUse' /\ HonouredInTime'
  BY <1>2 DEF IInv, SingleUse, HonouredInTime
<1> QED
  BY <1>3, <1>4, <1>5 DEF IInv

LEMMA WorldIInv ==
    ASSUME IInv, Tick \/ Restart \/ UNCHANGED vars
    PROVE  IInv'
<1>1. CASE Tick
  BY <1>1 DEF Tick, IInv, TypeOK, Whereabouts, SingleUse, HonouredInTime
<1>2. CASE Restart
  BY <1>2 DEF Restart, IInv, TypeOK, Whereabouts, SingleUse, HonouredInTime
<1>3. CASE UNCHANGED vars
  BY <1>3 DEF vars, IInv, TypeOK, Whereabouts, SingleUse, HonouredInTime
<1> QED
  BY <1>1, <1>2, <1>3

LEMMA NextIInv == IInv /\ [Next]_vars => IInv'
<1> SUFFICES ASSUME IInv, [Next]_vars PROVE IInv'
  OBVIOUS
<1>1. ASSUME NEW s \in States, NEW t \in Tenants, StartInsert(s, t) PROVE IInv'
  BY <1>1, StartInsertIInv
<1>2. ASSUME NEW d \in drafts, FinishInsert(d) PROVE IInv'
  BY <1>2, FinishInsertIInv
<1>3. ASSUME NEW s \in States, TakeHonoured(s) PROVE IInv'
  BY <1>3, TakeHonouredIInv
<1>4. ASSUME NEW s \in States, TakeRejected(s) PROVE IInv'
  BY <1>4, TakeRejectedIInv
<1>5. CASE Tick \/ Restart \/ UNCHANGED vars
  BY <1>5, WorldIInv
<1> QED
  BY <1>1, <1>2, <1>3, <1>4, <1>5 DEF Next

\* In every behaviour of the flow store the variables have their types, and states
\* are where flows.rs keeps them.
THEOREM Invariance == Spec => []IInv
  BY InitIInv, NextIInv, PTL DEF Spec

\* flows.rs:98: take() honours a state at most once.
THEOREM FlowSingleUse == Spec => []SingleUse
<1>1. IInv => SingleUse
  BY DEF IInv
<1> QED
  BY <1>1, Invariance, PTL

\* flows.rs:102: an honoured flow is one whose URL was handed out, for its tenant,
\* no more than FLOW_TTL_SECS ago.
THEOREM FlowHonouredInTime == Spec => []HonouredInTime
<1>1. IInv => HonouredInTime
  BY DEF IInv
<1> QED
  BY <1>1, Invariance, PTL

\* Every variable of the flow store has its type.
THEOREM FlowTypeOK == Spec => []TypeOK
<1>1. IInv => TypeOK
  BY DEF IInv
<1> QED
  BY <1>1, Invariance, PTL

----------------------------------------------------------------------------
(* What leaves the table *)

\* insert() carries a time that has come, however long it waits for the connection.
Punctual == \A d \in drafts : d.created <= now

LEMMA NextPunctual == IInv /\ Punctual /\ [Next]_vars => Punctual'
<1> SUFFICES ASSUME IInv, Punctual, [Next]_vars PROVE Punctual'
  OBVIOUS
<1>1. now \in Nat /\ \A d \in drafts : d.created \in Nat
  BY DEF IInv, TypeOK, Draft
<1>2. ASSUME NEW s \in States, NEW t \in Tenants, StartInsert(s, t) PROVE Punctual'
  BY <1>1, <1>2 DEF StartInsert, Punctual
<1>3. ASSUME NEW d \in drafts, FinishInsert(d) PROVE Punctual'
  BY <1>3 DEF FinishInsert, Punctual
<1>4. ASSUME NEW s \in States, TakeHonoured(s) \/ TakeRejected(s) PROVE Punctual'
  BY <1>4 DEF TakeHonoured, TakeRejected, Consume, Punctual
<1>5. CASE Tick \/ Restart \/ UNCHANGED vars
  BY <1>1, <1>5 DEF Tick, Restart, vars, Punctual
<1> QED
  BY <1>2, <1>3, <1>4, <1>5 DEF Next

\* A row that a step removes is out of date, unreadable, or honoured by this step.
RightlyGone ==
    \A s \in DOMAIN flows \ DOMAIN flows' :
        \/ now - flows[s].created >= TTL
        \/ flows[s].key # key
        \/ honoured' = Append(honoured, Flow(s))

LEMMA FinishInsertKeeps ==
    ASSUME IInv, Punctual, NEW d \in drafts, FinishInsert(d),
           NEW s \in DOMAIN flows \ DOMAIN flows'
    PROVE  now - flows[s].created >= TTL
<1>1. PICK purged \in PurgeOutcomes(d.created) :
          DOMAIN Without(flows, purged) \subseteq DOMAIN flows'
  <2>1. \A f, k, row : DOMAIN f \subseteq DOMAIN Put(f, k, row)
    BY DEF Put
  <2> QED
    BY <2>1 DEF FinishInsert
<1>2. s \in purged
  <2>1. DOMAIN Without(flows, purged) = DOMAIN flows \ purged
    BY DEF Without, Restrict
  <2> QED
    BY <1>1, <2>1
<1>3. flows[s].created <= d.created - TTL
  BY <1>1, <1>2 DEF PurgeOutcomes, Purgeable
<1>4. flows[s].created \in Nat /\ d.created \in Nat /\ d.created <= now /\ now \in Nat
  BY DEF IInv, TypeOK, IsTable, Row, Draft, Punctual
<1> QED
  BY <1>3, <1>4, FlowConstants

LEMMA ConsumeKeeps ==
    ASSUME IInv, NEW s \in States, Consume(s), NEW x \in DOMAIN flows \ DOMAIN flows'
    PROVE  x = s
<1>1. DOMAIN flows' = DOMAIN flows \ {s}
  BY DEF Consume, Without, Restrict
<1> QED
  BY <1>1

LEMMA NextKeeps == IInv /\ Punctual /\ [Next]_vars => RightlyGone
<1> SUFFICES ASSUME IInv, Punctual, [Next]_vars PROVE RightlyGone
  OBVIOUS
<1>1. ASSUME NEW d \in drafts, FinishInsert(d) PROVE RightlyGone
  BY <1>1, FinishInsertKeeps DEF RightlyGone
<1>2. ASSUME NEW s \in States, TakeHonoured(s) PROVE RightlyGone
  BY <1>2, ConsumeKeeps DEF RightlyGone, TakeHonoured
<1>3. ASSUME NEW s \in States, TakeRejected(s) PROVE RightlyGone
  <2>1. s \in DOMAIN flows /\ (now - flows[s].created > TTL \/ flows[s].key # key)
    BY <1>3 DEF TakeRejected, Consume, Expired
  <2>2. now \in Nat /\ flows[s].created \in Nat
    BY <2>1 DEF IInv, TypeOK, IsTable, Row
  <2>3. now - flows[s].created >= TTL \/ flows[s].key # key
    BY <2>1, <2>2, FlowConstants
  <2> QED
    BY <1>3, <2>3, ConsumeKeeps DEF RightlyGone, TakeRejected
<1>4. ASSUME UNCHANGED flows PROVE RightlyGone
  BY <1>4 DEF RightlyGone
<1> QED
  BY <1>1, <1>2, <1>3, <1>4 DEF Next, StartInsert, Tick, Restart, vars

\* flows.rs:62-66: the purge of one begin_flow, however late it comes, spares the
\* flows of others that are still valid; so do restarts and rejected callbacks.
THEOREM ValidFlowsSurvive == Spec => ValidFlowSurvives
<1>1. Init => Punctual
  BY DEF Init, Punctual
<1>2. IInv /\ Punctual /\ [Next]_vars => [RightlyGone]_vars
  BY NextKeeps
<1> QED
  BY <1>1, <1>2, Invariance, NextPunctual, PTL DEF Spec, ValidFlowSurvives, RightlyGone

----------------------------------------------------------------------------
(* Refinement *)

\* The pending flows and the minted states that FlowStore implements.
Rows == [s \in DOMAIN flows |-> flows[s].tenant]
Urls == DOMAIN opened

LEMMA InitRegistry == Init => Registry!Init
BY DEF Init, Registry!Init, EmptyTable, Registry!EmptyTable

LEMMA FinishInsertRegistry ==
    ASSUME IInv, NEW d \in drafts, FinishInsert(d)
    PROVE  Registry!Next
<1>1. /\ d.state \in States /\ d.tenant \in Tenants
      /\ d.state \notin DOMAIN opened /\ d.state \notin DOMAIN flows
      /\ DOMAIN flows \subseteq States
  BY DEF IInv, TypeOK, Whereabouts, Draft, IsTable
<1> DEFINE row == [tenant |-> d.tenant, created |-> d.created, key |-> key]
<1>2. PICK purged \in PurgeOutcomes(d.created), kept \in InsertOutcomes :
          flows' = IF kept THEN Put(Without(flows, purged), d.state, row)
                           ELSE Without(flows, purged)
  BY DEF FinishInsert, FlowKey
<1>3. purged \in SUBSET States /\ kept \in BOOLEAN
  BY <1>1 DEF PurgeOutcomes, Purgeable, InsertOutcomes
<1>4. Urls' = Urls \cup {d.state}
  BY DEF FinishInsert, Put, Urls
<1>5. Rows' = IF kept THEN Put(Without(Rows, purged), d.state, d.tenant)
                      ELSE Without(Rows, purged)
  <2>1. CASE kept
    BY <1>1, <1>2, <2>1 DEF Put, Without, Restrict, Rows
  <2>2. CASE ~kept
    BY <1>2, <2>2 DEF Without, Restrict, Rows
  <2> QED
    BY <2>1, <2>2
<1>6. Registry!Begin(d.state, d.tenant, purged, kept)
  BY <1>1, <1>4, <1>5 DEF Registry!Begin, Rows, Urls, Put, Without, Restrict,
      Registry!Put, Registry!Without, Registry!Restrict
<1> QED
  BY <1>1, <1>3, <1>6 DEF Registry!Next

LEMMA ConsumeRegistry ==
    ASSUME IInv, NEW s \in States, Consume(s)
    PROVE  Registry!Next
<1>1. s \in DOMAIN Rows /\ Rows' = Without(Rows, {s}) /\ Urls' = Urls
  BY DEF Consume, Rows, Urls, Without, Restrict
<1>2. Registry!Take(s)
  BY <1>1 DEF Registry!Take, Rows, Urls, Without, Restrict,
      Registry!Without, Registry!Restrict
<1> QED
  BY <1>2 DEF Registry!Next

LEMMA NextRegistry == IInv /\ [Next]_vars => [Registry!Next]_Registry!vars
<1> SUFFICES ASSUME IInv, [Next]_vars PROVE [Registry!Next]_Registry!vars
  OBVIOUS
<1>1. ASSUME NEW s \in States, NEW t \in Tenants, StartInsert(s, t)
      PROVE  UNCHANGED Registry!vars
  BY <1>1 DEF StartInsert, Mint, Registry!vars
<1>2. ASSUME NEW d \in drafts, FinishInsert(d) PROVE Registry!Next
  BY <1>2, FinishInsertRegistry
<1>3. ASSUME NEW s \in States, TakeHonoured(s) \/ TakeRejected(s) PROVE Registry!Next
  BY <1>3, ConsumeRegistry DEF TakeHonoured, TakeRejected
<1>4. CASE Tick \/ Restart \/ UNCHANGED vars
  BY <1>4 DEF Tick, Restart, vars, Registry!vars
<1> QED
  BY <1>1, <1>2, <1>3, <1>4 DEF Next

\* flows.rs implements the abstract registry: every step on the table is a Begin, a
\* Take, or no step of it, so what is proved of PendingFlows holds of the table.
THEOREM FlowStoreImplementsRegistry == Spec => ImplementsPendingFlows
<1>1. Spec => []IInv
  BY Invariance
<1> QED
  BY <1>1, InitRegistry, NextRegistry, PTL DEF Spec, ImplementsPendingFlows, Registry!Spec
=============================================================================
