------------------------ MODULE CallbackServerProofs ------------------------
(***************************************************************************)
(* Theorems about CallbackServer, for any number of requests and flows.    *)
(*                                                                         *)
(* That an outcome is in the slot at the shutdown rests on the order of a  *)
(* handler's last two steps (SlotFilled); that the report is true, on the  *)
(* outcomes that handlers carry to the slot (OutcomesTrue); that it is the *)
(* answer to a request, on who wrote the slot last (SlotIsHeld), on there  *)
(* being no handler before the server listens (NothingBeforeBind), and on  *)
(* there being none after it has drained (HandlersOver).                   *)
(***************************************************************************)
EXTENDS CallbackServer, TLAPS

SlotFilled ==
    phase # "returned" /\ (done = "fired" \/ \E r \in Requests : pc[r] = "signal")
        => slot # None

NothingBeforeBind ==
    phase \in {"begin", "bind"} => done = "armed" /\ \A r \in Requests : pc[r] = "idle"

HandlersOver ==
    phase = "returned" => \A r \in Requests : pc[r] \notin InFlight

\* Whoever wrote the slot last has yet to answer, or has answered just that.
SlotIsHeld ==
    phase # "returned" /\ slot # None =>
        \E r \in Requests : pc[r] \in {"signal", "answered"} /\ held[r] = slot

OutcomesTrue ==
    /\ slot \in States => slot \in connected
    /\ \A r \in Requests :
          pc[r] \in {"store", "signal"} /\ held[r] \in States => held[r] \in connected

IInv ==
    /\ TypeOK
    /\ SlotFilled
    /\ NothingBeforeBind
    /\ HandlersOver
    /\ SlotIsHeld
    /\ ReportIsAnAnswer
    /\ OutcomesTrue
    /\ ReportIsTrue

----------------------------------------------------------------------------
(* The flow table *)

LEMMA BeginKeepsTables ==
    ASSUME NEW s \in States, NEW t \in Tenants, BeginFlow(s, t),
           IsTable(pending, States, Tenants), minted \subseteq States
    PROVE  IsTable(pending', States, Tenants) /\ minted' \subseteq States
<1>1. PICK dropped, kept : Flows!Begin(s, t, dropped, kept)
  BY DEF BeginFlow
<1> DEFINE rest == Without(pending, dropped)
<1>2. IsTable(rest, States, Tenants)
  BY DEF Without, IsTable, Restrict
<1> HIDE DEF rest
<1>3. IsTable(Put(rest, s, t), States, Tenants)
  BY <1>2 DEF Put, IsTable
<1>4. pending' \in {rest, Put(rest, s, t)}
  BY <1>1 DEF Flows!Begin, Flows!Put, Flows!Without, Flows!Restrict, rest, Put,
      Without, Restrict
<1> QED
  BY <1>1, <1>2, <1>3, <1>4 DEF Flows!Begin

LEMMA TakeKeepsTables ==
    ASSUME NEW s, Flows!Take(s), IsTable(pending, States, Tenants)
    PROVE  IsTable(pending', States, Tenants)
BY DEF Flows!Take, Flows!Without, Flows!Restrict, IsTable

----------------------------------------------------------------------------
(* The inductive invariant *)

LEMMA InitIInv == Init => IInv
<1> SUFFICES ASSUME Init PROVE IInv
  OBVIOUS
<1>1. IsTable(pending, States, Tenants) /\ minted \subseteq States
  BY DEF Init, Flows!Init, Flows!EmptyTable, IsTable
<1>2. TypeOK
  BY <1>1 DEF Init, TypeOK, Outcome, Phases
<1>3. SlotFilled /\ NothingBeforeBind /\ HandlersOver /\ SlotIsHeld /\ ReportIsAnAnswer
  BY DEF Init, SlotFilled, NothingBeforeBind, HandlersOver, SlotIsHeld, ReportIsAnAnswer
<1>4. OutcomesTrue /\ ReportIsTrue
  BY Outcomes DEF Init, OutcomesTrue, ReportIsTrue
<1> QED
  BY <1>2, <1>3, <1>4 DEF IInv

\* A handler's step that leaves the command alone and goes on to an outcome that is
\* an error, or the account it has connected.
LEMMA ResolveIInv ==
    ASSUME IInv, NEW r \in Requests, NEW o \in Outcome, Resolve(r, o),
           pc[r] \in {"idle", "take", "exchange"},
           phase = "serving" \/ pc[r] # "idle",
           connected \subseteq connected', connected' \subseteq States,
           o \in States => o \in connected',
           IsTable(pending', States, Tenants), minted' \subseteq States,
           UNCHANGED command
    PROVE  IInv'
<1> USE DEF IInv, TypeOK, Resolve, Goto, command
<1>1. TypeOK'
  BY DEF InFlight, Outcome
<1>2. SlotFilled' /\ NothingBeforeBind' /\ HandlersOver' /\ SlotIsHeld' /\ ReportIsAnAnswer'
  BY DEF SlotFilled, NothingBeforeBind, HandlersOver, SlotIsHeld, ReportIsAnAnswer, InFlight
<1>3. OutcomesTrue' /\ ReportIsTrue'
  BY DEF OutcomesTrue, ReportIsTrue
<1> QED
  BY <1>1, <1>2, <1>3

LEMMA BeginIInv ==
    ASSUME IInv, NEW s \in States, NEW t \in Tenants,
           AddAccount(s, t) \/ ConnectElsewhere(s, t)
    PROVE  IInv'
<1>1. BeginFlow(s, t)
  BY DEF AddAccount, ConnectElsewhere
<1>2. IsTable(pending', States, Tenants) /\ minted' \subseteq States
  BY <1>1, BeginKeepsTables DEF IInv, TypeOK
<1>3. /\ UNCHANGED <<connected, done, slot, reported, handlers>>
      /\ phase' = phase \/ (phase = "begin" /\ phase' = "bind")
  BY DEF AddAccount, ConnectElsewhere, BeginFlow
<1>4. TypeOK'
  BY <1>2, <1>3 DEF IInv, TypeOK, Phases, handlers
<1> QED
  BY <1>3, <1>4 DEF IInv, handlers, SlotFilled, NothingBeforeBind,
                    HandlersOver, SlotIsHeld, ReportIsAnAnswer, OutcomesTrue, ReportIsTrue

LEMMA ServerIInv ==
    ASSUME IInv, Bind \/ Shutdown \/ Return
    PROVE  IInv'
<1> USE Outcomes DEF IInv, TypeOK, Phases, Outcome, flows, handlers, SlotFilled,
                NothingBeforeBind, HandlersOver, SlotIsHeld, ReportIsAnAnswer,
                OutcomesTrue, ReportIsTrue, InFlight
<1>1. CASE Bind
  BY <1>1 DEF Bind
<1>2. CASE Shutdown
  BY <1>2 DEF Shutdown
<1>3. CASE Return
  BY <1>3 DEF Return, Drained
<1> QED
  BY <1>1, <1>2, <1>3

LEMMA HandlerIInv ==
    ASSUME IInv, NEW r \in Requests,
           Stray(r) \/ Abandon(r) \/ Handle(r) \/ \E s \in States : Redirect(r, s)
    PROVE  IInv'
<1> USE Outcomes DEF flows
<1>1. CASE \E s \in States : Redirect(r, s)
  BY <1>1 DEF Redirect, Goto, command, IInv, TypeOK, InFlight, Outcome, SlotFilled,
              NothingBeforeBind, HandlersOver, SlotIsHeld, ReportIsAnAnswer,
              OutcomesTrue, ReportIsTrue
<1>2. CASE Stray(r)
  BY <1>2, ResolveIInv DEF Stray, Outcome, IInv, TypeOK
<1>3. CASE TakeFlow(r)
  <2>1. IsTable(pending', States, Tenants) /\ minted' \subseteq States
    BY <1>3, TakeKeepsTables DEF TakeFlow, IInv, TypeOK, Flows!Take
  <2>2. CASE Resolve(r, Failed)
    BY <1>3, <2>1, <2>2, ResolveIInv DEF TakeFlow, Outcome, IInv, TypeOK
  <2>3. CASE Goto(r, "exchange") /\ UNCHANGED held
    BY <1>3, <2>1, <2>3 DEF TakeFlow, Goto, command, IInv, TypeOK, InFlight, SlotFilled,
              NothingBeforeBind, HandlersOver, SlotIsHeld, ReportIsAnAnswer,
              OutcomesTrue, ReportIsTrue
  <2> QED
    BY <1>3, <2>2, <2>3 DEF TakeFlow
<1>4. CASE Connect(r)
  <2>1. held[r] \in States
    BY <1>4 DEF Connect, IInv, TypeOK
  <2> QED
    BY <1>4, <2>1, ResolveIInv DEF Connect, Outcome, IInv, TypeOK
<1>5. CASE Refuse(r)
  BY <1>5, ResolveIInv DEF Refuse, Outcome, IInv, TypeOK
<1>6. CASE Abandon(r)
  BY <1>6 DEF Abandon, Goto, command, IInv, TypeOK, InFlight, Ended, SlotFilled,
              NothingBeforeBind, HandlersOver, SlotIsHeld, ReportIsAnAnswer,
              OutcomesTrue, ReportIsTrue
<1>7. CASE StoreOutcome(r)
  BY <1>7 DEF StoreOutcome, Goto, IInv, TypeOK, InFlight, Outcome, SlotFilled,
              NothingBeforeBind, HandlersOver, SlotIsHeld, ReportIsAnAnswer,
              OutcomesTrue, ReportIsTrue
<1>8. CASE Signal(r)
  BY <1>8 DEF Signal, Fired, Goto, IInv, TypeOK, InFlight, Ended, SlotFilled,
              NothingBeforeBind, HandlersOver, SlotIsHeld, ReportIsAnAnswer,
              OutcomesTrue, ReportIsTrue
<1> QED
  BY <1>1, <1>2, <1>3, <1>4, <1>5, <1>6, <1>7, <1>8 DEF Handle

LEMMA StepIInv == IInv /\ [Next]_vars => IInv'
<1> SUFFICES ASSUME IInv, [Next]_vars PROVE IInv'
  OBVIOUS
<1>1. CASE Next
  BY <1>1, BeginIInv, ServerIInv, HandlerIInv DEF Next
<1>2. CASE UNCHANGED vars
  BY <1>2 DEF vars, flows, command, handlers, IInv, TypeOK, SlotFilled,
              NothingBeforeBind, HandlersOver, SlotIsHeld, ReportIsAnAnswer,
              OutcomesTrue, ReportIsTrue
<1> QED
  BY <1>1, <1>2

----------------------------------------------------------------------------
(* Theorems *)

LEMMA Invariance == Spec => []IInv
BY InitIInv, StepIInv, PTL DEF Spec

\* A handler always works on a state it was sent, and stores an outcome.
THEOREM CallbackTypeOK == Spec => []TypeOK
<1>1. IInv => TypeOK
  BY DEF IInv
<1> QED
  BY <1>1, Invariance, PTL

\* However many callbacks overlap, the server that shuts down finds an outcome in
\* the slot (callback.rs:101-107).
THEOREM ShutdownFindsOutcome == Spec => []OutcomeBeforeShutdown
<1>1. IInv => OutcomeBeforeShutdown
  BY DEF IInv, SlotFilled, OutcomeBeforeShutdown
<1> QED
  BY <1>1, Invariance, PTL

\* add-account never reports an account that no consent has connected.
THEOREM ReportsAreTrue == Spec => []ReportIsTrue
<1>1. IInv => ReportIsTrue
  BY DEF IInv
<1> QED
  BY <1>1, Invariance, PTL

\* What add-account reports is what a request was answered: every handler that wrote
\* the slot and was not overwritten lives to answer before the server ends.
THEOREM ReportsAreAnswers == Spec => []ReportIsAnAnswer
<1>1. IInv => ReportIsAnAnswer
  BY DEF IInv
<1> QED
  BY <1>1, Invariance, PTL
=============================================================================
