--------------------------- MODULE CallbackServer ---------------------------
(***************************************************************************)
(* The command add-account (src/cli/mod.rs) and the server it starts for   *)
(* one OAuth redirect, serve_callback_once (src/auth/callback.rs).         *)
(*                                                                         *)
(* Handlers run concurrently.  Each completes a consent, stores its        *)
(* outcome in a slot they share, and signals the server to shut down; the  *)
(* first signal counts.  A graceful shutdown accepts no request any more   *)
(* and waits for the handlers it has started; the command then reports     *)
(* what is in the slot.                                                    *)
(*                                                                         *)
(* The flows are those of PendingFlows.  Other processes begin flows over  *)
(* the same database, and their redirects, too, come to this address.  An  *)
(* account is named by the state of the flow that connected it.            *)
(***************************************************************************)
EXTENDS Tables

CONSTANTS Requests,  \* requests the callback address receives
          States,    \* CSRF states
          Tenants,
          Failed,    \* the outcome Err(_)
          None       \* no outcome

ASSUME Outcomes == Failed \notin States /\ None \notin States \cup {Failed}

VARIABLES pending, minted,  \* the registry of flows (PendingFlows)
          connected,        \* flows that complete_flow turned into an account
          phase,            \* where add-account is
          done,             \* the channel that signals "one callback handled"
          slot,             \* the result slot
          reported,         \* what add-account returned
          pc,               \* request |-> its handler's next step
          held              \* request |-> the state it presents, then its outcome

flows == <<pending, minted>>
handlers == <<pc, held>>
command == <<phase, done, slot, reported>>
vars == <<flows, connected, command, handlers>>

Flows == INSTANCE PendingFlows

Outcome == States \cup {Failed}
Phases == {"begin", "bind", "serving", "draining", "returned"}
InFlight == {"take", "exchange", "store", "signal"}
Ended == {"answered", "gone"}

Init ==
    /\ Flows!Init
    /\ connected = {}
    /\ phase = "begin"
    /\ done = "armed"
    /\ slot = None
    /\ reported = None
    /\ pc = [r \in Requests |-> "idle"]
    /\ held = [r \in Requests |-> None]

----------------------------------------------------------------------------
(* add-account *)

\* begin_flow: older flows may be purged, and the row may be lost with an error.
BeginFlow(s, t) ==
    /\ \E dropped \in SUBSET DOMAIN pending, kept \in BOOLEAN :
           Flows!Begin(s, t, dropped, kept)
    /\ UNCHANGED <<connected, done, slot, reported, handlers>>

\* The command opens the consent URL before it listens for the redirect.
AddAccount(s, t) ==
    /\ phase = "begin"
    /\ phase' = "bind"
    /\ BeginFlow(s, t)

\* POST /accounts/connect, or another add-account, in another process.
ConnectElsewhere(s, t) == BeginFlow(s, t) /\ UNCHANGED phase

\* TcpListener::bind: the address may be taken, by a server that is running.
Bind ==
    /\ phase = "bind"
    /\ \/ phase' = "serving" /\ UNCHANGED reported
       \/ phase' = "returned" /\ reported' = Failed
    /\ UNCHANGED <<flows, connected, done, slot, handlers>>

\* The channel has been signalled: stop accepting.
Shutdown ==
    /\ phase = "serving"
    /\ done = "fired"
    /\ phase' = "draining"
    /\ UNCHANGED <<flows, connected, done, slot, reported, handlers>>

\* Every handler that was started has ended.
Drained == phase = "draining" /\ \A r \in Requests : pc[r] \notin InFlight

\* The server has ended: take the outcome, or report that there is none.
Return ==
    /\ Drained
    /\ phase' = "returned"
    /\ reported' = IF slot = None THEN Failed ELSE slot
    /\ slot' = None
    /\ UNCHANGED <<flows, connected, done, handlers>>

----------------------------------------------------------------------------
(* handle_callback *)

Goto(r, step) == pc' = [pc EXCEPT ![r] = step]

\* The handler's result is o: it goes on to store it.
Resolve(r, o) == Goto(r, "store") /\ held' = [held EXCEPT ![r] = o]

\* A redirect with a code and a state.
Redirect(r, s) ==
    /\ phase = "serving"
    /\ pc[r] = "idle"
    /\ Goto(r, "take")
    /\ held' = [held EXCEPT ![r] = s]
    /\ UNCHANGED <<flows, connected, command>>

\* Defect: the parameters are not looked at.
StrayUnchecked(r) ==
    /\ phase = "serving"
    /\ pc[r] = "idle"
    /\ Goto(r, "take")
    /\ held' = [held EXCEPT ![r] = Failed]
    /\ UNCHANGED <<flows, connected, command>>

\* Any other request, for the fallback route takes every path: consent denied,
\* or no code, or no state.
Stray(r) ==
    /\ phase = "serving"
    /\ pc[r] = "idle"
    /\ Resolve(r, Failed)
    /\ UNCHANGED <<flows, connected, command>>

\* complete_flow consumes the flow; it may be expired, or unknown.
TakeFlow(r) ==
    /\ pc[r] = "take"
    /\ \/ Flows!Take(held[r]) /\ Goto(r, "exchange") /\ UNCHANGED held
       \/ Flows!Take(held[r]) /\ Resolve(r, Failed)
       \/ held[r] \notin DOMAIN pending /\ Resolve(r, Failed) /\ UNCHANGED flows
    /\ UNCHANGED <<connected, command>>

\* complete_flow returns the account.
Connect(r) ==
    /\ pc[r] = "exchange"
    /\ Resolve(r, held[r])
    /\ connected' = connected \cup {held[r]}
    /\ UNCHANGED <<flows, command>>

\* Defect: the handler overlooks the error.
RefuseUnnoticed(r) ==
    /\ pc[r] = "exchange"
    /\ Resolve(r, held[r])
    /\ UNCHANGED <<flows, connected, command>>

\* The provider or a statement fails: complete_flow returns an error.
Refuse(r) ==
    /\ pc[r] = "exchange"
    /\ Resolve(r, Failed)
    /\ UNCHANGED <<flows, connected, command>>

\* Defect: the handler awaits something between storing and signalling, too.
AbandonAfterStore(r) ==
    /\ pc[r] \in {"exchange", "signal"}
    /\ Goto(r, "gone")
    /\ UNCHANGED <<flows, connected, command, held>>

\* The browser goes away while the provider is awaited: the handler is dropped.
Abandon(r) ==
    /\ pc[r] = "exchange"
    /\ Goto(r, "gone")
    /\ UNCHANGED <<flows, connected, command, held>>

\* Defect: the shutdown is signalled before the outcome is stored.
StoreAfterSignal(r) ==
    \/ /\ pc[r] = "store" /\ done = "armed"
       /\ done' = "fired"
       /\ UNCHANGED <<flows, connected, phase, slot, reported, handlers>>
    \/ /\ pc[r] = "store" /\ done = "fired"
       /\ slot' = held[r]
       /\ Goto(r, "signal")
       /\ UNCHANGED <<flows, connected, phase, done, reported, held>>

\* The outcome goes into the slot.
StoreOutcome(r) ==
    /\ pc[r] = "store"
    /\ slot' = held[r]
    /\ Goto(r, "signal")
    /\ UNCHANGED <<flows, connected, phase, done, reported, held>>

\* Defect: a failed callback leaves the server running.
FiredOnSuccess(r) == IF held[r] = Failed THEN done ELSE "fired"

\* The sender is taken out of its option: it signals once.
Fired(r) == "fired"

\* The handler signals and answers.
Signal(r) ==
    /\ pc[r] = "signal"
    /\ done' = Fired(r)
    /\ Goto(r, "answered")
    /\ UNCHANGED <<flows, connected, phase, slot, reported, held>>

Handle(r) == TakeFlow(r) \/ Connect(r) \/ Refuse(r) \/ StoreOutcome(r) \/ Signal(r)

Next ==
    \/ \E s \in States, t \in Tenants : AddAccount(s, t) \/ ConnectElsewhere(s, t)
    \/ Bind
    \/ \E r \in Requests, s \in States : Redirect(r, s)
    \/ \E r \in Requests : Stray(r) \/ Abandon(r) \/ Handle(r)
    \/ Shutdown
    \/ Return

Spec == Init /\ [][Next]_vars

\* Handlers and the server run on; nobody is obliged to send a request.
FairSpec ==
    /\ Spec
    /\ \A r \in Requests : WF_vars(Handle(r))
    /\ WF_vars(Shutdown)
    /\ WF_vars(Return)

----------------------------------------------------------------------------
(* properties *)

\* Every variable has its type, and a handler that exchanges a code works for a
\* flow that is no longer in the table.
TypeOK ==
    /\ IsTable(pending, States, Tenants)
    /\ minted \subseteq States
    /\ connected \subseteq States
    /\ phase \in Phases
    /\ done \in {"armed", "fired"}
    /\ {slot, reported} \subseteq Outcome \cup {None}
    /\ pc \in [Requests -> {"idle"} \cup InFlight \cup Ended]
    /\ held \in [Requests -> Outcome \cup {None}]
    /\ \A r \in Requests : pc[r] \in {"take", "exchange"} => held[r] \in States
    /\ \A r \in Requests : pc[r] \in {"store", "signal"} => held[r] \in Outcome

\* callback.rs:101 ("Store the outcome before signalling shutdown"): whichever
\* handlers overlap, the server finds an outcome when it shuts down, and
\* add-account never ends with "callback completed without a result".
OutcomeBeforeShutdown ==
    phase \in {"serving", "draining"} /\ done = "fired" => slot # None

\* callback.rs:84-88: an account that add-account reports as connected is one that
\* a consent has connected.
ReportIsTrue == reported \in States => reported \in connected

\* callback.rs:95-110: the outcome add-account reports is that of a request that was
\* answered, so its terminal and one browser say the same, though handlers overwrite
\* one slot, some are dropped half-way and others still run at the shutdown.
ReportIsAnAnswer ==
    phase = "returned" /\ done = "fired" =>
        \E r \in Requests : pc[r] = "answered" /\ held[r] = reported

\* callback.rs:37, one callback shuts the server down: once any request has been
\* answered, add-account returns, whatever else is in flight.
AddAccountReturns == (\E r \in Requests : pc[r] = "answered") ~> phase = "returned"

\* callback.rs:55 ("Serve exactly one callback, then return the connected
\* account"): if the server has connected an account, add-account reports one.
ConnectedIsReported ==
    phase = "returned" /\ connected # {} => reported \in connected
=============================================================================
