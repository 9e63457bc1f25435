---------------------------- MODULE PendingFlows ----------------------------
(***************************************************************************)
(* What the registry of OAuth flows promises, without time or storage: a   *)
(* CSRF state is minted once for one tenant, may be redeemed while it is   *)
(* pending, and never comes back once it was redeemed or dropped.          *)
(*                                                                         *)
(* FlowStore implements this module; TokenManager uses its actions for the *)
(* flow that a consent callback consumes.                                  *)
(***************************************************************************)
EXTENDS Tables

CONSTANTS States,   \* CSRF states that CsrfToken::new_random can produce
          Tenants   \* tenants that own accounts

VARIABLES pending,  \* state |-> tenant, for the flows that can be redeemed
          minted    \* states handed out so far: a random state never recurs

vars == <<pending, minted>>

Init == pending = EmptyTable /\ minted = {}

\* A consent URL with state s is handed out for tenant t.  The insertion may
\* also clean up other flows (dropped), and it may not take effect (kept).
Begin(s, t, dropped, kept) ==
    /\ s \notin minted
    /\ minted' = minted \cup {s}
    /\ pending' = IF kept THEN Put(Without(pending, dropped), s, t)
                          ELSE Without(pending, dropped)

\* A callback presents s: the flow is consumed, whether or not it is honoured.
Take(s) ==
    /\ s \in DOMAIN pending
    /\ pending' = Without(pending, {s})
    /\ UNCHANGED minted

Next ==
    \/ \E s \in States, t \in Tenants, dropped \in SUBSET States, kept \in BOOLEAN :
           Begin(s, t, dropped, kept)
    \/ \E s \in States : Take(s)

Spec == Init /\ [][Next]_vars
=============================================================================
