---------------------------- MODULE UnifiedInbox ----------------------------
(***************************************************************************)
(* aggregate_unified_inbox (src/provider/mod.rs) and the handlers that     *)
(* call it: every account of the tenant is asked for its newest messages   *)
(* at the same time, and what they answer is merged, sorted and cut.       *)
(*                                                                         *)
(* An account answers, from the mailbox it has at that moment, or fails,   *)
(* in any order.  A message is its date, its account, and its place in its *)
(* mailbox; date 0 stands for a date that is absent or cannot be parsed.   *)
(* Graph lists a mailbox newest first, undated messages last.              *)
(***************************************************************************)
EXTENDS Integers, SequencesExt

CONSTANTS NumAccounts,   \* accounts of the tenant, in the order list() has them
          MaxDate,       \* dates are 1..MaxDate
          MaxMail,       \* bound on the length of a mailbox
          Asked,         \* limits that callers ask for
          DefaultLimit,  \* DEFAULT_LIMIT
          MaxLimit,      \* MAX_LIMIT
          None           \* no limit given, no answer yet, or an error

ASSUME Limits ==
    /\ NumAccounts \in Nat /\ MaxDate \in Nat /\ MaxMail \in Nat
    /\ DefaultLimit \in Nat /\ MaxLimit \in Nat
    /\ Asked \subseteq Nat
    /\ None \notin Nat /\ \A n \in 0..MaxMail : None \notin [1..n -> Nat]

VARIABLES phase,    \* "idle", "fetching" or "done"
          limit,    \* the limit the handler passes on
          seen,     \* account |-> the mailbox it answered from, None after an error
          fetched,  \* account |-> the dates list_messages returned, None before
          inbox     \* the answer

vars == <<phase, limit, seen, fetched, inbox>>

Accounts == 1..NumAccounts
Dates == 0..MaxDate
Message == [account : Accounts, nth : Nat \ {0}, date : Dates]

\* What an account may hold, newest first.
Mailboxes ==
    {box \in UNION {[1..n -> Dates] : n \in 0..MaxMail} :
        \A i, j \in DOMAIN box : i < j => box[i] >= box[j]}

Smaller(a, b) == IF a < b THEN a ELSE b

\* Vec::truncate, and $top in a query: the first n.
Truncate(s, n) == SubSeq(s, 1, Smaller(n, Len(s)))

Init ==
    /\ phase = "idle"
    /\ limit = 0
    /\ seen = [i \in Accounts |-> None]
    /\ fetched = [i \in Accounts |-> None]
    /\ inbox = <<>>

----------------------------------------------------------------------------
(* The handler *)

\* Defect: the cap is not applied to what the caller asks for.
CappedDefault(l) == IF l = None THEN Smaller(DefaultLimit, MaxLimit) ELSE l

\* query.limit.unwrap_or(DEFAULT_LIMIT).min(MAX_LIMIT)
Capped(l) == Smaller(IF l = None THEN DefaultLimit ELSE l, MaxLimit)

Ask(l) ==
    /\ phase = "idle"
    /\ phase' = "fetching"
    /\ limit' = Capped(l)
    /\ UNCHANGED <<seen, fetched, inbox>>

----------------------------------------------------------------------------
(* The fetches *)

\* Defect: the page is shared out among the accounts.
PageShared == IF NumAccounts = 0 THEN 0 ELSE (limit + NumAccounts - 1) \div NumAccounts

\* Every account is asked for a whole page.
Page == limit

\* list_messages: the first page of the mailbox.
Answer(i) ==
    /\ phase = "fetching"
    /\ fetched[i] = None
    /\ \E box \in Mailboxes :
           /\ seen' = [seen EXCEPT ![i] = box]
           /\ fetched' = [fetched EXCEPT ![i] = Truncate(box, Page)]
    /\ UNCHANGED <<phase, limit, inbox>>

\* An account that fails counts as empty.
Fail(i) ==
    /\ phase = "fetching"
    /\ fetched[i] = None
    /\ fetched' = [fetched EXCEPT ![i] = <<>>]
    /\ UNCHANGED <<phase, limit, seen, inbox>>

----------------------------------------------------------------------------
(* The merge *)

\* UnifiedEmail: the messages of account i, with their owner.
Owned(i, box) == [k \in DOMAIN box |-> [account |-> i, nth |-> k, date |-> box[k]]]

\* Defect: undated messages sort first.
SortsBeforeUndated(a, b) == IF b = 0 THEN FALSE ELSE a = 0 \/ a > b

\* compare_received_desc is Less: the later date first; no date, 0, last.
SortsBefore(a, b) == a > b

\* Vec::sort_by is stable: where the order of s puts each of its elements.
Rank(s, i) ==
    Cardinality({j \in DOMAIN s :
        \/ SortsBefore(s[j].date, s[i].date)
        \/ ~SortsBefore(s[i].date, s[j].date) /\ j <= i})

Sorted(s) == [k \in DOMAIN s |-> s[CHOOSE i \in DOMAIN s : Rank(s, i) = k]]

\* join_all has every result, in the order of the accounts: sort, then truncate.
Merge ==
    /\ phase = "fetching"
    /\ \A i \in Accounts : fetched[i] # None
    /\ phase' = "done"
    /\ LET all == FlattenSeq([i \in Accounts |-> Owned(i, fetched[i])])
       IN  inbox' = Truncate(Sorted(all), limit)
    /\ UNCHANGED <<limit, seen, fetched>>

Next ==
    \/ \E l \in Asked \cup {None} : Ask(l)
    \/ \E i \in Accounts : Answer(i) \/ Fail(i)
    \/ Merge

Spec == Init /\ [][Next]_vars

----------------------------------------------------------------------------
(* properties *)

\* Every variable has its type; no caller gets more than MAX_LIMIT (routes.rs:20).
TypeOK ==
    /\ phase \in {"idle", "fetching", "done"}
    /\ limit \in 0..MaxLimit
    /\ seen \in [Accounts -> Mailboxes \cup {None}]
    /\ fetched \in [Accounts -> Mailboxes \cup {None}]
    /\ inbox \in Seq(Message)

\* All messages of the mailboxes that answered.
Offered == UNION {Range(Owned(i, seen[i])) : i \in {j \in Accounts : seen[j] # None}}

\* mod.rs:47-49, 60: although each account sends one page only, and some fail, the
\* inbox is the newest messages of all the mailboxes that answered, and it is short
\* only when they hold no more.
InboxIsNewest ==
    phase = "done" =>
        /\ Range(inbox) \subseteq Offered
        /\ Cardinality(Range(inbox)) = Len(inbox)
        /\ Len(inbox) = Smaller(limit, Cardinality(Offered))
        /\ \A m \in Range(inbox), n \in Offered \ Range(inbox) : m.date >= n.date

\* mod.rs:49, 84: the newest comes first, undated messages last, and messages of one
\* instant stay in the order of the accounts and of their mailboxes, whichever
\* account answered first.
InboxIsOrdered ==
    \A i, j \in DOMAIN inbox : i < j =>
        \/ inbox[i].date > inbox[j].date
        \/ /\ inbox[i].date = inbox[j].date
           /\ \/ inbox[i].account < inbox[j].account
              \/ inbox[i].account = inbox[j].account /\ inbox[i].nth < inbox[j].nth
=============================================================================
