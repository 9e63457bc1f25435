------------------------------ MODULE MCRequests ------------------------------
(***************************************************************************)
(* An instance of Requests for TLC: two tenants that have both connected   *)
(* one mailbox, a third account whose address is the first one's in other  *)
(* letters, and a call of every kind.                                      *)
(***************************************************************************)
EXTENDS Requests, TLC

CONSTANTS tA, tB,          \* tenants; tA is the default one
          keyA, keyB,      \* API keys: a bare one, and one of tB
          own, other, twin,\* ids
          box, Box         \* two spellings of one address

LowerCase == [a \in {box, Box} |-> box]

Mailboxes ==
    [i \in {own, other, twin} |->
        CASE i = own -> [tenant |-> tA, address |-> box]
          [] i = other -> [tenant |-> tB, address |-> box]
          [] i = twin -> [tenant |-> tA, address |-> Box]]

Rest(op, bearer, xkey, i) ==
    [door |-> "rest", op |-> op, bearer |-> bearer, xkey |-> xkey, tenant |-> None, names |-> i]

Tool(op, x) ==
    [door |-> "mcp", op |-> op, bearer |-> None, xkey |-> None, tenant |-> None, names |-> x]

Command(op, t, x) ==
    [door |-> "cli", op |-> op, bearer |-> None, xkey |-> None, tenant |-> t, names |-> x]

SomeCalls == {Rest("mail", keyA, None, own), Rest("mail", None, keyB, own),
              Rest("disconnect", keyB, keyA, other), Rest("list", None, None, None),
              Tool("mail", Box), Tool("list", None),
              Command("remove", None, box), Command("remove", tB, own)}

\* One account sees a refresh by each request, or a consent.
Issues == [i \in {own, other, twin} |-> IF i = own THEN 3 ELSE 1]

\* The two requests may be exchanged: neither Init nor Next tells them apart.
RequestSymmetry == Permutations(Requests)

\* An open API; a bare key, and a key that is given twice.
SomeKeyLists ==
    {<<>>,
     <<[key |-> keyA, tenant |-> None], [key |-> keyB, tenant |-> tA], [key |-> keyB, tenant |-> tB]>>}
=============================================================================
