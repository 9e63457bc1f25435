------------------------------- MODULE Tables -------------------------------
(***************************************************************************)
(* SQLite tables as partial functions from a primary key to a row.         *)
(*                                                                         *)
(* A table that holds the keys S is a function with domain S, so that a    *)
(* key is present exactly when it is in the table's DOMAIN.  Each operator *)
(* is what one SQL statement of src/storage does to one table; a statement *)
(* runs under the connection mutex (storage/db.rs) and is atomic.          *)
(***************************************************************************)
EXTENDS Functions

\* f is a table with keys in K and rows in R.
IsTable(f, K, R) == DOMAIN f \subseteq K /\ f \in [DOMAIN f -> R]

\* A table with no row.
EmptyTable == [x \in {} |-> x]

\* INSERT ... ON CONFLICT DO UPDATE, and INSERT of a key that is absent.
Put(table, k, row) ==
    [x \in DOMAIN table \cup {k} |-> IF x = k THEN row ELSE table[x]]

\* DELETE ... WHERE key IN ks.
Without(table, ks) == Restrict(table, DOMAIN table \ ks)
=============================================================================
