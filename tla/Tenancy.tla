------------------------------- MODULE Tenancy -------------------------------
(***************************************************************************)
(* Whom a request speaks for, and which account it means: API keys         *)
(* (src/config.rs, src/api/auth.rs), the tenants of the three doors, and   *)
(* the two lookups of an account (src/storage/accounts.rs).                *)
(*                                                                         *)
(* A row of accounts has the fields tenant and address.  Addresses are     *)
(* compared by what lower() makes of them: Lower is a function on          *)
(* Addresses.                                                              *)
(***************************************************************************)
EXTENDS Integers, Sequences, Tables

CONSTANTS Tenants,
          Default,    \* DEFAULT_TENANT_ID
          Keys,       \* API keys
          Addresses,  \* spellings of mail addresses
          Lower,      \* SQL's lower()
          None        \* no key, no tenant, no account

ASSUME TenancyConstants ==
    /\ Default \in Tenants
    /\ Lower \in [Addresses -> Addresses]
    /\ None \notin Tenants \cup Keys \cup Addresses

----------------------------------------------------------------------------
(* API keys *)

\* One element of API_KEYS, key=tenant, or a bare key, whose tenant is None.
KeyEntry == [key : Keys, tenant : Tenants \cup {None}]

\* parse_api_keys: the last entry of a key wins.
ParseApiKeys(entries) ==
    [k \in {entries[n].key : n \in DOMAIN entries} |->
        LET last == CHOOSE n \in DOMAIN entries :
                        /\ entries[n].key = k
                        /\ \A m \in DOMAIN entries : m > n => entries[m].key # k
        IN  entries[last].tenant]

\* extract_api_key: the Authorization header, if it has a bearer token, else X-API-Key.
ExtractApiKey(c) == IF c.bearer # None THEN c.bearer ELSE c.xkey

\* Defect: an unknown key is served as if there were none.
ResolveTenantLoosely(keys, k) ==
    IF k \in DOMAIN keys /\ keys[k] # None THEN keys[k] ELSE Default

\* resolve_tenant: without any key the API is open; None is a 401.
ResolveTenant(keys, k) ==
    IF DOMAIN keys = {} \/ (k \in DOMAIN keys /\ keys[k] = None) THEN Default
    ELSE IF k \in DOMAIN keys THEN keys[k] ELSE None

\* The tenant of a call: the key's at the REST API, the default one at the MCP
\* server, and on the command line the one of --tenant.
TenantOf(c, keys) ==
    CASE c.door = "rest" -> ResolveTenant(keys, ExtractApiKey(c))
      [] c.door = "mcp" -> Default
      [] c.door = "cli" -> IF c.tenant = None THEN Default ELSE c.tenant

----------------------------------------------------------------------------
(* Lookups *)

\* Defect: the query has no tenant.
ByIdAnywhere(rows, t, i) == {i} \cap DOMAIN rows

\* accounts.get, with the one row of id i.
ById(rows, t, i) == {j \in {i} \cap DOMAIN rows : rows[j].tenant = t}

\* accounts.get_by_email: any of these rows may come first.
ByAddress(rows, t, a) ==
    {j \in DOMAIN rows :
        /\ rows[j].tenant = t
        /\ a \in Addresses
        /\ Lower[rows[j].address] = Lower[a]}

\* accounts.list
Listed(rows, t) == {j \in DOMAIN rows : rows[j].tenant = t}
=============================================================================
