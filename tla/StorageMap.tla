------------------------------ MODULE StorageMap ------------------------------
(***************************************************************************)
(* FRAME's StorageMap as the pallets use it: a partial function whose      *)
(* DOMAIN is the set of keys holding a row (contains_key).                 *)
(***************************************************************************)

\* No row at all: the map at genesis.
EmptyMap == [k \in {} |-> k]

\* StorageMap::insert: write one row, overwriting what the key held.
MapInsert(map, key, value) ==
    [k \in DOMAIN map \cup {key} |-> IF k = key THEN value ELSE map[k]]

\* StorageMap::remove: drop one row; no row is not an error.
MapRemove(map, key) == [k \in DOMAIN map \ {key} |-> map[k]]

\* StorageMap::get under ValueQuery: the row, or the default.
MapGet(map, key, default) == IF key \in DOMAIN map THEN map[key] ELSE default

\* Every map from a subset of Keys to Values.
MapOf(Keys, Values) == UNION {[D -> Values] : D \in SUBSET Keys}

===============================================================================
