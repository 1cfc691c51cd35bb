--------------------------- MODULE StorageMapProofs ---------------------------
(* What the storage-map operators return, cited by the components' proofs.   *)
EXTENDS StorageMap, TLAPS

\* A map of MapOf is a function on a subset of the keys.
LEMMA MapOfDef ==
    ASSUME NEW K, NEW V, NEW m
    PROVE  m \in MapOf(K, V) <=>
               /\ m = [k \in DOMAIN m |-> m[k]]
               /\ DOMAIN m \subseteq K
               /\ \A k \in DOMAIN m : m[k] \in V
<1>1. ASSUME m \in MapOf(K, V)
      PROVE  /\ m = [k \in DOMAIN m |-> m[k]]
             /\ DOMAIN m \subseteq K
             /\ \A k \in DOMAIN m : m[k] \in V
  <2>1. PICK D \in SUBSET K : m \in [D -> V]
    BY <1>1 DEF MapOf
  <2> QED BY <2>1
<1>2. ASSUME m = [k \in DOMAIN m |-> m[k]],
             DOMAIN m \subseteq K,
             \A k \in DOMAIN m : m[k] \in V
      PROVE  m \in MapOf(K, V)
  <2>1. m \in [DOMAIN m -> V]
    BY <1>2
  <2>2. DOMAIN m \in SUBSET K
    BY <1>2
  <2> QED BY <2>1, <2>2 DEF MapOf
<1> QED BY <1>1, <1>2

\* insert: the key's row is the value, every other row stands.
LEMMA InsertFact ==
    ASSUME NEW m, NEW key, NEW v
    PROVE  /\ DOMAIN MapInsert(m, key, v) = DOMAIN m \cup {key}
           /\ MapInsert(m, key, v)[key] = v
           /\ \A k \in DOMAIN m \ {key} : MapInsert(m, key, v)[k] = m[k]
BY DEF MapInsert

\* remove: every other row stands.
LEMMA RemoveFact ==
    ASSUME NEW m, NEW key
    PROVE  /\ DOMAIN MapRemove(m, key) = DOMAIN m \ {key}
           /\ \A k \in DOMAIN m \ {key} : MapRemove(m, key)[k] = m[k]
BY DEF MapRemove

\* insert and remove stay within the map's type.
LEMMA InsertType ==
    ASSUME NEW K, NEW V, NEW m \in MapOf(K, V), NEW key \in K, NEW v \in V
    PROVE  MapInsert(m, key, v) \in MapOf(K, V)
<1> DEFINE r == MapInsert(m, key, v)
<1>1. DOMAIN m \subseteq K /\ \A k \in DOMAIN m : m[k] \in V
  BY MapOfDef
<1>2. r = [k \in DOMAIN r |-> r[k]]
  BY DEF MapInsert
<1>3. DOMAIN r \subseteq K
  BY <1>1 DEF MapInsert
<1>4. \A k \in DOMAIN r : r[k] \in V
  BY <1>1 DEF MapInsert
<1> QED BY <1>2, <1>3, <1>4, MapOfDef

LEMMA RemoveType ==
    ASSUME NEW K, NEW V, NEW m \in MapOf(K, V), NEW key
    PROVE  MapRemove(m, key) \in MapOf(K, V)
<1> DEFINE r == MapRemove(m, key)
<1>1. DOMAIN m \subseteq K /\ \A k \in DOMAIN m : m[k] \in V
  BY MapOfDef
<1>2. r = [k \in DOMAIN r |-> r[k]]
  BY DEF MapRemove
<1>3. DOMAIN r \subseteq K
  BY <1>1 DEF MapRemove
<1>4. \A k \in DOMAIN r : r[k] \in V
  BY <1>1 DEF MapRemove
<1> QED BY <1>2, <1>3, <1>4, MapOfDef

\* The empty map has every map type.
LEMMA EmptyType ==
    ASSUME NEW K, NEW V
    PROVE  EmptyMap \in MapOf(K, V) /\ DOMAIN EmptyMap = {}
<1>1. DOMAIN EmptyMap = {} /\ EmptyMap = [k \in DOMAIN EmptyMap |-> EmptyMap[k]]
  BY DEF EmptyMap
<1> QED BY <1>1, MapOfDef

===============================================================================
