------------------------------- MODULE MCObserver -------------------------------
(* Small instances of Observer for TLC.                                      *)
EXTENDS Observer

CONSTANTS a1, a2, a3, i1, i2, i3, i4, s1, s2, d1

\* PkhOf's hashed-key order, which is not the order of the account ids.
MCHashRank == a1 :> 2 @@ a2 :> 1
MCHashRank3 == a1 :> 2 @@ a2 :> 1 @@ a3 :> 3

\* Byte order of everything a delta is keyed by.
MCKeyRank == (a1 :> 1 @@ a2 :> 2 @@ a3 :> 3) @@ (i1 :> 4 @@ i2 :> 3 @@ i3 :> 2 @@ i4 :> 1)
             @@ (s1 :> 2 @@ s2 :> 1)

\* A dRep, a pool reached through a claimed key, and the same pool through its
\* owner's stake.
MCRoleFacts ==
    {[source |-> "DRep", credential |-> d1, id |-> d1],
     [source |-> "SpoCalidus", credential |-> d1, id |-> "pool"],
     [source |-> "SpoOwner", credential |-> s1, id |-> "pool"]}

===============================================================================
