----------------------------- MODULE MCCognoGate -----------------------------
(* Small instances of CognoGate for TLC.                                     *)
EXTENDS CognoGate, TLC

CONSTANTS a1, a2, a3

\* PkhOf's hashed-key order on the model's accounts.
MCHashRank == a1 :> 1 @@ a2 :> 2 @@ a3 :> 3

===============================================================================
