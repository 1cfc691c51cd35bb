----------------------------- MODULE MCPollClose -----------------------------
(* Small instances of PollClose for TLC.                                     *)
EXTENDS PollClose, TLC

CONSTANTS a1, a2

\* PollVotes' hashed-key order on the model's voters.
MCHashRank == a1 :> 1 @@ a2 :> 2

Pool(weight) == [kind |-> "spo", id |-> 1, weight |-> weight]
DRep == [kind |-> "drep", id |-> 2, weight |-> 1]
Committee == [kind |-> "cc", id |-> 3, weight |-> 0]

\* One pool two accounts may own and the observer may re-weigh, a dRep and a
\* committee seat.
MCRoleSets == {{}, {Pool(1)}, {Pool(2), DRep, Committee}}

MCScratchRank == <<"drep", 2>> :> 1 @@ <<"spo", 1>> :> 2 @@ <<"cc", 3>> :> 3

===============================================================================
