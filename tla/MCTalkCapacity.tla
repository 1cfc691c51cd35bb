---------------------------- MODULE MCTalkCapacity ----------------------------
(* A small instance of TalkCapacity for TLC.                                 *)
EXTENDS TalkCapacity

\* One extrinsic of each kind, two with an over-long text and an oversized one.
MCCalls ==
    {[kind |-> k, len |-> 1, size |-> 1] :
        k \in {"text", "vote", "follow", "set_profile", "clear_profile", "pin_post",
               "unpin_post", "unmetered"}}
    \cup {[kind |-> "text", len |-> 2, size |-> 1],
          [kind |-> "set_profile", len |-> 2, size |-> 1],
          [kind |-> "follow", len |-> 1, size |-> 2]}

===============================================================================
