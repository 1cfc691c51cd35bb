----------------------------- MODULE MCFeedPaging -----------------------------
(* Instance of FeedPaging for TLC: accounts are interchangeable.             *)
EXTENDS FeedPaging

AccountSymmetry == Permutations(Accounts)

===============================================================================
