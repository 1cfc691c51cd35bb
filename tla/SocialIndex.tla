----------------------------- MODULE SocialIndex -----------------------------
(***************************************************************************)
(* The content half of pallet-microblog: posts, replies, quotes and poll   *)
(* hosts, votes on posts and on accounts, follows, and every index and     *)
(* counter the calls maintain next to them. The reads that trust these     *)
(* indexes are in FeedPaging, the life of a poll in PollClose.             *)
(*                                                                         *)
(* A reply's parent is not validated by the code: it may be a post that    *)
(* does not exist yet, or never.                                           *)
(***************************************************************************)
EXTENDS Integers, FiniteSets, StorageMap

CONSTANTS
    Accounts,   \* account ids
    Terms,      \* terms a reader may search for
    Texts,      \* bodies of posts: a text is the set of terms it contains
    MaxPosts,   \* bound on the number of posts; also stands for u64::MAX as an id
    MaxCalls    \* bound on the number of calls of users

ASSUME SocialAssumptions ==
    /\ IsFiniteSet(Accounts)
    /\ Texts \subseteq SUBSET Terms
    /\ MaxPosts \in Nat
    /\ MaxCalls \in Nat

Ids == 0..MaxPosts
NoPost == -1   \* no parent, no quoted post
Dirs == {"Up", "Down"}

VARIABLES
    bound,                                \* accounts the identity gate allows
    Posts, NextPostId,
    ByAuthor, ByAuthorCount,              \* every post of an author, by seq
    TopLevelByAuthor, TopLevelByAuthorCount,
    TopLevelPosts, NextTopLevelSeq,       \* the global feed
    ReplyCount, RepliesByParent, RepliesByParentSeq,
    Votes, VoteTally,
    VotesByAccount, LikesByAccount,       \* the liked posts, as a set and in order
    AccountVotes, AccountVoteTally,
    Following, Followers, FollowingCount, FollowerCount,
    calls                                 \* calls so far

postVars == <<Posts, NextPostId, ByAuthor, ByAuthorCount, TopLevelByAuthor, TopLevelByAuthorCount,
              TopLevelPosts, NextTopLevelSeq, ReplyCount, RepliesByParent, RepliesByParentSeq>>
voteVars == <<Votes, VoteTally, VotesByAccount, LikesByAccount>>
accountVoteVars == <<AccountVotes, AccountVoteTally>>
followVars == <<Following, Followers, FollowingCount, FollowerCount>>
vars == <<bound, postVars, voteVars, accountVoteVars, followVars, calls>>

\* A signed call of an account the gate allows.
Call(who) ==
    /\ who \in bound
    /\ calls < MaxCalls
    /\ calls' = calls + 1

-------------------------------------------------------------------------------
(* Creating posts.                                                           *)

IndexByAuthor(id, author) ==
    /\ ByAuthor' = MapInsert(ByAuthor, <<author, ByAuthorCount[author]>>, id)
    /\ ByAuthorCount' = [ByAuthorCount EXCEPT ![author] = @ + 1]

IndexTopLevel(id, author) ==
    /\ TopLevelByAuthor' = MapInsert(TopLevelByAuthor, <<author, TopLevelByAuthorCount[author]>>, id)
    /\ TopLevelByAuthorCount' = [TopLevelByAuthorCount EXCEPT ![author] = @ + 1]
    /\ TopLevelPosts' = MapInsert(TopLevelPosts, NextTopLevelSeq, id)
    /\ NextTopLevelSeq' = NextTopLevelSeq + 1
    /\ UNCHANGED <<ReplyCount, RepliesByParent, RepliesByParentSeq>>

IndexReply(id, parent) ==
    /\ ReplyCount' = [ReplyCount EXCEPT ![parent] = @ + 1]
    /\ RepliesByParent' = RepliesByParent \cup {<<parent, id>>}
    /\ RepliesByParentSeq' = MapInsert(RepliesByParentSeq, <<parent, ReplyCount[parent]>>, id)
    /\ UNCHANGED <<TopLevelByAuthor, TopLevelByAuthorCount, TopLevelPosts, NextTopLevelSeq>>

\* What every creation site does with its new post.
CreatePost(who, text, parent, quote) ==
    /\ NextPostId < MaxPosts
    /\ Posts' = MapInsert(Posts, NextPostId,
                          [author |-> who, text |-> text, parent |-> parent, quote |-> quote])
    /\ NextPostId' = NextPostId + 1
    /\ IndexByAuthor(NextPostId, who)
    /\ IF parent = NoPost THEN IndexTopLevel(NextPostId, who) ELSE IndexReply(NextPostId, parent)
    /\ UNCHANGED <<bound, voteVars, accountVoteVars, followVars>>

PostMessage(who, text, parent) ==
    /\ Call(who)
    /\ CreatePost(who, text, parent, NoPost)

QuotePost(who, text, quoted) ==
    /\ Call(who)
    /\ quoted \in DOMAIN Posts
    /\ CreatePost(who, text, NoPost, quoted)

\* create_poll's host post; what becomes of the poll is PollClose's.
CreatePoll(who, question) ==
    /\ Call(who)
    /\ CreatePost(who, question, NoPost, NoPost)

-------------------------------------------------------------------------------
(* Votes.                                                                    *)

SaturatingDec(n) == IF n = 0 THEN 0 ELSE n - 1

\* Take back the direction an account voted before and count the one it votes
\* now; each is a set of at most one.
Retally(counts, before, after) ==
    [d \in Dirs |->
        (IF d \in before THEN SaturatingDec(counts[d]) ELSE counts[d])
        + (IF d \in after THEN 1 ELSE 0)]

\* The direction voted under a key.
Held(records, key) == IF key \in DOMAIN records THEN {records[key]} ELSE {}

\* desc_key: the complement, whose byte order is descending post id.
DescKey(id) == MaxPosts - id
PostOfDescKey(key) == MaxPosts - key

IndexLike(who, id) ==
    /\ VotesByAccount' = VotesByAccount \cup {<<who, id>>}
    /\ LikesByAccount' = LikesByAccount \cup {<<who, DescKey(id)>>}

UnindexLike(who, id) ==
    /\ VotesByAccount' = VotesByAccount \ {<<who, id>>}
    /\ LikesByAccount' = LikesByAccount \ {<<who, DescKey(id)>>}

\* Mutant: a repeated vote does not take back the direction it replaces.
BugVote(who, id, dir) ==
    /\ Call(who)
    /\ id \in DOMAIN Posts
    /\ VoteTally' = [VoteTally EXCEPT ![id] = Retally(@, {}, {dir})]
    /\ Votes' = MapInsert(Votes, <<id, who>>, dir)
    /\ IF dir = "Up" THEN IndexLike(who, id) ELSE UnindexLike(who, id)
    /\ UNCHANGED <<bound, postVars, accountVoteVars, followVars>>

Vote(who, id, dir) ==
    /\ Call(who)
    /\ id \in DOMAIN Posts
    /\ VoteTally' = [VoteTally EXCEPT ![id] = Retally(@, Held(Votes, <<id, who>>), {dir})]
    /\ Votes' = MapInsert(Votes, <<id, who>>, dir)
    /\ IF dir = "Up" THEN IndexLike(who, id) ELSE UnindexLike(who, id)
    /\ UNCHANGED <<bound, postVars, accountVoteVars, followVars>>

ClearVote(who, id) ==
    /\ Call(who)
    /\ <<id, who>> \in DOMAIN Votes
    /\ Votes' = MapRemove(Votes, <<id, who>>)
    /\ UnindexLike(who, id)
    /\ VoteTally' = [VoteTally EXCEPT ![id] = Retally(@, Held(Votes, <<id, who>>), {})]
    /\ UNCHANGED <<bound, postVars, accountVoteVars, followVars>>

VoteAccount(who, target, dir) ==
    /\ Call(who)
    /\ who # target
    /\ target \in bound
    /\ AccountVoteTally' =
           [AccountVoteTally EXCEPT ![target] = Retally(@, Held(AccountVotes, <<target, who>>), {dir})]
    /\ AccountVotes' = MapInsert(AccountVotes, <<target, who>>, dir)
    /\ UNCHANGED <<bound, postVars, voteVars, followVars>>

ClearAccountVote(who, target) ==
    /\ Call(who)
    /\ <<target, who>> \in DOMAIN AccountVotes
    /\ AccountVotes' = MapRemove(AccountVotes, <<target, who>>)
    /\ AccountVoteTally' =
           [AccountVoteTally EXCEPT ![target] =
               Retally(@, Held(AccountVotes, <<target, who>>), {})]
    /\ UNCHANGED <<bound, postVars, voteVars, followVars>>

-------------------------------------------------------------------------------
(* Follows. The target need not be bound.                                    *)

Follow(who, target) ==
    /\ Call(who)
    /\ who # target
    /\ <<who, target>> \notin Following
    /\ Following' = Following \cup {<<who, target>>}
    /\ Followers' = Followers \cup {<<target, who>>}
    /\ FollowingCount' = [FollowingCount EXCEPT ![who] = @ + 1]
    /\ FollowerCount' = [FollowerCount EXCEPT ![target] = @ + 1]
    /\ UNCHANGED <<bound, postVars, voteVars, accountVoteVars>>

Unfollow(who, target) ==
    /\ Call(who)
    /\ <<who, target>> \in Following
    /\ Following' = Following \ {<<who, target>>}
    /\ Followers' = Followers \ {<<target, who>>}
    /\ FollowingCount' = [FollowingCount EXCEPT ![who] = SaturatingDec(@)]
    /\ FollowerCount' = [FollowerCount EXCEPT ![target] = SaturatingDec(@)]
    /\ UNCHANGED <<bound, postVars, voteVars, accountVoteVars>>

-------------------------------------------------------------------------------

\* The gate binds an account, or revokes its bind: its posts, votes and edges
\* stay as they are.
GateMoves(who) ==
    /\ bound' = IF who \in bound THEN bound \ {who} ELSE bound \cup {who}
    /\ UNCHANGED <<postVars, voteVars, accountVoteVars, followVars, calls>>

NoCounts == [d \in Dirs |-> 0]

\* Genesis of the pallet.
Init ==
    /\ bound = Accounts
    /\ Posts = EmptyMap /\ NextPostId = 0
    /\ ByAuthor = EmptyMap /\ ByAuthorCount = [a \in Accounts |-> 0]
    /\ TopLevelByAuthor = EmptyMap /\ TopLevelByAuthorCount = [a \in Accounts |-> 0]
    /\ TopLevelPosts = EmptyMap /\ NextTopLevelSeq = 0
    /\ ReplyCount = [id \in Ids |-> 0]
    /\ RepliesByParent = {} /\ RepliesByParentSeq = EmptyMap
    /\ Votes = EmptyMap /\ VoteTally = [id \in Ids |-> NoCounts]
    /\ VotesByAccount = {} /\ LikesByAccount = {}
    /\ AccountVotes = EmptyMap /\ AccountVoteTally = [a \in Accounts |-> NoCounts]
    /\ Following = {} /\ Followers = {}
    /\ FollowingCount = [a \in Accounts |-> 0] /\ FollowerCount = [a \in Accounts |-> 0]
    /\ calls = 0

Next ==
    \/ \E who \in Accounts :
           \/ \E text \in Texts, parent \in Ids \cup {NoPost} : PostMessage(who, text, parent)
           \/ \E text \in Texts, quoted \in Ids : QuotePost(who, text, quoted)
           \/ \E question \in Texts : CreatePoll(who, question)
           \/ \E id \in Ids, dir \in Dirs : Vote(who, id, dir)
           \/ \E id \in Ids : ClearVote(who, id)
           \/ \E target \in Accounts, dir \in Dirs : VoteAccount(who, target, dir)
           \/ \E target \in Accounts : ClearAccountVote(who, target)
           \/ \E target \in Accounts : Follow(who, target)
           \/ \E target \in Accounts : Unfollow(who, target)
    \/ \E who \in Accounts : GateMoves(who)

Spec == Init /\ [][Next]_vars

-------------------------------------------------------------------------------
(* Properties.                                                               *)

\* An index from (owner, seq) to posts lists exactly the posts of a set, with
\* seqs 0 .. count - 1 and ids that ascend with seq.
ListsInOrder(index, owner, count, posts) ==
    LET seqs == {k[2] : k \in {q \in DOMAIN index : q[1] = owner}}
    IN  /\ seqs = 0..(count - 1)
        /\ {index[<<owner, s>>] : s \in seqs} = posts
        /\ \A s, t \in seqs : s < t => index[<<owner, s>>] < index[<<owner, t>>]

TopLevel == {id \in DOMAIN Posts : Posts[id].parent = NoPost}
RepliesTo(parent) == {id \in DOMAIN Posts : Posts[id].parent = parent}
By(author) == {id \in DOMAIN Posts : Posts[id].author = author}

\* Posts have consecutive ids, and every index of posts is exact, dense and in
\* order: per author, per author without replies, global, per parent.
PostIndexesAgree ==
    /\ DOMAIN Posts = 0..(NextPostId - 1)
    /\ \A a \in Accounts :
           /\ ListsInOrder(ByAuthor, a, ByAuthorCount[a], By(a))
           /\ ListsInOrder(TopLevelByAuthor, a, TopLevelByAuthorCount[a], By(a) \cap TopLevel)
    /\ DOMAIN TopLevelPosts = 0..(NextTopLevelSeq - 1)
    /\ {TopLevelPosts[s] : s \in DOMAIN TopLevelPosts} = TopLevel
    /\ \A s, t \in DOMAIN TopLevelPosts : s < t => TopLevelPosts[s] < TopLevelPosts[t]
    /\ \A p \in Ids : ListsInOrder(RepliesByParentSeq, p, ReplyCount[p], RepliesTo(p))
    /\ RepliesByParent = {<<Posts[id].parent, id>> : id \in DOMAIN Posts \ TopLevel}

\* The counters that the live weighting short-circuits on ("a counter that
\* under-reports its records would silently read as ZERO weight") recount, and
\* the likes are the Up votes, in the membership map and in the ordered index.
VotesAgree ==
    /\ \A id \in Ids, d \in Dirs :
           VoteTally[id][d] = Cardinality({v \in DOMAIN Votes : v[1] = id /\ Votes[v] = d})
    /\ \A a \in Accounts, d \in Dirs :
           AccountVoteTally[a][d] =
               Cardinality({v \in DOMAIN AccountVotes : v[1] = a /\ AccountVotes[v] = d})
    /\ VotesByAccount = {<<v[2], v[1]>> : v \in {w \in DOMAIN Votes : Votes[w] = "Up"}}
    /\ VotesByAccount = {<<l[1], PostOfDescKey(l[2])>> : l \in LikesByAccount}

\* The two directions of the follow graph mirror each other and are counted.
FollowsAgree ==
    /\ Followers = {<<e[2], e[1]>> : e \in Following}
    /\ \A a \in Accounts :
           /\ FollowingCount[a] = Cardinality({e \in Following : e[1] = a})
           /\ FollowerCount[a] = Cardinality({e \in Following : e[2] = a})

\* check_tally_consistency, after any sequence of calls: every counter equals
\* the number of records it counts and every index mirrors its forward edge.
IndexesAgree == PostIndexesAgree /\ VotesAgree /\ FollowsAgree

===============================================================================
