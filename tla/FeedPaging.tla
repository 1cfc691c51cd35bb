------------------------------ MODULE FeedPaging ------------------------------
(***************************************************************************)
(* The paged reads of pallet-microblog over the indexes of SocialIndex:    *)
(* runtime API calls that change nothing, each at one block, chained by    *)
(* the cursor the last page returned. A page is the ids of its posts; what *)
(* enrich adds to a post is left out.                                      *)
(***************************************************************************)
EXTENDS SocialIndex, SequencesExt

CONSTANTS
    MaxPage,            \* MAX_PAGE
    MaxScanFactor,      \* MAX_SCAN_FACTOR
    MaxThreadDepth,     \* MAX_THREAD_DEPTH
    MaxThreadReplies    \* MAX_THREAD_REPLIES

ASSUME PagingAssumptions ==
    {MaxPage, MaxScanFactor, MaxThreadDepth, MaxThreadReplies} \subseteq Nat \ {0}

VARIABLE reader   \* a client's scroll through one endpoint

NoCursor == -1
PageOf(posts, next) == [posts |-> posts, next |-> next]
EmptyPage == PageOf(<<>>, NoCursor)

ClampLimit(limit) == IF limit < 1 THEN 1 ELSE IF limit > MaxPage THEN MaxPage ELSE limit

-------------------------------------------------------------------------------
(* Scans of a whole spine with a filter: the feeds and the search.           *)

\* Mutant: the cursor names the last row examined, not the one above the next.
BugStopped(posts, seq) == PageOf(posts, seq)

\* The page of a scan that stops before it examines seq.
Stopped(posts, seq) == PageOf(posts, seq + 1)

\* Examine seq and what is below it. rows[s] is the post of a row, NoPost if
\* the row is absent or filtered out.
RECURSIVE ScanFrom(_, _, _, _, _)
ScanFrom(rows, seq, limit, posts, examined) ==
    IF Len(posts) >= limit \/ examined >= limit * MaxScanFactor THEN Stopped(posts, seq)
    ELSE LET row == MapGet(rows, seq, NoPost)
             kept == IF row = NoPost THEN posts ELSE Append(posts, row)
         IN  IF seq = 0 THEN PageOf(kept, NoCursor)
             ELSE ScanFrom(rows, seq - 1, limit, kept, examined + 1)

\* scan_top_level_by_seq and search_posts: strictly below the cursor, or from
\* the head of a spine of count rows.
Scan(rows, count, before, limit) ==
    IF before = 0 \/ (before = NoCursor /\ count = 0) THEN EmptyPage
    ELSE LET top == IF before = NoCursor \/ before > count THEN count ELSE before
         IN  ScanFrom(rows, IF top = 0 THEN 0 ELSE top - 1, ClampLimit(limit), <<>>, 0)

FeedPage(before, limit) == Scan(TopLevelPosts, NextTopLevelSeq, before, limit)

FollowingFeedPage(viewer, before, limit) ==
    IF FollowingCount[viewer] = 0 THEN EmptyPage
    ELSE Scan([s \in DOMAIN TopLevelPosts |->
                  IF <<viewer, Posts[TopLevelPosts[s]].author>> \in Following THEN TopLevelPosts[s] ELSE NoPost],
              NextTopLevelSeq, before, limit)

\* A text is the set of terms contains_ci finds in it.
SearchPosts(term, before, limit) ==
    Scan([id \in DOMAIN Posts |-> IF term \in Posts[id].text THEN id ELSE NoPost],
         NextPostId, before, limit)

-------------------------------------------------------------------------------
(* Walks down one author's index. The cursor is a post id.                   *)

\* author_index_seq_below's loop: the first seq whose id is at or above before.
RECURSIVE SearchBelow(_, _, _, _)
SearchBelow(ids, before, lo, hi) ==
    IF lo >= hi THEN lo
    ELSE LET mid == lo + (hi - lo) \div 2
         IN  IF mid \in DOMAIN ids /\ ids[mid] < before
             THEN SearchBelow(ids, before, mid + 1, hi)
             ELSE SearchBelow(ids, before, lo, mid)

AuthorIndexSeqBelow(ids, count, before) ==
    IF before = NoCursor THEN count ELSE SearchBelow(ids, before, 0, count)

\* The rows of one owner in an (owner, seq) index.
RowsOf(index, owner) ==
    [s \in {k[2] : k \in {q \in DOMAIN index : q[1] = owner}} |-> index[<<owner, s>>]]

\* A row the walks pass over: a hole, or not below the cursor.
Passed(id, before) == id = NoPost \/ (before # NoCursor /\ id >= before)

RECURSIVE AuthorWalk(_, _, _, _, _)
AuthorWalk(ids, before, seq, limit, posts) ==
    IF seq = 0 THEN PageOf(posts, NoCursor)
    ELSE LET id == MapGet(ids, seq - 1, NoPost)
         IN  IF Passed(id, before) THEN AuthorWalk(ids, before, seq - 1, limit, posts)
             ELSE IF Len(posts) >= limit THEN PageOf(posts, id + 1)
             ELSE AuthorWalk(ids, before, seq - 1, limit,
                             IF id \in DOMAIN Posts THEN Append(posts, id) ELSE posts)

AuthorFeedPage(author, before, limit) ==
    LET ids == RowsOf(TopLevelByAuthor, author)
    IN  AuthorWalk(ids, before, AuthorIndexSeqBelow(ids, TopLevelByAuthorCount[author], before),
                   ClampLimit(limit), <<>>)

\* The budget counts rows, before the filter that keeps replies only.
RECURSIVE RepliesWalk(_, _, _, _, _, _)
RepliesWalk(ids, before, seq, limit, posts, examined) ==
    IF seq = 0 THEN PageOf(posts, NoCursor)
    ELSE LET id == MapGet(ids, seq - 1, NoPost)
         IN  IF Passed(id, before) THEN RepliesWalk(ids, before, seq - 1, limit, posts, examined)
             ELSE IF examined >= limit * MaxScanFactor THEN PageOf(posts, id + 1)
             ELSE IF id \notin DOMAIN Posts \/ Posts[id].parent = NoPost
                  THEN RepliesWalk(ids, before, seq - 1, limit, posts, examined + 1)
             ELSE IF Len(posts) >= limit THEN PageOf(posts, id + 1)
             ELSE RepliesWalk(ids, before, seq - 1, limit, Append(posts, id), examined + 1)

AuthorRepliesPage(author, before, limit) ==
    LET ids == RowsOf(ByAuthor, author)
    IN  RepliesWalk(ids, before, AuthorIndexSeqBelow(ids, ByAuthorCount[author], before),
                    ClampLimit(limit), <<>>, 0)

-------------------------------------------------------------------------------
(* Replies, threads and likes.                                               *)

\* The posts of a descending run of seqs, those that exist.
PostsAt(parent, high, low) ==
    LET ids == [i \in 1..(high - low) |-> MapGet(RepliesByParentSeq, <<parent, high - i>>, NoPost)]
    IN  SelectSeq(ids, LAMBDA id : id \in DOMAIN Posts)

\* Mutant: the cursor counts from the newest reply.
BugRepliesFromSeq(parent, before, limit) ==
    LET high == IF before = NoCursor \/ before > ReplyCount[parent]
                THEN ReplyCount[parent] ELSE ReplyCount[parent] - before
        low == IF high > limit THEN high - limit ELSE 0
    IN  PageOf(PostsAt(parent, high, low), IF low > 0 THEN ReplyCount[parent] - low ELSE NoCursor)

RepliesFromSeq(parent, before, limit) ==
    LET high == IF before = NoCursor \/ before > ReplyCount[parent] THEN ReplyCount[parent] ELSE before
        low == IF high > limit THEN high - limit ELSE 0
    IN  PageOf(PostsAt(parent, high, low), IF low > 0 THEN low ELSE NoCursor)

RepliesPage(parent, before, limit) == RepliesFromSeq(parent, before, ClampLimit(limit))

\* Up the parents, nearest first: a parent need not exist, and may be the post
\* itself or a reply to it.
RECURSIVE AncestorsFrom(_, _, _)
AncestorsFrom(id, seen, depth) ==
    IF id = NoPost \/ depth >= MaxThreadDepth \/ id \in seen \/ id \notin DOMAIN Posts THEN <<>>
    ELSE <<id>> \o AncestorsFrom(Posts[id].parent, seen \cup {id}, depth + 1)

Thread(focal) ==
    LET page == RepliesFromSeq(focal, NoCursor, MaxThreadReplies)
    IN  [ancestors |-> IF focal \in DOMAIN Posts
                       THEN Reverse(AncestorsFrom(Posts[focal].parent, {focal}, 0)) ELSE <<>>,
         replies |-> Reverse(page.posts),
         next |-> page.next]

\* The walk of the trie from the cursor's own key, in ascending key order.
LikesPage(who, before, limit) ==
    LET keys == {l[2] : l \in {k \in LikesByAccount : k[1] = who}}
        rest == {k \in keys : before = NoCursor \/ k > DescKey(before)}
        ids == [i \in 1..Cardinality(rest) |-> PostOfDescKey(SetToSortSeq(rest, <)[i])]
    IN  IF Len(ids) > ClampLimit(limit)
        THEN PageOf(SubSeq(ids, 1, ClampLimit(limit)), ids[ClampLimit(limit) + 1] + 1)
        ELSE PageOf(ids, NoCursor)

-------------------------------------------------------------------------------
(* What the reads promise.                                                   *)

Endpoints ==
    [read : {"feed"}, of : {NoPost}]
    \cup [read : {"following", "author", "author_replies", "likes"}, of : Accounts]
    \cup [read : {"search"}, of : Terms]
    \cup [read : {"replies"}, of : Ids]

Page(e, before, limit) ==
    CASE e.read = "feed" -> FeedPage(before, limit)
      [] e.read = "following" -> FollowingFeedPage(e.of, before, limit)
      [] e.read = "author" -> AuthorFeedPage(e.of, before, limit)
      [] e.read = "author_replies" -> AuthorRepliesPage(e.of, before, limit)
      [] e.read = "likes" -> LikesPage(e.of, before, limit)
      [] e.read = "search" -> SearchPosts(e.of, before, limit)
      [] e.read = "replies" -> RepliesPage(e.of, before, limit)

\* The posts an endpoint is about.
Matching(e) ==
    CASE e.read = "feed" -> TopLevel
      [] e.read = "following" -> {id \in TopLevel : <<e.of, Posts[id].author>> \in Following}
      [] e.read = "author" -> TopLevel \cap By(e.of)
      [] e.read = "author_replies" -> By(e.of) \ TopLevel
      [] e.read = "likes" -> {id \in DOMAIN Posts : Held(Votes, <<id, e.of>>) = {"Up"}}
      [] e.read = "search" -> {id \in DOMAIN Posts : e.of \in Posts[id].text}
      [] e.read = "replies" -> RepliesTo(e.of)

\* The pages from a cursor on; fuel ends the chase of a cursor that goes nowhere.
RECURSIVE Pages(_, _, _, _)
Pages(e, before, limit, fuel) ==
    LET page == Page(e, before, limit)
    IN  IF page.next = NoCursor \/ fuel = 0 THEN <<page>>
        ELSE <<page>> \o Pages(e, page.next, limit, fuel - 1)

PagesFrom(e, before, limit) == Pages(e, before, limit, MaxPosts + 1)
PostsOf(pages) == FlattenSeq([i \in DOMAIN pages |-> pages[i].posts])

\* ids lists a set of posts, in descending order.
NewestFirst(ids, posts) ==
    /\ ToSet(ids) = posts
    /\ \A i \in 1..(Len(ids) - 1) : ids[i] > ids[i + 1]

\* Endpoints without a filter: clients take a short page as the last.
ExactReads == {"feed", "author", "likes", "replies"}

\* The breadcrumb leads to the focal post parent by parent, repeats nothing,
\* and starts at the root unless the chain is cut, cyclic or too deep.
ThreadIsExact(focal) ==
    LET thread == Thread(focal)
        chain == Append(thread.ancestors, focal)
    IN  /\ \A i \in 1..(Len(chain) - 1) : Posts[chain[i + 1]].parent = chain[i]
        /\ IsInjective(chain)
        /\ \/ Len(thread.ancestors) = MaxThreadDepth
           \/ Posts[Head(chain)].parent \notin DOMAIN Posts \ ToSet(chain)
        /\ LET below == IF thread.next = NoCursor THEN <<>>
                        ELSE PostsOf(PagesFrom([read |-> "replies", of |-> focal], thread.next, MaxPage))
           IN  NewestFirst(Reverse(thread.replies) \o below, RepliesTo(focal))

-------------------------------------------------------------------------------
(* A client that scrolls while the chain moves.                              *)

Idle == [read |-> "none", of |-> NoPost, cursor |-> NoCursor,
         got |-> <<>>, due |-> {}, known |-> 0]

Scrolling == reader.read # "none"
AtEnd == Scrolling /\ reader.cursor = NoCursor

\* The first page, when there are more. due and known are history: the posts
\* that have matched since, and the next post id then.
StartScroll(e, limit) ==
    LET page == Page(e, NoCursor, limit)
    IN  /\ ~Scrolling
        /\ page.next # NoCursor
        /\ reader' = [read |-> e.read, of |-> e.of, cursor |-> page.next,
                      got |-> page.posts, due |-> Matching(e), known |-> NextPostId]
        /\ UNCHANGED vars

\* The next hop of chasePage, or the page after, read at the block the chain has
\* come to. A hop asks for what its page still lacks, so the limit varies.
ScrollOn(limit) ==
    LET page == Page(reader, reader.cursor, limit)
    IN  /\ Scrolling /\ ~AtEnd
        /\ reader' = [reader EXCEPT !.cursor = page.next, !.got = @ \o page.posts]
        /\ UNCHANGED vars

StopScroll == AtEnd /\ reader' = Idle /\ UNCHANGED vars

\* A call or a move of the gate.
ChainMoves ==
    /\ ~AtEnd
    /\ Next
    /\ \E r \in {reader} :
           reader' = IF Scrolling THEN [r EXCEPT !.due = @ \cap Matching(r)'] ELSE r

ScrollInit == Init /\ reader = Idle

ScrollNext ==
    \/ ChainMoves
    \/ \E e \in Endpoints, limit \in 1..MaxPage : StartScroll(e, limit)
    \/ \E limit \in 1..MaxPage : ScrollOn(limit)
    \/ StopScroll

ScrollSpec == ScrollInit /\ [][ScrollNext]_<<vars, reader>>

\* Chasing the cursors of any endpoint, at any page size a client may ask for,
\* yields exactly the posts the endpoint is about, newest first: the scan
\* budget, the binary search and the cursor arithmetic skip and repeat
\* nothing, and only a filtered read hands out a short page with a cursor.
\* No read depends on who scrolls, so the states without a scroll say it all.
PagesAreExact ==
  ~Scrolling =>
    /\ \A e \in Endpoints, limit \in 0..(MaxPage + 1) :
           LET pages == PagesFrom(e, NoCursor, limit)
           IN  /\ NewestFirst(PostsOf(pages), Matching(e))
               /\ e.read \in ExactReads =>
                      \A i \in 1..(Len(pages) - 1) : Len(pages[i].posts) = ClampLimit(limit)
    /\ \A focal \in DOMAIN Posts : ThreadIsExact(focal)

\* Pages are read at different blocks. Whatever calls land between them, a
\* scroll shows no post twice or out of order, nothing newer than itself, and,
\* at its end, every post that matched all along.
CursorsSurvive ==
    Scrolling =>
        /\ NewestFirst(reader.got, ToSet(reader.got))
        /\ \A id \in ToSet(reader.got) : id < reader.known
        /\ AtEnd => reader.due \subseteq ToSet(reader.got)

===============================================================================
