------------------------------- MODULE PollClose -------------------------------
(***************************************************************************)
(* One poll of pallet-microblog, from create_poll to its frozen result.    *)
(*                                                                         *)
(* close_poll is paged: a call walks at most MaxClosePage voters, collapses *)
(* their observed roles into per-id scratch rows, and once the voters are  *)
(* exhausted folds the scratch rows into the chamber totals. Between two   *)
(* pages the observer and the teardown verbs move the voting power and the *)
(* roles that the tally reads; two sequence numbers report that.           *)
(*                                                                         *)
(* Sums are u128 in the code; no sum of Cardano stakes comes near 2^128.   *)
(***************************************************************************)
EXTENDS Integers, FiniteSets, FiniteSetsExt, StorageMap

CONSTANTS
    Accounts,
    Powers,            \* voting powers the observer can apply, 0 among them
    RoleSets,          \* observed role sets: records [kind, id, weight]; {} among them
    HashRank,          \* position of a voter's row in PollVotes' hashed-key order
    ScratchRank,       \* position of a <<kind, id>> in PollChamberScratch's key order
    PollKinds,         \* kinds of poll to create
    MaxPollOptions, MinPollDuration, MaxPollDuration,
    MaxClosePage,      \* voters one close_poll walks
    MaxChamberBadges,  \* drain items per walk item of the budget
    MaxMoves,          \* bound on the movements of power and roles
    MaxBlock           \* bound on the block number

ASSUME PowersAreNat == Powers \subseteq Nat /\ 0 \in Powers
ASSUME RolesAreRoles ==
    /\ {} \in RoleSets
    /\ \A set \in RoleSets : \A r \in set :
           r.kind \in {"spo", "drep", "cc"} /\ r.weight \in Nat
ASSUME HashRankInjective ==
    /\ HashRank \in [Accounts -> Nat \ {0}]
    /\ \A a, b \in Accounts : HashRank[a] = HashRank[b] => a = b
ASSUME KindsAreKinds == PollKinds \subseteq {"stake", "governance", "spo", "drep"}
ASSUME PollBounds ==
    /\ {MaxPollOptions, MinPollDuration, MaxPollDuration, MaxClosePage,
        MaxChamberBadges} \subseteq Nat \ {0}
    /\ {MaxMoves, MaxBlock} \subseteq Nat

VARIABLES
    now, phase,                       \* block number; "inherent" or "body"
    bound,                            \* accounts the identity gate allows
    VotingPower, VotingPowerSeq,      \* pallet-talk-stake
    ObservedRoles, ObservedRolesSeq,  \* pallet-cardano-roles
    Poll,                             \* [options, close_at, kind] or NoPoll
    PollVotes, PollTally,             \* choice per voter, count per option
    PollCloseState,                   \* the close in flight, or NoState
    PollChamberScratch,               \* <<kind, id>> -> [option, weight, conflict]
    PollResults,                      \* the frozen result, or NoResult
    smearBlocks,                      \* blocks of the PollTallySmeared event; 0 is no event
    atStart, low, high                \* history: see the properties

blockVars == <<now, phase>>
weightVars == <<VotingPower, VotingPowerSeq, ObservedRoles, ObservedRolesSeq>>
voteVars == <<Poll, PollVotes, PollTally>>
closeVars == <<PollCloseState, PollChamberScratch, PollResults, smearBlocks>>
history == <<atStart, low, high>>
vars == <<blockVars, bound, weightVars, voteVars, closeVars, history>>

NoPoll == [options |-> 0]
NoState == [draining |-> FALSE]
NoResult == EmptyMap
NoDeadline == -1     \* close_at: None, on a poll stored before deadlines were required
NoCursor == 0

Options == 0..(Poll.options - 1)
Voters == DOMAIN PollVotes
Chambers == {"spo", "drep"}

\* PollKind::has_spo, has_drep: the chambers the poll surfaces.
Wanted ==
    CASE Poll.kind = "governance" -> Chambers
      [] Poll.kind = "stake" -> {}
      [] OTHER -> {Poll.kind}

-------------------------------------------------------------------------------
(* The tally.                                                                *)

\* The first n rows in key order (StorageMap iteration with take).
FirstRows(rows, rank, n) ==
    {r \in rows : Cardinality({s \in rows : rank[s] < rank[r]}) < n}

\* Mutant: resuming at the cursor's own row.
BugRowsAfter(cursor) == {v \in Voters : HashRank[v] >= cursor}

\* Mutant: the row the last page only peeked at is taken as walked.
BugRowsPeeked(cursor) == {v \in Voters : HashRank[v] > cursor + 1}

\* iter_key_prefix_from: the voters behind the cursor.
RowsAfter(cursor) == {v \in Voters : HashRank[v] > cursor}

\* The voters of S who hold a badge, and the weight one of them holds it with.
Holders(S, key) == {v \in S : \E r \in ObservedRoles[v] : <<r.kind, r.id>> = key}
BadgeWeight(v, key) == (CHOOSE r \in ObservedRoles[v] : <<r.kind, r.id>> = key).weight
FirstHolder(S, key) ==
    CHOOSE v \in Holders(S, key) : \A w \in Holders(S, key) : HashRank[v] <= HashRank[w]

\* The badges of the wanted chambers that voters of S hold.
Badges(S) ==
    {<<r.kind, r.id>> : r \in {q \in UNION {ObservedRoles[v] : v \in S} : q.kind \in Wanted}}

\* The scratch rows after walking S: the first sighting of a badge sets its
\* option and weight, and a pool whose owners disagree is in conflict.
Collapse(S) ==
    [key \in DOMAIN PollChamberScratch \cup Badges(S) |->
        LET first == FirstHolder(S, key)
            entry == IF key \in DOMAIN PollChamberScratch
                     THEN PollChamberScratch[key]
                     ELSE [option |-> PollVotes[first], weight |-> BadgeWeight(first, key),
                           conflict |-> FALSE]
        IN  [entry EXCEPT !.conflict =
                @ \/ /\ key[1] = "spo"
                     /\ \E v \in Holders(S, key) : PollVotes[v] # entry.option]]

\* The holder lens: what voters of S add to an option, at their power now.
PowerFor(S, option) ==
    MapThenSumSet(LAMBDA v : VotingPower[v], {v \in S : PollVotes[v] = option})

\* The scratch rows of K that cast a vote of a chamber for an option.
Cast(scratch, K, chamber, option) ==
    {key \in K : /\ key[1] = chamber
                 /\ ~scratch[key].conflict
                 /\ scratch[key].option = option}

\* A chamber's totals with the rows of K folded in.
Folded(totals, scratch, K) ==
    [c \in Chambers |-> [o \in Options |->
        [weight |-> totals[c][o].weight
                    + MapThenSumSet(LAMBDA key : scratch[key].weight, Cast(scratch, K, c, o)),
         count |-> totals[c][o].count + Cardinality(Cast(scratch, K, c, o))]]]

ZeroTotals == [c \in Chambers |-> [o \in Options |-> [weight |-> 0, count |-> 0]]]

\* The frozen result: a chamber the poll does not surface, and every chamber
\* of a poll nobody voted in, stays empty.
Result(weights, totals) ==
    [option_weights |-> weights,
     option_counts |-> PollTally,
     chambers |-> [c \in {d \in Wanted : \E o \in Options : PollTally[o] > 0} |-> totals[c]]]

-------------------------------------------------------------------------------
(* Movement of what the tally reads.                                         *)

\* History: the least and the greatest power an account held during the close.
Remember(who, weight) ==
    /\ IF PollCloseState = NoState
       THEN UNCHANGED <<low, high>>
       ELSE /\ low' = [low EXCEPT ![who] = IF weight < @ THEN weight ELSE @]
            /\ high' = [high EXCEPT ![who] = IF weight > @ THEN weight ELSE @]
    /\ UNCHANGED atStart

\* Mutant: the movement is not counted.
BugSetVotingPower(who, weight) ==
    /\ VotingPower' = [VotingPower EXCEPT ![who] = weight]
    /\ Remember(who, weight)
    /\ UNCHANGED VotingPowerSeq

\* VotingPowerApply -> apply_voting_power: an unchanged weight is not written.
SetVotingPower(who, weight) ==
    /\ VotingPower' = [VotingPower EXCEPT ![who] = weight]
    /\ VotingPowerSeq' = IF VotingPower[who] = weight THEN VotingPowerSeq ELSE VotingPowerSeq + 1
    /\ Remember(who, weight)

\* apply_roles, and drop_observed_badges with no roles.
SetRoles(who, roles) ==
    /\ ObservedRoles' = [ObservedRoles EXCEPT ![who] = roles]
    /\ ObservedRolesSeq' = IF ObservedRoles[who] = roles THEN ObservedRolesSeq
                           ELSE ObservedRolesSeq + 1

MovesLeft == VotingPowerSeq + ObservedRolesSeq < MaxMoves

\* The clock saturates at MaxBlock; blocks keep coming.
NewBlock ==
    /\ phase = "body"
    /\ now' = IF now < MaxBlock THEN now + 1 ELSE now
    /\ phase' = "inherent"
    /\ UNCHANGED <<bound, weightVars, voteVars, closeVars, history>>

\* The observer's inherent credits or clears one account's power, or its roles.
ApplyVotingPower(who, weight) ==
    /\ phase = "inherent"
    /\ VotingPower[who] = weight \/ MovesLeft
    /\ SetVotingPower(who, weight)
    /\ UNCHANGED <<blockVars, bound, ObservedRoles, ObservedRolesSeq, voteVars, closeVars>>

ApplyRoles(who, roles) ==
    /\ phase = "inherent"
    /\ ObservedRoles[who] = roles \/ MovesLeft
    /\ SetRoles(who, roles)
    /\ UNCHANGED <<blockVars, bound, VotingPower, VotingPowerSeq, voteVars, closeVars, history>>

EndInherent ==
    /\ phase = "inherent"
    /\ phase' = "body"
    /\ UNCHANGED <<now, bound, weightVars, voteVars, closeVars, history>>

\* The gate's revoke with its teardown hooks: the badges go, and the voting
\* power of an account with a stake bind. Its votes stay.
Revoke(who) ==
    /\ phase = "body"
    /\ MovesLeft
    /\ who \in bound
    /\ bound' = bound \ {who}
    /\ SetRoles(who, {})
    /\ \/ SetVotingPower(who, 0)
       \/ UNCHANGED <<VotingPower, VotingPowerSeq, history>>
    /\ UNCHANGED <<blockVars, voteVars, closeVars>>

\* unlink_stake's forget_stake hook.
UnlinkStake(who) ==
    /\ phase = "body"
    /\ VotingPower[who] = 0 \/ MovesLeft
    /\ SetVotingPower(who, 0)
    /\ UNCHANGED <<blockVars, bound, ObservedRoles, ObservedRolesSeq, voteVars, closeVars>>

\* unclaim_role, and the committee's revoke_role and revoke_role_many.
DropObservedBadges(who) ==
    /\ phase = "body"
    /\ ObservedRoles[who] = {} \/ MovesLeft
    /\ SetRoles(who, {})
    /\ UNCHANGED <<blockVars, bound, VotingPower, VotingPowerSeq, voteVars, closeVars, history>>

-------------------------------------------------------------------------------
(* The calls on the poll.                                                    *)

CreatePoll(who, options, deadline, kind) ==
    /\ phase = "body"
    /\ Poll = NoPoll
    /\ who \in bound
    /\ deadline >= now + MinPollDuration
    /\ deadline <= now + MaxPollDuration
    /\ options >= 2
    /\ options <= MaxPollOptions
    /\ Poll' = [options |-> options, close_at |-> deadline, kind |-> kind]
    /\ PollTally' = [o \in 0..(options - 1) |-> 0]
    /\ UNCHANGED <<blockVars, bound, weightVars, PollVotes, closeVars, history>>

\* Mutant: a vote in the deadline's own block.
BugMayVote(who, option) ==
    /\ who \in bound
    /\ option \in Options
    /\ Poll.close_at # NoDeadline => now <= Poll.close_at

MayVote(who, option) ==
    /\ who \in bound
    /\ option \in Options
    /\ Poll.close_at # NoDeadline => now < Poll.close_at

\* The counts after a vote: the previous choice is taken back first.
Recount(who, option) ==
    [o \in Options |->
        PollTally[o] - (IF who \in Voters /\ PollVotes[who] = o THEN 1 ELSE 0)
                     + (IF option = o THEN 1 ELSE 0)]

CastPollVote(who, option) ==
    /\ phase = "body"
    /\ Poll # NoPoll
    /\ MayVote(who, option)
    /\ PollTally' = Recount(who, option)
    /\ PollVotes' = MapInsert(PollVotes, who, option)
    /\ UNCHANGED <<blockVars, bound, weightVars, Poll, closeVars, history>>

\* Mutant: a finalized poll is closed again.
BugMayClose(who) ==
    /\ who \in bound
    /\ Poll.close_at # NoDeadline
    /\ now >= Poll.close_at

\* The early returns; a poll already finalized is an Ok that changes nothing.
MayClose(who) ==
    /\ who \in bound
    /\ PollResults = NoResult
    /\ Poll.close_at # NoDeadline
    /\ now >= Poll.close_at

FreshState ==
    [draining |-> FALSE, cursor |-> NoCursor, option_weights |-> [o \in Options |-> 0],
     totals |-> ZeroTotals, stake_seq |-> VotingPowerSeq, roles_seq |-> ObservedRolesSeq,
     smeared |-> FALSE, started_at |-> now]

\* The movement guard of a resumed page; a poll without chambers reads no roles.
Moved(state) ==
    /\ state.cursor # NoCursor
    /\ \/ VotingPowerSeq # state.stake_seq
       \/ Wanted # {} /\ ObservedRolesSeq # state.roles_seq

\* The hashed key a page of voters ended on.
LastOf(page) == CHOOSE key \in {HashRank[v] : v \in page} : \A v \in page : HashRank[v] <= key

\* One page: the voters of the walk, then, if they are exhausted, as many
\* scratch rows as what is left of the budget pays for.
Page(resumed, rest, walked) ==
    LET scratch == Collapse(walked)
        draining == walked = rest
        budget == (MaxClosePage - Cardinality(walked)) * MaxChamberBadges
        drained == IF draining THEN FirstRows(DOMAIN scratch, ScratchRank, budget) ELSE {}
        left == DOMAIN scratch \ drained
        state == [resumed EXCEPT
                     !.smeared = @ \/ Moved(resumed),
                     !.draining = draining,
                     !.cursor = IF draining THEN NoCursor ELSE LastOf(walked),
                     !.option_weights = [o \in Options |-> @[o] + PowerFor(walked, o)],
                     !.totals = Folded(@, scratch, drained)]
    IN  /\ PollChamberScratch' = [key \in left |-> scratch[key]]
        /\ IF draining /\ left = {}
           THEN /\ PollResults' = Result(state.option_weights, state.totals)
                /\ PollCloseState' = NoState
                /\ smearBlocks' = IF state.smeared THEN now - state.started_at + 1 ELSE 0
           ELSE /\ PollCloseState' = state
                /\ UNCHANGED <<PollResults, smearBlocks>>

\* The voters this page walks; none in the drain phase.
Walk(state) ==
    IF state.draining THEN {} ELSE FirstRows(RowsAfter(state.cursor), HashRank, MaxClosePage)

\* What a close in one block would freeze now: every voter at its power now,
\* every pool and dRep once, with its first voter in key order.
AtomicResult ==
    LET Abstains(key) == /\ key[1] = "spo"
                         /\ \E v, w \in Holders(Voters, key) : PollVotes[v] # PollVotes[w]
        Backers(c, o) == {key \in Badges(Voters) :
                             /\ key[1] = c
                             /\ ~Abstains(key)
                             /\ PollVotes[FirstHolder(Voters, key)] = o}
    IN  Result([o \in Options |-> PowerFor(Voters, o)],
               [c \in Chambers |-> [o \in Options |->
                   [weight |-> MapThenSumSet(
                                   LAMBDA key : BadgeWeight(FirstHolder(Voters, key), key),
                                   Backers(c, o)),
                    count |-> Cardinality(Backers(c, o))]]])

\* close_poll.
ClosePoll(who) ==
    /\ phase = "body"
    /\ Poll # NoPoll
    /\ MayClose(who)
    /\ LET fresh == PollCloseState = NoState
           resumed == IF fresh THEN FreshState ELSE PollCloseState
           rest == IF resumed.draining THEN {} ELSE RowsAfter(resumed.cursor)
       IN  /\ Page(resumed, rest, Walk(resumed))
           /\ IF fresh
              THEN atStart' = AtomicResult /\ low' = VotingPower /\ high' = VotingPower
              ELSE UNCHANGED history
    /\ UNCHANGED <<blockVars, bound, weightVars, voteVars>>

-------------------------------------------------------------------------------

\* A chain the observer has credited, with no poll, or with an open poll stored
\* before deadlines were required.
Init ==
    /\ now = 0
    /\ phase = "body"
    /\ bound = Accounts
    /\ VotingPower \in [Accounts -> Powers]
    /\ VotingPowerSeq = 0
    /\ ObservedRoles \in [Accounts -> RoleSets]
    /\ ObservedRolesSeq = 0
    /\ \/ Poll = NoPoll
       \/ \E kind \in PollKinds :
              Poll = [options |-> 2, close_at |-> NoDeadline, kind |-> kind]
    /\ PollVotes = EmptyMap
    /\ PollTally = [o \in Options |-> 0]
    /\ PollCloseState = NoState
    /\ PollChamberScratch = EmptyMap
    /\ PollResults = NoResult
    /\ smearBlocks = 0
    /\ atStart = NoResult
    /\ low = [a \in Accounts |-> 0]
    /\ high = [a \in Accounts |-> 0]

Next ==
    \/ NewBlock
    \/ EndInherent
    \/ \E who \in Accounts :
           \/ \E weight \in Powers : ApplyVotingPower(who, weight)
           \/ \E roles \in RoleSets : ApplyRoles(who, roles)
           \/ Revoke(who)
           \/ UnlinkStake(who)
           \/ DropObservedBadges(who)
           \/ \E options \in 1..(MaxPollOptions + 1), deadline \in 0..MaxBlock, kind \in PollKinds :
                  CreatePoll(who, options, deadline, kind)
           \/ \E option \in Options : CastPollVote(who, option)
           \/ ClosePoll(who)

Spec == Init /\ [][Next]_vars

\* Blocks keep coming, and somebody keeps calling close_poll: strong fairness
\* of ClosePoll, whose steps are the ones that change closeVars.
FairSpec ==
    /\ Spec
    /\ []<>(phase = "inherent") /\ []<>(phase = "body")
    /\ []<>(ENABLED <<\E who \in Accounts : ClosePoll(who)>>_vars) => []<><<closeVars' # closeVars>>_vars

-------------------------------------------------------------------------------
(* Properties.                                                               *)

\* The positive signal of the missing PollTallySmeared event: a paged close
\* that did not report movement froze exactly what an atomic close would have
\* frozen in the block it started in, the chambers included.
UnsmearedIsAtomic == PollResults # NoResult /\ smearBlocks = 0 => PollResults = atStart

\* "Every voter counted exactly once", smeared or not: an option's frozen
\* weight lies between the sums of the least and the greatest power that its
\* voters held during the close, and its frozen count is its number of voters.
EveryVoterOnce ==
    PollResults # NoResult =>
        \A o \in Options :
            LET backers == {v \in Voters : PollVotes[v] = o}
            IN  /\ MapThenSumSet(LAMBDA v : low[v], backers) <= PollResults.option_weights[o]
                /\ PollResults.option_weights[o] <= MapThenSumSet(LAMBDA v : high[v], backers)
                /\ PollResults.option_counts[o] = Cardinality(backers)

\* try_state's assertion: a host never holds both a result and a close in
\* flight, and scratch rows live only while a close is in flight.
InFlightOrFinal ==
    /\ PollCloseState # NoState => PollResults = NoResult
    /\ DOMAIN PollChamberScratch # {} => PollCloseState # NoState

\* "The input set cannot change underneath it" and a finalized poll never
\* re-prices: once a close has started no vote is cast, changed or withdrawn,
\* whatever the order of the calls in the deadline's block, and no movement,
\* vote or repeated close_poll changes a frozen result.
FrozenForEver ==
    [][/\ PollCloseState # NoState \/ PollResults # NoResult => PollVotes' = PollVotes
       /\ PollResults # NoResult => PollResults' = PollResults]_vars

\* Movement never blocks a close: past its deadline every poll is finalized, if
\* an account is left that may call close_poll.
ClosesEventually ==
    (Poll # NoPoll /\ Poll.close_at \in 0..now) ~> (PollResults # NoResult \/ bound = {})

===============================================================================
