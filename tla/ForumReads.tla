----------------------------- MODULE ForumReads -----------------------------
(***************************************************************************)
(* What users do to posts without writing: read markers, thread            *)
(* preferences, notifications, reactions and votes.  These commands bypass *)
(* the command log in the native mode too, and append no event: a rebuild  *)
(* saves reactions and votes and puts them back (restoreUnorderedTraffic), *)
(* and leaves the other tables alone.                                      *)
(*                                                                         *)
(* A reaction or a vote is an identity row and a count in one of several   *)
(* shards; CounterShard(u) is the shard of a user.                         *)
(***************************************************************************)
EXTENDS ForumStats

CONSTANTS
    VoteBoard,       \* the system board of poll results
    PollOptions,     \* the options of every poll
    CounterShard(_)  \* the shard of a user's reactions and votes

CounterCheckpointed(head, reactions, votes, ts) ==
    [k |-> "counterCheckpointed", head |-> head, reactions |-> reactions, votes |-> votes, ts |-> ts]

---------------------------------------------------------------------------
\* Read markers: the last sequence number read, and the one before, to go back.

NewMarker == [last |-> 0, prev |-> 0]
MarkUpTo(markers, k, seq) ==
    Put(markers, k, [last |-> seq, prev |-> IF k \in DOMAIN markers THEN markers[k].last ELSE 0])
SwapMarker(markers, k) ==
    Put(markers, k, IF k \in DOMAIN markers
                    THEN [last |-> markers[k].prev, prev |-> markers[k].last] ELSE NewMarker)

BoardHead(db, b) ==
    Max({0} \cup {db.threads[t].lastSeq : t \in {x \in DOMAIN db.threads : db.threads[x].board = b}})

MarkBoardRead(db, u, b) == [db EXCEPT !.boardRead = MarkUpTo(@, <<u, b>>, BoardHead(db, b))]
RestoreBoardRead(db, u, b) == [db EXCEPT !.boardRead = SwapMarker(@, <<u, b>>)]

MarkBoardReadForAllUsersTx(db, b, seq) ==
    FoldSet(LAMBDA u, d : [d EXCEPT !.boardRead = MarkUpTo(@, <<u, b>>, seq)], db, DOMAIN db.role)

\* The boards of a folder and of the folders in it; NoId is all of them.
FavoriteBoardIDsInFolder(db, u, folder) ==
    {b \in DOMAIN db.boards :
        /\ <<u, b>> \in DOMAIN db.favs
        /\ folder = NoId \/ FavoriteFolderContains(db, u, folder, db.favs[<<u, b>>])}

MarkFavoriteFolderRead(db, u, folder) ==
    FoldSet(LAMBDA b, d : MarkBoardRead(d, u, b), db, FavoriteBoardIDsInFolder(db, u, folder))
RestoreFavoriteFolderRead(db, u, folder) ==
    FoldSet(LAMBDA b, d : RestoreBoardRead(d, u, b), db, FavoriteBoardIDsInFolder(db, u, folder))

MarkThreadRead(db, u, t) ==
    [db EXCEPT !.threadRead = MarkUpTo(@, <<u, t>>, db.threads[t].lastSeq)]
RestoreThreadRead(db, u, t) == [db EXCEPT !.threadRead = SwapMarker(@, <<u, t>>)]
MarkPostRead(db, u, p) ==
    [db EXCEPT !.threadRead = MarkUpTo(@, <<u, db.posts[p].thread>>, db.posts[p].seq)]

ApplyReadMarker(db, exists, marked) == IF exists THEN Ack(marked) ELSE Refused(db)

markBoardRead(db, a, p) ==
    ApplyReadMarker(db, p.board \in DOMAIN db.boards, MarkBoardRead(db, a, p.board))
restoreBoardRead(db, a, p) ==
    ApplyReadMarker(db, p.board \in DOMAIN db.boards, RestoreBoardRead(db, a, p.board))
markFavoriteFolderRead(db, a, p) ==
    ApplyReadMarker(db, FavoriteFolderExists(db, a, p.folder), MarkFavoriteFolderRead(db, a, p.folder))
restoreFavoriteFolderRead(db, a, p) ==
    ApplyReadMarker(db, FavoriteFolderExists(db, a, p.folder), RestoreFavoriteFolderRead(db, a, p.folder))
markThreadRead(db, a, p) ==
    ApplyReadMarker(db, p.thread \in DOMAIN db.threads, MarkThreadRead(db, a, p.thread))
restoreThreadRead(db, a, p) ==
    ApplyReadMarker(db, p.thread \in DOMAIN db.threads, RestoreThreadRead(db, a, p.thread))
markPostRead(db, a, p) ==
    ApplyReadMarker(db, p.post \in DOMAIN db.posts, MarkPostRead(db, a, p.post))

---------------------------------------------------------------------------
\* setThreadPref(thread, level), and the notifications of a user

SetThreadPref(db, u, t, level) ==
    [db EXCEPT !.prefs = IF level = "normal" THEN Drop(@, {<<u, t>>}) ELSE Put(@, <<u, t>>, level)]
setThreadPref(db, a, p) ==
    IF p.thread \notin DOMAIN db.threads THEN Refused(db)
    ELSE Ack(SetThreadPref(db, a, p.thread, p.level))

NotesOf(db, u) == {i \in DOMAIN db.notes : db.notes[i].user = u}
ReadNotes(db, ids) ==
    [db EXCEPT !.notes = [i \in DOMAIN @ |-> IF i \in ids THEN [@[i] EXCEPT !.read = TRUE] ELSE @[i]]]

MarkNotificationRead(db, u, id) == ReadNotes(db, NotesOf(db, u) \cap {id})
MarkAllNotificationsRead(db, u) == ReadNotes(db, NotesOf(db, u))
DeleteNotification(db, u, id) == [db EXCEPT !.notes = Drop(@, NotesOf(db, u) \cap {id})]
DeleteReadNotifications(db, u) ==
    [db EXCEPT !.notes = Drop(@, {i \in NotesOf(db, u) : db.notes[i].read})]
DeleteAllNotifications(db, u) == [db EXCEPT !.notes = Drop(@, NotesOf(db, u))]

---------------------------------------------------------------------------
\* Sharded counts: one is added to a shard, or taken away, never below zero.

CountUp(shards, k) == Put(shards, k, IF k \in DOMAIN shards THEN shards[k] + 1 ELSE 1)
CountDown(shards, k) == Change(shards, k, LAMBDA n : IF n > 0 THEN n - 1 ELSE 0)
SumOver(shards, ks) == FoldSet(LAMBDA k, n : n + shards[k], 0, ks)

UserReacted(db, p, u) == <<p, u>> \in DOMAIN db.reactions
UpsertReaction(db, p, u, emoji) ==
    [db EXCEPT !.reactions = Put(@, <<p, u>>, emoji),
               !.reactShards = IF UserReacted(db, p, u) THEN @
                               ELSE CountUp(@, <<p, CounterShard(u)>>)]
DeleteReaction(db, p, u) ==
    IF ~UserReacted(db, p, u) THEN db
    ELSE [db EXCEPT !.reactions = Drop(@, {<<p, u>>}),
                    !.reactShards = CountDown(@, <<p, CounterShard(u)>>)]
\* Without shards, the rows are counted.
ReactionCount(db, p) ==
    LET shards == {k \in DOMAIN db.reactShards : k[1] = p} IN
    IF shards = {} THEN Cardinality({r \in DOMAIN db.reactions : r[1] = p})
    ELSE SumOver(db.reactShards, shards)

\* What the author of a post is credited with; nobody, when it is anonymous.
RecordReactionReceived(db, u) ==
    [db EXCEPT !.recv = Change(@, u, LAMBDA n : n + 1)]
RecordReactionRemoved(db, u) ==
    [db EXCEPT !.recv = Change(@, u, LAMBDA n : IF n > 0 THEN n - 1 ELSE 0)]

\* reactPost(post, emoji), unreactPost(post)
reactPost(db, a, p) ==
    LET author == db.posts[p.post].author
        d1 == UpsertReaction(db, p.post, a, p.emoji)
    IN IF ~PostExists(db, p.post) \/ db.posts[p.post].redacted THEN Refused(db)
       ELSE Ack(IF UserReacted(db, p.post, a) \/ author = a THEN d1
                ELSE RecordReactionReceived(d1, author))

unreactPost(db, a, p) ==
    LET author == db.posts[p.post].author
        d1 == DeleteReaction(db, p.post, a)
    IN IF ~PostExists(db, p.post) \/ ~UserReacted(db, p.post, a) THEN Refused(db)
       ELSE Ack(IF author = a THEN d1 ELSE RecordReactionRemoved(d1, author))

---------------------------------------------------------------------------
\* votePoll(poll, option): a later vote of a user replaces the earlier one.

CastVote(db, poll, option, u) ==
    LET old == db.votes[<<poll, u>>]
        voted == <<poll, u>> \in DOMAIN db.votes
        shard(o) == <<poll, o, CounterShard(u)>>
        d1 == [db EXCEPT !.votes = Put(@, <<poll, u>>, option)]
    IN IF voted /\ old = option THEN d1
       ELSE [d1 EXCEPT !.voteShards =
                CountUp(IF voted THEN CountDown(@, shard(old)) ELSE @, shard(option))]

DeletePollVote(db, poll, u) ==
    IF <<poll, u>> \notin DOMAIN db.votes THEN db
    ELSE [db EXCEPT !.voteShards = CountDown(@, <<poll, db.votes[<<poll, u>>], CounterShard(u)>>),
                    !.votes = Drop(@, {<<poll, u>>})]

PollOptionVoteCount(db, poll, option) ==
    LET shards == {k \in DOMAIN db.voteShards : k[1] = poll /\ k[2] = option} IN
    IF shards = {} THEN Cardinality({v \in DOMAIN db.votes : v[1] = poll /\ db.votes[v] = option})
    ELSE SumOver(db.voteShards, shards)

votePoll(db, a, p) ==
    IF /\ p.poll \in DOMAIN db.polls /\ p.option \in PollOptions
       /\ db.polls[p.poll].expires = 0 \/ db.now <= db.polls[p.poll].expires
       /\ PostExists(db, db.polls[p.poll].post)
    THEN Ack(CastVote(db, p.poll, p.option, a)) ELSE Refused(db)

---------------------------------------------------------------------------
\* publishPollResult(poll)

ActorCanManageBoardPolls(db, a, b) == ActorHasBoardCapability(db, a, b, "polls")
PollResultThread(poll) == <<"result thr", poll>>
PollResultPost(poll) == <<"result pst", poll>>

RequirePollResultPublisher(db, a, post) ==
    LET t == db.posts[post].thread IN
    \/ ActorCanManageBoardPolls(db, a, db.threads[t].board)
    \/ a \in {db.posts[post].author, db.threads[t].author}
publishPollResultAllowed(db, a, poll) ==
    /\ poll \in DOMAIN db.polls
    /\ PostExists(db, db.polls[poll].post)
    /\ RequirePollResultPublisher(db, a, db.polls[poll].post)
    /\ BoardAllowsPublicSystemPost(db, PostBoard(db, db.polls[poll].post))

ensurePollResultSystemPost(db, a, poll) ==
    IF PollResultThread(poll) \in DOMAIN db.threads THEN db
    ELSE appendGeneratedSystemPostTx(db, a, VoteBoard, PollResultThread(poll), PollResultPost(poll))

publishPollResult(db, a, p) ==
    IF publishPollResultAllowed(db, a, p.poll) THEN Ack(ensurePollResultSystemPost(db, a, p.poll))
    ELSE Refused(db)
decidePublishPollResult(db, a, p) ==
    IF ~publishPollResultAllowed(db, a, p.poll) THEN Refuse
    ELSE IF PollResultThread(p.poll) \in DOMAIN db.threads THEN Decide(<<>>)
    ELSE Decide(nativeGeneratedSystemPostEvents(db, a, VoteBoard, PollResultThread(p.poll),
                                                PollResultPost(p.poll), FALSE))

---------------------------------------------------------------------------
\* The checkpoint of the counters: what they are at this point of the log.

buildCounterCheckpointPayload(db) ==
    CounterCheckpointed(LastSeq(db), [p \in DOMAIN db.posts |-> ReactionCount(db, p)],
                        [x \in (DOMAIN db.polls) \X PollOptions |-> PollOptionVoteCount(db, x[1], x[2])],
                        db.now)

\* A checkpoint is complete: it replaces the one before.
recordCounterCheckpointTx(db, e, seq) ==
    [db EXCEPT !.checkpoint = [seq |-> seq, head |-> e.head, reactions |-> e.reactions,
                               votes |-> e.votes]]

CheckpointCounters(db, a, p) ==
    LET e == buildCounterCheckpointPayload(db)
        d1 == appendEvent(db, e)
    IN Ack(recordCounterCheckpointTx(d1, e, LastSeq(d1)))

---------------------------------------------------------------------------
\* What a rebuild does about reactions and votes, d being the database rebuilt
\* from the log and db the one before.

\* Mutant: a vote is put back only if its poll has kept its id.
restoredPoll_SameId(d, db, poll) == {poll} \cap DOMAIN d.polls

restoredPoll(d, db, poll) ==
    IF poll \in DOMAIN d.polls THEN {poll}
    ELSE {q \in DOMAIN d.polls : d.polls[q].post = db.polls[poll].post}

restoreUnorderedTraffic(d, db) ==
    LET d1 == FoldSet(LAMBDA r, x : IF r[1] \in DOMAIN x.posts
                                    THEN UpsertReaction(x, r[1], r[2], db.reactions[r]) ELSE x,
                      d, DOMAIN db.reactions)
    IN FoldSet(LAMBDA v, x : FoldSet(LAMBDA q, y : CastVote(y, q, db.votes[v], v[2]),
                                     x, restoredPoll(x, db, v[1])),
               d1, DOMAIN db.votes)

recomputeReactionReceivedActivity(db) ==
    [db EXCEPT !.recv = [u \in DOMAIN @ |->
        Cardinality({r \in DOMAIN db.reactions : r[2] # u /\ db.posts[r[1]].author = u})]]
=============================================================================
