---------------------------- MODULE ForumDerived ----------------------------
(***************************************************************************)
(* The derived views: rankings, summaries and statistics that a processor  *)
(* keeps in a table of its own, and that a listing reads from the table    *)
(* once the table has rows, and computes from the other tables until then. *)
(* db.views maps the name of a view to its table, db.marks to the sequence *)
(* number up to which the processor has read the log.                      *)
(*                                                                         *)
(* A listing maps what it lists to the row it shows.  The order is that of *)
(* the rows; pages, names and excerpts are left out, and so are the update *)
(* times, and with them the decay of a thread's score.                     *)
(***************************************************************************)
EXTENDS ForumReads

---------------------------------------------------------------------------
\* What a user may see on a list.

\* The boards of members are listed for moderators, theirs and the site's, and
\* for members.
BoardVisible(db, u, b) ==
    \/ "member_read" \notin GetBoardSettings(db, b)
    \/ u \in DOMAIN db.role /\ IsMod(db, u)
    \/ <<b, u>> \in DOMAIN db.moderators
    \/ <<b, u>> \in DOMAIN db.members

OnRankings(db, b) == OnLists(db, b) /\ "stats_excluded" \notin GetBoardSettings(db, b)
OnRankingsOf(db, u, b) == OnRankings(db, b) /\ BoardVisible(db, u, b)

ThreadsOf(db, b) == {t \in DOMAIN db.threads : db.threads[t].board = b}
ShownPosts(db, ts) == {p \in DOMAIN db.posts : db.posts[p].thread \in ts /\ ~db.posts[p].redacted}
LatestOf(db, ps) == Max({0} \cup {db.posts[p].createdAt : p \in ps})
postReactionAggregateSumSQL(db, ps) == FoldSet(LAMBDA p, n : n + ReactionCount(db, p), 0, ps)

\* Users the lists show on a board; db.where is the board of a user online.
OnlineOn(db, b) == Cardinality({u \in db.online \cap DOMAIN db.where : db.where[u] = b})
ModeratorsOf(db, b) == Cardinality({m \in DOMAIN db.moderators : m[1] = b})

---------------------------------------------------------------------------
\* The community.

\* The most users that were ever online together.
applyCommunityStatsMaxOnline(db) ==
    Max({Cardinality(db.online)} \cup {db.history[d].most : d \in DOMAIN db.history})

GetCommunityStats(db) ==
    [totals |-> getCommunityStatsCurrent(db), online |-> Cardinality(db.online),
     most |-> applyCommunityStatsMaxOnline(db), head |-> LastSeq(db)]

\* The snapshot is one row.
RebuildCommunityStatsSnapshot(db) == Put(NoRows, "default", GetCommunityStats(db))
GetCommunityStatsSnapshot(db) == db.views["community_stats"]["default"]

---------------------------------------------------------------------------
\* Boards.

BoardCounts(db, b) ==
    [threads |-> Cardinality(ThreadsOf(db, b)), posts |-> Cardinality(ShownPosts(db, ThreadsOf(db, b))),
     lastSeq |-> BoardHead(db, b), moderators |-> ModeratorsOf(db, b)]
BoardActivity(db, b) ==
    [threads |-> Cardinality(ThreadsOf(db, b)), posts |-> Cardinality(ShownPosts(db, ThreadsOf(db, b))),
     lastSeq |-> BoardHead(db, b), lastPostAt |-> LatestOf(db, ShownPosts(db, ThreadsOf(db, b))),
     moderators |-> ModeratorsOf(db, b)]

RankingRow(db, b, row) == [stats |-> row, online |-> OnlineOn(db, b)]

ListBoardRankings(db, u) ==
    [b \in {x \in DOMAIN db.boards : OnRankingsOf(db, u, x)} |-> RankingRow(db, b, BoardActivity(db, b))]
RebuildBoardRankingStats(db) == [b \in DOMAIN db.boards |-> BoardActivity(db, b)]
ListBoardRankingsMaterialized(db, u) ==
    LET rows == db.views["rankings.boards"] IN
    [b \in {x \in DOMAIN rows \cap DOMAIN db.boards : OnRankingsOf(db, u, x)} |-> RankingRow(db, b, rows[b])]

\* Recommended boards, and boards made in some days, that everyone may read.
OpenToAll(db, b) == OnRankings(db, b) /\ "member_read" \notin GetBoardSettings(db, b)
ListRecommendedBoards(db) ==
    [b \in {x \in db.recommended \cap DOMAIN db.boards : OpenToAll(db, x)} |->
        RankingRow(db, b, BoardActivity(db, b))]
ListRecentPublicBoards(db, from, to) ==
    [b \in {x \in DOMAIN db.boards \cap DOMAIN db.boardAt : OpenToAll(db, x) /\ db.boardAt[x] \in from..to} |->
        BoardCounts(db, b)]

---------------------------------------------------------------------------
\* Board summaries: the counts, and what is unread for the user.

ReadSeq(markers, k) == IF k \in DOMAIN markers THEN markers[k].last ELSE 0
UnreadPosts(db, ts, seq) == {p \in ShownPosts(db, ts) : db.posts[p].seq > seq}
Zapped(db, u, b) == <<u, b>> \in db.zaps /\ "zap" \in GetBoardSettings(db, b)
CreatedAt(db, b) == IF b \in DOMAIN db.boardAt THEN db.boardAt[b] ELSE 0

SummaryRow(db, u, b, counts) ==
    LET seq == ReadSeq(db.boardRead, <<u, b>>) IN
    [stats |-> counts, online |-> OnlineOn(db, b), favorite |-> <<u, b>> \in DOMAIN db.favs,
     readSeq |-> seq, zapped |-> Zapped(db, u, b), settings |-> GetBoardSettings(db, b),
     threads |-> Cardinality({t \in ThreadsOf(db, b) : db.threads[t].lastSeq > seq}),
     posts |-> Cardinality(UnreadPosts(db, ThreadsOf(db, b), seq))]

\* All boards, or those with something unread that are not zapped.
Summaries(rows, unreadOnly) ==
    [b \in {x \in DOMAIN rows : unreadOnly => rows[x].posts > 0 /\ ~rows[x].zapped} |-> rows[b]]

SummaryStats(db, b) == [counts |-> BoardCounts(db, b), createdAt |-> CreatedAt(db, b)]
ListBoardSummaries(db, u, unreadOnly) ==
    Summaries([b \in DOMAIN db.boards |-> SummaryRow(db, u, b, SummaryStats(db, b))], unreadOnly)
RebuildBoardSummaryStats(db) == [b \in DOMAIN db.boards |-> SummaryStats(db, b)]
ListBoardSummariesMaterialized(db, u, unreadOnly) ==
    LET rows == db.views["summaries.boards"] IN
    Summaries([b \in DOMAIN rows \cap DOMAIN db.boards |-> SummaryRow(db, u, b, rows[b])], unreadOnly)

---------------------------------------------------------------------------
\* Unread threads, of all boards or of the favorites in a folder.

AllowedBoards(db, u, favoritesOnly, folder) ==
    {b \in DOMAIN db.boards :
        /\ BoardVisible(db, u, b)
        /\ ~Zapped(db, u, b)
        /\ favoritesOnly => b \in FavoriteBoardIDsInFolder(db, u, folder)}

UnreadRow(db, u, t, row) ==
    LET seq == Max({ReadSeq(db.threadRead, <<u, t>>), ReadSeq(db.boardRead, <<u, row.board>>)})
        unread == UnreadPosts(db, {t}, seq)
    IN [thread |-> row, readSeq |-> seq, posts |-> Cardinality(unread),
        first |-> {p \in unread : \A q \in unread : db.posts[p].seq <= db.posts[q].seq}]
UnreadThreads(db, u, rows, boards) ==
    LET all == [t \in {x \in DOMAIN rows : rows[x].board \in boards} |-> UnreadRow(db, u, t, rows[t])]
    IN [t \in {x \in DOMAIN all : all[x].posts > 0} |-> all[t]]

\* A folder makes the list one of favorites.
ListUnreadThreadSummaries(db, u, favoritesOnly, folder) ==
    UnreadThreads(db, u, db.threads, AllowedBoards(db, u, favoritesOnly \/ folder # NoId, folder))
RebuildUnreadThreadSummaryStats(db) == db.threads
ListUnreadThreadSummariesMaterialized(db, u, favoritesOnly, folder) ==
    UnreadThreads(db, u, db.views["summaries.unread_threads"],
                  AllowedBoards(db, u, favoritesOnly \/ folder # NoId, folder))

---------------------------------------------------------------------------
\* Threads, by what was said and done in them; all, or since some time.

ThreadActivity(db, ps) ==
    [posts |-> Cardinality(ps), participants |-> Cardinality({db.posts[p].author : p \in ps}),
     reactions |-> postReactionAggregateSumSQL(db, ps)]
periodThreadScore(row) == row.posts * 100 + row.participants * 150 + row.reactions * 200
ThreadRank(row, lastSeq) == [stats |-> row, score |-> periodThreadScore(row), lastSeq |-> lastSeq]

RankedThreads(db, u) == {t \in DOMAIN db.threads : OnRankingsOf(db, u, db.threads[t].board)}

ThreadStats(db, t) == ThreadActivity(db, ShownPosts(db, {t}))
ListThreadRankings(db, u) ==
    [t \in RankedThreads(db, u) |-> ThreadRank(ThreadStats(db, t), db.threads[t].lastSeq)]
RebuildThreadRankingStats(db) ==
    [t \in DOMAIN db.threads |-> ThreadRank(ThreadStats(db, t), db.threads[t].lastSeq)]
ListThreadRankingsMaterialized(db, u) ==
    LET rows == db.views["rankings.threads"] IN
    [t \in DOMAIN rows \cap RankedThreads(db, u) |-> rows[t]]

\* Without a beginning there is no range.
Between(from, to, ts) == 0 < from /\ from <= ts /\ ts <= to
PostsOfRange(db, t, from, to) ==
    {p \in ShownPosts(db, {t}) : Between(from, to, db.posts[p].createdAt)}
ListThreadRankingsRange(db, u, from, to) ==
    [t \in {x \in RankedThreads(db, u) : PostsOfRange(db, x, from, to) # {}} |->
        LET ps == PostsOfRange(db, t, from, to) IN
        ThreadRank(ThreadActivity(db, ps), Max({db.posts[p].seq : p \in ps}))]

---------------------------------------------------------------------------
\* Replies, the latest first: all posts but the first of a thread.

IsReply(db, p) == \E q \in ThreadPosts(db, db.posts[p].thread) : db.posts[q].seq < db.posts[p].seq
RankedReplies(db, u) ==
    {p \in ShownPosts(db, RankedThreads(db, u)) : IsReply(db, p)}

ListReplyRankings(db, u) == [p \in RankedReplies(db, u) |-> db.posts[p]]
RebuildReplyRankingPosts(db) ==
    [p \in {x \in DOMAIN db.posts : ~db.posts[x].redacted /\ IsReply(db, x)} |-> db.posts[p].seq]
ListReplyRankingsMaterialized(db, u) ==
    LET rows == db.views["rankings.replies"] IN
    [p \in DOMAIN rows \cap ShownPosts(db, RankedThreads(db, u)) |-> [db.posts[p] EXCEPT !.seq = rows[p]]]

---------------------------------------------------------------------------
\* Users.

\* The posts of a user that the rankings count, on boards of members too.
RankedPosts(db, u) ==
    {p \in DOMAIN db.posts :
        /\ db.posts[p].author = u /\ ~db.posts[p].redacted
        /\ OnRankings(db, db.threads[db.posts[p].thread].board)}
UserStats(db, u) ==
    [posts |-> Cardinality(RankedPosts(db, u)),
     reactions |-> postReactionAggregateSumSQL(db, RankedPosts(db, u)), trust |-> db.trust[u]]

ListUserRankings(db) == [u \in DOMAIN db.role |-> UserStats(db, u)]
RebuildUserRankingStats(db) == [u \in DOMAIN db.role |-> UserStats(db, u)]
ListUserRankingsMaterialized(db) ==
    [u \in DOMAIN db.views["rankings.users"] \cap DOMAIN db.role |-> db.views["rankings.users"][u]]

\* What everyone may know of a user's posts.
GetPublicUserPostActivity(db, u) ==
    LET ps == {p \in RankedPosts(db, u) : OpenToAll(db, db.threads[db.posts[p].thread].board)} IN
    [posts |-> Cardinality(ps), lastPostAt |-> LatestOf(db, ps)]

---------------------------------------------------------------------------
\* Blessings, and who was blessed; all, or since some time.

BlessingsOf(db, from, to) == {i \in DOMAIN db.blessings : Between(from, to, db.blessings[i].at)}
BlessingCounts(db, ids) ==
    [u \in {db.blessings[i].to : i \in ids} |->
        LET mine == {i \in ids : db.blessings[i].to = u} IN
        [count |-> Cardinality(mine), last |-> Max({db.blessings[i].at : i \in mine})]]

ListBlessingRankings(db) == BlessingCounts(db, {i \in DOMAIN db.blessings : db.blessings[i].to \in DOMAIN db.role})
RebuildBlessingRankingStats(db) == BlessingCounts(db, DOMAIN db.blessings)
ListBlessingRankingsMaterialized(db) ==
    LET rows == db.views["rankings.blessings"] IN [u \in DOMAIN rows \cap DOMAIN db.role |-> rows[u]]
ListBlessingRankingsRange(db, from, to) == BlessingCounts(db, BlessingsOf(db, from, to))
ListBlessings(db) == db.blessings
ListBlessingsRange(db, from, to) == [i \in BlessingsOf(db, from, to) |-> db.blessings[i]]

---------------------------------------------------------------------------
\* The digests: how many entries a directory of a board has, and how many of
\* them were edited.

ArchiveKey(e) == <<e.board, e.kind, e.path>>
ArchiveCounts(db, entries) ==
    [k \in {ArchiveKey(db.entries[i]) : i \in entries} |->
        LET mine == {i \in entries : ArchiveKey(db.entries[i]) = k} IN
        [entries |-> Cardinality(mine),
         edited |-> Cardinality({i \in mine : db.entries[i].body # ""})]]
ArchiveListed(db, u, b) ==
    b \in DOMAIN db.boards /\ "stats_excluded" \notin GetBoardSettings(db, b) /\ BoardVisible(db, u, b)

ListArchiveRankings(db, u) ==
    ArchiveCounts(db, {i \in DOMAIN db.entries : ArchiveListed(db, u, db.entries[i].board)})
RebuildArchiveRankingStats(db) == ArchiveCounts(db, DOMAIN db.entries)
ListArchiveRankingsMaterialized(db, u) ==
    LET rows == db.views["rankings.archives"] IN
    [k \in {x \in DOMAIN rows : ArchiveListed(db, u, x[1])} |-> rows[k]]

---------------------------------------------------------------------------
\* The two feeds (module Forum) as they are read: the posts of the boards of
\* which the user is a member, and the latest posts of all boards.

InResidentFeed(db, u, p) ==
    FeedSelects(db, p) /\ <<db.threads[db.posts[p].thread].board, u>> \in DOMAIN db.members
ListResidentBoardPosts(db, u) == [p \in {x \in DOMAIN db.posts : InResidentFeed(db, u, x)} |-> db.posts[p]]

\* A row whose thread was moved waits for the processor to follow.
FeedRowCurrent(db, feed, p) == p \in DOMAIN db.posts /\ FeedSelects(db, p) /\ feed[p] = FeedRow(db, p)
ListResidentBoardPostsMaterialized(db, u) ==
    [p \in {x \in DOMAIN db.resident : FeedRowCurrent(db, db.resident, x) /\ InResidentFeed(db, u, x)} |->
        db.posts[p]]

InLatestFeed(db, u, p) ==
    LET b == db.threads[db.posts[p].thread].board IN
    FeedSelects(db, p) /\ OnRankingsOf(db, u, b) /\ ~Zapped(db, u, b)
ListLatestFeedPosts(db, u) == [p \in {x \in DOMAIN db.posts : InLatestFeed(db, u, x)} |-> db.posts[p]]
ListLatestFeedPostsMaterialized(db, u) ==
    [p \in {x \in DOMAIN db.latest : FeedRowCurrent(db, db.latest, x) /\ InLatestFeed(db, u, x)} |->
        db.posts[p]]

---------------------------------------------------------------------------
\* What a reader gets: the table once it has rows, the query until then.

FromTable(db, v, table, query) == IF db.views[v] # NoRows THEN table ELSE query

CoreCommunityStats(db) ==
    IF db.views["community_stats"] # NoRows THEN GetCommunityStatsSnapshot(db) ELSE GetCommunityStats(db)
CoreBoardRankings(db, u) ==
    FromTable(db, "rankings.boards", ListBoardRankingsMaterialized(db, u), ListBoardRankings(db, u))
CoreThreadRankings(db, u) ==
    FromTable(db, "rankings.threads", ListThreadRankingsMaterialized(db, u), ListThreadRankings(db, u))
CoreReplyRankings(db, u) ==
    FromTable(db, "rankings.replies", ListReplyRankingsMaterialized(db, u), ListReplyRankings(db, u))
CoreUserRankings(db) ==
    FromTable(db, "rankings.users", ListUserRankingsMaterialized(db), ListUserRankings(db))
CoreBlessingRankings(db) ==
    FromTable(db, "rankings.blessings", ListBlessingRankingsMaterialized(db), ListBlessingRankings(db))
CoreArchiveRankings(db, u) ==
    FromTable(db, "rankings.archives", ListArchiveRankingsMaterialized(db, u), ListArchiveRankings(db, u))
CoreBoardSummaries(db, u, unreadOnly) ==
    FromTable(db, "summaries.boards", ListBoardSummariesMaterialized(db, u, unreadOnly),
              ListBoardSummaries(db, u, unreadOnly))
CoreUnreadThreadSummaries(db, u, favoritesOnly, folder) ==
    FromTable(db, "summaries.unread_threads",
              ListUnreadThreadSummariesMaterialized(db, u, favoritesOnly, folder),
              ListUnreadThreadSummaries(db, u, favoritesOnly, folder))
CoreResidentBoardPosts(db, u) ==
    IF db.resident # NoRows THEN ListResidentBoardPostsMaterialized(db, u) ELSE ListResidentBoardPosts(db, u)
CoreLatestFeedPosts(db, u) ==
    IF db.latest # NoRows THEN ListLatestFeedPostsMaterialized(db, u) ELSE ListLatestFeedPosts(db, u)

---------------------------------------------------------------------------
\* The processors.  A view has a mark once a processor has recorded one.

DerivedViews ==
    {"community_stats", "summaries.boards", "summaries.unread_threads", "rankings.boards",
     "rankings.threads", "rankings.replies", "rankings.users", "rankings.blessings", "rankings.archives"}

\* The table of a view as it is now to be.
RebuildView(db, v) ==
    CASE v = "community_stats" -> RebuildCommunityStatsSnapshot(db)
      [] v = "summaries.boards" -> RebuildBoardSummaryStats(db)
      [] v = "summaries.unread_threads" -> RebuildUnreadThreadSummaryStats(db)
      [] v = "rankings.boards" -> RebuildBoardRankingStats(db)
      [] v = "rankings.threads" -> RebuildThreadRankingStats(db)
      [] v = "rankings.replies" -> RebuildReplyRankingPosts(db)
      [] v = "rankings.users" -> RebuildUserRankingStats(db)
      [] v = "rankings.blessings" -> RebuildBlessingRankingStats(db)
      [] v = "rankings.archives" -> RebuildArchiveRankingStats(db)

RebuildAllViews(db) == [db EXCEPT !.views = [v \in DOMAIN @ |-> RebuildView(db, v)]]

\* Views that hold what no event tells of are refreshed each time.
RefreshedAlways == {"community_stats", "rankings.threads", "rankings.users"}

LookupProjectionWatermarkAppliedSeq(db, v) == IF v \in DOMAIN db.marks THEN db.marks[v] ELSE 0
RecordDerivedViewApplied(db, v, seq) == [db EXCEPT !.marks = Put(@, v, seq)]

\* No mark is taken for a view that is up to date.
DerivedViewAppliedSeq(db, v) == IF v \in DOMAIN db.marks THEN db.marks[v] ELSE LastSeq(db)

\* The events of a batch, up to number n, say that something has changed; the
\* table is made from the rows there are by now, which may be later ones.
\* Mutant: a table that has rows is only marked.
processDerivedRebuildOnce_MarksOnly(db, v, n) ==
    IF db.views[v] # NoRows THEN RecordDerivedViewApplied(db, v, n)
    ELSE RecordDerivedViewApplied([db EXCEPT !.views[v] = RebuildView(db, v)], v, n)

processDerivedRebuildOnce(db, v, n) ==
    IF /\ n = LookupProjectionWatermarkAppliedSeq(db, v)
       /\ v \notin RefreshedAlways /\ db.views[v] # NoRows
    THEN RecordDerivedViewApplied(db, v, n)
    ELSE RecordDerivedViewApplied([db EXCEPT !.views[v] = RebuildView(db, v)], v, n)

\* A backfill rebuilds the projection, and then marks the views with the head
\* of the log as it is after that.
markDerivedViewsApplied(db) ==
    [db EXCEPT !.marks = [v \in DerivedViews \cup {"search.posts"} |-> LastSeq(db)],
               !.residentSeq = LastSeq(db), !.latestSeq = LastSeq(db)]
=============================================================================
