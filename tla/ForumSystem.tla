---------------------------- MODULE ForumSystem ----------------------------
(***************************************************************************)
(* The forum at work.  A scenario is a database to start from, commands    *)
(* already executed, and commands that users are about to send, which may  *)
(* arrive in any order.  Commands go one of two ways:                      *)
(*                                                                         *)
(*   - direct: a lane of the handler executes each one in a transaction    *)
(*     (route), and the outbox worker and the two feed processors follow;  *)
(*   - native: the decider decides each one from the projection as it is   *)
(*     (decide), the events go to the partitions their scopes name, and    *)
(*     each partition is materialized by itself, in batches.               *)
(*                                                                         *)
(* The workers of a scenario are those of its background workers that run: *)
(* the others are down, or late.                                           *)
(*                                                                         *)
(* Commands of one partition exclude each other in both ways, so a command *)
(* is one step.  Commands of different partitions may overlap; what they   *)
(* read outside their partition may then be as old as in the native way.   *)
(***************************************************************************)
EXTENDS ForumDispatch

CONSTANTS
    Scenarios,  \* records: name, mode, workers, base, setup, cmds
    MaxTime     \* the last tick of the clock

VARIABLES
    scen,  \* the scenario: its name, its way and its workers
    db,    \* the tables
    todo,  \* the commands not yet executed
    pend   \* native: partition -> events decided, not yet materialized

vars == <<scen, db, todo, pend>>

Direct == scen.mode = "direct"
Native == scen.mode = "native"
Runs(worker) == worker \in scen.workers

---------------------------------------------------------------------------
\* The command c is the one whose ids are being made.
Numbered(d, c) == [d EXCEPT !.cmd = c.n]
Done(d) == [d EXCEPT !.cmd = 0]

Execute(d, c) == Done(route(Numbered(d, c), c).db)

Init ==
    \E s \in Scenarios :
        /\ scen = [name |-> s.name, mode |-> s.mode, workers |-> s.workers]
        /\ db = FoldLeft(Execute, s.base, s.setup)
        /\ todo = s.cmds
        /\ pend = NoRows

Tick ==
    /\ Runs("clock")
    /\ db.now < MaxTime
    /\ db' = [db EXCEPT !.now = @ + 1]
    /\ UNCHANGED <<scen, todo, pend>>

---------------------------------------------------------------------------
\* Direct.

ExecuteCommand ==
    /\ \E c \in todo :
          /\ Direct \/ CommandBypassesCommandLog(c.k)
          /\ db' = Execute(db, c)
          /\ todo' = todo \ {c}
    /\ UNCHANGED <<scen, pend>>

\* The outbox worker, which module Outbox models with its claims and retries.
RunOutboxJob ==
    /\ Runs("outbox")
    /\ db.jobs # <<>>
    /\ db' = processPostCommittedJob([db EXCEPT !.jobs = Tail(@)], Head(db.jobs))
    /\ UNCHANGED <<scen, todo, pend>>

ProcessResidentFeed ==
    /\ Direct /\ Runs("feeds")
    /\ db.residentSeq < LastSeq(db)
    /\ db' = [ApplyResidentFeedEvent(db, db.log[db.residentSeq + 1]) EXCEPT !.residentSeq = @ + 1]
    /\ UNCHANGED <<scen, todo, pend>>

ProcessLatestFeed ==
    /\ Direct /\ Runs("feeds")
    /\ db.latestSeq < LastSeq(db)
    /\ db' = [ApplyLatestFeedEvent(db, db.log[db.latestSeq + 1]) EXCEPT !.latestSeq = @ + 1]
    /\ UNCHANGED <<scen, todo, pend>>

\* The processor of a view that is rebuilt, with the events up to number n.
ProcessDerivedView ==
    /\ Direct
    /\ \E v \in DerivedViews \cap scen.workers :
          \E n \in LookupProjectionWatermarkAppliedSeq(db, v)..LastSeq(db) :
              db' = processDerivedRebuildOnce(db, v, n)
    /\ UNCHANGED <<scen, todo, pend>>

\* The processor of the full text table, with the events up to number n.
ProcessPostSearch ==
    /\ Runs(PostSearchView) /\ db.search = "async"
    /\ \E n \in LookupProjectionWatermarkAppliedSeq(db, PostSearchView)..LastSeq(db) :
          db' = ProcessPostSearchOnce(db, n)
    /\ UNCHANGED <<scen, todo, pend>>

\* The processor of the external index: it reads a batch of events; for each
\* of them it reads the documents, sends them one by one, and waits until the
\* service has done what it was sent.  Then it marks the batch.
FetchSearchBatch ==
    /\ Runs(PostSearchView) /\ db.search = "external"
    /\ db.batch = NoRows
    /\ LET from == LookupProjectionWatermarkAppliedSeq(db, PostSearchView) IN
       /\ from < LastSeq(db)
       /\ \E n \in {from + 1, LastSeq(db)} :
             db' = [db EXCEPT !.batch = [next |-> from + 1, last |-> n, docs |-> {}]]
    /\ UNCHANGED <<scen, todo, pend>>

SearchWaits == db.batch = NoRows \/ db.tasks # <<>>

ReadSearchDocuments ==
    /\ ~SearchWaits
    /\ db.batch.docs = {} /\ db.batch.next <= db.batch.last
    /\ db' = [db EXCEPT !.batch.docs = applyExternalPostSearchEvent(db, db.log[db.batch.next]),
                        !.batch.next = @ + 1]
    /\ UNCHANGED <<scen, todo, pend>>

SendSearchDocument ==
    /\ ~SearchWaits
    /\ \E doc \in db.batch.docs :
          db' = [db EXCEPT !.batch.docs = @ \ {doc}, !.tasks = Append(@, doc)]
    /\ UNCHANGED <<scen, todo, pend>>

FinishSearchBatch ==
    /\ ~SearchWaits
    /\ db.batch.docs = {} /\ db.batch.next > db.batch.last
    /\ db' = [RecordDerivedViewApplied(db, PostSearchView, db.batch.last) EXCEPT !.batch = NoRows]
    /\ UNCHANGED <<scen, todo, pend>>

\* A request that fails, a wait that times out, or a crash: the batch is read
\* again, but what the service was sent it will do.
AbandonSearchBatch ==
    /\ db.batch # NoRows
    /\ db' = [db EXCEPT !.batch = NoRows]
    /\ UNCHANGED <<scen, todo, pend>>

DoSearchTask ==
    /\ db.tasks # <<>>
    /\ db' = [db EXCEPT !.tasks = Tail(@), !.index = UpsertPost(@, Head(db.tasks))]
    /\ UNCHANGED <<scen, todo, pend>>

\* A rebuild from the log, alone or as the first step of a backfill.
RebuildProjections ==
    /\ Runs("rebuild") \/ Runs("backfill")
    /\ ~db.filling
    /\ rebuildProjectionsInTx(db).ok
    /\ db' = [rebuildProjectionsInTx(db).db EXCEPT !.filling = Runs("backfill")]
    /\ UNCHANGED <<scen, todo, pend>>

FinishBackfill ==
    /\ db.filling
    /\ db' = [markDerivedViewsApplied(rebuildExternalPostSearchIndex(db)) EXCEPT !.filling = FALSE]
    /\ UNCHANGED <<scen, todo, pend>>

---------------------------------------------------------------------------
\* Native.

\* The events of a decision join the queues of their partitions, in order.
Enqueue(queues, d, evs) ==
    LET parts == {EventPartitionFor(d, evs, evs[i]) : i \in DOMAIN evs}
        new(q) == SelectSeq(evs, LAMBDA e : EventPartitionFor(d, evs, e) = q)
        old(q) == IF q \in DOMAIN queues THEN queues[q] ELSE <<>>
    IN [q \in DOMAIN queues \cup parts |-> IF q \in parts THEN old(q) \o new(q) ELSE queues[q]]

DecideCommand ==
    /\ Native
    /\ \E c \in todo :
          /\ ~CommandBypassesCommandLog(c.k)
          /\ pend' = Enqueue(pend, Numbered(db, c), decide(Numbered(db, c), c).evs)
          /\ todo' = todo \ {c}
    /\ UNCHANGED <<scen, db>>

\* One event, and then a batch of them in one transaction: all or none.
ApplyEvent(d, e) ==
    LET d1 == appendEvent(d, e) IN
    enqueueEventStoreProjectionSideEffects(rebuildProjectionEvent(d1, e, LastSeq(d1)), e)

ApplyBatch(d, evs) ==
    FoldLeft(LAMBDA acc, e :
                 IF acc.ok /\ ApplyOK(acc.db, e)
                 THEN [ok |-> TRUE, db |-> ApplyEvent(acc.db, e)]
                 ELSE [ok |-> FALSE, db |-> acc.db],
             [ok |-> TRUE, db |-> d], evs)

\* Mutant: the offset is not committed after a batch that leaves events behind.
materializePartition_Redelivers ==
    /\ Native
    /\ \E q \in DOMAIN pend : \E n \in {1, Len(pend[q])} :
          LET r == ApplyBatch(db, SubSeq(pend[q], 1, n)) IN
          /\ r.ok
          /\ db' = [r.db EXCEPT !.relayCache = NoRows]
          /\ pend' = IF n = Len(pend[q]) THEN Drop(pend, {q}) ELSE pend
    /\ UNCHANGED <<scen, todo>>

\* A batch is one event or all there are: but for the relay cache, a batch does
\* what its events do one by one.
materializePartition ==
    /\ Native
    /\ \E q \in DOMAIN pend : \E n \in {1, Len(pend[q])} :
          LET r == ApplyBatch(db, SubSeq(pend[q], 1, n)) IN
          /\ r.ok
          /\ db' = [r.db EXCEPT !.relayCache = NoRows]
          /\ pend' = IF n = Len(pend[q]) THEN Drop(pend, {q})
                     ELSE [pend EXCEPT ![q] = SubSeq(@, n + 1, Len(@))]
    /\ UNCHANGED <<scen, todo>>

---------------------------------------------------------------------------
Next ==
    \/ Tick
    \/ ExecuteCommand \/ RunOutboxJob \/ ProcessResidentFeed \/ ProcessLatestFeed
    \/ ProcessDerivedView \/ ProcessPostSearch
    \/ FetchSearchBatch \/ ReadSearchDocuments \/ SendSearchDocument \/ FinishSearchBatch
    \/ AbandonSearchBatch \/ DoSearchTask
    \/ RebuildProjections \/ FinishBackfill
    \/ DecideCommand \/ materializePartition

Spec == Init /\ [][Next]_vars

---------------------------------------------------------------------------
\* What the forum promises.

\* The rows of the tables that a rebuild empties and fills from the log.  Left
\* out is what the handlers do not log (the mailbox and the marks of a copy,
\* the marks of a direct message, the kind of a deletion) and what the log
\* does not fix (the id and the end of a poll, the id of a sanction).
Rows(d) ==
    [threads |-> d.threads, posts |-> d.posts, atts |-> d.atts, deletions |-> DOMAIN d.deletions,
     reviews |-> d.reviews, filters |-> d.filters, rules |-> d.rules, audit |-> d.audit,
     sanctions |-> {d.sanctions[i] : i \in DOMAIN d.sanctions},
     polls |-> {d.polls[q].post : q \in DOMAIN d.polls},
     entries |-> d.entries, dirs |-> d.dirs,
     mail |-> d.mail, mailAtts |-> d.mailAtts, copies |-> DOMAIN d.copies,
     dms |-> [i \in DOMAIN d.dms |-> <<d.dms[i].from, d.dms[i].to>>], blessings |-> d.blessings,
     reactions |-> d.reactions, recv |-> d.recv,
     reacted |-> [p \in DOMAIN d.posts |-> ReactionCount(d, p)],
     votes |-> {<<d.polls[v[1]].post, v[2], d.votes[v]>> : v \in DOMAIN d.votes},
     voted |-> {<<d.polls[q].post, o, PollOptionVoteCount(d, q, o)>> : q \in DOMAIN d.polls, o \in PollOptions},
     checkpoint |-> d.checkpoint]

\* Events of tables that the rebuild does not empty, which fail when the rows
\* are there already or are gone: a log that holds one may not be replayed.
UnreplayableEvents == {"folderCreated", "folderUpdated", "applicationSubmitted", "mailGroupSet"}

Restores(r) == r.ok /\ Rows(r.db) = Rows(db)

\* Whatever the commands and their order, and whichever way they went, a
\* rebuild of the projection from the log (rebuildProjectionsInTx) succeeds and
\* gives back the rows that the handlers or the materializer wrote, with the
\* reactions, the votes and their counts; but for logs with an event that
\* cannot be replayed.
RebuildRestores ==
    (\A i \in DOMAIN db.log : db.log[i].k \notin UnreplayableEvents) =>
        Restores(rebuildProjectionsInTx(db))

\* deployment-multi-node.md says that "projection tables can always be rebuilt"
\* from the events: no log makes the rebuild fail.
RebuildSucceeds == rebuildProjectionsInTx(db).ok

\* All the rows a command may leave, whatever the sequence numbers of events.
Without(f, names) == [x \in DOMAIN f |-> [n \in DOMAIN f[x] \ names |-> f[x][n]]]
RowsLeft(d) ==
    [rebuilt |-> [Rows(d) EXCEPT !.threads = Without(@, {"lastSeq"}), !.posts = Without(@, {"seq"})],
     copies |-> d.copies, dms |-> d.dms, groups |-> d.groups, dmPolicy |-> d.dmPolicy, rels |-> d.rels,
     role |-> d.role, boards |-> d.boards, settings |-> d.settings, moderators |-> d.moderators,
     terms |-> d.terms, members |-> d.members, reqs |-> d.reqs, apps |-> d.apps,
     recommended |-> d.recommended, zaps |-> d.zaps, folders |-> d.folders, favs |-> d.favs,
     relay |-> d.relay]

\* Commands the native decider accepts where the handler refuses them: a
\* sanction cleared that nobody has, a board left by no member.
AcceptedNatively == {"clearUserSanction", "leaveBoardMembership"}

\* Commands it refuses to the moderator of a board, whom the handler lets
\* sanction users there and attach files to posts of others.
RefusedNatively == {"sanctionUser", "clearUserSanction", "attachPost"}

Agreement(c, handled, decided, applied) ==
    /\ handled.ok => decided.ok \/ c.k \in RefusedNatively
    /\ decided.ok => handled.ok \/ c.k \in AcceptedNatively
    /\ applied.ok
    /\ handled.ok /\ decided.ok => RowsLeft(handled.db) = RowsLeft(applied.db)
AgreesWith(c, d, decided) == Agreement(c, route(d, c), decided, ApplyBatch(d, decided.evs))

\* In every state the handlers can leave, the handler of a command and its
\* native decision agree: both accept or both refuse, the events decided can
\* be applied, and they leave the rows that the handler leaves.
DecidersMatch ==
    Direct => \A c \in todo :
        ~CommandBypassesCommandLog(c.k) => AgreesWith(c, Numbered(db, c), decide(Numbered(db, c), c))

\* Two events that do not commute: both are about one post, whose thread was
\* moved between their decisions, or a board is filed in a folder being deleted.
PostEvents ==
    {"postEdited", "postFlagsSet", "postRedacted", "postRestored", "postDeletionCleared", "postPurged"}
Entangled(e, f) ==
    \/ {e.k, f.k} \subseteq PostEvents /\ e.id = f.id
    \/ {e.k, f.k} = {"boardFavoriteSet", "folderDeleted"}

SameOutcome(r, s) == r.ok = s.ok /\ (r.ok => RowsLeft(r.db) = RowsLeft(s.db))

\* Partitions are materialized independently, so it must not matter which of
\* two goes first: the next events of two partitions leave the same rows in
\* either order, unless they are entangled.
PartitionsCommute ==
    \A q, r \in DOMAIN pend :
        LET e == Head(pend[q])
            f == Head(pend[r])
        IN q # r /\ ~Entangled(e, f) =>
               SameOutcome(ApplyBatch(db, <<e, f>>), ApplyBatch(db, <<f, e>>))

\* Decisions that two commands may take from one and the same projection, of
\* which only the first can be applied; the partition then stops for good.
Racing(e) ==
    \/ e.k \in {"reviewResolved", "folderUpdated", "mailGroupSet", "digestUpserted",
                "digestUpdated", "digestMoved", "digestCopied"}
    \/ e.k = "threadNew" /\ e.title = "system"

\* A partition stops only at such a decision: any other event that is next in
\* its partition can be applied.
StopsOnlyAtRaces ==
    \A q \in DOMAIN pend : Racing(Head(pend[q])) \/ ApplyOK(db, Head(pend[q]))

---------------------------------------------------------------------------
\* No command of a user under a sanction brings a post to the board (or any
\* board, if the sanction is global): not a thread, a reply, a repost nor mail
\* to the board.  The notices of the system are no user's posts.
SanctionsHold ==
    [][\A c \in todo \ todo', p \in DOMAIN db'.posts \ DOMAIN db.posts :
          Direct /\ db'.posts[p].body # {"system"} =>
              ~ActiveSanctionKind(db, c.a, db'.threads[db'.posts[p].thread].board)]_vars

\* What a user reads of a derived view, and what the query it stands for gives;
\* without what no event tells of: moderators, reactions, trust, presence, mail.
Less(row, names) == [n \in DOMAIN row \ names |-> row[n]]
Boardwise(rows) == [b \in DOMAIN rows |-> Less(rows[b].stats, {"moderators"})]
Threadwise(rows) == [t \in DOMAIN rows |-> <<rows[t].stats.posts, rows[t].stats.participants, rows[t].lastSeq>>]
Userwise(rows) == [u \in DOMAIN rows |-> rows[u].posts]
Unreadwise(rows) == [b \in DOMAIN rows |-> <<Less(rows[b].stats.counts, {"moderators"}), rows[b].threads, rows[b].posts>>]
Totals(stats) == Less(stats.totals, {"mail", "dms"})

ShowsLive(d, u, v) ==
    CASE v = "community_stats" -> Totals(CoreCommunityStats(d)) = Totals(GetCommunityStats(d))
      [] v = "summaries.boards" ->
            \A o \in BOOLEAN : Unreadwise(CoreBoardSummaries(d, u, o)) = Unreadwise(ListBoardSummaries(d, u, o))
      [] v = "summaries.unread_threads" ->
            \A o \in BOOLEAN : CoreUnreadThreadSummaries(d, u, o, NoId) = ListUnreadThreadSummaries(d, u, o, NoId)
      [] v = "rankings.boards" -> Boardwise(CoreBoardRankings(d, u)) = Boardwise(ListBoardRankings(d, u))
      [] v = "rankings.threads" -> Threadwise(CoreThreadRankings(d, u)) = Threadwise(ListThreadRankings(d, u))
      [] v = "rankings.replies" -> CoreReplyRankings(d, u) = ListReplyRankings(d, u)
      [] v = "rankings.users" -> Userwise(CoreUserRankings(d)) = Userwise(ListUserRankings(d))
      [] v = "rankings.blessings" -> CoreBlessingRankings(d) = ListBlessingRankings(d)
      [] v = "rankings.archives" -> CoreArchiveRankings(d, u) = ListArchiveRankings(d, u)

\* A derived view whose processor has followed the log to its end lists what
\* its query lists, for every user, and a feed the posts that can be read, each
\* with the thread and the board where it is now; however late the processor
\* was, and whatever was committed between its reading the log and its writing
\* the table.
ViewsMatch ==
    LET feed == [p \in {x \in DOMAIN db.posts : FeedSelects(db, x)} |-> FeedRow(db, p)] IN
    /\ \A v \in DerivedViews \cap scen.workers :
          v \in DOMAIN db.marks /\ db.marks[v] = LastSeq(db) => \A u \in DOMAIN db.role : ShowsLive(db, u, v)
    /\ Direct => /\ db.residentSeq = LastSeq(db) => db.resident = feed
                 /\ db.latestSeq = LastSeq(db) => db.latest = feed

WordsPosted(d) == UNION {d.posts[p].body : p \in DOMAIN d.posts}

\* No list shows a user anything of a board that the handlers would not let the
\* user read, whatever was moved, and whoever became or ceased to be a member,
\* while the table behind the list was late; of the unread threads, once the
\* processor has followed the log.
ListingsReadable ==
    \A u \in DOMAIN db.role :
        LET May(b) == RequireMemberBoardReadAccess(db, u, b)
            MayThread(t) == May(db.threads[t].board)
            MayPost(p) == MayThread(db.posts[p].thread)
        IN /\ \A b \in DOMAIN CoreBoardRankings(db, u) : May(b)
           /\ \A t \in DOMAIN CoreThreadRankings(db, u) : MayThread(t)
           /\ \A t \in DOMAIN ListThreadRankingsRange(db, u, 1, db.now) : MayThread(t)
           /\ \A p \in DOMAIN CoreReplyRankings(db, u) : MayPost(p)
           /\ \A k \in DOMAIN CoreArchiveRankings(db, u) : May(k[1])
           /\ \A p \in DOMAIN CoreResidentBoardPosts(db, u) : MayPost(p)
           /\ \A p \in DOMAIN CoreLatestFeedPosts(db, u) : MayPost(p)
           /\ \A v \in DOMAIN db.role :
                 \A p \in handleListReadableAuthorPosts(db, u, v) \cup handleListUserPosts(db, v) : MayPost(p)
           /\ \A root \in DOMAIN db.posts : \A p \in handleListPostReplyTree(db, u, root) : MayPost(p)
           /\ \A word \in WordsPosted(db), b \in DOMAIN db.boards \cup {""} :
                 \A p \in handleSearch(db, u, word, b) : MayPost(p)
           /\ \A rows \in {handleListOnlineUsers(db, u)} \cup
                          {handleListSocialUsers(db, u, list, FALSE) : list \in {"friends", "fans"}} :
                 \A v \in DOMAIN rows : rows[v].board # "" => May(rows[v].board)
           /\ DerivedViewAppliedSeq(db, "summaries.unread_threads") = LastSeq(db)
              /\ "summaries.unread_threads" \in DOMAIN db.marks \cup {v \in DerivedViews : db.views[v] = NoRows}
                 => \A t \in DOMAIN CoreUnreadThreadSummaries(db, u, FALSE, NoId) : MayThread(t)

\* A search that has followed the log to its end finds, on a board or on all of
\* them, the posts with the word that the user may read where they are now, and
\* no other; however late its processor was, and although batches fail, are
\* sent again, and hold documents that were read before the last command.
SearchMatches ==
    LET found(u, word, b) ==
            {p \in DOMAIN db.posts :
                /\ word \in db.posts[p].body /\ ~db.posts[p].redacted
                /\ b \in {"", PostBoard(db, p)} /\ RequireMemberBoardReadAccess(db, u, PostBoard(db, p))}
    IN PostSearchView \in DOMAIN db.marks /\ db.marks[PostSearchView] = LastSeq(db) =>
          \A u \in DOMAIN db.role, word \in WordsPosted(db), b \in DOMAIN db.boards \cup {""} :
              handleSearch(db, u, word, b) = found(u, word, b)

\* What is counted is there: the posts of a thread, the shards of reactions
\* and votes, the reactions an author was credited with.  And what a user is
\* told is unread is what the lists show as unread: the direct messages of all
\* conversations, and on the tree of favorites the threads and posts that the
\* summary of boards has; whatever was moved, deleted on one side, redacted, or
\* marked as read in parts.
CountersMatch ==
    /\ \A t \in DOMAIN db.threads : db.threads[t].count = Cardinality(ThreadPosts(db, t))
    /\ \A p \in DOMAIN db.posts :
          ReactionCount(db, p) = Cardinality({r \in DOMAIN db.reactions : r[1] = p})
    /\ \A q \in DOMAIN db.polls, o \in PollOptions :
          PollOptionVoteCount(db, q, o)
              = Cardinality({v \in DOMAIN db.votes : v[1] = q /\ db.votes[v] = o})
    /\ db.recv = recomputeReactionReceivedActivity(db).recv
    /\ \A u \in DOMAIN db.role :
           /\ LET shown == ListDirectMessageConversations(db, u) IN
              /\ CountUnreadDirectMessages(db, u) = SumFunction(shown)
              /\ \A v \in DOMAIN shown :
                    shown[v] = Cardinality({i \in ListDirectMessages(db, u, v) : db.dms[i].to = u /\ ~db.dms[i].read})
           /\ LET tree == ListFavoriteTree(db, u).boards
                  boards == ListBoardSummaries(db, u, FALSE)
              IN \A b \in DOMAIN tree \cap DOMAIN boards :
                    tree[b].threads = boards[b].threads /\ tree[b].posts = boards[b].posts

\* Whoever moderates a board is in one term of office there, and nobody else
\* is in one; after a rebuild, too, which replays the appointments.
\* Applications do not take a board over its limit of members, nobody has two
\* applications pending, and who is blacklisted is no member.  The folders of a
\* user are a tree, in which the user's boards are filed.  Nobody holds more
\* mail than the quota, whichever way it came and whatever is taken out of the
\* trash or attached later.
RulesKept ==
    LET rebuilt == rebuildProjectionsInTx(db).db IN
    /\ \A d \in {db, rebuilt} : \A b \in DOMAIN d.boards, u \in DOMAIN d.role :
          Cardinality(OpenTerms(d, b, u)) = IF <<b, u>> \in DOMAIN d.moderators THEN 1 ELSE 0
    /\ Direct => \A b \in DOMAIN db.boards :
          LET max == GetBoardMemberRequirements(db, b).max IN
          /\ max > 0 => BoardMemberCount(db, b) <= max
          /\ \A u \in DOMAIN db.role :
                /\ Cardinality(ApplicationsOf(db, b, u, "pending")) <= 1
                /\ ApplicationsOf(db, b, u, "blacklisted") # {} => <<b, u>> \notin DOMAIN db.members
    /\ Direct => \A u \in DOMAIN db.role :
          /\ \A f \in UserFolders(db, u) : NoId \in FolderPath(db, u, f)
          /\ \A x \in DOMAIN db.favs : x[1] = u => FavoriteFolderExists(db, u, db.favs[x])
          /\ MailUsedBytes(db, u) <= MailQuota

\* kbs-feature-parity-status.md on who is told of a post: "Ignore rows suppress
\* delivery from ignored authors. Muted threads suppress mention/reply/watch
\* delivery. Member-read boards only notify users who can read the board."
ToldMayBeTold ==
    [][\A n \in DOMAIN db'.notes \ DOMAIN db.notes :
          LET x == db'.notes[n] IN
          x.post \in DOMAIN db.posts =>
              UserCanReceivePostNotification(db, x.user, db.posts[x.post].thread, x.from)]_vars
=============================================================================
