---------------------------- MODULE ForumListings ----------------------------
(***************************************************************************)
(* What users read: the queries of the projection (readers.go), and the    *)
(* HTTP handlers that decide who may ask for them (reads.go).  A query     *)
(* gives the rows it selects, as a set of ids or as a function of ids;     *)
(* pages and their order, names, titles and excerpts are left out.  A      *)
(* refused request shows NoRows or {}.                                     *)
(*                                                                         *)
(* The search of posts reads the full text table, which the handlers write *)
(* in their transactions (db.search is "inline") or a processor from the   *)
(* log ("async"); or it reads the index of another service ("external"),   *)
(* to which a processor sends documents one by one, outside any            *)
(* transaction.                                                            *)
(***************************************************************************)
EXTENDS ForumDerived

---------------------------------------------------------------------------
\* Boards: who may read them, and what is shown of them.

ListBoardModerators(db, b) == {m[2] : m \in {x \in DOMAIN db.moderators : x[1] = b}}
GetBoard(db, b) ==
    [settings |-> GetBoardSettings(db, b), moderators |-> Cardinality(ListBoardModerators(db, b))]
ListBoards(db) == [b \in DOMAIN db.boards |-> GetBoard(db, b)]

ListBoardMembers(db, b) ==
    [u \in {m[2] : m \in {x \in DOMAIN db.members : x[1] = b}} |-> db.members[<<b, u>>].perms]
GetBoardInfo(db, b) ==
    [board |-> GetBoard(db, b), requirements |-> GetBoardMemberRequirements(db, b),
     moderators |-> ListBoardModerators(db, b), members |-> ListBoardMembers(db, b)]

\* Decided from the board as it was loaded.
ActorModeratesBoard(db, u, info) == IsMod(db, u) \/ u \in info.moderators
ActorCanReadBoard(db, u, info) ==
    "member_read" \in info.board.settings => ActorModeratesBoard(db, u, info) \/ u \in DOMAIN info.members
actorCanReadBoard(db, u, b) == b \in DOMAIN db.boards /\ ActorCanReadBoard(db, u, GetBoardInfo(db, b))

\* What a board shows to those who may read it.
OnBoard(db, u, b, shown) == IF actorCanReadBoard(db, u, b) THEN shown ELSE NoRows
OfBoard(db, u, b, ids) == IF actorCanReadBoard(db, u, b) THEN ids ELSE {}

handleGetBoard(db, u, b) == OnBoard(db, u, b, GetBoardInfo(db, b))
handleListBoardMembers(db, u, b) == OnBoard(db, u, b, ListBoardMembers(db, b))

ListBoardModeratorTerms(db, b) == {k \in DOMAIN db.terms : k[1] = b}
ListPublicBoardModeratorTerms(db) == {k \in DOMAIN db.terms : OpenToAll(db, k[1])}
handleListBoardModeratorHistory(db, u, b) == OfBoard(db, u, b, ListBoardModeratorTerms(db, b))

\* A manager of members sees all the applications, others their own.
ListBoardMemberApplications(db, b, users) ==
    {i \in DOMAIN db.apps : db.apps[i].board = b /\ db.apps[i].user \in users}
handleListBoardMemberApplications(db, u, b) ==
    ListBoardMemberApplications(db, b, IF ActorCanManageBoardMembers(db, u, b) THEN DOMAIN db.role ELSE {u})

---------------------------------------------------------------------------
\* Threads and posts.

GetThread(db, t) == db.threads[t]
ListThreads(db, b) == ThreadsOf(db, b)
\* Every thread of the board with what the user has not read of it.
ListThreadSummariesFiltered(db, u, b, unreadOnly) ==
    LET all == [t \in ListThreads(db, b) |-> UnreadRow(db, u, t, GetThread(db, t))]
    IN [t \in {x \in DOMAIN all : unreadOnly => all[x].posts > 0} |-> all[t]]
handleListThreads(db, u, b, unreadOnly) == OnBoard(db, u, b, ListThreadSummariesFiltered(db, u, b, unreadOnly))

ListPostAttachments(db, p) == {i \in DOMAIN db.atts : db.atts[i] = p}
GetPost(db, p) ==
    [post |-> db.posts[p], attachments |-> ListPostAttachments(db, p), reactions |-> ReactionCount(db, p)]
ListPosts(db, t) == ThreadPosts(db, t)
handleListPosts(db, u, t) ==
    IF t \in DOMAIN db.threads THEN OfBoard(db, u, GetThread(db, t).board, ListPosts(db, t)) ELSE {}
handleGetThread(db, u, t) == handleListPosts(db, u, t)

\* A post, and the replies to it and to its replies.
ListReplyTreePosts(db, root) ==
    FoldSet(LAMBDA n, tree : tree \cup {p \in DOMAIN db.posts : db.posts[p].replyTo \in tree},
            {root}, DOMAIN db.posts)
handleListPostReplyTree(db, u, p) ==
    OfBoard(db, u, GetThread(db, db.posts[p].thread).board, ListReplyTreePosts(db, p))

\* The posts of an author: on the profile those open to everyone, and those
\* that the reader may see.  A post without the author's name is not listed.
PostsBy(db, author, boards) ==
    {p \in DOMAIN db.posts : db.posts[p].author = author /\ ~db.posts[p].redacted
                             /\ db.threads[db.posts[p].thread].board \in boards}
ListPostsByAuthor(db, author) ==
    PostsBy(db, author, {b \in DOMAIN db.boards : "member_read" \notin GetBoardSettings(db, b)})
ListReadablePostsByAuthor(db, u, author) ==
    PostsBy(db, author, {b \in DOMAIN db.boards : BoardVisible(db, u, b)})
handleListUserPosts(db, author) == IF author \in DOMAIN db.role THEN ListPostsByAuthor(db, author) ELSE {}
handleListReadableAuthorPosts(db, u, author) ==
    IF author \in DOMAIN db.role THEN ListReadablePostsByAuthor(db, u, author) ELSE {}

\* The posts deleted from a board, for those who may moderate its posts.
ListBoardDeletedPosts(db, b, kinds) ==
    {p \in DOMAIN db.deletions \cap DOMAIN db.posts :
        db.deletions[p].board = b /\ db.deletions[p].kind \in kinds /\ db.posts[p].redacted}
handleListBoardDeletedPosts(db, u, b) ==
    IF ActorCanModerateBoardPosts(db, u, b) THEN ListBoardDeletedPosts(db, b, {"recycle", "junk"}) ELSE {}

---------------------------------------------------------------------------
\* Polls: the votes for each option, and the option of the reader.

GetPollWithVotes(db, q, u) ==
    [votes |-> [o \in PollOptions |-> PollOptionVoteCount(db, q, o)],
     voted |-> IF <<q, u>> \in DOMAIN db.votes THEN db.votes[<<q, u>>] ELSE NoId]
PollsForPosts(db, ps, u) ==
    [q \in {x \in DOMAIN db.polls : db.polls[x].post \in ps} |-> GetPollWithVotes(db, q, u)]
handleListThreadPolls(db, u, t) ==
    OnBoard(db, u, GetThread(db, t).board, PollsForPosts(db, ListPosts(db, t), u))
handleGetPollByPost(db, u, p) ==
    OnBoard(db, u, GetThread(db, db.posts[p].thread).board, PollsForPosts(db, {p}, u))

---------------------------------------------------------------------------
\* The favorites of a user: the folders, and the boards with their folder and
\* what is unread there.

ListFavoriteBoards(db, u) == {b \in DOMAIN db.boards : <<u, b>> \in DOMAIN db.favs}
ListFavoriteTree(db, u) ==
    LET row(b, seq) ==
            [folder |-> db.favs[<<u, b>>], lastSeq |-> BoardHead(db, b), readSeq |-> seq,
             threads |-> Cardinality({t \in ThreadsOf(db, b) : db.threads[t].lastSeq > seq}),
             posts |-> Cardinality(UnreadPosts(db, ThreadsOf(db, b), seq))]
    IN [folders |-> UserFolders(db, u),
        boards |-> [b \in ListFavoriteBoards(db, u) |-> row(b, ReadSeq(db.boardRead, <<u, b>>))]]

---------------------------------------------------------------------------
\* The digest.

ListDigestEntries(db, b, kind) ==
    {i \in DOMAIN db.entries : db.entries[i].board = b /\ db.entries[i].kind = kind}
handleListDigestEntries(db, u, b, kind) == OfBoard(db, u, b, ListDigestEntries(db, b, kind))

\* Every path above an entry or a directory is a node; only a directory is
\* explicit.
ListDigestPathTree(db, b, kind) ==
    LET here(rows) == {i \in DOMAIN rows : rows[i].board = b /\ rows[i].kind = kind}
        entries == here(db.entries)
        dirs == {db.dirs[i].path : i \in here(db.dirs)}
        paths == UNION {Prefixes(p) : p \in dirs \cup {db.entries[i].path : i \in entries}}
    IN [p \in paths |->
           [entries |-> Cardinality({i \in entries : db.entries[i].path = p}), explicit |-> p \in dirs,
            children |-> Cardinality({q \in paths : q # <<>> /\ Front(q) = p})]]
handleListDigestPathTree(db, u, b, kind) == OnBoard(db, u, b, ListDigestPathTree(db, b, kind))

\* Of all boards: those that the reader may see, and those open to everyone.
ListSiteDigestEntries(db, u, kinds) ==
    {i \in DOMAIN db.entries : db.entries[i].kind \in kinds /\ BoardVisible(db, u, db.entries[i].board)}
handleListSiteDigestEntries(db, u) == ListSiteDigestEntries(db, u, {"digest", "announcement", "recommended"})
handleListSiteAnnouncements(db, u) == ListSiteDigestEntries(db, u, {"announcement"})
ListPublicRecommendedDigestEntries(db) ==
    {i \in DOMAIN db.entries : db.entries[i].kind = "recommended" /\ OpenToAll(db, db.entries[i].board)}

\* What an entry exports: the text an editor gave it, or the post as it is now,
\* or what is left of the thread.
digestThreadTranscript(db, t) == UNION {db.posts[p].body : p \in ShownPosts(db, {t})}
GetDigestExport(db, i) ==
    LET e == db.entries[i] IN
    IF e.body # "" THEN {e.body}
    ELSE IF e.target \in DOMAIN db.posts THEN db.posts[e.target].body
    ELSE digestThreadTranscript(db, e.target)

SearchDigestEntries(db, u, word) ==
    {i \in ListSiteDigestEntries(db, u, {"digest", "announcement", "recommended"}) :
        word \in GetDigestExport(db, i)}
handleSearchDigestEntries(db, u, b, word) ==
    OfBoard(db, u, b, {i \in SearchDigestEntries(db, u, word) : db.entries[i].board = b})

---------------------------------------------------------------------------
\* Mail.

HeldBy(db, u) == {c \in DOMAIN db.copies : c[2] = u}
ListMail(db, u, mailbox, unreadOnly) ==
    {c \in HeldBy(db, u) : db.copies[c].mailbox = mailbox /\ (unreadOnly => ~db.copies[c].read)}
CountUnreadMail(db, u) ==
    Cardinality({c \in HeldBy(db, u) : c[3] = "recipient" /\ db.copies[c].mailbox = "inbox" /\ ~db.copies[c].read})
handleListMail(db, u) == [mail |-> ListMail(db, u, "inbox", TRUE), unread |-> CountUnreadMail(db, u)]

\* The copy that is shown of a message: the recipient's before the sender's.
GetMail(db, u, m) ==
    IF <<m, u, "recipient">> \in DOMAIN db.copies THEN <<m, u, "recipient">> ELSE <<m, u, "sender">>
ShownCopies(db, u, ms) == {GetMail(db, u, m) : m \in {x \in ms : UserHasMailCopy(db, u, x)}}

\* The conversation of a message: all that answers what it answers, as far as
\* the reader holds a copy.
Answered(db, ms) == {db.mail[m].parent : m \in ms} \cap DOMAIN db.mail
Answers(db, ms) == {m \in DOMAIN db.mail : db.mail[m].parent \in ms}
ListMailThread(db, u, m) ==
    LET grown(Step(_), from) == FoldSet(LAMBDA n, ms : ms \cup Step(ms), from, DOMAIN db.mail)
        above == grown(LAMBDA ms : Answered(db, ms), {m})
    IN ShownCopies(db, u, grown(LAMBDA ms : Answers(db, ms), above))
handleListMailThread(db, u, m) == IF UserHasMailCopy(db, u, m) THEN ListMailThread(db, u, m) ELSE {}

ListMailByAuthor(db, u, m) ==
    ShownCopies(db, u, {x \in DOMAIN db.mail : db.mail[x].from = db.mail[m].from})
handleListMailByAuthor(db, u, m) == IF UserHasMailCopy(db, u, m) THEN ListMailByAuthor(db, u, m) ELSE {}

---------------------------------------------------------------------------
\* Direct messages: those that the reader did not delete.

ShownMessages(db, u) ==
    {i \in DOMAIN db.dms : \/ db.dms[i].from = u /\ ~db.dms[i].senderDeleted
                           \/ db.dms[i].to = u /\ ~db.dms[i].recipientDeleted}
OtherSide(db, u, i) == IF db.dms[i].from = u THEN db.dms[i].to ELSE db.dms[i].from
ListDirectMessages(db, u, v) == {i \in ShownMessages(db, u) : OtherSide(db, u, i) = v}

\* Mutant: a message that the recipient deleted unread still counts.
CountUnreadDirectMessages_Deleted(db, u) ==
    Cardinality({i \in DOMAIN db.dms : db.dms[i].to = u /\ ~db.dms[i].read})
CountUnreadDirectMessages(db, u) ==
    Cardinality({i \in DOMAIN db.dms : db.dms[i].to = u /\ ~db.dms[i].read /\ ~db.dms[i].recipientDeleted})
countUnreadDirectMessagesWithUser(db, u, v) ==
    Cardinality({i \in DOMAIN db.dms : db.dms[i].to = u /\ db.dms[i].from = v /\ ~db.dms[i].read
                                       /\ ~db.dms[i].recipientDeleted})
ListDirectMessageConversations(db, u) ==
    [v \in {OtherSide(db, u, i) : i \in ShownMessages(db, u)} |-> countUnreadDirectMessagesWithUser(db, u, v)]
handleListDirectMessageConversations(db, u) ==
    [conversations |-> ListDirectMessageConversations(db, u), unread |-> CountUnreadDirectMessages(db, u)]
handleListDirectMessages(db, u, v) == IF v \in DOMAIN db.role THEN ListDirectMessages(db, u, v) ELSE {}

---------------------------------------------------------------------------
\* People: friends, fans and the ignored; who is online and where.

ListSocialUsers(db, u, list, onlineOnly) ==
    LET listed == CASE list = "friends" -> {v \in DOMAIN db.role : <<u, v, "friend">> \in db.rels}
                    [] list = "fans" -> {v \in DOMAIN db.role : <<v, u, "friend">> \in db.rels}
                    [] list = "ignores" -> {v \in DOMAIN db.role : <<u, v, "ignore">> \in db.rels}
    IN [v \in {x \in listed : onlineOnly => x \in db.online} |->
           [mutual |-> list # "ignores" /\ {<<u, v, "friend">>, <<v, u, "friend">>} \subseteq db.rels,
            ignored |-> <<u, v, "ignore">> \in db.rels,
            board |-> IF v \in DOMAIN db.where THEN db.where[v] ELSE ""]]

ListOnlineUsers(db) ==
    [v \in db.online |-> [board |-> IF v \in DOMAIN db.where THEN db.where[v] ELSE ""]]
ListOnlineOn(db, b) == {v \in db.online \cap DOMAIN db.where : db.where[v] = b}
handleListBoardOnlineUsers(db, u, b) == OfBoard(db, u, b, ListOnlineOn(db, b))

\* The board where someone is, unless the reader may not read that board.
maskPrivatePresenceLocations(db, u, rows) ==
    [v \in DOMAIN rows |->
        IF rows[v].board # "" /\ ~actorCanReadBoard(db, u, rows[v].board)
        THEN [rows[v] EXCEPT !.board = ""] ELSE rows[v]]
handleListSocialUsers(db, u, list, onlineOnly) ==
    maskPrivatePresenceLocations(db, u, ListSocialUsers(db, u, list, onlineOnly))
handleListOnlineUsers(db, u) == maskPrivatePresenceLocations(db, u, ListOnlineUsers(db))

---------------------------------------------------------------------------
\* The search of posts: the word is in a row of the table or in a document of
\* the index, which may be late; who may see the post is decided by the board
\* where it is now.

Holding(rows, word, b) == {p \in DOMAIN rows : word \in rows[p].body /\ b \in {"", rows[p].board}}

\* Mutant: readable by those who may read the board the table has for the post.
SearchReadablePosts_OldBoard(db, u, word, b) ==
    {p \in Holding(db.fts, word, b) \cap DOMAIN db.posts :
        ~db.posts[p].redacted /\ BoardVisible(db, u, db.fts[p].board)}

SearchReadablePosts(db, u, word, b) ==
    {p \in Holding(db.fts, word, b) \cap DOMAIN db.posts :
        ~db.posts[p].redacted /\ BoardVisible(db, u, PostBoard(db, p))}

actorCanReadBoardForSearch(db, u, b) ==
    "member_read" \in GetBoardSettings(db, b) => ActorCanUseMemberBoard(db, u, b)
getSearchHydrationPost(db, p) == p \in DOMAIN db.posts /\ ~db.posts[p].redacted
HydrateSearchPostIDs(db, u, ids, b) ==
    {p \in ids : /\ getSearchHydrationPost(db, p)
                 /\ b \in {"", PostBoard(db, p)}
                 /\ actorCanReadBoardForSearch(db, u, PostBoard(db, p))}

CoreSearchReadablePosts(db, u, word, b) ==
    IF db.search = "external" THEN HydrateSearchPostIDs(db, u, Holding(db.index, word, b), b)
    ELSE SearchReadablePosts(db, u, word, b)
handleSearch(db, u, word, b) ==
    IF b = "" \/ actorCanReadBoard(db, u, b) THEN CoreSearchReadablePosts(db, u, word, b) ELSE {}

\* The processor of the table: an event, applied to the posts as they are now.
reindexPostSearchFromProjection(db, p) ==
    IF getSearchHydrationPost(db, p) THEN FtsInsertPost(db, p, PostBoard(db, p), db.posts[p].body)
    ELSE FtsDeletePost(db, p)
postSearchAppendBody(e) == IF HasPoll(e.raw) THEN CleanBody(e.raw) ELSE e.body

MovedRows(db, t, b) ==
    [p \in DOMAIN db.fts |-> IF db.posts[p].thread = t THEN [db.fts[p] EXCEPT !.board = b] ELSE db.fts[p]]
\* Mutant: a post that is restored is not indexed again.
ApplyPostSearchEvent_NotRestored(db, e) ==
    CASE e.k = "postAppended" -> FtsInsertPost(db, e.id, db.threads[e.thread].board, postSearchAppendBody(e))
      [] e.k = "postEdited" -> FtsUpdatePost(db, e.id, e.body)
      [] e.k \in {"postRedacted", "postPurged"} -> FtsDeletePost(db, e.id)
      [] e.k = "threadMoved" -> [db EXCEPT !.fts = MovedRows(db, e.id, e.to)]
      [] OTHER -> db
ApplyPostSearchEvent(db, e) ==
    CASE e.k = "postAppended" -> FtsInsertPost(db, e.id, db.threads[e.thread].board, postSearchAppendBody(e))
      [] e.k = "postEdited" -> FtsUpdatePost(db, e.id, e.body)
      [] e.k \in {"postRedacted", "postPurged"} -> FtsDeletePost(db, e.id)
      [] e.k = "postRestored" -> reindexPostSearchFromProjection(db, e.id)
      [] e.k = "threadMoved" -> [db EXCEPT !.fts = MovedRows(db, e.id, e.to)]
      [] OTHER -> db

PostSearchView == "search.posts"
ProcessPostSearchOnce(db, n) ==
    LET from == LookupProjectionWatermarkAppliedSeq(db, PostSearchView) IN
    RecordDerivedViewApplied(FoldLeft(ApplyPostSearchEvent, db, SubSeq(db.log, from + 1, n)), PostSearchView, n)

\* The documents that an event has the other processor send: the posts as they
\* are now; or a document to delete.
PostSearchDocumentByID(db, p) == [post |-> p, row |-> [board |-> PostBoard(db, p), body |-> db.posts[p].body]]
DeletePost(p) == [post |-> p, row |-> NoRows]
upsertExternalPostSearchDocument(db, p) ==
    IF getSearchHydrationPost(db, p) THEN PostSearchDocumentByID(db, p) ELSE DeletePost(p)
ListPostSearchDocuments(db, ts) == {PostSearchDocumentByID(db, p) : p \in ShownPosts(db, ts)}
applyExternalPostSearchEvent(db, e) ==
    CASE e.k \in {"postAppended", "postEdited", "postRestored"} -> {upsertExternalPostSearchDocument(db, e.id)}
      [] e.k \in {"postRedacted", "postPurged"} -> {DeletePost(e.id)}
      [] e.k = "threadMoved" -> ListPostSearchDocuments(db, {e.id})
      [] OTHER -> {}

\* The service: what it was sent, it does in order.
UpsertPost(index, doc) == IF doc.row = NoRows THEN Drop(index, {doc.post}) ELSE Put(index, doc.post, doc.row)
rebuildExternalPostSearchIndex(db) ==
    IF db.search # "external" THEN db
    ELSE [db EXCEPT !.index = FoldSet(LAMBDA doc, index : UpsertPost(index, doc), NoRows,
                                      ListPostSearchDocuments(db, DOMAIN db.threads))]
=============================================================================
