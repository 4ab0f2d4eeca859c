---------------------------- MODULE ForumThreads ----------------------------
(***************************************************************************)
(* The commands on existing posts and threads: attachments, edits, flags,  *)
(* redaction and restoration (one post or a range), the junk of a board,   *)
(* purges, titles, locks and moves.  For each, the handler's transaction   *)
(* and the native decision.                                                *)
(***************************************************************************)
EXTENDS ForumPosts

PostBoard(db, post) == db.threads[db.posts[post].thread].board
PostExists(db, post) == post \in DOMAIN db.posts /\ db.posts[post].thread \in DOMAIN db.threads

AuthorInWindow(db, a, post) ==
    ActorAuthoredBy(a, db.posts[post].author) /\ WithinAuthorEditWindow(db, db.posts[post].createdAt)

---------------------------------------------------------------------------
\* attachPost(post)

attachPostAllowed(db, a, p, bypass) ==
    /\ PostExists(db, p.post)
    /\ ~db.posts[p.post].redacted
    /\ "attachments" \in GetBoardSettings(db, PostBoard(db, p.post)) \/ bypass
    /\ bypass \/ AuthorInWindow(db, a, p.post)
    /\ CountPostAttachments(db, p.post) < MaxAttachments

attachPost(db, a, p) ==
    LET id == <<"att", db.cmd, 0>> IN
    IF PostExists(db, p.post)
       /\ attachPostAllowed(db, a, p, ActorCanModerateBoard(db, a, PostBoard(db, p.post)))
    THEN Ack(InsertPostAttachment(appendEvent(db, PostAttachmentAdded(id, p.post, db.now)), id, p.post))
    ELSE Refused(db)

\* The native decider gives moderators no exception.
decideAttachPost(db, a, p) ==
    IF attachPostAllowed(db, a, p, FALSE)
    THEN Decide(<<PostAttachmentAdded(<<"att", db.cmd, 0>>, p.post, db.now)>>)
    ELSE Refuse

---------------------------------------------------------------------------
\* editPost(post, body)

editPostAllowed(db, a, p) ==
    /\ ~HasPoll(p.body)
    /\ PostExists(db, p.post)
    /\ \A q \in DOMAIN db.polls : db.polls[q].post # p.post
    /\ ~db.posts[p.post].redacted
    /\ IsMod(db, a) \/ AuthorInWindow(db, a, p.post)

editPost(db, a, p) ==
    LET d1 == appendEvent(db, PostEdited(p.post, p.body, db.now)) IN
    IF editPostAllowed(db, a, p)
    THEN Ack(commandFtsUpdatePost(UpdatePostBody(d1, p.post, p.body), p.post, p.body))
    ELSE Refused(db)

decideEditPost(db, a, p) ==
    IF editPostAllowed(db, a, p) THEN Decide(<<PostEdited(p.post, p.body, db.now)>>) ELSE Refuse

---------------------------------------------------------------------------
\* setPostFlag(post, on, off)

PlanFlagUpdate(flags, p) == (flags \cup p.on) \ p.off

FlagChanges(db, p) ==
    LET old == db.posts[p.post].flags
        new == PlanFlagUpdate(old, p)
    IN (old \ new) \cup (new \ old)

setPostFlagAllowed(db, a, p) ==
    /\ PostExists(db, p.post)
    /\ ~db.posts[p.post].redacted
    /\ LET b == PostBoard(db, p.post)
           changes == FlagChanges(db, p)
       IN /\ changes \cap {"marked", "recommended"} # {} => ActorCanCurateBoard(db, a, b)
          /\ "no_reply" \in changes => ActorCanModerateBoardThreads(db, a, b)
          /\ changes \cap {"tex", "mail_back"} # {} =>
                ActorCanModerateBoardThreads(db, a, b) \/ db.posts[p.post].author = a

setPostFlag(db, a, p) ==
    LET flags == PlanFlagUpdate(db.posts[p.post].flags, p) IN
    IF ~setPostFlagAllowed(db, a, p) THEN Refused(db)
    ELSE IF FlagChanges(db, p) = {} THEN Ack(db)
    ELSE Ack(SetPostFlags(appendEvent(db, PostFlagsSet(p.post, flags, db.now)), p.post, flags))

decideSetPostFlag(db, a, p) ==
    IF ~setPostFlagAllowed(db, a, p) THEN Refuse
    ELSE IF FlagChanges(db, p) = {} THEN Decide(<<>>)
    ELSE Decide(<<PostFlagsSet(p.post, PlanFlagUpdate(db.posts[p.post].flags, p), db.now)>>)

---------------------------------------------------------------------------
\* redactPost(post), restorePost(post)

RedactionKind(canModeratePosts) == IF canModeratePosts THEN "recycle" ELSE "junk"

redactPostAllowed(db, a, p) ==
    /\ PostExists(db, p.post)
    /\ ~db.posts[p.post].redacted
    /\ ActorCanModerateBoardPosts(db, a, PostBoard(db, p.post)) \/ AuthorInWindow(db, a, p.post)

\* The rows of a redaction; the event of the handler never says which kind.
redactRows(db, a, post, kind) ==
    LET d1 == MarkPostRedacted(appendEvent(db, PostRedacted(post, a, "", db.now)), post)
        d2 == RecordPostDeletion(d1, post, db.posts[post].thread, PostBoard(db, post), a, kind)
    IN commandFtsDeletePost(d2, post)

redactPost(db, a, p) ==
    IF redactPostAllowed(db, a, p)
    THEN Ack(redactRows(db, a, p.post,
                 RedactionKind(ActorCanModerateBoardPosts(db, a, PostBoard(db, p.post)))))
    ELSE Refused(db)

decideRedactPost(db, a, p) ==
    IF redactPostAllowed(db, a, p) THEN Decide(<<PostRedacted(p.post, a, "", db.now)>>) ELSE Refuse

restorePostAllowed(db, a, p) ==
    /\ PostExists(db, p.post)
    /\ db.posts[p.post].redacted
    /\ ActorCanModerateBoardPosts(db, a, PostBoard(db, p.post))

restoreRows(db, a, post) ==
    ClearPostDeletion(MarkPostRestored(appendEvent(db, PostRestored(post, a, db.now)), post), post)

restorePost(db, a, p) ==
    IF restorePostAllowed(db, a, p) THEN Ack(restoreRows(db, a, p.post)) ELSE Refused(db)

\* Mutant: the decider trusts its caller.
decideRestorePost_Unchecked(db, a, p) ==
    IF PostExists(db, p.post) THEN Decide(<<PostRestored(p.post, a, db.now)>>) ELSE Refuse

decideRestorePost(db, a, p) ==
    IF restorePostAllowed(db, a, p) THEN Decide(<<PostRestored(p.post, a, db.now)>>) ELSE Refuse

---------------------------------------------------------------------------
\* redactPostRange(board, posts), restorePostRange(board, posts): all or none.
\* The posts of a payload are distinct, so that each can be checked beforehand.

EnsureRangeBoardAccess(db, a, b) ==
    b \in DOMAIN db.boards /\ ActorCanModerateBoardPosts(db, a, b)

LoadRangePost(db, post, b) == PostExists(db, post) /\ PostBoard(db, post) = b

RangeAllowed(db, a, p, redacted) ==
    /\ EnsureRangeBoardAccess(db, a, p.board)
    /\ \A post \in ToSet(p.posts) :
          LoadRangePost(db, post, p.board) /\ db.posts[post].redacted = redacted

redactPostRange(db, a, p) ==
    IF RangeAllowed(db, a, p, FALSE)
    THEN Ack(FoldLeft(LAMBDA d, post : redactRows(d, a, post, "recycle"), db, p.posts))
    ELSE Refused(db)

\* The native decision does say which kind.
decideRedactPostRange(db, a, p) ==
    IF RangeAllowed(db, a, p, FALSE)
    THEN Decide([i \in DOMAIN p.posts |-> PostRedacted(p.posts[i], a, "recycle", db.now)])
    ELSE Refuse

restorePostRange(db, a, p) ==
    IF RangeAllowed(db, a, p, TRUE)
    THEN Ack(FoldLeft(LAMBDA d, post : restoreRows(d, a, post), db, p.posts))
    ELSE Refused(db)

decideRestorePostRange(db, a, p) ==
    IF RangeAllowed(db, a, p, TRUE)
    THEN Decide([i \in DOMAIN p.posts |-> PostRestored(p.posts[i], a, db.now)])
    ELSE Refuse

---------------------------------------------------------------------------
\* clearBoardJunk(board, posts): the posts named, or all the junk, newest first.

IsBoardJunk(db, post, b) ==
    /\ post \in DOMAIN db.deletions
    /\ db.deletions[post].kind = "junk"
    /\ db.deletions[post].board = b

BoardJunkPostIDs(db, p) ==
    IF p.posts # <<>> THEN p.posts
    ELSE SetToSortSeq({post \in DOMAIN db.deletions : IsBoardJunk(db, post, p.board)},
                      LAMBDA x, y : db.deletions[x].at > db.deletions[y].at)

clearBoardJunkAllowed(db, a, p) ==
    /\ EnsureRangeBoardAccess(db, a, p.board)
    /\ \A post \in ToSet(BoardJunkPostIDs(db, p)) : IsBoardJunk(db, post, p.board)

clearBoardJunk(db, a, p) ==
    IF clearBoardJunkAllowed(db, a, p)
    THEN Ack(FoldLeft(LAMBDA d, post :
                          ClearPostDeletion(appendEvent(d, PostDeletionCleared(post, a, db.now)), post),
                      db, BoardJunkPostIDs(db, p)))
    ELSE Refused(db)

decideClearBoardJunk(db, a, p) ==
    LET posts == BoardJunkPostIDs(db, p) IN
    IF clearBoardJunkAllowed(db, a, p)
    THEN Decide([i \in DOMAIN posts |-> PostDeletionCleared(posts[i], a, db.now)])
    ELSE Refuse

---------------------------------------------------------------------------
\* purgePost(post)

purgePostAllowed(db, a, p) == IsAdmin(db, a) /\ PostExists(db, p.post)

purgePost(db, a, p) ==
    LET d1 == MarkPostPurged(appendEvent(db, PostPurged(p.post, a, db.now)), p.post) IN
    IF purgePostAllowed(db, a, p) THEN Ack(commandFtsDeletePost(d1, p.post)) ELSE Refused(db)

decidePurgePost(db, a, p) ==
    IF purgePostAllowed(db, a, p) THEN Decide(<<PostPurged(p.post, a, db.now)>>) ELSE Refuse

---------------------------------------------------------------------------
\* setThreadTitle(thread, title), lockThread(thread, locked), moveThread(thread, to)

setThreadTitleAllowed(db, a, p) ==
    LET t == db.threads[p.thread] IN
    \/ ActorCanModerateBoardThreads(db, a, t.board)
    \/ ActorAuthoredBy(a, t.author) /\ WithinAuthorEditWindow(db, t.createdAt)

setThreadTitle(db, a, p) ==
    IF p.thread \notin DOMAIN db.threads THEN Refused(db)
    ELSE IF db.threads[p.thread].title = p.title THEN Ack(db)
    ELSE IF ~setThreadTitleAllowed(db, a, p) THEN Refused(db)
    ELSE Ack(SetThreadTitle(appendEvent(db, ThreadTitleSet(p.thread, p.title, db.now)),
                            p.thread, p.title))

decideSetThreadTitle(db, a, p) ==
    IF p.thread \notin DOMAIN db.threads THEN Refuse
    ELSE IF db.threads[p.thread].title = p.title THEN Decide(<<>>)
    ELSE IF ~setThreadTitleAllowed(db, a, p) THEN Refuse
    ELSE Decide(<<ThreadTitleSet(p.thread, p.title, db.now)>>)

RequireThreadModeration(db, a, t) ==
    t \in DOMAIN db.threads /\ ActorCanModerateBoardThreads(db, a, db.threads[t].board)

lockThread(db, a, p) ==
    IF RequireThreadModeration(db, a, p.thread)
    THEN Ack(SetThreadLocked(appendEvent(db, ThreadLocked(p.thread, p.locked, db.now)),
                             p.thread, p.locked))
    ELSE Refused(db)

decideLockThread(db, a, p) ==
    IF RequireThreadModeration(db, a, p.thread)
    THEN Decide(<<ThreadLocked(p.thread, p.locked, db.now)>>) ELSE Refuse

RequireDestinationBoard(db, b) == b \in DOMAIN db.boards

moveThread(db, a, p) ==
    IF RequireThreadModeration(db, a, p.thread) /\ RequireDestinationBoard(db, p.to)
    THEN Ack(MoveThreadBoard(appendEvent(db, ThreadMoved(p.thread, p.to, db.now)), p.thread, p.to))
    ELSE Refused(db)

decideMoveThread(db, a, p) ==
    IF RequireThreadModeration(db, a, p.thread) /\ RequireDestinationBoard(db, p.to)
    THEN Decide(<<ThreadMoved(p.thread, p.to, db.now)>>) ELSE Refuse
=============================================================================
