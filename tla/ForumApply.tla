----------------------------- MODULE ForumApply -----------------------------
(***************************************************************************)
(* What the events of posts, threads and moderation do to the projection   *)
(* (rebuildProjectionEventWithContext): when it is rebuilt from the log,   *)
(* and when the materializer applies what the native decider decided.  The *)
(* argument seq is the sequence number the event has in the projection.    *)
(* db.relayCache is the cache of a batch: whether a board relays its       *)
(* posts, as first read in the batch.                                      *)
(***************************************************************************)
EXTENDS ForumListings

\* An insertion whose key exists fails, and with it the whole batch.
ApplyThreadNewOK(db, e) == e.id \notin DOMAIN db.threads
ApplyPostAppendedOK(db, e) == e.id \notin DOMAIN db.posts /\ e.atts \cap DOMAIN db.atts = {}
ApplyPostAttachmentAddedOK(db, e) == e.id \notin DOMAIN db.atts

applyThreadNew(db, e, seq) == InsertThread(db, e.id, e.board, e.author, e.title, e.ts, seq)

\* The feed rows of a new post take their board from the event.
upsertProjectedResidentFeedPost(db, e) ==
    [db EXCEPT !.resident = Put(@, e.id, [thread |-> e.thread, board |-> e.board])]
upsertProjectedLatestFeedPost(db, e) ==
    [db EXCEPT !.latest = Put(@, e.id, [thread |-> e.thread, board |-> e.board])]

projectedBoardRelayEnabled(db, b) ==
    IF b \in DOMAIN db.relayCache THEN db.relayCache[b] ELSE "relay" \in GetBoardSettings(db, b)

appendRelayDeliveryFromProjectedPost(db, e) ==
    LET on == projectedBoardRelayEnabled(db, e.board)
        d1 == [db EXCEPT !.relayCache = Put(@, e.board, on)]
    IN IF on /\ e.thread \in DOMAIN db.threads THEN InsertRelayDelivery(d1, e.id, e.board) ELSE d1

\* The handler makes a new id for a poll; here it is made from the post.
rebuildPollForPost(db, e) ==
    IF HasPoll(e.raw) THEN InsertPoll(db, <<"poll of", e.id>>, e.id, e.raw) ELSE db

postCommittedActorIDFromEvent(e) == IF e.by # "" THEN e.by ELSE e.author

recordPostActivityFromEvent(db, u) == IF u \in DOMAIN db.role THEN RecordPostCreated(db, u) ELSE db

applyPostAppended(db, e, seq) ==
    LET row == PostRow(e.thread, e.author, e.body, e.replyTo, {}, e.source, e.ts, seq)
        d1 == insertAttachments(InsertPost(db, e.id, row), e.id, e.atts)
        d2 == BumpThread(d1, e.thread, seq)
        d3 == upsertProjectedLatestFeedPost(upsertProjectedResidentFeedPost(d2, e), e)
        d4 == FtsInsertPost(d3, e.id, e.board, e.body)
        d5 == rebuildPollForPost(appendRelayDeliveryFromProjectedPost(d4, e), e)
    IN recordPostActivityFromEvent(d5, postCommittedActorIDFromEvent(e))

applyPostAttachmentAdded(db, e) == InsertPostAttachment(db, e.id, e.post)
applyPostEdited(db, e) == FtsUpdatePost(UpdatePostBody(db, e.id, e.body), e.id, e.body)
applyPostFlagsSet(db, e) == SetPostFlags(db, e.id, e.flags)

\* An event that does not say which kind of deletion it was: the author's own.
RebuiltRedactionKind(db, e) ==
    IF e.kind # "" THEN e.kind ELSE IF db.posts[e.id].author = e.by THEN "junk" ELSE "recycle"

applyPostRedacted(db, e) ==
    LET d1 == IF PostExists(db, e.id)
              THEN RecordPostDeletion(db, e.id, db.posts[e.id].thread, PostBoard(db, e.id), e.by,
                                      RebuiltRedactionKind(db, e))
              ELSE db
    IN DeleteLatestFeedPost(DeleteResidentFeedPost(MarkPostRedacted(d1, e.id), e.id), e.id)

applyPostRestored(db, e) ==
    UpsertLatestFeedPost(UpsertResidentFeedPost(MarkPostRestored(ClearPostDeletion(db, e.id), e.id),
                                                e.id), e.id)

applyPostDeletionCleared(db, e) == ClearPostDeletion(db, e.id)

applyPostPurged(db, e) ==
    DeleteLatestFeedPost(DeleteResidentFeedPost(FtsDeletePost(MarkPostPurged(db, e.id), e.id),
                                                e.id), e.id)

applyThreadTitleSet(db, e) == SetThreadTitle(db, e.id, e.title)
applyThreadLocked(db, e) == SetThreadLocked(db, e.id, e.locked)

applyThreadMoved(db, e) ==
    MoveLatestFeedThread(MoveResidentFeedThread(MoveThreadBoard(db, e.id, e.to), e.id, e.to),
                         e.id, e.to)

---------------------------------------------------------------------------
\* Moderation, sanctions, roles and boards.

applyUserSanctioned(db, e, seq) ==
    InsertSanction(db, <<"san", seq>>, e.user, e.kind, e.scope,
                   IF e.duration > 0 THEN e.ts + e.duration ELSE 0, e.by)

applySanctionCleared(db, e) == ClearUserSanctions(db, e.user, e.kind, e.scope)
applyRoleChanged(db, e) == SetUserRole(db, e.user, e.role)

applyBoardCreated(db, e) ==
    LET d1 == InsertBoard(db, e.id, e.parent) IN
    IF e.id = SysmailBoard THEN [d1 EXCEPT !.settings = Put(@, e.id, SysmailSettings)] ELSE d1

ApplyPostFlaggedOK(db, e) == e.id \notin DOMAIN db.reviews
applyPostFlagged(db, e) == InsertModerationReview(db, e.id, e.kind, e.post, e.by)

ApplyReviewResolvedOK(db, e) == ReviewIsOpen(db, e.id)
applyReviewResolved(db, e) == ResolveModerationReview(db, e.id, e.resolution, e.by)

applyContentFilterSet(db, e) == UpsertContentFilter(db, e.id, e.row)
applyAutomodRuleSet(db, e) == UpsertBoardAutomodRule(db, e.id, e.row)
applyAutomodRuleDeleted(db, e) == DeleteBoardAutomodRule(db, e.id, e.board)
applyAutomodTriggered(db, e) ==
    InsertAutomodAuditLog(db, e.id, [board |-> e.board, rule |-> e.rule, action |-> e.action,
                                     user |-> e.user, post |-> e.post])

TrustLevelChanged(u, level, ts) == [k |-> "trustChanged", user |-> u, level |-> level, ts |-> ts]
applyTrustLevelChanged(db, e) == [db EXCEPT !.trust = Change(@, e.user, LAMBDA n : e.level)]

---------------------------------------------------------------------------
\* The job of a committed post (processPostCommittedJob): the activity of its
\* author, and a notification for each reason to tell someone.

enqueueEventStoreProjectionSideEffects(db, e) ==
    IF e.k = "postAppended"
    THEN EnqueueOutboxJob(db, e.id, postCommittedActorIDFromEvent(e), e.said) ELSE db

NotificationID(job, u, kind) == <<"note", job.post, u, kind>>

WatchersOfThread(db, t, except) ==
    {u \in DOMAIN db.role \ {except} : <<u, t>> \in DOMAIN db.prefs /\ db.prefs[<<u, t>>] = "watch"}

JobNotifications(db, job) ==
    LET post == db.posts[job.post]
        mentioned == (DOMAIN db.role \cap job.body) \ {job.actor}
        parent == IF post.replyTo \in DOMAIN db.posts
                  THEN {db.posts[post.replyTo].author} \ {job.actor, ""} ELSE {}
    IN (mentioned \X {"mention"}) \cup (parent \X {"reply"})
       \cup (WatchersOfThread(db, post.thread, job.actor) \X {"watched"})

\* A new trust level is an event too.
processPostCommittedJob(db, job) ==
    LET d1 == recordPostActivityFromEvent(db, job.actor)
        d2 == IF d1.trust = db.trust THEN d1
              ELSE appendEvent(d1, TrustLevelChanged(job.actor, d1.trust[job.actor], db.now))
    IN FoldSet(LAMBDA n, d : InsertNotification(d, NotificationID(job, n[1], n[2]), n[1], n[2],
                                                job.post, job.actor),
               d2, JobNotifications(db, job))
=============================================================================
