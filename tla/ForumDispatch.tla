--------------------------- MODULE ForumDispatch ---------------------------
(***************************************************************************)
(* The three switches of the forum: from a command to its handler (route), *)
(* from a command to its native decision (decide), and from an event to    *)
(* what it does to the projection (rebuildProjectionEvent); and the        *)
(* partition an event goes to.                                             *)
(***************************************************************************)
EXTENDS ForumApply

---------------------------------------------------------------------------
\* A command is a record: its number n, its name k, the actor a, the payload p.

routeReading(d, c) ==
    CASE c.k = "markBoardRead" -> markBoardRead(d, c.a, c.p)
      [] c.k = "restoreBoardRead" -> restoreBoardRead(d, c.a, c.p)
      [] c.k = "markFavoriteFolderRead" -> markFavoriteFolderRead(d, c.a, c.p)
      [] c.k = "restoreFavoriteFolderRead" -> restoreFavoriteFolderRead(d, c.a, c.p)
      [] c.k = "markThreadRead" -> markThreadRead(d, c.a, c.p)
      [] c.k = "restoreThreadRead" -> restoreThreadRead(d, c.a, c.p)
      [] c.k = "markPostRead" -> markPostRead(d, c.a, c.p)
      [] c.k = "purgePost" -> purgePost(d, c.a, c.p)
      [] c.k = "reactPost" -> reactPost(d, c.a, c.p)
      [] c.k = "unreactPost" -> unreactPost(d, c.a, c.p)
      [] c.k = "votePoll" -> votePoll(d, c.a, c.p)
      [] c.k = "publishPollResult" -> publishPollResult(d, c.a, c.p)
      [] c.k = "setThreadPref" -> setThreadPref(d, c.a, c.p)
      [] c.k = "flagPost" -> flagPost(d, c.a, c.p)
      [] c.k = "resolveReview" -> resolveReview(d, c.a, c.p)

routeUser(d, c) ==
    CASE c.k = "sendDirectMessage" -> sendDirectMessage(d, c.a, c.p)
      [] c.k = "setDirectMessageSettings" -> setDirectMessageSettings(d, c.a, c.p)
      [] c.k = "markDirectMessageRead" -> markDirectMessageRead(d, c.a, c.p)
      [] c.k = "deleteDirectMessage" -> deleteDirectMessage(d, c.a, c.p)
      [] c.k = "setUserRelationship" -> setUserRelationship(d, c.a, c.p)
      [] c.k = "setLoginWatch" -> setLoginWatch(d, c.a, c.p)
      [] c.k = "blessUser" -> blessUser(d, c.a, c.p)
      [] c.k = "setBoardFavorite" -> setBoardFavorite(d, c.a, c.p)
      [] c.k = "setBoardZap" -> setBoardZap(d, c.a, c.p)
      [] c.k = "createFavoriteFolder" -> createFavoriteFolder(d, c.a, c.p)
      [] c.k = "updateFavoriteFolder" -> updateFavoriteFolder(d, c.a, c.p)
      [] c.k = "deleteFavoriteFolder" -> deleteFavoriteFolder(d, c.a, c.p)
      [] c.k = "moveBoardFavorite" -> moveBoardFavorite(d, c.a, c.p)
      [] c.k = "importFavoriteTree" -> importFavoriteTree(d, c.a, c.p)
      [] OTHER -> routeReading(d, c)

routeMail(d, c) ==
    CASE c.k = "sendDigestEntryMail" -> sendDigestEntryMail(d, c.a, c.p)
      [] c.k = "mailPostAuthor" -> mailPostAuthor(d, c.a, c.p)
      [] c.k = "sendMail" -> sendMail(d, c.a, c.p)
      [] c.k = "forwardMail" -> forwardMail(d, c.a, c.p)
      [] c.k = "postMailToBoard" -> postMailToBoard(d, c.a, c.p)
      [] c.k = "setMailGroup" -> setMailGroup(d, c.a, c.p)
      [] c.k = "deleteMailGroup" -> deleteMailGroup(d, c.a, c.p)
      [] c.k = "attachMail" -> attachMail(d, c.a, c.p)
      [] c.k = "updateMail" -> updateMail(d, c.a, c.p)
      [] c.k = "deleteMail" -> deleteMail(d, c.a, c.p)
      [] c.k = "deleteMailRange" -> deleteMailRange(d, c.a, c.p)
      [] OTHER -> routeUser(d, c)

routeBoard(d, c) ==
    CASE c.k = "createBoard" -> createBoard(d, c.a, c.p)
      [] c.k = "setBoardSettings" -> setBoardSettings(d, c.a, c.p)
      [] c.k = "setBoardModerator" -> setBoardModerator(d, c.a, c.p)
      [] c.k = "setBoardMember" -> setBoardMember(d, c.a, c.p)
      [] c.k = "setBoardMemberRequirements" -> setBoardMemberRequirements(d, c.a, c.p)
      [] c.k = "setRecommendedBoard" -> setRecommendedBoard(d, c.a, c.p)
      [] c.k = "applyBoardMembership" -> applyBoardMembership(d, c.a, c.p)
      [] c.k = "reviewBoardMembership" -> reviewBoardMembership(d, c.a, c.p)
      [] c.k = "leaveBoardMembership" -> leaveBoardMembership(d, c.a, c.p)
      [] c.k = "curatePost" -> curatePost(d, c.a, c.p)
      [] c.k = "curateThread" -> curateThread(d, c.a, c.p)
      [] c.k = "removeDigestEntry" -> removeDigestEntry(d, c.a, c.p)
      [] c.k = "updateDigestEntry" -> updateDigestEntry(d, c.a, c.p)
      [] c.k = "setDigestEntryBody" -> setDigestEntryBody(d, c.a, c.p)
      [] c.k = "createDigestDirectory" -> createDigestDirectory(d, c.a, c.p)
      [] c.k = "moveDigestPath" -> moveDigestPath(d, c.a, c.p)
      [] c.k = "copyDigestPath" -> copyDigestPath(d, c.a, c.p)
      [] c.k = "deleteDigestPath" -> deleteDigestPath(d, c.a, c.p)
      [] OTHER -> routeMail(d, c)

routeSite(d, c) ==
    CASE c.k = "changeRole" -> changeRole(d, c.a, c.p)
      [] c.k = "publishStatsSnapshot" -> publishStatsSnapshot(d, c.a, c.p)
      [] c.k = "publishSystemNotice" -> publishSystemNotice(d, c.a, c.p)
      [] c.k = "sanctionUser" -> sanctionUser(d, c.a, c.p)
      [] c.k = "clearUserSanction" -> clearUserSanction(d, c.a, c.p)
      [] c.k = "setContentFilter" -> setContentFilter(d, c.a, c.p)
      [] c.k = "setBoardAutomodRule" -> setBoardAutomodRule(d, c.a, c.p)
      [] c.k = "deleteBoardAutomodRule" -> deleteBoardAutomodRule(d, c.a, c.p)
      [] OTHER -> routeBoard(d, c)

routeThread(d, c) ==
    CASE c.k = "createThread" -> createThread(d, c.a, c.p)
      [] c.k = "appendPost" -> appendPost(d, c.a, c.p)
      [] c.k = "repostPost" -> repostPost(d, c.a, c.p)
      [] c.k = "postBoardMail" -> postBoardMail(d, c.a, c.p)
      [] c.k = "attachPost" -> attachPost(d, c.a, c.p)
      [] c.k = "editPost" -> editPost(d, c.a, c.p)
      [] c.k = "setPostFlag" -> setPostFlag(d, c.a, c.p)
      [] c.k = "redactPost" -> redactPost(d, c.a, c.p)
      [] c.k = "restorePost" -> restorePost(d, c.a, c.p)
      [] c.k = "redactPostRange" -> redactPostRange(d, c.a, c.p)
      [] c.k = "restorePostRange" -> restorePostRange(d, c.a, c.p)
      [] c.k = "clearBoardJunk" -> clearBoardJunk(d, c.a, c.p)
      [] c.k = "setThreadTitle" -> setThreadTitle(d, c.a, c.p)
      [] c.k = "lockThread" -> lockThread(d, c.a, c.p)
      [] c.k = "moveThread" -> moveThread(d, c.a, c.p)
      [] OTHER -> routeSite(d, c)

\* The checkpoint of the counters is no command: it is run by its worker.
route(d, c) == IF c.k = "CheckpointCounters" THEN CheckpointCounters(d, c.a, c.p) ELSE routeThread(d, c)

decide(d, c) ==
    CASE c.k = "createThread" -> decideCreateThread(d, c.a, c.p)
      [] c.k = "appendPost" -> decideAppendPost(d, c.a, c.p)
      [] c.k = "repostPost" -> decideRepostPost(d, c.a, c.p)
      [] c.k = "postBoardMail" -> decidePostBoardMail(d, c.a, c.p)
      [] c.k = "attachPost" -> decideAttachPost(d, c.a, c.p)
      [] c.k = "editPost" -> decideEditPost(d, c.a, c.p)
      [] c.k = "setPostFlag" -> decideSetPostFlag(d, c.a, c.p)
      [] c.k = "redactPost" -> decideRedactPost(d, c.a, c.p)
      [] c.k = "restorePost" -> decideRestorePost(d, c.a, c.p)
      [] c.k = "redactPostRange" -> decideRedactPostRange(d, c.a, c.p)
      [] c.k = "restorePostRange" -> decideRestorePostRange(d, c.a, c.p)
      [] c.k = "clearBoardJunk" -> decideClearBoardJunk(d, c.a, c.p)
      [] c.k = "purgePost" -> decidePurgePost(d, c.a, c.p)
      [] c.k = "setThreadTitle" -> decideSetThreadTitle(d, c.a, c.p)
      [] c.k = "lockThread" -> decideLockThread(d, c.a, c.p)
      [] c.k = "moveThread" -> decideMoveThread(d, c.a, c.p)
      [] c.k = "flagPost" -> decideFlagPost(d, c.a, c.p)
      [] c.k = "resolveReview" -> decideResolveReview(d, c.a, c.p)
      [] c.k = "sanctionUser" -> decideSanctionUser(d, c.a, c.p)
      [] c.k = "clearUserSanction" -> decideClearUserSanction(d, c.a, c.p)
      [] c.k = "setContentFilter" -> decideSetContentFilter(d, c.a, c.p)
      [] c.k = "setBoardAutomodRule" -> decideSetBoardAutomodRule(d, c.a, c.p)
      [] c.k = "deleteBoardAutomodRule" -> decideDeleteBoardAutomodRule(d, c.a, c.p)
      [] c.k = "changeRole" -> decideRoleChange(d, c.a, c.p)
      [] c.k = "createBoard" -> decideCreateBoardCommand(d, c.a, c.p)
      [] c.k = "setBoardSettings" -> decideSetBoardSettings(d, c.a, c.p)
      [] c.k = "setRecommendedBoard" -> decideSetRecommendedBoard(d, c.a, c.p)
      [] c.k = "setBoardZap" -> decideSetBoardZap(d, c.a, c.p)
      [] c.k = "setBoardModerator" -> decideSetBoardModerator(d, c.a, c.p)
      [] c.k = "setBoardMember" -> decideSetBoardMember(d, c.a, c.p)
      [] c.k = "leaveBoardMembership" -> decideLeaveBoardMembership(d, c.a, c.p)
      [] c.k = "setBoardMemberRequirements" -> decideSetBoardMemberRequirements(d, c.a, c.p)
      [] c.k = "applyBoardMembership" -> decideApplyBoardMembership(d, c.a, c.p)
      [] c.k = "reviewBoardMembership" -> decideReviewBoardMembership(d, c.a, c.p)
      [] c.k = "setBoardFavorite" -> decideSetBoardFavorite(d, c.a, c.p)
      [] c.k = "moveBoardFavorite" -> decideMoveBoardFavorite(d, c.a, c.p)
      [] c.k = "createFavoriteFolder" -> decideCreateFavoriteFolder(d, c.a, c.p)
      [] c.k = "updateFavoriteFolder" -> decideUpdateFavoriteFolder(d, c.a, c.p)
      [] c.k = "deleteFavoriteFolder" -> decideDeleteFavoriteFolder(d, c.a, c.p)
      [] c.k = "importFavoriteTree" -> decideImportFavoriteTree(d, c.a, c.p)
      [] c.k = "curatePost" -> decideCuratePost(d, c.a, c.p)
      [] c.k = "curateThread" -> decideCurateThread(d, c.a, c.p)
      [] c.k = "removeDigestEntry" -> decideRemoveDigestEntry(d, c.a, c.p)
      [] c.k = "updateDigestEntry" -> decideUpdateDigestEntry(d, c.a, c.p)
      [] c.k = "setDigestEntryBody" -> decideSetDigestEntryBody(d, c.a, c.p)
      [] c.k = "createDigestDirectory" -> decideCreateDigestDirectory(d, c.a, c.p)
      [] c.k = "moveDigestPath" -> decideMoveDigestPath(d, c.a, c.p)
      [] c.k = "copyDigestPath" -> decideCopyDigestPath(d, c.a, c.p)
      [] c.k = "deleteDigestPath" -> decideDeleteDigestPath(d, c.a, c.p)
      [] c.k = "sendMail" -> decideSendMailPayload(d, c.a, c.p)
      [] c.k = "forwardMail" -> decideForwardMail(d, c.a, c.p)
      [] c.k = "sendDigestEntryMail" -> decideSendDigestEntryMail(d, c.a, c.p)
      [] c.k = "mailPostAuthor" -> decideMailPostAuthor(d, c.a, c.p)
      [] c.k = "postMailToBoard" -> decidePostMailToBoard(d, c.a, c.p)
      [] c.k = "setMailGroup" -> decideSetMailGroup(d, c.a, c.p)
      [] c.k = "deleteMailGroup" -> decideDeleteMailGroup(d, c.a, c.p)
      [] c.k = "attachMail" -> decideAttachMail(d, c.a, c.p)
      [] c.k = "updateMail" -> decideUpdateMail(d, c.a, c.p)
      [] c.k = "deleteMail" -> decideDeleteMail(d, c.a, c.p)
      [] c.k = "deleteMailRange" -> decideDeleteMailRange(d, c.a, c.p)
      [] c.k = "sendDirectMessage" -> decideSendDirectMessage(d, c.a, c.p)
      [] c.k = "setDirectMessageSettings" -> decideSetDirectMessageSettings(d, c.a, c.p)
      [] c.k = "markDirectMessageRead" -> decideMarkDirectMessageRead(d, c.a, c.p)
      [] c.k = "deleteDirectMessage" -> decideDeleteDirectMessage(d, c.a, c.p)
      [] c.k = "setUserRelationship" -> decideSetUserRelationship(d, c.a, c.p)
      [] c.k = "setLoginWatch" -> decideSetLoginWatch(d, c.a, c.p)
      [] c.k = "blessUser" -> decideBlessUser(d, c.a, c.p)
      [] c.k = "publishSystemNotice" -> decidePublishSystemNotice(d, c.a, c.p)
      [] c.k = "publishStatsSnapshot" -> decidePublishStatsSnapshot(d, c.a, c.p)
      [] c.k = "publishPollResult" -> decidePublishPollResult(d, c.a, c.p)

\* Commands that are executed by their handler whichever the mode.
CommandBypassesCommandLog(k) ==
    k \in {"reactPost", "unreactPost", "votePoll", "setThreadPref", "markBoardRead", "restoreBoardRead",
           "markFavoriteFolderRead", "restoreFavoriteFolderRead", "markThreadRead",
           "restoreThreadRead", "markPostRead", "CheckpointCounters"}

---------------------------------------------------------------------------
\* Applying an event, and when it cannot be applied.

ApplyOK(d, e) ==
    CASE e.k = "threadNew" -> ApplyThreadNewOK(d, e)
      [] e.k = "postAppended" -> ApplyPostAppendedOK(d, e)
      [] e.k = "postAttachmentAdded" -> ApplyPostAttachmentAddedOK(d, e)
      [] e.k = "postFlagged" -> ApplyPostFlaggedOK(d, e)
      [] e.k = "reviewResolved" -> ApplyReviewResolvedOK(d, e)
      [] e.k = "applicationSubmitted" -> ApplyApplicationSubmittedOK(d, e)
      [] e.k = "folderCreated" -> ApplyFolderCreatedOK(d, e)
      [] e.k = "folderUpdated" -> ApplyFolderUpdatedOK(d, e)
      [] e.k = "treeImported" -> ApplyTreeImportedOK(d, e)
      [] e.k = "digestUpserted" -> ApplyDigestUpsertedOK(d, e)
      [] e.k = "digestUpdated" -> ApplyDigestUpdatedOK(d, e)
      [] e.k = "digestMoved" -> ApplyDigestMovedOK(d, e)
      [] e.k = "digestCopied" -> ApplyDigestCopiedOK(d, e)
      [] e.k = "mailSent" -> ApplyMailSentOK(d, e)
      [] e.k = "mailGroupSet" -> ApplyMailGroupSetOK(d, e)
      [] e.k = "mailAttachmentAdded" -> ApplyMailAttachmentAddedOK(d, e)
      [] e.k = "dmSent" -> ApplyDirectMessageSentOK(d, e)
      [] e.k = "userBlessed" -> ApplyUserBlessedOK(d, e)
      [] OTHER -> TRUE

rebuildProjectionEvent(d, e, seq) ==
    CASE e.k = "threadNew" -> applyThreadNew(d, e, seq)
      [] e.k = "postAppended" -> applyPostAppended(d, e, seq)
      [] e.k = "postAttachmentAdded" -> applyPostAttachmentAdded(d, e)
      [] e.k = "postEdited" -> applyPostEdited(d, e)
      [] e.k = "postFlagsSet" -> applyPostFlagsSet(d, e)
      [] e.k = "postRedacted" -> applyPostRedacted(d, e)
      [] e.k = "postRestored" -> applyPostRestored(d, e)
      [] e.k = "postDeletionCleared" -> applyPostDeletionCleared(d, e)
      [] e.k = "postPurged" -> applyPostPurged(d, e)
      [] e.k = "threadTitleSet" -> applyThreadTitleSet(d, e)
      [] e.k = "threadLocked" -> applyThreadLocked(d, e)
      [] e.k = "threadMoved" -> applyThreadMoved(d, e)
      [] e.k = "userSanctioned" -> applyUserSanctioned(d, e, seq)
      [] e.k = "sanctionCleared" -> applySanctionCleared(d, e)
      [] e.k = "roleChanged" -> applyRoleChanged(d, e)
      [] e.k = "boardCreated" -> applyBoardCreated(d, e)
      [] e.k = "postFlagged" -> applyPostFlagged(d, e)
      [] e.k = "reviewResolved" -> applyReviewResolved(d, e)
      [] e.k = "contentFilterSet" -> applyContentFilterSet(d, e)
      [] e.k = "automodRuleSet" -> applyAutomodRuleSet(d, e)
      [] e.k = "automodRuleDeleted" -> applyAutomodRuleDeleted(d, e)
      [] e.k = "automodTriggered" -> applyAutomodTriggered(d, e)
      [] e.k = "boardSettingsSet" -> applyBoardSettingsSet(d, e)
      [] e.k = "boardRequirementsSet" -> applyBoardRequirementsSet(d, e)
      [] e.k = "boardRecommendedSet" -> applyBoardRecommendedSet(d, e)
      [] e.k = "boardZapSet" -> applyBoardZapSet(d, e)
      [] e.k = "boardModeratorSet" -> applyBoardModeratorSet(d, e)
      [] e.k = "boardMemberSet" -> applyBoardMemberSet(d, e)
      [] e.k = "applicationSubmitted" -> applyApplicationSubmitted(d, e)
      [] e.k = "applicationReviewed" -> applyApplicationReviewed(d, e)
      [] e.k = "boardFavoriteSet" -> applyBoardFavoriteSet(d, e)
      [] e.k = "folderCreated" -> applyFolderCreated(d, e)
      [] e.k = "folderUpdated" -> applyFolderUpdated(d, e)
      [] e.k = "folderDeleted" -> applyFolderDeleted(d, e)
      [] e.k = "treeImported" -> applyTreeImported(d, e)
      [] e.k = "digestUpserted" -> applyDigestUpserted(d, e)
      [] e.k = "digestRemoved" -> applyDigestRemoved(d, e)
      [] e.k = "digestUpdated" -> applyDigestUpdated(d, e)
      [] e.k = "digestBodySet" -> applyDigestBodySet(d, e)
      [] e.k = "digestDirectorySet" -> applyDigestDirectorySet(d, e)
      [] e.k = "digestMoved" -> applyDigestMoved(d, e)
      [] e.k = "digestCopied" -> applyDigestCopied(d, e)
      [] e.k = "digestDeleted" -> applyDigestDeleted(d, e)
      [] e.k = "mailSent" -> applyMailSent(d, e)
      [] e.k = "mailGroupSet" -> applyMailGroupSet(d, e)
      [] e.k = "mailGroupDeleted" -> applyMailGroupDeleted(d, e)
      [] e.k = "mailAttachmentAdded" -> applyMailAttachmentAdded(d, e)
      [] e.k = "mailCopyUpdated" -> applyMailCopyUpdated(d, e)
      [] e.k = "dmSent" -> applyDirectMessageSent(d, e)
      [] e.k = "dmSettingsSet" -> applyDirectMessageSettingsSet(d, e)
      [] e.k = "dmRead" -> applyDirectMessageRead(d, e)
      [] e.k = "dmDeleted" -> applyDirectMessageDeleted(d, e)
      [] e.k = "relationshipSet" -> applyUserRelationshipSet(d, e)
      [] e.k = "notificationCreated" -> applyNotificationCreated(d, e)
      [] e.k = "userBlessed" -> applyUserBlessed(d, e)
      [] e.k = "statsRecorded" -> applyCommunityStatsSnapshotRecorded(d, e)
      [] e.k = "counterCheckpointed" -> recordCounterCheckpointTx(d, e, seq)
      [] e.k = "trustChanged" -> applyTrustLevelChanged(d, e)
      [] OTHER -> d

---------------------------------------------------------------------------
\* The partition of an event: that of the first board its scopes name, else
\* of the first user, else the global one.  The scopes of an event about a
\* post or a thread name the board as the decider read it; the events of one
\* decision, evs, may be about a post they bring.

\* Mutant: the scopes of an event about a post name no board.
DecidedBoard_Unnamed(d, evs, post) == ""

DecidedBoard(d, evs, post) ==
    IF PostExists(d, post) THEN PostBoard(d, post)
    ELSE LET new == SelectSeq(evs, LAMBDA e : e.k = "postAppended" /\ e.id = post) IN new[1].board

EventPartitionFor(d, evs, e) ==
    CASE e.k \in {"threadNew", "postAppended", "automodRuleDeleted"} -> <<"board", e.board>>
      [] e.k = "boardCreated" -> <<"board", e.id>>
      [] e.k = "automodRuleSet" -> <<"board", e.row.board>>
      [] e.k \in {"postEdited", "postFlagsSet", "postRedacted", "postRestored",
                  "postDeletionCleared", "postPurged"} -> <<"board", DecidedBoard(d, evs, e.id)>>
      [] e.k = "postAttachmentAdded" -> <<"board", DecidedBoard(d, evs, e.post)>>
      [] e.k \in {"threadTitleSet", "threadMoved"} -> <<"board", d.threads[e.id].board>>
      [] e.k = "threadLocked" ->
            <<"board", IF e.id \in DOMAIN d.threads THEN d.threads[e.id].board ELSE evs[1].board>>
      [] e.k \in {"boardSettingsSet", "boardRequirementsSet", "boardRecommendedSet", "boardZapSet",
                  "boardModeratorSet", "boardMemberSet", "applicationSubmitted",
                  "applicationReviewed", "boardFavoriteSet", "digestUpserted", "digestRemoved",
                  "digestUpdated", "digestBodySet", "digestDirectorySet", "digestMoved",
                  "digestCopied", "digestDeleted"} -> <<"board", e.board>>
      [] e.k \in {"userSanctioned", "sanctionCleared", "roleChanged", "folderCreated",
                  "folderUpdated", "folderDeleted", "treeImported", "mailAttachmentAdded",
                  "mailGroupSet", "mailGroupDeleted", "mailCopyUpdated", "dmSent", "dmRead",
                  "dmDeleted", "dmSettingsSet", "relationshipSet", "notificationCreated",
                  "userBlessed"} -> <<"user", e.user>>
      [] e.k = "mailSent" -> <<"user", e.from>>
      [] OTHER -> <<"global", "global">>

---------------------------------------------------------------------------
\* The rebuild of the projection: the tables that the log gives back are
\* emptied, the log is replayed, reactions and votes are put back, and the
\* tables of the derived views are filled, whether a processor keeps them or
\* not.  An event that cannot be applied ends it, and nothing is changed.

clearProjectionTables(d) ==
    [d EXCEPT !.polls = NoRows, !.votes = NoRows, !.voteShards = NoRows,
              !.reactions = NoRows, !.reactShards = NoRows, !.checkpoint = NoRows,
              !.dirs = NoRows, !.entries = NoRows, !.fts = NoRows,
              !.latest = NoRows, !.resident = NoRows, !.relay = NoRows, !.atts = NoRows,
              !.deletions = NoRows, !.posts = NoRows, !.threads = NoRows, !.dms = NoRows,
              !.copies = NoRows, !.mailAtts = NoRows, !.mail = NoRows, !.blessings = NoRows,
              !.reviews = NoRows, !.filters = NoRows, !.rules = NoRows, !.audit = NoRows,
              !.sanctions = NoRows,
              !.created = [u \in DOMAIN @ |-> 0], !.days = [u \in DOMAIN @ |-> 0],
              !.trust = [u \in DOMAIN @ |-> 0], !.recv = [u \in DOMAIN @ |-> 0]]

\* The relay cache is not used: every event reads the settings.
replayEvents(d, log) ==
    FoldLeft(LAMBDA acc, i :
                 IF acc.ok /\ ApplyOK(acc.db, log[i])
                 THEN Ack([rebuildProjectionEvent(acc.db, log[i], i) EXCEPT !.relayCache = NoRows])
                 ELSE Refused(acc.db),
             Ack(d), [i \in DOMAIN log |-> i])

rebuildProjectionsInTx(d) ==
    LET r == replayEvents(clearProjectionTables(d), d.log) IN
    IF ~r.ok THEN Refused(d)
    ELSE Ack(RebuildAllViews(recomputeReactionReceivedActivity(restoreUnorderedTraffic(r.db, d))))
=============================================================================
