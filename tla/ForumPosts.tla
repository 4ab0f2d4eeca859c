----------------------------- MODULE ForumPosts -----------------------------
(***************************************************************************)
(* The commands that write posts: what the compatibility handler does in   *)
(* one transaction (createThread, appendPost, repostPost, postBoardMail),  *)
(* what the broker-native decider decides from the projection              *)
(* (decideCreateThread, ...), and what applying the events does to the     *)
(* projection (rebuildProjectionEventWithContext).                         *)
(***************************************************************************)
EXTENDS ForumRules

---------------------------------------------------------------------------
\* Rows and events that a new post brings, whichever command writes it.
\* x is the post: id, author, body, raw, replyTo, atts, source.

insertAttachments(db, post, atts) == FoldSet(LAMBDA i, d : InsertPostAttachment(d, i, post), db, atts)

AttachmentIDs(db, n) == {<<"att", db.cmd, i>> : i \in 1..n}

writePost(db, b, t, x) ==
    LET d1 == appendEvent(db, PostAppended(b, x.id, t, x.author, x.body, x.raw, x.replyTo,
                                           x.atts, x.source, "", db.now))
        d2 == InsertPost(d1, x.id, PostRow(t, x.author, x.body, x.replyTo, {}, x.source,
                                           db.now, LastSeq(d1)))
        d3 == insertAttachments(d2, x.id, x.atts)
        d4 == BumpThread(d3, t, LastSeq(d1))
    IN commandFtsInsertPost(d4, x.id, b, x.body)

writeThread(db, b, t, title, x) ==
    LET d1 == appendEvent(db, ThreadNew(t, b, x.author, title, db.now))
        d2 == InsertThread(d1, t, b, x.author, title, db.now, LastSeq(d1))
    IN writePost(d2, b, t, x)

\* The relay row, the poll row and the post-committed job of a user's post.
relayPost(db, b, id) ==
    IF "relay" \in GetBoardSettings(db, b) THEN InsertRelayDelivery(db, id, b) ELSE db

insertPollRows(db, id, raw) ==
    IF HasPoll(raw) THEN InsertPoll(db, <<"pol", id>>, id, raw) ELSE db

SystemPost(a, id) ==
    [id |-> id, author |-> a, body |-> {"system"}, raw |-> {"system"}, replyTo |-> NoId,
     atts |-> {}, source |-> NoId]

appendGeneratedSystemPostTx(db, a, b, t, id) ==
    LET d1 == IF b \in DOMAIN db.boards THEN db
              ELSE InsertBoard(appendEvent(db, BoardCreated(b, "", db.now)), b, "")
    IN writeThread(d1, b, t, "system", SystemPost(a, id))

appendFilterSystemPostTx(db, a, review) ==
    LET t == <<"filterlog", review>> IN
    IF t \in DOMAIN db.threads THEN db
    ELSE appendGeneratedSystemPostTx(db, a, FilterBoard, t, <<"filterpost", review>>)

FilterReviewID(db) == <<"rev", db.cmd, 0>>

appendContentFilterReviewTx(db, a, post, public) ==
    LET review == FilterReviewID(db)
        d1 == InsertModerationReview(db, review, "content_filter", post, a)
        d2 == appendEvent(d1, PostFlagged(review, "content_filter", post, a, db.now))
    IN IF public THEN appendFilterSystemPostTx(d2, a, review) ELSE d2

\* One action of an automod rule, the i-th of its list, against the author a.
applyAutomodActionEventsTx(db, action, i, duration, a, post, t, b) ==
    LET by == "automod"
        scope == IF action = "global_mute" THEN "global" ELSE b
        kind == IF action = "board_ban" THEN "ban" ELSE "mute"
        expires == IF duration > 0 THEN db.now + duration ELSE 0
    IN CASE action = "manual_review" ->
              appendEvent(InsertModerationReview(db, <<"rev", db.cmd, i>>, "automod", post, by),
                          PostFlagged(<<"rev", db.cmd, i>>, "automod", post, by, db.now))
         [] action = "redact" ->
              LET d1 == appendEvent(db, PostRedacted(post, by, "", db.now))
                  d2 == RecordPostDeletion(MarkPostRedacted(d1, post), post, t, b, by, "recycle")
              IN commandFtsDeletePost(d2, post)
         [] action = "lock_thread" ->
              SetThreadLocked(appendEvent(db, ThreadLocked(t, TRUE, db.now)), t, TRUE)
         [] action \in {"board_mute", "board_ban", "global_mute"} ->
              InsertSanction(appendEvent(db, UserSanctioned(a, kind, scope, duration, by, db.now)),
                             <<"san", db.cmd, i>>, a, kind, scope, expires, by)
         [] OTHER -> db

applyAutomodActionTx(db, rule, a, post, t, b) ==
    LET r == db.rules[rule]
        step(d, i) ==
            LET d1 == applyAutomodActionEventsTx(d, r.actions[i], i, r.duration, a, post, t, b)
                row == [board |-> b, rule |-> rule, action |-> r.actions[i], user |-> a, post |-> post]
            IN InsertAutomodAuditLog(
                   appendEvent(d1, BoardAutomodTriggered(<<"amlog", db.cmd, i>>, b, rule,
                                                         r.actions[i], a, post, db.now)),
                   <<"amlog", db.cmd, i>>, row)
    IN FoldLeftDomain(step, db, r.actions)

\* The filters and the rules were consulted before the transaction, on pre.
moderateNewPost(db, pre, a, b, t, id, text) ==
    LET public == "member_read" \notin GetBoardSettings(pre, b)
        fired == evaluateBoardAutomod(pre, b, text, a)
        d1 == IF MatchContentFilter(pre, b, text)
              THEN appendContentFilterReviewTx(db, a, id, public) ELSE db
    IN IF fired = {} THEN d1 ELSE applyAutomodActionTx(d1, CHOOSE r \in fired : TRUE, a, id, t, b)

---------------------------------------------------------------------------
\* Who is told of a post.

PreferredPostNotificationKind(kinds) ==
    CASE "mention" \in kinds -> "mention"
      [] "reply" \in kinds -> "reply"
      [] OTHER -> "watched"

NotificationKinds(db, t, sender, body, replyTarget, u) ==
    {k \in {"mention", "reply", "watched"} :
        CASE k = "mention" -> u \in body
          [] k = "reply" -> replyTarget # NoId /\ db.posts[replyTarget].author = u
          [] k = "watched" -> <<u, t>> \in DOMAIN db.prefs /\ db.prefs[<<u, t>>] = "watch"}

UserCanReceivePostNotification(db, u, t, sender) ==
    /\ RequireMemberBoardReadAccess(db, u, db.threads[t].board)
    /\ ~(<<u, t>> \in DOMAIN db.prefs /\ db.prefs[<<u, t>>] = "mute")
    /\ ~UserRelationshipExists(db, u, sender, "ignore")

appendPostNotificationsTx(db, a, author, t, id, body, replyTarget) ==
    LET sender == IF author = "" THEN a ELSE author
        told == {u \in DOMAIN db.role \ {sender} :
                    /\ NotificationKinds(db, t, sender, body, replyTarget, u) # {}
                    /\ UserCanReceivePostNotification(db, u, t, sender)}
        row(u) == [user |-> u, post |-> id, from |-> author, read |-> FALSE,
                   kind |-> PreferredPostNotificationKind(
                                NotificationKinds(db, t, sender, body, replyTarget, u))]
        ids == {<<"notif", db.cmd, u>> : u \in told}
    IN [db EXCEPT !.notes = [n \in DOMAIN @ \cup ids |-> IF n \in ids THEN row(n[3]) ELSE @[n]]]

---------------------------------------------------------------------------
\* Mail to the author of a post that asks for it.

ArticleMailBackDue(db, a, author, target) ==
    /\ target # NoId
    /\ "mail_back" \in db.posts[target].flags
    /\ ~db.posts[target].redacted
    /\ author # "" /\ db.posts[target].author \notin {"", author}
    /\ db.posts[target].author \in DOMAIN db.role
    /\ ~UserRelationshipExists(db, db.posts[target].author, a, "ignore")
    /\ MailQuotaAllows(db, db.posts[target].author, 1)

appendArticleMailBackTx(db, a, author, target) ==
    IF ~ArticleMailBackDue(db, a, author, target) THEN db
    ELSE LET u == db.posts[target].author
             id == NewID(db, "mail")
             d1 == appendEvent(db, NewMailSent(id, author, {u}, NoId, FALSE, {}, db.now))
             d2 == InsertMailMessage(d1, id, author, NoId)
         IN InsertMailCopy(d2, id, u, "recipient", "inbox", FALSE)

---------------------------------------------------------------------------
\* createThread(board, title, body, anon, atts)

createThreadAllowed(db, a, p) ==
    /\ RequireMinTrustForPoll(db, a, p.body)
    /\ ~ActiveSanctionKind(db, a, p.board)
    /\ p.board \in DOMAIN db.boards
    /\ RequireThreadCreationBoardAccess(db, a, p.board)
    /\ NormalizePostAttachments(db, a, p.board, p.atts)
    /\ AnonymousAllowed(db, a, p.board, p.anon)

createThread(db, a, p) ==
    LET t == NewID(db, "thr")
        id == NewID(db, "pst")
        author == PostIdentity(a, p.anon)
        x == [id |-> id, author |-> author, body |-> CleanBody(p.body), raw |-> p.body,
              replyTo |-> NoId, atts |-> AttachmentIDs(db, p.atts), source |-> NoId]
        d1 == relayPost(writeThread(db, p.board, t, p.title, x), p.board, id)
        d2 == moderateNewPost(d1, db, a, p.board, t, id, {p.title} \cup p.body)
        d3 == EnqueueOutboxJob(insertPollRows(d2, id, p.body), id, a, CleanBody(p.body))
    IN IF createThreadAllowed(db, a, p)
       THEN Ack(appendPostNotificationsTx(d3, a, author, t, id, CleanBody(p.body), NoId))
       ELSE Refused(db)

---------------------------------------------------------------------------
\* appendPost(thread, body, replyTo, quote, anon, atts)

appendPostAllowed(db, a, p) ==
    /\ RequireMinTrustForPoll(db, a, p.body)
    /\ p.thread \in DOMAIN db.threads
    /\ LET b == db.threads[p.thread].board IN
       /\ b \in DOMAIN db.boards
       /\ RequireThreadOpenForReply(db, a, p.thread)
       /\ RequireReplyBoardAccess(db, a, b)
       /\ RequireThreadStarterAcceptsReplies(db, a, p.thread)
       /\ NormalizePostAttachments(db, a, b, p.atts)
       /\ AnonymousAllowed(db, a, b, p.anon)
       /\ ~ActiveSanctionKind(db, a, b)
    /\ ReplyTargetOK(db, a, p.thread, p.replyTo, p.quote)

appendPostTx(db, a, p) ==
    LET id == NewID(db, "pst")
        b == db.threads[p.thread].board
        author == PostIdentity(a, p.anon)
        raw == QuotedBody(db, p.replyTo, p.quote, p.body)
        x == [id |-> id, author |-> author, body |-> CleanBody(raw), raw |-> raw,
              replyTo |-> EffectiveReplyTo(db, p.replyTo),
              atts |-> AttachmentIDs(db, p.atts), source |-> NoId]
        d1 == relayPost(writePost(db, b, p.thread, x), b, id)
        d2 == moderateNewPost(d1, db, a, b, p.thread, id, raw)
        d3 == appendArticleMailBackTx(d2, a, author, MailBackTarget(db, p.thread, p.replyTo))
        d4 == EnqueueOutboxJob(insertPollRows(d3, id, p.body), id, a, x.body)
    IN appendPostNotificationsTx(d4, a, author, p.thread, id, CleanBody(p.body), p.replyTo)

appendPost(db, a, p) ==
    IF appendPostAllowed(db, a, p) THEN Ack(appendPostTx(db, a, p)) ELSE Refused(db)

---------------------------------------------------------------------------
\* repostPost(post, board, title)

\* Mutant: a repost is not taken for a post.
repostPostAllowed_Sanctioned(db, a, p) ==
    /\ p.post \in DOMAIN db.posts
    /\ ~db.posts[p.post].redacted
    /\ RequireMemberBoardReadAccess(db, a, db.threads[db.posts[p.post].thread].board)
    /\ p.board \in DOMAIN db.boards
    /\ RequireThreadCreationBoardAccess(db, a, p.board)

repostPostAllowed(db, a, p) ==
    /\ p.post \in DOMAIN db.posts
    /\ ~db.posts[p.post].redacted
    /\ RequireMemberBoardReadAccess(db, a, db.threads[db.posts[p.post].thread].board)
    /\ p.board \in DOMAIN db.boards
    /\ RequireThreadCreationBoardAccess(db, a, p.board)
    /\ ~ActiveSanctionKind(db, a, p.board)

RepostTitle(db, p) ==
    IF p.title = "" THEN db.threads[db.posts[p.post].thread].title ELSE p.title

repostPost(db, a, p) ==
    LET t == NewID(db, "thr")
        id == NewID(db, "pst")
        body == FormatRepostBody(db, p.post)
        x == [id |-> id, author |-> a, body |-> body, raw |-> body, replyTo |-> NoId,
              atts |-> {}, source |-> p.post]
        d1 == relayPost(writeThread(db, p.board, t, RepostTitle(db, p), x), p.board, id)
        d2 == moderateNewPost(d1, db, a, p.board, t, id, {RepostTitle(db, p)} \cup body)
    IN IF repostPostAllowed(db, a, p) THEN Ack(EnqueueOutboxJob(d2, id, a, body)) ELSE Refused(db)

---------------------------------------------------------------------------
\* postBoardMail(board, thread, subject, body, atts): a thread or a reply.

ResolveBoardMailTargetBoard(db, p) ==
    IF p.thread = NoId THEN p.board ELSE db.threads[p.thread].board

postBoardMailAllowed(db, a, p) ==
    /\ p.thread # NoId => /\ p.thread \in DOMAIN db.threads
                          /\ p.board \in {"", db.threads[p.thread].board}
    /\ LET b == ResolveBoardMailTargetBoard(db, p) IN
       /\ b \in DOMAIN db.boards
       /\ "mail_in" \in GetBoardSettings(db, b) \/ ActorCanModerateBoard(db, a, b)

BoardMailReply(p) ==
    [thread |-> p.thread, body |-> p.body, replyTo |-> NoId, quote |-> FALSE, anon |-> FALSE,
     atts |-> p.atts]
BoardMailThread(p) ==
    [board |-> p.board, title |-> IF p.title = "" THEN "(no subject)" ELSE p.title,
     body |-> p.body, anon |-> FALSE, atts |-> p.atts]

postBoardMail(db, a, p) ==
    IF ~postBoardMailAllowed(db, a, p) THEN Refused(db)
    ELSE IF p.thread # NoId THEN appendPost(db, a, BoardMailReply(p))
    ELSE createThread(db, a, BoardMailThread(p))

---------------------------------------------------------------------------
\* The native decider.

\* Only an anonymous post names the actor whose activity it is.
PostCommitActorID(a, author) == IF author = "" THEN a ELSE ""

nativeGeneratedSystemPostEvents(db, a, b, t, id, always) ==
    (IF always \/ b \notin DOMAIN db.boards THEN <<BoardCreated(b, "", db.now)>> ELSE <<>>)
    \o <<ThreadNew(t, b, a, "system", db.now),
         PostAppended(b, id, t, a, {"system"}, {"system"}, NoId, {}, NoId, "", db.now)>>

nativeContentFilterReviewEvents(db, a, post, public) ==
    LET review == FilterReviewID(db) IN
    <<PostFlagged(review, "content_filter", post, a, db.now)>>
    \o IF public
       THEN nativeGeneratedSystemPostEvents(db, a, FilterBoard, <<"filterlog", review>>,
                                            <<"filterpost", review>>, TRUE)
       ELSE <<>>

nativeAutomodActionEvents(db, action, i, duration, a, post, t, b) ==
    CASE action = "manual_review" ->
            <<PostFlagged(<<"rev", db.cmd, i>>, "automod", post, "automod", db.now)>>
      [] action = "redact" -> <<PostRedacted(post, "automod", "", db.now)>>
      [] action = "lock_thread" -> <<ThreadLocked(t, TRUE, db.now)>>
      [] action \in {"board_mute", "board_ban", "global_mute"} ->
            <<UserSanctioned(a, IF action = "board_ban" THEN "ban" ELSE "mute",
                             IF action = "global_mute" THEN "global" ELSE b,
                             duration, "automod", db.now)>>
      [] OTHER -> <<>>

nativeAutomodEvents(db, a, post, t, b, text) ==
    LET fired == evaluateBoardAutomod(db, b, text, a)
        rule == CHOOSE r \in fired : TRUE
        r == db.rules[rule]
        step(evs, i) ==
            LET act == nativeAutomodActionEvents(db, r.actions[i], i, r.duration, a, post, t, b)
            IN IF act = <<>> THEN evs
               ELSE evs \o act \o <<BoardAutomodTriggered(<<"amlog", db.cmd, i>>, b, rule,
                                                          r.actions[i], a, post, db.now)>>
    IN IF fired = {} THEN <<>> ELSE FoldLeftDomain(step, <<>>, r.actions)

nativeModerationOfPost(db, a, b, t, id, text) ==
    (IF MatchContentFilter(db, b, text)
     THEN nativeContentFilterReviewEvents(db, a, id, "member_read" \notin GetBoardSettings(db, b))
     ELSE <<>>)
    \o nativeAutomodEvents(db, a, id, t, b, text)

nativeArticleMailBackEvent(db, a, author, target) ==
    IF ~ArticleMailBackDue(db, a, author, target) THEN <<>>
    ELSE <<NewMailSent(NewID(db, "mail"), author, {db.posts[target].author}, NoId, FALSE, {}, db.now)>>

decideCreateThread(db, a, p) ==
    LET t == NewID(db, "thr")
        id == NewID(db, "pst")
        author == PostIdentity(a, p.anon)
    IN IF ~createThreadAllowed(db, a, p) THEN Refuse
       ELSE Decide(<<ThreadNew(t, p.board, author, p.title, db.now),
                     PostAppended(p.board, id, t, author, CleanBody(p.body), p.body, NoId,
                                  AttachmentIDs(db, p.atts), NoId,
                                  PostCommitActorID(a, author), db.now)>>
                   \o nativeModerationOfPost(db, a, p.board, t, id, {p.title} \cup p.body))

decideAppendPost(db, a, p) ==
    LET id == NewID(db, "pst")
        b == db.threads[p.thread].board
        author == PostIdentity(a, p.anon)
        raw == QuotedBody(db, p.replyTo, p.quote, p.body)
    IN IF ~appendPostAllowed(db, a, p) THEN Refuse
       ELSE Decide(<<[PostAppended(b, id, p.thread, author, CleanBody(raw), raw,
                                   EffectiveReplyTo(db, p.replyTo), AttachmentIDs(db, p.atts),
                                   NoId, PostCommitActorID(a, author), db.now)
                      EXCEPT !.said = CleanBody(p.body)]>>
                   \o nativeModerationOfPost(db, a, b, p.thread, id, raw)
                   \o nativeArticleMailBackEvent(db, a, author,
                                                 MailBackTarget(db, p.thread, p.replyTo)))

decideRepostPost(db, a, p) ==
    LET t == NewID(db, "thr")
        id == NewID(db, "pst")
        body == FormatRepostBody(db, p.post)
    IN IF ~repostPostAllowed(db, a, p) THEN Refuse
       ELSE Decide(<<ThreadNew(t, p.board, a, RepostTitle(db, p), db.now),
                     PostAppended(p.board, id, t, a, body, body, NoId, {}, p.post, "", db.now)>>
                   \o nativeModerationOfPost(db, a, p.board, t, id, {RepostTitle(db, p)} \cup body))

\* A reply by mail neither answers nor quotes a post, and is never anonymous.
decidePostBoardMailAppend(db, a, p) ==
    LET id == NewID(db, "pst")
        b == db.threads[p.thread].board
    IN IF ~appendPostAllowed(db, a, BoardMailReply(p)) THEN Refuse
       ELSE Decide(<<PostAppended(b, id, p.thread, a, CleanBody(p.body), p.body, NoId,
                                  AttachmentIDs(db, p.atts), NoId, "", db.now)>>
                   \o nativeModerationOfPost(db, a, b, p.thread, id, p.body)
                   \o nativeArticleMailBackEvent(db, a, a, MailBackTarget(db, p.thread, NoId)))

decidePostBoardMail(db, a, p) ==
    IF ~postBoardMailAllowed(db, a, p) THEN Refuse
    ELSE IF p.thread # NoId THEN decidePostBoardMailAppend(db, a, p)
    ELSE decideCreateThread(db, a, BoardMailThread(p))
=============================================================================
