----------------------------- MODULE ForumRules -----------------------------
(***************************************************************************)
(* What the commands on threads and posts share: the payloads of their     *)
(* events (internal/core/commandevents) and the rules of                   *)
(* internal/core/commandrules and its models, which both the handler and   *)
(* the broker-native decider call.  A rule is the condition under which    *)
(* the command goes on; error codes and their order are left out, since a  *)
(* refused command changes nothing.                                        *)
(***************************************************************************)
EXTENDS Forum

CONSTANTS
    ModerationBoard,  \* the system board of the moderation log
    FilterBoard       \* the system board of content filter reviews

HasPoll(body) == "poll" \in body
CleanBody(body) == body \ {"poll"}

---------------------------------------------------------------------------
\* Event payloads (internal/core/commandevents).

ThreadNew(id, b, author, title, ts) ==
    [k |-> "threadNew", id |-> id, board |-> b, author |-> author, title |-> title, ts |-> ts]

\* by is the actor of an anonymous post and said the body without the text it
\* quotes; only the native decider records them.
PostAppended(b, id, thread, author, body, raw, replyTo, atts, source, by, ts) ==
    [k |-> "postAppended", id |-> id, board |-> b, thread |-> thread, author |-> author,
     body |-> body, raw |-> raw, replyTo |-> replyTo, atts |-> atts, source |-> source,
     by |-> by, said |-> CleanBody(raw), ts |-> ts]

PostAttachmentAdded(id, post, ts) ==
    [k |-> "postAttachmentAdded", id |-> id, post |-> post, ts |-> ts]
PostEdited(id, body, ts) == [k |-> "postEdited", id |-> id, body |-> body, ts |-> ts]
PostFlagsSet(id, flags, ts) == [k |-> "postFlagsSet", id |-> id, flags |-> flags, ts |-> ts]
PostRedacted(id, by, kind, ts) ==
    [k |-> "postRedacted", id |-> id, by |-> by, kind |-> kind, ts |-> ts]
PostRestored(id, by, ts) == [k |-> "postRestored", id |-> id, by |-> by, ts |-> ts]
PostDeletionCleared(id, by, ts) == [k |-> "postDeletionCleared", id |-> id, by |-> by, ts |-> ts]
PostPurged(id, by, ts) == [k |-> "postPurged", id |-> id, by |-> by, ts |-> ts]
ThreadTitleSet(id, title, ts) == [k |-> "threadTitleSet", id |-> id, title |-> title, ts |-> ts]
ThreadLocked(id, locked, ts) == [k |-> "threadLocked", id |-> id, locked |-> locked, ts |-> ts]
ThreadMoved(id, to, ts) == [k |-> "threadMoved", id |-> id, to |-> to, ts |-> ts]
BoardCreated(b, parent, ts) == [k |-> "boardCreated", id |-> b, parent |-> parent, ts |-> ts]
PostFlagged(review, kind, post, reporter, ts) ==
    [k |-> "postFlagged", id |-> review, kind |-> kind, post |-> post, by |-> reporter, ts |-> ts]
UserSanctioned(u, kind, scope, duration, by, ts) ==
    [k |-> "userSanctioned", user |-> u, kind |-> kind, scope |-> scope,
     duration |-> duration, by |-> by, ts |-> ts]
BoardAutomodTriggered(id, b, rule, action, u, post, ts) ==
    [k |-> "automodTriggered", id |-> id, board |-> b, rule |-> rule, action |-> action,
     user |-> u, post |-> post, ts |-> ts]
NewMailSent(id, from, to, parent, saveSent, atts, ts) ==
    [k |-> "mailSent", id |-> id, from |-> from, to |-> to, parent |-> parent,
     saveSent |-> saveSent, atts |-> atts, ts |-> ts]

---------------------------------------------------------------------------
\* Rules (internal/core/commandrules, postmodel).

RequireMinTrustForPoll(db, a, body) == HasPoll(body) => db.trust[a] >= 2

ActorAuthoredBy(a, author) == author = a

MemberBoardAccess(db, a, b, modes) ==
    GetBoardSettings(db, b) \cap modes # {} => ActorCanUseMemberBoard(db, a, b)

RequireThreadCreationBoardAccess(db, a, b) ==
    /\ "read_only" \in GetBoardSettings(db, b) => ActorCanModerateBoard(db, a, b)
    /\ MemberBoardAccess(db, a, b, {"member_read", "member_post"})

RequireReplyBoardAccess(db, a, b) ==
    /\ GetBoardSettings(db, b) \cap {"read_only", "no_reply"} # {} => ActorCanModerateBoard(db, a, b)
    /\ MemberBoardAccess(db, a, b, {"member_read", "member_post"})

RequireMemberBoardReadAccess(db, a, b) == MemberBoardAccess(db, a, b, {"member_read"})

RequireThreadOpenForReply(db, a, t) ==
    db.threads[t].locked => ActorCanModerateBoard(db, a, db.threads[t].board)

RequireThreadStarterAcceptsReplies(db, a, t) ==
    "no_reply" \in ThreadRootReplyGuards(db, t) =>
        ActorCanModerateBoardThreads(db, a, db.threads[t].board)

NormalizePostAttachments(db, a, b, n) ==
    n > 0 => /\ n <= MaxAttachments
             /\ "attachments" \in GetBoardSettings(db, b) \/ ActorCanModerateBoard(db, a, b)

AnonymousAllowed(db, a, b, anon) ==
    anon => "anonymous" \in GetBoardSettings(db, b) \/ ActorCanModerateBoard(db, a, b)
PostIdentity(a, anon) == IF anon THEN "" ELSE a

\* A reply answers a post of its thread; an answer to an answer goes to the
\* post that was answered first.
ReplyTargetOK(db, a, t, replyTo, quote) ==
    IF replyTo = NoId THEN ~quote
    ELSE /\ replyTo \in DOMAIN db.posts
         /\ db.posts[replyTo].thread = t
         /\ quote => ~db.posts[replyTo].redacted
         /\ "no_reply" \in db.posts[replyTo].flags =>
                ActorCanModerateBoardThreads(db, a, db.threads[t].board)

EffectiveReplyTo(db, replyTo) ==
    IF replyTo # NoId /\ db.posts[replyTo].replyTo # NoId THEN db.posts[replyTo].replyTo ELSE replyTo

\* The post whose author is mailed: the parent, or the root of the thread.
MailBackTarget(db, t, replyTo) ==
    LET target == IF replyTo # NoId THEN replyTo
                  ELSE IF ThreadPosts(db, t) # {} THEN ThreadRootPostID(db, t) ELSE NoId
    IN IF target # NoId /\ "mail_back" \in db.posts[target].flags THEN target ELSE NoId

QuotedBody(db, replyTo, quote, body) ==
    IF quote THEN {"quote"} \cup db.posts[replyTo].body \cup body ELSE body

FormatRepostBody(db, source) == {"quote"} \cup db.posts[source].body

---------------------------------------------------------------------------
\* Content filters and automod.

MatchContentFilter(db, b, text) ==
    \E f \in DOMAIN db.filters :
        /\ db.filters[f].active
        /\ db.filters[f].scope \in {"global", b}
        /\ db.filters[f].pattern \in text

userExemptFromAutomod(db, b, u) ==
    \/ IsMod(db, u)
    \/ <<b, u>> \in DOMAIN db.moderators
    \/ BoardMemberPermission(db, b, u, "posts")
    \/ BoardMemberPermission(db, b, u, "threads")

automodRecentPostCount(db, b, u, since) ==
    Cardinality({p \in DOMAIN db.posts :
        /\ db.posts[p].author = u
        /\ db.posts[p].createdAt >= since
        /\ db.posts[p].thread \in DOMAIN db.threads
        /\ db.threads[db.posts[p].thread].board = b})

AutomodRuleMatches(db, r, b, text, u) ==
    CASE r.match = "content" -> r.pattern \in text
      [] r.match = "account_age" -> db.now - db.joined[u] < r.threshold
      [] r.match = "rate_threshold" ->
            /\ r.threshold >= 1 /\ r.window >= 1
            /\ automodRecentPostCount(db, b, u, db.now - r.window) >= r.threshold

\* The order of ListBoardAutomodRules: priority, then the latest update, then id.
RuleBefore(r, s, i, j) ==
    \/ r.priority < s.priority
    \/ r.priority = s.priority /\ r.updated > s.updated
    \/ r.priority = s.priority /\ r.updated = s.updated /\ i[2] <= j[2]

\* The rules that match, at most the first one of which fires.
evaluateBoardAutomod(db, b, text, u) ==
    LET Matching == {i \in DOMAIN db.rules :
            /\ db.rules[i].board = b
            /\ db.rules[i].enabled
            /\ AutomodRuleMatches(db, db.rules[i], b, text, u)}
    IN IF userExemptFromAutomod(db, b, u) THEN {}
       ELSE {i \in Matching :
                \A j \in Matching : RuleBefore(db.rules[i], db.rules[j], i, j)}
=============================================================================
