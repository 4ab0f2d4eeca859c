------------------------------- MODULE Forum -------------------------------
(***************************************************************************)
(* The tables of the forum and what reads and writes them.  A database is  *)
(* one record, db, with a field per table; db.log is the events table, so  *)
(* that an event's sequence number is its index.  A query is an operator   *)
(* on db, a mutation of internal/core/projections an operator from db to   *)
(* db, and a command (in the modules that extend this one) an operator     *)
(* from db, the actor and the payload to db.                               *)
(*                                                                         *)
(* A text is the set of the tokens it contains: a content filter or an     *)
(* automod rule looks for a token, the identifier of a user is a mention   *)
(* of the user, "poll" is the markup of a poll, "quote" that of a quoted   *)
(* text.  The author "" is the anonymous author, for whom the code stores  *)
(* an empty author id.  An id is a tuple that starts with its kind and     *)
(* holds the number of the command that made it; db.cmd is the number of   *)
(* the command being executed.  Wording, signatures and update times are   *)
(* left out.                                                               *)
(***************************************************************************)
EXTENDS Integers, FiniteSets, SequencesExt

CONSTANTS
    EditWindow,      \* the author edit window, in ticks of the clock
    MaxAttachments,  \* attachments a post or a mail may carry
    MailQuota,       \* mail a user may hold, in units of one message
    PollSpan         \* how long a brief poll is open

ASSUME LimitsAssumption ==
    /\ EditWindow \in Nat /\ MaxAttachments \in Nat
    /\ MailQuota \in Nat /\ PollSpan \in Nat

---------------------------------------------------------------------------
\* Rows: inserting or replacing one, deleting some.

Put(f, k, v) == [x \in DOMAIN f \cup {k} |-> IF x = k THEN v ELSE f[x]]
Drop(f, ks) == [x \in DOMAIN f \ ks |-> f[x]]
Change(f, k, g(_)) == [x \in DOMAIN f |-> IF x = k THEN g(f[x]) ELSE f[x]]
NoRows == [x \in {} |-> x]

NoId == <<"none", 0>>
NewID(db, kind) == <<kind, db.cmd>>

\* What a command answers: the database it leaves, or a refusal.
Ack(db) == [ok |-> TRUE, db |-> db]
Refused(db) == [ok |-> FALSE, db |-> db]
\* What a decider answers: the events to append, or a refusal.
Decide(evs) == [ok |-> TRUE, evs |-> evs]
Refuse == [ok |-> FALSE, evs |-> <<>>]

appendEvent(db, e) == [db EXCEPT !.log = Append(@, e)]
LastSeq(db) == Len(db.log)

---------------------------------------------------------------------------
\* Roles, board capabilities, settings, sanctions.

IsAdmin(db, u) == db.role[u] = "admin"
IsMod(db, u) == db.role[u] \in {"moderator", "admin"}

ActorCanModerateBoard(db, u, b) == IsMod(db, u) \/ <<b, u>> \in DOMAIN db.moderators

BoardMemberPermission(db, b, u, cap) ==
    <<b, u>> \in DOMAIN db.members /\ cap \in db.members[<<b, u>>].perms

ActorHasBoardCapability(db, u, b, cap) ==
    ActorCanModerateBoard(db, u, b) \/ BoardMemberPermission(db, b, u, cap)

ActorCanModerateBoardThreads(db, u, b) == ActorHasBoardCapability(db, u, b, "threads")
ActorCanModerateBoardPosts(db, u, b) == ActorHasBoardCapability(db, u, b, "posts")
ActorCanCurateBoard(db, u, b) == ActorHasBoardCapability(db, u, b, "curate")

ActorCanUseMemberBoard(db, u, b) ==
    ActorCanModerateBoard(db, u, b) \/ <<b, u>> \in DOMAIN db.members

\* The settings that are on; a board without a row has the defaults.
GetBoardSettings(db, b) == IF b \in DOMAIN db.settings THEN db.settings[b] ELSE {"zap"}

BoardAllowsPublicSystemPost(db, b) == "member_read" \notin GetBoardSettings(db, b)

ActiveSanctionKind(db, u, b) ==
    \E i \in DOMAIN db.sanctions :
        LET s == db.sanctions[i] IN
        /\ s.user = u
        /\ s.scope \in {b, "global"}
        /\ s.expires = 0 \/ s.expires > db.now

WithinAuthorEditWindow(db, createdAt) == db.now - createdAt < EditWindow

---------------------------------------------------------------------------
\* Threads and posts.

InsertThread(db, id, b, author, title, ts, seq) ==
    [db EXCEPT !.threads = Put(@, id,
        [board |-> b, author |-> author, title |-> title, locked |-> FALSE,
         count |-> 0, lastSeq |-> seq, createdAt |-> ts])]

InsertPost(db, id, row) == [db EXCEPT !.posts = Put(@, id, row)]

\* A new row of posts.
PostRow(thread, author, body, replyTo, flags, source, ts, seq) ==
    [thread |-> thread, author |-> author, body |-> body, replyTo |-> replyTo,
     version |-> 1, redacted |-> FALSE, flags |-> flags, source |-> source,
     createdAt |-> ts, seq |-> seq]

InsertPostAttachment(db, id, post) == [db EXCEPT !.atts = Put(@, id, post)]
CountPostAttachments(db, post) == Cardinality({a \in DOMAIN db.atts : db.atts[a] = post})

BumpThread(db, t, seq) ==
    [db EXCEPT !.threads = Change(@, t, LAMBDA r : [r EXCEPT !.count = @ + 1, !.lastSeq = seq])]

UpdatePostBody(db, p, body) ==
    [db EXCEPT !.posts = Change(@, p, LAMBDA r : [r EXCEPT !.body = body, !.version = @ + 1])]

MarkPostRedacted(db, p) ==
    [db EXCEPT !.posts = Change(@, p, LAMBDA r : [r EXCEPT !.redacted = TRUE])]

MarkPostRestored(db, p) ==
    [db EXCEPT !.posts = Change(@, p, LAMBDA r : [r EXCEPT !.redacted = FALSE])]

MarkPostPurged(db, p) ==
    [db EXCEPT !.posts = Change(@, p, LAMBDA r : [r EXCEPT !.body = {}, !.redacted = TRUE])]

RecordPostDeletion(db, p, thread, board, by, kind) ==
    [db EXCEPT !.deletions = Put(@, p,
        [thread |-> thread, board |-> board, by |-> by, at |-> LastSeq(db),
         kind |-> IF kind = "junk" THEN "junk" ELSE "recycle"])]

ClearPostDeletion(db, p) == [db EXCEPT !.deletions = Drop(@, {p})]

SetPostFlags(db, p, flags) ==
    [db EXCEPT !.posts = Change(@, p, LAMBDA r : [r EXCEPT !.flags = flags])]

SetThreadLocked(db, t, locked) ==
    [db EXCEPT !.threads = Change(@, t, LAMBDA r : [r EXCEPT !.locked = locked])]

SetThreadTitle(db, t, title) ==
    [db EXCEPT !.threads = Change(@, t, LAMBDA r : [r EXCEPT !.title = title])]

MoveThreadBoard(db, t, b) ==
    [db EXCEPT !.threads = Change(@, t, LAMBDA r : [r EXCEPT !.board = b])]

\* The first post of a thread.
ThreadPosts(db, t) == {p \in DOMAIN db.posts : db.posts[p].thread = t}
ThreadRootPostID(db, t) ==
    CHOOSE p \in ThreadPosts(db, t) :
        \A q \in ThreadPosts(db, t) : db.posts[p].seq <= db.posts[q].seq
ThreadRootReplyGuards(db, t) ==
    IF ThreadPosts(db, t) = {} THEN {} ELSE db.posts[ThreadRootPostID(db, t)].flags

---------------------------------------------------------------------------
\* The full text index.

FtsInsertPost(db, p, b, body) ==
    [db EXCEPT !.fts = Put(@, p, [board |-> b, body |-> body])]

FtsUpdatePost(db, p, body) ==
    [db EXCEPT !.fts = Change(@, p, LAMBDA r : [r EXCEPT !.body = body])]

FtsDeletePost(db, p) == [db EXCEPT !.fts = Drop(@, {p})]

\* The handlers write it in their transactions, unless a processor does so.
WrittenInline(db) == db.search = "inline"
commandFtsInsertPost(db, p, b, body) == IF WrittenInline(db) THEN FtsInsertPost(db, p, b, body) ELSE db
commandFtsUpdatePost(db, p, body) == IF WrittenInline(db) THEN FtsUpdatePost(db, p, body) ELSE db
commandFtsDeletePost(db, p) == IF WrittenInline(db) THEN FtsDeletePost(db, p) ELSE db

---------------------------------------------------------------------------
\* The two feeds of posts, derived from posts and threads.

FeedRow(db, p) ==
    [thread |-> db.posts[p].thread, board |-> db.threads[db.posts[p].thread].board]

FeedSelects(db, p) ==
    /\ p \in DOMAIN db.posts
    /\ ~db.posts[p].redacted
    /\ db.posts[p].thread \in DOMAIN db.threads

UpsertResidentFeedPost(db, p) ==
    IF FeedSelects(db, p) THEN [db EXCEPT !.resident = Put(@, p, FeedRow(db, p))] ELSE db

DeleteResidentFeedPost(db, p) == [db EXCEPT !.resident = Drop(@, {p})]

MoveResidentFeedThread(db, t, b) ==
    [db EXCEPT !.resident =
        [p \in DOMAIN @ |-> IF @[p].thread = t THEN [@[p] EXCEPT !.board = b] ELSE @[p]]]

UpsertLatestFeedPost(db, p) ==
    IF FeedSelects(db, p) THEN [db EXCEPT !.latest = Put(@, p, FeedRow(db, p))] ELSE db

DeleteLatestFeedPost(db, p) == [db EXCEPT !.latest = Drop(@, {p})]

MoveLatestFeedThread(db, t, b) ==
    [db EXCEPT !.latest =
        [p \in DOMAIN @ |-> IF @[p].thread = t THEN [@[p] EXCEPT !.board = b] ELSE @[p]]]

\* The feed processors: one event of the log, applied to a feed.
ApplyResidentFeedEvent(db, e) ==
    CASE e.k \in {"postAppended", "postRestored"} -> UpsertResidentFeedPost(db, e.id)
      [] e.k \in {"postRedacted", "postPurged"} -> DeleteResidentFeedPost(db, e.id)
      [] e.k = "threadMoved" -> MoveResidentFeedThread(db, e.id, e.to)
      [] OTHER -> db

ApplyLatestFeedEvent(db, e) ==
    CASE e.k \in {"postAppended", "postRestored"} -> UpsertLatestFeedPost(db, e.id)
      [] e.k \in {"postRedacted", "postPurged"} -> DeleteLatestFeedPost(db, e.id)
      [] e.k = "threadMoved" -> MoveLatestFeedThread(db, e.id, e.to)
      [] OTHER -> db

---------------------------------------------------------------------------
\* Rows that a post brings with it.

InsertRelayDelivery(db, p, board) ==
    IF p \in DOMAIN db.relay THEN db ELSE [db EXCEPT !.relay = Put(@, p, board)]

\* A poll without an end has the end 0; a brief one ends some time after its
\* markup was read (ParsePollExpires).
ParsePollExpires(db, raw) == IF "brief" \in raw THEN db.now + PollSpan ELSE 0
InsertPoll(db, poll, post, raw) ==
    [db EXCEPT !.polls = Put(@, poll, [post |-> post, expires |-> ParsePollExpires(db, raw)])]

InsertNotification(db, id, user, kind, post, from) ==
    IF id \in DOMAIN db.notes THEN db
    ELSE [db EXCEPT !.notes = Put(@, id,
             [user |-> user, kind |-> kind, post |-> post, from |-> from, read |-> FALSE])]

EnqueueOutboxJob(db, post, actor, body) ==
    [db EXCEPT !.jobs = Append(@, [post |-> post, actor |-> actor, body |-> body])]

\* Level 4 is granted by hand and kept.
ComputeTrustLevel(posts, days, level) ==
    CASE level >= 4 -> level
      [] level < 4 /\ days >= 100 /\ posts >= 50 -> 3
      [] level < 4 /\ ~(days >= 100 /\ posts >= 50) /\ days >= 30 /\ posts >= 15 -> 2
      [] OTHER -> IF posts >= 1 THEN 1 ELSE 0

\* One more post of u.  All the posts of a run are made on one day, on which
\* everyone with a row has been there before: the days visited stay the same.
RecordPostCreated(db, u) ==
    LET n == db.created[u] + 1
        days == Max({1, db.days[u]})
    IN [db EXCEPT !.created[u] = n, !.days[u] = days,
                  !.trust[u] = ComputeTrustLevel(n, days, @)]

---------------------------------------------------------------------------
\* Mail: a message and the copies its users hold, keyed <<message, user, role>>.

InsertMailMessage(db, id, from, parent) ==
    [db EXCEPT !.mail = Put(@, id, [from |-> from, parent |-> parent])]

InsertMailCopy(db, id, u, role, mailbox, read) ==
    [db EXCEPT !.copies = Put(@, <<id, u, role>>,
        [mailbox |-> mailbox, read |-> read, kept |-> FALSE])]

\* Messages in the trash do not count; a message counts one, and one more for
\* each attachment.
MailUsedBytes(db, u) ==
    LET held == {c \in DOMAIN db.copies : c[2] = u /\ db.copies[c].mailbox # "trash"}
    IN Cardinality(held)
       + Cardinality({<<c, i>> \in held \X DOMAIN db.mailAtts : db.mailAtts[i] = c[1]})

MailQuotaAllows(db, u, added) == added <= 0 \/ MailUsedBytes(db, u) + added <= MailQuota

UserRelationshipExists(db, u, v, kind) == <<u, v, kind>> \in db.rels

---------------------------------------------------------------------------
\* Moderation.

InsertModerationReview(db, id, kind, post, reporter) ==
    [db EXCEPT !.reviews = Put(@, id,
        [kind |-> kind, post |-> post, reporter |-> reporter, status |-> "open", by |-> ""])]

\* Fails (sql.ErrNoRows) when no open review has the id.
ReviewIsOpen(db, id) == id \in DOMAIN db.reviews /\ db.reviews[id].status = "open"
ResolveModerationReview(db, id, resolution, by) ==
    [db EXCEPT !.reviews =
        Change(@, id, LAMBDA r : [r EXCEPT !.status = resolution, !.by = by])]

UpsertContentFilter(db, id, row) == [db EXCEPT !.filters = Put(@, id, row)]

UpsertBoardAutomodRule(db, id, row) ==
    [db EXCEPT !.rules = Put(@, id,
        IF id \in DOMAIN @ THEN [row EXCEPT !.board = db.rules[id].board] ELSE row)]

DeleteBoardAutomodRule(db, id, b) ==
    [db EXCEPT !.rules = Drop(@, {r \in DOMAIN @ : r = id /\ @[r].board = b})]

InsertAutomodAuditLog(db, id, row) == [db EXCEPT !.audit = Put(@, id, row)]

InsertSanction(db, id, u, kind, scope, expires, by) ==
    [db EXCEPT !.sanctions = Put(@, id,
        [user |-> u, kind |-> kind, scope |-> scope, expires |-> expires, by |-> by])]

SanctionsMatching(db, u, kind, scope) ==
    {i \in DOMAIN db.sanctions :
        LET s == db.sanctions[i] IN
        s.user = u /\ s.scope = scope /\ (kind = "" \/ s.kind = kind)}

ClearUserSanctions(db, u, kind, scope) ==
    [db EXCEPT !.sanctions = Drop(@, SanctionsMatching(db, u, kind, scope))]

SetUserRole(db, u, role) == [db EXCEPT !.role = Change(@, u, LAMBDA r : role)]

\* The category of a board keeps the time at which it was first made.
InsertBoard(db, b, parent) ==
    [db EXCEPT !.boards = Put(@, b, parent),
               !.boardAt = IF b \in DOMAIN @ THEN @ ELSE Put(@, b, db.now)]
=============================================================================
