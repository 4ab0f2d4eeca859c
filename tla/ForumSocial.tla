----------------------------- MODULE ForumSocial -----------------------------
(***************************************************************************)
(* Direct messages, relationships, login watches, blessings and the        *)
(* notices of administrators.  A direct message has one row that two users *)
(* share, each with a flag of its own that hides it.  A login watch tells  *)
(* the watcher, once, that a friend is online.  Notes and the texts of     *)
(* messages are left out.                                                  *)
(*                                                                         *)
(* Of these handlers, those of settings, marks, deletions, relationships   *)
(* and login watches append no event; their deciders do.                   *)
(***************************************************************************)
EXTENDS ForumMail

CONSTANTS
    BlessingBoard,  \* the system board of blessings
    NoticeBoards    \* the boards a system notice may go to

\* user is the user whose partition the event belongs to.
DirectMessageSent(id, from, to, ts) ==
    [k |-> "dmSent", id |-> id, user |-> from, to |-> to, ts |-> ts]
DirectMessageRead(id, from, reader, ts) ==
    [k |-> "dmRead", id |-> id, user |-> from, reader |-> reader, ts |-> ts]
DirectMessageDeleted(id, from, sender, recipient, ts) ==
    [k |-> "dmDeleted", id |-> id, user |-> from, sender |-> sender, recipient |-> recipient, ts |-> ts]
DirectMessageSettingsSet(u, policy, ts) ==
    [k |-> "dmSettingsSet", user |-> u, policy |-> policy, ts |-> ts]
UserRelationshipSet(u, target, kind, active, ts) ==
    [k |-> "relationshipSet", user |-> u, target |-> target, kind |-> kind, active |-> active, ts |-> ts]
NotificationCreated(id, u, kind, from, ts) ==
    [k |-> "notificationCreated", id |-> id, user |-> u, kind |-> kind, from |-> from, ts |-> ts]
UserBlessed(id, from, to, ts) ==
    [k |-> "userBlessed", id |-> id, user |-> from, to |-> to, ts |-> ts]

---------------------------------------------------------------------------
\* sendDirectMessage(to)

\* A user without settings takes messages from everyone.
DirectMessageAllowed(db, recipient, sender) ==
    LET policy == IF recipient \in DOMAIN db.dmPolicy THEN db.dmPolicy[recipient] ELSE "all" IN
    /\ policy # "none"
    /\ policy = "friends" => UserRelationshipExists(db, recipient, sender, "friend")

ResolveDirectMessageRecipient(db, a, to) ==
    /\ to \in DOMAIN db.role
    /\ to # a => /\ ~UserRelationshipExists(db, to, a, "ignore")
                 /\ DirectMessageAllowed(db, to, a)

InsertDirectMessage(db, id, from, to) ==
    [db EXCEPT !.dms = Put(@, id, [from |-> from, to |-> to, read |-> FALSE,
                                   senderDeleted |-> FALSE, recipientDeleted |-> FALSE])]

sendDirectMessage(db, a, p) ==
    LET id == NewID(db, "dm") IN
    IF ~ResolveDirectMessageRecipient(db, a, p.to) THEN Refused(db)
    ELSE Ack(InsertDirectMessage(appendEvent(db, DirectMessageSent(id, a, p.to, db.now)), id, a, p.to))
decideSendDirectMessage(db, a, p) ==
    IF ~ResolveDirectMessageRecipient(db, a, p.to) THEN Refuse
    ELSE Decide(<<DirectMessageSent(NewID(db, "dm"), a, p.to, db.now)>>)
ApplyDirectMessageSentOK(db, e) == e.id \notin DOMAIN db.dms
applyDirectMessageSent(db, e) == InsertDirectMessage(db, e.id, e.user, e.to)

\* setDirectMessageSettings(policy)
SetDirectMessageSettings(db, u, policy) == [db EXCEPT !.dmPolicy = Put(@, u, policy)]
setDirectMessageSettings(db, a, p) == Ack(SetDirectMessageSettings(db, a, p.policy))
decideSetDirectMessageSettings(db, a, p) ==
    Decide(<<DirectMessageSettingsSet(a, p.policy, db.now)>>)
applyDirectMessageSettingsSet(db, e) == SetDirectMessageSettings(db, e.user, e.policy)

---------------------------------------------------------------------------
\* markDirectMessageRead(message), by its recipient
MayReadDirectMessage(db, u, id) ==
    id \in DOMAIN db.dms /\ db.dms[id].to = u /\ ~db.dms[id].recipientDeleted
MarkDirectMessageRead(db, u, id) ==
    IF MayReadDirectMessage(db, u, id)
    THEN [db EXCEPT !.dms = Change(@, id, LAMBDA r : [r EXCEPT !.read = TRUE])] ELSE db

markDirectMessageRead(db, a, p) ==
    IF MayReadDirectMessage(db, a, p.message) THEN Ack(MarkDirectMessageRead(db, a, p.message))
    ELSE Refused(db)
decideMarkDirectMessageRead(db, a, p) ==
    IF ~MayReadDirectMessage(db, a, p.message) THEN Refuse
    ELSE IF db.dms[p.message].read THEN Decide(<<>>)
    ELSE Decide(<<DirectMessageRead(p.message, db.dms[p.message].from, a, db.now)>>)
applyDirectMessageRead(db, e) == MarkDirectMessageRead(db, e.reader, e.id)

\* deleteDirectMessage(message), by either of its users, or by the one who is both
DeleteDirectMessageFlags(db, id, sender, recipient) ==
    [db EXCEPT !.dms = Change(@, id, LAMBDA r :
        [r EXCEPT !.senderDeleted = @ \/ sender, !.recipientDeleted = @ \/ recipient])]
IsSender(db, u, id) == id \in DOMAIN db.dms /\ db.dms[id].from = u
IsRecipient(db, u, id) == id \in DOMAIN db.dms /\ db.dms[id].to = u

deleteDirectMessage(db, a, p) ==
    LET m == p.message IN
    IF IsSender(db, a, m) \/ IsRecipient(db, a, m)
    THEN Ack(DeleteDirectMessageFlags(db, m, IsSender(db, a, m), IsRecipient(db, a, m)))
    ELSE Refused(db)
decideDeleteDirectMessage(db, a, p) ==
    LET m == p.message
        gone == /\ IsSender(db, a, m) => db.dms[m].senderDeleted
                /\ IsRecipient(db, a, m) => db.dms[m].recipientDeleted
    IN IF ~IsSender(db, a, m) /\ ~IsRecipient(db, a, m) THEN Refuse
       ELSE IF gone THEN Decide(<<>>)
       ELSE Decide(<<DirectMessageDeleted(m, db.dms[m].from, IsSender(db, a, m),
                                          IsRecipient(db, a, m), db.now)>>)
applyDirectMessageDeleted(db, e) == DeleteDirectMessageFlags(db, e.id, e.sender, e.recipient)

---------------------------------------------------------------------------
\* setUserRelationship(user, kind, active)
ResolveOtherUser(db, a, u) == u \in DOMAIN db.role \ {a}
SetUserRelationship(db, u, v, kind, active) ==
    [db EXCEPT !.rels = IF active THEN @ \cup {<<u, v, kind>>} ELSE @ \ {<<u, v, kind>>}]

setUserRelationship(db, a, p) ==
    IF ~ResolveOtherUser(db, a, p.user) THEN Refused(db)
    ELSE Ack(SetUserRelationship(db, a, p.user, p.kind, p.active))
decideSetUserRelationship(db, a, p) ==
    IF ~ResolveOtherUser(db, a, p.user) THEN Refuse
    ELSE IF ~p.active /\ ~UserRelationshipExists(db, a, p.user, p.kind) THEN Decide(<<>>)
    ELSE Decide(<<UserRelationshipSet(a, p.user, p.kind, p.active, db.now)>>)
applyUserRelationshipSet(db, e) == SetUserRelationship(db, e.user, e.target, e.kind, e.active)

\* setLoginWatch(user, active): one who is online is announced at once.  In
\* db.online are the users with a visible session seen in the last minutes.
UserRecentlyOnline(db, u) == u \in db.online
ValidateLoginWatchMutation(db, a, p) ==
    ResolveOtherUser(db, a, p.user) /\ (p.active => UserRelationshipExists(db, a, p.user, "friend"))
LoginNotice(db, id, watcher, u) == InsertNotification(db, id, watcher, "login", NoId, u)
LoginNoticeID(db, watcher) == <<"notif", db.cmd, watcher>>

setLoginWatch(db, a, p) ==
    LET online == p.active /\ UserRecentlyOnline(db, p.user)
        d1 == IF online THEN LoginNotice(db, LoginNoticeID(db, a), a, p.user) ELSE db
    IN IF ~ValidateLoginWatchMutation(db, a, p) THEN Refused(db)
       ELSE Ack(SetUserRelationship(d1, a, p.user, "login_watch", p.active /\ ~online))
decideSetLoginWatch(db, a, p) ==
    LET online == p.active /\ UserRecentlyOnline(db, p.user) IN
    IF ~ValidateLoginWatchMutation(db, a, p) THEN Refuse
    ELSE IF ~p.active /\ ~UserRelationshipExists(db, a, p.user, "login_watch") THEN Decide(<<>>)
    ELSE Decide((IF online
                 THEN <<NotificationCreated(LoginNoticeID(db, a), a, "login", p.user, db.now)>>
                 ELSE <<>>)
                \o <<UserRelationshipSet(a, p.user, "login_watch", p.active /\ ~online, db.now)>>)
applyNotificationCreated(db, e) == InsertNotification(db, e.id, e.user, e.kind, NoId, e.from)

\* What the login of u does to those who watch it.
ListLoginWatchers(db, u) ==
    {w \in DOMAIN db.role \ {u} :
        /\ UserRelationshipExists(db, w, u, "login_watch")
        /\ UserRelationshipExists(db, w, u, "friend")
        /\ ~UserRelationshipExists(db, w, u, "ignore")
        /\ ~UserRelationshipExists(db, u, w, "ignore")}
notifyLoginWatchers(db, u) ==
    FoldSet(LAMBDA w, d : SetUserRelationship(LoginNotice(d, LoginNoticeID(d, w), w, u),
                                              w, u, "login_watch", FALSE),
            db, ListLoginWatchers(db, u))

---------------------------------------------------------------------------
\* blessUser(user): once for each pair of users.  The public post is a second
\* transaction of the handler.
BlessingExists(db, from, to) ==
    \E i \in DOMAIN db.blessings : db.blessings[i].from = from /\ db.blessings[i].to = to
ValidateBlessUserMutation(db, a, u) ==
    /\ ResolveOtherUser(db, a, u)
    /\ ~UserRelationshipExists(db, u, a, "ignore")
    /\ ~BlessingExists(db, a, u)
InsertBlessing(db, id, from, to, ts) ==
    [db EXCEPT !.blessings = Put(@, id, [from |-> from, to |-> to, at |-> ts])]

BlessingThread(id) == <<"blessing thr", id>>
BlessingPost(id) == <<"blessing pst", id>>
ensureBlessingSystemPost(db, a, id) ==
    IF BlessingThread(id) \in DOMAIN db.threads THEN db
    ELSE appendGeneratedSystemPostTx(db, a, BlessingBoard, BlessingThread(id), BlessingPost(id))
nativeBlessingSystemLogEvents(db, a, id) ==
    IF BlessingThread(id) \in DOMAIN db.threads THEN <<>>
    ELSE nativeGeneratedSystemPostEvents(db, a, BlessingBoard, BlessingThread(id),
                                         BlessingPost(id), FALSE)

blessUser(db, a, p) ==
    LET id == NewID(db, "bless") IN
    IF ~ValidateBlessUserMutation(db, a, p.user) THEN Refused(db)
    ELSE Ack(ensureBlessingSystemPost(
                 InsertBlessing(appendEvent(db, UserBlessed(id, a, p.user, db.now)), id, a, p.user, db.now),
                 a, id))
decideBlessUser(db, a, p) ==
    LET id == NewID(db, "bless") IN
    IF ~ValidateBlessUserMutation(db, a, p.user) THEN Refuse
    ELSE Decide(<<UserBlessed(id, a, p.user, db.now)>> \o nativeBlessingSystemLogEvents(db, a, id))
ApplyUserBlessedOK(db, e) == e.id \notin DOMAIN db.blessings
applyUserBlessed(db, e) == InsertBlessing(db, e.id, e.user, e.to, e.ts)

\* publishSystemNotice(board), by an administrator
publishSystemNotice(db, a, p) ==
    IF ~IsAdmin(db, a) \/ p.board \notin NoticeBoards THEN Refused(db)
    ELSE Ack(appendGeneratedSystemPostTx(db, a, p.board, NewID(db, "notice thr"),
                                         NewID(db, "notice pst")))
decidePublishSystemNotice(db, a, p) ==
    IF ~IsAdmin(db, a) \/ p.board \notin NoticeBoards THEN Refuse
    ELSE IF NewID(db, "notice thr") \in DOMAIN db.threads THEN Decide(<<>>)
    ELSE Decide(nativeGeneratedSystemPostEvents(db, a, p.board, NewID(db, "notice thr"),
                                                NewID(db, "notice pst"), FALSE))
=============================================================================
