------------------------------ MODULE ForumMail ------------------------------
(***************************************************************************)
(* Mail between users: a message, the copies its users hold, its           *)
(* attachments, and the groups of recipients a user keeps.  A mailbox has  *)
(* a quota; what lies in the trash does not count.  Subjects and bodies    *)
(* are left out: a forwarded message is another message, and a message     *)
(* that is posted to a board is the text {"mail"}.                         *)
(*                                                                         *)
(* The handlers of setMailGroup, deleteMailGroup, updateMail, deleteMail   *)
(* and deleteMailRange change their tables and append no event; their      *)
(* deciders append one, and the projection follows it.                     *)
(***************************************************************************)
EXTENDS ForumDigest

CONSTANTS
    SysmailBoard,         \* the system board of mail to everyone
    MaxRecipientsPerSend  \* recipients a message may name, unless it goes to all

SysmailSettings == {"read_only", "no_reply", "member_read", "member_post", "stats_excluded", "zap"}

MailAttachmentAdded(id, mail, by, ts) ==
    [k |-> "mailAttachmentAdded", id |-> id, mail |-> mail, user |-> by, ts |-> ts]
MailGroupSet(id, row, ts) ==
    [k |-> "mailGroupSet", id |-> id, user |-> row.user, row |-> row, ts |-> ts]
MailGroupDeleted(id, owner, ts) ==
    [k |-> "mailGroupDeleted", id |-> id, user |-> owner, ts |-> ts]
\* holder's copies of the message; user, the sender, gives it its partition.
MailCopyUpdated(mail, holder, from, patch, ts) ==
    [k |-> "mailCopyUpdated", id |-> mail, holder |-> holder, user |-> from, row |-> patch, ts |-> ts]

---------------------------------------------------------------------------
\* Rows.

InsertMailAttachment(db, id, mail) == [db EXCEPT !.mailAtts = Put(@, id, mail)]
insertMailAttachments(db, mail, ids) ==
    FoldSet(LAMBDA i, d : InsertMailAttachment(d, i, mail), db, ids)
CountMailAttachments(db, mail) ==
    Cardinality({i \in DOMAIN db.mailAtts : db.mailAtts[i] = mail})
MailStoredSize(db, mail) == 1 + CountMailAttachments(db, mail)

CopiesOf(db, u, mail) == {c \in DOMAIN db.copies : c[1] = mail /\ c[2] = u}
UserHasMailCopy(db, u, mail) == CopiesOf(db, u, mail) # {}
TrashedMailCopyCount(db, u, mail) ==
    Cardinality({c \in CopiesOf(db, u, mail) : db.copies[c].mailbox = "trash"})
ActiveMailCopyCounts(db, mail) ==
    [u \in {c[2] : c \in {x \in DOMAIN db.copies : x[1] = mail /\ db.copies[x].mailbox # "trash"}} |->
        Cardinality(CopiesOf(db, u, mail)) - TrashedMailCopyCount(db, u, mail)]

\* A patch is a record with some of the fields mailbox, read, kept.
Patched(row, patch) == [f \in DOMAIN row |-> IF f \in DOMAIN patch THEN patch[f] ELSE row[f]]
UpdateMailCopy(db, u, mail, patch) ==
    [db EXCEPT !.copies = [c \in DOMAIN @ |->
        IF c \in CopiesOf(db, u, mail) THEN Patched(@[c], patch) ELSE @[c]]]

UserMailGroups(db, u) == {g \in DOMAIN db.groups : db.groups[g].user = u}
MailGroupIDByName(db, u, name) == {g \in UserMailGroups(db, u) : db.groups[g].name = name}
SetMailGroup(db, id, row) == [db EXCEPT !.groups = Put(@, id, row)]
DeleteMailGroup(db, u, id) == [db EXCEPT !.groups = Drop(@, {id} \cap UserMailGroups(db, u))]

---------------------------------------------------------------------------
\* Recipients (commandrules/mail_rules.go).  p: to, a set of users; groups, a
\* set of groups of the actor; friends; all; replyTo; saveSent; atts.

ListFriendUserIDs(db, u) == {v \in DOMAIN db.role : UserRelationshipExists(db, u, v, "friend")}

ExpandMailRecipients(db, a, p) ==
    IF p.all THEN DOMAIN db.role \ {a}
    ELSE p.to \cup UNION {db.groups[g].members : g \in p.groups}
         \cup (IF p.friends THEN ListFriendUserIDs(db, a) ELSE {})

ExpandMailRecipientsOK(db, a, p) ==
    IF p.all THEN IsAdmin(db, a) /\ DOMAIN db.role # {a}
    ELSE /\ p.groups \subseteq UserMailGroups(db, a)
         /\ ExpandMailRecipients(db, a, p) # {}
         /\ Cardinality(ExpandMailRecipients(db, a, p)) <= MaxRecipientsPerSend

ResolveMailRecipientsOK(db, a, to, all) ==
    \A u \in to : /\ u \in DOMAIN db.role
                  /\ ~all /\ u # a => ~UserRelationshipExists(db, u, a, "ignore")

MailCopyCounts(to, a, saveSent) ==
    [u \in to \cup (IF saveSent THEN {a} ELSE {}) |->
        (IF u \in to THEN 1 ELSE 0) + (IF saveSent /\ u = a THEN 1 ELSE 0)]

EnsureMailQuota(db, counts, size) ==
    \A u \in DOMAIN counts : MailQuotaAllows(db, u, counts[u] * size)

sendMailAllowed(db, a, p) ==
    LET to == ExpandMailRecipients(db, a, p) IN
    /\ ExpandMailRecipientsOK(db, a, p)
    /\ p.atts <= MaxAttachments
    /\ ResolveMailRecipientsOK(db, a, to, p.all)
    /\ EnsureMailQuota(db, MailCopyCounts(to, a, p.saveSent), 1 + p.atts)
    /\ p.replyTo # NoId => UserHasMailCopy(db, a, p.replyTo)

MailAttachmentIDs(db, n) == {<<"matt", db.cmd, i>> : i \in 1..n}

---------------------------------------------------------------------------
\* sendMail: a copy for each recipient, one for the sender who keeps it, and
\* for mail to everyone a notice on the system board, which it closes.

ensureSysmailBoardSettingsTx(db) == [db EXCEPT !.settings = Put(@, SysmailBoard, SysmailSettings)]

SysmailThread(mail) == <<"sysmail thr", mail>>
SysmailPost(mail) == <<"sysmail pst", mail>>

appendSysmailSystemPostTx(db, a, mail) ==
    IF SysmailThread(mail) \in DOMAIN db.threads THEN db
    ELSE ensureSysmailBoardSettingsTx(
             appendGeneratedSystemPostTx(db, a, SysmailBoard, SysmailThread(mail), SysmailPost(mail)))

insertMailCopies(db, e) ==
    LET d1 == FoldSet(LAMBDA u, d : InsertMailCopy(d, e.id, u, "recipient", "inbox", FALSE), db, e.to)
    IN IF e.saveSent THEN InsertMailCopy(d1, e.id, e.from, "sender", "sent", TRUE) ELSE d1

MailSentBy(db, a, p) ==
    NewMailSent(NewID(db, "mail"), a, ExpandMailRecipients(db, a, p), p.replyTo, p.saveSent,
                MailAttachmentIDs(db, p.atts), db.now)

sendMail(db, a, p) ==
    IF ~sendMailAllowed(db, a, p) THEN Refused(db)
    ELSE LET e == MailSentBy(db, a, p)
             d1 == InsertMailMessage(appendEvent(db, e), e.id, a, p.replyTo)
             d2 == insertMailCopies(insertMailAttachments(d1, e.id, e.atts), e)
         IN Ack(IF p.all THEN appendSysmailSystemPostTx(d2, a, e.id) ELSE d2)

nativeSysmailSystemLogEvents(db, a, mail) ==
    IF SysmailThread(mail) \in DOMAIN db.threads THEN <<>>
    ELSE nativeGeneratedSystemPostEvents(db, a, SysmailBoard, SysmailThread(mail),
                                         SysmailPost(mail), FALSE)

decideSendMailPayload(db, a, p) ==
    IF ~sendMailAllowed(db, a, p) THEN Refuse
    ELSE LET e == MailSentBy(db, a, p) IN
         Decide(<<e>> \o IF p.all THEN nativeSysmailSystemLogEvents(db, a, e.id) ELSE <<>>)

ApplyMailSentOK(db, e) == e.id \notin DOMAIN db.mail /\ e.atts \cap DOMAIN db.mailAtts = {}
applyMailSent(db, e) ==
    insertMailCopies(insertMailAttachments(InsertMailMessage(db, e.id, e.from, e.parent),
                                           e.id, e.atts), e)

---------------------------------------------------------------------------
\* Mail made from something else: what remains is sendMail.

NoAttachments(p) == [p EXCEPT !.atts = 0, !.replyTo = NoId]

\* forwardMail(mail, recipients as in sendMail)
forwardMail(db, a, p) ==
    IF ~UserHasMailCopy(db, a, p.mail) THEN Refused(db) ELSE sendMail(db, a, NoAttachments(p))
decideForwardMail(db, a, p) ==
    IF ~UserHasMailCopy(db, a, p.mail) THEN Refuse ELSE decideSendMailPayload(db, a, NoAttachments(p))

\* sendDigestEntryMail(entry, recipients)
sendDigestEntryMailAllowed(db, a, p) ==
    p.entry \in DOMAIN db.entries /\ RequireMemberBoardReadAccess(db, a, db.entries[p.entry].board)
sendDigestEntryMail(db, a, p) ==
    IF ~sendDigestEntryMailAllowed(db, a, p) THEN Refused(db) ELSE sendMail(db, a, NoAttachments(p))
decideSendDigestEntryMail(db, a, p) ==
    IF ~sendDigestEntryMailAllowed(db, a, p) THEN Refuse
    ELSE decideSendMailPayload(db, a, NoAttachments(p))

\* mailPostAuthor(post, saveSent)
mailPostAuthorAllowed(db, a, p) ==
    /\ PostExists(db, p.post) /\ ~db.posts[p.post].redacted
    /\ RequireMemberBoardReadAccess(db, a, PostBoard(db, p.post))
    /\ db.posts[p.post].author # ""
MailPostAuthorSendPayload(db, p) ==
    [to |-> {db.posts[p.post].author}, groups |-> {}, friends |-> FALSE, all |-> FALSE,
     replyTo |-> NoId, saveSent |-> p.saveSent, atts |-> 0]
mailPostAuthor(db, a, p) ==
    IF ~mailPostAuthorAllowed(db, a, p) THEN Refused(db)
    ELSE sendMail(db, a, MailPostAuthorSendPayload(db, p))
decideMailPostAuthor(db, a, p) ==
    IF ~mailPostAuthorAllowed(db, a, p) THEN Refuse
    ELSE decideSendMailPayload(db, a, MailPostAuthorSendPayload(db, p))

\* postMailToBoard(mail, board, thread): a thread of the board, or a reply.
PostMailReply(p) ==
    [thread |-> p.thread, body |-> {"mail"}, replyTo |-> NoId, quote |-> FALSE, anon |-> FALSE, atts |-> 0]
PostMailThread(p) ==
    [board |-> p.board, title |-> "mail", body |-> {"mail"}, anon |-> FALSE, atts |-> 0]
postMailToBoard(db, a, p) ==
    IF ~UserHasMailCopy(db, a, p.mail) THEN Refused(db)
    ELSE IF p.thread # NoId THEN appendPost(db, a, PostMailReply(p))
    ELSE createThread(db, a, PostMailThread(p))
decidePostMailToBoard(db, a, p) ==
    IF ~UserHasMailCopy(db, a, p.mail) THEN Refuse
    ELSE IF p.thread # NoId THEN decidePostBoardMailAppend(db, a, PostMailReply(p))
    ELSE decideCreateThread(db, a, PostMailThread(p))

---------------------------------------------------------------------------
\* setMailGroup(group, name, members): group is NoId for one named by name.

ResolveMailGroupID(db, a, p) ==
    IF p.group # NoId THEN p.group
    ELSE LET named == MailGroupIDByName(db, a, p.name) IN
         IF named # {} THEN CHOOSE g \in named : TRUE ELSE NewID(db, "mgrp")

setMailGroupAllowed(db, a, p) ==
    /\ p.group # NoId => p.group \in UserMailGroups(db, a)
    /\ MailGroupIDByName(db, a, p.name) \subseteq {ResolveMailGroupID(db, a, p)}
    /\ p.members \subseteq DOMAIN db.role \ {a}

MailGroupRow(a, p) == [user |-> a, name |-> p.name, members |-> p.members]

setMailGroup(db, a, p) ==
    IF ~setMailGroupAllowed(db, a, p) THEN Refused(db)
    ELSE Ack(SetMailGroup(db, ResolveMailGroupID(db, a, p), MailGroupRow(a, p)))
decideSetMailGroup(db, a, p) ==
    IF ~setMailGroupAllowed(db, a, p) THEN Refuse
    ELSE Decide(<<MailGroupSet(ResolveMailGroupID(db, a, p), MailGroupRow(a, p), db.now)>>)

\* The name is unique among the groups of a user; the id alone is upserted.
ApplyMailGroupSetOK(db, e) == MailGroupIDByName(db, e.user, e.row.name) \subseteq {e.id}
applyMailGroupSet(db, e) == SetMailGroup(db, e.id, e.row)

\* deleteMailGroup(group)
deleteMailGroup(db, a, p) ==
    IF p.group \notin UserMailGroups(db, a) THEN Refused(db) ELSE Ack(DeleteMailGroup(db, a, p.group))
decideDeleteMailGroup(db, a, p) ==
    IF p.group \notin UserMailGroups(db, a) THEN Refuse
    ELSE Decide(<<MailGroupDeleted(p.group, a, db.now)>>)
applyMailGroupDeleted(db, e) == DeleteMailGroup(db, e.user, e.id)

---------------------------------------------------------------------------
\* attachMail(mail, id): its sender adds to a message already sent, and every
\* copy outside the trash grows.  id is NoId, or one the client chose.

ValidateMailAttachmentMutation(db, a, mail) ==
    /\ mail \in DOMAIN db.mail /\ db.mail[mail].from = a
    /\ CountMailAttachments(db, mail) + 1 <= MaxAttachments

attachMailAllowed(db, a, p) ==
    /\ ValidateMailAttachmentMutation(db, a, p.mail)
    /\ EnsureMailQuota(db, ActiveMailCopyCounts(db, p.mail), 1)

MailAttachmentID(db, p) == IF p.id # NoId THEN p.id ELSE NewID(db, "matt")

attachMail(db, a, p) ==
    LET id == MailAttachmentID(db, p) IN
    IF ~attachMailAllowed(db, a, p) \/ id \in DOMAIN db.mailAtts THEN Refused(db)
    ELSE Ack(InsertMailAttachment(appendEvent(db, MailAttachmentAdded(id, p.mail, a, db.now)),
                                  id, p.mail))
decideAttachMail(db, a, p) ==
    IF ~attachMailAllowed(db, a, p) THEN Refuse
    ELSE Decide(<<MailAttachmentAdded(MailAttachmentID(db, p), p.mail, a, db.now)>>)

ApplyMailAttachmentAddedOK(db, e) == e.id \notin DOMAIN db.mailAtts
applyMailAttachmentAdded(db, e) == InsertMailAttachment(db, e.id, e.mail)

---------------------------------------------------------------------------
\* updateMail(mail, patch): all the copies the actor holds of the message; one
\* that leaves the trash must fit.

RestoreFits(db, a, p) ==
    "mailbox" \in DOMAIN p.patch /\ p.patch.mailbox # "trash" =>
        MailQuotaAllows(db, a, TrashedMailCopyCount(db, a, p.mail) * MailStoredSize(db, p.mail))

updateMailAllowed(db, a, p) == UserHasMailCopy(db, a, p.mail) /\ RestoreFits(db, a, p)

updateMail(db, a, p) ==
    IF ~updateMailAllowed(db, a, p) THEN Refused(db)
    ELSE Ack(UpdateMailCopy(db, a, p.mail, p.patch))
decideUpdateMail(db, a, p) ==
    IF ~updateMailAllowed(db, a, p) THEN Refuse
    ELSE Decide(<<MailCopyUpdated(p.mail, a, db.mail[p.mail].from, p.patch, db.now)>>)

ToTrash == [mailbox |-> "trash"]

\* deleteMail(mail)
deleteMail(db, a, p) ==
    IF ~UserHasMailCopy(db, a, p.mail) THEN Refused(db)
    ELSE Ack(UpdateMailCopy(db, a, p.mail, ToTrash))
decideDeleteMail(db, a, p) ==
    IF ~UserHasMailCopy(db, a, p.mail) THEN Refuse
    ELSE Decide(<<MailCopyUpdated(p.mail, a, db.mail[p.mail].from, ToTrash, db.now)>>)

\* deleteMailRange(mails): all of them, or none.
deleteMailRange(db, a, p) ==
    IF \E i \in DOMAIN p.mails : ~UserHasMailCopy(db, a, p.mails[i]) THEN Refused(db)
    ELSE Ack(FoldLeft(LAMBDA d, m : UpdateMailCopy(d, a, m, ToTrash), db, p.mails))
decideDeleteMailRange(db, a, p) ==
    IF \E i \in DOMAIN p.mails : ~UserHasMailCopy(db, a, p.mails[i]) THEN Refuse
    ELSE Decide([i \in DOMAIN p.mails |->
                    MailCopyUpdated(p.mails[i], a, db.mail[p.mails[i]].from, ToTrash, db.now)])

applyMailCopyUpdated(db, e) == UpdateMailCopy(db, e.holder, e.id, e.row)
=============================================================================
