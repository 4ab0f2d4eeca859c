----------------------------- MODULE ForumBoards -----------------------------
(***************************************************************************)
(* Boards and their people: settings, recommendation, moderators and their *)
(* terms of office, members, requirements and applications, zaps.  Each    *)
(* handler changes its rows without an event; only the public notice it    *)
(* then posts, in a second transaction, has events.  The native decider    *)
(* puts the rows as they will be into an event.  Positions and titles are  *)
(* left out.                                                               *)
(***************************************************************************)
EXTENDS ForumModeration

CONSTANTS
    RegistryBoard,   \* the system board of admitted members
    RejectBoard,     \* the system board of rejected applications
    SystemBoards     \* the boards the system posts to

BoardRow(k, b, row, by, ts) == [k |-> k, board |-> b, row |-> row, by |-> by, ts |-> ts]
BoardSettingsSet(b, settings, by, ts) == BoardRow("boardSettingsSet", b, settings, by, ts)
BoardMemberRequirementsSet(b, reqs, by, ts) == BoardRow("boardRequirementsSet", b, reqs, by, ts)
BoardRecommendedSet(b, on, by, ts) == BoardRow("boardRecommendedSet", b, on, by, ts)
BoardZapSet(b, u, on, ts) == BoardRow("boardZapSet", b, on, u, ts)
BoardModeratorSet(b, u, on, by, ts) ==
    BoardRow("boardModeratorSet", b, [user |-> u, on |-> on], by, ts)
BoardMemberSet(b, u, on, perms, by, ts) ==
    BoardRow("boardMemberSet", b, [user |-> u, on |-> on, perms |-> perms], by, ts)
BoardMemberApplicationSubmitted(id, b, u, ts) ==
    BoardRow("applicationSubmitted", b, [id |-> id, user |-> u], u, ts)
BoardMemberApplicationReviewed(id, b, u, status, by, ts) ==
    BoardRow("applicationReviewed", b, [id |-> id, user |-> u, status |-> status], by, ts)

\* A public notice about board b on the security board.
ensureSyssecuritySystemPost(db, a, b) ==
    IF BoardAllowsPublicSystemPost(db, b)
    THEN appendGeneratedSystemPostTx(db, a, SecurityBoard, NoticeThread(db), NoticePost(db))
    ELSE db

nativeSyssecuritySystemLogEvents(db, a, public) ==
    IF public
    THEN nativeGeneratedSystemPostEvents(db, a, SecurityBoard, NoticeThread(db), NoticePost(db), FALSE)
    ELSE <<>>

---------------------------------------------------------------------------
\* setBoardSettings(board, on, off), setRecommendedBoard(board, on),
\* setBoardZap(board, on)

ActorCanSetBoardSettings(db, a, b) == ActorHasBoardCapability(db, a, b, "settings")
ApplyBoardSettingsPatch(current, p) == (current \cup p.on) \ p.off
SetBoardSettings(db, b, settings) == [db EXCEPT !.settings = Put(@, b, settings)]

setBoardSettingsAllowed(db, a, p) == p.board \in DOMAIN db.boards /\ ActorCanSetBoardSettings(db, a, p.board)
BoardSettingsAuditLines(p) == p.on \cup p.off

setBoardSettings(db, a, p) ==
    LET d1 == SetBoardSettings(db, p.board, ApplyBoardSettingsPatch(GetBoardSettings(db, p.board), p)) IN
    IF ~setBoardSettingsAllowed(db, a, p) THEN Refused(db)
    ELSE IF BoardSettingsAuditLines(p) = {} THEN Ack(d1)
    ELSE Ack(ensureSyssecuritySystemPost(d1, a, p.board))

decideSetBoardSettings(db, a, p) ==
    LET settings == ApplyBoardSettingsPatch(GetBoardSettings(db, p.board), p) IN
    IF ~setBoardSettingsAllowed(db, a, p) THEN Refuse
    ELSE Decide(<<BoardSettingsSet(p.board, settings, a, db.now)>>
                \o nativeSyssecuritySystemLogEvents(db, a,
                       BoardSettingsAuditLines(p) # {} /\ "member_read" \notin settings))

BoardCanBePubliclyRecommended(db, b) ==
    b \notin SystemBoards /\ GetBoardSettings(db, b) \cap {"member_read", "stats_excluded"} = {}

SetRecommendedBoard(db, b, on) ==
    [db EXCEPT !.recommended = IF on THEN @ \cup {b} ELSE @ \ {b}]

setRecommendedBoardAllowed(db, a, p) ==
    /\ IsAdmin(db, a)
    /\ p.board \in DOMAIN db.boards
    /\ p.on => BoardCanBePubliclyRecommended(db, p.board)

setRecommendedBoard(db, a, p) ==
    IF setRecommendedBoardAllowed(db, a, p) THEN Ack(SetRecommendedBoard(db, p.board, p.on)) ELSE Refused(db)

decideSetRecommendedBoard(db, a, p) ==
    IF setRecommendedBoardAllowed(db, a, p)
    THEN Decide(<<BoardRecommendedSet(p.board, p.on, a, db.now)>>) ELSE Refuse

SetBoardZap(db, u, b, on) == [db EXCEPT !.zaps = IF on THEN @ \cup {<<u, b>>} ELSE @ \ {<<u, b>>}]

setBoardZapAllowed(db, p) ==
    p.board \in DOMAIN db.boards /\ (p.on => "zap" \in GetBoardSettings(db, p.board))

setBoardZap(db, a, p) ==
    IF setBoardZapAllowed(db, p) THEN Ack(SetBoardZap(db, a, p.board, p.on)) ELSE Refused(db)

decideSetBoardZap(db, a, p) ==
    IF setBoardZapAllowed(db, p) THEN Decide(<<BoardZapSet(p.board, a, p.on, db.now)>>) ELSE Refuse

---------------------------------------------------------------------------
\* setBoardModerator(board, user, on).  A term of office is keyed <<board,
\* user, start>>; its end is 0 while it lasts.

OpenTerms(db, b, u) == {t \in DOMAIN db.terms : t[1] = b /\ t[2] = u /\ db.terms[t] = 0}

nextBoardModeratorTermStartedAt(db, b, u, desired) ==
    CHOOSE s \in desired..(desired + Cardinality(DOMAIN db.terms)) :
        /\ <<b, u, s>> \notin DOMAIN db.terms
        /\ \A r \in desired..(s - 1) : <<b, u, r>> \in DOMAIN db.terms

\* Mutant: the term of a moderator who leaves stays open.
removeBoardModerator_TermOpen(db, b, u, ts) == [db EXCEPT !.moderators = Drop(@, {<<b, u>>})]

removeBoardModerator(db, b, u, ts) ==
    LET open == OpenTerms(db, b, u)
        ended == IF open = {} THEN Put(db.terms, <<b, u, db.moderators[<<b, u>>]>>, ts)
                 ELSE [t \in DOMAIN db.terms |-> IF t \in open THEN ts ELSE db.terms[t]]
    IN [db EXCEPT !.moderators = Drop(@, {<<b, u>>}), !.terms = ended]

appointBoardModerator(db, b, u, ts) ==
    LET current == <<b, u>> \in DOMAIN db.moderators
        desired == IF current THEN db.moderators[<<b, u>>] ELSE ts
        start == nextBoardModeratorTermStartedAt(db, b, u, desired)
        d1 == IF current THEN db ELSE [db EXCEPT !.moderators = Put(@, <<b, u>>, ts)]
    IN IF current /\ OpenTerms(db, b, u) # {} THEN d1
       ELSE [d1 EXCEPT !.terms = Put(@, <<b, u, start>>, 0)]

SetBoardModeratorTx(db, b, u, on, ts) ==
    IF on THEN appointBoardModerator(db, b, u, ts)
    ELSE IF <<b, u>> \in DOMAIN db.moderators THEN removeBoardModerator(db, b, u, ts)
    ELSE db

setBoardModeratorAllowed(db, a, p) ==
    IsAdmin(db, a) /\ p.board \in DOMAIN db.boards /\ p.user \in DOMAIN db.role

setBoardModerator(db, a, p) ==
    IF setBoardModeratorAllowed(db, a, p)
    THEN Ack(ensureSyssecuritySystemPost(SetBoardModeratorTx(db, p.board, p.user, p.on, db.now), a, p.board))
    ELSE Refused(db)

decideSetBoardModerator(db, a, p) ==
    IF setBoardModeratorAllowed(db, a, p)
    THEN Decide(<<BoardModeratorSet(p.board, p.user, p.on, a, db.now)>>
                \o nativeSyssecuritySystemLogEvents(db, a, BoardAllowsPublicSystemPost(db, p.board)))
    ELSE Refuse

---------------------------------------------------------------------------
\* setBoardMember(board, user, on, grant, revoke), leaveBoardMembership(board)

ActorCanManageBoardMembers(db, a, b) == ActorHasBoardCapability(db, a, b, "members")

MemberPerms(db, b, u) == IF <<b, u>> \in DOMAIN db.members THEN db.members[<<b, u>>].perms ELSE {}

\* A manager who is no moderator may not touch permissions, nor anyone who
\* holds some.
setBoardMemberAllowed(db, a, p) ==
    /\ p.board \in DOMAIN db.boards
    /\ p.user \in DOMAIN db.role
    /\ \/ ActorCanModerateBoard(db, a, p.board)
       \/ /\ ActorCanManageBoardMembers(db, a, p.board)
          /\ p.grant \cup p.revoke = {}
          /\ <<p.board, p.user>> \notin DOMAIN db.moderators
          /\ MemberPerms(db, p.board, p.user) = {}

BoardMemberFinalState(db, p) == (MemberPerms(db, p.board, p.user) \cup p.grant) \ p.revoke

setBoardMemberFinal(db, b, u, on, perms) ==
    [db EXCEPT !.members = IF on THEN Put(@, <<b, u>>, [perms |-> perms]) ELSE Drop(@, {<<b, u>>})]

setBoardMember(db, a, p) ==
    IF setBoardMemberAllowed(db, a, p)
    THEN Ack(setBoardMemberFinal(db, p.board, p.user, p.on, BoardMemberFinalState(db, p)))
    ELSE Refused(db)

decideSetBoardMember(db, a, p) ==
    IF setBoardMemberAllowed(db, a, p)
    THEN Decide(<<BoardMemberSet(p.board, p.user, p.on, BoardMemberFinalState(db, p), a, db.now)>>)
    ELSE Refuse

leaveBoardMembership(db, a, p) ==
    IF <<p.board, a>> \in DOMAIN db.members
    THEN Ack(setBoardMemberFinal(db, p.board, a, FALSE, {})) ELSE Refused(db)

\* The native decider does not ask whether the actor is a member.
decideLeaveBoardMembership(db, a, p) ==
    IF p.board \in DOMAIN db.boards
    THEN Decide(<<BoardMemberSet(p.board, a, FALSE, {}, a, db.now)>>) ELSE Refuse

---------------------------------------------------------------------------
\* setBoardMemberRequirements(board, patch): patch is a function on some of
\* "auto", "max", "posts", "trust", which stand for all the requirements.

GetBoardMemberRequirements(db, b) ==
    IF b \in DOMAIN db.reqs THEN db.reqs[b] ELSE [auto |-> FALSE, max |-> 0, posts |-> 0, trust |-> 0]

PatchedRequirements(db, p) ==
    LET current == GetBoardMemberRequirements(db, p.board) IN
    [x \in DOMAIN current |-> IF x \in DOMAIN p.patch THEN p.patch[x] ELSE current[x]]

SetBoardMemberRequirements(db, b, reqs) == [db EXCEPT !.reqs = Put(@, b, reqs)]

setBoardMemberRequirements(db, a, p) ==
    IF setBoardSettingsAllowed(db, a, p)
    THEN Ack(SetBoardMemberRequirements(db, p.board, PatchedRequirements(db, p))) ELSE Refused(db)

decideSetBoardMemberRequirements(db, a, p) ==
    IF setBoardSettingsAllowed(db, a, p)
    THEN Decide(<<BoardMemberRequirementsSet(p.board, PatchedRequirements(db, p), a, db.now)>>) ELSE Refuse

BoardMemberCount(db, b) == Cardinality({m \in DOMAIN db.members : m[1] = b})

RequireBoardMembershipAdmission(db, b, u) ==
    LET r == GetBoardMemberRequirements(db, b) IN
    /\ r.max > 0 /\ <<b, u>> \notin DOMAIN db.members => BoardMemberCount(db, b) < r.max
    /\ db.created[u] >= r.posts
    /\ db.trust[u] >= r.trust

---------------------------------------------------------------------------
\* applyBoardMembership(board), reviewBoardMembership(app, status)

ApplicationsOf(db, b, u, status) ==
    {i \in DOMAIN db.apps : db.apps[i].board = b /\ db.apps[i].user = u /\ db.apps[i].status = status}

ApplicationCanStart(db, a, b) ==
    /\ <<b, a>> \notin DOMAIN db.members
    /\ ApplicationsOf(db, b, a, "pending") = {} /\ ApplicationsOf(db, b, a, "blacklisted") = {}
    /\ RequireBoardMembershipAdmission(db, b, a)

PendingApplication(b, u) == [board |-> b, user |-> u, status |-> "pending", by |-> "", at |-> 0]

InsertBoardMemberApplication(db, id, b, u) == [db EXCEPT !.apps = Put(@, id, PendingApplication(b, u))]

ReviewBoardMemberApplication(db, id, by, status, ts) ==
    LET app == db.apps[id]
        d1 == [db EXCEPT !.apps[id].status = status, !.apps[id].by = by, !.apps[id].at = ts]
    IN CASE status = "approved" ->
              setBoardMemberFinal(d1, app.board, app.user, TRUE, MemberPerms(db, app.board, app.user))
         [] status = "blacklisted" -> setBoardMemberFinal(d1, app.board, app.user, FALSE, {})
         [] OTHER -> d1

RegistrationBoard(status) == IF status = "approved" THEN RegistryBoard ELSE RejectBoard
RegistrationThread(app, status) == <<"regthr", status, app>>
RegistrationPost(app, status) == <<"regpst", status, app>>

BoardRegistrationDue(db, app, status, b) ==
    BoardAllowsPublicSystemPost(db, b) /\ RegistrationThread(app, status) \notin DOMAIN db.threads

ensureBoardRegistrationSystemPost(db, a, app, status, b) ==
    IF BoardRegistrationDue(db, app, status, b)
    THEN appendGeneratedSystemPostTx(db, a, RegistrationBoard(status), RegistrationThread(app, status),
                                     RegistrationPost(app, status))
    ELSE db

nativeBoardRegistrationSystemLogEvents(db, a, app, status, b) ==
    IF BoardRegistrationDue(db, app, status, b)
    THEN nativeGeneratedSystemPostEvents(db, a, RegistrationBoard(status), RegistrationThread(app, status),
                                         RegistrationPost(app, status), FALSE)
    ELSE <<>>

ApplicationID(db) == NewID(db, "app")

applyBoardMembership(db, a, p) ==
    LET id == ApplicationID(db)
        d1 == InsertBoardMemberApplication(db, id, p.board, a)
    IN IF ~(p.board \in DOMAIN db.boards /\ ApplicationCanStart(db, a, p.board)) THEN Refused(db)
       ELSE IF GetBoardMemberRequirements(db, p.board).auto
       THEN Ack(ensureBoardRegistrationSystemPost(
                    ReviewBoardMemberApplication(d1, id, a, "approved", db.now), a, id, "approved", p.board))
       ELSE Ack(d1)

nativeBoardMembershipReviewEvents(db, a, id, b, u, status) ==
    <<BoardMemberApplicationReviewed(id, b, u, status, a, db.now)>>
    \o nativeBoardRegistrationSystemLogEvents(db, a, id, status, b)

nativeBoardMembershipApplicationEvents(db, a, id, b, auto) ==
    <<BoardMemberApplicationSubmitted(id, b, a, db.now)>>
    \o IF auto THEN nativeBoardMembershipReviewEvents(db, a, id, b, a, "approved") ELSE <<>>

\* An application with the id the command makes is decided again, as it was.
decideApplyBoardMembership(db, a, p) ==
    LET id == ApplicationID(db)
        auto == GetBoardMemberRequirements(db, p.board).auto
        again == id \in DOMAIN db.apps
        approved == again /\ db.apps[id].status = "approved" /\ db.apps[id].by = a
    IN IF /\ p.board \in DOMAIN db.boards
          /\ IF again THEN db.apps[id].status \in {"pending", "approved"}
             ELSE ApplicationCanStart(db, a, p.board)
       THEN Decide(nativeBoardMembershipApplicationEvents(db, a, id, p.board, auto \/ approved))
       ELSE Refuse

CheckReviewBoardMembershipPermission(db, a, app, status) ==
    \/ ActorCanModerateBoard(db, a, app.board)
    \/ ActorCanManageBoardMembers(db, a, app.board) /\ a # app.user /\ status # "blacklisted"

reviewBoardMembershipAllowed(db, a, p) ==
    /\ p.app \in DOMAIN db.apps
    /\ db.apps[p.app].status = "pending"
    /\ CheckReviewBoardMembershipPermission(db, a, db.apps[p.app], p.status)
    /\ p.status = "approved" =>
          RequireBoardMembershipAdmission(db, db.apps[p.app].board, db.apps[p.app].user)

reviewBoardMembership(db, a, p) ==
    IF reviewBoardMembershipAllowed(db, a, p)
    THEN Ack(ensureBoardRegistrationSystemPost(
                 ReviewBoardMemberApplication(db, p.app, a, p.status, db.now),
                 a, p.app, p.status, db.apps[p.app].board))
    ELSE Refused(db)

ReviewedJustSo(db, a, p) ==
    /\ p.app \in DOMAIN db.apps
    /\ db.apps[p.app].status = p.status /\ db.apps[p.app].by = a /\ db.apps[p.app].at = db.now

decideReviewBoardMembership(db, a, p) ==
    IF reviewBoardMembershipAllowed(db, a, p) \/ ReviewedJustSo(db, a, p)
    THEN Decide(nativeBoardMembershipReviewEvents(db, a, p.app, db.apps[p.app].board,
                                                  db.apps[p.app].user, p.status))
    ELSE Refuse

---------------------------------------------------------------------------
\* What the events do to the projection.

applyBoardSettingsSet(db, e) == SetBoardSettings(db, e.board, e.row)
applyBoardRequirementsSet(db, e) == SetBoardMemberRequirements(db, e.board, e.row)
applyBoardRecommendedSet(db, e) == SetRecommendedBoard(db, e.board, e.row)
applyBoardZapSet(db, e) == SetBoardZap(db, e.by, e.board, e.row)
applyBoardModeratorSet(db, e) == SetBoardModeratorTx(db, e.board, e.row.user, e.row.on, e.ts)
applyBoardMemberSet(db, e) == setBoardMemberFinal(db, e.board, e.row.user, e.row.on, e.row.perms)
ApplyApplicationSubmittedOK(db, e) == e.row.id \notin DOMAIN db.apps
applyApplicationSubmitted(db, e) == InsertBoardMemberApplication(db, e.row.id, e.board, e.row.user)
\* A review that comes before the application brings it.
applyApplicationReviewed(db, e) ==
    LET d1 == IF e.row.id \in DOMAIN db.apps THEN db
              ELSE InsertBoardMemberApplication(db, e.row.id, e.board, e.row.user)
    IN ReviewBoardMemberApplication(d1, e.row.id, e.by, e.row.status, e.ts)
=============================================================================
