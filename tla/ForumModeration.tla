-------------------------- MODULE ForumModeration --------------------------
(***************************************************************************)
(* Moderation and administration: flags and reviews, sanctions, content    *)
(* filters, automod rules, roles and boards.  For each command, the        *)
(* handler and the native decision.  The handler of a sanction or a role   *)
(* writes its public notice in a second transaction, after the first one   *)
(* has committed; no crash between the two is modelled here.               *)
(***************************************************************************)
EXTENDS ForumThreads

CONSTANTS
    DenyBoard, UndenyBoard,  \* the system boards of sanction notices
    SecurityBoard            \* the system board of administrative notices

ReviewResolved(review, resolution, by, ts) ==
    [k |-> "reviewResolved", id |-> review, resolution |-> resolution, by |-> by, ts |-> ts]
UserSanctionCleared(u, kind, scope, by, ts) ==
    [k |-> "sanctionCleared", user |-> u, kind |-> kind, scope |-> scope, by |-> by, ts |-> ts]
ContentFilterSet(id, row, by, ts) ==
    [k |-> "contentFilterSet", id |-> id, row |-> row, by |-> by, ts |-> ts]
BoardAutomodRuleSet(id, row, by, ts) ==
    [k |-> "automodRuleSet", id |-> id, row |-> row, by |-> by, ts |-> ts]
BoardAutomodRuleDeleted(id, b, by, ts) ==
    [k |-> "automodRuleDeleted", id |-> id, board |-> b, by |-> by, ts |-> ts]
RoleChanged(u, role, by, ts) == [k |-> "roleChanged", user |-> u, role |-> role, by |-> by, ts |-> ts]

---------------------------------------------------------------------------
\* flagPost(post), resolveReview(review, resolution): each leaves a note in
\* the moderation log, whose ids follow from the action and the review.

ModLogThread(action, review) == <<"modlog", action, review>>
ModLogPost(action, review) == <<"modpost", action, review>>

appendModerationSystemPostTx(db, a, action, review) ==
    IF ModLogThread(action, review) \in DOMAIN db.threads THEN db
    ELSE appendGeneratedSystemPostTx(db, a, ModerationBoard,
                                     ModLogThread(action, review), ModLogPost(action, review))

nativeModerationSystemLogEvents(db, a, action, review, public) ==
    IF public
    THEN nativeGeneratedSystemPostEvents(db, a, ModerationBoard, ModLogThread(action, review),
                                         ModLogPost(action, review), TRUE)
    ELSE <<>>

ReviewID(db) == <<"rev", db.cmd, 0>>

flagPost(db, a, p) ==
    LET d1 == InsertModerationReview(db, ReviewID(db), "post_flag", p.post, a)
        d2 == appendEvent(d1, PostFlagged(ReviewID(db), "post_flag", p.post, a, db.now))
    IN IF ~PostExists(db, p.post) THEN Refused(db)
       ELSE IF BoardAllowsPublicSystemPost(db, PostBoard(db, p.post))
       THEN Ack(appendModerationSystemPostTx(d2, a, "flag", ReviewID(db)))
       ELSE Ack(d2)

decideFlagPost(db, a, p) ==
    IF ~PostExists(db, p.post) THEN Refuse
    ELSE Decide(<<PostFlagged(ReviewID(db), "post_flag", p.post, a, db.now)>>
                \o nativeModerationSystemLogEvents(db, a, "flag", ReviewID(db),
                       BoardAllowsPublicSystemPost(db, PostBoard(db, p.post))))

\* Whether the log of a review is public: its post still has a thread, on a
\* board that everyone may read.
GetModerationReviewLogTarget(db, review) ==
    LET post == db.reviews[review].post IN
    PostExists(db, post) /\ BoardAllowsPublicSystemPost(db, PostBoard(db, post))

RequireOpenModerationReview(db, a, review) == IsMod(db, a) /\ ReviewIsOpen(db, review)

resolveReview(db, a, p) ==
    LET d1 == ResolveModerationReview(db, p.review, p.resolution, a)
        d2 == appendEvent(d1, ReviewResolved(p.review, p.resolution, a, db.now))
    IN IF ~RequireOpenModerationReview(db, a, p.review) THEN Refused(db)
       ELSE IF GetModerationReviewLogTarget(db, p.review)
       THEN Ack(appendModerationSystemPostTx(d2, a, "resolve", p.review))
       ELSE Ack(d2)

decideResolveReview(db, a, p) ==
    IF ~RequireOpenModerationReview(db, a, p.review) THEN Refuse
    ELSE Decide(<<ReviewResolved(p.review, p.resolution, a, db.now)>>
                \o nativeModerationSystemLogEvents(db, a, "resolve", p.review,
                       GetModerationReviewLogTarget(db, p.review)))

---------------------------------------------------------------------------
\* sanctionUser(user, kind, scope, duration), clearUserSanction(user, kind, scope)

RequireSanctionTargetAllowed(db, a, u) == ~IsAdmin(db, u) /\ (IsMod(db, u) => IsAdmin(db, a))
RequireClearSanctionTargetAllowed(db, a, u) == IsMod(db, u) => IsAdmin(db, a)

RequireBoardSanctionScopePermission(db, a, b) ==
    b \in DOMAIN db.boards /\ ActorCanModerateBoardPosts(db, a, b)

SanctionScopeAllowed(db, a, scope) ==
    IF scope = "global" THEN IsMod(db, a) ELSE RequireBoardSanctionScopePermission(db, a, scope)

NoticeThread(db) == <<"systhr", db.cmd>>
NoticePost(db) == <<"syspst", db.cmd>>

ensureSanctionSystemPost(db, a, notice, scope) ==
    IF scope # "global" /\ BoardAllowsPublicSystemPost(db, scope)
    THEN appendGeneratedSystemPostTx(db, a, notice, NoticeThread(db), NoticePost(db))
    ELSE db

nativeSanctionSystemLogEvents(db, a, notice, scope) ==
    IF scope # "global" /\ BoardAllowsPublicSystemPost(db, scope)
    THEN nativeGeneratedSystemPostEvents(db, a, notice, NoticeThread(db), NoticePost(db), TRUE)
    ELSE <<>>

sanctionUser(db, a, p) ==
    LET expires == IF p.duration > 0 THEN db.now + p.duration ELSE 0
        d1 == appendEvent(db, UserSanctioned(p.user, p.kind, p.scope, p.duration, a, db.now))
        d2 == InsertSanction(d1, <<"san", db.cmd, 0>>, p.user, p.kind, p.scope, expires, a)
    IN IF /\ p.user \in DOMAIN db.role
          /\ RequireSanctionTargetAllowed(db, a, p.user)
          /\ SanctionScopeAllowed(db, a, p.scope)
       THEN Ack(ensureSanctionSystemPost(d2, a, DenyBoard, p.scope))
       ELSE Refused(db)

\* The native decider asks for a site moderator, whatever the scope.
decideSanctionUser(db, a, p) ==
    IF /\ IsMod(db, a)
       /\ p.user \in DOMAIN db.role
       /\ RequireSanctionTargetAllowed(db, a, p.user)
       /\ p.scope # "global" => p.scope \in DOMAIN db.boards
    THEN Decide(<<UserSanctioned(p.user, p.kind, p.scope, p.duration, a, db.now)>>
                \o nativeSanctionSystemLogEvents(db, a, DenyBoard, p.scope))
    ELSE Refuse

clearUserSanction(db, a, p) ==
    LET d1 == appendEvent(db, UserSanctionCleared(p.user, p.kind, p.scope, a, db.now))
        d2 == ClearUserSanctions(d1, p.user, p.kind, p.scope)
    IN IF /\ p.user \in DOMAIN db.role
          /\ RequireClearSanctionTargetAllowed(db, a, p.user)
          /\ SanctionScopeAllowed(db, a, p.scope)
          /\ SanctionsMatching(db, p.user, p.kind, p.scope) # {}
       THEN Ack(ensureSanctionSystemPost(d2, a, UndenyBoard, p.scope))
       ELSE Refused(db)

\* Nor does it ask whether there is a sanction to clear.
decideClearUserSanction(db, a, p) ==
    IF /\ IsMod(db, a)
       /\ p.user \in DOMAIN db.role
       /\ RequireClearSanctionTargetAllowed(db, a, p.user)
       /\ p.scope # "global" => p.scope \in DOMAIN db.boards
    THEN Decide(<<UserSanctionCleared(p.user, p.kind, p.scope, a, db.now)>>
                \o nativeSanctionSystemLogEvents(db, a, UndenyBoard, p.scope))
    ELSE Refuse

---------------------------------------------------------------------------
\* setContentFilter(id, pattern, scope, active)

ContentFilterID(db, p) == IF p.id = NoId THEN NewID(db, "filter") ELSE p.id
ContentFilterRow(p) == [active |-> p.active, scope |-> p.scope, pattern |-> p.pattern]

setContentFilterAllowed(db, a, p) ==
    IsAdmin(db, a) /\ (p.scope # "global" => p.scope \in DOMAIN db.boards)

setContentFilter(db, a, p) ==
    LET id == ContentFilterID(db, p)
        d1 == appendEvent(db, ContentFilterSet(id, ContentFilterRow(p), a, db.now))
    IN IF setContentFilterAllowed(db, a, p)
       THEN Ack(UpsertContentFilter(d1, id, ContentFilterRow(p))) ELSE Refused(db)

decideSetContentFilter(db, a, p) ==
    IF setContentFilterAllowed(db, a, p)
    THEN Decide(<<ContentFilterSet(ContentFilterID(db, p), ContentFilterRow(p), a, db.now)>>)
    ELSE Refuse

---------------------------------------------------------------------------
\* setBoardAutomodRule(id, rule), deleteBoardAutomodRule(id, board)

CheckAutomodActionPermissions(db, a, b, actions) ==
    \A x \in ToSet(actions) :
        CASE x = "global_mute" -> IsAdmin(db, a)
          [] x = "lock_thread" -> ActorCanModerateBoardThreads(db, a, b)
          [] OTHER -> ActorCanModerateBoardPosts(db, a, b)

ValidateAutomodRule(r) ==
    /\ r.actions # <<>>
    /\ CASE r.match = "content" -> r.pattern # ""
         [] r.match = "account_age" -> r.threshold >= 1
         [] r.match = "rate_threshold" -> r.threshold >= 1 /\ r.window >= 1

setBoardAutomodRuleAllowed(db, a, p) ==
    /\ ValidateAutomodRule(p.rule)
    /\ p.rule.board \in DOMAIN db.boards
    /\ CheckAutomodActionPermissions(db, a, p.rule.board, p.rule.actions)

AutomodRuleID(db, p) == IF p.id = NoId THEN NewID(db, "rule") ELSE p.id
AutomodRuleRow(db, p) == [p.rule EXCEPT !.updated = db.now]

setBoardAutomodRule(db, a, p) ==
    LET id == AutomodRuleID(db, p)
        d1 == appendEvent(db, BoardAutomodRuleSet(id, AutomodRuleRow(db, p), a, db.now))
    IN IF setBoardAutomodRuleAllowed(db, a, p)
       THEN Ack(UpsertBoardAutomodRule(d1, id, AutomodRuleRow(db, p))) ELSE Refused(db)

decideSetBoardAutomodRule(db, a, p) ==
    IF setBoardAutomodRuleAllowed(db, a, p)
    THEN Decide(<<BoardAutomodRuleSet(AutomodRuleID(db, p), AutomodRuleRow(db, p), a, db.now)>>)
    ELSE Refuse

ActorCanModerateBoardContent(db, a, b) ==
    ActorCanModerateBoardPosts(db, a, b) \/ ActorCanModerateBoardThreads(db, a, b)

deleteBoardAutomodRule(db, a, p) ==
    LET d1 == appendEvent(db, BoardAutomodRuleDeleted(p.id, p.board, a, db.now)) IN
    IF ActorCanModerateBoardContent(db, a, p.board)
    THEN Ack(DeleteBoardAutomodRule(d1, p.id, p.board)) ELSE Refused(db)

decideDeleteBoardAutomodRule(db, a, p) ==
    IF ActorCanModerateBoardContent(db, a, p.board)
    THEN Decide(<<BoardAutomodRuleDeleted(p.id, p.board, a, db.now)>>) ELSE Refuse

---------------------------------------------------------------------------
\* grantRole(user, role) and revokeRole(user), whose role is then "user"

changeRole(db, a, p) ==
    LET d1 == appendEvent(db, RoleChanged(p.user, p.role, a, db.now))
        d2 == SetUserRole(d1, p.user, p.role)
    IN IF IsAdmin(db, a) /\ p.user \in DOMAIN db.role
       THEN Ack(appendGeneratedSystemPostTx(d2, a, SecurityBoard, NoticeThread(db), NoticePost(db)))
       ELSE Refused(db)

decideRoleChange(db, a, p) ==
    IF IsAdmin(db, a) /\ p.user \in DOMAIN db.role
    THEN Decide(<<RoleChanged(p.user, p.role, a, db.now)>>
                \o nativeGeneratedSystemPostEvents(db, a, SecurityBoard, NoticeThread(db),
                                                   NoticePost(db), FALSE))
    ELSE Refuse

---------------------------------------------------------------------------
\* createBoard(board, parent)

RequireParentCategory(db, parent) == parent # "" => parent \in DOMAIN db.boards

createBoard(db, a, p) ==
    IF /\ IsAdmin(db, a)
       /\ RequireParentCategory(db, p.parent)
       /\ p.board \notin DOMAIN db.boards
    THEN Ack(InsertBoard(appendEvent(db, BoardCreated(p.board, p.parent, db.now)), p.board, p.parent))
    ELSE Refused(db)

\* A board that exists just as asked for is decided again: the command may be
\* a redelivery of the one that created it.
CreatedBoardMatches(db, p) == p.board \in DOMAIN db.boards /\ db.boards[p.board] = p.parent

decideCreateBoardCommand(db, a, p) ==
    IF /\ IsAdmin(db, a)
       /\ RequireParentCategory(db, p.parent)
       /\ p.board \in DOMAIN db.boards => CreatedBoardMatches(db, p)
    THEN Decide(<<BoardCreated(p.board, p.parent, db.now)>>)
    ELSE Refuse
=============================================================================
