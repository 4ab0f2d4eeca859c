------------------------------ MODULE MCForum ------------------------------
(***************************************************************************)
(* Scenarios of the forum for TLC: small databases and a handful of        *)
(* commands each, which may arrive in any order.                           *)
(***************************************************************************)
EXTENDS ForumSystem

\* ada is an administrator, mod a site moderator, una and vic are users.
Fn(pairs) == [x \in {p[1] : p \in pairs} |-> (CHOOSE p \in pairs : p[1] = x)[2]]
ForAll(x) == Fn({<<"ada", x>>, <<"mod", x>>, <<"una", x>>, <<"vic", x>>})

EmptyDB ==
    [now |-> 5, cmd |-> 0, log |-> <<>>,
     role |-> Fn({<<"ada", "admin">>, <<"mod", "moderator">>, <<"una", "user">>, <<"vic", "user">>}),
     trust |-> Fn({<<"ada", 2>>, <<"mod", 2>>, <<"una", 2>>, <<"vic", 0>>}),
     days |-> Fn({<<"ada", 30>>, <<"mod", 30>>, <<"una", 30>>, <<"vic", 1>>}),
     created |-> Fn({<<"ada", 15>>, <<"mod", 15>>, <<"una", 15>>, <<"vic", 0>>}),
     joined |-> Fn({<<"ada", 0>>, <<"mod", 0>>, <<"una", 0>>, <<"vic", 4>>}),
     boards |-> Fn({<<"pub", "">>, <<"prv", "">>}), boardAt |-> Fn({<<"pub", 1>>, <<"prv", 1>>}),
     settings |-> Fn({<<"prv", {"member_read", "zap"}>>,
                      <<"pub", {"attachments", "anonymous", "relay", "zap"}>>}),
     moderators |-> NoRows, members |-> NoRows, terms |-> NoRows, reqs |-> NoRows, apps |-> NoRows,
     recommended |-> {}, zaps |-> {}, folders |-> NoRows, favs |-> NoRows,
     threads |-> NoRows, posts |-> NoRows, atts |-> NoRows, deletions |-> NoRows,
     fts |-> NoRows, resident |-> NoRows, latest |-> NoRows, residentSeq |-> 0, latestSeq |-> 0,
     relay |-> NoRows, relayCache |-> NoRows, polls |-> NoRows, notes |-> NoRows, jobs |-> <<>>,
     entries |-> NoRows, dirs |-> NoRows,
     mail |-> NoRows, copies |-> NoRows, mailAtts |-> NoRows, groups |-> NoRows,
     dms |-> NoRows, dmPolicy |-> NoRows, rels |-> {}, blessings |-> NoRows, online |-> {},
     history |-> NoRows, where |-> NoRows, boardRead |-> NoRows, threadRead |-> NoRows,
     reactions |-> NoRows, reactShards |-> NoRows, recv |-> ForAll(0), votes |-> NoRows,
     voteShards |-> NoRows, checkpoint |-> NoRows,
     reviews |-> NoRows, filters |-> NoRows, rules |-> NoRows, audit |-> NoRows,
     sanctions |-> NoRows, prefs |-> NoRows,
     search |-> "inline", index |-> NoRows, batch |-> NoRows, tasks |-> <<>>,
     views |-> [v \in DerivedViews |-> NoRows], marks |-> NoRows, filling |-> FALSE]

\* una and vic have shards of their own.
MCShard(u) == IF u = "vic" THEN 1 ELSE 0
MCPeriods(day) == IF day = 2 THEN {"week"} ELSE {}

---------------------------------------------------------------------------
\* Commands.

Cmd(n, k, a, p) == [n |-> n, k |-> k, a |-> a, p |-> p]
Thread(n) == <<"thr", n>>
Post(n) == <<"pst", n>>

NewThread(n, a, b, body) ==
    Cmd(n, "createThread", a, [board |-> b, title |-> "hello", body |-> body, anon |-> FALSE, atts |-> 0])
ReplyTo(n, a, t, body, post, quote) ==
    Cmd(n, "appendPost", a, [thread |-> Thread(t), body |-> body, replyTo |-> post, quote |-> quote,
                             anon |-> FALSE, atts |-> 0])
Reply(n, a, t, body) == ReplyTo(n, a, t, body, NoId, FALSE)
Mute(n, a, u, scope) ==
    Cmd(n, "sanctionUser", a, [user |-> u, kind |-> "mute", scope |-> scope, duration |-> 0])
SetMember(n, b, u, on, grant) ==
    Cmd(n, "setBoardMember", "mod", [board |-> b, user |-> u, on |-> on, grant |-> grant, revoke |-> {}])
Settings(n, a, b, on, off) == Cmd(n, "setBoardSettings", a, [board |-> b, on |-> on, off |-> off])
MailTo(n, a, to, atts) ==
    Cmd(n, "sendMail", a, [to |-> to, groups |-> {}, friends |-> FALSE, all |-> FALSE,
                           replyTo |-> NoId, saveSent |-> TRUE, atts |-> atts])
Relate(n, a, u, kind) ==
    Cmd(n, "setUserRelationship", a, [user |-> u, kind |-> kind, active |-> TRUE])

Scene(name, mode, workers, setup, cmds) ==
    [name |-> name, mode |-> mode, workers |-> workers, base |-> EmptyDB, setup |-> setup, cmds |-> cmds]

MCDailyLists == {<<"daily", "totals">>}

---------------------------------------------------------------------------
\* Scenarios.

SpamFilter(n) ==
    Cmd(n, "setContentFilter", "ada", [id |-> NoId, pattern |-> "spam", scope |-> "pub", active |-> TRUE])
AdsRule(n, actions) ==
    Cmd(n, "setBoardAutomodRule", "mod",
        [id |-> NoId, rule |-> [board |-> "pub", enabled |-> TRUE, match |-> "content", pattern |-> "ads",
                                threshold |-> 0, window |-> 0, priority |-> 1, updated |-> 0,
                                actions |-> actions, duration |-> 0]])

Posting(mode) ==
    Scene("posting_" \o mode, mode, {}, <<NewThread(1, "una", "pub", {"tea"})>>,
          {ReplyTo(2, "vic", 1, {"una"}, Post(1), TRUE),
           ReplyTo(3, "una", 1, {"yes"}, Post(2), FALSE),
           Cmd(4, "repostPost", "vic", [post |-> Post(1), board |-> "pub", title |-> ""]),
           Cmd(5, "postBoardMail", "vic", [board |-> "pub", thread |-> NoId, title |-> "", body |-> {"hi"}, atts |-> 0]),
           Settings(6, "mod", "pub", {"mail_in"}, {"relay"}),
           Mute(7, "mod", "vic", "pub")})

Automod(mode) ==
    Scene("automod_" \o mode, mode, {},
          <<SpamFilter(1), AdsRule(2, <<"manual_review", "redact", "lock_thread", "board_mute">>),
            NewThread(3, "una", "pub", {"tea"})>>,
          {Reply(4, "vic", 3, {"ads", "spam"}), Reply(5, "vic", 3, {"una"}),
           Cmd(6, "restorePost", "mod", [post |-> Post(4)]),
           Cmd(7, "clearUserSanction", "mod", [user |-> "vic", kind |-> "", scope |-> "pub"]),
           Cmd(8, "deleteBoardAutomodRule", "mod", [id |-> <<"rule", 2>>, board |-> "pub"]),
           Cmd(9, "setContentFilter", "ada", [id |-> <<"filter", 1>>, pattern |-> "spam", scope |-> "global",
                                              active |-> FALSE])})

Upkeep(mode) ==
    Scene("upkeep_" \o mode, mode, {},
          <<NewThread(1, "una", "pub", {"tea"}), Reply(2, "vic", 1, {"milk"})>>,
          {Cmd(3, "redactPost", "vic", [post |-> Post(2)]),
           Cmd(4, "editPost", "vic", [post |-> Post(2), body |-> {"cream"}]),
           Cmd(5, "purgePost", "ada", [post |-> Post(2)]),
           Cmd(6, "moveThread", "mod", [thread |-> Thread(1), to |-> "prv"]),
           Cmd(7, "restorePost", "mod", [post |-> Post(2)]),
           Cmd(8, "clearBoardJunk", "mod", [board |-> "pub", posts |-> <<>>])})

Ranges(mode) ==
    Scene("ranges_" \o mode, mode, {},
          <<NewThread(1, "una", "pub", {"tea"}), Reply(2, "vic", 1, {"milk"})>>,
          {Cmd(3, "redactPostRange", "mod", [board |-> "pub", posts |-> <<Post(2), Post(1)>>]),
           Cmd(4, "restorePostRange", "mod", [board |-> "pub", posts |-> <<Post(1), Post(2)>>]),
           Cmd(5, "setPostFlag", "mod", [post |-> Post(1), on |-> {"no_reply", "mail_back"}, off |-> {}]),
           Cmd(6, "attachPost", "vic", [post |-> Post(2)]),
           Cmd(7, "lockThread", "mod", [thread |-> Thread(1), locked |-> TRUE]),
           Cmd(8, "setThreadTitle", "una", [thread |-> Thread(1), title |-> "bye"]),
           Reply(9, "vic", 1, {"late"})})

Moderation(mode) ==
    Scene("moderation_" \o mode, mode, {}, <<NewThread(1, "una", "pub", {"tea"})>>,
          {Cmd(4, "flagPost", "vic", [post |-> Post(1)]),
           Cmd(5, "resolveReview", "mod", [review |-> <<"rev", 4, 0>>, resolution |-> "dismissed"]),
           Cmd(6, "resolveReview", "ada", [review |-> <<"rev", 4, 0>>, resolution |-> "upheld"]),
           Cmd(7, "changeRole", "ada", [user |-> "mod", role |-> "user"]),
           Cmd(8, "createBoard", "ada", [board |-> "new", parent |-> "pub"]),
           Cmd(9, "publishSystemNotice", "ada", [board |-> "notepad"])})

Apply(n, u) == Cmd(n, "applyBoardMembership", u, [board |-> "prv"])
Review(n, a, app, status) ==
    Cmd(n, "reviewBoardMembership", a, [app |-> <<"app", app>>, status |-> status])
Members(mode) ==
    Scene("members_" \o mode, mode, {},
          <<Cmd(1, "setBoardMemberRequirements", "mod", [board |-> "prv", patch |-> [max |-> 1]])>>,
          {Apply(2, "una"), Apply(3, "vic"), Review(4, "mod", 2, "approved"),
           Review(5, "mod", 3, "approved"), Review(6, "mod", 3, "rejected"),
           Cmd(7, "leaveBoardMembership", "una", [board |-> "prv"])})

SetModerator(n, u, on) == Cmd(n, "setBoardModerator", "ada", [board |-> "pub", user |-> u, on |-> on])
Offices(mode) ==
    Scene("offices_" \o mode, mode, {}, <<>>,
          {SetModerator(1, "una", TRUE), SetModerator(2, "una", FALSE), SetModerator(3, "una", TRUE),
           Cmd(4, "setBoardMember", "una",
               [board |-> "pub", user |-> "vic", on |-> TRUE, grant |-> {"posts"}, revoke |-> {}]),
           Cmd(5, "setRecommendedBoard", "ada", [board |-> "pub", on |-> TRUE]),
           Cmd(6, "setBoardZap", "vic", [board |-> "pub", on |-> TRUE])})

Folder(n) == <<"fav", n, 0>>
NewFolder(n, parent) == Cmd(n, "createFavoriteFolder", "una", [parent |-> parent])
MoveFolder(n, f, parent) == Cmd(n, "updateFavoriteFolder", "una", [folder |-> Folder(f), parent |-> parent])
Favorites(mode) ==
    Scene("favorites_" \o mode, mode, {}, <<NewFolder(1, NoId), NewFolder(2, NoId)>>,
          {MoveFolder(3, 1, Folder(2)), MoveFolder(4, 2, Folder(1)),
           Cmd(5, "deleteFavoriteFolder", "una", [folder |-> Folder(2)]),
           Cmd(6, "setBoardFavorite", "una", [board |-> "pub", folder |-> Folder(2), on |-> TRUE]),
           Cmd(7, "moveBoardFavorite", "una", [board |-> "pub", folder |-> Folder(1)]),
           Cmd(8, "importFavoriteTree", "una",
               [folders |-> <<0, 1>>, boards |-> Fn({<<"pub", 2>>}), replace |-> TRUE])})

Dig(n) == <<"dig", n, 0>>
Digest(mode) ==
    Scene("digest_" \o mode, mode, {},
          <<NewThread(1, "una", "pub", {"tea"}),
            Cmd(2, "curatePost", "mod", [target |-> Post(1), kind |-> "digest", path |-> <<1>>])>>,
          {Cmd(3, "moveDigestPath", "mod", [board |-> "pub", kind |-> "digest", from |-> <<1>>, to |-> <<2>>]),
           Cmd(4, "copyDigestPath", "mod", [board |-> "pub", kind |-> "digest", from |-> <<1>>, to |-> <<2>>]),
           Cmd(5, "updateDigestEntry", "mod", [entry |-> Dig(2), path |-> <<1, 1>>]),
           Cmd(6, "curateThread", "mod", [target |-> Thread(1), kind |-> "announcement", path |-> <<>>]),
           Cmd(7, "deleteDigestPath", "mod", [board |-> "pub", kind |-> "digest", path |-> <<1>>]),
           Cmd(8, "curatePost", "ada", [target |-> Post(1), kind |-> "digest", path |-> <<1>>])})

Directories(mode) ==
    Scene("directories_" \o mode, mode, {},
          <<NewThread(1, "una", "pub", {"tea"}),
            Cmd(2, "curatePost", "mod", [target |-> Post(1), kind |-> "digest", path |-> <<1>>])>>,
          {Cmd(3, "createDigestDirectory", "mod", [board |-> "pub", kind |-> "digest", path |-> <<1>>]),
           Cmd(4, "createDigestDirectory", "ada", [board |-> "pub", kind |-> "digest", path |-> <<1>>]),
           Cmd(5, "setDigestEntryBody", "mod", [entry |-> Dig(2), body |-> "new"]),
           Cmd(6, "removeDigestEntry", "mod", [entry |-> Dig(2)]),
           Cmd(7, "copyDigestPath", "mod", [board |-> "pub", kind |-> "digest", from |-> <<1>>, to |-> <<1, 2>>]),
           Cmd(8, "sendDigestEntryMail", "vic",
               [entry |-> Dig(2), to |-> {"una"}, groups |-> {}, friends |-> FALSE, all |-> FALSE,
                replyTo |-> NoId, saveSent |-> FALSE, atts |-> 0])})

Mailbox(n, a, m, box) == Cmd(n, "updateMail", a, [mail |-> <<"mail", m>>, patch |-> [mailbox |-> box]])
Mail(mode) ==
    Scene("mail_" \o mode, mode, {}, <<MailTo(1, "una", {"vic"}, 0), Mailbox(2, "vic", 1, "trash")>>,
          {MailTo(3, "ada", {"vic"}, 1), MailTo(4, "mod", {"vic"}, 0), Mailbox(5, "vic", 1, "inbox"),
           Cmd(6, "attachMail", "una", [mail |-> <<"mail", 1>>, id |-> NoId]),
           Cmd(7, "deleteMail", "vic", [mail |-> <<"mail", 4>>]),
           Cmd(8, "forwardMail", "vic", [mail |-> <<"mail", 3>>, to |-> {"una"}, groups |-> {}, friends |-> FALSE,
                                         all |-> FALSE, replyTo |-> NoId, saveSent |-> FALSE, atts |-> 0])})

Groups(mode) ==
    Scene("groups_" \o mode, mode, {}, <<NewThread(1, "vic", "pub", {"tea"})>>,
          {Cmd(2, "setMailGroup", "una", [group |-> NoId, name |-> "pals", members |-> {"vic"}]),
           Cmd(3, "setMailGroup", "una", [group |-> NoId, name |-> "pals", members |-> {"vic", "mod"}]),
           Cmd(4, "sendMail", "una", [to |-> {}, groups |-> {<<"mgrp", 2>>}, friends |-> FALSE, all |-> FALSE,
                                      replyTo |-> NoId, saveSent |-> FALSE, atts |-> 0]),
           Cmd(5, "deleteMailGroup", "una", [group |-> <<"mgrp", 2>>]),
           Cmd(6, "sendMail", "ada", [to |-> {}, groups |-> {}, friends |-> FALSE, all |-> TRUE,
                                      replyTo |-> NoId, saveSent |-> FALSE, atts |-> 0]),
           Cmd(7, "mailPostAuthor", "una", [post |-> Post(1), saveSent |-> TRUE]),
           Cmd(8, "postMailToBoard", "vic", [mail |-> <<"mail", 6>>, board |-> "pub", thread |-> NoId])})

Social(mode) ==
    Scene("social_" \o mode, mode, {}, <<Relate(1, "una", "vic", "friend")>>,
          {Cmd(2, "sendDirectMessage", "vic", [to |-> "una"]), Relate(3, "una", "vic", "ignore"),
           Cmd(4, "setDirectMessageSettings", "una", [policy |-> "none"]),
           Cmd(5, "markDirectMessageRead", "una", [message |-> <<"dm", 2>>]),
           Cmd(6, "deleteDirectMessage", "vic", [message |-> <<"dm", 2>>]),
           Cmd(7, "setLoginWatch", "una", [user |-> "vic", active |-> TRUE]),
           Cmd(8, "blessUser", "vic", [user |-> "una"]),
           Cmd(9, "deleteDirectMessage", "una", [message |-> <<"dm", 2>>])})

React(n, a, emoji) == Cmd(n, "reactPost", a, [post |-> Post(1), emoji |-> emoji])
Vote(n, a, option) == Cmd(n, "votePoll", a, [poll |-> <<"pol", Post(1)>>, option |-> option])
Traffic(mode) ==
    Scene("traffic_" \o mode, mode, {}, <<NewThread(1, "una", "pub", {"tea", "poll"})>>,
          {React(2, "vic", "+"), React(3, "una", "+"), Cmd(4, "unreactPost", "vic", [post |-> Post(1)]),
           Vote(5, "vic", 1), Vote(6, "vic", 2), Vote(7, "una", 2),
           Cmd(8, "CheckpointCounters", "ada", [x |-> 0])})

Reading(mode) ==
    Scene("reading_" \o mode, mode, {},
          <<NewThread(1, "una", "pub", {"tea", "poll"}),
            Cmd(2, "setBoardFavorite", "una", [board |-> "pub", folder |-> NoId, on |-> TRUE])>>,
          {Reply(3, "vic", 1, {"milk"}), Cmd(4, "markBoardRead", "una", [board |-> "pub"]),
           Cmd(5, "restoreBoardRead", "una", [board |-> "pub"]),
           Cmd(6, "markFavoriteFolderRead", "una", [folder |-> NoId]),
           Cmd(7, "restoreFavoriteFolderRead", "una", [folder |-> NoId]),
           Cmd(8, "markThreadRead", "una", [thread |-> Thread(1)]),
           Cmd(9, "restoreThreadRead", "una", [thread |-> Thread(1)]),
           Cmd(10, "markPostRead", "una", [post |-> Post(1)])})

Stats(mode) ==
    Scene("stats_" \o mode, mode, {"clock"}, <<NewThread(1, "una", "pub", {"tea", "poll", "brief"})>>,
          {Cmd(2, "publishStatsSnapshot", "ada", [date |-> 0]),
           Cmd(3, "publishStatsSnapshot", "ada", [date |-> 1]),
           Cmd(4, "publishPollResult", "una", [poll |-> <<"pol", Post(1)>>]),
           Vote(5, "vic", 1)})

\* una is told nothing of the thread, or of vic's posts.
Muted(mode) ==
    Scene("muted_" \o mode, mode, {"outbox"}, <<NewThread(1, "mod", "pub", {"tea"})>>,
          {Cmd(2, "setThreadPref", "una", [thread |-> Thread(1), level |-> "mute"]),
           Relate(3, "una", "vic", "ignore"), Reply(4, "vic", 1, {"una"})})

\* una moderates a board, and nothing else.
Deputies(mode) ==
    Scene("deputies_" \o mode, mode, {},
          <<Cmd(1, "setBoardModerator", "ada", [board |-> "pub", user |-> "una", on |-> TRUE]),
            NewThread(2, "vic", "pub", {"tea"})>>,
          {Mute(3, "una", "vic", "pub"), Mute(4, "una", "vic", "global"),
           Cmd(5, "clearUserSanction", "una", [user |-> "vic", kind |-> "", scope |-> "pub"]),
           Cmd(6, "attachPost", "una", [post |-> Post(2)]),
           Cmd(7, "redactPost", "una", [post |-> Post(2)]),
           Reply(8, "vic", 2, {"milk"})})

\* The outbox worker and the feeds.
Following(mode) ==
    Scene("following_" \o mode, mode, {"outbox", "feeds"},
          <<NewThread(1, "una", "pub", {"tea"}),
            Cmd(2, "setThreadPref", "mod", [thread |-> Thread(1), level |-> "watch"])>>,
          {Reply(3, "vic", 1, {"una"}),
           Cmd(4, "redactPost", "mod", [post |-> Post(3)]),
           Cmd(5, "moveThread", "mod", [thread |-> Thread(1), to |-> "prv"]),
           Cmd(6, "restorePost", "mod", [post |-> Post(3)])})

\* A derived view, its processor, and threads and posts that come and go; for
\* the other two views, an entry of the digest that is edited, and a blessing.
Pick(s, ns) == [s EXCEPT !.cmds = {c \in @ : c.n \in ns}]
Viewing(v) ==
    Pick(Scene("viewing_" \o v, "direct", {v},
          <<SetMember(1, "prv", "una", TRUE, {}), NewThread(2, "una", "prv", {"tea"}),
            Cmd(3, "curatePost", "mod", [target |-> Post(2), kind |-> "digest", path |-> <<1>>])>>,
          {Reply(4, "una", 2, {"milk"}), Cmd(5, "redactPost", "mod", [post |-> Post(4)]),
           Cmd(6, "moveThread", "mod", [thread |-> Thread(2), to |-> "pub"]),
           Cmd(7, "setDigestEntryBody", "mod", [entry |-> Dig(3), body |-> "new"]),
           Cmd(8, "blessUser", "vic", [user |-> "una"])}),
         IF v \in {"rankings.archives", "rankings.blessings"} THEN {7, 8} ELSE {4, 5, 6})

\* The feeds are late, and members come and go.
Leaving(mode) ==
    Scene("leaving_" \o mode, mode, {"feeds"},
          <<SetMember(1, "prv", "una", TRUE, {}), NewThread(2, "vic", "pub", {"tea"})>>,
          {Reply(3, "vic", 2, {"milk"}), Cmd(4, "moveThread", "mod", [thread |-> Thread(2), to |-> "prv"]),
           SetMember(5, "prv", "una", FALSE, {}), Cmd(6, "setBoardZap", "una", [board |-> "pub", on |-> TRUE]),
           Cmd(7, "moveThread", "mod", [thread |-> Thread(2), to |-> "pub"])})

\* Posts are searched while the table or the index follows the log.
Searching(how) ==
    [Scene("searching_" \o how, "direct", {PostSearchView}, <<>>,
          {Reply(3, "vic", 1, {"milk", "poll"}), Cmd(4, "editPost", "una", [post |-> Post(1), body |-> {"milk"}]),
           Cmd(5, "redactPost", "mod", [post |-> Post(1)]), Cmd(6, "restorePost", "mod", [post |-> Post(1)]),
           Cmd(7, "moveThread", "mod", [thread |-> Thread(1), to |-> "prv"]),
           Cmd(8, "moveThread", "mod", [thread |-> Thread(1), to |-> "pub"])})
     EXCEPT !.base.search = how, !.setup = <<NewThread(1, "una", "pub", {"tea"})>>]

\* A backfill of a forum at rest.
Resting ==
    [Scene("resting", "direct", {"backfill", "rankings.threads", PostSearchView},
           <<NewThread(1, "una", "pub", {"tea"})>>, {}) EXCEPT !.base.search = "external"]

All(mode) ==
    {Posting(mode), Automod(mode), Upkeep(mode), Ranges(mode), Moderation(mode), Members(mode),
     Offices(mode), Favorites(mode), Digest(mode), Directories(mode), Mail(mode), Groups(mode),
     Social(mode), Traffic(mode), Reading(mode), Stats(mode), Following(mode), Muted(mode), Deputies(mode),
     Leaving(mode)}

\* In the native way a few commands already interleave in many ways.
AutomodNative ==
    Scene("automod_native", "native", {}, <<AdsRule(2, <<"redact">>), NewThread(3, "una", "pub", {"tea"})>>,
          {Reply(4, "vic", 3, {"ads"}), Reply(5, "vic", 3, {"una"}),
           Cmd(6, "restorePost", "mod", [post |-> Post(4)]),
           Cmd(8, "deleteBoardAutomodRule", "mod", [id |-> <<"rule", 2>>, board |-> "pub"])})

NativeScenes ==
    {Pick(Posting("native"), {2, 3, 4, 7}), AutomodNative, Pick(Upkeep("native"), {3, 4, 5, 6, 7}),
     Pick(Ranges("native"), {3, 4, 5, 7, 9}), Pick(Moderation("native"), {4, 5, 6}),
     Pick(Members("native"), {2, 3, 4, 5}), Pick(Offices("native"), {1, 4, 6}),
     Pick(Favorites("native"), {3, 4, 5, 6}), Pick(Digest("native"), {3, 4, 5, 7, 8}),
     Pick(Directories("native"), {3, 5, 6, 7}), Pick(Mail("native"), {3, 4, 5, 6}),
     Pick(Groups("native"), {2, 3, 4, 5}), Pick(Social("native"), {2, 3, 5, 6, 7}),
     Pick(Traffic("native"), {2, 3, 4, 5, 6}), Pick(Stats("native"), {2}), Pick(Following("native"), {3, 4, 5, 6})}

MutedScenes == {Muted("direct")}

MCScenarios == All("direct") \cup {Viewing(v) : v \in DerivedViews} \cup {Resting, Searching("async"), Pick(Searching("external"), {4, 5, 6}), Pick(Searching("external"), {3, 7, 8})}
               \cup NativeScenes
=============================================================================
