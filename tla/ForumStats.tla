----------------------------- MODULE ForumStats -----------------------------
(***************************************************************************)
(* The statistics of the community: a row for each day, the history that   *)
(* lists make of them, and publishStatsSnapshot, which posts the lists of  *)
(* a day.  A day is a number; the calendar is the constant PeriodsEnding.  *)
(* A row holds the totals the tables of this model can count, the users    *)
(* online, and the most users online that day.  What the lists say beyond  *)
(* the history, the locations of the users online excepted, is formatting  *)
(* and left out.                                                           *)
(***************************************************************************)
EXTENDS ForumSocial

CONSTANTS
    StatsBoard,     \* the system board of the lists
    DailyLists,     \* the lists of every day
    TicksPerDay,
    PeriodsEnding(_)  \* the periods (week, month, year) whose last day a day is

DayOf(ts) == ts \div TicksPerDay

CommunityStatsSnapshotRecorded(day, row, ts) ==
    [k |-> "statsRecorded", day |-> day, row |-> row, ts |-> ts]

---------------------------------------------------------------------------
\* The rows.

OnLists(db, b) == b \notin SystemBoards

getCommunityStatsCurrent(db) ==
    LET listed == {t \in DOMAIN db.threads : OnLists(db, db.threads[t].board)} IN
    [users |-> Cardinality(DOMAIN db.role),
     boards |-> Cardinality({b \in DOMAIN db.boards : OnLists(db, b)}),
     threads |-> Cardinality(listed),
     posts |-> Cardinality({p \in DOMAIN db.posts :
                                ~db.posts[p].redacted /\ db.posts[p].thread \in listed}),
     mail |-> Cardinality(DOMAIN db.mail),
     dms |-> Cardinality(DOMAIN db.dms)]

CurrentRow(db) ==
    LET n == Cardinality(db.online) IN
    [at |-> db.now, totals |-> getCommunityStatsCurrent(db), online |-> n, most |-> n,
     mostAt |-> IF n > 0 THEN db.now ELSE 0, head |-> LastSeq(db)]

\* The most users online of a day are kept; everything else is replaced.
mergeCurrentCommunityStatSnapshot(old, new) ==
    IF old.most > new.most THEN [new EXCEPT !.most = old.most, !.mostAt = old.mostAt] ELSE new

KeepMost(old, new) ==
    IF new.most > old.most THEN new ELSE [new EXCEPT !.most = old.most, !.mostAt = old.mostAt]

UpsertCommunityStatHistory(db, day, row) ==
    [db EXCEPT !.history = Put(@, day, IF day \in DOMAIN @ THEN KeepMost(@[day], row) ELSE row)]

UpsertCommunityStatHistoryFromCurrent(db) ==
    UpsertCommunityStatHistory(db, DayOf(db.now), CurrentRow(db))

planCurrentCommunityStatSnapshot(db, day) ==
    IF day \in DOMAIN db.history
    THEN mergeCurrentCommunityStatSnapshot(db.history[day], CurrentRow(db)) ELSE CurrentRow(db)

---------------------------------------------------------------------------
\* The history of a list: days, the latest first, each with what changed since
\* the day before it in the list.

Latest(days, n) == {d \in days : Cardinality({e \in days : e > d}) < n}

\* A row the table has for the day of the snapshot is shown as it is there.
WithCurrent(rows, day, current) == IF day \in DOMAIN rows THEN rows ELSE Put(rows, day, current)

DayBefore(days, d) == {e \in days : e < d /\ \A x \in days : x < d => x <= e}

applyPlanCommunityStatHistoryDeltas(rows) ==
    [d \in DOMAIN rows |->
        LET before == DayBefore(DOMAIN rows, d) IN
        [row |-> rows[d],
         delta |-> IF before = {} THEN [f \in DOMAIN rows[d].totals |-> 0]
                   ELSE [f \in DOMAIN rows[d].totals |->
                            rows[d].totals[f] - rows[CHOOSE e \in before : TRUE].totals[f]]]]

Keep(rows, days) == [d \in DOMAIN rows \cap days |-> rows[d]]

\* One row more than shown is fetched, for the oldest row shown to differ from.
planCommunityStatHistoryRecent(history, day, current, limit) ==
    LET fetched == Keep(history, Latest(DOMAIN history, limit + 1))
        rows == WithCurrent(fetched, day, current)
        cut == Keep(rows, Latest(DOMAIN rows, limit + 1))
    IN Keep(applyPlanCommunityStatHistoryDeltas(cut), Latest(DOMAIN cut, limit))

planCommunityStatHistoryRange(history, day, current, from, to) ==
    LET range == Keep(history, from..to)
        rows == IF day \in from..to THEN WithCurrent(range, day, current) ELSE range
        before == Latest({d \in DOMAIN history : d < from}, 1)
        all == [d \in DOMAIN rows \cup before |-> IF d \in DOMAIN rows THEN rows[d] ELSE history[d]]
    IN Keep(applyPlanCommunityStatHistoryDeltas(all), DOMAIN rows)

---------------------------------------------------------------------------
\* publishStatsSnapshot(date): the lists of the day that are not there yet,
\* each in a transaction of its own.  date is a day, or 0 for today.

ListThread(list, day) == <<"list thr", list, day>>
ListPost(list, day) == <<"list pst", list, day>>
NormalizeStatsSnapshotDate(db, date) == IF date = 0 THEN DayOf(db.now) ELSE date

statsPeriodHistorySpecs(day) == {<<"period", x>> : x \in PeriodsEnding(day)}
statsHotTopicPeriodHistorySpecs(day) == {<<"hot topics", x>> : x \in PeriodsEnding(day)}

PlanStatsSnapshotSystemPosts(db, day) ==
    {list \in DailyLists \cup statsPeriodHistorySpecs(day) \cup statsHotTopicPeriodHistorySpecs(day) :
        ListThread(list, day) \notin DOMAIN db.threads}

ensureStatsSystemPost(db, a, list, day) ==
    appendGeneratedSystemPostTx(db, a, StatsBoard, ListThread(list, day), ListPost(list, day))

\* The handler records the row of today, whichever day the lists are of.
publishStatsSnapshot(db, a, p) ==
    LET day == NormalizeStatsSnapshotDate(db, p.date) IN
    IF ~IsAdmin(db, a) THEN Refused(db)
    ELSE Ack(FoldSet(LAMBDA list, d : ensureStatsSystemPost(d, a, list, day),
                     UpsertCommunityStatHistoryFromCurrent(db), PlanStatsSnapshotSystemPosts(db, day)))

\* The decider records the current totals as the row of the day of the lists.
decidePublishStatsSnapshot(db, a, p) ==
    LET day == NormalizeStatsSnapshotDate(db, p.date)
        lists == PlanStatsSnapshotSystemPosts(db, day)
        row == planCurrentCommunityStatSnapshot(db, day)
        board == IF lists # {} /\ StatsBoard \notin DOMAIN db.boards
                 THEN <<BoardCreated(StatsBoard, "", db.now)>> ELSE <<>>
        post(list) == <<ThreadNew(ListThread(list, day), StatsBoard, a, "system", db.now),
                        PostAppended(StatsBoard, ListPost(list, day), ListThread(list, day), a,
                                     {"system"}, {"system"}, NoId, {}, NoId, "", db.now)>>
    IN IF ~IsAdmin(db, a) THEN Refuse
       ELSE Decide(FoldSet(LAMBDA list, evs : evs \o post(list),
                           <<CommunityStatsSnapshotRecorded(day, row, db.now)>> \o board, lists))

applyCommunityStatsSnapshotRecorded(db, e) == UpsertCommunityStatHistory(db, e.day, e.row)

---------------------------------------------------------------------------
\* Where the roster of the lists says the users are: db.where maps users to
\* boards; "" is nowhere in particular, "hidden" a board that is not named.

shouldMaskStatsOnlineUserBoard(db, b) ==
    \/ b \in SystemBoards \/ b \notin DOMAIN db.boards
    \/ GetBoardSettings(db, b) \cap {"member_read", "stats_excluded"} # {}

maskStatsOnlineUserRosterLocations(db) ==
    [u \in db.online \cap DOMAIN db.where |->
        IF db.where[u] # "" /\ shouldMaskStatsOnlineUserBoard(db, db.where[u])
        THEN "hidden" ELSE db.where[u]]
=============================================================================
