---------------------------- MODULE PresenceChat ----------------------------
(***************************************************************************)
(* The presence and chat stores kept in JetStream buckets                  *)
(* (natsconn/jetstream_presence_store.go, jetstream_chat_store.go), or in  *)
(* SQL tables (projections/mutations.go).                                  *)
(*                                                                         *)
(* Pings of a user are serialized by the user's partition, lines of a room *)
(* by the room's; pings of a guest session are not serialized.  A ping     *)
(* that repeats a recent one is not written; a ping that changes whether   *)
(* a guest is online also counts a login or a logout, and takes the record *)
(* back when the count cannot be written.  The presence bucket drops what  *)
(* was not written for its TTL.                                            *)
(***************************************************************************)
EXTENDS KeyValueBucket, SequencesExt

CONSTANTS
    Guests, Sessions,   \* guest sessions; sessions of users, <<user, session>>
    Rooms,
    CoalesceWindow, OnlineWindow, BucketTTL,
    HistoryLimit,       \* lines kept in a room
    ClockSkew,          \* how far the clock of a node may be behind
    MaxNow, MaxCalls    \* bounds: the clock, the calls started

VARIABLES
    request,   \* what each caller is doing
    calls,     \* started so far
    clock,     \* the time
    writtenAt, \* when each key was written, for the TTL
    pinged,    \* history: the last ping of a session that was answered
    dropped,   \* history: what the dropped records and counts take from the balance
               \* of guest logins and logouts
    astray,    \* history: a count or a record was left wrong by a failed call
    said,      \* history: the lines created in each room
    trimmed    \* history: rooms whose last line was inserted completely

presenceVars == <<bucketVars, request, calls, clock, writtenAt, pinged, dropped, astray, said, trimmed>>

ASSUME PresenceAssumption ==
    /\ CoalesceWindow \in Nat /\ OnlineWindow \in Nat /\ BucketTTL \in Nat /\ ClockSkew \in Nat
    /\ CoalesceWindow < OnlineWindow /\ OnlineWindow < BucketTTL
    /\ HistoryLimit \in Nat \ {0}

jetStreamPresenceSessionKey(s) == <<"presence_session", s>>
jetStreamGuestPresenceSessionKey(g) == <<"guest_presence_session", g>>
jetStreamGuestPresenceTotalLoginsKey == <<"guest_presence_count", "logins">>
jetStreamGuestPresenceTotalLogoutsKey == <<"guest_presence_count", "logouts">>
jetStreamChatRoomKey(r) == <<"chat_room", r>>
jetStreamChatLineKey(r, ts, id) == <<"chat_line", r, ts, id>>

jetStreamGuestPresenceStatusCountsOnline(status) == status \notin {"", "offline", "inactive"}
jetStreamPresenceStatusCountsOnline(status) ==
    status \notin {"", "offline", "invisible", "cloak"}

Recent(previous, next) == next.at <= previous.at \/ next.at - previous.at < CoalesceWindow

SameState(previous, next) == previous.status = next.status /\ previous.place = next.place

jetStreamGuestPresenceCanCoalesce(previous, next) == SameState(previous, next) /\ Recent(previous, next)
jetStreamPresenceCanCoalesce(previous, next) ==
    /\ jetStreamPresenceStatusCountsOnline(next.status)
    /\ SameState(previous, next) /\ Recent(previous, next)

---------------------------------------------------------------------------
\* Reading: what the online list, the room lists and the totals show.

SessionRecords == {k \in DOMAIN kv : k[1] = "presence_session"}
Seen(k) == kv[k].at + OnlineWindow >= clock

jetStreamPresenceRecordVisible(k, viewerCanSeeCloak) ==
    /\ Seen(k)
    /\ kv[k].status \notin {"", "offline", "invisible"}
    /\ kv[k].status = "cloak" => viewerCanSeeCloak

ListOnlineUsers(viewerCanSeeCloak) ==
    {k[2][1] : k \in {i \in SessionRecords : jetStreamPresenceRecordVisible(i, viewerCanSeeCloak)}}

chatSessions(room, viewerCanSeeCloak) ==
    {k[2] : k \in {i \in SessionRecords : /\ jetStreamPresenceRecordVisible(i, viewerCanSeeCloak)
                                          /\ kv[i].place = <<"chat", room>>}}

ListChatOnlineUsers(room, viewerCanSeeCloak) == {s[1] : s \in chatSessions(room, viewerCanSeeCloak)}

ChatOnlineCounts(room) ==
    Cardinality({k[2][1] : k \in {i \in SessionRecords :
                    /\ Seen(i) /\ kv[i].place = <<"chat", room>>
                    /\ jetStreamPresenceStatusCountsOnline(kv[i].status)}})

OnlineUsers ==
    {k[2][1] : k \in {i \in SessionRecords : Seen(i) /\ jetStreamPresenceStatusCountsOnline(kv[i].status)}}

GuestsOn == {k \in DOMAIN kv : /\ k[1] = "guest_presence_session"
                               /\ jetStreamGuestPresenceStatusCountsOnline(kv[k].status)}

TotalGuestLogins == CountOf(jetStreamGuestPresenceTotalLoginsKey)
TotalGuestLogouts == CountOf(jetStreamGuestPresenceTotalLogoutsKey)

Stats == [onlineUsers |-> Cardinality(OnlineUsers),
          onlineGuests |-> Cardinality({k \in GuestsOn : Seen(k)}),
          totalGuestLogins |-> TotalGuestLogins,
          totalGuestLogouts |-> TotalGuestLogouts]

roomLines(r) == {<<k[3], k[4]>> : k \in {i \in DOMAIN kv : i[1] = "chat_line" /\ i[2] = r}}

\* Lines are ordered by their time, then by their id.
Later(a, b) == a[1] > b[1] \/ (a[1] = b[1] /\ a[2] > b[2])
Newest(lines, n) == {l \in lines : Cardinality({m \in lines : Later(m, l)}) < n}

ListChatLines(r, limit) == SortSeq(SetToSeq(Newest(roomLines(r), limit)), LAMBDA a, b : Later(b, a))

---------------------------------------------------------------------------
NoCall == [op |-> "none", key |-> <<>>, rec |-> Absent, phase |-> "read", seen |-> Absent, tries |-> 0,
           was |-> Absent, count |-> <<>>]

PresenceInit ==
    /\ BucketInit
    /\ request = [c \in Callers |-> NoCall]
    /\ calls = 0 /\ clock = 0 /\ dropped = 0 /\ astray = FALSE
    /\ writtenAt = [k \in {} |-> 0]
    /\ pinged = [s \in Sessions |-> Absent]
    /\ said = [r \in Rooms |-> {}]
    /\ trimmed = Rooms

InCall(c) == request[c].op # "none"

Begin(c, op, k, rec) ==
    /\ ~InCall(c)
    /\ calls < MaxCalls
    /\ calls' = calls + 1
    /\ request' = [request EXCEPT ![c] = [NoCall EXCEPT !.op = op, !.key = k, !.rec = rec]]
    /\ UNCHANGED <<bucketVars, clock, writtenAt, pinged, dropped, astray, said, trimmed>>

\* The lock of the partition of the user, or of the room.
Unlocked(k) == \A d \in Callers : request[d].key # k

MayPing(s) == \A t \in Sessions : t[1] = s[1] => Unlocked(jetStreamPresenceSessionKey(t))

SetUserPresence(c, s, status, place) ==
    /\ MayPing(s)
    /\ Begin(c, "user", jetStreamPresenceSessionKey(s), [status |-> status, place |-> place, at |-> clock])

SetGuestPresence(c, g, status) ==
    Begin(c, "guest", jetStreamGuestPresenceSessionKey(g), [status |-> status, place |-> <<>>, at |-> clock])

InsertChatLine(c, r, ts) ==
    /\ Unlocked(jetStreamChatRoomKey(r))
    /\ Begin(c, "chat", jetStreamChatRoomKey(r), ts)

\* A call ends.  An answered ping is one that the session relies on.
End(c, ok) ==
    /\ request' = [request EXCEPT ![c] = NoCall]
    /\ pinged' = IF request[c].op = "user" THEN [pinged EXCEPT ![request[c].key[2]] = IF ok THEN request[c].rec ELSE Absent]
                 ELSE pinged

Phase(c, ph, seen) == request' = [request EXCEPT ![c].phase = ph, ![c].seen = seen]

\* A write under the last revision known.
Put(c, k, v) ==
    /\ WriteKey(c, k, v)
    /\ writtenAt' = [i \in (IF v = Absent THEN DOMAIN writtenAt \ {k} ELSE DOMAIN writtenAt \cup {k}) |->
                       IF i = k THEN clock ELSE writtenAt[i]]

Coalesced(c) ==
    /\ request[c].key \in DOMAIN kv
    /\ CASE request[c].op = "user" -> jetStreamPresenceCanCoalesce(kv[request[c].key], request[c].rec)
         [] request[c].op = "guest" -> /\ jetStreamGuestPresenceStatusCountsOnline(request[c].rec.status)
                                    /\ jetStreamGuestPresenceCanCoalesce(kv[request[c].key], request[c].rec)
         [] OTHER -> FALSE

ReadRecord(c) ==
    /\ InCall(c) /\ request[c].phase = "read"
    /\ Get(c, request[c].key)
    /\ IF Coalesced(c) THEN End(c, TRUE)
       ELSE Phase(c, "write", Value(request[c].key)) /\ UNCHANGED pinged
    /\ UNCHANGED <<faults, calls, clock, writtenAt, dropped, astray, said, trimmed>>

\* The record: that of the ping, or the room with the later of the two times.
Record(c) ==
    IF request[c].op # "chat" THEN request[c].rec
    ELSE IF request[c].seen = Absent \/ request[c].seen < request[c].rec THEN request[c].rec ELSE request[c].seen

On(rec) == rec # Absent /\ jetStreamGuestPresenceStatusCountsOnline(rec.status)

\* Mutant: only a session that was not there before counts as a login.
recordGuestPresenceTransition_New(was, is) ==
    IF was = Absent /\ On(is) THEN jetStreamGuestPresenceTotalLoginsKey
    ELSE IF On(was) /\ ~On(is) THEN jetStreamGuestPresenceTotalLogoutsKey ELSE <<>>

\* Which total a ping counts in, if any.
recordGuestPresenceTransition(was, is) ==
    IF ~On(was) /\ On(is) THEN jetStreamGuestPresenceTotalLoginsKey
    ELSE IF On(was) /\ ~On(is) THEN jetStreamGuestPresenceTotalLogoutsKey ELSE <<>>

AfterRecord(c) ==
    LET was == request[c].seen
        count == recordGuestPresenceTransition(was, request[c].rec) IN
    CASE request[c].op = "chat" -> Phase(c, "line", Absent) /\ UNCHANGED pinged
      [] request[c].op = "guest" /\ count # <<>> ->
            /\ request' = [request EXCEPT ![c].phase = "countRead", ![c].was = was, ![c].count = count,
                                    ![c].tries = 0, ![c].seen = Absent]
            /\ UNCHANGED pinged
      [] OTHER -> End(c, TRUE)

WriteRecord(c) ==
    /\ InCall(c) /\ request[c].phase = "write" /\ request[c].key \in fresh[c]
    /\ Put(c, request[c].key, Record(c))
    /\ AfterRecord(c)
    /\ UNCHANGED <<faults, calls, clock, dropped, astray, said, trimmed>>

ReadCount(c) ==
    /\ InCall(c) /\ request[c].phase = "countRead"
    /\ Get(c, request[c].count)
    /\ Phase(c, "countWrite", Value(request[c].count))
    /\ UNCHANGED <<faults, calls, clock, writtenAt, pinged, dropped, astray, said, trimmed>>

incrementPresenceCount(c) ==
    /\ InCall(c) /\ request[c].phase = "countWrite" /\ request[c].count \in fresh[c]
    /\ Put(c, request[c].count, IF request[c].seen = Absent THEN 1 ELSE request[c].seen + 1)
    /\ End(c, TRUE)
    /\ UNCHANGED <<faults, calls, clock, dropped, astray, said, trimmed>>

\* The count could not be written: the record goes back to what it was.  When
\* the session has been written meanwhile, its count is off from then on.
TakeBack(c) ==
    /\ astray' = (astray \/ request[c].key \notin fresh[c])
    /\ IF request[c].was # Absent
       THEN /\ request' = [request EXCEPT ![c].phase = "backRead", ![c].tries = 0]
            /\ UNCHANGED <<kv, fresh, writtenAt, pinged>>
       ELSE /\ End(c, FALSE)
            /\ IF request[c].key \in fresh[c] THEN Put(c, request[c].key, Absent)
               ELSE UNCHANGED <<kv, fresh, writtenAt>>

restoreGuestPresenceSessionRecord(c) ==
    /\ InCall(c)
    /\ \/ /\ request[c].phase = "backRead"
          /\ astray' = (astray \/ request[c].key \notin fresh[c])
          /\ Get(c, request[c].key)
          /\ Phase(c, "backWrite", Value(request[c].key))
          /\ UNCHANGED <<writtenAt, pinged>>
       \/ /\ request[c].phase = "backWrite" /\ request[c].key \in fresh[c]
          /\ Put(c, request[c].key, request[c].was)
          /\ End(c, FALSE)
          /\ UNCHANGED astray
    /\ UNCHANGED <<faults, calls, clock, dropped, said, trimmed>>

\* What a call does that fails at the step it is at.
GiveUp(c) ==
    CASE request[c].phase \in {"countRead", "countWrite"} -> TakeBack(c)
      [] request[c].phase \in {"backRead", "backWrite"} ->
            astray' = TRUE /\ End(c, FALSE) /\ UNCHANGED <<kv, fresh, writtenAt>>
      [] OTHER -> End(c, FALSE) /\ UNCHANGED <<kv, fresh, writtenAt, astray>>

Again == [write |-> "read", countWrite |-> "countRead", backWrite |-> "backRead"]

\* The revision is not the last one: once more, up to the number of attempts.
StaleRevision(c) ==
    /\ InCall(c) /\ request[c].phase \in DOMAIN Again
    /\ (IF request[c].phase = "countWrite" THEN request[c].count ELSE request[c].key) \notin fresh[c]
    /\ IF request[c].tries + 1 = BucketRetries THEN GiveUp(c)
       ELSE /\ request' = [request EXCEPT ![c].phase = Again[@], ![c].tries = @ + 1]
            /\ UNCHANGED <<kv, fresh, writtenAt, pinged, astray>>
    /\ UNCHANGED <<faults, calls, clock, dropped, said, trimmed>>

InsertLine(c) ==
    LET r == request[c].key[2]
        id == Cardinality(said[r]) IN
    /\ InCall(c) /\ request[c].phase = "line"
    /\ Put(c, jetStreamChatLineKey(r, request[c].rec, id), "line")
    /\ said' = [said EXCEPT ![r] = @ \cup {<<request[c].rec, id>>}]
    /\ trimmed' = trimmed \ {r}
    /\ Phase(c, "trim", Absent)
    /\ UNCHANGED <<faults, calls, clock, pinged, dropped, astray>>

Excess(r) == roomLines(r) \ Newest(roomLines(r), HistoryLimit)

\* The lines past the limit are deleted one by one.
trimRoom(c) ==
    LET r == request[c].key[2] IN
    /\ InCall(c) /\ request[c].phase = "trim"
    /\ IF Excess(r) = {}
       THEN /\ trimmed' = trimmed \cup {r}
            /\ End(c, TRUE)
            /\ UNCHANGED <<kv, fresh, writtenAt>>
       ELSE /\ \E l \in Newest(Excess(r), 1) : Put(c, jetStreamChatLineKey(r, l[1], l[2]), Absent)
            /\ UNCHANGED <<trimmed, request, pinged>>
    /\ UNCHANGED <<faults, calls, clock, dropped, astray, said>>

\* A call to the bucket fails: before it reached the bucket or, for the write
\* of the record, with only the answer lost.
CallFails(c) ==
    /\ faults < MaxFaults /\ InCall(c)
    /\ faults' = faults + 1
    /\ \/ GiveUp(c)
       \/ /\ request[c].phase = "write" /\ request[c].key \in fresh[c]
          /\ Put(c, request[c].key, Record(c))
          /\ astray' = (astray \/ (request[c].op = "guest" /\ On(request[c].seen) # On(request[c].rec)))
          /\ End(c, FALSE)
    /\ UNCHANGED <<calls, clock, dropped, said, trimmed>>

\* The process of the caller stops.
CallerCrashes(c) ==
    /\ faults < MaxFaults /\ InCall(c)
    /\ faults' = faults + 1
    /\ astray' = (astray \/ request[c].phase \in {"countRead", "countWrite", "backRead", "backWrite"})
    /\ End(c, FALSE)
    /\ Forget(c)
    /\ UNCHANGED <<kv, calls, clock, writtenAt, dropped, said, trimmed>>

\* The presence bucket drops a record, or a total, not written for the TTL.
ExpireKey(k) ==
    /\ k[1] \in {"presence_session", "guest_presence_session", "guest_presence_count"}
    /\ clock >= writtenAt[k] + BucketTTL
    /\ Drop(k)
    /\ writtenAt' = [i \in DOMAIN writtenAt \ {k} |-> writtenAt[i]]
    /\ dropped' = CASE k \in GuestsOn -> dropped + 1
                    [] k = jetStreamGuestPresenceTotalLoginsKey -> dropped - kv[k]
                    [] k = jetStreamGuestPresenceTotalLogoutsKey -> dropped + kv[k]
                    [] OTHER -> dropped
    /\ UNCHANGED <<faults, request, calls, clock, pinged, astray, said, trimmed>>

ClockTicks ==
    /\ clock < MaxNow
    /\ clock' = clock + 1
    /\ UNCHANGED <<bucketVars, request, calls, writtenAt, pinged, dropped, astray, said, trimmed>>

---------------------------------------------------------------------------
\* The same calls where presence and chat are kept in SQL tables
\* (projections/mutations.go): the rows are under the keys of the records.

UpsertRow(k, v) == kv' = [i \in DOMAIN kv \cup {k} |-> IF i = k THEN v ELSE kv[i]]

presencePingWithinCoalesceWindow(previous, next) == previous.at > 0 /\ Recent(previous, next)

Unchanged(c) ==
    /\ request[c].key \in DOMAIN kv
    /\ LET previous == kv[request[c].key] IN
       SameState(previous, request[c].rec) /\ presencePingWithinCoalesceWindow(previous, request[c].rec)

\* The time since the last ping counts as spent online, up to the online window.
presenceOnlineAccrualSeconds(previous, next) ==
    IF previous = Absent \/ ~jetStreamPresenceStatusCountsOnline(previous.status) \/ previous.at <= 0 THEN 0
    ELSE IF next.at - previous.at > OnlineWindow THEN OnlineWindow ELSE next.at - previous.at

OnlineSecondsKey(u) == <<"total_online_seconds", u>>
SummaryKey(u) == <<"user_presence", u>>

\* The statements of a user's ping are not one transaction.
setUserPresence(c) ==
    /\ request[c].op = "user" /\ request[c].phase = "read"
    /\ IF jetStreamPresenceStatusCountsOnline(request[c].rec.status) /\ Unchanged(c) THEN End(c, TRUE)
       ELSE Phase(c, "accrue", Value(request[c].key)) /\ UNCHANGED pinged
    /\ UNCHANGED <<bucketVars, calls, clock, writtenAt, dropped, astray, said, trimmed>>

RecordOnlineSeconds(c) ==
    LET k == OnlineSecondsKey(request[c].key[2][1])
        seconds == presenceOnlineAccrualSeconds(request[c].seen, request[c].rec) IN
    /\ request[c].phase = "accrue"
    /\ IF seconds > 0 THEN UpsertRow(k, CountOf(k) + seconds) ELSE UNCHANGED kv
    /\ Phase(c, "upsert", Absent)
    /\ UNCHANGED <<fresh, faults, calls, clock, writtenAt, pinged, dropped, astray, said, trimmed>>

UpsertSession(c) ==
    /\ request[c].phase = "upsert"
    /\ UpsertRow(request[c].key, request[c].rec)
    /\ Phase(c, "summary", Absent)
    /\ UNCHANGED <<fresh, faults, calls, clock, writtenAt, pinged, dropped, astray, said, trimmed>>

\* The session that is shown for the user: one that counts as online, the latest.
Foremost(k, l) ==
    LET on(i) == jetStreamPresenceStatusCountsOnline(kv[i].status) IN
    IF on(k) # on(l) THEN on(k) ELSE kv[k].at >= kv[l].at

SummaryOf(u) ==
    LET mine == {k \in SessionRecords : k[2][1] = u} IN
    kv[CHOOSE k \in mine : \A l \in mine : Foremost(k, l)]

refreshUserPresenceSummary(c) ==
    LET u == request[c].key[2][1] IN
    /\ request[c].phase = "summary"
    /\ UpsertRow(SummaryKey(u), SummaryOf(u))
    /\ End(c, TRUE)
    /\ UNCHANGED <<fresh, faults, calls, clock, writtenAt, dropped, astray, said, trimmed>>

\* A guest's ping is one transaction, but it locks nothing when it reads.
setGuestPresence(c) ==
    /\ request[c].op = "guest" /\ request[c].phase = "read"
    /\ IF jetStreamGuestPresenceStatusCountsOnline(request[c].rec.status) /\ Unchanged(c) THEN End(c, TRUE)
       ELSE Phase(c, "commit", Value(request[c].key)) /\ UNCHANGED pinged
    /\ UNCHANGED <<bucketVars, calls, clock, writtenAt, dropped, astray, said, trimmed>>

\* When another ping of the session has come between, its count is off.
CommitGuestPresence(c) ==
    LET k == request[c].key
        count == recordGuestPresenceTransition(request[c].seen, request[c].rec) IN
    /\ request[c].phase = "commit"
    /\ kv' = [i \in DOMAIN kv \cup {k} \cup ({count} \ {<<>>}) |->
                IF i = k THEN request[c].rec ELSE IF i = count THEN CountOf(i) + 1 ELSE kv[i]]
    /\ astray' = (astray \/ On(Value(k)) # On(request[c].seen))
    /\ End(c, TRUE)
    /\ UNCHANGED <<fresh, faults, calls, clock, writtenAt, dropped, said, trimmed>>

\* The line and what it pushes out of the room, in one transaction.
InsertChatLineTx(c) ==
    LET r == request[c].key[2]
        line == <<request[c].rec, Cardinality(said[r])>>
        kept == Newest(roomLines(r) \cup {line}, HistoryLimit) IN
    /\ request[c].op = "chat" /\ request[c].phase = "read"
    /\ kv' = [k \in {i \in DOMAIN kv : i[1] # "chat_line" \/ i[2] # r} \cup {request[c].key}
                    \cup {jetStreamChatLineKey(r, l[1], l[2]) : l \in kept} |->
                IF k = request[c].key THEN request[c].rec ELSE IF k[1] = "chat_line" THEN "line" ELSE kv[k]]
    /\ said' = [said EXCEPT ![r] = @ \cup {line}]
    /\ End(c, TRUE)
    /\ UNCHANGED <<fresh, faults, calls, clock, writtenAt, dropped, astray, trimmed>>

\* A statement fails, or the process stops before it: time may then count twice,
\* and the user's row stay behind, as the next ping finds nothing changed.
StatementFails(c) ==
    /\ faults < MaxFaults /\ InCall(c)
    /\ faults' = faults + 1
    /\ astray' = (astray \/ request[c].phase \in {"upsert", "summary"})
    /\ End(c, FALSE)
    /\ UNCHANGED <<kv, fresh, calls, clock, writtenAt, dropped, said, trimmed>>

---------------------------------------------------------------------------
Places == {<<>>} \cup {<<"chat", r>> : r \in Rooms}

StartsUserPing(c, sessions, places) ==
    \E s \in sessions, status \in {"active", "offline", "invisible", "cloak"}, place \in places :
        (status # "active" => place = <<>>) /\ SetUserPresence(c, s, status, place)

StartsGuestPing(c) == \E g \in Guests, status \in {"active", "offline"} : SetGuestPresence(c, g, status)

StartsLine(c) == \E r \in Rooms, ts \in {t \in 0..clock : t + ClockSkew >= clock} : InsertChatLine(c, r, ts)

\* Every call was made and has ended.
Through == (\A c \in Callers : ~InCall(c)) /\ calls = MaxCalls /\ clock = MaxNow /\ UNCHANGED presenceVars

PresenceSteps ==
    \/ \E c \in Callers :
          \/ ReadRecord(c) \/ WriteRecord(c) \/ ReadCount(c) \/ incrementPresenceCount(c)
          \/ restoreGuestPresenceSessionRecord(c) \/ StaleRevision(c)
          \/ InsertLine(c) \/ trimRoom(c)
          \/ CallFails(c) \/ CallerCrashes(c)
    \/ \E k \in DOMAIN kv : ExpireKey(k)
    \/ ClockTicks
    \/ Through

TableSteps ==
    \/ \E c \in Callers :
          \/ setUserPresence(c) \/ RecordOnlineSeconds(c) \/ UpsertSession(c) \/ refreshUserPresenceSummary(c)
          \/ setGuestPresence(c) \/ CommitGuestPresence(c) \/ InsertChatLineTx(c) \/ StatementFails(c)
    \/ ClockTicks
    \/ Through

---------------------------------------------------------------------------
\* A session whose last ping was answered is shown for at least the online
\* window less the coalescing window, in the list, in its room and in the
\* totals, although a repeated ping is not written; one that went offline or
\* invisible is not shown, and a cloaked one to moderators only.  The guests
\* that have logged in and not out are those whose record says so, although
\* pings of one session race each other and a count that cannot be written
\* takes the record back; only what the TTL dropped is missing.  In the SQL
\* tables the row of a user is that of the foremost session, and no more time
\* counts as spent online than has passed.
PresenceTrue ==
    /\ (~astray /\ \A c \in Callers : request[c].op # "guest") =>
          TotalGuestLogins = TotalGuestLogouts + Cardinality(GuestsOn) + dropped
    /\ \A s \in Sessions :
           (pinged[s] # Absent /\ Unlocked(jetStreamPresenceSessionKey(s))) =>
               LET others == \E t \in Sessions \ {s} : t[1] = s[1] /\ jetStreamPresenceSessionKey(t) \in DOMAIN kv
                   last == pinged[s] IN
               /\ (last.status = "active" /\ clock + CoalesceWindow <= last.at + OnlineWindow) =>
                     /\ s[1] \in ListOnlineUsers(FALSE) /\ Stats.onlineUsers >= 1
                     /\ \A r \in Rooms : last.place = <<"chat", r>> =>
                           s[1] \in ListChatOnlineUsers(r, FALSE) /\ ChatOnlineCounts(r) >= 1
               /\ (last.status = "cloak" /\ ~others) => s[1] \notin ListOnlineUsers(FALSE)
               /\ (last.status \in {"offline", "invisible"} /\ ~others) => s[1] \notin ListOnlineUsers(TRUE)
               /\ (~astray /\ SummaryKey(s[1]) \in DOMAIN kv /\ MayPing(s)) => kv[SummaryKey(s[1])] = SummaryOf(s[1])
               /\ ~astray => CountOf(OnlineSecondsKey(s[1])) <= clock * Cardinality({t \in Sessions : t[1] = s[1]})

\* A room whose last line was inserted completely holds the newest lines ever
\* said in it, up to the limit, whatever the clocks of the nodes that said
\* them; a line is never trimmed while an older one stays.
NewestKept ==
    \A r \in {r \in Rooms : said[r] # {}} :
        /\ Newest(said[r], HistoryLimit) \subseteq roomLines(r)
        /\ (r \in trimmed /\ Unlocked(jetStreamChatRoomKey(r))) =>
              Range(ListChatLines(r, HistoryLimit)) = Newest(said[r], HistoryLimit)

\* The presence and chat stores show what was pinged and said: PresenceTrue and
\* NewestKept, in the buckets and in the tables.
PresenceAndChatTrue == PresenceTrue /\ NewestKept
=============================================================================
