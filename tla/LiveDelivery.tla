---------------------------- MODULE LiveDelivery ----------------------------
(***************************************************************************)
(* One live stream (a WebSocket, an SSE response or a series of long polls)*)
(* over the lossy bus.                                                     *)
(*                                                                         *)
(* Commands commit events to the durable log; after the commit the event   *)
(* is published to the in-process bus, which puts it in the bounded buffer *)
(* of every subscription with a matching scope and drops it when the       *)
(* buffer is full.  The stream keeps a durable cursor (a scalar seq and    *)
(* one offset per partition), replays a backlog from the log when it       *)
(* opens, and for every live event repairs the gap the cursor shows by     *)
(* replaying the log first.  A long poll answers from the log, or, when    *)
(* that has nothing new, with what the bus brings.  The client keeps a     *)
(* cursor of its own and resumes from it.                                  *)
(*                                                                         *)
(* The seq of an event is its place in log.  An event that the command     *)
(* handler of this node publishes has no partition offset, and the bus     *)
(* gives it its seq as one (ensureEventPartition); an event that the       *)
(* Postgres listener publishes was read from the log and has its real one. *)
(*                                                                         *)
(* Ephemeral events (no seq) are written without touching the cursor and   *)
(* are left out, as is the choice of the scopes: an event is in the        *)
(* stream's scopes or it is not.                                           *)
(***************************************************************************)
EXTENDS Integers, Sequences, FiniteSets, SequencesExt

CONSTANTS
    Partitions,    \* event partitions
    Streams,       \* the kinds of stream: pairs of a transport and a client
    Origins,       \* who publishes here: subset of {"handler", "listener"}
    Buffer,        \* defaultSubscriptionBuffer
    BacklogLimit,  \* events in the backlog of a resume
    GapLimit,      \* gapReplayLimit
    MaxSeq,        \* bound: events appended
    MaxFaults      \* bound: lost wakeups, failed replays and lost connections

ASSUME LiveConstants ==
    /\ Streams \subseteq {"ws", "sse", "longpoll"} \X {"partitions", "scalar"}
    /\ Origins \subseteq {"handler", "listener"}
    /\ {Buffer, BacklogLimit, GapLimit} \subseteq Nat \ {0}
    /\ {MaxSeq, MaxFaults} \subseteq Nat

VARIABLES
    stream,   \* the kind of this stream, which never changes
    log,      \* the events table, in seq order
    waiting,  \* seqs committed and not published yet
    phase,    \* the stream: "closed", "backlog", "resuming", "subscribing", "live"
    sub,      \* is the stream subscribed to the bus?
    queue,    \* seqs in the subscription's buffer
    cursor,   \* the stream's cursor
    seen,     \* the client's cursor
    got,      \* seqs the client has received, in order
    failed,   \* seqs that were missing when a gap replay failed
    faults    \* faults so far

vars == <<stream, log, waiting, phase, sub, queue, cursor, seen, got, failed, faults>>

Transport == stream[1]

\* The cursor the client keeps: "partitions" (useStream.ts) or "scalar"
\* (after=N, Last-Event-ID).
Client == stream[2]

-----------------------------------------------------------------------------
(* Events and cursors (proto/wire.go)                                      *)

Seqs == 1 .. MaxSeq
Event == [seq : Seqs, part : Partitions, off : Seqs]
Cursor == [seq : 0 .. MaxSeq, offs : [Partitions -> 0 .. MaxSeq]]
EmptyCursor == [seq |-> 0, offs |-> [p \in Partitions |-> 0]]

\* A row of the events table, as a replay returns it.
Stored(s) == [seq |-> s, part |-> log[s].part, off |-> log[s].off]

\* Mutant: the seq replaces an offset that is there.
EnsureEventPartition_Always(s) == [Stored(s) EXCEPT !.off = s]

\* The event as it leaves PublishLocal: one without an offset gets its seq.
EnsureEventPartition(s) ==
    IF log[s].from = "handler" THEN [Stored(s) EXCEPT !.off = s] ELSE Stored(s)

Known(c, p) == c.offs[p] > 0

ObserveEvent(c, e) ==
    [seq  |-> IF e.seq > c.seq THEN e.seq ELSE c.seq,
     offs |-> [c.offs EXCEPT ![e.part] = IF e.off > @ THEN e.off ELSE @]]

SeenEvent(c, e) ==
    IF Known(c, e.part) THEN e.off <= c.offs[e.part]
                        ELSE c.seq > 0 /\ e.seq <= c.seq

\* Mutant: no gaps in a partition.
PartitionGapBeforeEvent_Never(c, e) == FALSE

PartitionGapBeforeEvent(c, e) ==
    IF Known(c, e.part) THEN e.off > c.offs[e.part] + 1
                        ELSE e.off > 1 /\ \E p \in Partitions : Known(c, p)

\* Mutant: one missing event is no gap.
ScalarGapBeforeEvent_OneMore(c, e) == c.seq > 0 /\ e.seq > c.seq + 2

ScalarGapBeforeEvent(c, e) == c.seq > 0 /\ e.seq > c.seq + 1

PartitionOnly(c) == [c EXCEPT !.seq = 0]

\* Mutant: seqs are not compared across partitions.
DurableEventAtOrAfter_InPartition(m, e) == m.part = e.part /\ m.off >= e.off

\* Mutant: only the event itself is left out of its repair.
DurableEventAtOrAfter_Same(m, e) == m.seq = e.seq

DurableEventAtOrAfter(m, e) ==
    IF m.part = e.part THEN m.off >= e.off ELSE m.seq >= e.seq

-----------------------------------------------------------------------------
(* Replay from the durable log                                             *)

InScope(s) == log[s].in

\* At most limit events after the cursor, in seq order: by seq when the
\* cursor has one (or nothing), otherwise every partition from its offset,
\* from the start where the cursor has none.
ReplayCursor(c, limit) ==
    LET scalar == c.seq > 0 \/ \A p \in Partitions : ~Known(c, p)
        After(s) == IF scalar THEN s > c.seq
                              ELSE log[s].off > c.offs[log[s].part]
        hits == SetToSortSeq({s \in DOMAIN log : InScope(s) /\ After(s)},
                             LAMBDA a, b : a < b)
    IN  [i \in 1 .. (IF Len(hits) < limit THEN Len(hits) ELSE limit) |->
            Stored(hits[i])]

\* The cursor after a batch has been written.
Observed(c, batch) == FoldLeft(ObserveEvent, c, batch)

Gap(c, e) == PartitionGapBeforeEvent(c, e) \/ ScalarGapBeforeEvent(c, e)

Missed(c, e) ==
    LET from == IF PartitionGapBeforeEvent(c, e) THEN PartitionOnly(c) ELSE c
    IN  SelectSeq(ReplayCursor(from, GapLimit),
                  LAMBDA m : ~SeenEvent(c, m) /\ ~DurableEventAtOrAfter(m, e))

SeqsOf(batch) == [i \in DOMAIN batch |-> batch[i].seq]

-----------------------------------------------------------------------------
(* Appending and publishing                                                *)

Init ==
    /\ stream \in Streams
    /\ log = <<>>
    /\ waiting = {}
    /\ phase = "closed"
    /\ sub = FALSE
    /\ queue = <<>>
    /\ cursor = EmptyCursor
    /\ seen = EmptyCursor
    /\ got = <<>>
    /\ failed = {}
    /\ faults = 0

\* nextPartitionOffset: one more than the partition's last event.
NextPartitionOffset(p) == Cardinality({s \in DOMAIN log : log[s].part = p}) + 1

\* A command's transaction commits an event (appendEvent).
AppendEvent(p, in, from) ==
    /\ Len(log) < MaxSeq
    /\ log' = Append(log, [part |-> p, off |-> NextPartitionOffset(p),
                           in |-> in, from |-> from])
    /\ waiting' = waiting \cup {Len(log) + 1}
    /\ UNCHANGED <<stream, phase, sub, queue, cursor, seen, got, failed, faults>>

\* Mutant: the buffer has no limit.
PublishLocal_Unbounded(s) ==
    /\ waiting' = waiting \ {s}
    /\ queue' = IF sub /\ InScope(s) THEN Append(queue, s) ELSE queue
    /\ UNCHANGED <<stream, log, phase, sub, cursor, seen, got, failed, faults>>

\* PublishLocal, for this subscription: never blocks, drops when full.  The
\* commands of two command partitions may write to one event partition, so
\* that events are published in any order.
PublishLocal(s) ==
    /\ waiting' = waiting \ {s}
    /\ queue' = IF sub /\ InScope(s) /\ Len(queue) < Buffer
                THEN Append(queue, s) ELSE queue
    /\ UNCHANGED <<stream, log, phase, sub, cursor, seen, got, failed, faults>>

Fault ==
    /\ faults < MaxFaults
    /\ faults' = faults + 1

\* The event never reaches this node's bus: its writer stops between commit
\* and publish, or the listener is reconnecting.
WakeupLost(s) ==
    /\ Fault
    /\ waiting' = waiting \ {s}
    /\ UNCHANGED <<stream, log, phase, sub, queue, cursor, seen, got, failed>>

-----------------------------------------------------------------------------
(* The stream                                                              *)

\* The cursor a client sends: its partition offsets alone when it has any,
\* otherwise after=N.
ResumeCursor ==
    IF Client = "partitions" /\ \E p \in Partitions : Known(seen, p)
    THEN PartitionOnly(seen)
    ELSE [EmptyCursor EXCEPT !.seq = seen.seq]

\* The events of batch reach the client.
Write(batch) ==
    /\ got' = got \o SeqsOf(batch)
    /\ seen' = Observed(seen, batch)

WriteNothing == UNCHANGED <<got, seen>>

CloseStream ==
    /\ phase' = "closed"
    /\ sub' = FALSE
    /\ queue' = <<>>
    /\ cursor' = EmptyCursor

\* wsapi subscribes before it replays the backlog, httpapi after.
Open ==
    /\ phase = "closed"
    /\ phase' = "backlog"
    /\ sub' = (Transport = "ws")
    /\ cursor' = ResumeCursor
    /\ UNCHANGED <<stream, log, waiting, queue, seen, got, failed, faults>>

\* handleInbound: a resume on an open WebSocket.  A scalar client may leave
\* its cursor out and keep the stream's.
MidSessionResume ==
    /\ Transport = "ws" /\ phase = "live"
    /\ phase' = "resuming"
    /\ queue' = <<>>
    /\ cursor' \in {ResumeCursor} \cup (IF Client = "scalar" THEN {cursor} ELSE {})
    /\ UNCHANGED <<stream, log, waiting, sub, seen, got, failed, faults>>

AfterBacklog == IF Transport = "ws" THEN "live" ELSE "subscribing"

\* A long poll that finds events answers with them and is done.
ReplayBacklog ==
    /\ phase \in {"backlog", "resuming"}
    /\ LET batch == ReplayCursor(cursor, BacklogLimit)
       IN  /\ Write(batch)
           /\ IF Transport = "longpoll" /\ batch # <<>>
              THEN CloseStream
              ELSE /\ phase' = AfterBacklog
                   /\ cursor' = Observed(cursor, batch)
                   /\ UNCHANGED <<sub, queue>>
    /\ UNCHANGED <<stream, log, waiting, failed, faults>>

\* A failed backlog ends a new WebSocket and a long poll; a resumed
\* WebSocket and an SSE response go on without it.
BacklogFails ==
    /\ Fault
    /\ phase \in {"backlog", "resuming"}
    /\ IF phase = "backlog" /\ Transport # "sse"
       THEN CloseStream
       ELSE phase' = AfterBacklog /\ UNCHANGED <<sub, queue, cursor>>
    /\ WriteNothing
    /\ UNCHANGED <<stream, log, waiting, failed>>

\* handleEventsStream subscribes once the backlog is written, handleEvents
\* once it has turned out empty.
Subscribe ==
    /\ phase = "subscribing"
    /\ phase' = "live"
    /\ sub' = TRUE
    /\ UNCHANGED <<stream, log, waiting, queue, cursor, seen, got, failed, faults>>

\* The events DeliverWithGapRepair writes for e when its replay succeeds.
Repaired(e) ==
    IF SeenEvent(cursor, e) THEN <<>>
    ELSE IF Gap(cursor, e) THEN Append(Missed(cursor, e), e)
    ELSE <<e>>

Ready == phase = "live" /\ queue # <<>>

DeliverWithGapRepair ==
    /\ Ready /\ Transport # "longpoll"
    /\ LET batch == Repaired(EnsureEventPartition(Head(queue)))
       IN  /\ Write(batch)
           /\ cursor' = Observed(cursor, batch)
    /\ queue' = Tail(queue)
    /\ UNCHANGED <<stream, log, waiting, phase, sub, failed, faults>>

\* The gap replay fails: a WebSocket writes the event all the same, an SSE
\* response ends.
GapReplayFails ==
    /\ Fault
    /\ Ready /\ Transport # "longpoll"
    /\ LET e == EnsureEventPartition(Head(queue))
       IN  /\ ~SeenEvent(cursor, e) /\ Gap(cursor, e)
           /\ IF Transport = "ws"
              THEN /\ Write(<<e>>)
                   /\ cursor' = ObserveEvent(cursor, e)
                   /\ queue' = Tail(queue)
                   /\ failed' = failed \cup Range(SeqsOf(Missed(cursor, e)))
                   /\ UNCHANGED <<phase, sub>>
              ELSE CloseStream /\ WriteNothing /\ UNCHANGED failed
    /\ UNCHANGED <<stream, log, waiting>>

\* A long poll answers with what is in the buffer, as it is, and is done.
LongPollAnswers ==
    /\ Transport = "longpoll" /\ Ready
    /\ LET n == IF Len(queue) < BacklogLimit THEN Len(queue) ELSE BacklogLimit
       IN  Write([i \in 1 .. n |-> EnsureEventPartition(queue[i])])
    /\ CloseStream
    /\ UNCHANGED <<stream, log, waiting, failed, faults>>

LongPollTimesOut ==
    /\ Transport = "longpoll" /\ phase = "live"
    /\ WriteNothing
    /\ CloseStream
    /\ UNCHANGED <<stream, log, waiting, failed, faults>>

\* A write fails: the client has a prefix of the batch, the stream ends.
WriteFails ==
    /\ Fault
    /\ Transport # "longpoll"
    /\ LET batch == IF phase \in {"backlog", "resuming"}
                    THEN ReplayCursor(cursor, BacklogLimit)
                    ELSE Repaired(EnsureEventPartition(Head(queue)))
       IN  /\ \/ phase \in {"backlog", "resuming"}
              \/ Ready
           /\ \E k \in 0 .. Len(batch) - 1 : Write(SubSeq(batch, 1, k))
    /\ CloseStream
    /\ UNCHANGED <<stream, log, waiting, failed>>

\* The connection or the node goes away between two writes.
Disconnect ==
    /\ Fault
    /\ phase # "closed"
    /\ CloseStream
    /\ UNCHANGED <<stream, log, waiting, seen, got, failed>>

Next ==
    \/ \E p \in Partitions, in \in BOOLEAN, from \in Origins : AppendEvent(p, in, from)
    \/ \E s \in waiting : PublishLocal(s) \/ WakeupLost(s)
    \/ Open \/ MidSessionResume \/ ReplayBacklog \/ BacklogFails \/ Subscribe
    \/ DeliverWithGapRepair \/ GapReplayFails \/ LongPollAnswers \/ LongPollTimesOut
    \/ WriteFails \/ Disconnect

Spec == Init /\ [][Next]_vars

-----------------------------------------------------------------------------
(* Properties                                                              *)

\* Every variable has its type; the subscription's buffer never holds more
\* than PublishLocal's bounded channel can.
TypeOK ==
    /\ stream \in Streams
    /\ log \in Seq([part : Partitions, off : Seqs, in : BOOLEAN, from : Origins])
    /\ waiting \subseteq DOMAIN log
    /\ phase \in {"closed", "backlog", "resuming", "subscribing", "live"}
    /\ sub \in BOOLEAN
    /\ queue \in Seq(DOMAIN log) /\ Len(queue) <= Buffer
    /\ cursor \in Cursor /\ seen \in Cursor
    /\ got \in Seq(DOMAIN log)
    /\ failed \subseteq DOMAIN log
    /\ faults \in 0 .. MaxFaults

\* No event is written twice to a client, across its reconnects, although
\* the backlog, a gap repair and the bus may each bring it
\* (DeliverWithGapRepair: "skips events the consumer has already seen").
NoDuplicates == Transport # "longpoll" => IsInjective(got)

\* The client receives the events of one partition in the order of the log,
\* whatever the order in which the bus brings them.
InPartitionOrder ==
    Transport # "longpoll" => \A i, j \in DOMAIN got :
        i < j /\ log[got[i]].part = log[got[j]].part => got[i] < got[j]

\* Between two events of a partition that the client has, it has every event
\* of the partition in its scopes.
HoleFree ==
    \A i, j \in DOMAIN got : \A s \in got[i] .. got[j] :
        /\ log[got[i]].part = log[s].part
        /\ log[got[j]].part = log[s].part
        /\ InScope(s)
        => s \in Range(got) \cup failed

\* A partition reaches the client of a WebSocket or an SSE response without
\* holes: what the bus drops, the gap repair of DeliverWithGapRepair brings
\* before the next event, unless its replay fails on a WebSocket.
NoHoles == Transport # "longpoll" => HoleFree

\* A client that resumes with a seq (after=N, Last-Event-ID) receives the
\* events of all partitions in seq order over SSE.
SeqOrder == stream = <<"sse", "scalar">> => \A i, j \in DOMAIN got : i < j => got[i] < got[j]

\* Such a client misses no event between two that it has, in any partition.
NoSeqHoles ==
    stream = <<"sse", "scalar">> => \A i, j \in DOMAIN got : \A s \in got[i] .. got[j] :
        InScope(s) => s \in Range(got) \cup failed

\* No cursor, the client's or the stream's, names an offset that the log has
\* not given to an event: a replay after the cursor starts where it says.
CursorsInLog ==
    \A c \in {cursor, seen} : \A p \in Partitions :
        c.offs[p] <= Cardinality({s \in DOMAIN log : log[s].part = p})

\* What deliverEvent (wsapi/conn.go) says of a failed gap replay: "the gap
\* stays visible in the cursor, so a later durable event retries the
\* repair".
GapStaysVisible ==
    \A s \in failed :
        phase = "live" => s \in Range(got) \/ ~SeenEvent(cursor, Stored(s))

\* What the cursor shows as missing before e.
Gone(c, e) == {s \in DOMAIN log : /\ InScope(s)
                                  /\ ~SeenEvent(c, Stored(s))
                                  /\ ~DurableEventAtOrAfter(Stored(s), e)}

\* What gapReplayLimit says: it "bounds how many missed durable events a
\* single gap repair replays", so that a gap of no more events than that is
\* repaired.
LimitCountsMissed ==
    \A s \in Range(queue) :
        LET e == EnsureEventPartition(s)
        IN  /\ ~SeenEvent(cursor, e)
            /\ Gap(cursor, e)
            /\ Cardinality(Gone(cursor, e)) <= GapLimit
            => Gone(cursor, e) = Range(SeqsOf(Missed(cursor, e)))

=============================================================================
