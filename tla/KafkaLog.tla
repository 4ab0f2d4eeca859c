------------------------------ MODULE KafkaLog ------------------------------
(***************************************************************************)
(* The command log and the event log on Kafka (kafkaconn), drained by the  *)
(* command-log workers of several nodes.                                   *)
(*                                                                         *)
(* Many logical partitions, the Keys, hash to one physical partition, so   *)
(* that the offset of a record counts the records of its neighbours too.   *)
(* A node fetches by key from a buffer of what it has polled; where it     *)
(* left off is kept per key in an index in the database.  With the native  *)
(* executor the event of a command and the offset of the command are       *)
(* written in one Kafka transaction, the position of the event being       *)
(* reserved in the database before.  A reader of the event topic hands out *)
(* the events of a partition in the order of these positions.              *)
(*                                                                         *)
(* A key is drained by one node at a time, which holds its lease           *)
(* (PartitionLease).  One physical partition of each topic and one event   *)
(* partition are modelled.                                                 *)
(***************************************************************************)
EXTENDS Integers, Sequences, FiniteSets, FiniteSetsExt

CONSTANTS
    Nodes, NoNode,
    Keys,             \* the logical partitions on the physical one
    BatchSize,        \* records of a fetch
    PollRecordLimit,  \* records of a poll, with the native executor
    MaxTakeovers, MaxMishaps,  \* bounds of the model, and one
    MaxExtent                  \* on the records, takeovers and mishaps together

\* A worker without a batch size has the default one; a poll limit is one if positive.
ASSUME KafkaAssumption == BatchSize \in Nat \ {0} /\ PollRecordLimit \in Nat \ {0}

VARIABLES
    native,      \* whether the node decides and appends events, or executes in the database
    topic,       \* the command topic: the keys of the records; the logical offset of the first is 1
    index,       \* command_log_partition_offsets
    member,      \* the node the consumer group assigns the physical partition to
    groupOffset, \* the offset committed for the group
    clients,     \* of each node: what it has buffered, and the session of its transactions
    drains,      \* of each key: the pass that drains it
    events,      \* the event topic
    lastOffset,  \* event_partition_offsets
    reader,      \* the reader of the event topic
    finished,    \* history: commands whose outcome is durable
    unrecorded,  \* history: those whose pass ended before the index knew
    takeovers, mishaps

kafkaVars == <<native, topic, index, member, groupOffset, clients, drains, events, lastOffset,
               reader, finished, unrecorded, takeovers, mishaps>>

Larger(a, b) == IF a > b THEN a ELSE b
Smaller(a, b) == IF a < b THEN a ELSE b

NewClient == [buffered |-> {}, committed |-> 0, polling |-> FALSE, locked |-> FALSE, revoked |-> FALSE]
Undrained == [at |-> "idle", node |-> NoNode, batch |-> {}, event |-> 0]

KafkaStart(modes, members) ==
    /\ native \in modes
    /\ topic = <<>> /\ index = [k \in Keys |-> [tail |-> 0, committed |-> 0]]
    /\ member \in members /\ groupOffset = 0
    /\ clients = [n \in Nodes |-> NewClient] /\ drains = [k \in Keys |-> Undrained]
    /\ events = <<>> /\ lastOffset = 0
    /\ reader = [polled |-> 0, watermark |-> 0, buffered |-> {}, applied |-> {}]
    /\ finished = {} /\ unrecorded = {} /\ takeovers = 0 /\ mishaps = 0

KafkaInit == KafkaStart(BOOLEAN, Nodes)

Room == Len(topic) + takeovers + mishaps < MaxExtent

\* Something goes wrong, or a node takes over or starts again.
Mishap == Room /\ mishaps < MaxMishaps /\ mishaps' = mishaps + 1 /\ UNCHANGED takeovers
Takeover == Room /\ takeovers < MaxTakeovers /\ takeovers' = takeovers + 1 /\ UNCHANGED mishaps
Smoothly == UNCHANGED <<mishaps, takeovers>>

---------------------------------------------------------------------------
\* The index of the partitions.

RecordCommandPartitionTail(idx, k, o) == [idx EXCEPT ![k].tail = Larger(@, o)]
RecordCommandPartitionCommit(idx, k, o) == [idx EXCEPT ![k].committed = Larger(@, o)]
CommittedOffset(k) == Smaller(index[k].committed, index[k].tail)

\* The row of the key is there before the record, and learns its offset after.
Produce(k) ==
    /\ Room /\ topic' = Append(topic, k)
    /\ \/ index' = RecordCommandPartitionTail(index, k, Len(topic')) /\ Smoothly
       \/ UNCHANGED index /\ Mishap
    /\ UNCHANGED <<native, member, groupOffset, clients, drains, events, lastOffset, reader, finished, unrecorded>>

ListCommandPartitions == {topic[o] : o \in DOMAIN topic}

---------------------------------------------------------------------------
\* Fetching the records of a key.

\* Mutant: the records of other keys do not hold up those that follow them.
BlockedBy_None(k, buffered, committed, after) == {}

\* The records of other keys that this client does not know to be committed.
BlockedBy(k, buffered, committed, after) ==
    {o \in buffered : o > after /\ topic[o] # k /\ o > committed}

\* The first records of the key after the offset, before any that blocks.
takeBufferedLocked(k, buffered, committed, after) ==
    LET blockers == BlockedBy(k, buffered, committed, after)
        mine == {o \in buffered : o > after /\ topic[o] = k /\ \A b \in blockers : o < b} IN
    [out |-> {o \in mine : Cardinality({p \in mine : p < o}) < BatchSize}, blocked |-> blockers # {}]

pollRecordLimit == IF native THEN PollRecordLimit ELSE BatchSize

\* What is polled: the consumer is set back to the offset of the key first.  A
\* poll that returns less is one made before the rest was produced.
Polled(n, after) ==
    IF member = n THEN after + 1 .. Smaller(after + pollRecordLimit, Len(topic)) ELSE {}

\* The buffer after a fetch: it polls if the buffer has nothing for it.
Buffered(n, k) ==
    LET had == clients[n].buffered
        got == takeBufferedLocked(k, had, clients[n].committed, CommittedOffset(k)) IN
    IF got.out # {} \/ got.blocked THEN had ELSE had \cup Polled(n, CommittedOffset(k))

FetchCommandRecords(n, k) ==
    takeBufferedLocked(k, Buffered(n, k), clients[n].committed, CommittedOffset(k)).out

\* A pass of the worker over the key: committed offset and fetch.  A fetch
\* that polls holds up rebalances until the pass is over.
FetchPartition(n, k) ==
    /\ drains[k] = Undrained /\ k \in ListCommandPartitions
    /\ LET got == FetchCommandRecords(n, k) IN
       /\ clients' = [clients EXCEPT ![n].buffered = Buffered(n, k),
                                     ![n].polling = got # {} /\ (@ \/ Buffered(n, k) # clients[n].buffered)]
       /\ IF got = {} THEN UNCHANGED <<drains, index>>
          ELSE /\ drains' = [drains EXCEPT ![k] = [at |-> "decide", node |-> n, batch |-> got, event |-> 0]]
               /\ index' = RecordCommandPartitionTail(index, k, Max(got))
    /\ Smoothly
    /\ UNCHANGED <<native, topic, member, groupOffset, events, lastOffset, reader, finished, unrecorded>>

---------------------------------------------------------------------------
\* Draining.

NodeOf(k) == drains[k].node
CommandOf(k) == Min(drains[k].batch)
GoesOn(k, at) == drains' = [drains EXCEPT ![k].at = at]

\* The pass is over, and rebalances are allowed again (AllowCommandLogRebalance).
EndsPass(k, cs) ==
    /\ drains' = [drains EXCEPT ![k] = Undrained]
    /\ clients' = [cs EXCEPT ![NodeOf(k)].polling = FALSE]

\* The session takes one transaction at a time.
BeginCommandEventTransaction(k) ==
    /\ native /\ drains[k].at = "decide" /\ ~clients[NodeOf(k)].locked
    /\ clients' = [clients EXCEPT ![NodeOf(k)].locked = TRUE]
    /\ \/ GoesOn(k, "allocate")
       \/ GoesOn(k, "commit")     \* a refused command has no event
    /\ Smoothly
    /\ UNCHANGED <<native, topic, index, member, groupOffset, events, lastOffset, reader, finished, unrecorded>>

\* Reserved for good, whatever becomes of the transaction.
AllocateEventPositions(k) ==
    /\ drains[k].at = "allocate"
    /\ lastOffset' = lastOffset + 1
    /\ drains' = [drains EXCEPT ![k] = [at |-> "append", node |-> @.node, batch |-> @.batch, event |-> lastOffset']]
    /\ Smoothly
    /\ UNCHANGED <<native, topic, index, member, groupOffset, clients, events, reader, finished, unrecorded>>

AppendEventRecord(k) ==
    /\ drains[k].at = "append"
    /\ events' = Append(events, [command |-> CommandOf(k), offset |-> drains[k].event,
                                 by |-> NodeOf(k), state |-> "open"])
    /\ GoesOn(k, "commit")
    /\ Smoothly
    /\ UNCHANGED <<native, topic, index, member, groupOffset, clients, lastOffset, reader, finished, unrecorded>>

\* The end of the transaction of node n.
Ended(n, state) == [i \in DOMAIN events |-> IF events[i].by = n /\ events[i].state = "open"
                                           THEN [events[i] EXCEPT !.state = state] ELSE events[i]]
Released(n) == [clients EXCEPT ![n].locked = FALSE, ![n].revoked = FALSE]

\* The commit of the events and of the offset of the command.  It aborts if the
\* group took the partition away meanwhile, and it may fail in doubt.
Commit(k) ==
    LET n == NodeOf(k) IN
    /\ drains[k].at = "commit"
    /\ \/ /\ ~clients[n].revoked
          /\ events' = Ended(n, "committed") /\ groupOffset' = CommandOf(k)
          /\ finished' = finished \cup {CommandOf(k)}
          /\ \/ GoesOn(k, "record") /\ clients' = Released(n) /\ Smoothly /\ UNCHANGED unrecorded
             \/ EndsPass(k, Released(n)) /\ unrecorded' = unrecorded \cup {CommandOf(k)} /\ Mishap
       \/ /\ IF clients[n].revoked THEN Smoothly ELSE Mishap
          /\ events' = Ended(n, "aborted") /\ EndsPass(k, Released(n))
          /\ UNCHANGED <<groupOffset, finished, unrecorded>>
    /\ UNCHANGED <<native, topic, index, member, lastOffset, reader>>

\* A call before the commit fails.
Abort(k) ==
    /\ drains[k].at \in {"allocate", "append", "commit"}
    /\ events' = Ended(NodeOf(k), "aborted") /\ EndsPass(k, Released(NodeOf(k)))
    /\ Mishap
    /\ UNCHANGED <<native, topic, index, member, groupOffset, lastOffset, reader, finished, unrecorded>>

\* The lease of the key is lost, and the context of the pass is cancelled.  In
\* a transaction, Abort and Commit return at once when they see that: the
\* transaction is left open, and the session is not released.
LosesClaim(k) ==
    /\ drains[k].at \in {"decide", "allocate", "append", "commit"}
    /\ EndsPass(k, clients)
    /\ Mishap
    /\ UNCHANGED <<native, topic, index, member, groupOffset, events, lastOffset, reader, finished, unrecorded>>

\* Without the native executor the command is executed in the database.
ExecuteCommandLogRecord(k) ==
    /\ ~native /\ drains[k].at = "decide"
    /\ finished' = finished \cup {CommandOf(k)}
    /\ GoesOn(k, "record")
    /\ Smoothly
    /\ UNCHANGED <<native, topic, index, member, groupOffset, clients, events, lastOffset, reader, unrecorded>>

recordCommittedOffset(c, o) ==
    [c EXCEPT !.committed = Larger(@, o), !.buffered = {b \in @ : b > o}]

\* The commit reaches the group, if no transaction carried it there, then the
\* buffer and then the index; either write may fail.
RecordCommandLogCommit(k) ==
    LET n == NodeOf(k)
        o == CommandOf(k)
        known == [clients EXCEPT ![n] = recordCommittedOffset(@, o)] IN
    /\ drains[k].at = "record"
    /\ \/ /\ groupOffset' = IF native THEN groupOffset ELSE o
          /\ index' = RecordCommandPartitionCommit(index, k, o)
          /\ IF drains[k].batch = {o} THEN EndsPass(k, known)
             ELSE /\ drains' = [drains EXCEPT ![k] = [at |-> "decide", node |-> n, batch |-> @.batch \ {o}, event |-> 0]]
                  /\ clients' = known
          /\ Smoothly /\ UNCHANGED unrecorded
       \/ /\ \/ groupOffset' = (IF native THEN groupOffset ELSE o) /\ EndsPass(k, known)
             \/ ~native /\ UNCHANGED groupOffset /\ EndsPass(k, clients)
          /\ unrecorded' = unrecorded \cup {o}
          /\ Mishap /\ UNCHANGED index
    /\ UNCHANGED <<native, topic, member, events, lastOffset, reader, finished>>

---------------------------------------------------------------------------
\* The consumer group and the transactions, as the broker keeps them.

InTransaction(n) == \E k \in Keys : NodeOf(k) = n /\ drains[k].at \in {"allocate", "append", "commit"}

\* The partition goes to another node, unless its node has polled and not yet
\* allowed it.
Rebalance(n) ==
    /\ Takeover /\ n # member /\ ~clients[member].polling
    /\ member' = n /\ clients' = [clients EXCEPT ![member].revoked = InTransaction(member)]
    /\ UNCHANGED <<native, topic, index, groupOffset, drains, events, lastOffset, reader, finished, unrecorded>>

\* A node starts again: its transaction is aborted, the partition assigned anew.
StartsAgain(n) ==
    LET lost == {k \in Keys : NodeOf(k) = n} IN
    /\ Takeover
    /\ clients' = [clients EXCEPT ![n] = NewClient]
    /\ drains' = [k \in Keys |-> IF k \in lost THEN Undrained ELSE drains[k]]
    /\ events' = Ended(n, "aborted")
    /\ unrecorded' = unrecorded \cup {CommandOf(k) : k \in {k \in lost : drains[k].at = "record"}}
    /\ member' \in IF member = n THEN Nodes ELSE {member}
    /\ UNCHANGED <<native, topic, index, groupOffset, lastOffset, reader, finished>>

\* The broker aborts a transaction that is left open.
TransactionTimesOut(n) ==
    /\ ~InTransaction(n) /\ \E i \in DOMAIN events : events[i].by = n /\ events[i].state = "open"
    /\ events' = Ended(n, "aborted")
    /\ UNCHANGED <<native, topic, index, member, groupOffset, clients, drains, lastOffset, reader,
                   finished, unrecorded, takeovers, mishaps>>

---------------------------------------------------------------------------
\* Reading the event topic.

\* A read-committed consumer sees nothing from the first open record on.
LastStableOffset ==
    IF \E i \in DOMAIN events : events[i].state = "open"
    THEN CHOOSE i \in 0..Len(events) - 1 : /\ events[i + 1].state = "open"
                                           /\ \A j \in 1..i : events[j].state # "open"
    ELSE Len(events)

\* Mutant: the events are handed out as far as they have been read.
LastContiguous_Any(read, n) == Max({n} \cup {e.offset : e \in read})

\* The last position up to which no event is missing.
LastContiguous(read, n) ==
    CHOOSE m \in n .. n + Cardinality(read) :
        /\ \A o \in n + 1 .. m : \E e \in read : e.offset = o
        /\ \A e \in read : e.offset # m + 1

\* One fetch and the application of what it returns.
FetchEventRecords ==
    \E upto \in reader.polled .. LastStableOffset :
    LET polled == {events[i] : i \in {j \in reader.polled + 1 .. upto : events[j].state = "committed"}}
        read == reader.buffered \cup {[offset |-> e.offset, command |-> e.command] : e \in polled}
        last == LastContiguous(read, reader.watermark) IN
    /\ reader' = [polled |-> upto, watermark |-> last, buffered |-> {e \in read : e.offset > last},
                  applied |-> reader.applied \cup {e \in read : e.offset <= last}]
    /\ Smoothly
    /\ UNCHANGED <<native, topic, index, member, groupOffset, clients, drains, events, lastOffset,
                   finished, unrecorded>>

KafkaNext ==
    \/ \E k \in Keys : Produce(k)
    \/ \E n \in Nodes, k \in Keys : FetchPartition(n, k)
    \/ \E k \in Keys :
          \/ BeginCommandEventTransaction(k) \/ AllocateEventPositions(k) \/ AppendEventRecord(k)
          \/ Commit(k) \/ Abort(k) \/ LosesClaim(k)
          \/ ExecuteCommandLogRecord(k) \/ RecordCommandLogCommit(k)
    \/ \E n \in Nodes : Rebalance(n) \/ StartsAgain(n) \/ TransactionTimesOut(n)
    \/ FetchEventRecords

---------------------------------------------------------------------------
\* The commands of a physical partition are finished in the order of their
\* offsets, although each key is drained by itself, by whatever node and with
\* whatever buffer; and neither the group nor the index counts a command as
\* done before its outcome is durable, or one after a command of another key
\* that is not (command_log_client.go).
\* While one client drains the partition, and knows of every commit, the next
\* command can be fetched, unless as many commands of other keys as a poll
\* returns lie between it and the last of its own key.
DrainedInOrder ==
    LET count == Cardinality(finished) IN
    /\ finished = 1..count
    /\ groupOffset <= count /\ \A k \in Keys : index[k].committed <= count
    /\ (/\ takeovers = 0 /\ unrecorded = {} /\ count < Len(topic)
        /\ \A k \in Keys : drains[k] = Undrained) =>
          LET k == topic[count + 1] IN
          count - CommittedOffset(k) >= pollRecordLimit \/ count + 1 \in FetchCommandRecords(member, k)

\* The events of a partition are handed out by their positions, each once and
\* none left behind: the reader waits only for a position that has no
\* committed event.  A command has one event, unless the pass that committed
\* its transaction ended before the index knew of it
\* (command_event_transaction.go, event_log_client.go).
EventsOnce ==
    LET committed == {i \in DOMAIN events : events[i].state = "committed"} IN
    /\ \A i, j \in committed : i # j => /\ events[i].offset # events[j].offset
                                        /\ events[i].command = events[j].command => events[i].command \in unrecorded
    /\ reader.applied = {[offset |-> events[i].offset, command |-> events[i].command] :
                           i \in {i \in committed : events[i].offset <= reader.watermark}}
    /\ {e.offset : e \in reader.applied} = 1..reader.watermark
    /\ \A i \in committed : i <= reader.polled => events[i].offset # reader.watermark + 1

\* A transaction that fails before its commit is aborted and gives the session
\* back: no session is held while its node is in no transaction
\* (AppendEventsAndCommitCommand; milestones-internet-scale.md:1174).
FailuresAborted == \A n \in Nodes : clients[n].locked => InTransaction(n)
=============================================================================
