-------------------------- MODULE EventMaterializer --------------------------
(***************************************************************************)
(* The projection of a broker event log into SQL                           *)
(* (internal/core/event_store_materializer.go).                            *)
(*                                                                         *)
(* A projection worker makes passes over the partitions, in order.  For    *)
(* each it reads the watermark, fetches a batch after it, and applies the  *)
(* batch and moves the watermark in one transaction.  The first error ends *)
(* the pass.  Every worker-role node that has the projection switched on   *)
(* runs such a worker, and nothing keeps two of them from the same         *)
(* partition: the watermark is read before the transaction begins.         *)
(*                                                                         *)
(* Events are of two kinds.  An insert (thread.new, post.appended, ...)    *)
(* adds a row with a primary key and fails when the row is there; a post   *)
(* also enqueues an outbox job.  An update (post.edited, thread.moved ...) *)
(* can be applied again.  The transaction is one step: two transactions    *)
(* with an event in common wait for each other at the row of that event in *)
(* the events table.                                                       *)
(***************************************************************************)
EXTENDS Integers, Sequences, FiniteSets, FiniteSetsExt

CONSTANTS
    Workers,        \* worker-role nodes, which may run a projection worker
    PartitionCount, \* event partitions, in the order of a pass
    BatchSize,      \* events fetched at a time
    PartitionLimit, \* partitions a pass may list
    MaxEvents,      \* bound: events appended
    MaxGaps,        \* bound: offsets missing from the broker log
    MaxFaults       \* bound: failed transactions and crashes

Partitions == 1 .. PartitionCount

ASSUME MaterializerConstants ==
    /\ {PartitionCount, BatchSize, PartitionLimit} \subseteq Nat \ {0}
    /\ {MaxEvents, MaxGaps, MaxFaults} \subseteq Nat

VARIABLES
    store,     \* [Partitions -> sequence of [off, kind]]: the broker log
    watermark, \* [Partitions -> Nat]: derived_view_watermarks.applied_seq
    applied,   \* [Partitions -> [Offsets -> Nat]]: times an event was applied
    running,   \* the workers that run: those of the worker-role nodes started
    task,      \* [Workers -> [pc, todo, started, batch]]: where a pass is
    gaps, faults

vars == <<store, watermark, applied, running, task, gaps, faults>>

Offsets == 1 .. MaxEvents + MaxGaps
Kinds == {"insert", "update"}
Pass(pc, todo) == [pc |-> pc, todo |-> todo, started |-> 0, batch |-> <<>>]
Idle == Pass("idle", {})

Init ==
    /\ store = [p \in Partitions |-> <<>>]
    /\ watermark = [p \in Partitions |-> 0]
    /\ applied = [p \in Partitions |-> [o \in Offsets |-> 0]]
    /\ running \in (SUBSET Workers) \ {{}}
    /\ task = [w \in Workers |-> Idle]
    /\ gaps = 0 /\ faults = 0

LastOffset(p) == IF store[p] = <<>> THEN 0 ELSE store[p][Len(store[p])].off

Fault == faults < MaxFaults /\ faults' = faults + 1

-----------------------------------------------------------------------------
\* The native writers append the next event, seldom after an offset that the
\* log has lost.
AppendEvent(p, kind) ==
    /\ SumFunction([q \in Partitions |-> Len(store[q])]) < MaxEvents
    /\ \E lost \in {0, 1} :
        /\ gaps + lost <= MaxGaps
        /\ gaps' = gaps + lost
        /\ store' = [store EXCEPT ![p] =
                       Append(@, [off |-> LastOffset(p) + 1 + lost, kind |-> kind])]
    /\ UNCHANGED <<watermark, applied, running, task, faults>>

Partition(w) == Min(task[w].todo)

\* listEventPartitionsWithLimit: too many partitions fail the pass before it
\* applies anything.
ListEventPartitions(w) ==
    LET listed == {p \in Partitions : store[p] # <<>>} IN
    /\ w \in running /\ task[w].pc = "idle"
    /\ IF listed = {} \/ Cardinality(listed) > PartitionLimit
       THEN UNCHANGED task
       ELSE task' = [task EXCEPT ![w] = Pass("lookup", listed)]
    /\ UNCHANGED <<store, watermark, applied, running, gaps, faults>>

LookupWatermark(w) ==
    /\ task[w].pc = "lookup"
    /\ task' = [task EXCEPT ![w].pc = "replay", ![w].started = watermark[Partition(w)]]
    /\ UNCHANGED <<store, watermark, applied, running, gaps, faults>>

\* Mutant: a pass ends with its first partition.
NextPartition_FirstOnly(w) == task' = [task EXCEPT ![w] = Idle]

NextPartition(w) ==
    LET rest == task[w].todo \ {Partition(w)}
    IN  task' = [task EXCEPT ![w] = IF rest = {} THEN Idle
                                    ELSE Pass("lookup", rest)]

PassFails(w) == task' = [task EXCEPT ![w] = Idle]

\* At most BatchSize events after an offset.
ReplayPartition(p, after) ==
    LET first == Cardinality({i \in DOMAIN store[p] : store[p][i].off <= after}) + 1
        last == first + BatchSize - 1
    IN  SubSeq(store[p], first, IF last < Len(store[p]) THEN last ELSE Len(store[p]))

\* Mutant: gaps within a batch are not looked for.
Contiguous_FirstOnly(batch, after) == batch[1].off = after + 1

Contiguous(batch, after) == \A i \in DOMAIN batch : batch[i].off = after + i

\* A gap fails the pass before the batch is applied.
FetchBatch(w) ==
    LET batch == ReplayPartition(Partition(w), task[w].started) IN
    /\ task[w].pc = "replay"
    /\ \/ batch = <<>> /\ NextPartition(w)
       \/ batch # <<>> /\ Contiguous(batch, task[w].started)
          /\ task' = [task EXCEPT ![w].pc = "apply", ![w].batch = batch]
       \/ batch # <<>> /\ ~Contiguous(batch, task[w].started) /\ PassFails(w)
    /\ UNCHANGED <<store, watermark, applied, running, gaps, faults>>

\* Mutant: an insert overwrites the row that is there.
Conflicts_Never(p, batch) == FALSE

\* Some row of the batch is in its table already.
Conflicts(p, batch) ==
    \E i \in DOMAIN batch : batch[i].kind = "insert" /\ applied[p][batch[i].off] > 0

\* Mutant: the offset after the batch.
Materialized_OneMore(w) ==
    LET p == Partition(w)
        batch == task[w].batch IN
    /\ applied' = [applied EXCEPT ![p] =
                     [o \in Offsets |-> @[o] + Cardinality({i \in DOMAIN batch : batch[i].off = o})]]
    /\ watermark' = [watermark EXCEPT ![p] = batch[Len(batch)].off + 1]

\* Mutant: the watermark is left one event behind.
Materialized_OneBehind(w) ==
    LET p == Partition(w)
        batch == task[w].batch IN
    /\ applied' = [applied EXCEPT ![p] =
                     [o \in Offsets |-> @[o] + Cardinality({i \in DOMAIN batch : batch[i].off = o})]]
    /\ watermark' = [watermark EXCEPT ![p] = batch[Len(batch)].off - 1]

\* The transaction's writes: projections, outbox jobs and watermark.
Materialized(w) ==
    LET p == Partition(w)
        batch == task[w].batch IN
    /\ applied' = [applied EXCEPT ![p] =
                     [o \in Offsets |-> @[o] + Cardinality({i \in DOMAIN batch : batch[i].off = o})]]
    /\ watermark' = [watermark EXCEPT ![p] = batch[Len(batch)].off]

Apply(w) ==
    /\ task[w].pc = "apply"
    /\ ~Conflicts(Partition(w), task[w].batch)
    /\ Materialized(w)
    /\ NextPartition(w)
    /\ UNCHANGED <<store, running, gaps, faults>>

\* A primary key is there already: rolled back.
ApplyConflicts(w) ==
    /\ task[w].pc = "apply"
    /\ Conflicts(Partition(w), task[w].batch)
    /\ PassFails(w)
    /\ UNCHANGED <<store, watermark, applied, running, gaps, faults>>

\* A read, a statement or the commit fails; a commit may have taken effect.
StepFails(w) ==
    /\ Fault
    /\ task[w].pc # "idle"
    /\ \/ UNCHANGED <<watermark, applied>>
       \/ task[w].pc = "apply" /\ ~Conflicts(Partition(w), task[w].batch) /\ Materialized(w)
    /\ PassFails(w)
    /\ UNCHANGED <<store, running, gaps>>

Step(w) ==
    \/ ListEventPartitions(w) \/ LookupWatermark(w) \/ FetchBatch(w)
    \/ Apply(w) \/ ApplyConflicts(w) \/ StepFails(w)

Next ==
    \/ \E p \in Partitions, kind \in Kinds : AppendEvent(p, kind)
    \/ \E w \in Workers : Step(w)

Spec == Init /\ [][Next]_vars

\* The ticker of Run starts a pass again and again.
FairSpec == Spec /\ \A w \in Workers : WF_vars(Step(w))

-----------------------------------------------------------------------------
(***************************************************************************)
(* Properties.                                                             *)
(***************************************************************************)

\* Every variable has its type; a watermark never passes the offsets of the
\* log.
TypeOK ==
    /\ \A p \in Partitions : \A i \in DOMAIN store[p] : store[p][i] \in [off : Offsets, kind : Kinds]
    /\ watermark \in [Partitions -> Nat] /\ \A p \in Partitions : watermark[p] <= LastOffset(p)
    /\ applied \in [Partitions -> [Offsets -> Nat]]
    /\ \A w \in Workers : task[w].pc \in {"idle", "lookup", "replay", "apply"}
    /\ running \subseteq Workers /\ gaps \in 0 .. MaxGaps /\ faults \in 0 .. MaxFaults

Stored(p) == {store[p][i].off : i \in DOMAIN store[p]}

\* One worker-role node runs the projection.
OneWorker == \E w \in Workers : running = {w}

\* With one worker the projection of a partition is the log up to the
\* watermark, each event applied once, whatever fails ("advances a
\* partition-scoped watermark in the same transaction").
ExactPrefix ==
    OneWorker => \A p \in Partitions : \A o \in Offsets :
        applied[p][o] = IF o <= watermark[p] THEN 1 ELSE 0

\* Nothing is projected beyond an offset the log has lost ("fail closed on
\* partition offset gaps"), by any number of workers.
NothingPastGap ==
    \A p \in Partitions : \A o, q \in Offsets :
        o < q /\ o \notin Stored(p) /\ o < LastOffset(p) => applied[p][q] = 0

\* A post is inserted, and its post.committed job enqueued, once, whatever the
\* number of workers: the primary key undoes the transaction of the second.
InsertedOnce ==
    \A p \in Partitions : \A o \in Offsets :
        (\E i \in DOMAIN store[p] : store[p][i] = [off |-> o, kind |-> "insert"]) => applied[p][o] <= 1

HasGap(p) == Cardinality(Stored(p)) < LastOffset(p)

\* With one worker every event is projected in the end, unless its partition,
\* or one that a pass visits earlier, has a gap (MaterializeOnce returns at the
\* first error), or there are too many partitions.
EventuallyProjected ==
    \A p \in Partitions : \A o \in Offsets :
        o \in Stored(p) ~> \/ applied[p][o] > 0
                           \/ ~OneWorker
                           \/ \E q \in 1 .. p : HasGap(q)
                           \/ Cardinality({q \in Partitions : store[q] # <<>>}) > PartitionLimit

\* What is said of the worker: "subsequent runs are watermark no-ops", so that
\* the watermark never moves back.
WatermarkMonotonic == [][\A p \in Partitions : watermark'[p] >= watermark[p]]_vars

\* What is said of the workers: they "drain broker event partitions in bounded
\* batches until caught up".
CaughtUp == \A p \in Partitions : \A o \in Offsets : o \in Stored(p) ~> watermark[p] >= o
=============================================================================
