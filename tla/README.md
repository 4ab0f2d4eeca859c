# A TLA+ verification project for budgie-bbs

budgie-bbs is a forum server built around commands and events. A client sends a
*command* (create a thread, reply, vote, ...); the command is executed by one
writer at a time per *partition*; a command that succeeds commits durable
*events*; projections and live subscribers follow the events. In its scaled-out
deployment commands go through a partitioned *command log* (NATS JetStream or
Kafka) that several server processes drain.

The modules here model the parts of the system in which processes, retries,
crashes and messages interleave, and the tables of the forum that commands and
events change. Each definition is translated from the Go source;
`PROJECT.json` maps it to the lines it stands for.

## 1. The parts of the system and how they interact

A front end hands a command to the handler (the *direct* way) or appends it to
the command log (the *native* way). Writer workers drain the log, one owner per
partition by lease or assignment, and either run the SQL handler or let the
native decider decide events, which they append to the event log. The projection
worker applies the events of a broker to the SQL tables; derived views, feeds and
the search index follow the tables' own log of events. Every committed event goes
to the live bus, which may drop it, and from there to the streams of clients,
which repair gaps from the log by cursor. Committed posts leave jobs in the
outbox, which the leader of the background workers runs. Reactions, votes,
presence and chat are kept in buckets of JetStream or in SQL, and accounts in SQL.

What is hard here, and what the modules are about: two workers that both take
themselves for the owner; a crash between an effect and the record of it; an
acknowledgement that is lost and a call that is repeated; a decision taken from a
stale projection; a watermark, cursor or cached tail that is behind; a drop, a
gap and a failed repair; closing against publishing; a mutation of several keys
without a transaction; two ways of executing a command that must agree, and a
rebuild that must agree with both.

## 2. Modules

Processes and messages:

| Module | Models (under `src/internal`) | State and actions |
|---|---|---|
| `CommandLogWorker` | the drain loop of `core/command_log_worker.go` with the SQL handler, receipts and processed rows | per worker: program counter, batch, offset in hand, handler state. Claim, read, fetch, refresh, execute in four handler steps, heartbeat, finalize, commit, restart, and a failing form of each call |
| `OrderedConsumer` | what a command partition promises | log, committed, settled; Accept, Settle, Commit |
| `BrokerPartition`, `PartitionLease` | `core/command_partition_claim.go` | the lease row, true time, wrong clocks; ReadClock, Upsert, SelectRow, ClaimFails |
| `JetStreamCommandLog` | `AppendCommand` of `natsconn/jetstream_command_log.go` | command subject, duplicate window, calls; read the tail, publish by compare-and-set, find the stored duplicate |
| `JetStreamCommitLog` | `CommitPartition` of the same file | commit subject, one tail cache per client; publish, reload, remember |
| `KafkaLog` | `kafkaconn`: command log, command-event transaction, event log | topics, group offset, index of logical partitions, buffers and sessions of nodes; produce, poll, fetch by key, transaction in steps, record, rebalance, restart, read events |
| `NativeDecision` | the native decider for the five commands on a post, the command-event transaction on JetStream, the projection | decision, append by stable id, commit, receipt, projection, duplicate window |
| `EventMaterializer` | `core/event_store_materializer.go` | broker log with gaps, watermarks, rows; list, look up, replay, apply, fail |
| `LiveDelivery` | one WebSocket, SSE or long-poll stream with its client | log, buffer, cursors; append, publish, drop, backlog, gap repair, reconnect |
| `LiveBus` | `core/pubsub.go` and `core/nats_bus.go` of one node | subscriptions, scope references, upstream subscriptions, duplicate memory, fan-out |
| `Outbox` | `core/outbox.go` and the leader election of `core/worker.go` | leader lock, sessions, loops, jobs; claim, process in steps, complete, fail |
| `KeyValueBucket`, `CounterStore` | `natsconn/jetstream_counter_store.go` | keys under compare-and-swap; reactions, votes, account deletion and repair, one key at a time with undo steps; deletion and repair take the keys in any order |
| `PresenceChat` | the presence and chat stores on buckets and in SQL | pings of users and guests, lines of rooms, expiry, trimming |
| `Accounts` | `core/account.go`, `twofactor.go`, `email_verification.go`, `captcha.go`, `httpapi/auth.go`, `middleware.go` | accounts, tokens, codes, records; every request in the steps between which others may come |

The tables of the forum. A database is one record; a query is an operator on it,
a command an operator from a database to a database:

| Module | Models |
|---|---|
| `Forum`, `ForumRules` | tables, queries and mutations (`core/projections`); rules and payloads shared by handler and decider (`core/commandrules`, `core/commandevents`) |
| `ForumPosts`, `ForumThreads` | commands that write posts; commands on existing posts and threads |
| `ForumModeration`, `ForumBoards` | reviews, sanctions, filters, automod, roles; board settings, offices, members, applications |
| `ForumFavorites`, `ForumDigest`, `ForumMail`, `ForumSocial`, `ForumStats`, `ForumReads` | favorites; digest entries and directories; mail and groups; messages, relations, blessings; statistics; read marks, preferences, reactions, votes |
| `ForumApply` | what an event does to the tables, in a rebuild and in the materializer |
| `ForumDerived`, `ForumListings` | derived views and their processors; what users read, and the search |
| `ForumDispatch` | the switches from command to handler, from command to decider, from event to table change |
| `ForumSystem` | the forum at work: scenarios of commands in any order, the direct way and the native way, with their background workers |

`MC...` modules give a module, or several that share no state, the constants,
scenarios and symmetry sets of a run; the other runs take the module itself.
`...Proofs` modules hold the theorems. A name that ends in `_Something` after the
name of a definition is a deliberate mistake: replacing the definition by it must
make a run fail.

A definition keeps the name of the code it translates where it can. An external
service (the JetStream server, Kafka, a NATS subscription) is modelled from how
the code uses it. `CommandLogWorker` is shown to implement `OrderedConsumer`; the
mapping is the identity on `log`, `committed` and the history variable `settled`,
the offsets for which an applied or failed receipt was written.

## 3. Runs

| Run | Instance | Shows |
|---|---|---|
| `worker` | 2 workers, 2 records, 1 id, 2 bodies, batch 2, 2 commit attempts, 2 faults, fair | commands execute in order; a second effect needs a processed row that was not written, not read or pruned; a committed command is reported; the workers implement `OrderedConsumer` with its fairness, so that every record is committed in the end |
| `broker` | 2 actors in each part; the lease with TTL 3, clock error 1, time to 4; appends of 1 id and 2 bodies with 2 attempts; commits of offsets to 2 with 2 clients; 2 posts, 1 poll, 3 jobs; 1 room, 3 calls; 2 people, 4 requests; 1 fault | the lease excludes and a refresh in time is granted; offsets are dense and the offset returned is that of the caller's command; the committed offset only grows; counts match identities; presence and chat show what was pinged and said; codes and tokens are spent once, a session that ended stays out, the records of an account agree |
| `native` | 1 writer, 2 of the 5 commands on a post, 2 faults, 1 change of rights, 5 expiries, fair | while the duplicate window is open, at most one event per command, in command order, and a consumed command gains none; every command is finalized in the end |
| `materializer` | 1 or 2 workers, 2 partitions, 3 events, batch 2, 1 gap, 1 fault, fair | nothing is projected beyond a gap; with one worker the projection is the log up to the watermark, each event once, and every event is projected in the end unless a gap is in its partition or in one the pass visits earlier |
| `live` | 4 kinds of stream, 2 partitions, 4 events, buffer 2, backlog 2, gap limit 4, 2 faults; Kafka with 2 nodes, 2 logical partitions, 1 takeover, 1 mishap | WebSocket and SSE clients get each event once, in partition order, without holes; commands on Kafka are finished in the order of the log, and each event is handed out once, by position |
| `bus` | 2 connections, 2 scopes, 2 events, memory of 1, 1 change of scopes or failed subscription | upstream subscriptions are those of the scopes in use; an event is sent once while it is remembered; what a connection is owed has been sent when nothing is on its way |
| `outbox` | 2 nodes, 2 loops, 1 post and the snapshot, 2 attempts, 3 presence changes, 2 faults, fair | one runner per post job, done means delivered, jobs settle unless a process died over them or their last update failed |
| `forum` | the scenarios of `MCForum`: 20 in the direct way, 16 in the native way, one for each derived view, the search in its three forms; 3 to 8 commands each, in any order | the rebuild gives back the rows; handler and decider agree; events of two partitions commute unless they are entangled; a partition stops only at a race of decisions; derived views, listings and search show what the tables have and the user may read; counters, board rules, mail quotas and sanctions hold |
| `live_hole` (violation) | SSE, events of the local handler, no fault | a dropped event is never repaired |
| `native_refused` (violation) | 1 writer, redactPost, 1 fault | a command that took effect is reported as failed |
| `forum_rebuild` (violation) | the native scenarios | a log with an application, a folder or a mail group makes the rebuild fail |
| `forum_told` (violation) | one scenario | the outbox tells a user who muted the thread or ignores the author |

In `live` the events come from the Postgres listener, which reads stored rows;
`live_hole` shows what differs for events the local handler publishes. In
`broker` and `live` a behaviour runs one of several parts that share no state.

### Bounds

Each instance has two of the actors that race, `native` excepted. The `worker`,
`native`, `live` and `outbox` runs have enough faults for a fault while another is
being repaired (a lost lease and a lost answer, for example); the others have one.
The buffers and memories of `live` and `bus` and the batch of `materializer` are
smaller than what goes through them. Some things are beyond these instances: the
batch of a command worker is as long as its log, so that a second batch only
follows a restart or a commit of part of the log; the materializer's limit on
partitions is never exceeded; one native writer does not meet another; in `bus` a
change of scopes and a failed subscription do not meet in one behaviour. The
theorems of section 4 have no such limits. The scenarios of `forum` bring together
the commands that read what the others write; commands of scenarios apart are not
mixed. Counters that grow without bound in the code are capped by guards with
constants named `Max...`. Symmetry is used in safety runs only.

Deadlock is not checked in `native`, `live`, `bus` and `forum`, where the
environment has nothing left to do when the bounded commands, events or
connections are used up.

### Fairness

Weak fairness is on the steps a process takes by itself: the drain loop and the
handler (`Run` starts a pass at every tick), lease expiry (time passes), the
projection worker's and the outbox's tickers, the ping that makes a leader step
down, and some node becoming leader (every worker-role node retries the lock). In
`native` the duplicate window passes, as time does. Clients, faults, restarts of
clients and changes of rights are never fair. Faults are bounded: failures stop
for long enough.

## 4. Proofs

The theorems hold for every value of the constants: any number of workers,
clients, records, attempts and faults. Every inductive invariant was checked by
TLC on the instance of the module's run before it was proved.

- `CommandLogWorkerProofs`: types, `CommittedSettled`, `ExecutesInOrder`,
  `CommitsInOrder`, `EffectOnce`, `CommittedReported`, and `Abstract!Safety`, the
  safety part of the refinement. `IInv` adds to the types that a record in hand
  lies in a batch that is part of the log (`BatchInv`), and that no drain is ahead
  of the committed offset and a worker about to commit has a verdict for its
  record (`ProgressInv`); this is what makes a late commit of a former owner
  harmless. `EffectOnce` rests on the partition lock: between CheckProcessed and
  RecordProcessed the command holds it, so a miss is still a miss when the command
  takes effect (`LockInv`, `BridgeInv`). `CommittedReported` rests on every verdict
  leaving a receipt or a processed row (`ReportedInv`). The refinement also needs
  that the settled offsets are a prefix (`PrefixInv`).
- `PartitionLogProofs`, for `JetStreamCommandLog`: types, `OffsetsDense`,
  `IdsUnique`, `AckedInLog`. The tail a call holds was once the tail of the subject, and sequences increase,
  so a record the server accepts was made from the record that is last now; every
  stored id is in the duplicate window or has left it.
  For `JetStreamCommitLog`: types, `CommitsIncrease`, `CacheCommitted`, by the same
  argument about the tails in calls and caches. For `PartitionLease`: types,
  `ExclusiveWhileFresh`, `RefreshSucceeds`. While a claim is fresh the row is the
  holder's and expires no earlier than the claim's clock reading can have said;
  clock readings are off by `Skew` at most.
- `NativeDecisionProofs`: `CommittedHasOutcome` for any number of writers, and
  `EventsInCommandOrder`: while the duplicate window is open, one event per command
  for any number of writers, and for one writer in command order; and for one
  writer the action property `SettledCommandsStaySettled`. No writer is ahead of the
  committed offset, and one about to commit has the outcome of its command on
  record (`InBatch`): that alone gives a committed command its outcome, however
  writers overlap. The open window holds every id appended (`WindowOpen`). A writer
  that is alone is exactly at the committed offset (`AtCommitted`), so what it
  appends is of the next command. Both conditions are needed: with a second writer
  TLC finds events out of order, and once the window has passed a second event of a
  command.
- `EventMaterializerProofs`: `NothingPastGap` and `InsertedOnce` for any number of
  workers, `ExactPrefix` for one. A watermark, the copy of it that a pass works
  from and the offset of every event applied have the whole log before them
  (`WholeBefore`, `Passes`). The copies matter: a worker may apply a batch it
  fetched under a watermark that another has moved since. For one worker the copy
  is the watermark.
- `OutboxProofs`: `OneRunner`, `DoneDelivered`, `SnapshotFresh`. A loop that works
  on a post has its row at running (`RowRunning`), and only a pending row is
  claimed, so that overlapping leaders do not share a post; what a loop has passed
  of a job is in the tables (`Staged`); a snapshot that is not as new as the last
  change is owed, stranded or still to be written by a loop (`SnapshotOwed`).
- `LiveBusProofs`, with `LiveBusPublishProofs`: `UpstreamExact`, `SentOnce`, `OwedSent`. Between the two halves
  of a call the filter of a subscription and its counted scopes differ by just the
  scopes of the call (`Connections`); a scope is counted once by each subscription
  that has it (`Counted`), and the count alone decides about the upstream
  subscription (`Upstream`). While a message of an event that the memory holds is
  unheard, nobody has the event or is being served it (`Once`). What is owed has
  been sent, is in the hands of a publishing thread, or is unheard at a scope the
  subscription holds a reference of (`Due`).

Assumptions are the named ASSUMEs of the modules: markers are not members of the
sets they mark, sets of processes are finite where a count of them is used, limits
and bounds are natural numbers. The bound on clock error is part of
`PartitionLease`.

Only model-checked: all liveness, the fairness part of the refinement included,
since the prover does not do fairness; `LiveDelivery`, whose replay and merge are
folds and sorts of sequences and would need induction over them; `KafkaLog`,
`CounterStore`, `PresenceChat` and `Accounts`; and the forum, whose properties
compare the results of recursive definitions (the rebuild of a log, a batch) with
each other.

## 5. Disagreements between code and comments or documents

`PROJECT.json` has the four with a run. The others below are refuted by TLC with
the constants given (those of the module's passing run where nothing is said); the
definitions are in the modules.

| Property | Instance | What happens |
|---|---|---|
| `CommandLogWorker!NoSecondEffect` | 1 record, 2 faults | a processed row is written apart from the effect; when that fails, the redelivered command takes effect twice (`protocol-definition.md:257`) |
| `EventMaterializer!WatermarkMonotonic`, `CaughtUp` | 2 workers, 1 partition, 3 and 2 events, no gap, no fault; `CaughtUp` with `FairSpec` | a second worker moves the watermark back; a row then inserted twice fails every later pass (`milestones-internet-scale.md:793-795`, `ops/runbooks/broker-operations.md:590-591`) |
| `NativeDecision!RepetitionMatches` | editPost, 1 fault, no expiry | a decision repeated after projection has another version (`deployment-multi-node.md:811-813`) |
| `NativeDecision!FlagsKept` | setPostFlag, 2 flags, no fault | a decision taken before projection undoes a flag (`doc/leanness-review-2026-07.md:407-414`) |
| `LiveDelivery!NoDuplicates` | WebSocket and seq cursor, events of the handler, no fault | an event is written twice (`internal/core/stream_delivery.go:18`) |
| `LiveDelivery!GapStaysVisible` | WebSocket and seq cursor, buffer 1 | a failed gap replay is not retried (`internal/wsapi/conn.go:295-296`) |
| `LiveDelivery!LimitCountsMissed` | SSE, buffer 1, gap limit 2, 5 events, 1 fault | the limit is spent on events already seen (`internal/core/stream_delivery.go:8`) |
| `LiveDelivery!HoleFree` | long polls with a seq, buffer 1, no fault | an event between replay and subscription is skipped (`protocol-definition.md:38`) |
| `LiveBus!NoSendOnClosed` | 1 connection, 1 event | a send to a subscription closed since the list was copied (`internal/core/pubsub.go:60-61`) |
| `Outbox!JobsSettle` | 1 fault, no presence change, `FairSpec` | the job of a dead loop stays running (`internal/core/worker.go:42-43`) |
| `Outbox!OneActive` | 1 fault, 1 presence change | two loops are active at a time (`internal/core/worker.go:42`) |

`LevelTold` of `Outbox` holds with one loop (3 posts, thresholds 1 and 2) and is
likewise outside the runs. `CommittedHasOutcome`, `InsertedOnce`, `SnapshotFresh`,
`IdsUnique`, `CacheCommitted`, `CommittedSettled` and `CommitsInOrder` are proved
and in no run.

## 6. Not modelled

Parts that are left out: the shadow event log with parity and promotion, which
compares two logs for an operator and changes nothing the service depends on;
partition assignment and hot-thread splits, which only choose the partitions a
worker tries (that two never drain one is left to the lease); the switch between
two command logs, which is one variable under a lock; the node registry, a row per
node that only this node writes; the front ends beyond the calls modelled here;
rendering, request parsing, metrics, offline load and report tools.

Left out of modelled parts: batch draining, partition lanes and the batch
finalizer; the command status query; stream and topic set-up and listing; the
append gate between SQL transactions; counter checkpoints and the Redis client;
imports and maintenance commands; the rate limiter; the texts of posts, mail and
notices, beyond the tokens that rules look for; ephemeral events and shutdown.
