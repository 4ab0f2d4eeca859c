------------------------------- MODULE Outbox --------------------------------
(***************************************************************************)
(* Background work after a commit: the outbox jobs                         *)
(* (internal/core/outbox.go), run by the node that holds the leader lock   *)
(* (internal/core/worker.go).                                              *)
(*                                                                         *)
(* Leadership is a Postgres session lock.  A node that loses the session   *)
(* notices at its next ping; until then, and while its loop is inside a    *)
(* batch of jobs, its loop works on beside that of the next leader.  A     *)
(* loop claims a job, processes it in several statements of its own and    *)
(* marks it done or, for a retry, pending again.                           *)
(*                                                                         *)
(* Two kinds of jobs: one per committed post, and the community snapshot   *)
(* of the day, which every presence change enqueues again under the same   *)
(* id.  Backoff is not timed: a pending job is due at any later moment.    *)
(* All posts are of one author, whose trust level follows posts_created;   *)
(* the days visited are left out.  E-mail jobs only call the mailer and    *)
(* are left out.                                                           *)
(***************************************************************************)
EXTENDS Integers, FiniteSets

CONSTANTS
    Nodes,       \* worker-role processes
    Loops,       \* runOutboxWorker goroutines that may exist at a time
    Posts,       \* jobs of kind post.committed
    Snapshot,    \* the job of kind community_stat.snapshot
    None,        \* no node, no job
    MaxAttempts, \* outboxMaxAttempts
    Thresholds,  \* posts_created that each raise the trust level by one
    MaxChanges,  \* bound: presence changes
    MaxFaults    \* bound: failures, lost sessions and crashes

Jobs == Posts \cup {Snapshot}

ASSUME OutboxConstants ==
    /\ Snapshot \notin Posts
    /\ None \notin Jobs \cup Nodes
    /\ Thresholds \subseteq Nat /\ IsFiniteSet(Thresholds)
    /\ MaxAttempts \in Nat \ {0} /\ MaxChanges \in Nat /\ MaxFaults \in Nat

VARIABLES
    status,    \* [Jobs -> ...]: outbox_jobs.status, "none" without a row
    attempts,  \* [Jobs -> Nat]: outbox_jobs.attempts
    counted,   \* [Posts -> Nat]: times posts_created was bumped for the post
    created,   \* posts_created of the author
    level,     \* trust_level of the author
    announced, \* level in the author's last TrustLevelChanged event
    notified,  \* posts whose notifications are inserted
    live,      \* presence changes so far
    owed,      \* presence changes that have not enqueued the snapshot (yet)
    history,   \* presence changes in the community history row
    lock,      \* node whose session holds the advisory lock
    leader,    \* nodes that run serveAsLeader
    loop,      \* [Loops -> [pc, node, job, tries, to]]
    cancelled, \* loops whose context is cancelled
    \* bounds and history
    faults,
    stranded,  \* jobs left running by a crash or a failed final update
    unsaid     \* has a new level been stored and its event not appended?

vars == <<status, attempts, counted, created, level, announced, notified, live, owed, history,
          lock, leader, loop, cancelled, faults, stranded, unsaid>>

Free(pc, node) == [pc |-> pc, node |-> node, job |-> None, tries |-> 0, to |-> 0]

NoLoop == Free("none", None)

Init ==
    /\ status = [j \in Jobs |-> "none"] /\ attempts = [j \in Jobs |-> 0]
    /\ counted = [p \in Posts |-> 0] /\ notified = {}
    /\ created = 0 /\ level = 0 /\ announced = 0
    /\ live = 0 /\ owed = 0 /\ history = 0
    /\ lock = None /\ leader = {}
    /\ loop = [l \in Loops |-> NoLoop] /\ cancelled = {}
    /\ faults = 0 /\ stranded = {} /\ unsaid = FALSE

table   == <<status, attempts>>
presence == <<live, owed>>
trust   == <<created, level, announced>>
effects == <<counted, trust, notified, history>>
election == <<lock, leader, cancelled>>

Fault == faults < MaxFaults /\ faults' = faults + 1

GoTo(l, pc) == loop' = [loop EXCEPT ![l].pc = pc]

-----------------------------------------------------------------------------
(***************************************************************************)
(* Enqueueing, in the transaction of the command.                          *)
(***************************************************************************)

EnqueuePost(p) ==
    /\ status[p] = "none"
    /\ status' = [status EXCEPT ![p] = "pending"]
    /\ UNCHANGED <<attempts, presence, effects, election, loop, faults, stranded, unsaid>>

\* setUserPresence writes the presence row, then enqueues in a transaction of
\* its own.
SetPresence ==
    /\ live < MaxChanges
    /\ live' = live + 1
    /\ owed' = owed + 1
    /\ UNCHANGED <<table, effects, election, loop, faults, stranded, unsaid>>

\* The row of the day is pending again, whatever it was.
EnqueueSnapshot ==
    /\ owed > 0
    /\ owed' = owed - 1
    /\ status' = [status EXCEPT ![Snapshot] = "pending"]
    /\ attempts' = [attempts EXCEPT ![Snapshot] = 0]
    /\ stranded' = stranded \ {Snapshot}
    /\ UNCHANGED <<live, effects, election, loop, faults, unsaid>>

-----------------------------------------------------------------------------
(***************************************************************************)
(* Leader election.                                                        *)
(***************************************************************************)

\* pg_try_advisory_lock succeeds; serveAsLeader starts a loop.
Lead(n) ==
    /\ n \notin leader /\ lock = None
    /\ lock' = n /\ leader' = leader \cup {n}
    /\ \E l \in Loops :
        /\ loop[l].pc = "none"
        /\ loop' = [loop EXCEPT ![l] = Free("idle", n)]
    /\ UNCHANGED <<table, presence, effects, cancelled, faults, stranded, unsaid>>

\* The server ends the session of the leader.
SessionLost(n) ==
    /\ Fault
    /\ lock = n
    /\ lock' = None
    /\ UNCHANGED <<table, presence, effects, leader, cancelled, loop, stranded, unsaid>>

\* The ping fails: serveAsLeader returns and cancels the context of its loop.
StepDown(n) ==
    /\ n \in leader /\ lock # n
    /\ leader' = leader \ {n}
    /\ cancelled' = cancelled \cup {l \in Loops : loop[l].node = n}
    /\ UNCHANGED <<table, presence, effects, lock, loop, faults, stranded, unsaid>>

\* A process dies and is started again.
Crash(n) ==
    LET dead == {l \in Loops : loop[l].node = n} IN
    /\ Fault
    /\ lock' = IF lock = n THEN None ELSE lock
    /\ leader' = leader \ {n}
    /\ cancelled' = cancelled \ dead
    /\ stranded' = stranded \cup
         {loop[l].job : l \in {d \in dead : loop[d].pc \notin {"none", "idle", "claim", "update"}}}
    /\ unsaid' = (unsaid \/ \E l \in dead : loop[l].pc = "announce")
    /\ loop' = [l \in Loops |-> IF l \in dead THEN NoLoop ELSE loop[l]]
    /\ UNCHANGED <<table, presence, effects>>

-----------------------------------------------------------------------------
(***************************************************************************)
(* runOutboxWorker.                                                        *)
(***************************************************************************)

\* The ticker fires; select may take it although the context is cancelled.
Tick(l) ==
    /\ loop[l].pc = "idle"
    /\ GoTo(l, "claim")
    /\ UNCHANGED <<table, presence, effects, election, faults, stranded, unsaid>>

LoopEnds(l) ==
    /\ loop[l].pc = "idle" /\ l \in cancelled
    /\ loop' = [loop EXCEPT ![l] = NoLoop]
    /\ cancelled' = cancelled \ {l}
    /\ UNCHANGED <<table, presence, effects, lock, leader, faults, stranded, unsaid>>

\* claimOutboxJob: the SELECT ...
ClaimSelect(l) ==
    /\ loop[l].pc = "claim"
    /\ IF \E j \in Jobs : status[j] = "pending"
       THEN \E j \in Jobs : /\ status[j] = "pending"
                            /\ loop' = [loop EXCEPT ![l].pc = "update", ![l].job = j]
       ELSE GoTo(l, "idle")
    /\ UNCHANGED <<table, presence, effects, election, faults, stranded, unsaid>>

Claimed(l) ==
    /\ status' = [status EXCEPT ![loop[l].job] = "running"]
    /\ attempts' = [attempts EXCEPT ![loop[l].job] = @ + 1]
    /\ GoTo(l, IF loop[l].job = Snapshot THEN "snapshot" ELSE "count")

\* Mutant: the UPDATE does not ask for a pending row.
ClaimUpdate_NoGuard(l) ==
    /\ loop[l].pc = "update"
    /\ Claimed(l)
    /\ UNCHANGED <<presence, effects, election, faults, stranded, unsaid>>

\* ... and the UPDATE, which finds the row pending or gives up the batch.
ClaimUpdate(l) ==
    /\ loop[l].pc = "update"
    /\ IF status[loop[l].job] = "pending"
       THEN Claimed(l)
       ELSE loop' = [loop EXCEPT ![l] = Free("idle", @.node)] /\ UNCHANGED table
    /\ UNCHANGED <<presence, effects, election, faults, stranded, unsaid>>

ClaimFails(l) ==
    /\ Fault
    /\ loop[l].pc \in {"claim", "update"}
    /\ loop' = [loop EXCEPT ![l] = Free("idle", @.node)]
    /\ UNCHANGED <<table, presence, effects, election, stranded, unsaid>>

\* processPostCommittedJob: RecordPostCreated bumps posts_created ...
RecordPostCreated(l) ==
    /\ loop[l].pc = "count"
    /\ counted' = [counted EXCEPT ![loop[l].job] = @ + 1]
    /\ created' = created + 1
    /\ GoTo(l, "trust")
    /\ UNCHANGED <<table, presence, level, announced, notified, history, election, faults,
                   stranded, unsaid>>

ComputeTrustLevel(posts) == Cardinality({t \in Thresholds : posts >= t})

\* ... RecomputeTrust reads the activity of the author ...
RecomputeTrust(l) ==
    LET new == ComputeTrustLevel(created) IN
    /\ loop[l].pc = "trust"
    /\ loop' = [loop EXCEPT ![l].pc = IF new # level THEN "level" ELSE "notify", ![l].to = new]
    /\ UNCHANGED <<table, presence, effects, election, faults, stranded, unsaid>>

\* ... and stores a new level, ...
StoreLevel(l) ==
    /\ loop[l].pc = "level"
    /\ level' = loop[l].to
    /\ GoTo(l, "announce")
    /\ UNCHANGED <<table, presence, counted, created, announced, notified, history, election,
                   faults, stranded, unsaid>>

\* ... which an event of its own transaction tells, ...
AppendTrustLevelChanged(l) ==
    /\ loop[l].pc = "announce"
    /\ announced' = loop[l].to
    /\ GoTo(l, "notify")
    /\ UNCHANGED <<table, presence, counted, created, level, notified, history, election, faults,
                   stranded, unsaid>>

\* Mutant: the error of an insert is dropped.
InsertNotifications_Skips(l) ==
    /\ loop[l].pc = "notify"
    /\ GoTo(l, "complete")
    /\ UNCHANGED <<table, presence, effects, election, faults, stranded, unsaid>>

\* ... and the notifications, whose ids make an insert idempotent.
InsertNotifications(l) ==
    /\ loop[l].pc = "notify"
    /\ notified' = notified \cup {loop[l].job}
    /\ GoTo(l, "complete")
    /\ UNCHANGED <<table, presence, counted, trust, history, election, faults, stranded, unsaid>>

\* processCommunityStatSnapshotJob takes the stats as they are now.
TakeSnapshot(l) ==
    /\ loop[l].pc = "snapshot"
    /\ history' = live
    /\ GoTo(l, "complete")
    /\ UNCHANGED <<table, presence, counted, trust, notified, election, faults, stranded, unsaid>>

\* A statement of the job fails; those before it stay committed.
ProcessFails(l) ==
    /\ Fault
    /\ loop[l].pc \in {"count", "trust", "level", "announce", "notify", "snapshot"}
    /\ GoTo(l, "fail")
    /\ unsaid' = (unsaid \/ loop[l].pc = "announce")
    /\ UNCHANGED <<table, presence, effects, election, stranded>>

Released(l) == loop' = [loop EXCEPT ![l] = Free("claim", @.node)]

\* Mutant: done, whatever the row says.
CompleteOutboxJob_Unguarded(l) ==
    /\ loop[l].pc = "complete"
    /\ status' = [status EXCEPT ![loop[l].job] = "done"]
    /\ Released(l)
    /\ UNCHANGED <<attempts, presence, effects, election, faults, stranded, unsaid>>

\* Done, unless the row was enqueued again meanwhile.
CompleteOutboxJob(l) ==
    /\ loop[l].pc = "complete"
    /\ status' = [status EXCEPT ![loop[l].job] = IF @ = "running" THEN "done" ELSE @]
    /\ Released(l)
    /\ UNCHANGED <<attempts, presence, effects, election, faults, stranded, unsaid>>

\* failOutboxJob: reads the attempts ...
FailRead(l) ==
    /\ loop[l].pc = "fail"
    /\ loop' = [loop EXCEPT ![l].pc = "failed", ![l].tries = attempts[loop[l].job]]
    /\ UNCHANGED <<table, presence, effects, election, faults, stranded, unsaid>>

\* Mutant: a status the claim does not know.
FailUpdate_Retry(l) ==
    /\ loop[l].pc = "failed"
    /\ status' = [status EXCEPT ![loop[l].job] =
                    IF loop[l].tries >= MaxAttempts THEN "dead" ELSE "retry"]
    /\ Released(l)
    /\ UNCHANGED <<attempts, presence, effects, election, faults, stranded, unsaid>>

\* Mutant: only the last attempt writes a status.
FailUpdate_DeadOnly(l) ==
    /\ loop[l].pc = "failed"
    /\ status' = [status EXCEPT ![loop[l].job] =
                    IF loop[l].tries >= MaxAttempts THEN "dead" ELSE @]
    /\ Released(l)
    /\ UNCHANGED <<attempts, presence, effects, election, faults, stranded, unsaid>>

\* ... and makes the row pending or dead, whatever it says by now.
FailUpdate(l) ==
    /\ loop[l].pc = "failed"
    /\ status' = [status EXCEPT ![loop[l].job] =
                    IF loop[l].tries >= MaxAttempts THEN "dead" ELSE "pending"]
    /\ Released(l)
    /\ UNCHANGED <<attempts, presence, effects, election, faults, stranded, unsaid>>

\* The error of the final update is dropped.
FinishFails(l) ==
    /\ Fault
    /\ loop[l].pc \in {"complete", "fail", "failed"}
    /\ stranded' = stranded \cup {loop[l].job}
    /\ Released(l)
    /\ UNCHANGED <<table, presence, effects, election, unsaid>>

-----------------------------------------------------------------------------
LoopStep(l) ==
    \/ Tick(l) \/ LoopEnds(l) \/ ClaimSelect(l) \/ ClaimUpdate(l) \/ ClaimFails(l)
    \/ RecordPostCreated(l) \/ RecomputeTrust(l) \/ StoreLevel(l) \/ AppendTrustLevelChanged(l)
    \/ InsertNotifications(l) \/ TakeSnapshot(l) \/ ProcessFails(l)
    \/ CompleteOutboxJob(l) \/ FailRead(l) \/ FailUpdate(l) \/ FinishFails(l)

Next ==
    \/ \E p \in Posts : EnqueuePost(p)
    \/ SetPresence \/ EnqueueSnapshot
    \/ \E n \in Nodes : Lead(n) \/ SessionLost(n) \/ StepDown(n) \/ Crash(n)
    \/ \E l \in Loops : LoopStep(l)

\* Goroutines run on, tickers fire, and a worker-role process retries the lock.
Fairness ==
    /\ \A l \in Loops : WF_vars(LoopStep(l))
    /\ \A n \in Nodes : WF_vars(StepDown(n))
    /\ WF_vars(\E n \in Nodes : Lead(n))

Spec == Init /\ [][Next]_vars
FairSpec == Spec /\ Fairness

-----------------------------------------------------------------------------
(***************************************************************************)
(* Properties.                                                             *)
(***************************************************************************)

\* Every variable has its type; a row has one of the four statuses that
\* outboxStatusCounts knows.
TypeOK ==
    /\ status \in [Jobs -> {"none", "pending", "running", "done", "dead"}]
    /\ attempts \in [Jobs -> Nat]
    /\ counted \in [Posts -> Nat]
    /\ created \in Nat /\ {level, announced} \subseteq 0..Cardinality(Thresholds)
    /\ notified \subseteq Posts
    /\ history \in 0..live /\ live \in 0..MaxChanges /\ owed \in 0..live
    /\ lock \in Nodes \cup {None} /\ leader \subseteq Nodes
    /\ loop \in [Loops -> [pc : {"none", "idle", "claim", "update", "count", "trust", "level",
                                 "announce", "notify", "snapshot", "complete", "fail", "failed"},
                           node : Nodes \cup {None}, job : Jobs \cup {None},
                           tries : Nat, to : 0..Cardinality(Thresholds)]]
    /\ cancelled \subseteq Loops
    /\ faults \in 0..MaxFaults
    /\ stranded \subseteq Jobs /\ unsaid \in BOOLEAN

Working(l) == loop[l].pc \notin {"none", "idle", "claim", "update"}

\* The job of a post is processed by one loop at a time, also while the loops of
\* an old and a new leader overlap (claimOutboxJob updates only a pending row).
OneRunner ==
    \A k, l \in Loops :
        Working(k) /\ Working(l) /\ loop[k].job = loop[l].job /\ loop[k].job \in Posts => k = l

\* A job that completeOutboxJob marked done has had its whole effect.
DoneDelivered ==
    \A p \in Posts : status[p] = "done" => counted[p] > 0 /\ p \in notified

\* A snapshot job marked done is as new as the last presence change, unless some
\* loop still has the job, a process died over it or a change has not enqueued
\* it: completeOutboxJob leaves alone a row that was enqueued again meanwhile.
SnapshotFresh ==
    status[Snapshot] = "done" /\ owed = 0 /\ Snapshot \notin stranded
        /\ (\A l \in Loops : ~(Working(l) /\ loop[l].job = Snapshot))
    => history = live

\* Between two jobs, the stored trust level is the one the counted posts give
\* (unless a job stopped before it stored one), and the log's last
\* TrustLevelChanged tells it, unless appendTrustLevelChanged failed: a retry
\* finds the new level stored and appends nothing.  With overlapping loops two
\* jobs of one author may store and append in either order.
LevelTold ==
    (\A l \in Loops : ~Working(l)) =>
        /\ (\A p \in Posts : status[p] \in {"done", "none"}) => level = ComputeTrustLevel(created)
        /\ (~unsaid => announced = level)

\* Every job of a post is done or dead in the end (runOutboxWorker), unless its
\* final update was lost with the process or dropped with an error.
JobsSettleUnlessStranded ==
    \A p \in Posts : status[p] = "pending" ~> status[p] \in {"done", "dead"} \/ p \in stranded

\* What StartBackgroundWorker says: "automatic failover when the leader dies",
\* so that every job of a post is done or dead in the end.
JobsSettle == \A p \in Posts : status[p] = "pending" ~> status[p] \in {"done", "dead"}

\* What StartBackgroundWorker says: "exactly one is active at a time".
OneActive ==
    \A k, l \in Loops : Working(k) /\ Working(l) => loop[k].node = loop[l].node
=============================================================================
