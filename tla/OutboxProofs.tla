----------------------------- MODULE OutboxProofs -----------------------------
(***************************************************************************)
(* Proofs about Outbox, for any number of nodes, loops, posts and faults.  *)
(*                                                                         *)
(* A loop that works on the job of a post finds the row running until it   *)
(* writes the row itself: only a claim makes a row running, and only of a  *)
(* pending row, so that no second loop gets in.  A loop that reaches the   *)
(* final update has passed the statements before it.  The row of the       *)
(* snapshot has no such owner, because every presence change makes it      *)
(* pending again: there, somebody still has the job or has lost it         *)
(* whenever the history row is behind.                                     *)
(***************************************************************************)
EXTENDS Outbox, TLAPS

Stages == {"none", "idle", "claim", "update", "count", "trust", "level",
           "announce", "notify", "snapshot", "complete", "fail", "failed"}

Levels == {0} \cup {ComputeTrustLevel(n) : n \in Nat}

LoopStates == [pc : Stages, node : Nodes \cup {None}, job : Jobs \cup {None}, tries : Nat, to : Levels]

Typed ==
    /\ status \in [Jobs -> {"none", "pending", "running", "done", "dead"}]
    /\ attempts \in [Jobs -> Nat]
    /\ counted \in [Posts -> Nat]
    /\ created \in Nat
    /\ owed \in Nat
    /\ loop \in [Loops -> LoopStates]

\* A loop has the job its stage needs, and has done what its stage comes after.
StageOf(l) ==
    /\ loop[l].pc \in {"count", "trust", "level", "announce", "notify"} => loop[l].job \in Posts
    /\ loop[l].pc = "snapshot" => loop[l].job = Snapshot
    /\ loop[l].pc \in {"update", "complete", "fail", "failed"} => loop[l].job \in Jobs
    /\ loop[l].pc \in {"trust", "level", "announce", "notify"} => counted[loop[l].job] > 0
    /\ loop[l].pc = "complete" /\ loop[l].job \in Posts =>
          counted[loop[l].job] > 0 /\ loop[l].job \in notified

Staged == \A l \in Loops : StageOf(l)

\* A loop at work on a post finds the row running.
RowRunning ==
    \A l \in Loops : Working(l) /\ loop[l].job \in Posts => status[loop[l].job] = "running"

\* A claimed snapshot that is behind the presence table is in somebody's hands,
\* lost, or about to be enqueued.
SnapshotOwed ==
    status[Snapshot] \in {"running", "done"} =>
        \/ history = live \/ owed > 0 \/ Snapshot \in stranded
        \/ \E l \in Loops : loop[l].job = Snapshot /\ loop[l].pc \in {"snapshot", "fail", "failed"}

\* The inductive invariant.
IInv == Typed /\ Staged /\ RowRunning /\ OneRunner /\ DoneDelivered /\ SnapshotOwed

-----------------------------------------------------------------------------
(* What a step of one loop has to show *)

\* Counts and notifications are never taken back.
Grows ==
    /\ \A p \in Posts : counted[p] > 0 => counted'[p] > 0
    /\ notified \subseteq notified'

\* What a step of a loop does to the others: nothing.
OthersKept(l) == \A k \in Loops : k # l => loop'[k] = loop[k]

LEMMA StagedKept ==
    ASSUME Staged, NEW l \in Loops, OthersKept(l), Grows, StageOf(l)'
    PROVE  Staged'
  <1> SUFFICES ASSUME NEW k \in Loops PROVE StageOf(k)'
    BY DEF Staged
  <1>1. CASE k = l
    BY <1>1
  <1>2. CASE k # l
    <2>1. StageOf(k) /\ loop'[k] = loop[k]
      BY <1>2 DEF Staged, OthersKept
    <2>2. loop[k].pc \in {"trust", "level", "announce", "notify"} => loop[k].job \in Posts
      BY <2>1 DEF StageOf
    <2> QED  BY <2>1, <2>2 DEF StageOf, Grows
  <1> QED  BY <1>1, <1>2

\* The loop that moves keeps its post, or takes one that nobody works on; no
\* row of another loop is touched.
LEMMA RunnersKept ==
    ASSUME RowRunning, OneRunner, NEW l \in Loops, OthersKept(l),
           \A k \in Loops : k # l /\ Working(k) /\ loop[k].job \in Posts =>
                               status'[loop[k].job] = status[loop[k].job],
           Working(l)' /\ loop'[l].job \in Posts =>
               /\ status'[loop'[l].job] = "running"
               /\ (Working(l) /\ loop'[l].job = loop[l].job) \/ status[loop'[l].job] # "running"
    PROVE  RowRunning' /\ OneRunner'
  <1>1. \A k \in Loops : k # l => loop'[k] = loop[k] /\ Working(k)' = Working(k)
    BY DEF OthersKept, Working
  <1>2. RowRunning'
    BY <1>1 DEF RowRunning
  <1>3. ASSUME NEW k \in Loops, k # l, Working(k)', Working(l)', loop'[k].job = loop'[l].job,
               loop'[k].job \in Posts
        PROVE  FALSE
    <2>1. Working(k) /\ loop[k].job \in Posts /\ loop[k].job = loop'[l].job
      BY <1>1, <1>3
    <2>2. status[loop[k].job] = "running"
      BY <2>1 DEF RowRunning
    <2>3. Working(l) /\ loop[l].job = loop[k].job
      BY <1>3, <2>1, <2>2
    <2> QED  BY <1>3, <2>1, <2>3 DEF OneRunner
  <1>4. ASSUME NEW j \in Loops, NEW k \in Loops, j # l, k # l, Working(j)', Working(k)',
               loop'[j].job = loop'[k].job, loop'[j].job \in Posts
        PROVE  j = k
    BY <1>1, <1>4 DEF OneRunner
  <1>5. OneRunner'
    BY <1>3, <1>4 DEF OneRunner
  <1> QED  BY <1>2, <1>5

\* A row becomes done only with the whole effect of its job.
LEMMA DoneKept ==
    ASSUME DoneDelivered, Grows,
           \A p \in Posts : status'[p] = "done" =>
               status[p] = "done" \/ (counted[p] > 0 /\ p \in notified)
    PROVE  DoneDelivered'
  BY DEF DoneDelivered, Grows

LEMMA ZeroLevel == 0 \in Levels
  BY DEF Levels

\* A post is not the snapshot, and no job.
LEMMA JobKinds == Snapshot \notin Posts /\ None \notin Jobs /\ Posts \subseteq Jobs /\ Snapshot \in Jobs
  BY OutboxConstants DEF Jobs

\* A loop that goes on with its job, or to a stage that is no work.
LEMMA AdvanceInv ==
    ASSUME IInv, NEW l \in Loops, Typed', OthersKept(l), Grows, StageOf(l)', SnapshotOwed',
           status' = status, Working(l)' => Working(l) /\ loop'[l].job = loop[l].job
    PROVE  IInv'
  <1>1. Staged /\ RowRunning /\ OneRunner /\ DoneDelivered
    BY DEF IInv
  <1>2. Staged'
    BY <1>1, StagedKept
  <1>3. RowRunning' /\ OneRunner'
    <2>1. Working(l)' /\ loop'[l].job \in Posts => status'[loop'[l].job] = "running"
      BY <1>1 DEF RowRunning
    <2> QED  BY <1>1, <2>1, RunnersKept
  <1>4. DoneDelivered'
    BY <1>1, DoneKept
  <1> QED  BY <1>2, <1>3, <1>4 DEF IInv

\* A loop that writes the row of its job and lets go of it.
LEMMA ReleaseInv ==
    ASSUME IInv, NEW l \in Loops, Working(l), ~Working(l)',
           Typed', OthersKept(l), Grows, StageOf(l)', SnapshotOwed',
           \A j \in Jobs : j # loop[l].job => status'[j] = status[j],
           \A p \in Posts : status'[p] = "done" =>
               status[p] = "done" \/ (counted[p] > 0 /\ p \in notified)
    PROVE  IInv'
  <1>1. Staged /\ RowRunning /\ OneRunner /\ DoneDelivered
    BY DEF IInv
  <1>2. Staged'
    BY <1>1, StagedKept
  <1>3. RowRunning' /\ OneRunner'
    <2>1. ASSUME NEW k \in Loops, k # l, Working(k), loop[k].job \in Posts
          PROVE  status'[loop[k].job] = status[loop[k].job]
      BY <1>1, <2>1, JobKinds DEF OneRunner
    <2> QED  BY <1>1, <2>1, RunnersKept
  <1>4. DoneDelivered'
    BY <1>1, DoneKept
  <1> QED  BY <1>2, <1>3, <1>4 DEF IInv

\* What GoTo and Released make of a loop.
LEMMA Moved ==
    ASSUME Typed, NEW l \in Loops
    PROVE  /\ \A pc \in Stages : GoTo(l, pc) =>
                 /\ loop' \in [Loops -> LoopStates] /\ OthersKept(l)
                 /\ loop'[l].pc = pc /\ loop'[l].job = loop[l].job
           /\ Released(l) =>
                 /\ loop' \in [Loops -> LoopStates] /\ OthersKept(l)
                 /\ loop'[l].pc = "claim" /\ loop'[l].job = None
  <1>1. loop \in [Loops -> LoopStates]
    BY DEF Typed
  <1>2. ASSUME NEW pc \in Stages, GoTo(l, pc)
        PROVE  /\ loop' \in [Loops -> LoopStates] /\ OthersKept(l)
               /\ loop'[l].pc = pc /\ loop'[l].job = loop[l].job
    BY <1>1, <1>2 DEF GoTo, OthersKept, LoopStates
  <1>3. ASSUME Released(l)
        PROVE  /\ loop' \in [Loops -> LoopStates] /\ OthersKept(l)
               /\ loop'[l].pc = "claim" /\ loop'[l].job = None
    BY <1>1, <1>3, ZeroLevel DEF Released, Free, OthersKept, LoopStates, Stages
  <1> QED  BY <1>2, <1>3

-----------------------------------------------------------------------------
(* The steps of a loop *)

LEMMA TickInv ==
    ASSUME IInv, NEW l \in Loops, Tick(l)
    PROVE  IInv'
  <1>1. Typed /\ SnapshotOwed
    BY DEF IInv
  <1>2. /\ loop[l].pc = "idle" /\ GoTo(l, "claim") /\ "claim" \in Stages
        /\ UNCHANGED <<status, attempts, counted, created, notified, live, owed, history, stranded>>
    BY DEF Tick, table, presence, effects, trust, Stages
  <1>3. /\ loop' \in [Loops -> LoopStates] /\ OthersKept(l)
        /\ loop'[l].pc = "claim" /\ loop'[l].job = loop[l].job
    BY <1>1, <1>2, Moved
  <1>4. Typed' /\ Grows /\ StageOf(l)' /\ ~Working(l)'
    BY <1>1, <1>2, <1>3 DEF Typed, Grows, StageOf, Working
  <1>5. SnapshotOwed'
    BY <1>1, <1>2, <1>3 DEF SnapshotOwed, OthersKept
  <1> QED  BY <1>2, <1>3, <1>4, <1>5, AdvanceInv

LEMMA LoopEndsInv ==
    ASSUME IInv, NEW l \in Loops, LoopEnds(l)
    PROVE  IInv'
  <1>1. Typed /\ SnapshotOwed
    BY DEF IInv
  <1>2. /\ loop[l].pc = "idle" /\ loop' = [loop EXCEPT ![l] = NoLoop]
        /\ UNCHANGED <<status, attempts, counted, created, notified, live, owed, history, stranded>>
    BY DEF LoopEnds, table, presence, effects, trust
  <1>3. /\ loop' \in [Loops -> LoopStates] /\ OthersKept(l)
        /\ loop'[l].pc = "none"
    BY <1>1, <1>2, ZeroLevel DEF Typed, NoLoop, Free, LoopStates, Stages, OthersKept
  <1>4. Typed' /\ Grows /\ StageOf(l)' /\ ~Working(l)'
    BY <1>1, <1>2, <1>3 DEF Typed, Grows, StageOf, Working
  <1>5. SnapshotOwed'
    BY <1>1, <1>2, <1>3 DEF SnapshotOwed, OthersKept
  <1> QED  BY <1>2, <1>3, <1>4, <1>5, AdvanceInv

LEMMA ClaimSelectInv ==
    ASSUME IInv, NEW l \in Loops, ClaimSelect(l)
    PROVE  IInv'
  <1>1. Typed /\ SnapshotOwed
    BY DEF IInv
  <1>2. /\ loop[l].pc = "claim"
        /\ UNCHANGED <<status, attempts, counted, created, notified, live, owed, history, stranded>>
    BY DEF ClaimSelect, table, presence, effects, trust
  <1>3. /\ loop' \in [Loops -> LoopStates] /\ OthersKept(l)
        /\ loop'[l].pc = "idle" \/ (loop'[l].pc = "update" /\ loop'[l].job \in Jobs)
    BY <1>1 DEF ClaimSelect, GoTo, Typed, LoopStates, Stages, OthersKept
  <1>4. Typed' /\ Grows /\ StageOf(l)' /\ ~Working(l)'
    BY <1>1, <1>2, <1>3 DEF Typed, Grows, StageOf, Working
  <1>5. SnapshotOwed'
    BY <1>1, <1>2, <1>3 DEF SnapshotOwed, OthersKept
  <1> QED  BY <1>2, <1>3, <1>4, <1>5, AdvanceInv

\* A loop that gives up the batch without a claim.
LEMMA GiveUpInv ==
    ASSUME IInv, NEW l \in Loops, loop[l].pc \in {"claim", "update"},
           loop' = [loop EXCEPT ![l] = Free("idle", @.node)],
           UNCHANGED <<status, attempts, counted, created, notified, live, owed, history, stranded>>
    PROVE  IInv'
  <1>1. Typed /\ SnapshotOwed
    BY DEF IInv
  <1>2. loop' \in [Loops -> LoopStates] /\ OthersKept(l) /\ loop'[l].pc = "idle"
    BY <1>1, ZeroLevel DEF Typed, Free, LoopStates, Stages, OthersKept
  <1>3. Typed' /\ Grows /\ StageOf(l)' /\ ~Working(l)'
    BY <1>1, <1>2 DEF Typed, Grows, StageOf, Working
  <1>4. SnapshotOwed'
    BY <1>1, <1>2 DEF SnapshotOwed, OthersKept
  <1> QED  BY <1>2, <1>3, <1>4, AdvanceInv

\* The claim: the row is pending, so that nobody works on it.
LEMMA ClaimedInv ==
    ASSUME IInv, NEW l \in Loops, loop[l].pc = "update", status[loop[l].job] = "pending", Claimed(l),
           UNCHANGED <<counted, created, notified, live, owed, history, stranded>>
    PROVE  IInv'
  <1> DEFINE j == loop[l].job
  <1>1. Typed /\ Staged /\ RowRunning /\ OneRunner /\ DoneDelivered /\ SnapshotOwed
    BY DEF IInv
  <1>2. j \in Jobs
    BY <1>1 DEF Staged, StageOf
  <1>3. /\ status' = [status EXCEPT ![j] = "running"] /\ attempts' = [attempts EXCEPT ![j] = @ + 1]
        /\ GoTo(l, IF j = Snapshot THEN "snapshot" ELSE "count")
    BY DEF Claimed
  <1>4. /\ loop' \in [Loops -> LoopStates] /\ OthersKept(l)
        /\ loop'[l].pc = IF j = Snapshot THEN "snapshot" ELSE "count"
        /\ loop'[l].job = j
    BY <1>1, <1>3, Moved DEF Stages
  <1> HIDE DEF j
  <1>5. Typed'
    BY <1>1, <1>2, <1>3, <1>4 DEF Typed
  <1>6. Grows /\ StageOf(l)'
    BY <1>2, <1>4 DEF Grows, StageOf, Jobs
  <1>7. Staged'
    BY <1>1, <1>4, <1>6, StagedKept
  <1>8. /\ \A k \in Loops : k # l /\ Working(k) /\ loop[k].job \in Posts => loop[k].job # j
        /\ status'[j] = "running" /\ status[j] # "running"
        /\ \A i \in Jobs : i # j => status'[i] = status[i]
    BY <1>1, <1>2, <1>3 DEF RowRunning, Typed, j
  <1>9. RowRunning' /\ OneRunner'
    BY <1>1, <1>4, <1>8, JobKinds, RunnersKept
  <1>10. DoneDelivered'
    BY <1>1, <1>6, <1>8, DoneKept, JobKinds
  <1>11. SnapshotOwed'
    BY <1>1, <1>3, <1>4, <1>8, JobKinds DEF SnapshotOwed, OthersKept
  <1> QED  BY <1>5, <1>7, <1>9, <1>10, <1>11 DEF IInv

\* RecordPostCreated: the count of the post grows.
LEMMA CountInv ==
    ASSUME IInv, NEW l \in Loops, RecordPostCreated(l)
    PROVE  IInv'
  <1>1. Typed /\ SnapshotOwed /\ StageOf(l)
    BY DEF IInv, Staged
  <1>2. /\ loop[l].pc = "count" /\ GoTo(l, "trust")
        /\ counted' = [counted EXCEPT ![loop[l].job] = @ + 1] /\ created' = created + 1
        /\ UNCHANGED <<status, attempts, notified, live, owed, history, stranded>>
    BY DEF RecordPostCreated, table, presence
  <1>3. /\ loop' \in [Loops -> LoopStates] /\ OthersKept(l)
        /\ loop'[l].pc = "trust" /\ loop'[l].job = loop[l].job
    BY <1>1, <1>2, Moved DEF Stages
  <1>4. loop[l].job \in Posts
    BY <1>1, <1>2 DEF StageOf
  <1>5. /\ counted' \in [Posts -> Nat] /\ counted'[loop[l].job] > 0
        /\ \A p \in Posts : counted[p] > 0 => counted'[p] > 0
    BY <1>1, <1>2, <1>4 DEF Typed
  <1>6. Typed' /\ Grows
    BY <1>1, <1>2, <1>3, <1>5 DEF Typed, Grows
  <1>7. StageOf(l)' /\ Working(l)
    BY <1>2, <1>3, <1>4, <1>5 DEF StageOf, Working
  <1>8. SnapshotOwed'
    BY <1>1, <1>2, <1>3 DEF SnapshotOwed, OthersKept
  <1> QED  BY <1>2, <1>3, <1>6, <1>7, <1>8, AdvanceInv

\* The statements in between change nothing the invariant is about.
LEMMA TrustInv ==
    ASSUME IInv, NEW l \in Loops, RecomputeTrust(l) \/ StoreLevel(l) \/ AppendTrustLevelChanged(l)
    PROVE  IInv'
  <1>1. Typed /\ SnapshotOwed /\ StageOf(l)
    BY DEF IInv, Staged
  <1>2. /\ loop[l].pc \in {"trust", "level", "announce"}
        /\ UNCHANGED <<status, attempts, counted, created, notified, live, owed, history, stranded>>
    BY DEF RecomputeTrust, StoreLevel, AppendTrustLevelChanged, table, presence, effects, trust
  <1>3. /\ loop' \in [Loops -> LoopStates] /\ OthersKept(l)
        /\ loop'[l].pc \in {"level", "announce", "notify"} /\ loop'[l].job = loop[l].job
    <2>1. CASE RecomputeTrust(l)
      <3>1. ComputeTrustLevel(created) \in Levels
        BY <1>1 DEF Typed, Levels
      <3> DEFINE n == ComputeTrustLevel(created)
                 pc == IF n # level THEN "level" ELSE "notify"
      <3>2. /\ n \in Levels /\ pc \in {"level", "notify"}
            /\ loop' = [loop EXCEPT ![l].pc = pc, ![l].to = n]
        BY <2>1, <3>1 DEF RecomputeTrust
      <3> HIDE DEF n, pc
      <3>3. loop[l] \in LoopStates /\ loop \in [Loops -> LoopStates]
        BY <1>1 DEF Typed
      <3>4. /\ OthersKept(l) /\ loop' \in [Loops -> LoopStates]
            /\ loop'[l].pc = pc /\ loop'[l].job = loop[l].job
        BY <3>2, <3>3, Zenon DEF LoopStates, Stages, OthersKept
      <3> QED  BY <3>2, <3>4
    <2>2. CASE StoreLevel(l)
      BY <1>1, <2>2, Moved DEF StoreLevel, Stages
    <2>3. CASE AppendTrustLevelChanged(l)
      BY <1>1, <2>3, Moved DEF AppendTrustLevelChanged, Stages
    <2> QED  BY <2>1, <2>2, <2>3
  <1>4. Typed' /\ Grows /\ StageOf(l)' /\ Working(l)
    BY <1>1, <1>2, <1>3 DEF Typed, Grows, StageOf, Working
  <1>5. SnapshotOwed'
    BY <1>1, <1>2, <1>3 DEF SnapshotOwed, OthersKept
  <1> QED  BY <1>2, <1>3, <1>4, <1>5, AdvanceInv

LEMMA NotifyInv ==
    ASSUME IInv, NEW l \in Loops, InsertNotifications(l)
    PROVE  IInv'
  <1>1. Typed /\ SnapshotOwed /\ StageOf(l)
    BY DEF IInv, Staged
  <1>2. /\ loop[l].pc = "notify" /\ GoTo(l, "complete") /\ notified' = notified \cup {loop[l].job}
        /\ UNCHANGED <<status, attempts, counted, created, live, owed, history, stranded>>
    BY DEF InsertNotifications, table, presence, trust
  <1>3. /\ loop' \in [Loops -> LoopStates] /\ OthersKept(l)
        /\ loop'[l].pc = "complete" /\ loop'[l].job = loop[l].job
    BY <1>1, <1>2, Moved DEF Stages
  <1>4. Typed' /\ Grows
    BY <1>1, <1>2, <1>3 DEF Typed, Grows
  <1>5. StageOf(l)' /\ Working(l)
    BY <1>1, <1>2, <1>3, JobKinds DEF StageOf, Working
  <1>6. SnapshotOwed'
    BY <1>1, <1>2, <1>3 DEF SnapshotOwed, OthersKept
  <1> QED  BY <1>2, <1>3, <1>4, <1>5, <1>6, AdvanceInv

\* The snapshot makes the history row current.
LEMMA SnapshotInv ==
    ASSUME IInv, NEW l \in Loops, TakeSnapshot(l)
    PROVE  IInv'
  <1>1. Typed /\ StageOf(l)
    BY DEF IInv, Staged
  <1>2. /\ loop[l].pc = "snapshot" /\ GoTo(l, "complete") /\ history' = live
        /\ UNCHANGED <<status, attempts, counted, created, notified, live, owed, stranded>>
    BY DEF TakeSnapshot, table, presence, trust
  <1>3. /\ loop' \in [Loops -> LoopStates] /\ OthersKept(l)
        /\ loop'[l].pc = "complete" /\ loop'[l].job = loop[l].job
    BY <1>1, <1>2, Moved DEF Stages
  <1>4. Typed' /\ Grows
    BY <1>1, <1>2, <1>3 DEF Typed, Grows
  <1>5. StageOf(l)' /\ Working(l)
    BY <1>1, <1>2, <1>3, JobKinds DEF StageOf, Working
  <1>6. SnapshotOwed'
    BY <1>2 DEF SnapshotOwed
  <1> QED  BY <1>2, <1>3, <1>4, <1>5, <1>6, AdvanceInv

\* A failing statement, or the read of the attempts after it: the loop still
\* has the job.
LEMMA FailingInv ==
    ASSUME IInv, NEW l \in Loops, ProcessFails(l) \/ FailRead(l)
    PROVE  IInv'
  <1>1. Typed /\ SnapshotOwed /\ StageOf(l)
    BY DEF IInv, Staged
  <1>2. /\ loop[l].pc \in {"count", "trust", "level", "announce", "notify", "snapshot", "fail"}
        /\ UNCHANGED <<status, attempts, counted, created, notified, live, owed, history, stranded>>
    BY DEF ProcessFails, FailRead, table, presence, effects, trust
  <1>3. loop[l].job \in Jobs
    BY <1>1, <1>2, JobKinds DEF StageOf
  <1>4. /\ loop' \in [Loops -> LoopStates] /\ OthersKept(l)
        /\ loop'[l].pc \in {"fail", "failed"} /\ loop'[l].job = loop[l].job
    <2>1. CASE ProcessFails(l)
      BY <1>1, <2>1, Moved DEF ProcessFails, Stages
    <2>2. CASE FailRead(l)
      <3>1. attempts[loop[l].job] \in Nat
        BY <1>1, <1>3 DEF Typed
      <3> DEFINE n == attempts[loop[l].job]
      <3>2. n \in Nat /\ loop' = [loop EXCEPT ![l].pc = "failed", ![l].tries = n]
        BY <2>2, <3>1 DEF FailRead
      <3> HIDE DEF n
      <3>3. loop[l] \in LoopStates /\ loop \in [Loops -> LoopStates]
        BY <1>1 DEF Typed
      <3>4. /\ OthersKept(l) /\ loop' \in [Loops -> LoopStates]
            /\ loop'[l].pc = "failed" /\ loop'[l].job = loop[l].job
        BY <3>2, <3>3, Zenon DEF LoopStates, Stages, OthersKept
      <3> QED  BY <3>4
    <2> QED  BY <2>1, <2>2
  <1>5. Typed' /\ Grows /\ StageOf(l)' /\ Working(l)
    BY <1>1, <1>2, <1>3, <1>4 DEF Typed, Grows, StageOf, Working
  <1>6. SnapshotOwed'
    BY <1>1, <1>2, <1>4 DEF SnapshotOwed, OthersKept
  <1> QED  BY <1>2, <1>4, <1>5, <1>6, AdvanceInv

\* completeOutboxJob: a post has had its whole effect, and a snapshot that is
\* behind is in other hands.
LEMMA CompleteInv ==
    ASSUME IInv, NEW l \in Loops, CompleteOutboxJob(l)
    PROVE  IInv'
  <1> DEFINE j == loop[l].job
  <1>1. Typed /\ SnapshotOwed /\ StageOf(l)
    BY DEF IInv, Staged
  <1>2. /\ loop[l].pc = "complete" /\ Released(l)
        /\ status' = [status EXCEPT ![j] = IF @ = "running" THEN "done" ELSE @]
        /\ UNCHANGED <<attempts, counted, created, notified, live, owed, history, stranded>>
    BY DEF CompleteOutboxJob, presence, effects, trust
  <1>3. /\ loop' \in [Loops -> LoopStates] /\ OthersKept(l)
        /\ loop'[l].pc = "claim" /\ loop'[l].job = None
    BY <1>1, <1>2, Moved
  <1>4. j \in Jobs /\ (j \in Posts => counted[j] > 0 /\ j \in notified)
    BY <1>1, <1>2 DEF StageOf
  <1>5. Working(l) /\ ~Working(l)' /\ StageOf(l)' /\ Grows
    BY <1>2, <1>3 DEF Working, StageOf, Grows
  <1> HIDE DEF j
  <1>6. /\ status' \in [Jobs -> {"none", "pending", "running", "done", "dead"}]
        /\ \A i \in Jobs : i # j => status'[i] = status[i]
        /\ status'[Snapshot] \in {"running", "done"} => status[Snapshot] \in {"running", "done"}
    BY <1>1, <1>2, <1>4, JobKinds DEF Typed
  <1>7. Typed'
    BY <1>1, <1>2, <1>3, <1>6 DEF Typed
  <1>8. SnapshotOwed'
    BY <1>1, <1>2, <1>3, <1>6 DEF SnapshotOwed, OthersKept
  <1>9. \A p \in Posts : status'[p] = "done" => status[p] = "done" \/ (counted[p] > 0 /\ p \in notified)
    BY <1>4, <1>6, JobKinds
  <1> QED  BY <1>3, <1>5, <1>6, <1>7, <1>8, <1>9, ReleaseInv DEF j

\* failOutboxJob: the row is pending or dead, neither of which claims anything.
LEMMA FailUpdateInv ==
    ASSUME IInv, NEW l \in Loops, FailUpdate(l)
    PROVE  IInv'
  <1> DEFINE j == loop[l].job
             s == IF loop[l].tries >= MaxAttempts THEN "dead" ELSE "pending"
  <1>1. Typed /\ SnapshotOwed /\ StageOf(l)
    BY DEF IInv, Staged
  <1>2. /\ loop[l].pc = "failed" /\ Released(l) /\ status' = [status EXCEPT ![j] = s]
        /\ UNCHANGED <<attempts, counted, created, notified, live, owed, history, stranded>>
    BY DEF FailUpdate, presence, effects, trust
  <1>3. /\ loop' \in [Loops -> LoopStates] /\ OthersKept(l)
        /\ loop'[l].pc = "claim" /\ loop'[l].job = None
    BY <1>1, <1>2, Moved
  <1>4. j \in Jobs /\ s \in {"dead", "pending"}
    BY <1>1, <1>2 DEF StageOf
  <1>5. Working(l) /\ ~Working(l)' /\ StageOf(l)' /\ Grows
    BY <1>2, <1>3 DEF Working, StageOf, Grows
  <1> HIDE DEF s
  <1>6. /\ status' \in [Jobs -> {"none", "pending", "running", "done", "dead"}]
        /\ \A i \in Jobs : i # j => status'[i] = status[i]
        /\ status'[j] \in {"dead", "pending"}
    BY <1>1, <1>2, <1>4 DEF Typed
  <1>7. Typed'
    BY <1>1, <1>2, <1>3, <1>6 DEF Typed
  <1>8. SnapshotOwed'
    BY <1>1, <1>2, <1>3, <1>6, JobKinds DEF SnapshotOwed, OthersKept
  <1>9. \A p \in Posts : status'[p] = "done" => status[p] = "done"
    BY <1>6, JobKinds
  <1> QED  BY <1>3, <1>5, <1>6, <1>7, <1>8, <1>9, ReleaseInv

\* The job whose final update is lost is stranded.
LEMMA FinishFailsInv ==
    ASSUME IInv, NEW l \in Loops, FinishFails(l)
    PROVE  IInv'
  <1>1. Typed /\ SnapshotOwed /\ StageOf(l)
    BY DEF IInv, Staged
  <1>2. /\ Released(l) /\ stranded' = stranded \cup {loop[l].job}
        /\ UNCHANGED <<status, attempts, counted, created, notified, live, owed, history>>
    BY DEF FinishFails, table, presence, effects, trust
  <1>3. /\ loop' \in [Loops -> LoopStates] /\ OthersKept(l)
        /\ loop'[l].pc = "claim" /\ loop'[l].job = None
    BY <1>1, <1>2, Moved
  <1>4. Typed' /\ ~Working(l)' /\ StageOf(l)' /\ Grows
    BY <1>1, <1>2, <1>3 DEF Typed, Working, StageOf, Grows
  <1>5. SnapshotOwed'
    BY <1>1, <1>2, <1>3 DEF SnapshotOwed, OthersKept
  <1> QED  BY <1>2, <1>3, <1>4, <1>5, AdvanceInv

LEMMA LoopStepInv ==
    ASSUME IInv, NEW l \in Loops, LoopStep(l)
    PROVE  IInv'
  <1>1. CASE ClaimUpdate(l)
    <2>1. /\ loop[l].pc = "update"
          /\ UNCHANGED <<counted, created, notified, live, owed, history, stranded>>
      BY <1>1 DEF ClaimUpdate, presence, effects, trust
    <2>2. CASE status[loop[l].job] = "pending"
      BY <1>1, <2>1, <2>2, ClaimedInv DEF ClaimUpdate
    <2>3. CASE status[loop[l].job] # "pending"
      BY <1>1, <2>1, <2>3, GiveUpInv DEF ClaimUpdate, table
    <2> QED  BY <2>2, <2>3
  <1>2. CASE ClaimFails(l)
    BY <1>2, GiveUpInv, Zenon DEF ClaimFails, table, presence, effects, trust
  <1> QED
    BY <1>1, <1>2, TickInv, LoopEndsInv, ClaimSelectInv, CountInv, TrustInv, NotifyInv, SnapshotInv,
       FailingInv, CompleteInv, FailUpdateInv, FinishFailsInv DEF LoopStep

-----------------------------------------------------------------------------
(* Enqueueing and the election *)

\* A post is enqueued once: nobody can be at work on it.
LEMMA EnqueuePostInv ==
    ASSUME IInv, NEW p \in Posts, EnqueuePost(p)
    PROVE  IInv'
  <1>1. Typed /\ Staged /\ RowRunning /\ OneRunner /\ DoneDelivered /\ SnapshotOwed
    BY DEF IInv
  <1>2. /\ status[p] = "none" /\ status' = [status EXCEPT ![p] = "pending"]
        /\ UNCHANGED <<attempts, counted, created, notified, live, owed, history, loop, stranded>>
    BY DEF EnqueuePost, presence, effects, trust
  <1>3. /\ status' \in [Jobs -> {"none", "pending", "running", "done", "dead"}]
        /\ status'[p] = "pending" /\ \A j \in Jobs : j # p => status'[j] = status[j]
    BY <1>1, <1>2, JobKinds DEF Typed
  <1>4. Typed' /\ Staged' /\ OneRunner'
    BY <1>1, <1>2, <1>3 DEF Typed, Staged, StageOf, OneRunner, Working
  <1>5. RowRunning'
    BY <1>1, <1>2, <1>3, JobKinds DEF RowRunning, Working
  <1>6. DoneDelivered'
    BY <1>1, <1>2, <1>3, JobKinds DEF DoneDelivered
  <1>7. SnapshotOwed'
    BY <1>1, <1>2, <1>3, JobKinds DEF SnapshotOwed
  <1> QED  BY <1>4, <1>5, <1>6, <1>7 DEF IInv

LEMMA SetPresenceInv ==
    ASSUME IInv, SetPresence
    PROVE  IInv'
  <1>1. Typed /\ Staged /\ RowRunning /\ OneRunner /\ DoneDelivered
    BY DEF IInv
  <1>2. /\ owed' = owed + 1
        /\ UNCHANGED <<status, attempts, counted, created, notified, history, loop, stranded>>
    BY DEF SetPresence, table, effects, trust
  <1>3. Typed' /\ Staged' /\ RowRunning' /\ OneRunner' /\ DoneDelivered'
    BY <1>1, <1>2 DEF Typed, Staged, StageOf, RowRunning, OneRunner, DoneDelivered, Working
  <1>4. SnapshotOwed'
    BY <1>1, <1>2 DEF SnapshotOwed, Typed
  <1> QED  BY <1>3, <1>4 DEF IInv

LEMMA EnqueueSnapshotInv ==
    ASSUME IInv, EnqueueSnapshot
    PROVE  IInv'
  <1>1. Typed /\ Staged /\ RowRunning /\ OneRunner /\ DoneDelivered
    BY DEF IInv
  <1>2. /\ owed > 0 /\ owed' = owed - 1
        /\ status' = [status EXCEPT ![Snapshot] = "pending"]
        /\ attempts' = [attempts EXCEPT ![Snapshot] = 0]
        /\ UNCHANGED <<counted, created, notified, loop>>
    BY DEF EnqueueSnapshot, effects, trust
  <1>3. /\ status' \in [Jobs -> {"none", "pending", "running", "done", "dead"}]
        /\ status'[Snapshot] = "pending" /\ \A p \in Posts : status'[p] = status[p]
    BY <1>1, <1>2, JobKinds DEF Typed
  <1>4. Typed'
    BY <1>1, <1>2, <1>3 DEF Typed
  <1>5. Staged' /\ RowRunning' /\ OneRunner' /\ DoneDelivered' /\ SnapshotOwed'
    BY <1>1, <1>2, <1>3 DEF Staged, StageOf, RowRunning, OneRunner, DoneDelivered, SnapshotOwed, Working
  <1> QED  BY <1>4, <1>5 DEF IInv

LEMMA LeadInv ==
    ASSUME IInv, NEW n \in Nodes, Lead(n)
    PROVE  IInv'
  <1>1. Typed /\ SnapshotOwed
    BY DEF IInv
  <1>2. UNCHANGED <<status, attempts, counted, created, notified, live, owed, history, stranded>>
    BY DEF Lead, table, presence, effects, trust
  <1>3. PICK l \in Loops : loop[l].pc = "none" /\ loop' = [loop EXCEPT ![l] = Free("idle", n)]
    BY Zenon DEF Lead
  <1>4. loop' \in [Loops -> LoopStates] /\ OthersKept(l) /\ loop'[l].pc = "idle"
    BY <1>1, <1>3, ZeroLevel DEF Typed, Free, LoopStates, Stages, OthersKept
  <1>5. Typed' /\ Grows /\ StageOf(l)' /\ ~Working(l)'
    BY <1>1, <1>2, <1>4 DEF Typed, Grows, StageOf, Working
  <1>6. SnapshotOwed'
    BY <1>1, <1>2, <1>3, <1>4 DEF SnapshotOwed, OthersKept
  <1> QED  BY <1>2, <1>4, <1>5, <1>6, AdvanceInv

\* A lost session and a failing ping leave rows and loops alone.
LEMMA ElectionInv ==
    ASSUME IInv, UNCHANGED <<status, attempts, counted, created, notified, live, owed, history,
                             loop, stranded>>
    PROVE  IInv'
  BY DEF IInv, Typed, Staged, StageOf, RowRunning, OneRunner, DoneDelivered, SnapshotOwed, Working

\* The loops of a process that dies are gone, and their rows stay running.
LEMMA CrashInv ==
    ASSUME IInv, NEW n \in Nodes, Crash(n)
    PROVE  IInv'
  <1> DEFINE dead == {l \in Loops : loop[l].node = n}
  <1>1. Typed /\ Staged /\ RowRunning /\ OneRunner /\ DoneDelivered /\ SnapshotOwed
    BY DEF IInv
  <1>2. /\ loop' = [l \in Loops |-> IF l \in dead THEN NoLoop ELSE loop[l]]
        /\ stranded' = stranded \cup
             {loop[l].job : l \in {d \in dead : loop[d].pc \notin {"none", "idle", "claim", "update"}}}
        /\ UNCHANGED <<status, attempts, counted, created, notified, live, owed, history>>
    BY DEF Crash, table, presence, effects, trust
  <1>3. \A l \in Loops : loop'[l] = loop[l] \/ loop'[l] = NoLoop
    BY <1>2
  <1>4. NoLoop \in LoopStates /\ NoLoop.pc = "none"
    BY ZeroLevel DEF NoLoop, Free, LoopStates, Stages
  <1> HIDE DEF dead
  <1>5. Typed'
    BY <1>1, <1>2, <1>4 DEF Typed
  <1>6. \A l \in Loops : (loop'[l] = loop[l] /\ Working(l)' = Working(l)) \/ ~Working(l)'
    BY <1>3, <1>4 DEF Working
  <1>7. RowRunning' /\ OneRunner' /\ DoneDelivered'
    BY <1>1, <1>2, <1>6 DEF RowRunning, OneRunner, DoneDelivered
  <1>8. Staged'
    BY <1>1, <1>2, <1>3, <1>4 DEF Staged, StageOf
  <1>9. SnapshotOwed'
    <2>1. ASSUME NEW l \in Loops, loop[l].job = Snapshot, loop[l].pc \in {"snapshot", "fail", "failed"}
          PROVE  Snapshot \in stranded' \/ loop'[l] = loop[l]
      BY <1>2, <2>1 DEF dead
    <2> QED  BY <1>1, <1>2, <2>1 DEF SnapshotOwed
  <1> QED  BY <1>5, <1>7, <1>8, <1>9 DEF IInv

LEMMA InitInv == Init => IInv
  <1> SUFFICES ASSUME Init PROVE IInv
    OBVIOUS
  <1>1. NoLoop \in LoopStates /\ NoLoop.pc = "none"
    BY ZeroLevel DEF NoLoop, Free, LoopStates, Stages
  <1>2. \A l \in Loops : loop[l] = NoLoop
    BY DEF Init
  <1>3. Typed
    BY <1>1 DEF Init, Typed
  <1>4. Staged /\ RowRunning /\ OneRunner
    BY <1>1, <1>2 DEF Staged, StageOf, RowRunning, OneRunner, Working
  <1>5. DoneDelivered /\ SnapshotOwed
    BY JobKinds DEF Init, DoneDelivered, SnapshotOwed
  <1> QED  BY <1>3, <1>4, <1>5 DEF IInv

LEMMA StepInv == IInv /\ [Next]_vars => IInv'
  <1> SUFFICES ASSUME IInv, [Next]_vars PROVE IInv'
    OBVIOUS
  <1>1. CASE \E p \in Posts : EnqueuePost(p)
    BY <1>1, EnqueuePostInv
  <1>2. CASE SetPresence \/ EnqueueSnapshot
    BY <1>2, SetPresenceInv, EnqueueSnapshotInv
  <1>3. ASSUME NEW n \in Nodes, Lead(n) \/ SessionLost(n) \/ StepDown(n) \/ Crash(n) PROVE IInv'
    <2>1. CASE SessionLost(n) \/ StepDown(n)
      BY <2>1, ElectionInv DEF SessionLost, StepDown, table, presence, effects, trust
    <2> QED  BY <1>3, <2>1, LeadInv, CrashInv
  <1>4. CASE \E l \in Loops : LoopStep(l)
    BY <1>4, LoopStepInv
  <1>5. CASE UNCHANGED vars
    BY <1>5, ElectionInv DEF vars
  <1> QED  BY <1>1, <1>2, <1>3, <1>4, <1>5 DEF Next

-----------------------------------------------------------------------------
(* Theorems *)

\* The inductive invariant holds in every reachable state.
THEOREM Invariance == Spec => []IInv
  BY InitInv, StepInv, PTL DEF Spec

\* One loop at a time works on the job of a post, however many leaders overlap:
\* claimOutboxJob updates only a pending row.
THEOREM OneRunnerAlways == Spec => []OneRunner
  <1>1. IInv => OneRunner
    BY DEF IInv
  <1> QED  BY <1>1, Invariance, PTL

\* A post whose job is done has been counted and its notifications are inserted,
\* through any failures, crashes and retries.
THEOREM DoneDeliveredAlways == Spec => []DoneDelivered
  <1>1. IInv => DoneDelivered
    BY DEF IInv
  <1> QED  BY <1>1, Invariance, PTL

\* A snapshot job that is done, and that nobody has, has lost or is about to
\* enqueue, has recorded the last presence change.
THEOREM SnapshotFreshAlways == Spec => []SnapshotFresh
  <1>1. IInv => SnapshotFresh
    <2> SUFFICES ASSUME IInv, status[Snapshot] = "done", owed = 0, Snapshot \notin stranded,
                        \A l \in Loops : ~(Working(l) /\ loop[l].job = Snapshot)
                 PROVE  history = live
      BY DEF SnapshotFresh
    <2>1. ~(owed > 0)
      OBVIOUS
    <2>2. \A l \in Loops : loop[l].pc \in {"snapshot", "fail", "failed"} => Working(l)
      BY DEF Working
    <2> QED  BY <2>1, <2>2 DEF IInv, SnapshotOwed
  <1> QED  BY <1>1, Invariance, PTL
=============================================================================
