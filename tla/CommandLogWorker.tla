-------------------------- MODULE CommandLogWorker --------------------------
(***************************************************************************)
(* Writer workers draining one partition of the command log through the    *)
(* SQL-backed executor (internal/core/command_log_worker.go, the handler   *)
(* it calls, and the partition lease).                                     *)
(*                                                                         *)
(* Several worker processes share the log, the lease row and the database. *)
(* A worker claims the partition, reads the committed offset, fetches a    *)
(* batch, and for each record: refreshes the claim, executes the command,  *)
(* refreshes, writes the receipt (the default finalizer), refreshes and    *)
(* commits the offset.  A heartbeat goroutine refreshes the claim while    *)
(* the command executes and while the receipt is written.                  *)
(*                                                                         *)
(* Abstractions.  The records of the partition are the entries of log, the *)
(* offset of a record is its index.  The lease row is its unexpired owner, *)
(* or NoOwner when it is absent or expired; time is not modelled here      *)
(* (PartitionLease has it).  With assigner-based ownership the same        *)
(* variable is the assignee, which moves as a lease does that expires and  *)
(* is taken at once.  Every error an I/O call may return, every stall that *)
(* lets a lease expire under a working owner and every process restart     *)
(* counts against MaxFaults.                                               *)
(***************************************************************************)
EXTENDS Integers, Sequences, FiniteSets

CONSTANTS
    Workers,         \* writer processes (CommandLogWorkerConfig.OwnerID)
    Cids,            \* command ids, with their actor
    Bodies,          \* command contents, as told apart by HashCommand
    NoOwner,         \* not a worker
    NoBody,          \* not a body: no processed_commands_v2 row
    BatchSize,       \* records fetched by one drain
    CommitAttempts,  \* CommitPartition calls per record and drain
    MaxRecords,      \* bound: records ever produced
    MaxFaults        \* bound: faults, see above

ASSUME WorkerConstants ==
    /\ NoOwner \notin Workers
    /\ NoBody \notin Bodies
    /\ BatchSize \in Nat \ {0}
    /\ CommitAttempts \in Nat \ {0}
    /\ MaxRecords \in Nat
    /\ MaxFaults \in Nat

VARIABLES
    \* durable
    log,        \* Seq of [cid, body]: the command log of the partition
    committed,  \* offset committed to the log
    lease,      \* unexpired owner of the command_partition_leases row
    lock,       \* holder of the partition's advisory lock
    processed,  \* [Cids -> stored hash or NoBody]: processed_commands_v2
    receipts,   \* [Cids -> [st, off]]: command_log_receipts
    \* each worker's drain loop
    pc,         \* where it is in drainPartition
    last,       \* result.LastOffset
    hi,         \* last offset of the fetched batch
    reply,      \* class of the executor's reply
    lost,       \* a heartbeat found the claim gone
    tries,      \* CommitPartition calls that failed for this record
    x,          \* where its command is in Handler.dispatchWithLock
    \* history, read by no action
    effects,    \* [Cids -> Nat]: times a command's transaction committed
    settled,    \* offsets with an applied or failed receipt written
    gap,        \* cids whose processed row was not written, not read, or is pruned
    faults

durable == <<log, committed, lease, lock, processed, receipts>>
drain   == <<pc, last, hi, reply, lost, tries>>
history == <<effects, settled, gap, faults>>
vars    == <<durable, drain, x, history>>

Records  == [cid : Cids, body : Bodies]
Statuses == {"none", "retrying", "failed", "applied"}
Replies  == {"none", "applied", "terminal", "retryable"}
PCs      == {"idle", "read", "fetch", "loop", "execute", "executed",
             "finalize", "commit", "committing", "stopped"}
XPCs     == {"off", "queued", "locked", "miss", "routed", "done"}

Off(w) == last[w] + 1
Rec(w) == log[Off(w)]
Larger(m, n) == IF m > n THEN m ELSE n

\* ClaimCommandPartition acquires when the row is absent, expired or w's own.
Owned(w) == lease \in {NoOwner, w}

Fault == faults < MaxFaults /\ faults' = faults + 1

NoReceipt == [st |-> "none", off |-> 0]

Init ==
    /\ log = <<>>
    /\ committed = 0
    /\ lease = NoOwner
    /\ lock = NoOwner
    /\ processed = [c \in Cids |-> NoBody]
    /\ receipts = [c \in Cids |-> NoReceipt]
    /\ pc = [w \in Workers |-> "idle"]
    /\ last = [w \in Workers |-> 0]
    /\ hi = [w \in Workers |-> 0]
    /\ reply = [w \in Workers |-> "none"]
    /\ lost = [w \in Workers |-> FALSE]
    /\ tries = [w \in Workers |-> 0]
    /\ x = [w \in Workers |-> "off"]
    /\ effects = [c \in Cids |-> 0]
    /\ settled = {}
    /\ gap = {}
    /\ faults = 0

-----------------------------------------------------------------------------
(***************************************************************************)
(* The environment: clients produce, leases expire.                        *)
(***************************************************************************)

\* A client's command is appended.  Within the broker's duplicate window the
\* append of a known cid changes nothing (it returns the first record, or an
\* error for other content); outside it, and on Kafka, the cid is appended
\* again.
Produce(r) ==
    /\ Len(log) < MaxRecords
    /\ log' = Append(log, r)
    /\ UNCHANGED <<committed, lease, lock, processed, receipts, drain, x, history>>

\* The lease of a worker that is not draining runs out by itself; that of a
\* draining worker only if it stalls for longer than the TTL.
LeaseExpires ==
    /\ lease # NoOwner
    /\ IF pc[lease] \in {"idle", "stopped"} THEN UNCHANGED faults ELSE Fault
    /\ lease' = NoOwner
    /\ UNCHANGED <<log, committed, lock, processed, receipts, drain, x, effects, settled, gap>>

-----------------------------------------------------------------------------
(***************************************************************************)
(* The drain loop.                                                         *)
(***************************************************************************)

GoTo(w, to) == pc' = [pc EXCEPT ![w] = to]

\* drainListedPartition: claim, then enter drainPartition.  A claim that is
\* not acquired leaves the worker idle.
BeginDrain(w) ==
    /\ pc[w] = "idle"
    /\ Owned(w)
    /\ lease' = w
    /\ GoTo(w, "read")
    /\ UNCHANGED <<log, committed, lock, processed, receipts, last, hi, reply, lost, tries, x, history>>

ReadCommitted(w) ==
    /\ pc[w] = "read"
    /\ last' = [last EXCEPT ![w] = committed]
    /\ GoTo(w, "fetch")
    /\ UNCHANGED <<durable, hi, reply, lost, tries, x, history>>

\* Mutant: the end of the log is taken for exclusive.
FetchPartition_MissesLast(w) ==
    /\ pc[w] = "fetch"
    /\ hi' = [hi EXCEPT ![w] = IF last[w] + BatchSize < Len(log)
                               THEN last[w] + BatchSize ELSE Len(log) - 1]
    /\ GoTo(w, "loop")
    /\ UNCHANGED <<durable, last, reply, lost, tries, x, history>>

FetchPartition(w) ==
    /\ pc[w] = "fetch"
    /\ hi' = [hi EXCEPT ![w] = IF last[w] + BatchSize < Len(log)
                               THEN last[w] + BatchSize ELSE Len(log)]
    /\ GoTo(w, "loop")
    /\ UNCHANGED <<durable, last, reply, lost, tries, x, history>>

\* The head of the record loop: the batch is done, or the claim is refreshed
\* and the command handed to the executor, or the claim is gone.
NextRecord(w) ==
    /\ pc[w] = "loop"
    /\ IF last[w] < hi[w] /\ Owned(w)
       THEN /\ lease' = w
            /\ lost' = [lost EXCEPT ![w] = FALSE]
            /\ tries' = [tries EXCEPT ![w] = 0]
            /\ x' = [x EXCEPT ![w] = "queued"]
            /\ GoTo(w, "execute")
       ELSE /\ GoTo(w, "idle")
            /\ UNCHANGED <<lease, lost, tries, x>>
    /\ UNCHANGED <<log, committed, lock, processed, receipts, last, hi, reply, history>>

\* The ticker of executeWithOwnershipHeartbeat and of
\* finalizeWithOwnershipHeartbeat.  Once lost, the claim is not asked for
\* again; the command runs on.
Heartbeat(w) ==
    /\ pc[w] \in {"execute", "finalize"}
    /\ ~lost[w]
    /\ IF Owned(w)
       THEN lease' = w /\ UNCHANGED lost
       ELSE lost' = [lost EXCEPT ![w] = TRUE] /\ UNCHANGED lease
    /\ UNCHANGED <<log, committed, lock, processed, receipts, pc, last, hi, reply, tries, x, history>>

HeartbeatFails(w) ==
    /\ pc[w] \in {"execute", "finalize"}
    /\ ~lost[w]
    /\ Fault
    /\ lost' = [lost EXCEPT ![w] = TRUE]
    /\ UNCHANGED <<durable, pc, last, hi, reply, tries, x, effects, settled, gap>>

\* The executor answers.  After a lost claim the reply is dropped although
\* the command ran.
Executed(w) ==
    /\ pc[w] = "execute"
    /\ x[w] = "done"
    /\ x' = [x EXCEPT ![w] = "off"]
    /\ GoTo(w, IF lost[w] THEN "idle" ELSE "executed")
    /\ UNCHANGED <<durable, last, hi, reply, lost, tries, history>>

RefreshBeforeFinalize(w) ==
    /\ pc[w] = "executed"
    /\ IF Owned(w)
       THEN lease' = w /\ GoTo(w, "finalize")
       ELSE UNCHANGED lease /\ GoTo(w, "idle")
    /\ UNCHANGED <<log, committed, lock, processed, receipts, last, hi, reply, lost, tries, x, history>>

ReceiptStatus(r) == CASE r = "applied"   -> "applied"
                      [] r = "terminal"  -> "failed"
                      [] r = "retryable" -> "retrying"
                      [] OTHER           -> "none"

\* Mutant: the drain goes on to commit after a retryable failure.
Finalize_CommitsRetryable(w) ==
    /\ pc[w] = "finalize"
    /\ receipts' = [receipts EXCEPT ![Rec(w).cid] =
                        [st |-> ReceiptStatus(reply[w]), off |-> Off(w)]]
    /\ settled' = IF reply[w] = "retryable" THEN settled ELSE settled \cup {Off(w)}
    /\ GoTo(w, IF lost[w] THEN "idle" ELSE "commit")
    /\ UNCHANGED <<log, committed, lease, lock, processed, last, hi, reply, lost, tries, x,
                   effects, gap, faults>>

\* Mutant: a terminal failure is committed without its receipt.
Finalize_NoFailedReceipt(w) ==
    /\ pc[w] = "finalize"
    /\ receipts' = IF reply[w] = "terminal" THEN receipts
                   ELSE [receipts EXCEPT ![Rec(w).cid] =
                            [st |-> ReceiptStatus(reply[w]), off |-> Off(w)]]
    /\ settled' = IF reply[w] = "retryable" THEN settled ELSE settled \cup {Off(w)}
    /\ GoTo(w, IF reply[w] = "retryable" \/ lost[w] THEN "idle" ELSE "commit")
    /\ UNCHANGED <<log, committed, lease, lock, processed, last, hi, reply, lost, tries, x,
                   effects, gap, faults>>

\* commandLogDefaultFinalizer upserts the receipt; the last writer wins.  The
\* offset of a retryable failure is not committed, nor is any after a loss of
\* the claim.
Finalize(w) ==
    /\ pc[w] = "finalize"
    /\ receipts' = [receipts EXCEPT ![Rec(w).cid] =
                        [st |-> ReceiptStatus(reply[w]), off |-> Off(w)]]
    /\ settled' = IF reply[w] = "retryable" THEN settled ELSE settled \cup {Off(w)}
    /\ GoTo(w, IF reply[w] = "retryable" \/ lost[w] THEN "idle" ELSE "commit")
    /\ UNCHANGED <<log, committed, lease, lock, processed, last, hi, reply, lost, tries, x,
                   effects, gap, faults>>

\* Mutant: the drain logs the recorder's error and takes the next record.
FinalizeFails_Skips(w) ==
    /\ pc[w] = "finalize"
    /\ IF lost[w] THEN UNCHANGED faults ELSE Fault
    /\ last' = [last EXCEPT ![w] = Off(w)]
    /\ GoTo(w, IF lost[w] THEN "idle" ELSE "loop")
    /\ UNCHANGED <<durable, hi, reply, lost, tries, x, effects, settled, gap>>

\* The receipt is not written: the recorder fails, or its context was
\* cancelled because the claim was lost.
FinalizeFails(w) ==
    /\ pc[w] = "finalize"
    /\ IF lost[w] THEN UNCHANGED faults ELSE Fault
    /\ GoTo(w, "idle")
    /\ UNCHANGED <<durable, last, hi, reply, lost, tries, x, effects, settled, gap>>

\* commitPartition refreshes the claim before every attempt; the claim may
\* still go before the commit itself arrives.
RefreshBeforeCommit(w) ==
    /\ pc[w] = "commit"
    /\ IF Owned(w)
       THEN lease' = w /\ GoTo(w, "committing")
       ELSE UNCHANGED lease /\ GoTo(w, "idle")
    /\ UNCHANGED <<log, committed, lock, processed, receipts, last, hi, reply, lost, tries, x, history>>

\* Mutant: the log stores the offset it is given.
CommittedAfter_Overwrites(o) == o

\* CommittedAfter(o): the log keeps the larger of its offset and the new one.
CommittedAfter(o) == Larger(committed, o)

\* Mutant: the end of the batch is committed with its first record.
CommitPartition_WholeBatch(w) ==
    /\ pc[w] = "committing"
    /\ committed' = CommittedAfter(hi[w])
    /\ last' = [last EXCEPT ![w] = Off(w)]
    /\ GoTo(w, "loop")
    /\ UNCHANGED <<log, lease, lock, processed, receipts, hi, reply, lost, tries, x, history>>

CommitPartition(w) ==
    /\ pc[w] = "committing"
    /\ committed' = CommittedAfter(Off(w))
    /\ last' = [last EXCEPT ![w] = Off(w)]
    /\ GoTo(w, "loop")
    /\ UNCHANGED <<log, lease, lock, processed, receipts, hi, reply, lost, tries, x, history>>

\* An attempt returns an error, with the commit landed or not.
CommitFails(w) ==
    /\ pc[w] = "committing"
    /\ Fault
    /\ committed' \in {committed, CommittedAfter(Off(w))}
    /\ tries' = [tries EXCEPT ![w] = @ + 1]
    /\ GoTo(w, IF tries[w] + 1 < CommitAttempts THEN "commit" ELSE "idle")
    /\ UNCHANGED <<log, lease, lock, processed, receipts, last, hi, reply, lost, x, effects, settled, gap>>

\* Any other call of the loop returns an error: CommittedOffset,
\* FetchPartition, a refresh of the claim.
DrainFails(w) ==
    /\ pc[w] \in {"read", "fetch", "loop", "executed", "commit"}
    /\ Fault
    /\ GoTo(w, "idle")
    /\ UNCHANGED <<durable, last, hi, reply, lost, tries, x, effects, settled, gap>>

\* The context is cancelled: the drain returns at its next context check, but
\* a command already handed to the handler runs on.
Cancel(w) ==
    /\ pc[w] # "stopped"
    /\ Fault
    /\ GoTo(w, "stopped")
    /\ UNCHANGED <<durable, last, hi, reply, lost, tries, x, effects, settled, gap>>

\* The process ends and starts anew: its connection, and with it the advisory
\* lock, is gone.  A command whose transaction committed is not recorded.
Restart(w) ==
    /\ pc[w] = "stopped"
    /\ GoTo(w, "idle")
    /\ x' = [x EXCEPT ![w] = "off"]
    /\ lock' = IF lock = w THEN NoOwner ELSE lock
    /\ gap' = IF x[w] = "routed" THEN gap \cup {Rec(w).cid} ELSE gap
    /\ UNCHANGED <<log, committed, lease, processed, receipts, last, hi, reply, lost, tries,
                   effects, settled, faults>>

-----------------------------------------------------------------------------
(***************************************************************************)
(* The handler executing the command of worker w: dispatchWithLock and     *)
(* dispatch.                                                               *)
(***************************************************************************)

Answer(w, class) ==
    /\ reply' = [reply EXCEPT ![w] = class]
    /\ x' = [x EXCEPT ![w] = "done"]
    /\ lock' = IF lock = w THEN NoOwner ELSE lock

\* Mutant: commands of one partition run side by side.
AcquireLock_NotExclusive(w) ==
    /\ x[w] = "queued"
    /\ lock' = w
    /\ x' = [x EXCEPT ![w] = "locked"]
    /\ UNCHANGED <<log, committed, lease, processed, receipts, drain, history>>

AcquireLock(w) ==
    /\ x[w] = "queued"
    /\ lock = NoOwner
    /\ lock' = w
    /\ x' = [x EXCEPT ![w] = "locked"]
    /\ UNCHANGED <<log, committed, lease, processed, receipts, drain, history>>

\* The lock times out or the connection fails: reply lock_unavailable.
LockUnavailable(w) ==
    /\ x[w] = "queued"
    /\ Fault
    /\ Answer(w, "retryable")
    /\ UNCHANGED <<log, committed, lease, processed, receipts, pc, last, hi, lost, tries,
                   effects, settled, gap>>

\* A stored result is returned; a cid stored for other content is a conflict.
CheckProcessed(w) ==
    /\ x[w] = "locked"
    /\ IF processed[Rec(w).cid] = NoBody
       THEN x' = [x EXCEPT ![w] = "miss"] /\ UNCHANGED <<reply, lock>>
       ELSE Answer(w, IF processed[Rec(w).cid] = Rec(w).body THEN "applied" ELSE "terminal")
    /\ UNCHANGED <<log, committed, lease, processed, receipts, pc, last, hi, lost, tries, history>>

\* A query that fails reads as "not processed".
CheckProcessedFails(w) ==
    /\ x[w] = "locked"
    /\ Fault
    /\ x' = [x EXCEPT ![w] = "miss"]
    /\ gap' = gap \cup {Rec(w).cid}
    /\ UNCHANGED <<durable, drain, effects, settled>>

\* The command's own transaction commits.
RouteApplies(w) ==
    /\ x[w] = "miss"
    /\ effects' = [effects EXCEPT ![Rec(w).cid] = @ + 1]
    /\ x' = [x EXCEPT ![w] = "routed"]
    /\ UNCHANGED <<durable, drain, settled, gap, faults>>

\* The command is refused, or fails in a way worth a retry; nothing commits.
RouteRejects(w) ==
    /\ x[w] = "miss"
    /\ \/ Answer(w, "terminal") /\ UNCHANGED faults
       \/ Answer(w, "retryable") /\ Fault
    /\ UNCHANGED <<log, committed, lease, processed, receipts, pc, last, hi, lost, tries,
                   effects, settled, gap>>

\* RecordProcessed in a transaction of its own: rows past the retention window
\* are pruned, a retrying receipt of this cid is cleared, the result stored.
RecordProcessed(w) ==
    LET c == Rec(w).cid IN
    /\ x[w] = "routed"
    /\ \E old \in SUBSET {d \in Cids \ {c} : processed[d] # NoBody} :
        /\ IF old = {} THEN UNCHANGED faults ELSE Fault
        /\ processed' = [d \in Cids |-> CASE d = c     -> Rec(w).body
                                          [] d \in old -> NoBody
                                          [] OTHER     -> processed[d]]
        /\ gap' = gap \cup old
    /\ receipts' = [receipts EXCEPT ![c] = IF @.st = "retrying" THEN NoReceipt ELSE @]
    /\ Answer(w, "applied")
    /\ UNCHANGED <<log, committed, lease, pc, last, hi, lost, tries, effects, settled>>

\* "non-fatal if it fails": the reply is the same.
RecordProcessedFails(w) ==
    /\ x[w] = "routed"
    /\ Fault
    /\ gap' = gap \cup {Rec(w).cid}
    /\ Answer(w, "applied")
    /\ UNCHANGED <<log, committed, lease, processed, receipts, pc, last, hi, lost, tries,
                   effects, settled>>

-----------------------------------------------------------------------------
DrainStep(w) ==
    \/ BeginDrain(w) \/ ReadCommitted(w) \/ FetchPartition(w) \/ NextRecord(w)
    \/ Executed(w) \/ RefreshBeforeFinalize(w) \/ Finalize(w)
    \/ RefreshBeforeCommit(w) \/ CommitPartition(w) \/ Restart(w)

HandlerStep(w) ==
    \/ AcquireLock(w) \/ CheckProcessed(w) \/ RouteApplies(w) \/ RouteRejects(w)
    \/ RecordProcessed(w)

FaultStep(w) ==
    \/ HeartbeatFails(w) \/ FinalizeFails(w) \/ CommitFails(w) \/ DrainFails(w)
    \/ Cancel(w) \/ LockUnavailable(w) \/ CheckProcessedFails(w) \/ RecordProcessedFails(w)

Next ==
    \/ \E r \in Records : Produce(r)
    \/ LeaseExpires
    \/ \E w \in Workers : DrainStep(w) \/ Heartbeat(w) \/ HandlerStep(w) \/ FaultStep(w)

\* Worker.Run drains on a ticker for ever, a started handler call runs, a
\* stopped process is started again, a lease has an expiry time.
Fairness ==
    /\ WF_vars(LeaseExpires)
    /\ \A w \in Workers : WF_vars(DrainStep(w)) /\ WF_vars(HandlerStep(w))

Spec == Init /\ [][Next]_vars
FairSpec == Spec /\ Fairness

-----------------------------------------------------------------------------
(***************************************************************************)
(* Properties.                                                             *)
(***************************************************************************)

\* Types of the variables; tries stays within the attempts commitPartition
\* makes.
TypeOK ==
    /\ log \in Seq(Records)
    /\ committed \in Nat
    /\ lease \in Workers \cup {NoOwner}
    /\ lock \in Workers \cup {NoOwner}
    /\ processed \in [Cids -> Bodies \cup {NoBody}]
    /\ receipts \in [Cids -> [st : Statuses, off : Nat]]
    /\ pc \in [Workers -> PCs]
    /\ last \in [Workers -> Nat]
    /\ hi \in [Workers -> Nat]
    /\ reply \in [Workers -> Replies]
    /\ lost \in [Workers -> BOOLEAN]
    /\ tries \in [Workers -> 0..CommitAttempts]
    /\ x \in [Workers -> XPCs]
    /\ effects \in [Cids -> Nat]
    /\ settled \in SUBSET Nat
    /\ gap \in SUBSET Cids
    /\ faults \in 0..MaxFaults

\* The committed offset never covers a record for which no worker has written
\* an applied or failed receipt: a retryable failure, a lost claim, a failed
\* recorder or a crash never lets drainPartition pass a record by.
CommittedSettled == 1..committed \subseteq settled

\* Whatever a stale worker still does, a command is handed to the handler only
\* after every earlier record of the partition has its verdict.
ExecutesInOrder == \A w \in Workers : x[w] # "off" => 1..last[w] \subseteq settled

\* The idempotency bridge (checkProcessed and RecordProcessed under the
\* partition lock) keeps a command from taking effect twice, however often it
\* is redelivered and by however many overlapping workers, unless its
\* processed row was not written, could not be read, or is pruned.
EffectOnce == \A c \in Cids : effects[c] > 1 => c \in gap

\* A client that asks for the status of a committed command finds a receipt
\* or the stored result, whoever overwrote or cleared the receipt since.
CommittedReported ==
    \A o \in 1..committed :
        LET c == log[o].cid IN
        receipts[c].st # "none" \/ processed[c] # NoBody \/ c \in gap

\* The committed offset moves one record at a time and never back, also when
\* a worker that lost its claim commits late.
CommitsInOrder == [][committed' \in {committed, committed + 1}]_vars

\* Every produced command is eventually committed, through crashes, lost
\* claims and failed calls, once these stop.
EventuallyCommitted ==
    \A o \in 1..MaxRecords : (Len(log) >= o) ~> (committed >= o)

\* The workers implement the ordered consumer: the log and the committed offset
\* are its own, and an offset is settled when its verdict is written.
Abstract == INSTANCE OrderedConsumer
    WITH Records <- Records, log <- log, committed <- committed, settled <- settled
ImplementsOrderedConsumer == Abstract!Spec

\* protocol-definition.md: a command sent again with a cid that was already
\* applied in its partition has no second effect.
NoSecondEffect == \A c \in Cids : effects[c] <= 1
=============================================================================
