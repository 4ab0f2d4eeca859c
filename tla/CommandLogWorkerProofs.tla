----------------------- MODULE CommandLogWorkerProofs -----------------------
(***************************************************************************)
(* Proofs about CommandLogWorker, for any number of workers, records and   *)
(* faults.                                                                 *)
(***************************************************************************)
EXTENDS CommandLogWorker, TLAPS

\* A worker with a record in hand has it within the batch it fetched, the batch
\* is part of the log, and it has attempts left until it gives the record up.
InHand(w) == pc[w] \in {"execute", "executed", "finalize", "commit", "committing"}

BatchInv ==
    \A w \in Workers :
        /\ hi[w] <= Len(log)
        /\ InHand(w) \/ x[w] # "off" => last[w] < hi[w]
        /\ InHand(w) => tries[w] < CommitAttempts
        /\ x[w] # "off" => pc[w] \in {"execute", "stopped"}

\* The progress of the drains against the committed offset.
ProgressInv ==
    /\ \A w \in Workers : last[w] <= committed
    /\ \A w \in Workers : pc[w] \in {"commit", "committing"} => Off(w) \in settled
    /\ CommittedSettled

IInv == TypeOK /\ BatchInv /\ ProgressInv

-----------------------------------------------------------------------------
\* The invariant holds initially.
LEMMA InitInv == Init => IInv
  BY WorkerConstants DEF Init, IInv, TypeOK, BatchInv, ProgressInv, InHand, CommittedSettled, NoReceipt,
     PCs, XPCs, Replies, Statuses

\* The record in hand is a record of the log.
LEMMA RecInLog ==
  ASSUME TypeOK, BatchInv, NEW w \in Workers, InHand(w) \/ x[w] # "off"
  PROVE  /\ Off(w) \in 1..Len(log)
         /\ Rec(w) \in Records
         /\ Rec(w).cid \in Cids
         /\ Rec(w).body \in Bodies
<1>1. Off(w) \in 1..Len(log)
  BY DEF TypeOK, BatchInv, Off
<1>2. Rec(w) \in Records
  BY <1>1 DEF TypeOK, Rec
<1> QED BY <1>1, <1>2 DEF Records

\* What an answer of the handler, and a fault, leave of the types.
LEMMA AnswerType ==
  ASSUME TypeOK, NEW w \in Workers, NEW class \in Replies, Answer(w, class)
  PROVE  /\ reply' \in [Workers -> Replies]
         /\ x' \in [Workers -> XPCs]
         /\ lock' \in Workers \cup {NoOwner}
  BY DEF Answer, TypeOK, XPCs

\* A failing call uses up one of the bounded faults.
LEMMA FaultType == ASSUME TypeOK, Fault PROVE faults' \in 0..MaxFaults
  BY WorkerConstants DEF TypeOK, Fault

\* Every step keeps the types; commitPartition gives up after its attempts.
LEMMA TypeStep == ASSUME IInv, [Next]_vars PROVE TypeOK'
<1> USE WorkerConstants DEF IInv
<1>1. CASE UNCHANGED vars
  BY <1>1 DEF vars, durable, drain, history, TypeOK
<1>2. ASSUME NEW r \in Records, Produce(r) PROVE TypeOK'
  BY <1>2 DEF Produce, drain, history, TypeOK
<1>3. CASE LeaseExpires
  <2>1. faults' \in 0..MaxFaults
    BY <1>3, FaultType DEF LeaseExpires, TypeOK
  <2> QED BY <1>3, <2>1 DEF LeaseExpires, drain, TypeOK
<1>4. ASSUME NEW w \in Workers, DrainStep(w) PROVE TypeOK'
  <2>1. CASE BeginDrain(w)
    BY <2>1 DEF BeginDrain, GoTo, history, TypeOK, PCs
  <2>2. CASE ReadCommitted(w)
    BY <2>2, Zenon DEF ReadCommitted, GoTo, durable, history, TypeOK, PCs
  <2>3. CASE FetchPartition(w)
    <3>1. Len(log) \in Nat /\ last[w] + BatchSize \in Nat
      BY DEF TypeOK
    <3>2. hi' \in [Workers -> Nat]
      BY <2>3, <3>1 DEF FetchPartition, TypeOK
    <3>3. pc' \in [Workers -> PCs]
      BY <2>3 DEF FetchPartition, GoTo, TypeOK, PCs
    <3> QED BY <2>3, <3>2, <3>3, Zenon DEF FetchPartition, durable, history, TypeOK
  <2>4. CASE NextRecord(w)
    <3>0. GoTo(w, "execute") \/ GoTo(w, "idle")
      BY <2>4 DEF NextRecord
    <3>1. pc' \in [Workers -> PCs]
      BY <3>0, Zenon DEF GoTo, TypeOK, PCs
    <3>2. x' \in [Workers -> XPCs]
      BY <2>4, Zenon DEF NextRecord, TypeOK, XPCs
    <3>3. lease' \in Workers \cup {NoOwner} /\ lost' \in [Workers -> BOOLEAN]
      BY <2>4, Zenon DEF NextRecord, TypeOK
    <3>4. tries' \in [Workers -> 0..CommitAttempts]
      <4>1. tries' = [tries EXCEPT ![w] = 0] \/ tries' = tries
        BY <2>4 DEF NextRecord
      <4>2. tries \in [Workers -> 0..CommitAttempts] /\ 0 \in 0..CommitAttempts
        BY DEF TypeOK
      <4> QED BY <4>1, <4>2, Zenon
    <3> QED BY <2>4, <3>1, <3>2, <3>3, <3>4, Zenon DEF NextRecord, history, TypeOK
  <2>5. CASE Executed(w)
    BY <2>5 DEF Executed, GoTo, durable, history, TypeOK, PCs, XPCs
  <2>6. CASE RefreshBeforeFinalize(w)
    BY <2>6, Zenon DEF RefreshBeforeFinalize, GoTo, history, TypeOK, PCs
  <2>7. CASE Finalize(w)
    <3>1. Rec(w).cid \in Cids /\ Off(w) \in Nat
      BY <2>7, RecInLog DEF Finalize, InHand
    <3>2. [st |-> ReceiptStatus(reply[w]), off |-> Off(w)] \in [st : Statuses, off : Nat]
      BY <3>1 DEF ReceiptStatus, Statuses
    <3> QED BY <2>7, <3>1, <3>2, Zenon DEF Finalize, GoTo, TypeOK, PCs
  <2>8. CASE RefreshBeforeCommit(w)
    BY <2>8, Zenon DEF RefreshBeforeCommit, GoTo, history, TypeOK, PCs
  <2>9. CASE CommitPartition(w)
    <3>1. Off(w) \in Nat /\ CommittedAfter(Off(w)) \in Nat
      BY DEF TypeOK, Off, CommittedAfter, Larger
    <3>2. committed' \in Nat /\ last' \in [Workers -> Nat]
      BY <2>9, <3>1 DEF CommitPartition, TypeOK
    <3>3. pc' \in [Workers -> PCs]
      BY <2>9 DEF CommitPartition, GoTo, TypeOK, PCs
    <3> QED BY <2>9, <3>2, <3>3, Zenon DEF CommitPartition, history, TypeOK
  <2>10. CASE Restart(w)
    <3>1. x[w] = "routed" => Rec(w).cid \in Cids
      BY RecInLog
    <3> QED BY <2>10, <3>1 DEF Restart, GoTo, TypeOK, PCs, XPCs
  <2> QED BY <1>4, <2>1, <2>2, <2>3, <2>4, <2>5, <2>6, <2>7, <2>8, <2>9, <2>10 DEF DrainStep
<1>5. ASSUME NEW w \in Workers, Heartbeat(w) PROVE TypeOK'
  BY <1>5, Zenon DEF Heartbeat, history, TypeOK
<1>6. ASSUME NEW w \in Workers, HandlerStep(w) PROVE TypeOK'
  <2>0. x[w] # "off" => Rec(w).cid \in Cids /\ Rec(w).body \in Bodies
    BY RecInLog
  <2>1. CASE AcquireLock(w)
    BY <2>1 DEF AcquireLock, drain, history, TypeOK, XPCs
  <2>2. CASE CheckProcessed(w)
    <3>1. CASE x' = [x EXCEPT ![w] = "miss"] /\ UNCHANGED <<reply, lock>>
      BY <2>2, <3>1, Zenon DEF CheckProcessed, history, TypeOK, XPCs
    <3>2. ASSUME NEW class \in {"applied", "terminal"}, Answer(w, class) PROVE TypeOK'
      <4>1. class \in Replies
        BY DEF Replies
      <4> QED BY <2>2, <3>2, <4>1, AnswerType, Zenon DEF CheckProcessed, history, TypeOK
    <3> QED BY <2>2, <3>1, <3>2 DEF CheckProcessed
  <2>3. CASE RouteApplies(w)
    <3>1. effects' \in [Cids -> Nat]
      <4>1. Rec(w).cid \in Cids /\ effects \in [Cids -> Nat]
        BY <2>3, <2>0 DEF RouteApplies, TypeOK
      <4>2. effects' = [effects EXCEPT ![Rec(w).cid] = effects[Rec(w).cid] + 1]
        BY <2>3 DEF RouteApplies
      <4> QED BY <4>1, <4>2
    <3>2. x' \in [Workers -> XPCs]
      BY <2>3 DEF RouteApplies, TypeOK, XPCs
    <3> QED BY <2>3, <3>1, <3>2, Zenon DEF RouteApplies, durable, drain, TypeOK
  <2>4. CASE RouteRejects(w)
    <3>1. \E class \in Replies : Answer(w, class)
      BY <2>4 DEF RouteRejects, Replies
    <3>2. faults' \in 0..MaxFaults
      BY <2>4, FaultType DEF RouteRejects, TypeOK
    <3> QED BY <2>4, <3>1, <3>2, AnswerType, Zenon DEF RouteRejects, TypeOK
  <2>5. CASE RecordProcessed(w)
    <3>1. \E class \in Replies : Answer(w, class)
      BY <2>5 DEF RecordProcessed, Replies
    <3>4. faults' \in 0..MaxFaults
      BY <2>5, FaultType, Zenon DEF RecordProcessed, TypeOK
    <3>5. processed' \in [Cids -> Bodies \cup {NoBody}]
      BY <2>5, <2>0, Zenon DEF RecordProcessed, TypeOK
    <3>6. receipts' \in [Cids -> [st : Statuses, off : Nat]]
      BY <2>5, <2>0 DEF RecordProcessed, NoReceipt, Statuses, TypeOK
    <3>7. gap' \in SUBSET Cids
      BY <2>5 DEF RecordProcessed, TypeOK
    <3> QED BY <2>5, <3>1, <3>4, <3>5, <3>6, <3>7, AnswerType, Zenon DEF RecordProcessed, TypeOK
  <2> QED BY <1>6, <2>1, <2>2, <2>3, <2>4, <2>5 DEF HandlerStep
<1>7. ASSUME NEW w \in Workers, FaultStep(w) PROVE TypeOK'
  <2>0. x[w] # "off" => Rec(w).cid \in Cids
    BY RecInLog
  <2>1. CASE HeartbeatFails(w)
    BY <2>1, FaultType, Zenon DEF HeartbeatFails, durable, TypeOK
  <2>2. CASE FinalizeFails(w)
    <3>1. faults' \in 0..MaxFaults
      BY <2>2 DEF FinalizeFails, Fault, TypeOK
    <3>2. pc' \in [Workers -> PCs]
      BY <2>2 DEF FinalizeFails, GoTo, TypeOK, PCs
    <3> QED BY <2>2, <3>1, <3>2, Zenon DEF FinalizeFails, durable, TypeOK
  <2>3. CASE CommitFails(w)
    <3>1. faults' \in 0..MaxFaults
      BY <2>3, FaultType DEF CommitFails
    <3>2. committed' \in Nat
      BY <2>3 DEF CommitFails, CommittedAfter, Larger, Off, TypeOK
    <3>3. tries' \in [Workers -> 0..CommitAttempts]
      <4>1. tries' = [tries EXCEPT ![w] = tries[w] + 1]
        BY <2>3 DEF CommitFails
      <4>2. tries[w] \in 0..CommitAttempts /\ tries[w] < CommitAttempts
        BY <2>3 DEF CommitFails, BatchInv, InHand, TypeOK
      <4>3. tries[w] + 1 \in 0..CommitAttempts
        BY <4>2
      <4>4. tries \in [Workers -> 0..CommitAttempts]
        BY DEF TypeOK
      <4> QED BY <4>1, <4>3, <4>4, Zenon
    <3>4. GoTo(w, "commit") \/ GoTo(w, "idle")
      BY <2>3 DEF CommitFails
    <3>5. pc' \in [Workers -> PCs]
      BY <3>4, Zenon DEF GoTo, TypeOK, PCs
    <3> QED BY <2>3, <3>1, <3>2, <3>3, <3>5, Zenon DEF CommitFails, TypeOK
  <2>4. CASE DrainFails(w)
    <3>1. pc' \in [Workers -> PCs]
      BY <2>4 DEF DrainFails, GoTo, TypeOK, PCs
    <3> QED BY <2>4, <3>1, FaultType, Zenon DEF DrainFails, durable, TypeOK
  <2>5. CASE Cancel(w)
    <3>1. pc' \in [Workers -> PCs]
      BY <2>5 DEF Cancel, GoTo, TypeOK, PCs
    <3> QED BY <2>5, <3>1, FaultType, Zenon DEF Cancel, durable, TypeOK
  <2>6. CASE LockUnavailable(w)
    <3>1. "retryable" \in Replies
      BY DEF Replies
    <3> QED BY <2>6, <3>1, AnswerType, FaultType, Zenon DEF LockUnavailable, TypeOK
  <2>7. CASE CheckProcessedFails(w)
    <3>1. x' \in [Workers -> XPCs]
      BY <2>7 DEF CheckProcessedFails, TypeOK, XPCs
    <3> QED BY <2>7, <2>0, <3>1, FaultType, Zenon DEF CheckProcessedFails, durable, drain, TypeOK
  <2>8. CASE RecordProcessedFails(w)
    <3>1. "applied" \in Replies
      BY DEF Replies
    <3> QED BY <2>8, <2>0, <3>1, AnswerType, FaultType, Zenon DEF RecordProcessedFails, TypeOK
  <2> QED BY <1>7, <2>1, <2>2, <2>3, <2>4, <2>5, <2>6, <2>7, <2>8 DEF FaultStep
<1> QED BY <1>1, <1>2, <1>3, <1>4, <1>5, <1>6, <1>7 DEF Next

\* Every step keeps the record in hand inside the fetched batch.
LEMMA BatchStep == ASSUME IInv, [Next]_vars PROVE BatchInv'
<1> USE WorkerConstants DEF IInv, TypeOK, BatchInv, InHand
<1>0. TypeOK'
  BY TypeStep, Zenon
<1> SUFFICES ASSUME NEW v \in Workers
             PROVE  (/\ hi[v] <= Len(log)
                     /\ InHand(v) \/ x[v] # "off" => last[v] < hi[v]
                     /\ InHand(v) => tries[v] < CommitAttempts
                     /\ x[v] # "off" => pc[v] \in {"execute", "stopped"})'
  OBVIOUS
<1> DEFINE Goal == (/\ hi[v] <= Len(log)
                    /\ InHand(v) \/ x[v] # "off" => last[v] < hi[v]
                    /\ InHand(v) => tries[v] < CommitAttempts
                    /\ x[v] # "off" => pc[v] \in {"execute", "stopped"})'
<1>1. CASE UNCHANGED vars
  BY <1>1 DEF vars, durable, drain, history
<1>2. ASSUME NEW r \in Records, Produce(r) PROVE Goal
  BY <1>2 DEF Produce, drain, history
<1>3. CASE LeaseExpires
  BY <1>3 DEF LeaseExpires, drain
<1>4. ASSUME NEW w \in Workers, DrainStep(w) PROVE Goal
  <2>1. CASE BeginDrain(w)
    BY <2>1 DEF BeginDrain, GoTo, history
  <2>2. CASE ReadCommitted(w)
    BY <2>2 DEF ReadCommitted, GoTo, durable, history
  <2>3. CASE FetchPartition(w)
    <3>1. hi'[w] <= Len(log) /\ \A u \in Workers : u # w => hi'[u] = hi[u]
      BY <2>3 DEF FetchPartition
    <3>2. pc'[w] = "loop" /\ \A u \in Workers : u # w => pc'[u] = pc[u]
      BY <2>3 DEF FetchPartition, GoTo
    <3>3. UNCHANGED <<log, last, tries, x>> /\ x[w] = "off"
      BY <2>3, Zenon DEF FetchPartition, durable
    <3> QED BY <3>1, <3>2, <3>3
  <2>4. CASE NextRecord(w)
    BY <2>4 DEF NextRecord, GoTo, history
  <2>5. CASE Executed(w)
    BY <2>5 DEF Executed, GoTo, durable, history
  <2>6. CASE RefreshBeforeFinalize(w)
    BY <2>6 DEF RefreshBeforeFinalize, GoTo, history
  <2>7. CASE Finalize(w)
    BY <2>7 DEF Finalize, GoTo
  <2>8. CASE RefreshBeforeCommit(w)
    BY <2>8 DEF RefreshBeforeCommit, GoTo, history
  <2>9. CASE CommitPartition(w)
    BY <2>9 DEF CommitPartition, GoTo, history
  <2>10. CASE Restart(w)
    BY <2>10 DEF Restart, GoTo
  <2> QED BY <1>4, <2>1, <2>2, <2>3, <2>4, <2>5, <2>6, <2>7, <2>8, <2>9, <2>10 DEF DrainStep
<1>5. ASSUME NEW w \in Workers, Heartbeat(w) PROVE Goal
  BY <1>5 DEF Heartbeat, history
<1>6. ASSUME NEW w \in Workers, HandlerStep(w) PROVE Goal
  <2>1. CASE AcquireLock(w)
    BY <2>1 DEF AcquireLock, drain, history
  <2>2. CASE CheckProcessed(w)
    BY <2>2 DEF CheckProcessed, Answer, history
  <2>3. CASE RouteApplies(w)
    BY <2>3 DEF RouteApplies, durable, drain
  <2>4. CASE RouteRejects(w)
    BY <2>4 DEF RouteRejects, Answer, Fault
  <2>5. CASE RecordProcessed(w)
    BY <2>5 DEF RecordProcessed, Answer, Fault
  <2> QED BY <1>6, <2>1, <2>2, <2>3, <2>4, <2>5 DEF HandlerStep
<1>7. ASSUME NEW w \in Workers, FaultStep(w) PROVE Goal
  <2>1. CASE HeartbeatFails(w)
    BY <2>1 DEF HeartbeatFails, Fault, durable
  <2>2. CASE FinalizeFails(w)
    BY <2>2 DEF FinalizeFails, GoTo, Fault, durable
  <2>3. CASE CommitFails(w)
    BY <2>3 DEF CommitFails, GoTo, Fault
  <2>4. CASE DrainFails(w)
    BY <2>4 DEF DrainFails, GoTo, Fault, durable
  <2>5. CASE Cancel(w)
    BY <2>5 DEF Cancel, GoTo, Fault, durable
  <2>6. CASE LockUnavailable(w)
    BY <2>6 DEF LockUnavailable, Answer, Fault
  <2>7. CASE CheckProcessedFails(w)
    BY <2>7 DEF CheckProcessedFails, Fault, durable, drain
  <2>8. CASE RecordProcessedFails(w)
    BY <2>8 DEF RecordProcessedFails, Answer, Fault
  <2> QED BY <1>7, <2>1, <2>2, <2>3, <2>4, <2>5, <2>6, <2>7, <2>8 DEF FaultStep
<1> QED BY <1>1, <1>2, <1>3, <1>4, <1>5, <1>6, <1>7 DEF Next


\* Every step keeps the drains at or behind the committed offset, and commits only
\* a record whose receipt is written.
LEMMA ProgressStep == ASSUME IInv, [Next]_vars PROVE ProgressInv'
<1> USE WorkerConstants DEF IInv, TypeOK, ProgressInv, CommittedSettled, Off
<1>0. TypeOK'
  BY TypeStep, Zenon
<1> DEFINE Goal == (/\ \A v \in Workers : last[v] <= committed
                    /\ \A v \in Workers : pc[v] \in {"commit", "committing"} => Off(v) \in settled
                    /\ 1..committed \subseteq settled)'
<1> SUFFICES Goal
  OBVIOUS
<1>1. CASE UNCHANGED vars
  BY <1>1 DEF vars, durable, drain, history
<1>2. ASSUME NEW r \in Records, Produce(r) PROVE Goal
  BY <1>2 DEF Produce, drain, history
<1>3. CASE LeaseExpires
  BY <1>3 DEF LeaseExpires, drain
<1>4. ASSUME NEW w \in Workers, DrainStep(w) PROVE Goal
  <2>1. CASE BeginDrain(w)
    BY <2>1 DEF BeginDrain, GoTo, history
  <2>2. CASE ReadCommitted(w)
    BY <2>2 DEF ReadCommitted, GoTo, durable, history
  <2>3. CASE FetchPartition(w)
    BY <2>3 DEF FetchPartition, GoTo, durable, history
  <2>4. CASE NextRecord(w)
    BY <2>4 DEF NextRecord, GoTo, history
  <2>5. CASE Executed(w)
    BY <2>5 DEF Executed, GoTo, durable, history
  <2>6. CASE RefreshBeforeFinalize(w)
    BY <2>6 DEF RefreshBeforeFinalize, GoTo, history
  <2>7. CASE Finalize(w)
    BY <2>7 DEF Finalize, GoTo
  <2>8. CASE RefreshBeforeCommit(w)
    BY <2>8 DEF RefreshBeforeCommit, GoTo, history
  <2>9. CASE CommitPartition(w)
    BY <2>9 DEF CommitPartition, CommittedAfter, Larger, GoTo, history
  <2>10. CASE Restart(w)
    BY <2>10 DEF Restart, GoTo
  <2> QED BY <1>4, <2>1, <2>2, <2>3, <2>4, <2>5, <2>6, <2>7, <2>8, <2>9, <2>10, Zenon DEF DrainStep
<1>5. ASSUME NEW w \in Workers, Heartbeat(w) PROVE Goal
  BY <1>5 DEF Heartbeat, history
<1>6. ASSUME NEW w \in Workers, HandlerStep(w) PROVE Goal
  <2>1. CASE AcquireLock(w)
    BY <2>1 DEF AcquireLock, drain, history
  <2>2. CASE CheckProcessed(w)
    BY <2>2 DEF CheckProcessed, Answer, history
  <2>3. CASE RouteApplies(w)
    BY <2>3 DEF RouteApplies, durable, drain
  <2>4. CASE RouteRejects(w)
    BY <2>4 DEF RouteRejects, Answer, Fault
  <2>5. CASE RecordProcessed(w)
    BY <2>5 DEF RecordProcessed, Answer, Fault
  <2> QED BY <1>6, <2>1, <2>2, <2>3, <2>4, <2>5 DEF HandlerStep
<1>7. ASSUME NEW w \in Workers, FaultStep(w) PROVE Goal
  <2>1. CASE HeartbeatFails(w)
    BY <2>1 DEF HeartbeatFails, Fault, durable
  <2>2. CASE FinalizeFails(w)
    BY <2>2 DEF FinalizeFails, GoTo, Fault, durable
  <2>3. CASE CommitFails(w)
    BY <2>3 DEF CommitFails, CommittedAfter, Larger, GoTo, Fault
  <2>4. CASE DrainFails(w)
    BY <2>4 DEF DrainFails, GoTo, Fault, durable
  <2>5. CASE Cancel(w)
    BY <2>5 DEF Cancel, GoTo, Fault, durable
  <2>6. CASE LockUnavailable(w)
    BY <2>6 DEF LockUnavailable, Answer, Fault
  <2>7. CASE CheckProcessedFails(w)
    BY <2>7 DEF CheckProcessedFails, Fault, durable, drain
  <2>8. CASE RecordProcessedFails(w)
    BY <2>8 DEF RecordProcessedFails, Answer, Fault
  <2> QED BY <1>7, <2>1, <2>2, <2>3, <2>4, <2>5, <2>6, <2>7, <2>8 DEF FaultStep
<1> QED BY <1>1, <1>2, <1>3, <1>4, <1>5, <1>6, <1>7 DEF Next

\* The invariant is inductive.
LEMMA InductiveInv == Spec => []IInv
<1>1. IInv /\ [Next]_vars => IInv'
  BY TypeStep, BatchStep, ProgressStep DEF IInv
<1> QED BY InitInv, <1>1, PTL DEF Spec

\* Every reachable state is well typed; in particular no record gets more
\* commit attempts than the worker is configured for.
THEOREM TypeCorrect == Spec => []TypeOK
<1>1. IInv => TypeOK
  BY DEF IInv
<1> QED BY <1>1, InductiveInv, PTL

\* For any number of workers and faults, an offset is committed only when the
\* receipts of all records up to it have been written.
THEOREM CommittedSettledAlways == Spec => []CommittedSettled
<1>1. IInv => CommittedSettled
  BY DEF IInv, ProgressInv
<1> QED BY <1>1, InductiveInv, PTL

\* For any number of workers and faults, a command is handed to the handler
\* only when all earlier records of the partition have a verdict.
THEOREM ExecutesInOrderAlways == Spec => []ExecutesInOrder
<1>1. IInv => ExecutesInOrder
  BY DEF IInv, TypeOK, ProgressInv, CommittedSettled, ExecutesInOrder
<1> QED BY <1>1, InductiveInv, PTL

\* For any number of workers and faults, the committed offset moves by single
\* records and never back.
THEOREM CommitsInOrderAlways == Spec => CommitsInOrder
<1> DEFINE OneStep == committed' \in {committed, committed + 1}
<1>1. ASSUME IInv, [Next]_vars PROVE [OneStep]_vars
  <2> USE DEF IInv, TypeOK
  <2>1. ASSUME NEW w \in Workers, CommitPartition(w) \/ CommitFails(w) PROVE OneStep
    <3>1. committed' = committed \/ committed' = CommittedAfter(Off(w))
      BY <2>1 DEF CommitPartition, CommitFails
    <3>2. CommittedAfter(Off(w)) \in {committed, committed + 1}
      BY <1>1 DEF CommittedAfter, Larger, Off, ProgressInv
    <3> QED BY <3>1, <3>2
  <2>2. CASE UNCHANGED vars
    BY <2>2
  <2>3. CASE LeaseExpires \/ \E r \in Records : Produce(r)
    BY <2>3 DEF LeaseExpires, Produce
  <2>4. ASSUME NEW w \in Workers, DrainStep(w), ~CommitPartition(w) PROVE OneStep
    BY <2>4, Zenon DEF DrainStep, BeginDrain, ReadCommitted, FetchPartition, NextRecord, Executed, 
       RefreshBeforeFinalize, Finalize, RefreshBeforeCommit, Restart, durable
  <2>5. ASSUME NEW w \in Workers, Heartbeat(w) PROVE OneStep
    BY <2>5 DEF Heartbeat
  <2>6. ASSUME NEW w \in Workers, HandlerStep(w) PROVE OneStep
    BY <2>6 DEF HandlerStep, AcquireLock, CheckProcessed, RouteApplies, RouteRejects, 
       RecordProcessed, durable
  <2>7. ASSUME NEW w \in Workers, FaultStep(w), ~CommitFails(w) PROVE OneStep
    BY <2>7 DEF FaultStep, HeartbeatFails, FinalizeFails, DrainFails, Cancel, LockUnavailable, 
       CheckProcessedFails, RecordProcessedFails, durable
  <2> QED BY <1>1, <2>1, <2>2, <2>3, <2>4, <2>5, <2>6, <2>7 DEF Next
<1> QED BY <1>1, InductiveInv, PTL DEF Spec, CommitsInOrder

-----------------------------------------------------------------------------
(***************************************************************************)
(* The refinement of OrderedConsumer: the offsets with a verdict are a     *)
(* prefix of the log, which every Finalize leaves alone or extends by one. *)
(***************************************************************************)
PrefixInv == \E n \in 0..Len(log) : settled = 1..n


\* Every step keeps the verdicts a prefix and is a step of OrderedConsumer, or
\* none.
LEMMA PrefixStep == ASSUME IInv, PrefixInv, [Next]_vars PROVE PrefixInv' /\ [Abstract!Next]_(Abstract!vars)
<1> USE WorkerConstants DEF IInv
<1> DEFINE Goal == PrefixInv' /\ [Abstract!Next]_(Abstract!vars)
<1>1. PICK n \in 0..Len(log) : settled = 1..n
  BY DEF PrefixInv
<1>2. Len(log) \in Nat /\ committed \in Nat /\ committed <= n
  <2>1. Len(log) \in Nat /\ committed \in Nat
    BY DEF TypeOK
  <2>2. committed > 0 => committed \in 1..n
    BY <1>1, <2>1 DEF ProgressInv, CommittedSettled
  <2> QED BY <2>1, <2>2
<1>3. ASSUME UNCHANGED <<log, committed, settled>> PROVE Goal
  BY <1>1, <1>3 DEF PrefixInv, Abstract!vars
<1>4. ASSUME NEW r \in Records, Produce(r) PROVE Goal
  <2>1. log' = Append(log, r) /\ UNCHANGED <<committed, settled>>
    BY <1>4 DEF Produce, history
  <2>2. Len(log') = Len(log) + 1
    BY <2>1 DEF TypeOK
  <2>3. n \in 0..Len(log') /\ settled' = 1..n
    BY <1>1, <1>2, <2>1, <2>2
  <2> QED BY <2>1, <2>3 DEF PrefixInv, Abstract!Next, Abstract!Accept
<1>5. ASSUME NEW w \in Workers, Finalize(w) PROVE Goal
  <2>1. Off(w) \in 1..Len(log) /\ last[w] \in Nat /\ last[w] <= n
    <3>1. InHand(w)
      BY <1>5 DEF Finalize, InHand
    <3>2. last[w] \in Nat /\ last[w] <= committed
      BY DEF TypeOK, ProgressInv
    <3> QED BY <1>1, <1>2, <3>1, <3>2, RecInLog
  <2>2. CASE settled' = settled
    BY <1>3, <1>5, <2>2 DEF Finalize
  <2>3. CASE settled' = settled \cup {Off(w)}
    <3>1. CASE Off(w) <= n
      <4>1. settled' = settled
        BY <1>1, <2>1, <2>3, <3>1
      <4> QED BY <4>1, <2>2
    <3>2. CASE Off(w) = n + 1
      <4>1. settled' = 1..Off(w) /\ settled = 1..(Off(w) - 1)
        BY <1>1, <1>2, <2>1, <2>3, <3>2
      <4>2. UNCHANGED <<log, committed>>
        BY <1>5 DEF Finalize
      <4> QED BY <2>1, <4>1, <4>2, <1>2 DEF PrefixInv, Abstract!Next, Abstract!Settle
    <3> QED BY <1>1, <1>2, <2>1, <3>1, <3>2 DEF Off
  <2> QED BY <1>5, <2>2, <2>3 DEF Finalize
<1>6. ASSUME NEW w \in Workers, CommitPartition(w) \/ CommitFails(w) PROVE Goal
  <2>1. UNCHANGED <<log, settled>>
    BY <1>6 DEF CommitPartition, CommitFails, history
  <2>2. CASE committed' = committed
    BY <1>3, <2>1, <2>2
  <2>3. CASE committed' = Off(w) /\ Off(w) > committed
    <3>1. Off(w) = committed + 1 /\ Off(w) \in settled
      BY <1>6, <2>3 DEF TypeOK, ProgressInv, Off, CommitPartition, CommitFails
    <3> QED BY <1>1, <2>1, <2>3, <3>1 DEF PrefixInv, Abstract!Next, Abstract!Commit
  <2>4. committed' = committed \/ committed' = CommittedAfter(Off(w))
    BY <1>6 DEF CommitPartition, CommitFails
  <2> QED BY <1>2, <2>2, <2>3, <2>4 DEF CommittedAfter, Larger, Off, TypeOK
<1>7. CASE UNCHANGED vars \/ LeaseExpires
  BY <1>3, <1>7 DEF vars, durable, history, LeaseExpires
<1>8. ASSUME NEW w \in Workers, DrainStep(w), ~Finalize(w), ~CommitPartition(w) PROVE Goal
  <2>1. UNCHANGED <<log, committed, settled>>
    BY <1>8 DEF DrainStep, BeginDrain, ReadCommitted, FetchPartition, NextRecord, Executed,
       RefreshBeforeFinalize, RefreshBeforeCommit, Restart, durable, history
  <2> QED BY <1>3, <2>1
<1>9. ASSUME NEW w \in Workers, Heartbeat(w) \/ HandlerStep(w) PROVE Goal
  <2>1. UNCHANGED <<log, committed, settled>>
    BY <1>9 DEF Heartbeat, HandlerStep, AcquireLock, CheckProcessed, RouteApplies, RouteRejects,
       RecordProcessed, durable, history
  <2> QED BY <1>3, <2>1
<1>10. ASSUME NEW w \in Workers, FaultStep(w), ~CommitFails(w) PROVE Goal
  <2>1. UNCHANGED <<log, committed, settled>>
    BY <1>10 DEF FaultStep, HeartbeatFails, FinalizeFails, DrainFails, Cancel, LockUnavailable,
       CheckProcessedFails, RecordProcessedFails, durable
  <2> QED BY <1>3, <2>1
<1> QED BY <1>4, <1>5, <1>6, <1>7, <1>8, <1>9, <1>10 DEF Next

\* For any number of workers and faults, the drain loops implement the ordered
\* consumer: verdicts and commits happen in log order, one at a time.
THEOREM RefinesOrderedConsumer == Spec => Abstract!Safety
<1>1. Init => PrefixInv /\ Abstract!Init
  BY DEF Init, PrefixInv, Abstract!Init
<1>2. IInv /\ PrefixInv /\ [Next]_vars => PrefixInv' /\ [Abstract!Next]_(Abstract!vars)
  BY PrefixStep
<1> QED BY <1>1, <1>2, InductiveInv, PTL DEF Spec, Abstract!Safety

-----------------------------------------------------------------------------
(***************************************************************************)
(* The idempotency bridge.  Between CheckProcessed and RecordProcessed a   *)
(* command holds the partition lock, so a miss is still a miss when the    *)
(* command takes effect, and an effect without a processed row is that of  *)
(* the lock's holder.                                                      *)
(***************************************************************************)
LockInv == \A w \in Workers : x[w] \in {"locked", "miss", "routed"} => lock = w

BridgeInv ==
    /\ \A w \in Workers :
          x[w] = "miss" => processed[Rec(w).cid] = NoBody \/ Rec(w).cid \in gap
    /\ \A c \in Cids :
          effects[c] > 0 => \/ processed[c] # NoBody
                           \/ c \in gap
                           \/ \E w \in Workers : x[w] = "routed" /\ Rec(w).cid = c
    /\ EffectOnce

\* The log only grows, and the only new verdict is that of a Finalize.
LEMMA VerdictStep ==
  ASSUME IInv, [Next]_vars
  PROVE  /\ log' = log \/ \E r \in Records : log' = Append(log, r)
         /\ \/ settled' = settled
            \/ \E w \in Workers : Finalize(w) /\ settled' = settled \cup {Off(w)}
<1> USE DEF durable, history
<1>1. CASE UNCHANGED vars \/ LeaseExpires \/ \E r \in Records : Produce(r)
  BY <1>1 DEF vars, LeaseExpires, Produce
<1>2. ASSUME NEW w \in Workers, DrainStep(w), ~Finalize(w) PROVE UNCHANGED <<log, settled>>
  BY <1>2 DEF DrainStep, BeginDrain, ReadCommitted, FetchPartition, NextRecord, Executed,
     RefreshBeforeFinalize, RefreshBeforeCommit, CommitPartition, Restart
<1>3. ASSUME NEW w \in Workers, Heartbeat(w) \/ HandlerStep(w) PROVE UNCHANGED <<log, settled>>
  BY <1>3 DEF Heartbeat, HandlerStep, AcquireLock, CheckProcessed, RouteApplies, RouteRejects,
     RecordProcessed
<1>4. ASSUME NEW w \in Workers, FaultStep(w) PROVE UNCHANGED <<log, settled>>
  BY <1>4 DEF FaultStep, HeartbeatFails, FinalizeFails, CommitFails, DrainFails, Cancel,
     LockUnavailable, CheckProcessedFails, RecordProcessedFails
<1>5. ASSUME NEW w \in Workers, Finalize(w)
      PROVE  log' = log /\ (settled' = settled \/ settled' = settled \cup {Off(w)})
  BY <1>5 DEF Finalize
<1> QED BY <1>1, <1>2, <1>3, <1>4, <1>5 DEF Next

\* A worker keeps its record while the handler has the command.
LEMMA RecKept ==
  ASSUME IInv, [Next]_vars, NEW v \in Workers, x[v] # "off" PROVE Rec(v)' = Rec(v)
<1> USE DEF IInv, TypeOK
<1>1. pc[v] \in {"execute", "stopped"} /\ Off(v) \in 1..Len(log)
  BY RecInLog DEF BatchInv
<1>2. last'[v] = last[v]
  <2>1. CASE UNCHANGED vars \/ LeaseExpires \/ \E r \in Records : Produce(r)
    BY <2>1 DEF vars, drain, LeaseExpires, Produce
  <2>2. ASSUME NEW w \in Workers, DrainStep(w) PROVE last'[v] = last[v]
    BY <1>1, <2>2, Zenon DEF DrainStep, BeginDrain, ReadCommitted, FetchPartition, NextRecord, Executed,
       RefreshBeforeFinalize, Finalize, RefreshBeforeCommit, CommitPartition, Restart
  <2>3. ASSUME NEW w \in Workers, Heartbeat(w) \/ HandlerStep(w) PROVE last'[v] = last[v]
    BY <2>3 DEF Heartbeat, HandlerStep, AcquireLock, CheckProcessed, RouteApplies, RouteRejects, 
       RecordProcessed, drain
  <2>4. ASSUME NEW w \in Workers, FaultStep(w) PROVE last'[v] = last[v]
    BY <2>4 DEF FaultStep, HeartbeatFails, FinalizeFails, CommitFails, DrainFails, Cancel, 
       LockUnavailable, CheckProcessedFails, RecordProcessedFails, drain
  <2> QED BY <2>1, <2>2, <2>3, <2>4 DEF Next
<1>3. log' = log \/ \E r \in Records : log' = Append(log, r)
  BY VerdictStep
<1>4. log'[Off(v)] = log[Off(v)]
  BY <1>1, <1>3
<1> QED BY <1>2, <1>4 DEF Rec, Off

\* The lock is held until the handler answers or its process ends.
LEMMA LockStep == ASSUME IInv, LockInv, [Next]_vars PROVE LockInv'
<1> USE WorkerConstants DEF IInv, TypeOK, LockInv
<1> SUFFICES ASSUME NEW v \in Workers, x'[v] \in {"locked", "miss", "routed"} PROVE lock' = v
  BY DEF LockInv
<1> DEFINE Goal == lock' = v
<1>1. CASE UNCHANGED vars
  BY <1>1 DEF vars, durable, drain, history
<1>2. ASSUME NEW r \in Records, Produce(r) PROVE Goal
  BY <1>2 DEF Produce, drain, history
<1>3. CASE LeaseExpires
  BY <1>3 DEF LeaseExpires, drain
<1>4. ASSUME NEW w \in Workers, DrainStep(w) PROVE Goal
  <2>1. CASE BeginDrain(w)
    BY <2>1 DEF BeginDrain, GoTo, history
  <2>2. CASE ReadCommitted(w)
    BY <2>2 DEF ReadCommitted, GoTo, durable, history
  <2>3. CASE FetchPartition(w)
    BY <2>3 DEF FetchPartition, GoTo, durable, history
  <2>4. CASE NextRecord(w)
    BY <2>4 DEF NextRecord, GoTo, history
  <2>5. CASE Executed(w)
    BY <2>5 DEF Executed, GoTo, durable, history
  <2>6. CASE RefreshBeforeFinalize(w)
    BY <2>6 DEF RefreshBeforeFinalize, GoTo, history
  <2>7. CASE Finalize(w)
    BY <2>7 DEF Finalize, GoTo
  <2>8. CASE RefreshBeforeCommit(w)
    BY <2>8 DEF RefreshBeforeCommit, GoTo, history
  <2>9. CASE CommitPartition(w)
    BY <2>9 DEF CommitPartition, GoTo, history
  <2>10. CASE Restart(w)
    BY <2>10 DEF Restart, GoTo
  <2> QED BY <1>4, <2>1, <2>2, <2>3, <2>4, <2>5, <2>6, <2>7, <2>8, <2>9, <2>10, Zenon DEF DrainStep
<1>5. ASSUME NEW w \in Workers, Heartbeat(w) PROVE Goal
  BY <1>5 DEF Heartbeat, history
<1>6. ASSUME NEW w \in Workers, HandlerStep(w) PROVE Goal
  <2>1. CASE AcquireLock(w)
    BY <2>1 DEF AcquireLock, drain, history
  <2>2. CASE CheckProcessed(w)
    <3>1. v # w => x'[v] = x[v]
      BY <2>2 DEF CheckProcessed, Answer
    <3>2. lock = w
      BY <2>2 DEF CheckProcessed
    <3>3. x'[w] # "done" => lock' = lock
      BY <2>2 DEF CheckProcessed, Answer
    <3> QED BY <3>1, <3>2, <3>3
  <2>3. CASE RouteApplies(w)
    BY <2>3 DEF RouteApplies, durable, drain
  <2>4. CASE RouteRejects(w)
    BY <2>4, Zenon DEF RouteRejects, Answer, Fault
  <2>5. CASE RecordProcessed(w)
    BY <2>5 DEF RecordProcessed, Answer, Fault
  <2> QED BY <1>6, <2>1, <2>2, <2>3, <2>4, <2>5 DEF HandlerStep
<1>7. ASSUME NEW w \in Workers, FaultStep(w) PROVE Goal
  <2>1. CASE HeartbeatFails(w)
    BY <2>1 DEF HeartbeatFails, Fault, durable
  <2>2. CASE FinalizeFails(w)
    BY <2>2 DEF FinalizeFails, GoTo, Fault, durable
  <2>3. CASE CommitFails(w)
    BY <2>3 DEF CommitFails, GoTo, Fault
  <2>4. CASE DrainFails(w)
    BY <2>4 DEF DrainFails, GoTo, Fault, durable
  <2>5. CASE Cancel(w)
    BY <2>5 DEF Cancel, GoTo, Fault, durable
  <2>6. CASE LockUnavailable(w)
    BY <2>6 DEF LockUnavailable, Answer, Fault
  <2>7. CASE CheckProcessedFails(w)
    BY <2>7 DEF CheckProcessedFails, Fault, durable, drain
  <2>8. CASE RecordProcessedFails(w)
    BY <2>8 DEF RecordProcessedFails, Answer, Fault
  <2> QED BY <1>7, <2>1, <2>2, <2>3, <2>4, <2>5, <2>6, <2>7, <2>8 DEF FaultStep
<1> QED BY <1>1, <1>2, <1>3, <1>4, <1>5, <1>6, <1>7 DEF Next

\* The steps that neither apply nor record a command keep the bridge.
LEMMA BridgeKept ==
  ASSUME IInv, BridgeInv, [Next]_vars,
         UNCHANGED <<effects, processed>>, gap \subseteq gap',
         \A v \in Workers : x'[v] = "miss" =>
            x[v] # "off" /\ (x[v] = "miss" \/ processed[Rec(v).cid] = NoBody \/ Rec(v).cid \in gap'),
         \A v \in Workers : x[v] = "routed" => x'[v] = "routed" \/ Rec(v).cid \in gap'
  PROVE  BridgeInv'
<1>1. ASSUME NEW v \in Workers, x'[v] = "miss"
      PROVE  processed'[Rec(v)'.cid] = NoBody \/ Rec(v)'.cid \in gap'
  <2>1. Rec(v)' = Rec(v)
    BY <1>1, RecKept
  <2>2. processed[Rec(v).cid] = NoBody \/ Rec(v).cid \in gap'
    BY <1>1 DEF BridgeInv
  <2> QED BY <2>1, <2>2
<1>2. ASSUME NEW c \in Cids, effects'[c] > 0
      PROVE  \/ processed'[c] # NoBody
             \/ c \in gap'
             \/ \E v \in Workers : x'[v] = "routed" /\ Rec(v)'.cid = c
  <2>1. CASE processed[c] # NoBody \/ c \in gap
    BY <2>1
  <2>2. ASSUME NEW v \in Workers, x[v] = "routed", Rec(v).cid = c
        PROVE  c \in gap' \/ (x'[v] = "routed" /\ Rec(v)'.cid = c)
    <3>1. Rec(v)' = Rec(v)
      BY <2>2, RecKept
    <3> QED BY <2>2, <3>1
  <2> QED BY <1>2, <2>1, <2>2 DEF BridgeInv
<1>3. EffectOnce'
  BY DEF EffectOnce, BridgeInv
<1> QED BY <1>1, <1>2, <1>3 DEF BridgeInv

\* No step breaks the bridge.
LEMMA BridgeStep == ASSUME IInv, LockInv, BridgeInv, [Next]_vars PROVE BridgeInv'
<1> USE WorkerConstants DEF IInv
<1> DEFINE Quiet == /\ UNCHANGED <<effects, processed, gap>>
                    /\ \A v \in Workers : /\ x'[v] = "miss" => x[v] = "miss"
                                          /\ x[v] = "routed" => x'[v] = "routed"
<1>0. TypeOK'
  BY TypeStep
<1>1. ASSUME Quiet PROVE BridgeInv'
  BY <1>1, BridgeKept
<1>2. CASE UNCHANGED vars \/ LeaseExpires \/ \E r \in Records : Produce(r)
  BY <1>1, <1>2 DEF vars, durable, history, LeaseExpires, Produce
<1>3. ASSUME NEW w \in Workers, DrainStep(w) PROVE BridgeInv'
  <2>1. CASE Restart(w)
    <3>1. CASE x[w] = "routed"
      <4>1. gap' = gap \cup {Rec(w).cid} /\ UNCHANGED <<effects, processed>>
        BY <2>1, <3>1 DEF Restart
      <4>2. \A v \in Workers : v # w => x'[v] = x[v]
        BY <2>1 DEF Restart, TypeOK
      <4>3. x'[w] = "off"
        BY <2>1 DEF Restart, TypeOK
      <4>4. \A v \in Workers : x'[v] = "miss" => x[v] = "miss"
        BY <4>2, <4>3
      <4>5. \A v \in Workers : x[v] = "routed" => x'[v] = "routed" \/ Rec(v).cid \in gap'
        BY <4>1, <4>2
      <4> QED BY <4>1, <4>4, <4>5, BridgeKept
    <3>2. CASE x[w] # "routed"
      BY <1>1, <2>1, <3>2 DEF Restart, TypeOK
    <3> QED BY <3>1, <3>2
  <2>2. CASE ~Restart(w)
    <3>0. UNCHANGED <<effects, processed, gap>>
      BY <1>3, <2>2, Zenon DEF DrainStep, BeginDrain, ReadCommitted, FetchPartition, NextRecord, Executed,
         RefreshBeforeFinalize, Finalize, RefreshBeforeCommit, CommitPartition, durable, history
    <3>1. CASE Executed(w)
      BY <1>1, <3>0, <3>1 DEF Executed, TypeOK
    <3>2. CASE NextRecord(w)
      <4>1. x' = x \/ x' = [x EXCEPT ![w] = "queued"]
        BY <3>2, ZenonT(30) DEF NextRecord
      <4>2. x[w] = "off"
        BY <3>2, Zenon DEF NextRecord, BatchInv
      <4> QED BY <1>1, <3>0, <4>1, <4>2 DEF TypeOK
    <3>3. CASE x' = x
      BY <1>1, <3>0, <3>3
    <3> QED BY <1>3, <2>2, <3>1, <3>2, <3>3, ZenonT(30) DEF DrainStep, BeginDrain, ReadCommitted, FetchPartition,
         RefreshBeforeFinalize, Finalize, RefreshBeforeCommit, CommitPartition
  <2> QED BY <2>1, <2>2
<1>4. ASSUME NEW w \in Workers, Heartbeat(w) PROVE BridgeInv'
  BY <1>1, <1>4 DEF Heartbeat, history
<1>5. ASSUME NEW w \in Workers, HandlerStep(w) PROVE BridgeInv'
  <2>1. CASE AcquireLock(w)
    BY <1>1, <2>1 DEF AcquireLock, history, TypeOK
  <2>2. CASE CheckProcessed(w)
    <3>1. UNCHANGED <<effects, processed, gap>> /\ x[w] = "locked"
      BY <2>2, ZenonT(30) DEF CheckProcessed, history
    <3>2. \A v \in Workers : v # w => x'[v] = x[v]
      BY <2>2, ZenonT(30) DEF CheckProcessed, Answer, TypeOK
    <3>3. x'[w] = "miss" => processed[Rec(w).cid] = NoBody
      BY <2>2 DEF CheckProcessed, Answer, TypeOK
    <3> QED BY <3>1, <3>2, <3>3, BridgeKept
  <2>3. CASE RouteApplies(w)
    <3> DEFINE c == Rec(w).cid
    <3>1. c \in Cids /\ Rec(w)' = Rec(w) /\ lock = w
      BY <2>3, RecInLog, RecKept DEF RouteApplies, LockInv
    <3>2. UNCHANGED <<processed, gap>> /\ x'[w] = "routed"
      BY <2>3 DEF RouteApplies, durable, TypeOK
    <3>3. \A v \in Workers : v # w => x'[v] = x[v] /\ x[v] \notin {"miss", "routed"}
      BY <2>3, <3>1 DEF RouteApplies, LockInv, TypeOK
    <3>4. effects'[c] = effects[c] + 1 /\ \A d \in Cids : d # c => effects'[d] = effects[d]
      BY <2>3, <3>1 DEF RouteApplies, TypeOK
    <3>5. effects[c] > 0 => c \in gap
      BY <2>3, <3>1, <3>3 DEF RouteApplies, BridgeInv
    <3>6. effects[c] \in Nat
      BY <3>1 DEF TypeOK
    <3>7. EffectOnce'
      <4>1. ASSUME NEW d \in Cids, effects'[d] > 1 PROVE d \in gap
        <5>1. CASE d = c
          BY <3>4, <3>5, <3>6, <4>1, <5>1
        <5>2. CASE d # c
          BY <3>4, <4>1, <5>2 DEF EffectOnce, BridgeInv
        <5> QED BY <5>1, <5>2
      <4> QED BY <3>2, <4>1 DEF EffectOnce
    <3>8. ASSUME NEW d \in Cids, effects'[d] > 0
          PROVE  \/ processed'[d] # NoBody
                 \/ d \in gap'
                 \/ \E v \in Workers : x'[v] = "routed" /\ Rec(v)'.cid = d
      <4>1. CASE d = c
        BY <3>1, <3>2, <4>1
      <4>2. CASE d # c
        BY <2>3, <3>2, <3>3, <3>4, <3>8, <4>2 DEF BridgeInv, RouteApplies
      <4> QED BY <4>1, <4>2
    <3> QED BY <3>2, <3>3, <3>7, <3>8, Zenon DEF BridgeInv
  <2>4. CASE RouteRejects(w)
    <3>1. Quiet
      BY <2>4 DEF RouteRejects, Answer, TypeOK
    <3> QED BY <1>1, <3>1, ZenonT(30)
  <2>5. CASE RecordProcessed(w)
    <3> DEFINE c == Rec(w).cid
    <3>1. c \in Cids /\ Rec(w).body \in Bodies /\ lock = w
      BY <2>5, RecInLog DEF RecordProcessed, LockInv
    <3>2. effects' = effects /\ x'[w] = "done"
      BY <2>5 DEF RecordProcessed, Answer, TypeOK
    <3>3. \A v \in Workers : v # w => x'[v] = x[v] /\ x[v] \notin {"miss", "routed"}
      BY <2>5, <3>1 DEF RecordProcessed, Answer, LockInv, TypeOK
    <3>4. PICK old \in SUBSET {d \in Cids \ {c} : processed[d] # NoBody} :
             /\ processed' = [d \in Cids |-> CASE d = c     -> Rec(w).body
                                               [] d \in old -> NoBody
                                               [] OTHER     -> processed[d]]
             /\ gap' = gap \cup old
      BY <2>5 DEF RecordProcessed
    <3>5. \A d \in Cids : d # c => processed'[d] = processed[d] \/ d \in gap'
      BY <3>4
    <3>6. processed'[c] # NoBody
      BY <3>1, <3>4
    <3>7. \A d \in Cids : effects'[d] > 0 => processed'[d] # NoBody \/ d \in gap'
      BY <3>2, <3>3, <3>4, <3>5, <3>6 DEF BridgeInv
    <3>8. EffectOnce'
      BY <3>2, <3>4 DEF EffectOnce, BridgeInv
    <3> QED BY <3>2, <3>3, <3>7, <3>8, Zenon DEF BridgeInv
  <2> QED BY <1>5, <2>1, <2>2, <2>3, <2>4, <2>5 DEF HandlerStep
<1>6. ASSUME NEW w \in Workers, FaultStep(w) PROVE BridgeInv'
  <2>1. CASE CheckProcessedFails(w) \/ RecordProcessedFails(w)
    <3>1. gap' = gap \cup {Rec(w).cid} /\ UNCHANGED <<effects, processed>>
      BY <2>1 DEF CheckProcessedFails, RecordProcessedFails, durable
    <3>2. \A v \in Workers : v # w => x'[v] = x[v]
      BY <2>1 DEF CheckProcessedFails, RecordProcessedFails, Answer, TypeOK
    <3>3. x[w] # "off"
      BY <2>1 DEF CheckProcessedFails, RecordProcessedFails
    <3> QED BY <3>1, <3>2, <3>3, BridgeKept
  <2>2. CASE ~CheckProcessedFails(w) /\ ~RecordProcessedFails(w)
    <3>1. Quiet
      BY <1>6, <2>2 DEF FaultStep, HeartbeatFails, FinalizeFails, CommitFails, DrainFails, Cancel,
         LockUnavailable, Answer, durable, TypeOK
    <3> QED BY <1>1, <3>1, Zenon
  <2> QED BY <2>1, <2>2
<1> QED BY <1>2, <1>3, <1>4, <1>5, <1>6 DEF Next

\* For any number of overlapping workers, redeliveries and faults, a command
\* takes effect twice only if its processed row was lost.
THEOREM EffectOnceAlways == Spec => []EffectOnce
<1> DEFINE Inv == LockInv /\ BridgeInv
<1>1. Init => Inv
  BY DEF Init, LockInv, BridgeInv, EffectOnce
<1>2. IInv /\ Inv /\ [Next]_vars => Inv'
  BY LockStep, BridgeStep
<1>3. Inv => EffectOnce
  BY DEF BridgeInv
<1> QED BY <1>1, <1>2, <1>3, InductiveInv, PTL DEF Spec

-----------------------------------------------------------------------------
(***************************************************************************)
(* A verdict leaves a trace that only pruning can remove: the receipt it   *)
(* was written to, or the processed row of the execution that cleared it.  *)
(***************************************************************************)
ReplyInv ==
    \A w \in Workers :
        pc[w] \in {"executed", "finalize"} \/ x[w] = "done"
            => reply[w] \in {"applied", "terminal", "retryable"}

Reported(c) == receipts[c].st # "none" \/ processed[c] # NoBody \/ c \in gap

ReportedInv == \A o \in settled : o \in 1..Len(log) /\ Reported(log[o].cid)

\* The finalizer sees only replies the handler gave.
LEMMA ReplyStep == ASSUME IInv, ReplyInv, [Next]_vars PROVE ReplyInv'
<1> USE WorkerConstants DEF IInv, TypeOK, BatchInv, ReplyInv
<1>0. TypeOK'
  BY TypeStep, ZenonT(30)
<1> SUFFICES ASSUME NEW v \in Workers PROVE
      (pc[v] \in {"executed", "finalize"} \/ x[v] = "done"
            => reply[v] \in {"applied", "terminal", "retryable"})'
  BY DEF ReplyInv
<1> DEFINE Goal == (pc[v] \in {"executed", "finalize"} \/ x[v] = "done"
            => reply[v] \in {"applied", "terminal", "retryable"})'
<1>1. CASE UNCHANGED vars
  BY <1>1 DEF vars, durable, drain, history
<1>2. ASSUME NEW r \in Records, Produce(r) PROVE Goal
  BY <1>2 DEF Produce, drain, history
<1>3. CASE LeaseExpires
  BY <1>3 DEF LeaseExpires, drain
<1>4. ASSUME NEW w \in Workers, DrainStep(w) PROVE Goal
  <2>1. CASE BeginDrain(w)
    BY <2>1 DEF BeginDrain, GoTo, history
  <2>2. CASE ReadCommitted(w)
    BY <2>2 DEF ReadCommitted, GoTo, durable, history
  <2>3. CASE FetchPartition(w)
    BY <2>3 DEF FetchPartition, GoTo, durable, history
  <2>4. CASE NextRecord(w)
    BY <2>4 DEF NextRecord, GoTo, history
  <2>5. CASE Executed(w)
    BY <2>5 DEF Executed, GoTo, durable, history
  <2>6. CASE RefreshBeforeFinalize(w)
    BY <2>6 DEF RefreshBeforeFinalize, GoTo, history
  <2>7. CASE Finalize(w)
    BY <2>7, ZenonT(30) DEF Finalize, GoTo
  <2>8. CASE RefreshBeforeCommit(w)
    BY <2>8 DEF RefreshBeforeCommit, GoTo, history
  <2>9. CASE CommitPartition(w)
    BY <2>9 DEF CommitPartition, GoTo, history
  <2>10. CASE Restart(w)
    BY <2>10 DEF Restart, GoTo
  <2> QED BY <1>4, <2>1, <2>2, <2>3, <2>4, <2>5, <2>6, <2>7, <2>8, <2>9, <2>10, ZenonT(30) DEF DrainStep
<1>5. ASSUME NEW w \in Workers, Heartbeat(w) PROVE Goal
  BY <1>5 DEF Heartbeat, history
<1>6. ASSUME NEW w \in Workers, HandlerStep(w) PROVE Goal
  <2>1. CASE AcquireLock(w)
    BY <2>1 DEF AcquireLock, drain, history
  <2>2. CASE CheckProcessed(w)
    BY <2>2, ZenonT(30) DEF CheckProcessed, Answer, history
  <2>3. CASE RouteApplies(w)
    BY <2>3 DEF RouteApplies, durable, drain
  <2>4. CASE RouteRejects(w)
    BY <2>4, ZenonT(30) DEF RouteRejects, Answer, Fault
  <2>5. CASE RecordProcessed(w)
    BY <2>5 DEF RecordProcessed, Answer, Fault
  <2> QED BY <1>6, <2>1, <2>2, <2>3, <2>4, <2>5, ZenonT(30) DEF HandlerStep
<1>7. ASSUME NEW w \in Workers, FaultStep(w) PROVE Goal
  <2>1. CASE HeartbeatFails(w)
    BY <2>1 DEF HeartbeatFails, Fault, durable
  <2>2. CASE FinalizeFails(w)
    BY <2>2 DEF FinalizeFails, GoTo, Fault, durable
  <2>3. CASE CommitFails(w)
    BY <2>3 DEF CommitFails, GoTo, Fault
  <2>4. CASE DrainFails(w)
    BY <2>4 DEF DrainFails, GoTo, Fault, durable
  <2>5. CASE Cancel(w)
    BY <2>5 DEF Cancel, GoTo, Fault, durable
  <2>6. CASE LockUnavailable(w)
    BY <2>6 DEF LockUnavailable, Answer, Fault
  <2>7. CASE CheckProcessedFails(w)
    BY <2>7 DEF CheckProcessedFails, Fault, durable, drain
  <2>8. CASE RecordProcessedFails(w)
    BY <2>8 DEF RecordProcessedFails, Answer, Fault
  <2> QED BY <1>7, <2>1, <2>2, <2>3, <2>4, <2>5, <2>6, <2>7, <2>8, Zenon DEF FaultStep
<1> QED BY <1>1, <1>2, <1>3, <1>4, <1>5, <1>6, <1>7, ZenonT(30) DEF Next

\* A reported command stays reported.
LEMMA StaysReported ==
  ASSUME IInv, ReplyInv, [Next]_vars, NEW c \in Cids, Reported(c) PROVE Reported(c)'
<1> USE WorkerConstants DEF IInv, TypeOK
<1>1. ASSUME UNCHANGED <<receipts, processed>>, gap \subseteq gap' PROVE Reported(c)'
  BY <1>1 DEF Reported
<1>2. ASSUME NEW w \in Workers, Finalize(w) PROVE Reported(c)'
  <2>1. UNCHANGED <<processed, gap>>
    BY <1>2, Zenon DEF Finalize
  <2>2. Rec(w).cid \in Cids /\ ReceiptStatus(reply[w]) # "none"
    BY <1>2, RecInLog, ZenonT(30) DEF Finalize, InHand, ReplyInv, ReceiptStatus
  <2>3. c = Rec(w).cid => receipts'[c].st # "none"
    BY <1>2, <2>2, Zenon DEF Finalize
  <2>4. c # Rec(w).cid => receipts'[c] = receipts[c]
    BY <1>2, <2>2, Zenon DEF Finalize
  <2> QED BY <2>1, <2>3, <2>4 DEF Reported
<1>3. ASSUME NEW w \in Workers, RecordProcessed(w) PROVE Reported(c)'
  <2>1. Rec(w).cid \in Cids /\ Rec(w).body \in Bodies
    BY <1>3, RecInLog, Zenon DEF RecordProcessed
  <2>2. c = Rec(w).cid => processed'[c] # NoBody
    BY <1>3, <2>1 DEF RecordProcessed
  <2>3. c # Rec(w).cid => receipts'[c] = receipts[c]
    BY <1>3, <2>1 DEF RecordProcessed
  <2>4. PICK old \in SUBSET Cids :
           /\ processed' = [d \in Cids |-> CASE d = Rec(w).cid -> Rec(w).body
                                             [] d \in old        -> NoBody
                                             [] OTHER            -> processed[d]]
           /\ gap' = gap \cup old
    BY <1>3, ZenonT(30) DEF RecordProcessed
  <2>5. c # Rec(w).cid => processed'[c] = processed[c] \/ c \in gap'
    BY <2>4
  <2> QED BY <2>2, <2>3, <2>4, <2>5 DEF Reported
<1>4. CASE UNCHANGED vars \/ LeaseExpires \/ \E r \in Records : Produce(r)
  BY <1>1, <1>4 DEF vars, durable, history, LeaseExpires, Produce
<1>5. ASSUME NEW w \in Workers, DrainStep(w), ~Finalize(w) PROVE Reported(c)'
  BY <1>1, <1>5, ZenonT(30) DEF DrainStep, BeginDrain, ReadCommitted, FetchPartition, NextRecord, Executed,
     RefreshBeforeFinalize, RefreshBeforeCommit, CommitPartition, Restart, durable, history
<1>6. ASSUME NEW w \in Workers, Heartbeat(w) \/ HandlerStep(w), ~RecordProcessed(w) PROVE Reported(c)'
  BY <1>1, <1>6, ZenonT(30) DEF Heartbeat, HandlerStep, AcquireLock, CheckProcessed, RouteApplies, RouteRejects,
     durable, history
<1>7. ASSUME NEW w \in Workers, FaultStep(w) PROVE Reported(c)'
  BY <1>1, <1>7, Zenon DEF FaultStep, HeartbeatFails, FinalizeFails, CommitFails, DrainFails, Cancel,
     LockUnavailable, CheckProcessedFails, RecordProcessedFails, durable
<1> QED BY <1>2, <1>3, <1>4, <1>5, <1>6, <1>7 DEF Next

\* Every step keeps each verdict reported.
LEMMA ReportedStep == ASSUME IInv, ReplyInv, ReportedInv, [Next]_vars PROVE ReportedInv'
<1> USE WorkerConstants DEF IInv
<1>1. ASSUME NEW o \in settled PROVE (o \in 1..Len(log) /\ Reported(log[o].cid))'
  <2>1. o \in 1..Len(log) /\ log[o] \in Records /\ Reported(log[o].cid)
    BY DEF ReportedInv, TypeOK
  <2>2. o \in 1..Len(log') /\ log'[o] = log[o]
    <3>1. CASE log' = log
      BY <2>1, <3>1
    <3>2. ASSUME NEW r \in Records, log' = Append(log, r) PROVE o \in 1..Len(log') /\ log'[o] = log[o]
      <4>1. log \in Seq(Records)
        BY DEF TypeOK
      <4> QED BY <2>1, <3>2, <4>1
    <3> QED BY <3>1, <3>2, VerdictStep
  <2>3. log[o].cid \in Cids
    BY <2>1 DEF Records
  <2>4. \A e \in Cids : Reported(e) => receipts'[e].st # "none" \/ processed'[e] # NoBody \/ e \in gap'
    BY StaysReported DEF Reported
  <2> QED BY <2>1, <2>2, <2>3, <2>4, Zenon DEF Reported
<1>2. ASSUME NEW w \in Workers, Finalize(w), settled' = settled \cup {Off(w)}
      PROVE  (\A o \in settled : o \in 1..Len(log) /\ Reported(log[o].cid))'
  <2>1. Off(w) \in 1..Len(log) /\ Rec(w).cid \in Cids /\ ReceiptStatus(reply[w]) # "none"
    BY <1>2, RecInLog DEF Finalize, InHand, ReplyInv, ReceiptStatus
  <2>2. receipts'[Rec(w).cid].st # "none" /\ log' = log
    BY <1>2, <2>1 DEF Finalize, TypeOK
  <2>3. ASSUME NEW o, o = Off(w) PROVE (o \in 1..Len(log) /\ Reported(log[o].cid))'
    BY <2>1, <2>2, <2>3, Zenon DEF Rec, Reported
  <2> QED BY <1>1, <1>2, <2>3
<1> QED BY <1>1, <1>2, VerdictStep DEF ReportedInv

\* For any number of overlapping workers and faults, a committed command can be
\* reported to its client until its processed row is lost.
THEOREM CommittedReportedAlways == Spec => []CommittedReported
<1> DEFINE Inv == ReplyInv /\ ReportedInv
<1>1. Init => Inv
  BY DEF Init, ReplyInv, ReportedInv
<1>2. IInv /\ Inv /\ [Next]_vars => Inv'
  BY ReplyStep, ReportedStep
<1>3. IInv /\ Inv => CommittedReported
  BY Zenon DEF IInv, ProgressInv, CommittedSettled, ReportedInv, Reported, CommittedReported
<1> QED BY <1>1, <1>2, <1>3, InductiveInv, PTL DEF Spec
=============================================================================
