--------------------------- MODULE NativeDecision ---------------------------
(***************************************************************************)
(* The broker-native command path for the commands of one post.  A writer  *)
(* decides a command from the SQL projection of the post, appends the      *)
(* decided event to the event log, commits the command offset, and records *)
(* a receipt (CommandLogNativeDecisionExecutor,                            *)
(* CommandEventTransactionFinalizer, and the JetStream transaction client, *)
(* which appends first and commits second).  The projection follows the    *)
(* event log at its own pace, so that a decision can be taken from a stale *)
(* post, and a decision that is repeated after a failure can be taken from *)
(* a post that shows the effect of its first attempt.                      *)
(*                                                                         *)
(* Every command modelled decides at most one event, whose identifier is   *)
(* the hash of the command's position: the command's offset stands for it. *)
(* The compare-and-set of an append is the business of JetStreamCommandLog,*)
(* and the drain of the event log that of EventMaterializer.               *)
(***************************************************************************)
EXTENDS Naturals, Sequences, FiniteSets

CONSTANTS
    Workers,      \* writers that drain the partition; more than one when ownership overlaps
    Ops,          \* the commands clients send, a subset of AllOps
    FlagNames,    \* the curator flags of a post that setPostFlag may set or clear
    MaxCommands,  \* bound: commands enqueued
    MaxChanges,   \* bound: changes of the actor's moderation rights
    MaxFaults,    \* bound: failing calls and crashes
    MaxExpiries   \* bound: event ids the broker's duplicate window forgets

AllOps == {"editPost", "setPostFlag", "redactPost", "restorePost", "purgePost"}

ASSUME OpsAssumption == Ops \subseteq AllOps
ASSUME BoundsAssumption ==
    MaxCommands \in Nat /\ MaxChanges \in Nat /\ MaxFaults \in Nat /\ MaxExpiries \in Nat

VARIABLES
    commands,    \* the partition of the command log
    committed,   \* its committed offset
    worker,      \* per writer: where it is in its batch and in the current command
    log,         \* the events appended, in the order of the event partition
    remembered,  \* event ids inside the broker's duplicate window
    projected,   \* number of events the projection has applied
    post,        \* the projected row of the post
    rights,      \* the actor moderates the board (decided by commands of other partitions)
    receipts,    \* command_log_receipts, by command offset
    decided,     \* history: the kinds of decision taken for each command
    used         \* faults, expiries and changes of rights spent, against their bounds

vars == <<commands, committed, worker, log, remembered, projected, post,
          rights, receipts, decided, used>>

Offsets == 1..MaxCommands

\* A command: what it does, which flags it sets and clears, and whether its
\* actor is the author inside the edit window (the window is taken from
\* EnqueuedAt, so that a repetition finds it unchanged).
Commands ==
    {c \in [op : Ops, on : SUBSET FlagNames, off : SUBSET FlagNames, author : BOOLEAN] :
        /\ c.on \cap c.off = {}
        /\ IF c.op = "setPostFlag" THEN c.on \cup c.off # {} /\ ~c.author
                                   ELSE c.on \cup c.off = {}}

Event(n, kind, version, flags) == [id |-> n, kind |-> kind, version |-> version, flags |-> flags]

Kinds == {"post.edited", "post.flags_set", "post.redacted", "post.restored", "post.purged"}

Events == [id : Offsets, kind : Kinds, version : Nat, flags : SUBSET FlagNames]

\* What decide returns: an acknowledgement with the events to append, or an
\* error that is not retryable.
Ack(events) == [reply |-> "applied", events |-> events]
Refusal == [reply |-> "failed", events |-> <<>>]

Decisions == [reply : {"applied", "failed"}, events : Seq(Events)]

Resting(last) == [pc |-> "poll", last |-> last, end |-> last, decision |-> Refusal]

Init ==
    /\ commands = <<>>
    /\ committed = 0
    /\ worker = [w \in Workers |-> Resting(0)]
    /\ log = <<>>
    /\ remembered = {}
    /\ projected = 0
    /\ post = [redacted |-> FALSE, version |-> 1, flags |-> {}]
    /\ rights = TRUE
    /\ receipts = [n \in Offsets |-> "none"]
    /\ decided = [n \in Offsets |-> {}]
    /\ used = [faults |-> 0, expiries |-> 0, changes |-> 0]

-----------------------------------------------------------------------------
(* Deciding a command from the projection *)

decideEditPost(c, n) ==
    IF post.redacted \/ ~(rights \/ c.author)
    THEN Refusal
    ELSE Ack(<<Event(n, "post.edited", post.version + 1, {})>>)

\* PlanFlagUpdate: the patch laid over the flags the projection shows.  The
\* event carries all the flags, not the patch.
PlanFlagUpdate(c) == (post.flags \cup c.on) \ c.off

decideSetPostFlag(c, n) ==
    IF post.redacted \/ (PlanFlagUpdate(c) # post.flags /\ ~rights)
    THEN Refusal
    ELSE IF PlanFlagUpdate(c) = post.flags
         THEN Ack(<<>>)
         ELSE Ack(<<Event(n, "post.flags_set", 0, PlanFlagUpdate(c))>>)

decideRedactPost(c, n) ==
    IF post.redacted \/ ~(rights \/ c.author)
    THEN Refusal
    ELSE Ack(<<Event(n, "post.redacted", 0, {})>>)

decideRestorePost(c, n) ==
    IF ~post.redacted \/ ~rights
    THEN Refusal
    ELSE Ack(<<Event(n, "post.restored", 0, {})>>)

decidePurgePost(c, n) ==
    IF ~rights THEN Refusal ELSE Ack(<<Event(n, "post.purged", 0, {})>>)

decide(c, n) ==
    CASE c.op = "editPost"    -> decideEditPost(c, n)
      [] c.op = "setPostFlag" -> decideSetPostFlag(c, n)
      [] c.op = "redactPost"  -> decideRedactPost(c, n)
      [] c.op = "restorePost" -> decideRestorePost(c, n)
      [] c.op = "purgePost"   -> decidePurgePost(c, n)

-----------------------------------------------------------------------------
(* The broker *)

Logged(n) == \E i \in DOMAIN log : log[i].id = n

\* A publish whose id is in the duplicate window is answered with the event
\* the partition holds, which must be the same in everything but its offset.
Duplicate(e) == e.id \in remembered

SameIdentity(e) == \E i \in DOMAIN log : log[i] = e

\* A mutant: an event published without its id is appended every time.
AppendEvent_NoId(e) ==
    /\ log' = Append(log, e)
    /\ remembered' = remembered

AppendEvent(e) ==
    IF Duplicate(e)
    THEN UNCHANGED <<log, remembered>>
    ELSE /\ log' = Append(log, e)
         /\ remembered' = remembered \cup {e.id}

\* A mutant: the marker names the next offset to read.
CommitPartition_Next(n) == committed' = IF n + 1 > committed THEN n + 1 ELSE committed

CommitPartition(n) == committed' = IF n > committed THEN n ELSE committed

\* The duplicate window of the stream passes.
ExpireWindow(n) ==
    /\ used.expiries < MaxExpiries
    /\ n \in remembered
    /\ remembered' = remembered \ {n}
    /\ used' = [used EXCEPT !.expiries = @ + 1]
    /\ UNCHANGED <<commands, committed, worker, log, projected, post, rights, receipts, decided>>

-----------------------------------------------------------------------------
(* A writer *)

Current(w) == worker[w].last + 1

At(w, pc) == worker[w].pc = pc

Goto(w, pc) == worker' = [worker EXCEPT ![w].pc = pc]

Fault == /\ used.faults < MaxFaults
         /\ used' = [used EXCEPT !.faults = @ + 1]

\* The drain returns an error, or the process dies: the next drain starts
\* from the committed offset.
Stop(w) == worker' = [worker EXCEPT ![w] = Resting(@.last)]

\* A mutant: a drain resumes from the last offset this writer finished.
DrainPartition_FromLast(w) ==
    /\ At(w, "poll")
    /\ worker[w].last = worker[w].end
    /\ worker[w].last < Len(commands)
    /\ worker' = [worker EXCEPT ![w].end = Len(commands)]
    /\ UNCHANGED <<commands, committed, log, remembered, projected, post, rights, receipts, decided, used>>

\* A mutant: a drain goes on only where its own last drain ended.
DrainPartition_Own(w) ==
    /\ worker[w].last = committed
    /\ DrainPartition_FromLast(w)

\* A drain reads the committed offset and the records behind it.
DrainPartition(w) ==
    /\ At(w, "poll")
    /\ worker[w].last = worker[w].end
    /\ committed < Len(commands)
    /\ worker' = [worker EXCEPT ![w] = [@ EXCEPT !.last = committed, !.end = Len(commands)]]
    /\ UNCHANGED <<commands, committed, log, remembered, projected, post, rights, receipts, decided, used>>

ExecuteCommandLogRecord(w) ==
    /\ At(w, "poll")
    /\ worker[w].last < worker[w].end
    /\ LET d == decide(commands[Current(w)], Current(w)) IN
         /\ worker' = [worker EXCEPT ![w].decision = d,
                                     ![w].pc = IF d.events = <<>> THEN "commit" ELSE "append"]
         /\ decided' = [decided EXCEPT ![Current(w)] =
                @ \cup {IF d.events # <<>> THEN "events" ELSE d.reply}]
    /\ UNCHANGED <<commands, committed, log, remembered, projected, post, rights, receipts, used>>

\* A read of the projection fails: the reply is retryable, the finalizer
\* records it unless that fails too, and the drain ends.
ExecuteRetryable(w) ==
    /\ At(w, "poll")
    /\ worker[w].last < worker[w].end
    /\ Fault
    /\ \E recorded \in BOOLEAN :
         receipts' = IF recorded THEN [receipts EXCEPT ![Current(w)] = "retrying"] ELSE receipts
    /\ Stop(w)
    /\ UNCHANGED <<commands, committed, log, remembered, projected, post, rights, decided>>

\* A mutant: the offset is committed before the event is appended.
AppendEvents_AfterCommit(w) ==
    /\ At(w, "append")
    /\ CommitPartition(Current(w))
    /\ Goto(w, "commit")
    /\ UNCHANGED <<commands, log, remembered, projected, post, rights, receipts, decided, used>>

AppendEvents(w) ==
    /\ At(w, "append")
    /\ LET e == worker[w].decision.events[1] IN
         /\ Duplicate(e) => SameIdentity(e)
         /\ AppendEvent(e)
    /\ Goto(w, "commit")
    /\ UNCHANGED <<commands, committed, projected, post, rights, receipts, decided, used>>

\* The id is known and the stored event differs: the transaction fails, and
\* the drain with it.
AppendConflicts(w) ==
    /\ At(w, "append")
    /\ LET e == worker[w].decision.events[1] IN Duplicate(e) /\ ~SameIdentity(e)
    /\ Stop(w)
    /\ UNCHANGED <<commands, committed, log, remembered, projected, post, rights, receipts, decided, used>>

\* The append returns an error, whether or not the broker stored the event.
AppendFails(w) ==
    /\ At(w, "append")
    /\ Fault
    /\ \/ UNCHANGED <<log, remembered>>
       \/ AppendEvent(worker[w].decision.events[1])
    /\ Stop(w)
    /\ UNCHANGED <<commands, committed, projected, post, rights, receipts, decided>>

CommitCommand(w) ==
    /\ At(w, "commit")
    /\ CommitPartition(Current(w))
    /\ Goto(w, "receipt")
    /\ UNCHANGED <<commands, log, remembered, projected, post, rights, receipts, decided, used>>

\* The commit returns an error, whether or not the broker stored the marker.
CommitFails(w) ==
    /\ At(w, "commit")
    /\ Fault
    /\ committed' = committed \/ CommitPartition(Current(w))
    /\ Stop(w)
    /\ UNCHANGED <<commands, log, remembered, projected, post, rights, receipts, decided>>

RecordReceipt(w) ==
    /\ At(w, "receipt")
    /\ receipts' = [receipts EXCEPT ![Current(w)] = worker[w].decision.reply]
    /\ worker' = [worker EXCEPT ![w] = [pc |-> "poll", last |-> Current(w), end |-> @.end,
                                        decision |-> Refusal]]
    /\ UNCHANGED <<commands, committed, log, remembered, projected, post, rights, decided, used>>

\* The receipt fails after the commit: the drain ends, the command is done.
ReceiptFails(w) ==
    /\ At(w, "receipt")
    /\ Fault
    /\ Stop(w)
    /\ UNCHANGED <<commands, committed, log, remembered, projected, post, rights, receipts, decided>>

Crash(w) ==
    /\ worker[w] # Resting(worker[w].last)
    /\ Fault
    /\ Stop(w)
    /\ UNCHANGED <<commands, committed, log, remembered, projected, post, rights, receipts, decided>>

-----------------------------------------------------------------------------
(* The clients, the projection, and the rest of the site *)

EnqueueCommand(c) ==
    /\ Len(commands) < MaxCommands
    /\ commands' = Append(commands, c)
    /\ UNCHANGED <<committed, worker, log, remembered, projected, post, rights, receipts, decided, used>>

ApplyEvent(p, e) ==
    CASE e.kind = "post.edited"    -> [p EXCEPT !.version = @ + 1]
      [] e.kind = "post.flags_set" -> [p EXCEPT !.flags = e.flags]
      [] e.kind = "post.restored"  -> [p EXCEPT !.redacted = FALSE]
      [] OTHER                     -> [p EXCEPT !.redacted = TRUE]

Project ==
    /\ projected < Len(log)
    /\ projected' = projected + 1
    /\ post' = ApplyEvent(post, log[projected + 1])
    /\ UNCHANGED <<commands, committed, worker, log, remembered, rights, receipts, decided, used>>

\* A board moderator is set or removed by a command of the board's partition.
ChangeRights ==
    /\ used.changes < MaxChanges
    /\ rights' = ~rights
    /\ used' = [used EXCEPT !.changes = @ + 1]
    /\ UNCHANGED <<commands, committed, worker, log, remembered, projected, post, receipts, decided>>

WorkerStep(w) ==
    \/ DrainPartition(w)
    \/ ExecuteCommandLogRecord(w)
    \/ AppendEvents(w)
    \/ AppendConflicts(w)
    \/ CommitCommand(w)
    \/ RecordReceipt(w)

WorkerFault(w) ==
    \/ ExecuteRetryable(w)
    \/ AppendFails(w)
    \/ CommitFails(w)
    \/ ReceiptFails(w)
    \/ Crash(w)

Next ==
    \/ \E c \in Commands : EnqueueCommand(c)
    \/ \E w \in Workers : WorkerStep(w) \/ WorkerFault(w)
    \/ \E n \in Offsets : ExpireWindow(n)
    \/ Project
    \/ ChangeRights

Spec == Init /\ [][Next]_vars

\* The drain loop and the projection worker run on timers for as long as
\* the process lives, the duplicate window passes with time, and failures are
\* finitely many.
FairSpec ==
    /\ Spec
    /\ WF_vars(Project)
    /\ \A n \in Offsets : WF_vars(ExpireWindow(n))
    /\ \A w \in Workers : WF_vars(WorkerStep(w))

-----------------------------------------------------------------------------
(* Properties *)

\* Every variable has its type; a writer never works beyond the batch it read,
\* and nothing is committed or projected that is not in its log.
TypeOK ==
    /\ commands \in Seq(Commands) /\ Len(commands) <= MaxCommands
    /\ committed \in 0..Len(commands)
    /\ \A w \in Workers :
         /\ worker[w].pc \in {"poll", "append", "commit", "receipt"}
         /\ worker[w].last \in 0..worker[w].end
         /\ worker[w].end \in 0..Len(commands)
         /\ worker[w].decision \in Decisions
         /\ At(w, "append") => Len(worker[w].decision.events) = 1
    /\ log \in Seq(Events)
    /\ remembered \subseteq {log[i].id : i \in DOMAIN log}
    /\ projected \in 0..Len(log)
    /\ post \in [redacted : BOOLEAN, version : Nat, flags : SUBSET FlagNames]
    /\ receipts \in [Offsets -> {"none", "retrying", "applied", "failed"}]
    /\ decided \in [Offsets -> SUBSET {"events", "applied", "failed"}]

\* No command is consumed without its outcome: a committed command has its
\* event in the log, or was refused, or was found to change nothing
\* (AppendEventsAndCommitCommands appends before it commits), whatever fails
\* and however many writers believe they own the partition.
CommittedHasOutcome ==
    \A n \in 1..committed : Logged(n) \/ decided[n] \cap {"applied", "failed"} # {}

\* One writer drains the partition.
OneWriter == \A v, w \in Workers : v = w

\* While the duplicate window is open, the event partition holds at most one
\* event of each command, although writers overlap and appends are repeated,
\* because its id is stable; and with one writer, in the order of the commands.
EventsInCommandOrder ==
    used.expiries = 0 => \A i, j \in DOMAIN log : i < j =>
        log[i].id # log[j].id /\ (OneWriter => log[i].id < log[j].id)

\* A command that decided an event and was told it was applied stays decided:
\* once committed, no later step appends another event for it unless two
\* writers overlap or the duplicate window has passed.
SettledCommandsStaySettled ==
    [][OneWriter /\ used.expiries = 0 => \A n \in 1..committed : Logged(n)' => Logged(n)]_vars

\* Every command is finalized in the end: the committed offset reaches it,
\* at the latest when the duplicate window has forgotten an event the
\* repeated decision disagrees with.
EventuallyFinalized == \A n \in Offsets : (Len(commands) >= n) ~> (committed >= n)

\* A repeated append finds its own event: whenever a writer publishes an id the
\* broker remembers, the stored event is the one it has decided.
RepetitionMatches ==
    \A w \in Workers : At(w, "append") =>
        LET e == worker[w].decision.events[1] IN Duplicate(e) => SameIdentity(e)

\* A command whose receipt says it failed has had no effect: its events are
\* not in the log.
FailedMeansNoEffect == \A n \in Offsets : receipts[n] = "failed" => ~Logged(n)

\* Once everything is finalized and projected, each flag is what the last
\* applied command that named it made it.
FlagsKept ==
    LET touching(f) == {n \in Offsets : /\ n <= Len(commands)
                                        /\ receipts[n] = "applied"
                                        /\ f \in commands[n].on \cup commands[n].off}
        quiet == /\ committed = Len(commands) /\ projected = Len(log)
                 /\ \A w \in Workers : At(w, "poll")
    IN  quiet => \A f \in FlagNames :
          \A n \in touching(f) :
             (\A k \in touching(f) : k <= n) => (f \in post.flags <=> f \in commands[n].on)
=============================================================================
