------------------------- MODULE NativeDecisionProofs -------------------------
(***************************************************************************)
(* Proofs about NativeDecision, for any commands and flags, any number of  *)
(* faults and, where ownership of the partition may overlap, any number of *)
(* writers.                                                                *)
(*                                                                         *)
(* No writer is ahead of the committed offset, and one that is about to    *)
(* commit has the outcome of its command on record: that gives every       *)
(* committed command its outcome.  A writer that is alone is exactly at    *)
(* the committed offset, so that it appends events of the next command     *)
(* only, and the duplicate window, while it is open, lets only the first   *)
(* of them through.                                                        *)
(***************************************************************************)
EXTENDS NativeDecision, TLAPS

Writers == [pc : {"poll", "append", "commit", "receipt"}, last : Nat, end : Nat, decision : Decisions]

PostRows == [redacted : BOOLEAN, version : Nat, flags : SUBSET FlagNames]

Typed ==
    /\ commands \in Seq(Commands) /\ Len(commands) <= MaxCommands
    /\ committed \in 0..Len(commands)
    /\ worker \in [Workers -> Writers]
    /\ log \in Seq(Events)
    /\ projected \in Nat
    /\ post \in PostRows
    /\ decided \in [Offsets -> SUBSET {"events", "applied", "failed"}]
    /\ used \in [faults : Nat, expiries : Nat, changes : Nat]

Outcome(n) == Logged(n) \/ decided[n] \cap {"applied", "failed"} # {}

\* A writer works inside its batch, from the committed offset or behind it,
\* and has what its command needs before it goes on.
InBatch ==
    \A w \in Workers :
        /\ worker[w].last <= committed
        /\ worker[w].last <= worker[w].end /\ worker[w].end <= Len(commands)
        /\ ~At(w, "poll") => Current(w) <= worker[w].end
        /\ At(w, "append") => /\ worker[w].decision.events # <<>>
                              /\ worker[w].decision.events[1].id = Current(w)
        /\ At(w, "commit") => Outcome(Current(w))
        /\ At(w, "receipt") => Current(w) <= committed

\* As long as nothing has expired, the duplicate window holds every event.
WindowOpen == used.expiries = 0 => \A i \in DOMAIN log : log[i].id \in remembered

\* A writer that is alone is at the command after the committed offset.
AtCommitted ==
    OneWriter =>
        /\ \A i \in DOMAIN log : log[i].id <= committed + 1
        /\ \A w \in Workers :
              IF At(w, "receipt") THEN committed = Current(w)
              ELSE worker[w].last < worker[w].end => worker[w].last = committed

\* The inductive invariant.
IInv ==
    /\ Typed /\ InBatch /\ WindowOpen /\ AtCommitted
    /\ CommittedHasOutcome /\ EventsInCommandOrder

-----------------------------------------------------------------------------
(* Deciding *)

\* What a decision is: it has one event, of its command, or none.
LEMMA DecisionSound ==
    ASSUME post \in PostRows, NEW c \in Commands, NEW n \in Offsets
    PROVE  /\ decide(c, n) \in Decisions
           /\ decide(c, n).events # <<>> => decide(c, n).events[1].id = n
  <1> DEFINE e(kind, version, flags) == Event(n, kind, version, flags)
  <1>1. c.op \in AllOps /\ c.on \subseteq FlagNames
    BY OpsAssumption DEF Commands
  <1>2. ASSUME NEW kind \in Kinds, NEW version \in Nat, NEW flags \in SUBSET FlagNames
        PROVE  /\ Ack(<<e(kind, version, flags)>>) \in Decisions
               /\ Ack(<<e(kind, version, flags)>>).events[1].id = n
    <2>1. e(kind, version, flags) \in Events /\ e(kind, version, flags).id = n
      BY DEF Event, Events
    <2> HIDE DEF e
    <2> QED  BY <2>1 DEF Ack, Decisions
  <1>3. Refusal \in Decisions /\ Refusal.events = <<>> /\ Ack(<<>>) \in Decisions /\ Ack(<<>>).events = <<>>
    BY DEF Refusal, Ack, Decisions
  <1>4. post.version + 1 \in Nat /\ PlanFlagUpdate(c) \subseteq FlagNames
    BY <1>1 DEF PostRows, PlanFlagUpdate
  <1>5. CASE c.op = "editPost"
    BY <1>2, <1>3, <1>4, <1>5 DEF decide, decideEditPost, Kinds
  <1>6. CASE c.op = "setPostFlag"
    BY <1>2, <1>3, <1>4, <1>6, ZenonT(30) DEF decide, decideSetPostFlag, Kinds
  <1>7. CASE c.op = "redactPost"
    BY <1>2, <1>3, <1>7, Zenon DEF decide, decideRedactPost, Kinds
  <1>8. CASE c.op = "restorePost"
    BY <1>2, <1>3, <1>8, Zenon DEF decide, decideRestorePost, Kinds
  <1>9. CASE c.op = "purgePost"
    BY <1>2, <1>3, <1>9, Zenon DEF decide, decidePurgePost, Kinds
  <1> QED  BY <1>1, <1>5, <1>6, <1>7, <1>8, <1>9 DEF AllOps

\* A writer at a command has the offset of a record.
LEMMA CurrentOffset ==
    ASSUME Typed, InBatch, NEW w \in Workers, ~At(w, "poll") \/ worker[w].last < worker[w].end
    PROVE  /\ Current(w) \in Offsets /\ Current(w) \in 1..Len(commands)
           /\ commands[Current(w)] \in Commands
  <1>1. worker[w].last \in Nat /\ worker[w].end \in Nat
    BY DEF Typed, Writers
  <1>2. Current(w) <= worker[w].end /\ worker[w].end <= Len(commands)
    BY <1>1 DEF InBatch, Current
  <1>3. Len(commands) \in Nat /\ Len(commands) <= MaxCommands /\ MaxCommands \in Nat
    BY BoundsAssumption DEF Typed
  <1>4. Current(w) \in Offsets /\ Current(w) \in 1..Len(commands)
    BY <1>1, <1>2, <1>3 DEF Current, Offsets
  <1> QED  BY <1>4 DEF Typed

\* What a writer that stops leaves: it rests at its last command.
LEMMA Stopped ==
    ASSUME Typed, NEW w \in Workers, Stop(w)
    PROVE  /\ worker' \in [Workers -> Writers]
           /\ worker'[w].pc = "poll" /\ worker'[w].last = worker[w].last
           /\ worker'[w].end = worker[w].last
           /\ \A v \in Workers : v # w => worker'[v] = worker[v]
  BY DEF Stop, Resting, Refusal, Typed, Writers, Decisions

\* An append leaves what the log holds and keeps the window complete.
LEMMA Appended ==
    ASSUME Typed, WindowOpen, NEW e \in Events, AppendEvent(e)
    PROVE  /\ log' \in Seq(Events)
           /\ \A n : Logged(n) => Logged(n)'
           /\ Duplicate(e) \/ Logged(e.id)'
           /\ used'.expiries = used.expiries => WindowOpen'
           /\ log' = log \/ (~Duplicate(e) /\ log' = Append(log, e))
  <1>1. CASE Duplicate(e)
    BY <1>1 DEF AppendEvent, Logged, Typed, WindowOpen
  <1>2. CASE ~Duplicate(e)
    <2>1. log' = Append(log, e) /\ remembered' = remembered \cup {e.id}
      BY <1>2 DEF AppendEvent
    <2>2. log \in Seq(Events)
      BY DEF Typed
    <2>3. /\ log' \in Seq(Events) /\ Len(log') = Len(log) + 1 /\ log'[Len(log) + 1] = e
          /\ \A i \in DOMAIN log : i \in DOMAIN log' /\ log'[i] = log[i]
          /\ \A i \in DOMAIN log' : i \in DOMAIN log \/ i = Len(log) + 1
          /\ Len(log) + 1 \in DOMAIN log'
      BY <2>1, <2>2
    <2>4. (\A n : Logged(n) => Logged(n)') /\ Logged(e.id)'
      BY <2>3 DEF Logged
    <2>5. used'.expiries = used.expiries => WindowOpen'
      BY <2>1, <2>3 DEF WindowOpen
    <2> QED  BY <1>2, <2>1, <2>3, <2>4, <2>5
  <1> QED  BY <1>1, <1>2

\* The writers' conjuncts hold of a writer that has stopped, and stay true of
\* the others while nothing they rest on is taken back.
LEMMA OthersInBatch ==
    ASSUME Typed, InBatch, NEW w \in Workers,
           \A v \in Workers : v # w => worker'[v] = worker[v],
           committed' \in Nat, committed <= committed', commands' = commands,
           \A n \in Offsets : Outcome(n) => Outcome(n)',
           NEW v \in Workers, v # w
    PROVE  /\ worker'[v].last <= committed'
           /\ worker'[v].last <= worker'[v].end /\ worker'[v].end <= Len(commands')
           /\ ~At(v, "poll")' => Current(v)' <= worker'[v].end
           /\ At(v, "append")' => /\ worker'[v].decision.events # <<>>
                                  /\ worker'[v].decision.events[1].id = Current(v)'
           /\ At(v, "commit")' => Outcome(Current(v))'
           /\ At(v, "receipt")' => Current(v)' <= committed'
  <1>1. worker'[v] = worker[v]
    OBVIOUS
  <1>2. /\ At(v, "poll")' = At(v, "poll") /\ At(v, "append")' = At(v, "append")
        /\ At(v, "commit")' = At(v, "commit") /\ At(v, "receipt")' = At(v, "receipt")
        /\ Current(v)' = Current(v)
    BY <1>1 DEF At, Current
  <1>3. worker[v].last \in Nat /\ worker[v].end \in Nat /\ committed \in Nat
    BY DEF Typed, Writers
  <1>4. At(v, "commit") => Outcome(Current(v))'
    <2> SUFFICES ASSUME At(v, "commit") PROVE Outcome(Current(v))'
      OBVIOUS
    <2>1. ~At(v, "poll")
      BY DEF At
    <2>2. Current(v) \in Offsets
      BY <2>1, CurrentOffset
    <2>3. Outcome(Current(v))
      BY DEF InBatch
    <2> QED  BY <1>2, <2>2, <2>3
  <1>5. Current(v) \in Nat
    BY <1>3 DEF Current
  <1> QED  BY <1>1, <1>2, <1>3, <1>4, <1>5 DEF InBatch

\* So the conjuncts of the writer that moves are all there is to show.
LEMMA BatchKept ==
    ASSUME Typed, InBatch, NEW w \in Workers,
           \A v \in Workers : v # w => worker'[v] = worker[v],
           committed' \in Nat, committed <= committed', commands' = commands,
           \A n \in Offsets : Outcome(n) => Outcome(n)',
           worker'[w].last <= committed',
           worker'[w].last <= worker'[w].end, worker'[w].end <= Len(commands'),
           ~At(w, "poll")' => Current(w)' <= worker'[w].end,
           At(w, "append")' => /\ worker'[w].decision.events # <<>>
                               /\ worker'[w].decision.events[1].id = Current(w)',
           At(w, "commit")' => Outcome(Current(w))',
           At(w, "receipt")' => Current(w)' <= committed'
    PROVE  InBatch'
  <1> DEFINE Own(v) ==
         /\ worker[v].last <= committed
         /\ worker[v].last <= worker[v].end /\ worker[v].end <= Len(commands)
         /\ ~At(v, "poll") => Current(v) <= worker[v].end
         /\ At(v, "append") => /\ worker[v].decision.events # <<>>
                               /\ worker[v].decision.events[1].id = Current(v)
         /\ At(v, "commit") => Outcome(Current(v))
         /\ At(v, "receipt") => Current(v) <= committed
  <1>1. SUFFICES ASSUME NEW v \in Workers PROVE Own(v)'
    BY DEF InBatch
  <1>2. CASE v = w
    BY <1>2
  <1>3. CASE v # w
    BY <1>3, OthersInBatch
  <1> QED  BY <1>2, <1>3

\* Committed commands keep their outcomes.
LEMMA OutcomesKept ==
    ASSUME Typed, CommittedHasOutcome, committed' = committed,
           \A n \in Offsets : Outcome(n) => Outcome(n)'
    PROVE  CommittedHasOutcome'
  <1>1. committed \in 0..MaxCommands
    BY BoundsAssumption DEF Typed
  <1>2. 1..committed \subseteq Offsets
    BY <1>1, BoundsAssumption DEF Offsets
  <1> QED  BY <1>2 DEF CommittedHasOutcome, Outcome

\* With the log and the window as they were, what is said of them stays true.
LEMMA LogKept ==
    ASSUME WindowOpen, EventsInCommandOrder, log' = log, remembered' = remembered,
           used'.expiries = used.expiries
    PROVE  WindowOpen' /\ EventsInCommandOrder'
  BY DEF WindowOpen, EventsInCommandOrder

\* A writer's append keeps the order of the commands when it is alone.
LEMMA AppendKeeps ==
    ASSUME IInv, NEW w \in Workers, At(w, "append"), committed' = committed,
           AppendEvent(worker[w].decision.events[1]), used'.expiries = used.expiries
    PROVE  /\ log' \in Seq(Events)
           /\ \A n : Logged(n) => Logged(n)'
           /\ Duplicate(worker[w].decision.events[1]) \/ \A n : n = Current(w) => Logged(n)'
           /\ WindowOpen' /\ EventsInCommandOrder'
           /\ OneWriter => \A i \in DOMAIN log' : log'[i].id <= committed' + 1
  <1> DEFINE e == worker[w].decision.events[1]
  <1>1. e \in Events /\ e.id = Current(w)
    <2>1. worker[w].decision.events \in Seq(Events)
      BY DEF IInv, Typed, Writers, Decisions
    <2>2. worker[w].decision.events # <<>> /\ e.id = Current(w)
      BY DEF IInv, InBatch
    <2> QED  BY <2>1, <2>2
  <1>2. Typed /\ WindowOpen /\ AtCommitted /\ EventsInCommandOrder /\ AppendEvent(e)
    BY DEF IInv
  <1> HIDE DEF e
  <1>3. /\ log' \in Seq(Events)
        /\ \A n : Logged(n) => Logged(n)'
        /\ Duplicate(e) \/ \A n : n = Current(w) => Logged(n)'
        /\ log' = log \/ (~Duplicate(e) /\ log' = Append(log, e))
    BY <1>1, <1>2, Appended
  <1>4. WindowOpen'
    BY <1>1, <1>2, Appended
  <1>5. CASE log' = log
    BY <1>2, <1>3, <1>4, <1>5 DEF EventsInCommandOrder, AtCommitted, e
  <1>6. CASE ~Duplicate(e) /\ log' = Append(log, e)
    <2>1. log \in Seq(Events) /\ committed \in Nat /\ worker[w].last \in Nat /\ worker[w].end \in Nat
      BY <1>2 DEF Typed, Writers
    <2>2. /\ Len(log) \in Nat /\ DOMAIN log' = 1..Len(log) + 1 /\ DOMAIN log = 1..Len(log)
          /\ log'[Len(log) + 1] = e /\ \A i \in DOMAIN log : log'[i] = log[i] /\ log[i].id \in Nat
      <3>1. ASSUME NEW x \in Events PROVE x.id \in Nat
        BY DEF Events, Offsets
      <3>2. /\ Len(log) \in Nat /\ DOMAIN log' = 1..Len(log) + 1 /\ DOMAIN log = 1..Len(log)
            /\ log'[Len(log) + 1] = e /\ \A i \in DOMAIN log : log'[i] = log[i] /\ log[i] \in Events
        BY <1>1, <1>6, <2>1
      <3> QED  BY <3>1, <3>2
    <2>3. OneWriter => e.id = committed + 1
      <3>1. worker[w].last < worker[w].end
        BY <2>1 DEF IInv, InBatch, At, Current
      <3>2. ~At(w, "receipt")
        BY DEF At
      <3> QED  BY <1>1, <1>2, <3>1, <3>2 DEF AtCommitted, Current
    <2>4. OneWriter => \A i \in DOMAIN log' : log'[i].id <= committed' + 1
      BY <1>2, <2>1, <2>2, <2>3 DEF AtCommitted
    <2>5. EventsInCommandOrder'
      <3> SUFFICES ASSUME used'.expiries = 0,
                          NEW i \in DOMAIN log', NEW j \in DOMAIN log', i < j
                   PROVE  log'[i].id # log'[j].id /\ (OneWriter => log'[i].id < log'[j].id)
        BY DEF EventsInCommandOrder, OneWriter
      <3>1. i \in DOMAIN log
        BY <2>2
      <3>2. CASE j \in DOMAIN log
        BY <1>2, <2>2, <3>1, <3>2 DEF EventsInCommandOrder
      <3>3. CASE j = Len(log) + 1
        <4>1. log[i].id \in remembered /\ (OneWriter => log[i].id <= committed + 1)
          BY <1>2, <3>1 DEF WindowOpen, AtCommitted
        <4>2. log[i].id # e.id
          BY <1>6, <4>1 DEF Duplicate
        <4> QED  BY <2>1, <2>2, <2>3, <3>1, <3>3, <4>1, <4>2
      <3> QED  BY <2>2, <3>2, <3>3
    <2> QED  BY <1>3, <1>4, <2>4, <2>5 DEF e
  <1> QED  BY <1>3, <1>5, <1>6

-----------------------------------------------------------------------------
(* The steps *)

\* A writer that stops without a word to the broker changes nothing else.
LEMMA StopInv ==
    ASSUME IInv, NEW w \in Workers, Stop(w),
           UNCHANGED <<commands, committed, log, remembered, projected, post, decided>>,
           used' \in [faults : Nat, expiries : Nat, changes : Nat], used'.expiries = used.expiries
    PROVE  IInv'
  <1>1. Typed /\ InBatch /\ WindowOpen /\ AtCommitted /\ CommittedHasOutcome /\ EventsInCommandOrder
    BY DEF IInv
  <1>2. /\ worker' \in [Workers -> Writers]
        /\ worker'[w].pc = "poll" /\ worker'[w].last = worker[w].last
        /\ worker'[w].end = worker[w].last
        /\ \A v \in Workers : v # w => worker'[v] = worker[v]
    BY <1>1, Stopped
  <1>3. Typed'
    BY <1>1, <1>2 DEF Typed
  <1>4. \A n \in Offsets : Outcome(n) => Outcome(n)'
    BY DEF Outcome, Logged
  <1>5. worker[w].last \in Nat /\ worker[w].end \in Nat /\ committed \in Nat /\ Len(commands) \in Nat
    BY <1>1 DEF Typed, Writers
  <1>6. worker[w].last <= committed /\ worker[w].last <= worker[w].end /\ worker[w].end <= Len(commands)
    BY <1>1 DEF InBatch
  <1>7. At(w, "poll")' /\ ~At(w, "append")' /\ ~At(w, "commit")' /\ ~At(w, "receipt")'
    BY <1>2 DEF At
  <1>8. InBatch'
    BY <1>1, <1>2, <1>4, <1>5, <1>6, <1>7, BatchKept
  <1>9. AtCommitted'
    BY <1>1, <1>2, <1>5, <1>7 DEF AtCommitted, OneWriter
  <1> QED  BY <1>1, <1>3, <1>4, <1>8, <1>9, OutcomesKept, LogKept DEF IInv

LEMMA DrainInv ==
    ASSUME IInv, NEW w \in Workers, DrainPartition(w)
    PROVE  IInv'
  <1>1. Typed /\ InBatch /\ WindowOpen /\ AtCommitted /\ CommittedHasOutcome /\ EventsInCommandOrder
    BY DEF IInv
  <1>2. /\ worker' \in [Workers -> Writers]
        /\ worker'[w].pc = "poll" /\ worker'[w].last = committed /\ worker'[w].end = Len(commands)
        /\ \A v \in Workers : v # w => worker'[v] = worker[v]
    <2> DEFINE r == [worker[w] EXCEPT !.last = committed, !.end = Len(commands)]
    <2>1. worker \in [Workers -> Writers] /\ committed \in Nat /\ Len(commands) \in Nat
      BY <1>1 DEF Typed
    <2>2. r \in Writers /\ r.pc = "poll" /\ r.last = committed /\ r.end = Len(commands)
      BY <2>1, Zenon DEF DrainPartition, At, Writers
    <2>3. worker' = [worker EXCEPT ![w] = r]
      BY DEF DrainPartition
    <2> HIDE DEF r
    <2> QED  BY <2>1, <2>2, <2>3
  <1>3. UNCHANGED <<commands, committed, log, remembered, projected, post, decided, used>>
    BY DEF DrainPartition
  <1>4. Typed'
    BY <1>1, <1>2, <1>3 DEF Typed
  <1>5. \A n \in Offsets : Outcome(n) => Outcome(n)'
    BY <1>3 DEF Outcome, Logged
  <1>6. committed \in Nat /\ Len(commands) \in Nat /\ committed <= Len(commands)
    BY <1>1 DEF Typed
  <1>7. At(w, "poll")' /\ ~At(w, "append")' /\ ~At(w, "commit")' /\ ~At(w, "receipt")'
    BY <1>2 DEF At
  <1>8. InBatch'
    BY <1>1, <1>2, <1>3, <1>5, <1>6, <1>7, BatchKept
  <1>9. AtCommitted'
    BY <1>1, <1>2, <1>3, <1>6, <1>7 DEF AtCommitted, OneWriter
  <1> QED  BY <1>1, <1>3, <1>4, <1>5, <1>8, <1>9, OutcomesKept, LogKept DEF IInv

\* A decision without events is an outcome; one with an event goes to append it.
LEMMA ExecuteInv ==
    ASSUME IInv, NEW w \in Workers, ExecuteCommandLogRecord(w)
    PROVE  IInv'
  <1> DEFINE n == Current(w)
             d == decide(commands[n], n)
             pc == IF d.events = <<>> THEN "commit" ELSE "append"
             kind == IF d.events # <<>> THEN "events" ELSE d.reply
  <1>1. Typed /\ InBatch /\ WindowOpen /\ AtCommitted /\ CommittedHasOutcome /\ EventsInCommandOrder
    BY DEF IInv
  <1>2. At(w, "poll") /\ worker[w].last < worker[w].end
    BY DEF ExecuteCommandLogRecord
  <1>3. n \in Offsets /\ commands[n] \in Commands
    BY <1>1, <1>2, CurrentOffset
  <1>4. d \in Decisions /\ (d.events # <<>> => d.events[1].id = n)
    BY <1>1, <1>3, DecisionSound DEF Typed
  <1>5. /\ worker' = [worker EXCEPT ![w].decision = d, ![w].pc = pc]
        /\ decided' = [decided EXCEPT ![n] = @ \cup {kind}]
        /\ UNCHANGED <<commands, committed, log, remembered, projected, post, used>>
    BY DEF ExecuteCommandLogRecord
  <1>6. worker[w].last \in Nat /\ worker[w].end \in Nat /\ committed \in Nat /\ n = worker[w].last + 1
    BY <1>1 DEF Typed, Writers, Current
  <1> HIDE DEF d
  <1>7. kind \in {"events", "applied", "failed"} /\ (d.events = <<>> => kind \in {"applied", "failed"})
    BY <1>4 DEF Decisions
  <1>8. /\ worker' \in [Workers -> Writers]
        /\ worker'[w].pc = pc /\ worker'[w].last = worker[w].last
        /\ worker'[w].end = worker[w].end /\ worker'[w].decision = d
        /\ \A v \in Workers : v # w => worker'[v] = worker[v]
    BY <1>1, <1>4, <1>5, Zenon DEF Typed, Writers
  <1>9. decided' \in [Offsets -> SUBSET {"events", "applied", "failed"}]
    BY <1>1, <1>3, <1>5, <1>7 DEF Typed
  <1>10. Typed'
    BY <1>1, <1>5, <1>8, <1>9 DEF Typed
  <1>11. \A m \in Offsets : Outcome(m) => Outcome(m)'
    BY <1>1, <1>3, <1>5 DEF Outcome, Logged, Typed
  <1>12. Current(w)' = n
    BY <1>8 DEF Current
  <1>13. d.events = <<>> => Outcome(n)'
    <2>1. decided'[n] = decided[n] \cup {kind}
      BY <1>1, <1>3, <1>5 DEF Typed
    <2>2. d.events = <<>> => decided'[n] \cap {"applied", "failed"} # {}
      BY <1>7, <2>1
    <2> HIDE DEF n
    <2>3. n' = n
      BY <1>12 DEF n
    <2> QED  BY <2>2, <2>3 DEF Outcome
  <1>14. /\ ~At(w, "poll")' /\ ~At(w, "receipt")'
         /\ At(w, "append")' => d.events # <<>>
         /\ At(w, "commit")' => d.events = <<>>
    BY <1>8 DEF At
  <1>15. /\ worker[w].last <= committed /\ worker[w].last <= worker[w].end
         /\ worker[w].end <= Len(commands) /\ n <= worker[w].end
    BY <1>1, <1>2, <1>6 DEF InBatch
  <1>16. InBatch'
    BY <1>1, <1>4, <1>5, <1>6, <1>8, <1>11, <1>12, <1>13, <1>14, <1>15, BatchKept
  <1>17. AtCommitted'
    BY <1>1, <1>2, <1>5, <1>6, <1>8, <1>14 DEF AtCommitted, OneWriter, At
  <1> QED  BY <1>1, <1>5, <1>10, <1>11, <1>16, <1>17, OutcomesKept, LogKept DEF IInv

LEMMA AppendInv ==
    ASSUME IInv, NEW w \in Workers, AppendEvents(w)
    PROVE  IInv'
  <1> DEFINE e == worker[w].decision.events[1]
  <1>1. Typed /\ InBatch /\ AtCommitted /\ CommittedHasOutcome
    BY DEF IInv
  <1>2. /\ At(w, "append") /\ AppendEvent(e) /\ (Duplicate(e) => SameIdentity(e))
        /\ worker' = [worker EXCEPT ![w].pc = "commit"]
        /\ UNCHANGED <<commands, committed, projected, post, decided, used>>
    BY DEF AppendEvents, Goto
  <1>3. /\ log' \in Seq(Events)
        /\ \A n : Logged(n) => Logged(n)'
        /\ Duplicate(e) \/ \A n : n = Current(w) => Logged(n)'
        /\ WindowOpen' /\ EventsInCommandOrder'
        /\ OneWriter => \A i \in DOMAIN log' : log'[i].id <= committed' + 1
    BY <1>2, AppendKeeps
  <1>4. \A n : n = Current(w) => Logged(n)'
    <2>1. CASE Duplicate(e)
      <3>1. e.id = Current(w)
        BY <1>1, <1>2 DEF InBatch
      <3>2. Logged(Current(w))
        BY <1>2, <2>1, <3>1 DEF SameIdentity, Logged
      <3> QED  BY <1>3, <3>2
    <2> QED  BY <1>3, <2>1
  <1> HIDE DEF e
  <1>5. /\ worker' \in [Workers -> Writers]
        /\ worker'[w].pc = "commit" /\ worker'[w].last = worker[w].last
        /\ worker'[w].end = worker[w].end
        /\ \A v \in Workers : v # w => worker'[v] = worker[v]
    BY <1>1, <1>2, Zenon DEF Typed, Writers
  <1>6. Typed'
    BY <1>1, <1>2, <1>3, <1>5 DEF Typed
  <1>7. \A n \in Offsets : Outcome(n) => Outcome(n)'
    BY <1>2, <1>3 DEF Outcome
  <1>8. Current(w)' = Current(w)
    BY <1>5 DEF Current
  <1>9. Outcome(Current(w))'
    BY <1>4, <1>8 DEF Outcome
  <1>10. ~At(w, "poll")' /\ ~At(w, "append")' /\ ~At(w, "receipt")' /\ ~At(w, "poll") /\ ~At(w, "receipt")
    BY <1>2, <1>5 DEF At
  <1>11. /\ worker[w].last <= committed /\ worker[w].last <= worker[w].end
         /\ worker[w].end <= Len(commands) /\ Current(w) <= worker[w].end
    BY <1>1, <1>10 DEF InBatch
  <1>12. committed \in Nat
    BY <1>1 DEF Typed
  <1>13. InBatch'
    BY <1>1, <1>2, <1>5, <1>7, <1>8, <1>9, <1>10, <1>11, <1>12, BatchKept
  <1>14. AtCommitted'
    BY <1>1, <1>2, <1>3, <1>5, <1>10 DEF AtCommitted, OneWriter
  <1> QED  BY <1>1, <1>2, <1>3, <1>6, <1>7, <1>13, <1>14, OutcomesKept DEF IInv

\* An append that fails may have been stored: the writer stops in both cases.
LEMMA AppendFailsInv ==
    ASSUME IInv, NEW w \in Workers, AppendFails(w)
    PROVE  IInv'
  <1> DEFINE e == worker[w].decision.events[1]
  <1>1. Typed /\ InBatch /\ AtCommitted /\ CommittedHasOutcome
    BY DEF IInv
  <1>2. /\ At(w, "append") /\ Stop(w)
        /\ UNCHANGED <<commands, committed, projected, post, decided>>
        /\ UNCHANGED <<log, remembered>> \/ AppendEvent(e)
    BY DEF AppendFails
  <1>3. used' \in [faults : Nat, expiries : Nat, changes : Nat] /\ used'.expiries = used.expiries
    BY <1>1 DEF AppendFails, Fault, Typed
  <1>4. CASE UNCHANGED <<log, remembered>>
    BY <1>2, <1>3, <1>4, StopInv
  <1>5. CASE AppendEvent(e)
    <2>1. /\ log' \in Seq(Events)
          /\ \A n : Logged(n) => Logged(n)'
          /\ WindowOpen' /\ EventsInCommandOrder'
          /\ OneWriter => \A i \in DOMAIN log' : log'[i].id <= committed' + 1
      BY <1>2, <1>3, <1>5, AppendKeeps
    <2>2. /\ worker' \in [Workers -> Writers]
          /\ worker'[w].pc = "poll" /\ worker'[w].last = worker[w].last
          /\ worker'[w].end = worker[w].last
          /\ \A v \in Workers : v # w => worker'[v] = worker[v]
      BY <1>1, <1>2, Stopped
    <2>3. Typed'
      BY <1>1, <1>2, <1>3, <2>1, <2>2 DEF Typed
    <2>4. \A n \in Offsets : Outcome(n) => Outcome(n)'
      BY <1>2, <2>1 DEF Outcome
    <2>5. worker[w].last \in Nat /\ worker[w].end \in Nat /\ committed \in Nat /\ Len(commands) \in Nat
      BY <1>1 DEF Typed, Writers
    <2>6. worker[w].last <= committed /\ worker[w].last <= worker[w].end /\ worker[w].end <= Len(commands)
      BY <1>1 DEF InBatch
    <2>7. At(w, "poll")' /\ ~At(w, "append")' /\ ~At(w, "commit")' /\ ~At(w, "receipt")'
      BY <2>2 DEF At
    <2>8. InBatch'
      BY <1>1, <1>2, <2>2, <2>4, <2>5, <2>6, <2>7, BatchKept
    <2>9. AtCommitted'
      BY <1>2, <2>1, <2>2, <2>5, <2>7 DEF AtCommitted, OneWriter
    <2> QED  BY <1>1, <1>2, <2>1, <2>3, <2>4, <2>8, <2>9, OutcomesKept DEF IInv
  <1> QED  BY <1>2, <1>4, <1>5

\* The marker a writer stores covers its command, which has its outcome, and
\* nothing else that was not covered.
LEMMA CommitKeeps ==
    ASSUME IInv, NEW w \in Workers, At(w, "commit"), CommitPartition(Current(w)),
           UNCHANGED <<commands, log, decided>>
    PROVE  /\ committed' \in 0..Len(commands) /\ committed <= committed' /\ Current(w) <= committed'
           /\ CommittedHasOutcome'
           /\ OneWriter => /\ committed' = Current(w)
                           /\ \A i \in DOMAIN log : log[i].id <= committed' + 1
  <1>1. Typed /\ InBatch /\ AtCommitted /\ CommittedHasOutcome
    BY DEF IInv
  <1>2. ~At(w, "poll") /\ ~At(w, "receipt")
    BY DEF At
  <1>3. Current(w) \in 1..Len(commands) /\ Outcome(Current(w))
    BY <1>1, <1>2, CurrentOffset DEF InBatch
  <1>4. /\ worker[w].last \in Nat /\ worker[w].end \in Nat /\ Current(w) = worker[w].last + 1
        /\ Len(commands) \in Nat /\ committed \in 0..Len(commands)
    BY <1>1 DEF Typed, Writers, Current
  <1>5. worker[w].last <= committed /\ Current(w) <= worker[w].end
    BY <1>1, <1>2 DEF InBatch
  <1>6. committed' = committed \/ (committed' = Current(w) /\ committed = worker[w].last)
    BY <1>4, <1>5 DEF CommitPartition
  <1>7. committed' \in 0..Len(commands) /\ committed <= committed' /\ Current(w) <= committed'
    BY <1>3, <1>4 DEF CommitPartition
  <1>8. CommittedHasOutcome'
    <2>1. \A n : Outcome(n) => Outcome(n)'
      BY DEF Outcome, Logged
    <2>2. ASSUME NEW n \in 1..committed' PROVE Outcome(n)
      <3>1. n \in 1..committed \/ n = Current(w)
        BY <1>4, <1>6
      <3> QED  BY <1>1, <1>3, <3>1 DEF CommittedHasOutcome, Outcome
    <2> QED  BY <2>1, <2>2 DEF CommittedHasOutcome, Outcome
  <1>9. OneWriter => committed = worker[w].last /\ \A i \in DOMAIN log : log[i].id <= committed + 1
    BY <1>1, <1>2, <1>4, <1>5 DEF AtCommitted
  <1>10. \A i \in DOMAIN log : log[i].id \in Nat
    <2>1. ASSUME NEW x \in Events PROVE x.id \in Nat
      BY DEF Events, Offsets
    <2> QED  BY <1>1, <2>1 DEF Typed
  <1>11. OneWriter => committed' = Current(w) /\ \A i \in DOMAIN log : log[i].id <= committed' + 1
    BY <1>4, <1>7, <1>6, <1>9, <1>10
  <1> QED  BY <1>7, <1>8, <1>11

LEMMA CommitInv ==
    ASSUME IInv, NEW w \in Workers, CommitCommand(w)
    PROVE  IInv'
  <1>1. Typed /\ InBatch /\ AtCommitted /\ WindowOpen /\ EventsInCommandOrder
    BY DEF IInv
  <1>2. /\ At(w, "commit") /\ CommitPartition(Current(w))
        /\ worker' = [worker EXCEPT ![w].pc = "receipt"]
        /\ UNCHANGED <<commands, log, remembered, projected, post, decided, used>>
    BY DEF CommitCommand, Goto
  <1>3. /\ committed' \in 0..Len(commands) /\ committed <= committed' /\ Current(w) <= committed'
        /\ CommittedHasOutcome'
        /\ OneWriter => /\ committed' = Current(w)
                        /\ \A i \in DOMAIN log : log[i].id <= committed' + 1
    BY <1>2, CommitKeeps
  <1>4. /\ worker' \in [Workers -> Writers]
        /\ worker'[w].pc = "receipt" /\ worker'[w].last = worker[w].last
        /\ worker'[w].end = worker[w].end
        /\ \A v \in Workers : v # w => worker'[v] = worker[v]
    BY <1>1, <1>2, Zenon DEF Typed, Writers
  <1>5. Typed'
    BY <1>1, <1>2, <1>3, <1>4 DEF Typed
  <1>6. \A n \in Offsets : Outcome(n) => Outcome(n)'
    BY <1>2 DEF Outcome, Logged
  <1>7. Current(w)' = Current(w)
    BY <1>4 DEF Current
  <1>8. /\ ~At(w, "poll")' /\ ~At(w, "append")' /\ ~At(w, "commit")' /\ At(w, "receipt")'
        /\ ~At(w, "poll")
    BY <1>2, <1>4 DEF At
  <1>9. /\ worker[w].last <= committed /\ worker[w].last <= worker[w].end
        /\ worker[w].end <= Len(commands) /\ Current(w) <= worker[w].end
    BY <1>1, <1>8 DEF InBatch
  <1>10. committed \in Nat /\ worker[w].last \in Nat /\ Len(commands) \in Nat
    BY <1>1 DEF Typed, Writers
  <1>11. worker'[w].last <= committed' /\ committed' \in Nat
    BY <1>3, <1>4, <1>9, <1>10
  <1>12. InBatch'
    BY <1>1, <1>2, <1>3, <1>4, <1>6, <1>7, <1>8, <1>9, <1>11, BatchKept
  <1>13. AtCommitted'
    BY <1>2, <1>3, <1>7, <1>8 DEF AtCommitted, OneWriter
  <1> QED  BY <1>1, <1>2, <1>3, <1>5, <1>12, <1>13, LogKept DEF IInv

\* A commit that fails may have been stored: the writer stops in both cases.
LEMMA CommitFailsInv ==
    ASSUME IInv, NEW w \in Workers, CommitFails(w)
    PROVE  IInv'
  <1>1. Typed /\ InBatch /\ AtCommitted /\ WindowOpen /\ EventsInCommandOrder
    BY DEF IInv
  <1>2. /\ At(w, "commit") /\ Stop(w)
        /\ UNCHANGED <<commands, log, remembered, projected, post, decided>>
        /\ committed' = committed \/ CommitPartition(Current(w))
    BY DEF CommitFails
  <1>3. used' \in [faults : Nat, expiries : Nat, changes : Nat] /\ used'.expiries = used.expiries
    BY <1>1 DEF CommitFails, Fault, Typed
  <1>4. CASE committed' = committed
    BY <1>2, <1>3, <1>4, StopInv
  <1>5. CASE CommitPartition(Current(w))
    <2>1. /\ committed' \in 0..Len(commands) /\ committed <= committed'
          /\ CommittedHasOutcome'
          /\ OneWriter => \A i \in DOMAIN log : log[i].id <= committed' + 1
      BY <1>2, <1>5, CommitKeeps
    <2>2. /\ worker' \in [Workers -> Writers]
          /\ worker'[w].pc = "poll" /\ worker'[w].last = worker[w].last
          /\ worker'[w].end = worker[w].last
          /\ \A v \in Workers : v # w => worker'[v] = worker[v]
      BY <1>1, <1>2, Stopped
    <2>3. Typed'
      BY <1>1, <1>2, <1>3, <2>1, <2>2 DEF Typed
    <2>4. \A n \in Offsets : Outcome(n) => Outcome(n)'
      BY <1>2 DEF Outcome, Logged
    <2>5. worker[w].last \in Nat /\ worker[w].end \in Nat /\ committed \in Nat /\ Len(commands) \in Nat
      BY <1>1 DEF Typed, Writers
    <2>6. worker[w].last <= committed /\ worker[w].last <= worker[w].end /\ worker[w].end <= Len(commands)
      BY <1>1 DEF InBatch
    <2>7. At(w, "poll")' /\ ~At(w, "append")' /\ ~At(w, "commit")' /\ ~At(w, "receipt")'
      BY <2>2 DEF At
    <2>8. committed' \in Nat /\ worker'[w].last <= committed' /\ worker'[w].end <= Len(commands)
      BY <2>1, <2>2, <2>5, <2>6
    <2>9. InBatch'
      BY <1>1, <1>2, <2>1, <2>2, <2>4, <2>5, <2>7, <2>8, BatchKept
    <2>10. AtCommitted'
      BY <1>2, <2>1, <2>2, <2>5, <2>7 DEF AtCommitted, OneWriter
    <2> QED  BY <1>1, <1>2, <1>3, <2>1, <2>3, <2>9, <2>10, LogKept DEF IInv
  <1> QED  BY <1>2, <1>4, <1>5

LEMMA ReceiptInv ==
    ASSUME IInv, NEW w \in Workers, RecordReceipt(w)
    PROVE  IInv'
  <1>1. Typed /\ InBatch /\ WindowOpen /\ AtCommitted /\ CommittedHasOutcome /\ EventsInCommandOrder
    BY DEF IInv
  <1>2. /\ worker' \in [Workers -> Writers]
        /\ worker'[w].pc = "poll" /\ worker'[w].last = Current(w) /\ worker'[w].end = worker[w].end
        /\ \A v \in Workers : v # w => worker'[v] = worker[v]
    BY <1>1 DEF RecordReceipt, Refusal, Current, Typed, Writers, Decisions
  <1>3. /\ At(w, "receipt")
        /\ UNCHANGED <<commands, committed, log, remembered, projected, post, decided, used>>
    BY DEF RecordReceipt
  <1>4. Typed'
    BY <1>1, <1>2, <1>3 DEF Typed
  <1>5. \A n \in Offsets : Outcome(n) => Outcome(n)'
    BY <1>3 DEF Outcome, Logged
  <1>6. Current(w) <= committed /\ Current(w) <= worker[w].end /\ worker[w].end <= Len(commands)
    BY <1>1, <1>3 DEF InBatch, At
  <1>7. At(w, "poll")' /\ ~At(w, "append")' /\ ~At(w, "commit")' /\ ~At(w, "receipt")'
    BY <1>2 DEF At
  <1>8. committed \in Nat
    BY <1>1 DEF Typed
  <1>9. InBatch'
    BY <1>1, <1>2, <1>3, <1>5, <1>6, <1>7, <1>8, BatchKept
  <1>10. AtCommitted'
    BY <1>1, <1>2, <1>3, <1>7 DEF AtCommitted, OneWriter
  <1> QED  BY <1>1, <1>3, <1>4, <1>5, <1>9, <1>10, OutcomesKept, LogKept DEF IInv

LEMMA EnqueueInv ==
    ASSUME IInv, NEW c \in Commands, EnqueueCommand(c)
    PROVE  IInv'
  <1>1. Typed /\ InBatch /\ AtCommitted /\ CommittedHasOutcome
    BY DEF IInv
  <1>2. /\ Len(commands) < MaxCommands /\ commands' = Append(commands, c)
        /\ UNCHANGED <<committed, worker, log, remembered, projected, post, decided, used>>
    BY DEF EnqueueCommand
  <1>3. commands \in Seq(Commands) /\ committed \in 0..Len(commands)
    BY <1>1 DEF Typed
  <1>4. commands' \in Seq(Commands) /\ Len(commands') = Len(commands) + 1 /\ Len(commands) \in Nat
    BY <1>2, <1>3
  <1>5. Typed'
    BY <1>1, <1>2, <1>3, <1>4, BoundsAssumption DEF Typed
  <1>6. InBatch'
    <2>1. \A v \in Workers : worker[v].end \in Nat
      BY <1>1 DEF Typed, Writers
    <2> QED  BY <1>1, <1>2, <1>4, <2>1 DEF InBatch, At, Current, Outcome, Logged
  <1>7. AtCommitted' /\ CommittedHasOutcome' /\ WindowOpen' /\ EventsInCommandOrder'
    BY <1>2 DEF IInv, AtCommitted, At, Current, OneWriter, CommittedHasOutcome, Logged, WindowOpen,
                EventsInCommandOrder
  <1> QED  BY <1>5, <1>6, <1>7 DEF IInv

\* The projection applies an event to the row.
LEMMA ProjectInv ==
    ASSUME IInv, Project
    PROVE  IInv'
  <1>1. Typed
    BY DEF IInv
  <1>2. /\ projected < Len(log) /\ projected' = projected + 1
        /\ post' = ApplyEvent(post, log[projected + 1])
        /\ UNCHANGED <<commands, committed, worker, log, remembered, decided, used>>
    BY DEF Project
  <1>3. log[projected + 1] \in Events /\ projected + 1 \in Nat /\ post \in PostRows
    BY <1>1, <1>2 DEF Typed
  <1>4. ASSUME NEW e \in Events PROVE ApplyEvent(post, e) \in PostRows
    <2>1. [post EXCEPT !.version = @ + 1] \in PostRows /\ [post EXCEPT !.flags = e.flags] \in PostRows
      BY <1>3 DEF Events, PostRows
    <2>2. [post EXCEPT !.redacted = FALSE] \in PostRows /\ [post EXCEPT !.redacted = TRUE] \in PostRows
      BY <1>3, Zenon DEF PostRows
    <2> QED  BY <2>1, <2>2 DEF ApplyEvent
  <1>5. Typed'
    BY <1>1, <1>2, <1>3, <1>4 DEF Typed
  <1> QED
    BY <1>2, <1>5 DEF IInv, InBatch, AtCommitted, At, Current, OneWriter, CommittedHasOutcome, Outcome,
                      Logged, WindowOpen, EventsInCommandOrder

\* The window forgets an id, or the actor's rights change: nothing is said of
\* a window that has forgotten something.
LEMMA SurroundingsInv ==
    ASSUME IInv, (\E n \in Offsets : ExpireWindow(n)) \/ ChangeRights
    PROVE  IInv'
  <1>1. Typed
    BY DEF IInv
  <1>2. /\ UNCHANGED <<commands, committed, worker, log, projected, post, decided>>
        /\ used' \in [faults : Nat, expiries : Nat, changes : Nat]
        /\ used'.expiries = 0 => used.expiries = 0 /\ remembered' = remembered
    BY <1>1 DEF ExpireWindow, ChangeRights, Typed
  <1>3. Typed'
    BY <1>1, <1>2 DEF Typed
  <1> QED
    BY <1>2, <1>3 DEF IInv, InBatch, AtCommitted, At, Current, OneWriter, CommittedHasOutcome, Outcome,
                      Logged, WindowOpen, EventsInCommandOrder

LEMMA InitInv == Init => IInv
  <1> SUFFICES ASSUME Init PROVE IInv
    OBVIOUS
  <1>1. \A w \in Workers : worker[w] = [pc |-> "poll", last |-> 0, end |-> 0, decision |-> Refusal]
    BY DEF Init, Resting
  <1>2. Refusal \in Decisions
    BY DEF Refusal, Decisions
  <1>3. worker \in [Workers -> Writers]
    BY <1>2 DEF Init, Resting, Writers
  <1>4. Typed
    BY <1>3, BoundsAssumption DEF Init, Typed, PostRows
  <1>5. InBatch
    BY <1>1 DEF Init, InBatch, At
  <1>6. AtCommitted /\ WindowOpen /\ EventsInCommandOrder /\ CommittedHasOutcome
    BY <1>1 DEF Init, AtCommitted, WindowOpen, EventsInCommandOrder, CommittedHasOutcome, At
  <1> QED  BY <1>4, <1>5, <1>6 DEF IInv

LEMMA StepInv == IInv /\ [Next]_vars => IInv'
  <1> SUFFICES ASSUME IInv, [Next]_vars PROVE IInv'
    OBVIOUS
  <1>1. CASE \E c \in Commands : EnqueueCommand(c)
    BY <1>1, EnqueueInv
  <1>2. ASSUME NEW w \in Workers, WorkerStep(w) PROVE IInv'
    <2>1. CASE AppendConflicts(w)
      BY <2>1, StopInv DEF AppendConflicts, IInv, Typed
    <2> QED
      BY <1>2, <2>1, DrainInv, ExecuteInv, AppendInv, CommitInv, ReceiptInv DEF WorkerStep
  <1>3. ASSUME NEW w \in Workers, WorkerFault(w) PROVE IInv'
    <2>1. CASE ExecuteRetryable(w) \/ ReceiptFails(w) \/ Crash(w)
      <3>1. used' \in [faults : Nat, expiries : Nat, changes : Nat] /\ used'.expiries = used.expiries
        BY <2>1 DEF ExecuteRetryable, ReceiptFails, Crash, Fault, IInv, Typed
      <3> QED  BY <2>1, <3>1, StopInv DEF ExecuteRetryable, ReceiptFails, Crash
    <2> QED  BY <1>3, <2>1, AppendFailsInv, CommitFailsInv DEF WorkerFault
  <1>4. CASE (\E n \in Offsets : ExpireWindow(n)) \/ ChangeRights
    BY <1>4, SurroundingsInv
  <1>5. CASE Project
    BY <1>5, ProjectInv
  <1>6. CASE UNCHANGED vars
    BY <1>6, ZenonT(30) DEF vars, IInv, Typed, InBatch, AtCommitted, At, Current, OneWriter, CommittedHasOutcome, Outcome,
                Logged, WindowOpen, EventsInCommandOrder
  <1> QED  BY <1>1, <1>2, <1>3, <1>4, <1>5, <1>6 DEF Next

-----------------------------------------------------------------------------
(* Theorems *)

\* The inductive invariant holds in every reachable state.
THEOREM Invariance == Spec => []IInv
  BY InitInv, StepInv, PTL DEF Spec

\* However many writers believe they own the partition and whatever fails, no
\* command is consumed without its outcome: AppendEventsAndCommitCommands
\* appends before it commits, and a drain starts from the committed offset.
THEOREM CommittedHasOutcomeAlways == Spec => []CommittedHasOutcome
  <1>1. IInv => CommittedHasOutcome
    BY DEF IInv
  <1> QED  BY <1>1, Invariance, PTL

\* While the duplicate window is open, the event partition has at most one event
\* of each command, whatever writers overlap; and with one writer they are in the
\* order of the commands, through any number of lost answers, crashes and
\* repetitions.
THEOREM EventsInCommandOrderAlways == Spec => []EventsInCommandOrder
  <1>1. IInv => EventsInCommandOrder
    BY DEF IInv
  <1> QED  BY <1>1, Invariance, PTL

\* With one writer and an open duplicate window, a committed command that has
\* no event never gets one: an append is of the command after the marker.
THEOREM SettledAlways == Spec => SettledCommandsStaySettled
  <1> DEFINE Settled == OneWriter /\ used.expiries = 0 => \A n \in 1..committed : Logged(n)' => Logged(n)
  <1>1. ASSUME IInv, [Next]_vars PROVE [Settled]_vars
    <2> SUFFICES ASSUME OneWriter, NEW n \in 1..committed, Logged(n)', ~Logged(n) PROVE FALSE
      BY DEF Settled
    <2>1. log' # log
      BY DEF Logged
    <2>2. PICK w \in Workers : At(w, "append") /\ AppendEvent(worker[w].decision.events[1])
      BY <1>1, <2>1, Zenon DEF Next, vars, WorkerStep, WorkerFault, EnqueueCommand, DrainPartition, ExecuteCommandLogRecord,
         AppendEvents, AppendConflicts, CommitCommand, RecordReceipt, ExecuteRetryable, AppendFails,
         CommitFails, ReceiptFails, Crash, ExpireWindow, Project, ChangeRights
    <2> DEFINE e == worker[w].decision.events[1]
    <2>3. log' = Append(log, e)
      BY <2>1, <2>2 DEF AppendEvent
    <2>4. log \in Seq(Events) /\ worker[w].decision.events \in Seq(Events)
      BY <1>1 DEF IInv, Typed, Writers, Decisions
    <2>5. worker[w].decision.events # <<>> /\ e.id = Current(w)
      BY <1>1, <2>2 DEF IInv, InBatch
    <2>6. e \in Events
      BY <2>4, <2>5
    <2> HIDE DEF e
    <2>7. e.id = n
      BY <2>3, <2>4, <2>6 DEF Logged
    <2>8. worker[w].last \in Nat /\ worker[w].end \in Nat /\ committed \in Nat
      BY <1>1 DEF IInv, Typed, Writers
    <2>9. worker[w].last < worker[w].end /\ ~At(w, "receipt")
      BY <1>1, <2>2, <2>8 DEF IInv, InBatch, At, Current
    <2>10. worker[w].last = committed
      BY <1>1, <2>9 DEF IInv, AtCommitted
    <2> QED  BY <2>5, <2>7, <2>8, <2>10 DEF Current
  <1> QED  BY <1>1, Invariance, PTL DEF Spec, SettledCommandsStaySettled
=============================================================================
