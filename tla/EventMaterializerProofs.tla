------------------------ MODULE EventMaterializerProofs ------------------------
(***************************************************************************)
(* Proofs about EventMaterializer, for any number of workers, partitions   *)
(* and events, any batch size, and any pattern of lost offsets and faults. *)
(*                                                                         *)
(* The safety of the projection rests on one fact about offsets: a         *)
(* watermark, the copy of it that a pass works from, and the offset of     *)
(* every event applied all have the whole log before them.  The copies     *)
(* matter, because a worker applies a batch it fetched under a watermark   *)
(* that another worker may have moved since.                               *)
(***************************************************************************)
EXTENDS EventMaterializer, WellFoundedInduction, FiniteSetTheorems, TLAPS

Events == [off : Nat, kind : Kinds]
Tasks == [pc : {"idle", "lookup", "replay", "apply"}, todo : SUBSET Partitions,
          started : Nat, batch : Seq(Events)]

Typed ==
    /\ store \in [Partitions -> Seq(Events)]
    /\ watermark \in [Partitions -> Nat]
    /\ applied \in [Partitions -> [Offsets -> Nat]]
    /\ running \subseteq Workers
    /\ task \in [Workers -> Tasks]

\* The log of a partition is in the order of its offsets, which start at 1.
Ordered ==
    \A p \in Partitions :
        /\ \A i \in DOMAIN store[p] : store[p][i].off >= 1
        /\ \A i, j \in DOMAIN store[p] : i < j => store[p][i].off < store[p][j].off

\* Offset o of partition p has the whole log before it.
Whole(p, o) == \A n \in 1 .. o : n \in Stored(p)

WholeBefore ==
    \A p \in Partitions :
        /\ Whole(p, watermark[p])
        /\ \A o \in Offsets : applied[p][o] > 0 => Whole(p, o)

\* A batch that follows offset after of partition p event by event, from the log.
Follows(batch, p, after) ==
    /\ batch # <<>>
    /\ \A i \in DOMAIN batch :
          batch[i].off = after + i /\ \E j \in DOMAIN store[p] : store[p][j] = batch[i]

\* What holds of the pass t of worker w: it is at a partition, the watermark it
\* has read had the whole log before it, and its batch follows that watermark.
\* A worker that is alone works from the watermark as it is.
SoundPass(w, t) ==
    /\ t.pc # "idle" => t.todo # {}
    /\ t.pc \in {"replay", "apply"} => Whole(Min(t.todo), t.started)
    /\ t.pc = "apply" => Follows(t.batch, Min(t.todo), t.started)
    /\ OneWorker =>
         /\ w \notin running => t.pc = "idle"
         /\ t.pc \in {"replay", "apply"} => t.started = watermark[Min(t.todo)]

Passes == \A w \in Workers : SoundPass(w, task[w])

IInv == Typed /\ Ordered /\ WholeBefore /\ Passes /\ ExactPrefix /\ InsertedOnce

-----------------------------------------------------------------------------
\* A set of numbers that is not empty has a least member.
LEMMA MinIn == ASSUME NEW S \in SUBSET Nat, S # {} PROVE Min(S) \in S
<1> DEFINE Less == {ss \in Nat \X Nat : ss[1] < ss[2]}
<1>1. IsWellFoundedOn(Less, Nat)
  BY NatLessThanWellFounded, Zenon DEF OpToRel
<1> HIDE DEF Less
<1>2. PICK x \in S : \A y \in S : ~ (<<y, x>> \in Less)
  BY <1>1, WFMin, Zenon
<1>3. ASSUME NEW y \in S PROVE x <= y
  <2>1. ~ (y < x)
    <3> SUFFICES ASSUME y < x PROVE <<y, x>> \in Less
      BY <1>2
    <3> QED BY DEF Less
  <2> QED BY <2>1
<1> QED BY <1>3, Zenon DEF Min

\* The events of a sequence of events have numbers as offsets.
LEMMA Offs == ASSUME NEW b \in Seq(Events), NEW i \in DOMAIN b PROVE b[i] \in Events /\ b[i].off \in Nat /\ i \in Nat
<1>1. b[i] \in Events
  OBVIOUS
<1>2. \A e \in Events : e.off \in Nat
  BY DEF Events
<1> QED BY <1>1, <1>2

\* A worker that is not idle is at one of the partitions.
LEMMA AtPartition ==
  ASSUME Typed, Passes, NEW w \in Workers, task[w].pc # "idle"
  PROVE  Partition(w) \in Partitions
<1>1. task[w].todo \in SUBSET Partitions /\ task[w].todo # {}
  BY DEF Typed, Tasks, Passes, SoundPass
<1>2. task[w].todo \in SUBSET Nat
  BY <1>1 DEF Partitions
<1> QED BY <1>1, <1>2, MinIn DEF Partition

\* What a replay returns is from the log of the partition.
LEMMA Replayed ==
  ASSUME Typed, NEW p \in Partitions, NEW after \in Nat
  PROVE  LET batch == ReplayPartition(p, after) IN
         /\ batch \in Seq(Events)
         /\ \A i \in DOMAIN batch : \E j \in DOMAIN store[p] : store[p][j] = batch[i]
<1> DEFINE seen == {i \in DOMAIN store[p] : store[p][i].off <= after}
           first == Cardinality(seen) + 1
           last == IF first + BatchSize - 1 < Len(store[p]) THEN first + BatchSize - 1 ELSE Len(store[p])
<1>1. store[p] \in Seq(Events) /\ Len(store[p]) \in Nat /\ DOMAIN store[p] = 1 .. Len(store[p])
  BY DEF Typed
<1>2. IsFiniteSet(1 .. Len(store[p]))
  BY <1>1, FS_Interval
<1>3. IsFiniteSet(seen)
  BY <1>1, <1>2, FS_Subset
<1>4. first \in Nat /\ first >= 1
  BY <1>3, FS_CardinalityType
<1>5. last \in Int /\ last <= Len(store[p])
  BY <1>1, <1>4, MaterializerConstants
<1>6. ReplayPartition(p, after) = SubSeq(store[p], first, last)
  BY DEF ReplayPartition
<1> HIDE DEF first, last
<1>7. SubSeq(store[p], first, last) \in Seq(Events)
      /\ \A i \in DOMAIN SubSeq(store[p], first, last) :
            first + i - 1 \in DOMAIN store[p] /\ store[p][first + i - 1] = SubSeq(store[p], first, last)[i]
  BY <1>1, <1>4, <1>5
<1> QED BY <1>6, <1>7

\* A batch that follows an offset has one event for each of the next offsets.
LEMMA CountInBatch ==
  ASSUME NEW b \in Seq(Events), NEW after \in Nat, NEW o \in Nat,
         \A i \in DOMAIN b : b[i].off = after + i
  PROVE  Cardinality({i \in DOMAIN b : b[i].off = o}) = IF o \in after + 1 .. after + Len(b) THEN 1 ELSE 0
<1>1. CASE o \in after + 1 .. after + Len(b)
  <2>1. o - after \in DOMAIN b /\ b[o - after].off = o
    BY <1>1
  <2>2. ASSUME NEW i \in DOMAIN b, b[i].off = o PROVE i = o - after
    BY <2>2
  <2>3. {i \in DOMAIN b : b[i].off = o} = {o - after}
    BY <2>1, <2>2
  <2> QED BY <1>1, <2>3, FS_Singleton, Zenon
<1>2. CASE o \notin after + 1 .. after + Len(b)
  <2>1. {i \in DOMAIN b : b[i].off = o} = {}
    BY <1>2
  <2> QED BY <1>2, <2>1, FS_EmptySet, Zenon
<1> QED BY <1>1, <1>2

-----------------------------------------------------------------------------
\* The invariant holds initially: nothing is stored, applied or under way.
LEMMA InitInv == Init => IInv
<1> SUFFICES ASSUME Init PROVE IInv
  OBVIOUS
<1>1. Idle \in Tasks
  BY DEF Idle, Pass, Tasks
<1>2. Typed
  BY <1>1 DEF Init, Typed, Offsets
<1>3. Ordered /\ WholeBefore
  BY MaterializerConstants DEF Init, Ordered, WholeBefore, Whole, Offsets
<1>4. Passes
  BY DEF Init, Passes, SoundPass, Idle, Pass
<1>5. ExactPrefix /\ InsertedOnce
  BY MaterializerConstants DEF Init, ExactPrefix, InsertedOnce, Offsets
<1> QED BY <1>2, <1>3, <1>4, <1>5 DEF IInv

\* A step that only moves the pass of w on to a sound one keeps the invariant.
LEMMA PassInv ==
  ASSUME IInv, NEW w \in Workers, NEW t \in Tasks, SoundPass(w, t),
         task' = [task EXCEPT ![w] = t], UNCHANGED <<store, watermark, applied, running>>
  PROVE  IInv'
<1> USE DEF IInv
<1>1. Typed'
  BY DEF Typed
<1>2. Ordered' /\ WholeBefore'
  BY DEF Ordered, WholeBefore, Whole, Stored
<1>3. Passes'
  <2> SUFFICES ASSUME NEW v \in Workers PROVE SoundPass(v, task[v])'
    BY DEF Passes
  <2>1. SoundPass(v, task'[v])
    BY DEF Passes, Typed
  <2> QED BY <2>1 DEF SoundPass, Whole, Stored, Follows, OneWorker
<1>4. ExactPrefix' /\ InsertedOnce'
  BY DEF ExactPrefix, InsertedOnce, OneWorker
<1> QED BY <1>1, <1>2, <1>3, <1>4

\* An event is appended: its offset is beyond those of the log, nothing has
\* been applied at it, and what had the whole log before it still has.
LEMMA AppendInv ==
  ASSUME IInv, NEW p \in Partitions, NEW kind \in Kinds, AppendEvent(p, kind)
  PROVE  IInv'
<1> USE DEF IInv
<1>1. PICK lost \in {0, 1} :
        store' = [store EXCEPT ![p] = Append(@, [off |-> LastOffset(p) + 1 + lost, kind |-> kind])]
  BY Zenon DEF AppendEvent
<1> DEFINE e == [off |-> LastOffset(p) + 1 + lost, kind |-> kind]
<1>2. UNCHANGED <<watermark, applied, running, task>>
  BY DEF AppendEvent
<1>3. store[p] \in Seq(Events) /\ store \in [Partitions -> Seq(Events)]
  BY DEF Typed
<1>4. /\ LastOffset(p) \in Nat
      /\ \A i \in DOMAIN store[p] : store[p][i].off <= LastOffset(p)
  <2>1. CASE store[p] = <<>>
    BY <2>1 DEF LastOffset
  <2>2. CASE store[p] # <<>>
    <3>1. LastOffset(p) = store[p][Len(store[p])].off
      BY <2>2 DEF LastOffset
    <3>2. Len(store[p]) \in DOMAIN store[p] /\ Len(store[p]) \in Nat /\ DOMAIN store[p] = 1 .. Len(store[p])
      BY <1>3, <2>2
    <3>3. \A i \in DOMAIN store[p] : store[p][i].off \in Nat
      BY <1>3, Offs
    <3>4. LastOffset(p) \in Nat
      BY <3>1, <3>2, <3>3
    <3>5. ASSUME NEW i \in DOMAIN store[p], i # Len(store[p]) PROVE store[p][i].off < store[p][Len(store[p])].off
      BY <3>2, <3>5 DEF Ordered
    <3> QED BY <3>1, <3>3, <3>4, <3>5
  <2> QED BY <2>1, <2>2
<1>5. e \in Events /\ e.off > LastOffset(p) /\ e.off >= 1 /\ e.kind = kind /\ e.off \in Nat
  BY <1>4 DEF Events
<1> HIDE DEF e
<1>6. /\ store'[p] = Append(store[p], e)
      /\ \A q \in Partitions \ {p} : store'[q] = store[q]
  BY <1>1, <1>3 DEF e
<1>7. /\ DOMAIN store'[p] = 1 .. Len(store[p]) + 1
      /\ store'[p][Len(store[p]) + 1] = e
      /\ \A i \in DOMAIN store[p] : i \in DOMAIN store'[p] /\ store'[p][i] = store[p][i]
      /\ \A i \in DOMAIN store'[p] : i \in DOMAIN store[p] \/ i = Len(store[p]) + 1
  BY <1>3, <1>5, <1>6
<1>8. Typed'
  BY <1>1, <1>2, <1>3, <1>5 DEF Typed, e
<1>9. \A q \in Partitions : \A i \in DOMAIN store[q] : i \in DOMAIN store'[q] /\ store'[q][i] = store[q][i]
  BY <1>6, <1>7
<1>10. \A q \in Partitions : Stored(q) \subseteq Stored(q)'
  BY <1>9 DEF Stored
<1>11. \A q \in Partitions : \A o : Whole(q, o) => Whole(q, o)'
  BY <1>10 DEF Whole
<1>12. Ordered'
  <2> SUFFICES ASSUME NEW q \in Partitions
               PROVE  /\ \A i \in DOMAIN store'[q] : store'[q][i].off >= 1
                      /\ \A i, j \in DOMAIN store'[q] : i < j => store'[q][i].off < store'[q][j].off
    BY DEF Ordered
  <2>1. CASE q # p
    BY <2>1, <1>6 DEF Ordered
  <2>2. CASE q = p
    <3>1. \A i \in DOMAIN store[p] : store[p][i].off \in Nat /\ store[p][i].off < e.off
      BY <1>3, <1>4, <1>5, Offs
    <3>2. \A i \in DOMAIN store[p] : i < Len(store[p]) + 1 /\ i \in Nat
      BY <1>3
    <3>3. \A i \in DOMAIN store'[p] : store'[p][i].off >= 1
      BY <1>5, <1>7 DEF Ordered
    <3>4. ASSUME NEW i \in DOMAIN store'[p], NEW j \in DOMAIN store'[p], i < j
          PROVE  store'[p][i].off < store'[p][j].off
      <4>1. i \in DOMAIN store[p]
        BY <3>4, <3>2, <1>3, <1>7
      <4>2. CASE j \in DOMAIN store[p]
        BY <4>1, <4>2, <3>4, <1>7 DEF Ordered
      <4>3. CASE j = Len(store[p]) + 1
        BY <4>1, <4>3, <3>1, <1>7
      <4> QED BY <4>2, <4>3, <1>7
    <3> QED BY <2>2, <3>3, <3>4
  <2> QED BY <2>1, <2>2
<1>13. WholeBefore'
  BY <1>2, <1>11 DEF WholeBefore
<1>14. Passes'
  <2> SUFFICES ASSUME NEW w \in Workers PROVE SoundPass(w, task[w])'
    BY DEF Passes
  <2>1. SoundPass(w, task[w])
    BY DEF Passes
  <2>2. task[w].pc # "idle" => Partition(w) \in Partitions
    BY AtPartition
  <2>3. OneWorker' <=> OneWorker
    BY <1>2 DEF OneWorker
  <2>4. task[w].pc = "apply" => Follows(task[w].batch, Partition(w), task[w].started)'
    BY <2>1, <2>2, <1>2, <1>9 DEF SoundPass, Follows, Partition
  <2>5. task[w].pc \in {"replay", "apply"} => Whole(Partition(w), task[w].started)'
    BY <2>1, <2>2, <1>2, <1>11 DEF SoundPass, Partition, Whole
  <2> QED BY <2>1, <2>3, <2>4, <2>5, <1>2 DEF SoundPass, Partition
<1>15. ExactPrefix'
  BY <1>2 DEF ExactPrefix, OneWorker
<1>16. InsertedOnce'
  <2> SUFFICES ASSUME NEW q \in Partitions, NEW o \in Offsets, NEW i \in DOMAIN store'[q],
                      store'[q][i] = [off |-> o, kind |-> "insert"]
               PROVE  applied[q][o] <= 1
    BY <1>2 DEF InsertedOnce
  <2>1. CASE i \in DOMAIN store[q]
    BY <2>1, <1>9 DEF InsertedOnce
  <2>2. CASE i \notin DOMAIN store[q]
    <3>1. q = p /\ e.off = o
      BY <2>2, <1>6, <1>7
    <3>2. o \notin Stored(p)
      BY <3>1, <1>3, <1>4, <1>5 DEF Stored, Events
    <3>3. o \in 1 .. o
      BY <3>1, <1>5
    <3>4. ~ (applied[p][o] > 0)
      BY <3>2, <3>3 DEF WholeBefore, Whole
    <3>5. applied[p][o] \in Nat
      BY DEF Typed
    <3> QED BY <3>1, <3>4, <3>5
  <2> QED BY <2>1, <2>2
<1> QED BY <1>8, <1>12, <1>13, <1>14, <1>15, <1>16

\* A pass that is about to visit the partitions S.
LEMMA Visits ==
  ASSUME NEW S \in SUBSET Partitions
  PROVE  Pass("lookup", S) \in Tasks /\ Pass("lookup", S).pc = "lookup" /\ Pass("lookup", S).todo = S
  BY DEF Pass, Tasks

\* Where NextPartition(w) leads: to the next partition, or to the end of the pass.
After(w) ==
    LET rest == task[w].todo \ {Partition(w)}
    IN  IF rest = {} THEN Idle ELSE Pass("lookup", rest)

\* A pass between two partitions, or over, is sound whatever the watermarks.
LEMMA AfterSound ==
  ASSUME Typed, NEW w \in Workers
  PROVE  /\ Idle \in Tasks /\ After(w) \in Tasks
         /\ SoundPass(w, Idle)
         /\ (OneWorker => w \in running) => SoundPass(w, After(w))
         /\ After(w).pc \in {"idle", "lookup"} /\ (After(w).pc # "idle" => After(w).todo # {})
<1>1. task[w] \in Tasks /\ task[w].todo \in SUBSET Partitions
  BY DEF Typed, Tasks
<1>2. Idle \in Tasks
  BY DEF Idle, Pass, Tasks
<1>3. Idle.pc = "idle"
  BY DEF Idle, Pass
<1>4. After(w) \in Tasks /\ After(w).pc \in {"idle", "lookup"} /\ (After(w).pc # "idle" => After(w).todo # {})
  BY <1>1, <1>2, <1>3, Visits DEF After
<1> QED BY <1>2, <1>3, <1>4 DEF SoundPass

\* A worker with a pass under way runs.
LEMMA AtWorkRuns ==
  ASSUME Passes, NEW w \in Workers, task[w].pc # "idle", OneWorker
  PROVE  w \in running
  BY DEF Passes, SoundPass

\* A pass lists the partitions that have events.
LEMMA ListInv == ASSUME IInv, NEW w \in Workers, ListEventPartitions(w) PROVE IInv'
<1> DEFINE listed == {p \in Partitions : store[p] # <<>>}
           t == Pass("lookup", listed)
<1>1. w \in running /\ UNCHANGED <<store, watermark, applied, running>>
  BY DEF ListEventPartitions
<1>2. CASE UNCHANGED task
  <2>1. task' = [task EXCEPT ![w] = task[w]] /\ task[w] \in Tasks /\ SoundPass(w, task[w])
    BY <1>2 DEF IInv, Typed, Passes
  <2> QED BY <2>1, <1>1, PassInv, Zenon
<1>3. CASE listed # {} /\ task' = [task EXCEPT ![w] = t]
  <2>1. t \in Tasks /\ t.pc = "lookup" /\ t.todo # {}
    BY <1>3, Visits
  <2>2. SoundPass(w, t)
    BY <1>1, <2>1 DEF SoundPass
  <2> QED BY <1>1, <1>3, <2>1, <2>2, PassInv
<1> QED BY <1>2, <1>3 DEF ListEventPartitions

\* A pass reads the watermark of its partition.
LEMMA LookupInv == ASSUME IInv, NEW w \in Workers, LookupWatermark(w) PROVE IInv'
<1> DEFINE t == [task[w] EXCEPT !.pc = "replay", !.started = watermark[Partition(w)]]
<1>1. task[w].pc = "lookup" /\ UNCHANGED <<store, watermark, applied, running>>
  BY DEF LookupWatermark
<1>2. task[w] \in Tasks
  BY DEF IInv, Typed
<1>3. Partition(w) \in Partitions
  BY <1>1, AtPartition DEF IInv
<1>4. task' = [task EXCEPT ![w] = t]
  BY Zenon DEF LookupWatermark
<1>5. t \in Tasks /\ t.pc = "replay" /\ t.todo = task[w].todo /\ t.started = watermark[Partition(w)]
  BY <1>2, <1>3, Zenon DEF IInv, Typed, Tasks
<1>6. SoundPass(w, task[w])
  BY DEF IInv, Passes
<1>7. Whole(Partition(w), watermark[Partition(w)])
  BY <1>3 DEF IInv, WholeBefore
<1>8. SoundPass(w, t)
  BY <1>1, <1>5, <1>6, <1>7 DEF SoundPass, Partition
<1> QED BY <1>1, <1>4, <1>5, <1>8, PassInv, Zenon

\* A batch is fetched; a gap in it ends the pass.
LEMMA FetchInv == ASSUME IInv, NEW w \in Workers, FetchBatch(w) PROVE IInv'
<1> DEFINE batch == ReplayPartition(Partition(w), task[w].started)
           t == [task[w] EXCEPT !.pc = "apply", !.batch = batch]
<1>1. task[w].pc = "replay" /\ UNCHANGED <<store, watermark, applied, running>>
  BY DEF FetchBatch
<1>2. task[w] \in Tasks /\ task[w].started \in Nat
  BY DEF IInv, Typed, Tasks
<1>3. Partition(w) \in Partitions
  BY <1>1, AtPartition DEF IInv
<1>4. OneWorker => w \in running
  BY <1>1, AtWorkRuns DEF IInv
<1>5. CASE batch = <<>> /\ NextPartition(w)
  <2>1. task' = [task EXCEPT ![w] = After(w)]
    BY <1>5 DEF NextPartition, After
  <2> QED BY <1>1, <1>4, <2>1, AfterSound, PassInv, Zenon DEF IInv
<1>6. CASE PassFails(w)
  BY <1>1, <1>6, AfterSound, PassInv, Zenon DEF IInv, PassFails
<1>7. CASE batch # <<>> /\ Contiguous(batch, task[w].started) /\ task' = [task EXCEPT ![w].pc = "apply", ![w].batch = batch]
  <2>1. /\ batch \in Seq(Events)
        /\ \A i \in DOMAIN batch : \E j \in DOMAIN store[Partition(w)] : store[Partition(w)][j] = batch[i]
    BY <1>2, <1>3, Replayed, Zenon DEF IInv
  <2>2. batch # <<>> /\ \A i \in DOMAIN batch : batch[i].off = task[w].started + i
    BY <1>7 DEF Contiguous
  <2> HIDE DEF batch
  <2>3. task' = [task EXCEPT ![w] = t]
    BY <1>7, Zenon
  <2>4. t \in Tasks /\ t.pc = "apply" /\ t.todo = task[w].todo /\ t.started = task[w].started /\ t.batch = batch
    BY <1>2, <2>1, Zenon DEF Tasks
  <2>5. Follows(batch, Partition(w), task[w].started)
    BY <2>1, <2>2 DEF Follows
  <2>6. SoundPass(w, task[w])
    BY DEF IInv, Passes
  <2>7. SoundPass(w, t)
    BY <1>1, <2>4, <2>5, <2>6 DEF SoundPass, Partition
  <2> QED BY <1>1, <2>3, <2>4, <2>7, PassInv, Zenon
<1> QED BY <1>5, <1>6, <1>7 DEF FetchBatch

-----------------------------------------------------------------------------
\* The transaction of w, after which its pass is between partitions or over.
\* A batch applied under a watermark that has moved since cannot insert an event
\* again, and a worker that is alone has the watermark as it is.
LEMMA MaterializedInv ==
  ASSUME IInv, NEW w \in Workers, task[w].pc = "apply", ~Conflicts(Partition(w), task[w].batch),
         Materialized(w), UNCHANGED <<store, running>>,
         NEW t \in Tasks, t.pc \in {"idle", "lookup"}, t.pc # "idle" => t.todo # {},
         task' = [task EXCEPT ![w] = t]
  PROVE  IInv'
<1> DEFINE p == Partition(w)
           b == task[w].batch
           after == task[w].started
           Count(o) == IF o \in after + 1 .. after + Len(b) THEN 1 ELSE 0
<1> USE DEF IInv
<1>1. p \in Partitions
  BY AtPartition
<1>2. after \in Nat /\ b \in Seq(Events) /\ Len(b) \in Nat /\ DOMAIN b = 1 .. Len(b)
  BY DEF Typed, Tasks
<1>3. SoundPass(w, task[w])
  BY DEF Passes
<1>4. /\ b # <<>> /\ Len(b) >= 1
      /\ \A i \in DOMAIN b : b[i].off = after + i
      /\ \A i \in DOMAIN b : \E j \in DOMAIN store[p] : store[p][j] = b[i]
  BY <1>2, <1>3 DEF SoundPass, Follows, Partition
<1>5. \A o \in Offsets : Cardinality({i \in DOMAIN b : b[i].off = o}) = Count(o)
  <2> SUFFICES ASSUME NEW o \in Offsets PROVE Cardinality({i \in DOMAIN b : b[i].off = o}) = Count(o)
    OBVIOUS
  <2>1. o \in Nat
    BY DEF Offsets
  <2> HIDE DEF b, after
  <2> QED BY <2>1, <1>2, <1>4, CountInBatch, Zenon
<1>6. applied' = [applied EXCEPT ![p] = [o \in Offsets |-> @[o] + Count(o)]]
  BY <1>5, Zenon DEF Materialized
<1>7. watermark' = [watermark EXCEPT ![p] = after + Len(b)]
  <2>1. Len(b) \in DOMAIN b /\ b[Len(b)].off = after + Len(b)
    BY <1>2, <1>4
  <2> QED BY <2>1 DEF Materialized
<1>8. \A o \in Offsets : o \in Nat /\ Count(o) \in Nat
  BY DEF Offsets
<1>9. /\ \A q \in Partitions, o \in Offsets :
             applied[q][o] \in Nat /\ applied'[q][o] = IF q = p THEN applied[q][o] + Count(o) ELSE applied[q][o]
      /\ \A q \in Partitions :
             watermark[q] \in Nat /\ watermark'[q] = IF q = p THEN after + Len(b) ELSE watermark[q]
  BY <1>1, <1>6, <1>7 DEF Typed
<1>10. Typed'
  <2>1. [o \in Offsets |-> applied[p][o] + Count(o)] \in [Offsets -> Nat]
    BY <1>1, <1>8, <1>9
  <2>2. applied' \in [Partitions -> [Offsets -> Nat]]
    BY <1>1, <1>6, <2>1 DEF Typed
  <2>3. watermark' \in [Partitions -> Nat]
    BY <1>1, <1>2, <1>7 DEF Typed
  <2> QED BY <2>2, <2>3 DEF Typed
<1>11. \A q, o : Whole(q, o)' <=> Whole(q, o)
  BY DEF Whole, Stored
<1>12. Whole(p, after)
  BY <1>3 DEF SoundPass, Partition
<1>13. Whole(p, after + Len(b))
  <2> SUFFICES ASSUME NEW n \in 1 .. after + Len(b) PROVE n \in Stored(p)
    BY DEF Whole
  <2>1. CASE n <= after
    BY <2>1, <1>2, <1>12 DEF Whole
  <2>2. CASE n > after
    <3>1. n - after \in DOMAIN b /\ b[n - after].off = n
      <4> HIDE DEF b, after
      <4>1. n \in Nat /\ n - after \in 1 .. Len(b) /\ after + (n - after) = n
        BY <2>2, <1>2
      <4>2. n - after \in DOMAIN b
        BY <4>1, <1>2
      <4>3. b[n - after].off = after + (n - after)
        BY <4>2, <1>4
      <4> QED BY <4>1, <4>2, <4>3
    <3> QED BY <3>1, <1>4 DEF Stored
  <2> QED BY <2>1, <2>2, <1>2
<1>14. WholeBefore'
  <2>1. ASSUME NEW q \in Partitions PROVE Whole(q, watermark'[q])
    BY <1>9, <1>13 DEF WholeBefore
  <2>2. ASSUME NEW q \in Partitions, NEW o \in Offsets, applied'[q][o] > 0 PROVE Whole(q, o)
    <3>1. CASE applied[q][o] > 0
      BY <3>1 DEF WholeBefore
    <3>2. CASE ~ (applied[q][o] > 0)
      <4>1. q = p /\ o \in after + 1 .. after + Len(b)
        BY <3>2, <2>2, <1>8, <1>9
      <4> QED BY <4>1, <1>2, <1>8, <1>13 DEF Whole
    <3> QED BY <3>1, <3>2
  <2> QED BY <2>1, <2>2, <1>11 DEF WholeBefore
<1>15. Passes'
  <2> SUFFICES ASSUME NEW v \in Workers PROVE SoundPass(v, task[v])'
    BY DEF Passes
  <2>1. OneWorker' <=> OneWorker
    BY DEF OneWorker
  <2>2. OneWorker => w \in running
    BY AtWorkRuns
  <2>3. CASE v = w
    <3>1. task'[v] = t
      BY <2>3 DEF Typed
    <3> QED BY <2>1, <2>2, <2>3, <3>1 DEF SoundPass
  <2>4. CASE v # w
    <3>1. task'[v] = task[v] /\ SoundPass(v, task[v])
      BY <2>4 DEF Typed, Passes
    <3>2. OneWorker => v \notin running
      BY <2>2, <2>4 DEF OneWorker
    <3>3. OneWorker => task[v].pc = "idle"
      BY <3>1, <3>2 DEF SoundPass
    <3>4. Follows(task[v].batch, Min(task[v].todo), task[v].started)' <=> Follows(task[v].batch, Min(task[v].todo), task[v].started)
      BY <3>1 DEF Follows
    <3> QED BY <2>1, <3>1, <3>3, <3>4, <1>11 DEF SoundPass
  <2> QED BY <2>3, <2>4
<1>16. ExactPrefix'
  <2> SUFFICES ASSUME OneWorker, NEW q \in Partitions, NEW o \in Offsets
               PROVE  applied'[q][o] = IF o <= watermark'[q] THEN 1 ELSE 0
    BY DEF ExactPrefix, OneWorker
  <2>1. applied[q][o] = IF o <= watermark[q] THEN 1 ELSE 0
    BY DEF ExactPrefix
  <2>2. after = watermark[p]
    BY <1>3 DEF SoundPass, Partition
  <2> QED BY <2>1, <2>2, <1>1, <1>2, <1>8, <1>9
<1>17. InsertedOnce'
  <2> SUFFICES ASSUME NEW q \in Partitions, NEW o \in Offsets, NEW i \in DOMAIN store[q],
                      store[q][i] = [off |-> o, kind |-> "insert"]
               PROVE  applied'[q][o] <= 1
    BY DEF InsertedOnce
  <2>1. applied[q][o] <= 1
    BY DEF InsertedOnce
  <2>2. CASE q = p /\ o \in after + 1 .. after + Len(b)
    <3>1. o - after \in DOMAIN b /\ b[o - after].off = o
      <4> HIDE DEF b, after
      <4>1. o - after \in 1 .. Len(b)
        BY <2>2, <1>2, <1>8
      <4> QED BY <4>1, <1>2, <1>4, <1>8
    <3>2. PICK j \in DOMAIN store[p] : store[p][j] = b[o - after]
      BY <3>1, <1>4
    <3>3. store[p][i].off = o /\ store[p][j].off = o /\ store[p] \in Seq(Events)
      BY <2>2, <3>1, <3>2, <1>1 DEF Typed
    <3>4. i \in Nat /\ j \in Nat
      BY <2>2, <3>2, <3>3, Offs
    <3>5. i = j
      <4>1. ~ (i < j) /\ ~ (j < i)
        BY <2>2, <3>2, <3>3, <1>1, <1>8 DEF Ordered
      <4> QED BY <3>4, <4>1
    <3>6. b[o - after].kind = "insert"
      BY <2>2, <3>2, <3>5
    <3>7. applied[p][o] = 0
      <4>1. ~ (applied[p][b[o - after].off] > 0)
        BY <3>1, <3>6 DEF Conflicts
      <4> QED BY <3>1, <4>1, <1>1, <1>9
    <3>8. Count(o) = 1
      BY <2>2
    <3>9. applied'[p][o] = applied[p][o] + Count(o)
      BY <1>1, <1>9
    <3> QED BY <2>2, <3>7, <3>8, <3>9
  <2>3. CASE ~ (q = p /\ o \in after + 1 .. after + Len(b))
    BY <2>1, <2>3, <1>9
  <2> QED BY <2>2, <2>3
<1> QED BY <1>10, <1>14, <1>15, <1>16, <1>17 DEF Ordered

\* Every step keeps the invariant.
LEMMA StepInv == ASSUME IInv, [Next]_vars PROVE IInv'
<1>1. CASE UNCHANGED vars
  <2> USE <1>1 DEF vars, IInv
  <2>1. Typed' /\ Ordered' /\ ExactPrefix' /\ InsertedOnce'
    BY DEF Typed, Ordered, ExactPrefix, InsertedOnce, OneWorker
  <2>2. WholeBefore' /\ Passes'
    BY DEF WholeBefore, Whole, Stored, Passes, SoundPass, Follows, OneWorker
  <2> QED BY <2>1, <2>2
<1>2. ASSUME NEW p \in Partitions, NEW kind \in Kinds, AppendEvent(p, kind) PROVE IInv'
  BY <1>2, AppendInv
<1>3. ASSUME NEW w \in Workers, Step(w) PROVE IInv'
  <2>1. Typed /\ Passes
    BY DEF IInv
  <2>2. CASE Apply(w)
    <3>1. task' = [task EXCEPT ![w] = After(w)]
      BY <2>2 DEF Apply, NextPartition, After
    <3> QED BY <2>1, <2>2, <3>1, AfterSound, MaterializedInv, Zenon DEF Apply
  <2>3. CASE ApplyConflicts(w)
    BY <2>1, <2>3, AfterSound, PassInv, Zenon DEF ApplyConflicts, PassFails
  <2>4. CASE StepFails(w)
    <3>1. task' = [task EXCEPT ![w] = Idle] /\ UNCHANGED <<store, running>>
      BY <2>4 DEF StepFails, PassFails
    <3>2. CASE UNCHANGED <<watermark, applied>>
      BY <2>1, <3>1, <3>2, AfterSound, PassInv, Zenon
    <3>3. CASE task[w].pc = "apply" /\ ~Conflicts(Partition(w), task[w].batch) /\ Materialized(w)
      <4>1. Idle.pc = "idle"
        BY DEF Idle, Pass
      <4> QED BY <2>1, <3>1, <3>3, <4>1, AfterSound, MaterializedInv, Zenon
    <3> QED BY <2>4, <3>2, <3>3 DEF StepFails
  <2> QED BY <1>3, <2>2, <2>3, <2>4, ListInv, LookupInv, FetchInv DEF Step
<1> QED BY <1>1, <1>2, <1>3 DEF Next

\* The invariant holds throughout.
THEOREM Invariance == Spec => []IInv
  BY InitInv, StepInv, PTL DEF Spec

-----------------------------------------------------------------------------
\* Nothing is projected beyond an offset that the log has lost, by any number
\* of workers: MaterializeEventStorePartition fails closed on a gap, also when
\* the watermark it started from is out of date.
THEOREM NothingPastGapAlways == Spec => []NothingPastGap
<1>1. ASSUME IInv PROVE NothingPastGap
  <2> SUFFICES ASSUME NEW p \in Partitions, NEW o \in Offsets, NEW q \in Offsets, o < q, o \notin Stored(p)
               PROVE  applied[p][q] = 0
    BY DEF NothingPastGap
  <2>1. o \in 1 .. q
    BY DEF Offsets
  <2>2. ~ (applied[p][q] > 0)
    BY <1>1, <2>1 DEF IInv, WholeBefore, Whole
  <2>3. applied[p][q] \in Nat
    BY <1>1 DEF IInv, Typed
  <2> QED BY <2>2, <2>3
<1> QED BY <1>1, Invariance, PTL

\* A worker that is alone projects exactly the log up to the watermark, each
\* event once, whatever fails: the projections and the watermark commit in one
\* transaction, and a commit in doubt is not repeated.
THEOREM ExactPrefixAlways == Spec => []ExactPrefix
<1>1. IInv => ExactPrefix
  BY DEF IInv
<1> QED BY <1>1, Invariance, PTL

\* With any number of workers on a partition, a row that an event inserts, and
\* the outbox job it enqueues, are there once: the primary key undoes the
\* transaction of a worker that works from an older watermark.
THEOREM InsertedOnceAlways == Spec => []InsertedOnce
<1>1. IInv => InsertedOnce
  BY DEF IInv
<1> QED BY <1>1, Invariance, PTL

=============================================================================
