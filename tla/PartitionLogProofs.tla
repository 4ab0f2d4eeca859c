------------------------- MODULE PartitionLogProofs -------------------------
(***************************************************************************)
(* Proofs about the partition of a JetStream command log: the lease of the *)
(* partition, the records of its command subject and the offsets of its    *)
(* commit subject.  The three components share no variable; each has its   *)
(* own invariant.                                                          *)
(***************************************************************************)
EXTENDS PartitionLease, JetStreamCommandLog, JetStreamCommitLog, TLAPS

-----------------------------------------------------------------------------
(***************************************************************************)
(* Proofs about PartitionLease, for any number of owners, any TTL and any  *)
(* clock error.                                                            *)
(*                                                                         *)
(* The inductive invariant says what the row holds while a claim is fresh: *)
(* it is the holder's row, and it expires no earlier than the claim's      *)
(* clock reading can have said.  The bounds on the clock readings of the   *)
(* calls in progress make it survive the upserts of the holder, which may  *)
(* have read an earlier time than the claim before, and of others, whose   *)
(* clocks must be past that expiry.                                        *)
(***************************************************************************)

\* A clock reading is off by Skew at most, and calls follow one another.
CallsSane ==
    \A w \in Owners : call[w].pc # "idle" =>
        /\ call[w].at - Skew <= call[w].clock
        /\ call[w].clock <= call[w].at + Skew
        /\ held[w].at <= call[w].at

\* A fresh claim is backed by the row.
FreshBacked ==
    \A w \in Owners : Fresh(w) =>
        /\ row.owner = w
        /\ row.expires >= held[w].at - Skew + TTL

\* A caller that reads back a row of its own reads the one it wrote.
ReadsOwnRow ==
    \A w \in Owners : call[w].pc = "select" /\ row.owner = w => row.expires = call[w].clock + TTL

LeaseIInv == LeaseTypeOK /\ CallsSane /\ FreshBacked /\ ReadsOwnRow

-----------------------------------------------------------------------------
\* The invariant holds initially: no process holds a claim.
LEMMA LeaseInitInv == LeaseInit => LeaseIInv
  BY LeaseConstants DEF LeaseInit, LeaseIInv, LeaseTypeOK, CallsSane, FreshBacked, ReadsOwnRow, Fresh, Rows, LeaseCalls, Holds, Returned, NotOwned

\* What the types say of the fields of the row, of a call and of a claim.
LEMMA LeaseFields ==
  ASSUME LeaseTypeOK, NEW w \in Owners
  PROVE  /\ call[w] \in LeaseCalls /\ call[w].pc \in {"idle", "upsert", "select"}
         /\ call[w].clock \in Int /\ call[w].at \in Nat /\ call[w].at <= now
         /\ held[w] \in Holds /\ held[w].owned \in BOOLEAN /\ held[w].at \in Nat /\ held[w].at <= now
         /\ row.owner \in Owners \cup {NoOwner} /\ row.expires \in Int /\ now \in Nat
  BY LeaseConstants DEF LeaseTypeOK, LeaseCalls, Holds, Rows

\* The expiry that a call computes from its clock.
LEMMA ExpiryType == ASSUME LeaseTypeOK, NEW w \in Owners PROVE ExpiresAt(w) = call[w].clock + TTL /\ ExpiresAt(w) \in Int
  BY LeaseFields, LeaseConstants DEF ExpiresAt

\* The row after an upsert of w that is let through: fresh claims of others
\* are gone by then, and w's own claim is still backed.
LEMMA WriteBacks ==
  ASSUME LeaseIInv, NEW w \in Owners, call[w].pc = "upsert", MayWrite(w),
         row' = [owner |-> w, expires |-> ExpiresAt(w)], now' = now,
         NEW v \in Owners, Fresh(v)
  PROVE  v = w /\ row'.owner = v /\ row'.expires >= held[v].at - Skew + TTL
<1> USE DEF LeaseIInv
<1>1. row.owner = v /\ row.expires >= held[v].at - Skew + TTL
  BY DEF FreshBacked
<1>2. call[w].at - Skew <= call[w].clock /\ call[w].clock <= call[w].at + Skew /\ held[w].at <= call[w].at
  BY DEF CallsSane
<1>3. v = w
  <2> SUFFICES ASSUME v # w PROVE FALSE
    OBVIOUS
  <2>1. row.expires <= call[w].clock
    BY <1>1, LeaseConstants DEF MayWrite
  <2>2. now < held[v].at + TTL - 2 * Skew
    BY DEF Fresh
  <2> QED BY <1>1, <1>2, <2>1, <2>2, LeaseFields, LeaseConstants
<1>4. row'.owner = w /\ row'.expires = call[w].clock + TTL
  BY ExpiryType
<1> QED BY <1>2, <1>3, <1>4, LeaseFields, LeaseConstants

-----------------------------------------------------------------------------
\* Every step of a claim, and the passing of time, keep the invariant.
LEMMA LeaseStepInv == ASSUME LeaseIInv, [LeaseNext]_leaseVars PROVE LeaseIInv'
<1> USE LeaseConstants DEF LeaseIInv
<1>1. CASE UNCHANGED leaseVars
  BY <1>1 DEF leaseVars, LeaseTypeOK, CallsSane, FreshBacked, ReadsOwnRow, Fresh
<1>2. CASE Tick
  <2>1. LeaseTypeOK'
    BY <1>2, LeaseFields DEF Tick, LeaseTypeOK
  <2>2. CallsSane'
    BY <1>2 DEF Tick, CallsSane
  <2>3. FreshBacked'
    <3> SUFFICES ASSUME NEW w \in Owners, Fresh(w)' PROVE row.owner = w /\ row.expires >= held[w].at - Skew + TTL
      BY <1>2 DEF FreshBacked, Tick
    <3>1. Fresh(w)
      BY <1>2, LeaseFields DEF Fresh, Tick
    <3> QED BY <3>1 DEF FreshBacked
  <2>4. ReadsOwnRow'
    BY <1>2 DEF Tick, ReadsOwnRow
  <2> QED BY <2>1, <2>2, <2>3, <2>4
<1>3. ASSUME NEW w \in Owners, ReadClock(w) PROVE LeaseIInv'
  <2> PICK clock \in (now - Skew)..(now + Skew) :
        call' = [call EXCEPT ![w] = [pc |-> "upsert", clock |-> clock, at |-> now]]
    BY <1>3, Zenon DEF ReadClock
  <2>1. clock \in Int /\ now - Skew <= clock /\ clock <= now + Skew
    BY LeaseFields
  <2>2. UNCHANGED <<now, row, held>>
    BY <1>3 DEF ReadClock
  <2>3. [pc |-> "upsert", clock |-> clock, at |-> now] \in LeaseCalls
    BY <2>1, LeaseFields DEF LeaseCalls
  <2>4. LeaseTypeOK'
    BY <2>2, <2>3, LeaseFields DEF LeaseTypeOK
  <2>5. CallsSane'
    BY <2>1, <2>2, LeaseFields DEF CallsSane, LeaseTypeOK
  <2>6. FreshBacked'
    BY <2>2 DEF FreshBacked, Fresh
  <2>7. ReadsOwnRow'
    BY <2>2 DEF ReadsOwnRow, LeaseTypeOK
  <2> QED BY <2>4, <2>5, <2>6, <2>7
<1>4. ASSUME NEW w \in Owners, Upsert(w) PROVE LeaseIInv'
  <2>1. call[w].pc = "upsert" /\ now' = now /\ held' = held /\ call' = [call EXCEPT ![w].pc = "select"]
    BY <1>4 DEF Upsert
  <2>2. row' = row \/ (MayWrite(w) /\ row' = [owner |-> w, expires |-> ExpiresAt(w)])
    BY <1>4 DEF Upsert
  <2>3. row' \in Rows
    BY <2>2, ExpiryType DEF Rows, LeaseTypeOK
  <2>4. call' \in [Owners -> LeaseCalls]
    BY <2>1 DEF LeaseTypeOK, LeaseCalls
  <2>5. \A v \in Owners : call'[v].clock = call[v].clock /\ call'[v].at = call[v].at
                           /\ (call'[v].pc # "idle" => call[v].pc # "idle")
    BY <2>1 DEF LeaseTypeOK, LeaseCalls
  <2>6. LeaseTypeOK'
    BY <2>1, <2>3, <2>4, <2>5 DEF LeaseTypeOK
  <2>7. CallsSane'
    BY <2>1, <2>5 DEF CallsSane
  <2>8. FreshBacked'
    <3> SUFFICES ASSUME NEW v \in Owners, Fresh(v) PROVE row'.owner = v /\ row'.expires >= held[v].at - Skew + TTL
      BY <2>1 DEF FreshBacked, Fresh
    <3>1. CASE row' = row
      BY <3>1 DEF FreshBacked
    <3>2. CASE MayWrite(w) /\ row' = [owner |-> w, expires |-> ExpiresAt(w)]
      BY <2>1, <3>2, WriteBacks
    <3> QED BY <2>2, <3>1, <3>2
  <2>9. ReadsOwnRow'
    <3> SUFFICES ASSUME NEW v \in Owners, call'[v].pc = "select", row'.owner = v
                 PROVE  row'.expires = call[v].clock + TTL
      BY <2>5 DEF ReadsOwnRow
    <3>1. CASE MayWrite(w) /\ row' = [owner |-> w, expires |-> ExpiresAt(w)]
      BY <3>1, ExpiryType
    <3>2. CASE row' = row /\ ~MayWrite(w)
      <4>1. v # w /\ call'[v] = call[v]
        BY <2>1, <3>2 DEF MayWrite, LeaseTypeOK
      <4> QED BY <3>2, <4>1 DEF ReadsOwnRow
    <3> QED BY <1>4, <3>1, <3>2 DEF Upsert
  <2> QED BY <2>6, <2>7, <2>8, <2>9
<1>5. ASSUME NEW w \in Owners, SelectRow(w) PROVE LeaseIInv'
  <2> DEFINE h == IF Owned(w) THEN [owned |-> TRUE, at |-> call[w].at] ELSE NotOwned
  <2>1. call[w].pc = "select" /\ now' = now /\ row' = row
    BY <1>5 DEF SelectRow
  <2>2. held' = [held EXCEPT ![w] = h] /\ call' = [call EXCEPT ![w] = Returned]
    BY <1>5 DEF SelectRow
  <2>3. h \in Holds /\ h.at <= now
    BY LeaseFields DEF Holds, NotOwned
  <2>4. Returned \in LeaseCalls /\ Returned.at = 0 /\ Returned.pc = "idle"
    BY DEF LeaseCalls, Returned
  <2>5. h.owned => Owned(w) /\ h.at = call[w].at
    BY DEF NotOwned
  <2> HIDE DEF h
  <2>6. held'[w] = h /\ call'[w] = Returned /\ \A v \in Owners \ {w} : held'[v] = held[v] /\ call'[v] = call[v]
    BY <2>2 DEF LeaseTypeOK
  <2>7. LeaseTypeOK'
    <3>1. held' \in [Owners -> Holds] /\ call' \in [Owners -> LeaseCalls]
      BY <2>2, <2>3, <2>4 DEF LeaseTypeOK
    <3>2. \A v \in Owners : call'[v].at <= now /\ held'[v].at <= now
      BY <2>3, <2>4, <2>6, LeaseFields
    <3> QED BY <2>1, <3>1, <3>2 DEF LeaseTypeOK
  <2>8. CallsSane'
    BY <2>4, <2>6 DEF CallsSane
  <2>9. FreshBacked'
    <3> SUFFICES ASSUME NEW v \in Owners, Fresh(v)' PROVE row.owner = v /\ row.expires >= held'[v].at - Skew + TTL
      BY <2>1 DEF FreshBacked
    <3>1. CASE v # w
      BY <2>1, <2>6, <3>1 DEF FreshBacked, Fresh
    <3>2. CASE v = w
      <4>1. Owned(w) /\ held'[w].at = call[w].at
        BY <2>5, <2>6, <3>2 DEF Fresh
      <4>2. row.owner = w /\ row.expires >= call[w].clock + TTL
        BY <4>1, ExpiryType DEF Owned
      <4>3. call[w].at - Skew <= call[w].clock
        BY <2>1 DEF CallsSane
      <4> QED BY <3>2, <4>1, <4>2, <4>3, LeaseFields
    <3> QED BY <3>1, <3>2
  <2>10. ReadsOwnRow'
    BY <2>1, <2>4, <2>6 DEF ReadsOwnRow
  <2> QED BY <2>7, <2>8, <2>9, <2>10
<1>6. ASSUME NEW w \in Owners, ClaimFails(w) PROVE LeaseIInv'
  <2>1. call[w].pc # "idle" /\ now' = now
    BY <1>6 DEF ClaimFails
  <2>2. held' = [held EXCEPT ![w] = NotOwned] /\ call' = [call EXCEPT ![w] = Returned]
    BY <1>6 DEF ClaimFails
  <2>3. row' = row \/ (call[w].pc = "upsert" /\ MayWrite(w) /\ row' = [owner |-> w, expires |-> ExpiresAt(w)])
    BY <1>6 DEF ClaimFails
  <2>4. row' \in Rows
    BY <2>3, ExpiryType DEF Rows, LeaseTypeOK
  <2>5. NotOwned \in Holds /\ ~NotOwned.owned /\ NotOwned.at = 0 /\ Returned \in LeaseCalls /\ Returned.at = 0 /\ Returned.pc = "idle"
    BY DEF Holds, NotOwned, LeaseCalls, Returned
  <2>6. held'[w] = NotOwned /\ call'[w] = Returned /\ \A v \in Owners \ {w} : held'[v] = held[v] /\ call'[v] = call[v]
    BY <2>2 DEF LeaseTypeOK
  <2>7. LeaseTypeOK'
    <3>1. held' \in [Owners -> Holds] /\ call' \in [Owners -> LeaseCalls]
      BY <2>2, <2>5 DEF LeaseTypeOK
    <3>2. \A v \in Owners : call'[v].at <= now /\ held'[v].at <= now
      BY <2>5, <2>6, LeaseFields
    <3> QED BY <2>1, <2>4, <3>1, <3>2 DEF LeaseTypeOK
  <2>8. CallsSane'
    BY <2>5, <2>6 DEF CallsSane
  <2>9. FreshBacked'
    <3> SUFFICES ASSUME NEW v \in Owners, Fresh(v)' PROVE row'.owner = v /\ row'.expires >= held'[v].at - Skew + TTL
      BY DEF FreshBacked
    <3>1. v # w /\ held'[v] = held[v]
      BY <2>5, <2>6 DEF Fresh
    <3>2. Fresh(v)
      BY <2>1, <3>1 DEF Fresh
    <3>3. CASE row' = row
      BY <3>1, <3>2, <3>3 DEF FreshBacked
    <3>4. CASE call[w].pc = "upsert" /\ MayWrite(w) /\ row' = [owner |-> w, expires |-> ExpiresAt(w)]
      BY <2>1, <3>1, <3>2, <3>4, WriteBacks
    <3> QED BY <2>3, <3>3, <3>4
  <2>10. ReadsOwnRow'
    <3> SUFFICES ASSUME NEW v \in Owners, call'[v].pc = "select", row'.owner = v
                 PROVE  row'.expires = call'[v].clock + TTL
      BY DEF ReadsOwnRow
    <3>1. v # w /\ call'[v] = call[v]
      BY <2>5, <2>6
    <3>2. row' = row
      BY <2>3, <3>1
    <3> QED BY <3>1, <3>2 DEF ReadsOwnRow
  <2> QED BY <2>7, <2>8, <2>9, <2>10
<1> QED BY <1>1, <1>2, <1>3, <1>4, <1>5, <1>6 DEF LeaseNext, Claim

-----------------------------------------------------------------------------
\* The invariant holds throughout every behaviour of the claimers.
THEOREM LeaseInvariance == LeaseSpec => []LeaseIInv
<1>1. LeaseIInv /\ [LeaseNext]_leaseVars => LeaseIInv'
  BY LeaseStepInv
<1> QED BY <1>1, LeaseInitInv, PTL DEF LeaseSpec

\* ClaimCommandPartition never lets two workers hold a fresh claim of one
\* partition, for any number of workers and any clock error.
THEOREM ExclusiveAlways == LeaseSpec => []ExclusiveWhileFresh
<1>1. LeaseIInv => ExclusiveWhileFresh
  BY DEF LeaseIInv, FreshBacked, ExclusiveWhileFresh
<1> QED BY <1>1, LeaseInvariance, PTL

\* A claim that returns while the one before it is still fresh is granted: a
\* worker that refreshes in time keeps its partition.
THEOREM RefreshAlways == LeaseSpec => RefreshSucceeds
<1>1. LeaseIInv /\ [LeaseNext]_leaseVars => [\A w \in Owners : SelectRow(w) /\ Fresh(w) => held'[w].owned]_leaseVars
  <2> SUFFICES ASSUME LeaseIInv, NEW w \in Owners, SelectRow(w), Fresh(w) PROVE held'[w].owned
    OBVIOUS
  <2>1. row.owner = w /\ call[w].pc = "select"
    BY DEF LeaseIInv, FreshBacked, SelectRow
  <2>2. row.expires = ExpiresAt(w) /\ ExpiresAt(w) \in Int
    BY <2>1, ExpiryType DEF LeaseIInv, ReadsOwnRow
  <2>3. Owned(w)
    BY <2>1, <2>2 DEF Owned
  <2> QED BY <2>3 DEF SelectRow, LeaseIInv, LeaseTypeOK
<1> QED BY <1>1, LeaseInvariance, PTL DEF LeaseSpec, RefreshSucceeds

\* The calls and the row are well typed in every reachable state.
THEOREM LeaseTypeCorrect == LeaseSpec => []LeaseTypeOK
<1>1. LeaseIInv => LeaseTypeOK
  BY DEF LeaseIInv
<1> QED BY <1>1, LeaseInvariance, PTL
-----------------------------------------------------------------------------
(***************************************************************************)
(* Proofs about JetStreamCommandLog, for any number of calls, command ids, *)
(* contents and attempts.  A call's tail was once the tail of the command  *)
(* subject.  Sequences increase, so a record that the server accepts was   *)
(* made from the record that is last now and gets the offset after it;     *)
(* and as every stored id is in the duplicate window or has left it, an    *)
(* id that the window does not hold is new or has expired.                 *)
(***************************************************************************)

\* Stream sequences are positive and increase along the command subject.
CommandSeqsIncrease ==
    /\ \A i \in 1..Len(commands) : 0 < commands[i].seq /\ commands[i].seq <= seqno
    /\ \A i, j \in 1..Len(commands) : i < j => commands[i].seq < commands[j].seq

\* t was once the tail of subject q.
Real(q, t) == \E n \in 0..Len(q) : t = TailAt(q, n)

AppendTailsReal == \A p \in Producers : Real(commands, append[p].tail)

\* A call that publishes has an id and a content.
CallsFilled ==
    \A p \in Producers :
        /\ append[p].pc # "idle" => append[p].body \in Bodies
        /\ append[p].pc \in {"publish", "find"} => append[p].id \in Ids

\* The ids of the log are in the duplicate window or have left it.
IdsRemembered == \A i \in 1..Len(commands) : commands[i].id \in window \cup expired

AppendIInv == /\ AppendTypeOK /\ CommandSeqsIncrease /\ AppendTailsReal /\ CallsFilled /\ IdsRemembered
        /\ OffsetsDense /\ IdsUnique /\ AckedInLog

-----------------------------------------------------------------------------
\* An idle call has its type.
LEMMA NoAppendType == NoAppend \in AppendCalls
BY JetStreamConstants DEF NoAppend, NoTail, Tails, AppendCalls

\* The empty log and idle calls satisfy the invariant.
LEMMA AppendInitInv == AppendInit => AppendIInv
<1> SUFFICES ASSUME AppendInit PROVE AppendIInv
  OBVIOUS
<1>1. AppendTypeOK
  BY NoAppendType DEF AppendInit, AppendTypeOK
<1>2. Len(commands) = 0 /\ TailAt(commands, 0) = NoTail
  BY DEF AppendInit, TailAt
<1>3. AppendTailsReal
  BY <1>2 DEF AppendInit, AppendTailsReal, Real, NoAppend
<1>4. CommandSeqsIncrease /\ IdsRemembered /\ OffsetsDense /\ IdsUnique
  BY <1>2 DEF CommandSeqsIncrease, IdsRemembered, OffsetsDense, IdsUnique
<1>5. CallsFilled /\ AckedInLog
  BY DEF AppendInit, CallsFilled, AckedInLog, NoAppend
<1> QED
  BY <1>1, <1>3, <1>4, <1>5 DEF AppendIInv

\* CommandRecords of the log have their type.
LEMMA CommandRecords ==
    ASSUME AppendTypeOK
    PROVE /\ Len(commands) \in Nat
          /\ \A i \in 1..Len(commands) :
                /\ commands[i] \in StoredCommands
                /\ commands[i].off \in Nat /\ commands[i].seq \in Nat /\ commands[i].id \in Ids
<1>1. \A x \in StoredCommands : x.off \in Nat /\ x.seq \in Nat /\ x.id \in Ids
  BY DEF StoredCommands
<1>2. Len(commands) \in Nat /\ \A i \in 1..Len(commands) : commands[i] \in StoredCommands
  BY DEF AppendTypeOK
<1> QED
  BY <1>1, <1>2

\* A record stored is the last one; those before it stay.
LEMMA CommandAppended ==
    ASSUME AppendTypeOK, NEW e \in StoredCommands, commands' = Append(commands, e)
    PROVE /\ Len(commands') = Len(commands) + 1
          /\ commands'[Len(commands) + 1] = e
          /\ \A i \in 1..Len(commands) : commands'[i] = commands[i]
          /\ \A i \in 1..Len(commands') : i \in 1..Len(commands) \/ i = Len(commands) + 1
<1>1. commands \in Seq(StoredCommands) /\ Len(commands) \in Nat
  BY DEF AppendTypeOK
<1>2. Len(commands') = Len(commands) + 1
  BY <1>1
<1> QED
  BY <1>1, <1>2

\* TailAt, what commandTail reads, has its type.
LEMMA CommandTailType ==
    ASSUME AppendTypeOK, NEW n \in 0..Len(commands) PROVE TailAt(commands, n) \in Tails
<1>1. n # 0 => n \in 1..Len(commands)
  BY CommandRecords
<1> QED
  BY <1>1, CommandRecords DEF TailAt, Tails, NoTail

\* Fields of a call, as AppendTypeOK types them.
LEMMA AppendCallType ==
    ASSUME AppendTypeOK, NEW p \in Producers
    PROVE /\ append[p] \in AppendCalls
          /\ append[p].tail \in Tails /\ append[p].tail.off \in Nat
          /\ append[p].tries \in 0..(Retries - 1)
<1>1. append[p] \in AppendCalls
  BY DEF AppendTypeOK
<1>2. append[p].tail \in Tails /\ append[p].tries \in 0..(Retries - 1)
  BY <1>1 DEF AppendCalls
<1> QED
  BY <1>1, <1>2 DEF Tails

\* A call's record is accepted only if its tail is the last record now, so that
\* its offset is the next one.
LEMMA AcceptedIsNext ==
    ASSUME AppendIInv, NEW p \in Producers, Accepts(append[p])
    PROVE append[p].tail.off = Len(commands)
<1>1. PICK n \in 0..Len(commands) : append[p].tail = TailAt(commands, n)
  BY DEF AppendIInv, AppendTailsReal, Real
<1>2. TailAt(commands, n).seq = TailAt(commands, Len(commands)).seq
  BY <1>1 DEF Accepts
<1>3. AppendTypeOK /\ CommandSeqsIncrease /\ OffsetsDense
  BY DEF AppendIInv
<1>4. n = Len(commands)
  BY <1>2, <1>3, CommandRecords DEF TailAt, NoTail, CommandSeqsIncrease
<1> QED
  BY <1>1, <1>3, <1>4, CommandRecords DEF TailAt, NoTail, OffsetsDense

\* The record a call stores, and what storing it does to the log: the sequences
\* increase, the offset is the next one, its id is new or has expired.
LEMMA CommandStoreStep ==
    ASSUME AppendIInv, NEW p \in Producers, append[p].pc = "publish",
           Accepts(append[p]), Store(append[p]), UNCHANGED expired
    PROVE /\ commands' \in Seq(StoredCommands) /\ seqno' \in Nat /\ window' \in SUBSET Ids
          /\ CommandSeqsIncrease' /\ OffsetsDense' /\ IdsRemembered' /\ IdsUnique'
          /\ Len(commands') = Len(commands) + 1
          /\ \A i \in 1..Len(commands) : commands'[i] = commands[i]
          /\ commands'[Len(commands) + 1].id = append[p].id
          /\ commands'[Len(commands) + 1].body = append[p].body
<1> DEFINE e == [off |-> append[p].tail.off + 1, id |-> append[p].id, body |-> append[p].body,
                 seq |-> seqno + 1]
<1>1. AppendTypeOK /\ CommandSeqsIncrease /\ OffsetsDense /\ IdsRemembered /\ IdsUnique /\ seqno \in Nat
  BY DEF AppendIInv, AppendTypeOK
<1>2. append[p].id \in Ids /\ append[p].body \in Bodies
  BY DEF AppendIInv, CallsFilled
<1>3. e \in StoredCommands
  BY <1>1, <1>2, AppendCallType DEF StoredCommands
<1>4. commands' = Append(commands, e) /\ seqno' = seqno + 1 /\ window' = window \cup {append[p].id}
  BY DEF Store
<1>5. e.off = Len(commands) + 1 /\ e.seq = seqno + 1 /\ e.id = append[p].id /\ e.body = append[p].body
  BY AcceptedIsNext
<1> HIDE DEF e
<1>6. /\ Len(commands') = Len(commands) + 1
      /\ commands'[Len(commands) + 1] = e
      /\ \A i \in 1..Len(commands) : commands'[i] = commands[i]
      /\ \A i \in 1..Len(commands') : i \in 1..Len(commands) \/ i = Len(commands) + 1
  BY <1>1, <1>3, <1>4, CommandAppended
<1>7. commands' \in Seq(StoredCommands) /\ seqno' \in Nat /\ window' \in SUBSET Ids
  BY <1>1, <1>2, <1>3, <1>4 DEF AppendTypeOK
<1>8. \A i \in 1..Len(commands') : 0 < commands'[i].seq /\ commands'[i].seq <= seqno'
  BY <1>1, <1>4, <1>5, <1>6, CommandRecords DEF CommandSeqsIncrease
<1>9. \A i, j \in 1..Len(commands') : i < j => commands'[i].seq < commands'[j].seq
  BY <1>1, <1>4, <1>5, <1>6, CommandRecords DEF CommandSeqsIncrease
<1>10. OffsetsDense'
  BY <1>1, <1>5, <1>6 DEF OffsetsDense
<1>11. IdsRemembered'
  BY <1>1, <1>4, <1>5, <1>6 DEF IdsRemembered
<1>12. IdsUnique'
  <2>1. \A i \in 1..Len(commands) : commands[i].id = e.id => e.id \in expired
    BY <1>1, <1>5 DEF IdsRemembered, Accepts
  <2> QED
    BY <1>1, <1>6, <2>1 DEF IdsUnique
<1> QED
  BY <1>5, <1>6, <1>7, <1>8, <1>9, <1>10, <1>11, <1>12 DEF CommandSeqsIncrease

\* What a step does to the log.
CommandsGrow ==
    /\ Len(commands') \in Nat /\ Len(commands) <= Len(commands')
    /\ \A i \in 1..Len(commands) : commands'[i] = commands[i]

\* A tail that was real stays so.
LEMMA CommandRealKept ==
    ASSUME AppendTypeOK, CommandsGrow, NEW t, Real(commands, t) PROVE Real(commands', t)
<1>1. PICK n \in 0..Len(commands) : t = TailAt(commands, n)
  BY DEF Real
<1>2. n \in 0..Len(commands') /\ (n # 0 => commands'[n] = commands[n])
  BY CommandRecords DEF CommandsGrow
<1>3. t = TailAt(commands', n)
  BY <1>1, <1>2 DEF TailAt
<1> QED
  BY <1>2, <1>3 DEF Real

\* An acknowledged command stays where it is.
LEMMA AckedKept ==
    ASSUME AppendTypeOK, CommandsGrow, AckedInLog,
           NEW r, r.off \in 1..Len(commands'), commands'[r.off].id = r.id, commands'[r.off].body = r.body,
           acked' \subseteq acked \cup {r}
    PROVE AckedInLog'
<1> SUFFICES ASSUME NEW a \in acked'
             PROVE a.off \in 1..Len(commands') /\ commands'[a.off].id = a.id /\ commands'[a.off].body = a.body
  BY DEF AckedInLog
<1>1. CASE a = r
  BY <1>1
<1>2. CASE a \in acked
  <2>1. a.off \in 1..Len(commands) /\ commands[a.off].id = a.id /\ commands[a.off].body = a.body
    BY <1>2 DEF AckedInLog
  <2> QED
    BY <2>1, CommandRecords DEF CommandsGrow
<1> QED
  BY <1>1, <1>2

\* A step that leaves the log and the acknowledgements alone, and gives call p
\* the record x.
LEMMA AppendCallStep ==
    ASSUME AppendIInv, NEW p \in Producers, NEW x \in AppendCalls, append' = [append EXCEPT ![p] = x],
           commands' \in Seq(StoredCommands), seqno' \in Nat, window' \in SUBSET Ids, expired' \in SUBSET Ids,
           acked' \in SUBSET [id : Ids, body : Bodies, off : Nat],
           CommandsGrow, Real(commands', x.tail),
           x.pc # "idle" => x.body \in Bodies,
           x.pc \in {"publish", "find"} => x.id \in Ids
    PROVE AppendTypeOK' /\ AppendTailsReal' /\ CallsFilled'
<1>1. AppendTypeOK /\ append \in [Producers -> AppendCalls] /\ AppendTailsReal /\ CallsFilled
  BY DEF AppendIInv, AppendTypeOK
<1>2. AppendTypeOK'
  BY <1>1 DEF AppendTypeOK
<1>3. \A q \in Producers : Real(commands', append[q].tail)
  BY <1>1, CommandRealKept DEF AppendTailsReal
<1>4. AppendTailsReal'
  BY <1>1, <1>3 DEF AppendTailsReal
<1>5. CallsFilled'
  BY <1>1 DEF CallsFilled
<1> QED
  BY <1>2, <1>4, <1>5

\* The log parts of the invariant when the log does not change.
LEMMA CommandLogKept ==
    ASSUME AppendIInv, UNCHANGED commands, seqno' \in Nat, seqno <= seqno', window \cup expired \subseteq window' \cup expired',
           expired \subseteq expired'
    PROVE CommandsGrow /\ CommandSeqsIncrease' /\ OffsetsDense' /\ IdsRemembered' /\ IdsUnique'
<1>1. AppendTypeOK /\ CommandSeqsIncrease /\ OffsetsDense /\ IdsRemembered /\ IdsUnique /\ seqno \in Nat
  BY DEF AppendIInv, AppendTypeOK
<1>2. CommandsGrow
  BY <1>1, CommandRecords DEF CommandsGrow
<1>3. CommandSeqsIncrease'
  BY <1>1, CommandRecords DEF CommandSeqsIncrease
<1> QED
  BY <1>1, <1>2, <1>3 DEF OffsetsDense, IdsRemembered, IdsUnique

\* A step that changes only call p keeps the invariant.
LEMMA AppendQuietStep ==
    ASSUME AppendIInv, NEW p \in Producers, NEW x \in AppendCalls, append' = [append EXCEPT ![p] = x],
           UNCHANGED <<commands, seqno, window, acked, expired>>, Real(commands, x.tail),
           x.pc # "idle" => x.body \in Bodies,
           x.pc \in {"publish", "find"} => x.id \in Ids
    PROVE AppendIInv'
<1>1. AppendTypeOK /\ AckedInLog /\ seqno \in Nat
  BY DEF AppendIInv, AppendTypeOK
<1>2. CommandsGrow /\ CommandSeqsIncrease' /\ OffsetsDense' /\ IdsRemembered' /\ IdsUnique'
  BY <1>1, CommandLogKept
<1>3. AppendTypeOK' /\ AppendTailsReal' /\ CallsFilled'
  BY <1>1, <1>2, AppendCallStep, Zenon DEF AppendTypeOK
<1>4. AckedInLog'
  BY <1>1 DEF AckedInLog
<1> QED
  BY <1>2, <1>3, <1>4 DEF AppendIInv

\* A call that returns is idle again.
LEMMA AppendIdle ==
    /\ NoAppend \in AppendCalls /\ NoAppend.pc = "idle" /\ NoAppend.tail = NoTail
    /\ Real(commands, NoTail) \/ Len(commands) \notin Nat
<1>1. TailAt(commands, 0) = NoTail
  BY DEF TailAt
<1> QED
  BY <1>1, NoAppendType DEF NoAppend, Real

\* The invariant is inductive.
LEMMA AppendStepInv == AppendIInv /\ [AppendNext]_appendVars => AppendIInv'
<1> SUFFICES ASSUME AppendIInv, [AppendNext]_appendVars PROVE AppendIInv'
  OBVIOUS
<1>0. AppendTypeOK /\ Len(commands) \in Nat /\ Real(commands, NoTail)
  BY CommandRecords, AppendIdle DEF AppendIInv
<1>1. ASSUME NEW p \in Producers, AppendReturns(p), UNCHANGED <<commands, seqno, window, acked, expired>>
      PROVE AppendIInv'
  <2>1. NoAppend \in AppendCalls /\ NoAppend.pc = "idle" /\ Real(commands, NoAppend.tail)
    BY <1>0, AppendIdle
  <2>2. append' = [append EXCEPT ![p] = NoAppend]
    BY <1>1 DEF AppendReturns
  <2> QED
    BY <1>1, <2>1, <2>2, AppendQuietStep, Zenon
<1>2. ASSUME NEW p \in Producers, NEW c \in Cids \cup {None}, NEW b \in Bodies, AppendCommand(p, c, b)
      PROVE AppendIInv'
  <2> DEFINE x == [NoAppend EXCEPT !.pc = "tail", !.id = c, !.body = b]
  <2>1. x \in AppendCalls /\ x.pc = "tail" /\ x.body = b /\ x.tail = NoTail
    BY NoAppendType, Zenon DEF NoAppend, AppendCalls, Ids
  <2>2. append' = [append EXCEPT ![p] = x] /\ UNCHANGED <<commands, seqno, window, acked, expired>>
    BY <1>2 DEF AppendCommand
  <2> HIDE DEF x
  <2> QED
    BY <1>0, <2>1, <2>2, AppendQuietStep, Zenon
<1>3. ASSUME NEW p \in Producers, CommandTail(p) PROVE AppendIInv'
  <2>1. PICK n \in 0..Len(commands) :
          append' = [append EXCEPT
            ![p].pc = "publish",
            ![p].tail = TailAt(commands, n),
            ![p].id = IF @ = None THEN TailAt(commands, n).off + 1 ELSE @]
    BY <1>3, Zenon DEF CommandTail
  <2> DEFINE t == TailAt(commands, n)
             i == IF append[p].id = None THEN t.off + 1 ELSE append[p].id
             x == [append[p] EXCEPT !.pc = "publish", !.tail = t, !.id = i]
  <2>2. append' = [append EXCEPT ![p] = x]
    BY <2>1, Zenon
  <2>3. t \in Tails /\ Real(commands, t)
    BY <1>0, CommandTailType DEF Real
  <2>4. append[p] \in AppendCalls /\ append[p].body \in Bodies
    BY <1>0, <1>3, AppendCallType DEF AppendIInv, CallsFilled, CommandTail
  <2> HIDE DEF t
  <2>5. i \in Ids
    BY <2>3, <2>4 DEF Ids, AppendCalls, Tails
  <2> HIDE DEF i
  <2>6. x \in AppendCalls /\ x.pc = "publish" /\ x.id = i /\ x.body = append[p].body /\ x.tail = t
    BY <2>3, <2>4, <2>5, Zenon DEF AppendCalls
  <2>7. UNCHANGED <<commands, seqno, window, acked, expired>>
    BY <1>3 DEF CommandTail
  <2> HIDE DEF x
  <2> QED
    BY <2>2, <2>3, <2>4, <2>5, <2>6, <2>7, AppendQuietStep, Zenon
<1>4. ASSUME NEW p \in Producers, append[p].pc = "publish", Accepts(append[p]), Store(append[p]),
             AppendReturns(p), UNCHANGED expired,
             acked' \subseteq acked \cup {Receipt(append[p], append[p].tail.off + 1)}
      PROVE AppendIInv'
  <2>1. /\ commands' \in Seq(StoredCommands) /\ seqno' \in Nat /\ window' \in SUBSET Ids
        /\ CommandSeqsIncrease' /\ OffsetsDense' /\ IdsRemembered' /\ IdsUnique'
        /\ Len(commands') = Len(commands) + 1
        /\ \A i \in 1..Len(commands) : commands'[i] = commands[i]
        /\ commands'[Len(commands) + 1].id = append[p].id
        /\ commands'[Len(commands) + 1].body = append[p].body
    BY <1>4, CommandStoreStep
  <2>2. CommandsGrow
    BY <1>0, <2>1 DEF CommandsGrow
  <2> DEFINE r == Receipt(append[p], append[p].tail.off + 1)
  <2>3. append[p].id \in Ids /\ append[p].body \in Bodies
    BY <1>4 DEF AppendIInv, CallsFilled
  <2>4. r.id = append[p].id /\ r.body = append[p].body /\ r.off = Len(commands) + 1
        /\ r \in [id : Ids, body : Bodies, off : Nat]
    BY <1>0, <1>4, <2>3, AcceptedIsNext DEF Receipt
  <2> HIDE DEF r
  <2>5. acked' \subseteq acked \cup {r}
    BY <1>4 DEF r
  <2>6. AckedInLog'
    BY <1>0, <2>1, <2>2, <2>4, <2>5, AckedKept DEF AppendIInv
  <2>7. acked' \in SUBSET [id : Ids, body : Bodies, off : Nat] /\ expired' \in SUBSET Ids
    BY <1>0, <1>4, <2>4, <2>5 DEF AppendTypeOK
  <2>8. append' = [append EXCEPT ![p] = NoAppend] /\ Real(commands', NoAppend.tail)
        /\ NoAppend \in AppendCalls /\ NoAppend.pc = "idle"
    BY <1>0, <1>4, <2>2, AppendIdle, CommandRealKept DEF AppendReturns
  <2>9. AppendTypeOK' /\ AppendTailsReal' /\ CallsFilled'
    BY <2>1, <2>2, <2>7, <2>8, AppendCallStep, Zenon
  <2> QED
    BY <2>1, <2>6, <2>9 DEF AppendIInv
<1>5. ASSUME NEW p \in Producers, Publish(p) PROVE AppendIInv'
  BY <1>4, <1>5 DEF Publish
<1>6. ASSUME NEW p \in Producers, PublishFails(p) PROVE AppendIInv'
  <2>1. CASE Accepts(append[p]) /\ Store(append[p])
    BY <1>4, <1>6, <2>1 DEF PublishFails
  <2>2. CASE UNCHANGED <<commands, seqno, window>>
    BY <1>1, <1>6, <2>2 DEF PublishFails
  <2> QED
    BY <1>6, <2>1, <2>2 DEF PublishFails
<1>7. ASSUME NEW p \in Producers, WrongLastSequence(p) PROVE AppendIInv'
  <2> DEFINE x == [append[p] EXCEPT !.pc = "tail", !.tries = @ + 1]
  <2>1. CASE append[p].tries + 1 < Retries
    <3>1. append[p] \in AppendCalls /\ append[p].body \in Bodies /\ Real(commands, append[p].tail)
      BY <1>0, <1>7, AppendCallType DEF AppendIInv, CallsFilled, AppendTailsReal, WrongLastSequence
    <3>2. append[p].tries + 1 \in 0..(Retries - 1)
      BY <1>0, <2>1, AppendCallType, JetStreamConstants
    <3>3. x \in AppendCalls /\ x.pc = "tail" /\ x.body = append[p].body /\ x.tail = append[p].tail
      BY <3>1, <3>2, Zenon DEF AppendCalls
    <3>4. append' = [append EXCEPT ![p] = x] /\ UNCHANGED <<commands, seqno, window, acked, expired>>
      BY <1>7, <2>1, Zenon DEF WrongLastSequence
    <3> HIDE DEF x
    <3> QED
      BY <3>1, <3>3, <3>4, AppendQuietStep, Zenon
  <2>2. CASE ~(append[p].tries + 1 < Retries)
    BY <1>1, <1>7, <2>2 DEF WrongLastSequence
  <2> QED
    BY <2>1, <2>2
<1>8. ASSUME NEW p \in Producers, Duplicate(p) PROVE AppendIInv'
  <2> DEFINE x == [append[p] EXCEPT !.pc = "find"]
  <2>1. append[p] \in AppendCalls /\ append[p].body \in Bodies /\ append[p].id \in Ids /\ Real(commands, append[p].tail)
    BY <1>0, <1>8, AppendCallType DEF AppendIInv, CallsFilled, AppendTailsReal, Duplicate
  <2>2. x \in AppendCalls /\ x.pc = "find" /\ x.id = append[p].id /\ x.body = append[p].body /\ x.tail = append[p].tail
    BY <2>1 DEF AppendCalls
  <2>3. append' = [append EXCEPT ![p] = x] /\ UNCHANGED <<commands, seqno, window, acked, expired>>
    BY <1>8 DEF Duplicate
  <2> HIDE DEF x
  <2> QED
    BY <2>1, <2>2, <2>3, AppendQuietStep, Zenon
<1>9. ASSUME NEW p \in Producers, FindCommandByReceipt(p) PROVE AppendIInv'
  <2>1. UNCHANGED acked \/ \E i \in 1..Len(commands) :
           /\ commands[i].id = append[p].id
           /\ acked' = acked \cup (IF SameIdentity(commands[i], append[p])
                                   THEN {Receipt(append[p], commands[i].off)} ELSE {})
    <3>1. PICK n \in 0..Len(commands) :
            \/ UNCHANGED acked
            \/ \E i \in {i \in 1..n : commands[i].id = append[p].id} :
                acked' = acked \cup (IF SameIdentity(commands[i], append[p])
                                     THEN {Receipt(append[p], commands[i].off)} ELSE {})
      BY <1>9 DEF FindCommandByReceipt
    <3>2. \A i \in 1..n : i \in 1..Len(commands)
      BY <1>0
    <3> QED
      BY <3>1, <3>2
  <2>2. AppendReturns(p) /\ UNCHANGED <<commands, seqno, window, expired>>
    BY <1>9 DEF FindCommandByReceipt
  <2>3. CASE UNCHANGED acked
    BY <1>1, <2>2, <2>3
  <2>4. ASSUME NEW i \in 1..Len(commands), commands[i].id = append[p].id, SameIdentity(commands[i], append[p]),
               acked' = acked \cup {Receipt(append[p], commands[i].off)}
        PROVE AppendIInv'
    <3> DEFINE r == Receipt(append[p], commands[i].off)
    <3>1. append[p].id \in Ids /\ append[p].body \in Bodies
      BY <1>9 DEF AppendIInv, CallsFilled, FindCommandByReceipt
    <3>2. r.id = append[p].id /\ r.body = append[p].body /\ r.off = i
          /\ r \in [id : Ids, body : Bodies, off : Nat]
      BY <1>0, <3>1 DEF Receipt, AppendIInv, OffsetsDense
    <3>3. CommandsGrow /\ CommandSeqsIncrease' /\ OffsetsDense' /\ IdsRemembered' /\ IdsUnique'
      BY <1>0, <2>2, CommandLogKept DEF AppendTypeOK
    <3>4. commands'[i].id = append[p].id /\ commands'[i].body = append[p].body /\ i \in 1..Len(commands')
      BY <2>2, <2>4 DEF SameIdentity
    <3>5. acked' \subseteq acked \cup {r}
      BY <2>4
    <3> HIDE DEF r
    <3>6. AckedInLog'
      BY <1>0, <3>2, <3>3, <3>4, <3>5, AckedKept DEF AppendIInv
    <3>7. /\ acked' \in SUBSET [id : Ids, body : Bodies, off : Nat] /\ expired' \in SUBSET Ids
          /\ commands' \in Seq(StoredCommands) /\ seqno' \in Nat /\ window' \in SUBSET Ids
      BY <1>0, <2>2, <3>2, <3>5 DEF AppendTypeOK
    <3>8. append' = [append EXCEPT ![p] = NoAppend] /\ Real(commands', NoAppend.tail)
          /\ NoAppend \in AppendCalls /\ NoAppend.pc = "idle"
      BY <1>0, <2>2, AppendIdle DEF AppendReturns
    <3>9. AppendTypeOK' /\ AppendTailsReal' /\ CallsFilled'
      BY <3>3, <3>7, <3>8, AppendCallStep, Zenon
    <3> QED
      BY <3>3, <3>6, <3>9 DEF AppendIInv
  <2>5. ASSUME acked' = acked \cup {} PROVE AppendIInv'
    BY <2>3, <2>5
  <2> QED
    BY <2>1, <2>3, <2>4, <2>5, Zenon
<1>10. ASSUME NEW i \in window, WindowPasses(i) PROVE AppendIInv'
  <2>1. CommandsGrow /\ CommandSeqsIncrease' /\ OffsetsDense' /\ IdsRemembered' /\ IdsUnique'
    BY <1>0, <1>10, CommandLogKept DEF WindowPasses, AppendTypeOK
  <2>2. AppendTypeOK'
    BY <1>0, <1>10 DEF WindowPasses, AppendTypeOK
  <2>3. AppendTailsReal' /\ CallsFilled' /\ AckedInLog'
    BY <1>10 DEF WindowPasses, AppendIInv, AppendTailsReal, CallsFilled, AckedInLog
  <2> QED
    BY <2>1, <2>2, <2>3 DEF AppendIInv
<1>11. CASE OtherCommand
  <2>1. CommandsGrow /\ CommandSeqsIncrease' /\ OffsetsDense' /\ IdsRemembered' /\ IdsUnique'
    BY <1>0, <1>11, CommandLogKept DEF OtherCommand, AppendTypeOK
  <2>2. AppendTypeOK'
    BY <1>0, <1>11 DEF OtherCommand, AppendTypeOK
  <2>3. AppendTailsReal' /\ CallsFilled' /\ AckedInLog'
    BY <1>11 DEF OtherCommand, AppendIInv, AppendTailsReal, CallsFilled, AckedInLog
  <2> QED
    BY <2>1, <2>2, <2>3 DEF AppendIInv
<1>12. CASE UNCHANGED appendVars
  BY <1>12 DEF appendVars, AppendIInv, AppendTypeOK, CommandSeqsIncrease, AppendTailsReal, CallsFilled, IdsRemembered, OffsetsDense,
     IdsUnique, AckedInLog
<1>13. ASSUME NEW p \in Producers, ReadFails(p) PROVE AppendIInv'
  BY <1>1, <1>13 DEF ReadFails
<1> QED
  BY <1>2, <1>3, <1>5, <1>6, <1>7, <1>8, <1>9, <1>10, <1>11, <1>12, <1>13 DEF AppendNext, AppendStep

-----------------------------------------------------------------------------
\* Every reachable state is well typed, and no AppendCommand call makes more
\* attempts than it may.
THEOREM AppendTypeCorrect == AppendSpec => []AppendTypeOK
<1>1. AppendIInv => AppendTypeOK
  BY DEF AppendIInv
<1> QED
  BY <1>1, AppendInitInv, AppendStepInv, PTL DEF AppendSpec

\* The offsets of a partition are dense, whatever races the appenders lose and
\* however stale the tails that commandTail reads.
THEOREM OffsetsDenseAlways == AppendSpec => []OffsetsDense
<1>1. AppendIInv => OffsetsDense
  BY DEF AppendIInv
<1> QED
  BY <1>1, AppendInitInv, AppendStepInv, PTL DEF AppendSpec

\* A command id is in the log once until it has left the duplicate window.
THEOREM IdsUniqueAlways == AppendSpec => []IdsUnique
<1>1. AppendIInv => IdsUnique
  BY DEF AppendIInv
<1> QED
  BY <1>1, AppendInitInv, AppendStepInv, PTL DEF AppendSpec

\* AppendCommand returns the offset of its own command, stored now or earlier.
THEOREM AckedInLogAlways == AppendSpec => []AckedInLog
<1>1. AppendIInv => AckedInLog
  BY DEF AppendIInv
<1> QED
  BY <1>1, AppendInitInv, AppendStepInv, PTL DEF AppendSpec
-----------------------------------------------------------------------------
(***************************************************************************)
(* Proofs about JetStreamCommitLog, for any number of calls, clients,      *)
(* attempts and offsets.  The invariant says that every tail a client      *)
(* holds, in its cache or in a call, is that of a message that was once    *)
(* the last of the subject.  Sequences increase, so a publish that the     *)
(* server accepts was made from the message that is last now, and the      *)
(* comparison with that message's offset still holds.                      *)
(***************************************************************************)

\* Stream sequences are positive and increase along the commit subject.
CommitSeqsIncrease ==
    /\ \A i \in 1..Len(commits) : 0 < commits[i].seq /\ commits[i].seq <= commitSeqno
    /\ \A i, j \in 1..Len(commits) : i < j => commits[i].seq < commits[j].seq

\* t was once the tail of subject q.

CommitTailsReal ==
    /\ \A c \in Clients : Real(commits, cache[c])
    /\ \A k \in Committers : Real(commits, commit[k].tail)

\* A call publishes only an offset beyond the tail it starts from.
WantsMore == \A k \in Committers : commit[k].pc = "publish" => commit[k].tail.off < commit[k].want

CommitIInv == CommitTypeOK /\ CommitSeqsIncrease /\ CommitTailsReal /\ WantsMore /\ CommitsIncrease

-----------------------------------------------------------------------------
\* The empty commit subject, empty caches and idle calls satisfy the invariant.
LEMMA CommitInitInv == CommitInit => CommitIInv
<1> SUFFICES ASSUME CommitInit PROVE CommitIInv
  OBVIOUS
<1>1. CommitTypeOK
  BY CommitConstants DEF CommitInit, CommitTypeOK, NoCommit, NoTail, Tails, CommitCalls
<1>2. Len(commits) = 0 /\ TailAt(commits, 0) = NoTail
  BY DEF CommitInit, TailAt
<1>3. CommitTailsReal
  BY <1>2 DEF CommitInit, CommitTailsReal, Real, NoCommit
<1> QED
  BY <1>1, <1>2, <1>3 DEF CommitIInv, CommitSeqsIncrease, CommitsIncrease, WantsMore, CommitInit, NoCommit

\* CommitMessages of the subject, and what an append does to it.
LEMMA CommitMessages ==
    ASSUME CommitTypeOK
    PROVE /\ Len(commits) \in Nat
          /\ \A i \in 1..Len(commits) :
                commits[i] \in StoredCommits /\ commits[i].off \in Nat /\ commits[i].seq \in Nat
<1>1. \A x \in StoredCommits : x.off \in Nat /\ x.seq \in Nat
  BY DEF StoredCommits
<1>2. Len(commits) \in Nat /\ \A i \in 1..Len(commits) : commits[i] \in StoredCommits
  BY DEF CommitTypeOK
<1> QED
  BY <1>1, <1>2

\* A message stored is the last one; those before it stay.
LEMMA CommitAppended ==
    ASSUME CommitTypeOK, NEW e \in StoredCommits, commits' = Append(commits, e)
    PROVE /\ Len(commits') = Len(commits) + 1
          /\ commits'[Len(commits) + 1] = e
          /\ \A i \in 1..Len(commits) : commits'[i] = commits[i]
BY DEF CommitTypeOK

\* TailAt, what commitTail reads, has its type.
LEMMA CommitTailType ==
    ASSUME CommitTypeOK, NEW n \in 0..Len(commits) PROVE TailAt(commits, n) \in Tails
<1>1. n # 0 => n \in 1..Len(commits)
  BY CommitMessages
<1> QED
  BY <1>1, CommitMessages DEF TailAt, Tails, NoTail

\* The subject is left alone or grows by one message: what StoreCommit and every
\* other step may do to it.
CommitsGrow ==
    \/ UNCHANGED <<commits, commitSeqno>>
    \/ UNCHANGED commits /\ commitSeqno' = commitSeqno + 1
    \/ \E e \in StoredCommits :
        commits' = Append(commits, e) /\ e.seq = commitSeqno + 1 /\ commitSeqno' = commitSeqno + 1

\* A message of the subject never changes, so a tail that was real stays so.
LEMMA CommitRealKept ==
    ASSUME CommitTypeOK, CommitsGrow, NEW t, Real(commits, t) PROVE Real(commits', t)
<1>1. PICK n \in 0..Len(commits) : t = TailAt(commits, n)
  BY DEF Real
<1>2. n \in 0..Len(commits') /\ (n # 0 => commits'[n] = commits[n])
  BY DEF CommitTypeOK, CommitsGrow
<1>3. t = TailAt(commits', n)
  BY <1>1, <1>2 DEF TailAt
<1> QED
  BY <1>2, <1>3 DEF Real

\* Sequences keep increasing when the subject grows.
LEMMA CommitSeqsStep ==
    ASSUME CommitTypeOK, CommitSeqsIncrease, CommitsGrow PROVE CommitSeqsIncrease'
<1>1. CASE UNCHANGED commits
  BY <1>1, CommitMessages DEF CommitsGrow, CommitSeqsIncrease, CommitTypeOK
<1>2. CASE \E e \in StoredCommits :
              commits' = Append(commits, e) /\ e.seq = commitSeqno + 1 /\ commitSeqno' = commitSeqno + 1
  <2>1. PICK e \in StoredCommits :
           commits' = Append(commits, e) /\ e.seq = commitSeqno + 1 /\ commitSeqno' = commitSeqno + 1
    BY <1>2
  <2>2. /\ Len(commits') = Len(commits) + 1 /\ commits'[Len(commits) + 1] = e
        /\ \A i \in 1..Len(commits) : commits'[i] = commits[i]
    BY <2>1, CommitAppended
  <2>3. commitSeqno \in Nat
    BY DEF CommitTypeOK
  <2>4. \A i \in 1..Len(commits') : i \in 1..Len(commits) \/ i = Len(commits) + 1
    BY <2>2, CommitMessages
  <2>5. \A i \in 1..Len(commits') : 0 < commits'[i].seq /\ commits'[i].seq <= commitSeqno'
    BY <2>1, <2>2, <2>3, <2>4, CommitMessages DEF CommitSeqsIncrease
  <2>6. \A i, j \in 1..Len(commits') : i < j => commits'[i].seq < commits'[j].seq
    BY <2>1, <2>2, <2>3, <2>4, CommitMessages DEF CommitSeqsIncrease
  <2> QED
    BY <2>5, <2>6 DEF CommitSeqsIncrease
<1> QED
  BY <1>1, <1>2 DEF CommitsGrow

\* A call's publish is accepted only if its tail is the last message now.
LEMMA ExpectedIsLast ==
    ASSUME CommitIInv, NEW k \in Committers, ExpectsTail(k)
    PROVE commit[k].tail = TailAt(commits, Len(commits))
<1>1. PICK n \in 0..Len(commits) : commit[k].tail = TailAt(commits, n)
  BY DEF CommitIInv, CommitTailsReal, Real
<1>2. TailAt(commits, n).seq = TailAt(commits, Len(commits)).seq
  BY <1>1 DEF ExpectsTail
<1>3. Len(commits) \in Nat /\ \A i \in 1..Len(commits) : commits[i].seq \in Nat
  BY CommitMessages DEF CommitIInv
<1>4. n = Len(commits)
  BY <1>2, <1>3 DEF TailAt, NoTail, CommitIInv, CommitSeqsIncrease
<1> QED
  BY <1>1, <1>4

\* A commit that the server stores lies beyond the offsets stored before it.
LEMMA CommitStoreStep ==
    ASSUME CommitIInv, NEW k \in Committers, commit[k].pc = "publish", StoreCommit(k)
    PROVE CommitsGrow /\ CommitsIncrease'
<1> DEFINE e == [off |-> commit[k].want, seq |-> commitSeqno + 1]
<1>1. e \in StoredCommits /\ commits' = Append(commits, e) /\ commitSeqno' = commitSeqno + 1
  BY DEF CommitIInv, CommitTypeOK, StoreCommit, StoredCommits, CommitCalls
<1>2. CommitsGrow
  BY <1>1 DEF CommitsGrow
<1>3. TailAt(commits, Len(commits)).off < commit[k].want
  BY ExpectedIsLast DEF StoreCommit, CommitIInv, WantsMore
<1>4. /\ Len(commits') = Len(commits) + 1 /\ Len(commits) \in Nat
      /\ commits'[Len(commits) + 1] = e
      /\ \A i \in 1..Len(commits) : commits'[i] = commits[i] /\ commits[i].off \in Nat
  BY <1>1, CommitAppended, CommitMessages DEF CommitIInv
<1>5. \A i \in 1..Len(commits) : commits[i].off <= TailAt(commits, Len(commits)).off
  BY <1>4 DEF TailAt, CommitIInv, CommitsIncrease
<1>6. e.off = commit[k].want /\ commit[k].want \in Nat
  BY DEF CommitIInv, CommitTypeOK, CommitCalls
<1>7. \A i \in 1..Len(commits) : commits[i].off < e.off
  <2> SUFFICES ASSUME NEW i \in 1..Len(commits) PROVE commits[i].off < e.off
    OBVIOUS
  <2>1. TailAt(commits, Len(commits)).off \in Nat
    BY <1>4, CommitTailType DEF Tails, CommitIInv
  <2> QED
    BY <1>3, <1>4, <1>5, <1>6, <2>1
<1>8. CommitsIncrease'
  <2> SUFFICES ASSUME NEW i \in 1..Len(commits'), NEW j \in 1..Len(commits'), i < j
               PROVE commits'[i].off < commits'[j].off
    BY DEF CommitsIncrease
  <2>1. i \in 1..Len(commits) /\ (j \in 1..Len(commits) \/ j = Len(commits) + 1)
    BY <1>4
  <2>2. CommitsIncrease
    BY DEF CommitIInv
  <2> HIDE DEF e
  <2> QED
    BY <1>4, <1>7, <2>1, <2>2, Zenon DEF CommitsIncrease
<1> QED
  BY <1>2, <1>8

-----------------------------------------------------------------------------
\* Fields of a call, as CommitTypeOK types them.
LEMMA CommitCallType ==
    ASSUME CommitTypeOK, NEW k \in Committers
    PROVE /\ commit[k] \in CommitCalls
          /\ commit[k].want \in Nat
          /\ commit[k].tail \in Tails
          /\ commit[k].tries \in 0..(Retries - 1)
<1>1. commit[k] \in CommitCalls
  BY DEF CommitTypeOK
<1> QED
  BY <1>1 DEF CommitCalls

\* An idle call and an empty cache entry have their types.
LEMMA NoCommitType == NoCommit \in CommitCalls /\ NoTail \in Tails
BY CommitConstants DEF NoCommit, NoTail, Tails, CommitCalls

\* What a step does to a call and to a cache entry keeps their types.
LEMMA CommitAssigned ==
    ASSUME CommitTypeOK, NEW k \in Committers
    PROVE /\ \A x \in CommitCalls : [commit EXCEPT ![k] = x] \in [Committers -> CommitCalls]
          /\ \A c, t \in Tails : [cache EXCEPT ![c] = t] \in [Clients -> Tails]
BY Zenon DEF CommitTypeOK

\* Every step leaves the subject alone or appends to it; every step keeps the
\* types and the limit on the attempts.
LEMMA CommitTypeStep == ASSUME CommitIInv, [CommitNext]_commitVars PROVE CommitTypeOK' /\ CommitsGrow
<1> USE NoCommitType DEF CommitIInv
<1>1. ASSUME NEW k \in Committers, NEW c \in Clients, NEW o \in 1..MaxOffset, CommitPartition(k, c, o)
      PROVE CommitTypeOK' /\ CommitsGrow
  <2> DEFINE x == [pc |-> "publish", client |-> c, want |-> o, tail |-> cache[c], tries |-> 0]
  <2>1. x \in CommitCalls
    BY CommitConstants DEF CommitTypeOK, CommitCalls
  <2>2. commit' = [commit EXCEPT ![k] = x] /\ UNCHANGED <<commits, commitSeqno, cache>>
    BY <1>1 DEF CommitPartition
  <2> HIDE DEF x
  <2> QED
    BY <2>1, <2>2, CommitAssigned DEF CommitTypeOK, CommitsGrow
<1>2. ASSUME NEW k \in Committers, PublishCommit(k) PROVE CommitTypeOK' /\ CommitsGrow
  <2>1. CommitsGrow
    BY <1>2, CommitStoreStep DEF PublishCommit
  <2>2. commits' \in Seq(StoredCommits) /\ commitSeqno' \in Nat
    BY <1>2, CommitCallType DEF PublishCommit, StoreCommit, CommitTypeOK, StoredCommits
  <2> DEFINE t == [seq |-> commitSeqno + 1, off |-> commit[k].want]
             x == [commit[k] EXCEPT !.pc = "remember", !.tail = t]
  <2>3. t \in Tails
    BY CommitCallType DEF CommitTypeOK, Tails
  <2>4. commit' = [commit EXCEPT ![k] = x] /\ UNCHANGED cache
    BY <1>2, Zenon DEF PublishCommit
  <2> HIDE DEF t
  <2>5. x \in CommitCalls
    BY <2>3, CommitCallType, Zenon DEF CommitCalls
  <2> HIDE DEF x
  <2> QED
    BY <2>1, <2>2, <2>4, <2>5, CommitAssigned DEF CommitTypeOK
<1>3. ASSUME NEW k \in Committers, PublishCommitFails(k) PROVE CommitTypeOK' /\ CommitsGrow
  <2>1. CASE StoreCommit(k)
    <3>1. CommitsGrow
      BY <1>3, <2>1, CommitStoreStep DEF PublishCommitFails
    <3>2. commits' \in Seq(StoredCommits) /\ commitSeqno' \in Nat
      BY <2>1, CommitCallType DEF StoreCommit, CommitTypeOK, StoredCommits
    <3> QED
      BY <1>3, <3>1, <3>2, CommitAssigned DEF PublishCommitFails, CommitReturns, CommitTypeOK
  <2>2. CASE UNCHANGED <<commits, commitSeqno>>
    BY <1>3, <2>2, CommitAssigned DEF PublishCommitFails, CommitReturns, CommitTypeOK, CommitsGrow
  <2> QED
    BY <1>3, <2>1, <2>2 DEF PublishCommitFails
<1>4. ASSUME NEW k \in Committers, CommitLosesRace(k) PROVE CommitTypeOK' /\ CommitsGrow
  <2> DEFINE x == [commit[k] EXCEPT !.pc = "reload"]
  <2>1. x \in CommitCalls
    BY CommitCallType DEF CommitCalls
  <2>2. commit' = [commit EXCEPT ![k] = x] /\ UNCHANGED <<commits, commitSeqno>>
        /\ cache' = [cache EXCEPT ![commit[k].client] = NoTail]
    BY <1>4 DEF CommitLosesRace
  <2> HIDE DEF x
  <2> QED
    BY <2>1, <2>2, CommitAssigned, Zenon DEF CommitTypeOK, CommitsGrow
<1>5. ASSUME NEW k \in Committers, ReloadFails(k) PROVE CommitTypeOK' /\ CommitsGrow
  BY <1>5, CommitAssigned DEF ReloadFails, CommitReturns, CommitTypeOK, CommitsGrow
<1>6. ASSUME NEW k \in Committers, ReloadCommitTail(k) PROVE CommitTypeOK' /\ CommitsGrow
  <2>1. PICK n \in 0..Len(commits) :
           \/ commit' = [commit EXCEPT ![k].pc = "remember", ![k].tail = TailAt(commits, n)]
           \/ /\ commit[k].tries + 1 < Retries
              /\ commit' = [commit EXCEPT ![k].pc = "publish", ![k].tail = TailAt(commits, n), ![k].tries = @ + 1]
           \/ CommitReturns(k)
    BY <1>6, Zenon DEF ReloadCommitTail
  <2> DEFINE r == [commit[k] EXCEPT !.pc = "remember", !.tail = TailAt(commits, n)]
             q == [commit[k] EXCEPT !.pc = "publish", !.tail = TailAt(commits, n), !.tries = @ + 1]
  <2>2. TailAt(commits, n) \in Tails
    BY CommitTailType
  <2>3. r \in CommitCalls
    BY <2>2, CommitCallType, Zenon DEF CommitCalls
  <2>31. ASSUME commit[k].tries + 1 < Retries PROVE q \in CommitCalls
    <3>1. commit[k].tries + 1 \in 0..(Retries - 1)
      BY <2>31, CommitCallType, CommitConstants
    <3> QED
      BY <2>2, <3>1, CommitCallType, Zenon DEF CommitCalls
  <2>4. \E x \in CommitCalls : commit' = [commit EXCEPT ![k] = x]
    <3>1. commit' = [commit EXCEPT ![k] = r] \/ (commit[k].tries + 1 < Retries /\ commit' = [commit EXCEPT ![k] = q])
          \/ commit' = [commit EXCEPT ![k] = NoCommit]
      BY <2>1, Zenon DEF CommitReturns
    <3> HIDE DEF r, q
    <3> QED
      BY <2>3, <2>31, <3>1
  <2>5. UNCHANGED <<commits, commitSeqno, cache>>
    BY <1>6 DEF ReloadCommitTail
  <2> QED
    BY <2>4, <2>5, CommitAssigned DEF CommitTypeOK, CommitsGrow
<1>7. ASSUME NEW k \in Committers, RememberCommitTail(k) PROVE CommitTypeOK' /\ CommitsGrow
  BY <1>7, CommitCallType, CommitAssigned, Zenon DEF RememberCommitTail, CommitReturns, CommitTypeOK, CommitsGrow
<1>8. ASSUME NEW c \in Clients, Restart(c) PROVE CommitTypeOK' /\ CommitsGrow
  BY <1>8 DEF Restart, CommitTypeOK, CommitsGrow
<1>9. CASE OtherCommit
  BY <1>9 DEF OtherCommit, CommitTypeOK, CommitsGrow
<1>10. CASE UNCHANGED commitVars
  BY <1>10 DEF commitVars, CommitTypeOK, CommitsGrow
<1> QED
  BY <1>1, <1>2, <1>3, <1>4, <1>5, <1>6, <1>7, <1>8, <1>9, <1>10 DEF CommitNext, CommitStep

-----------------------------------------------------------------------------
\* Every tail a client holds after a step was once the tail of the subject, and a
\* call that publishes wants more than its tail.
LEMMA CommitTailsStep == ASSUME CommitIInv, [CommitNext]_commitVars PROVE CommitTailsReal' /\ WantsMore'
<1>1. CommitTypeOK' /\ CommitsGrow /\ CommitTypeOK
  BY CommitTypeStep DEF CommitIInv
<1>2. Real(commits', NoTail)
  <2>1. Len(commits') \in Nat
    BY <1>1 DEF CommitTypeOK
  <2>2. TailAt(commits', 0) = NoTail
    BY DEF TailAt
  <2> QED
    BY <2>1, <2>2 DEF Real
<1>3. \A t : Real(commits, t) => Real(commits', t)
  BY <1>1, CommitRealKept
<1>4. \A c \in Clients : Real(commits', cache[c])
  BY <1>3 DEF CommitIInv, CommitTailsReal
<1>5. \A k \in Committers : Real(commits', commit[k].tail)
  BY <1>3 DEF CommitIInv, CommitTailsReal
<1>6. WantsMore
  BY DEF CommitIInv
<1>7. NoCommit.tail = NoTail /\ NoCommit.pc # "publish"
  BY DEF NoCommit
<1> DEFINE Good(x) == Real(commits', x.tail) /\ (x.pc = "publish" => x.tail.off < x.want)
<1>8. ASSUME NEW k \in Committers, NEW x, commit' = [commit EXCEPT ![k] = x], Good(x)
      PROVE /\ \A i \in Committers : Real(commits', commit'[i].tail)
            /\ WantsMore'
  BY <1>1, <1>5, <1>6, <1>8 DEF CommitTypeOK, WantsMore
<1>9. ASSUME NEW c, NEW t, cache' = [cache EXCEPT ![c] = t], Real(commits', t)
      PROVE \A i \in Clients : Real(commits', cache'[i])
  BY <1>1, <1>4, <1>9 DEF CommitTypeOK
<1> HIDE DEF Good
<1>10. Good(NoCommit)
  BY <1>2, <1>7 DEF Good
<1>11. ASSUME NEW k \in Committers, NEW c \in Clients, NEW o \in 1..MaxOffset, CommitPartition(k, c, o)
       PROVE CommitTailsReal' /\ WantsMore'
  <2> DEFINE x == [pc |-> "publish", client |-> c, want |-> o, tail |-> cache[c], tries |-> 0]
  <2>1. Good(x)
    BY <1>4, <1>11 DEF CommitPartition, Good
  <2>2. commit' = [commit EXCEPT ![k] = x] /\ UNCHANGED cache
    BY <1>11 DEF CommitPartition
  <2> HIDE DEF x
  <2> QED
    BY <1>4, <1>8, <2>1, <2>2, Zenon DEF CommitTailsReal
<1>12. ASSUME NEW k \in Committers, PublishCommit(k) PROVE CommitTailsReal' /\ WantsMore'
  <2> DEFINE e == [off |-> commit[k].want, seq |-> commitSeqno + 1]
             t == [seq |-> commitSeqno + 1, off |-> commit[k].want]
             x == [commit[k] EXCEPT !.pc = "remember", !.tail = t]
  <2>1. e \in StoredCommits /\ commits' = Append(commits, e)
    BY <1>1, <1>12, CommitCallType DEF PublishCommit, StoreCommit, CommitTypeOK, StoredCommits
  <2>2. Len(commits') = Len(commits) + 1 /\ commits'[Len(commits) + 1] = e
    BY <1>1, <2>1, CommitAppended
  <2>3. t = TailAt(commits', Len(commits'))
    BY <1>1, <2>2, CommitMessages DEF TailAt
  <2>4. Real(commits', t)
    BY <1>1, <2>2, <2>3, CommitMessages DEF Real
  <2>5. commit' = [commit EXCEPT ![k] = x] /\ UNCHANGED cache
    BY <1>12, Zenon DEF PublishCommit
  <2> HIDE DEF t
  <2>6. Good(x)
    BY <1>1, <2>4, CommitCallType DEF Good, CommitCalls
  <2> HIDE DEF x
  <2> QED
    BY <1>4, <1>8, <2>5, <2>6, Zenon DEF CommitTailsReal
<1>13. ASSUME NEW k \in Committers, CommitReturns(k), UNCHANGED cache PROVE CommitTailsReal' /\ WantsMore'
  BY <1>4, <1>8, <1>10, <1>13, Zenon DEF CommitReturns, CommitTailsReal
<1>14. ASSUME NEW k \in Committers, CommitLosesRace(k) PROVE CommitTailsReal' /\ WantsMore'
  <2> DEFINE x == [commit[k] EXCEPT !.pc = "reload"]
  <2>1. commit' = [commit EXCEPT ![k] = x] /\ cache' = [cache EXCEPT ![commit[k].client] = NoTail]
    BY <1>14 DEF CommitLosesRace
  <2>2. Good(x)
    BY <1>1, <1>5, CommitCallType DEF Good, CommitCalls
  <2> HIDE DEF x
  <2> QED
    BY <1>2, <1>8, <1>9, <2>1, <2>2, Zenon DEF CommitTailsReal
<1>15. ASSUME NEW k \in Committers, ReloadCommitTail(k) PROVE CommitTailsReal' /\ WantsMore'
  <2>1. PICK n \in 0..Len(commits) :
           \/ commit' = [commit EXCEPT ![k].pc = "remember", ![k].tail = TailAt(commits, n)]
           \/ /\ ~CommittedBy(k, TailAt(commits, n))
              /\ commit' = [commit EXCEPT ![k].pc = "publish", ![k].tail = TailAt(commits, n), ![k].tries = @ + 1]
           \/ CommitReturns(k)
    BY <1>15, Zenon DEF ReloadCommitTail
  <2> DEFINE t == TailAt(commits, n)
             r == [commit[k] EXCEPT !.pc = "remember", !.tail = t]
             q == [commit[k] EXCEPT !.pc = "publish", !.tail = t, !.tries = @ + 1]
  <2>2. Real(commits', t) /\ t \in Tails
    BY <1>1, <1>3, CommitTailType, Zenon DEF Real
  <2> HIDE DEF t
  <2>3. Good(r)
    BY <1>1, <2>2, CommitCallType DEF Good, CommitCalls
  <2>4. ASSUME ~CommittedBy(k, t) PROVE Good(q)
    BY <1>1, <2>2, <2>4, CommitCallType DEF Good, CommitCalls, CommittedBy, Tails
  <2>5. UNCHANGED cache
    BY <1>15 DEF ReloadCommitTail
  <2>6. commit' = [commit EXCEPT ![k] = r] \/ (~CommittedBy(k, t) /\ commit' = [commit EXCEPT ![k] = q])
        \/ CommitReturns(k)
    BY <2>1, Zenon DEF t
  <2> HIDE DEF r, q
  <2> QED
    BY <1>4, <1>8, <1>13, <2>3, <2>4, <2>5, <2>6 DEF CommitTailsReal
<1>16. ASSUME NEW k \in Committers, RememberCommitTail(k) PROVE CommitTailsReal' /\ WantsMore'
  <2>1. Real(commits', commit[k].tail)
    BY <1>5
  <2> QED
    BY <1>8, <1>9, <1>10, <1>16, <2>1, Zenon DEF RememberCommitTail, CommitReturns, CommitTailsReal
<1>17. ASSUME NEW c \in Clients, Restart(c) PROVE CommitTailsReal' /\ WantsMore'
  BY <1>2, <1>4, <1>5, <1>6, <1>7, <1>9, <1>17 DEF Restart, CommitTailsReal, WantsMore
<1>18. CASE UNCHANGED <<commit, cache>>
  BY <1>4, <1>5, <1>6, <1>18 DEF CommitTailsReal, WantsMore
<1> QED
  BY <1>11, <1>12, <1>13, <1>14, <1>15, <1>16, <1>17, <1>18
     DEF CommitNext, CommitStep, PublishCommitFails, ReloadFails, OtherCommit, commitVars

\* The invariant is inductive.
LEMMA CommitStepInv == CommitIInv /\ [CommitNext]_commitVars => CommitIInv'
<1> SUFFICES ASSUME CommitIInv, [CommitNext]_commitVars PROVE CommitIInv'
  OBVIOUS
<1>1. CommitTypeOK' /\ CommitsGrow
  BY CommitTypeStep
<1>2. CommitSeqsIncrease'
  BY <1>1, CommitSeqsStep DEF CommitIInv
<1>3. CommitTailsReal' /\ WantsMore'
  BY CommitTailsStep
<1>4. CommitsIncrease'
  <2>1. ASSUME NEW k \in Committers, commit[k].pc = "publish", StoreCommit(k) PROVE CommitsIncrease'
    BY <2>1, CommitStoreStep
  <2>2. CASE UNCHANGED commits
    BY <2>2 DEF CommitIInv, CommitsIncrease
  <2> QED
    BY <2>1, <2>2, Zenon DEF CommitNext, CommitStep, CommitPartition, PublishCommit, PublishCommitFails, CommitLosesRace,
        ReloadFails, ReloadCommitTail, RememberCommitTail, Restart, OtherCommit, commitVars
<1> QED
  BY <1>1, <1>2, <1>3, <1>4 DEF CommitIInv

-----------------------------------------------------------------------------
\* Every reachable state of the commit subject, the calls and the caches is well
\* typed, and no CommitPartition call makes more attempts than it may.
THEOREM CommitTypeCorrect == CommitSpec => []CommitTypeOK
<1>1. CommitIInv => CommitTypeOK
  BY DEF CommitIInv
<1> QED
  BY <1>1, CommitInitInv, CommitStepInv, PTL DEF CommitSpec

\* The committed offset of a partition only grows, for any number of clients with
\* caches as stale as can be.
THEOREM CommitsIncreaseAlways == CommitSpec => []CommitsIncrease
<1>1. CommitIInv => CommitsIncrease
  BY DEF CommitIInv
<1> QED
  BY <1>1, CommitInitInv, CommitStepInv, PTL DEF CommitSpec

\* The offset in a client's cache never exceeds the committed offset, so
\* CommitPartition may return at once for an offset below it.
THEOREM CacheCommittedAlways == CommitSpec => []CacheCommitted
<1>1. ASSUME CommitIInv PROVE CacheCommitted
  <2> SUFFICES ASSUME NEW c \in Clients PROVE cache[c].off <= TailAt(commits, Len(commits)).off
    BY DEF CacheCommitted
  <2>1. PICK n \in 0..Len(commits) : cache[c] = TailAt(commits, n)
    BY <1>1 DEF CommitIInv, CommitTailsReal, Real
  <2>2. CommitsIncrease
    BY <1>1 DEF CommitIInv
  <2> QED
    BY <1>1, <2>1, <2>2, CommitMessages DEF TailAt, NoTail, CommitsIncrease, CommitIInv
<1> QED
  BY <1>1, CommitInitInv, CommitStepInv, PTL DEF CommitSpec
=============================================================================
