--------------------------- MODULE PartitionLease ---------------------------
(***************************************************************************)
(* The SQL lease of a command partition                                    *)
(* (internal/core/command_partition_claim.go).                             *)
(*                                                                         *)
(* A claim reads the clock of its process, writes the row where that is    *)
(* allowed, and reads the row back; the three are separate steps, and any  *)
(* time may pass between them.  The worker makes one claim at a time, and  *)
(* takes itself for the owner from a claim that returns true until one     *)
(* that returns false or an error.                                         *)
(*                                                                         *)
(* A clock may be wrong by up to Skew either way.  The true time is known  *)
(* to no process: now, and the fields named at, are for the properties.    *)
(***************************************************************************)
EXTENDS BrokerPartition

VARIABLES
    now,    \* the true time
    row,    \* [owner, expires]: the command_partition_leases row
    call,   \* [Owners -> [pc, clock, at]]: ClaimCommandPartition calls
    held    \* [Owners -> [owned, at]]: the answer of the last call, and the
            \* true time at which that call read its clock

leaseVars == <<now, row, call, held>>

LeaseCalls == [pc : {"idle", "upsert", "select"}, clock : Int, at : Nat]
Holds == [owned : BOOLEAN, at : Nat]
Rows  == [owner : Owners \cup {NoOwner}, expires : Int]

Returned == [pc |-> "idle", clock |-> 0, at |-> 0]
NotOwned == [owned |-> FALSE, at |-> 0]

LeaseInit ==
    /\ now = 0
    /\ row = [owner |-> NoOwner, expires |-> 0]
    /\ call = [w \in Owners |-> Returned]
    /\ held = [w \in Owners |-> NotOwned]

Tick ==
    /\ now < MaxTime
    /\ now' = now + 1
    /\ UNCHANGED <<row, call, held>>

-----------------------------------------------------------------------------
\* nowMS of the process.
ReadClock(w) ==
    /\ call[w].pc = "idle"
    /\ \E clock \in (now - Skew)..(now + Skew) :
         call' = [call EXCEPT ![w] = [pc |-> "upsert", clock |-> clock, at |-> now]]
    /\ UNCHANGED <<now, row, held>>

ExpiresAt(w) == call[w].clock + TTL

\* Mutant: the condition of the upsert compares the two expiries.
MayWrite_LaterExpiry(w) ==
    row.owner \in {NoOwner, w} \/ row.expires <= ExpiresAt(w)

\* Mutant: an owner must wait for the expiry of its own row.
MayWrite_Expired(w) == row.owner = NoOwner \/ row.expires <= call[w].clock

\* No row, or the WHERE of the upsert.
MayWrite(w) ==
    row.owner \in {NoOwner, w} \/ row.expires <= call[w].clock

\* INSERT ... ON CONFLICT DO UPDATE ... WHERE.
Upsert(w) ==
    /\ call[w].pc = "upsert"
    /\ row' = IF MayWrite(w) THEN [owner |-> w, expires |-> ExpiresAt(w)] ELSE row
    /\ call' = [call EXCEPT ![w].pc = "select"]
    /\ UNCHANGED <<now, held>>

Owned(w) == row.owner = w /\ row.expires >= ExpiresAt(w)

\* The row is read back and the claim returns.
SelectRow(w) ==
    /\ call[w].pc = "select"
    /\ held' = [held EXCEPT ![w] = IF Owned(w) THEN [owned |-> TRUE, at |-> call[w].at]
                                   ELSE NotOwned]
    /\ call' = [call EXCEPT ![w] = Returned]
    /\ UNCHANGED <<now, row>>

\* A statement fails or the process restarts; the upsert may have been done.
ClaimFails(w) ==
    /\ call[w].pc # "idle"
    /\ row' \in {row} \cup IF call[w].pc = "upsert" /\ MayWrite(w)
                           THEN {[owner |-> w, expires |-> ExpiresAt(w)]} ELSE {}
    /\ call' = [call EXCEPT ![w] = Returned]
    /\ held' = [held EXCEPT ![w] = NotOwned]
    /\ UNCHANGED now

Claim(w) == ReadClock(w) \/ Upsert(w) \/ SelectRow(w) \/ ClaimFails(w)

LeaseNext == Tick \/ \E w \in Owners : Claim(w)

LeaseSpec == LeaseInit /\ [][LeaseNext]_leaseVars

-----------------------------------------------------------------------------
(***************************************************************************)
(* Properties.                                                             *)
(***************************************************************************)

\* Times are integers, and a call reads its clock before the present.
LeaseTypeOK ==
    /\ now \in 0..MaxTime
    /\ row \in Rows
    /\ call \in [Owners -> LeaseCalls]
    /\ held \in [Owners -> Holds]
    /\ \A w \in Owners : call[w].at <= now /\ held[w].at <= now

\* The claim still protects its holder: less than the TTL has passed since it
\* read its clock, less what two clocks may differ by.
Fresh(w) == held[w].owned /\ now < held[w].at + TTL - 2 * Skew

\* Two workers never hold a fresh claim of the partition at a time, however
\* long their statements took and whatever failed.
ExclusiveWhileFresh == \A v, w \in Owners : Fresh(v) /\ Fresh(w) => v = w

\* A worker that refreshes its claim in time is never refused: a call that
\* begins while the last claim is fresh, and ends before it is stale, finds
\* its own row.
RefreshSucceeds ==
    [][\A w \in Owners : SelectRow(w) /\ Fresh(w) => held'[w].owned]_leaseVars
=============================================================================
