-------------------------- MODULE BrokerPartition ---------------------------
(***************************************************************************)
(* One partition of the command log as its clients see it: the constants   *)
(* of the modules that model the log on NATS JetStream, the offsets        *)
(* committed on it and the lease of the partition, and what these share.   *)
(***************************************************************************)
EXTENDS Integers, Sequences, FiniteSets

CONSTANTS
    \* the lease
    Owners,     \* writer processes (CommandLogWorkerConfig.OwnerID)
    NoOwner,    \* no row yet
    TTL,        \* claim TTL
    Skew,       \* largest error of a clock
    MaxTime,    \* bound: the true time
    \* the command subject
    Producers,  \* AppendCommand calls that may run at a time
    Cids,       \* command ids given by callers, with their actor
    Bodies,     \* contents, as told apart by SameBrokerCommandRecordIdentity
    None,       \* no command id given, no client, no value
    Retries,    \* jetStreamCommandLogAppendRetries
    MaxSeq,     \* bound: messages of the stream
    \* the commit subject
    Committers, \* CommitPartition calls that may run at a time
    Clients,    \* JetStreamCommandLogClient instances
    MaxOffset,  \* bound: offsets to commit
    MaxCommits  \* bound: messages of the stream

ASSUME LeaseConstants ==
    /\ NoOwner \notin Owners
    /\ TTL \in Nat \ {0} /\ Skew \in Nat /\ MaxTime \in Nat

\* Synthetic command ids are the offsets they are made from.
ASSUME JetStreamConstants ==
    /\ None \notin Cids \cup Nat
    /\ \A c \in Cids : c \notin Nat
    /\ Bodies # {}
    /\ Retries \in Nat \ {0}
    /\ MaxSeq \in Nat

ASSUME CommitConstants ==
    /\ None \notin Clients
    /\ Retries \in Nat \ {0}
    /\ MaxOffset \in Nat
    /\ MaxCommits \in Nat

Tails  == [seq : Nat, off : Nat]
NoTail == [seq |-> 0, off |-> 0]

\* The last message of subject q, as a replica that has its first n sees it.
TailAt(q, n) == IF n = 0 THEN NoTail ELSE [seq |-> q[n].seq, off |-> q[n].off]
=============================================================================
