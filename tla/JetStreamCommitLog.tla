------------------------- MODULE JetStreamCommitLog --------------------------
(***************************************************************************)
(* The committed offsets of the command log on NATS JetStream              *)
(* (internal/natsconn/jetstream_command_log.go): CommitPartition on the    *)
(* commit subject of one partition.  Every client keeps the tail of the    *)
(* subject in a cache and publishes by compare-and-set on it; a client     *)
(* that loses the race reads the tail anew, from a replica that may lag.   *)
(*                                                                         *)
(* The server is modelled from how the client uses it: a publish is one    *)
(* atomic step whose answer may be lost, a read sees some prefix of the    *)
(* subject.                                                                *)
(***************************************************************************)
EXTENDS BrokerPartition

VARIABLES
    commits,   \* Seq of [off, seq]: the commit subject
    commitSeqno,     \* last sequence of the stream
    commit,    \* [Committers -> [pc, client, want, tail, tries]]: CommitPartition calls
    cache      \* [Clients -> [seq, off]]: commitTailCache, NoTail when absent

commitVars == <<commits, commitSeqno, commit, cache>>

StoredCommits == [off : Nat, seq : Nat]
CommitCalls  == [pc : {"idle", "publish", "remember", "reload"}, client : Clients \cup {None},
           want : Nat, tail : Tails, tries : 0..(Retries - 1)]

NoCommit == [pc |-> "idle", client |-> None, want |-> 0, tail |-> NoTail, tries |-> 0]

CommitInit ==
    /\ commits = <<>> /\ commitSeqno = 0
    /\ commit = [k \in Committers |-> NoCommit]
    /\ cache = [c \in Clients |-> NoTail]

-----------------------------------------------------------------------------
(***************************************************************************)
(* CommitPartition.                                                        *)
(***************************************************************************)

CommitReturns(k) == commit' = [commit EXCEPT ![k] = NoCommit]

\* The call starts from the cached tail; an offset at or below it is committed
\* already.
CommitPartition(k, c, o) ==
    /\ commit[k].pc = "idle"
    /\ o > cache[c].off
    /\ commit' = [commit EXCEPT ![k] = [pc |-> "publish", client |-> c, want |-> o,
                                        tail |-> cache[c], tries |-> 0]]
    /\ UNCHANGED <<commits, commitSeqno, cache>>

ExpectsTail(k) == commit[k].tail.seq = TailAt(commits, Len(commits)).seq

StoreCommit(k) ==
    /\ ExpectsTail(k)
    /\ commitSeqno < MaxCommits
    /\ commits' = Append(commits, [off |-> commit[k].want, seq |-> commitSeqno + 1])
    /\ commitSeqno' = commitSeqno + 1

PublishCommit(k) ==
    /\ commit[k].pc = "publish"
    /\ StoreCommit(k)
    /\ commit' = [commit EXCEPT ![k].pc = "remember",
                                ![k].tail = [seq |-> commitSeqno + 1, off |-> commit[k].want]]
    /\ UNCHANGED cache

\* Mutant: the offset is remembered although the publish failed.
PublishCommitFails_Remembers(k) ==
    /\ commit[k].pc = "publish"
    /\ UNCHANGED <<commits, commitSeqno>>
    /\ cache' = [cache EXCEPT ![commit[k].client] = [@ EXCEPT !.off = commit[k].want]]
    /\ CommitReturns(k)

\* The publish fails otherwise than by the sequence check, stored or not.
PublishCommitFails(k) ==
    /\ commit[k].pc = "publish"
    /\ StoreCommit(k) \/ UNCHANGED <<commits, commitSeqno>>
    /\ CommitReturns(k)
    /\ UNCHANGED cache

\* Another commit came first: the cached tail is forgotten.
CommitLosesRace(k) ==
    /\ commit[k].pc = "publish"
    /\ ~ExpectsTail(k)
    /\ cache' = [cache EXCEPT ![commit[k].client] = NoTail]
    /\ commit' = [commit EXCEPT ![k].pc = "reload"]
    /\ UNCHANGED <<commits, commitSeqno>>

\* commitTail fails.
ReloadFails(k) ==
    /\ commit[k].pc = "reload"
    /\ CommitReturns(k)
    /\ UNCHANGED <<commits, commitSeqno, cache>>

\* Mutant: the reloaded tail is not compared with the offset to commit.
CommittedBy_Never(k, tail) == FALSE

CommittedBy(k, tail) == commit[k].want <= tail.off

\* commitTail: the offset is committed by now, or the publish is tried again,
\* or the attempts are used up.
ReloadCommitTail(k) ==
    /\ commit[k].pc = "reload"
    /\ \E n \in 0..Len(commits) :
        LET tail == TailAt(commits, n) IN
        CASE CommittedBy(k, tail) ->
                commit' = [commit EXCEPT ![k].pc = "remember", ![k].tail = tail]
          [] ~CommittedBy(k, tail) /\ commit[k].tries + 1 < Retries ->
                commit' = [commit EXCEPT ![k].pc = "publish", ![k].tail = tail, ![k].tries = @ + 1]
          [] OTHER -> CommitReturns(k)
    /\ UNCHANGED <<commits, commitSeqno, cache>>

RememberCommitTail(k) ==
    /\ commit[k].pc = "remember"
    /\ cache' = [cache EXCEPT ![commit[k].client] = commit[k].tail]
    /\ CommitReturns(k)
    /\ UNCHANGED <<commits, commitSeqno>>

\* A process starts with an empty cache; its calls are gone.
Restart(c) ==
    /\ cache' = [cache EXCEPT ![c] = NoTail]
    /\ commit' = [k \in Committers |-> IF commit[k].client = c THEN NoCommit ELSE commit[k]]
    /\ UNCHANGED <<commits, commitSeqno>>

\* A message of another subject takes the next sequence of the stream.
OtherCommit ==
    /\ commitSeqno < MaxCommits
    /\ commitSeqno' = commitSeqno + 1
    /\ UNCHANGED <<commits, commit, cache>>

-----------------------------------------------------------------------------
CommitStep(k) ==
    \/ PublishCommit(k) \/ PublishCommitFails(k) \/ CommitLosesRace(k)
    \/ ReloadFails(k) \/ ReloadCommitTail(k) \/ RememberCommitTail(k)

CommitNext ==
    \/ \E k \in Committers :
        \/ \E c \in Clients, o \in 1..MaxOffset : CommitPartition(k, c, o)
        \/ CommitStep(k)
    \/ \E c \in Clients : Restart(c)
    \/ OtherCommit

\* Every call runs on; a server call returns, if only with an error.
CommitFairness == \A k \in Committers : WF_commitVars(CommitStep(k))

CommitSpec == CommitInit /\ [][CommitNext]_commitVars
CommitFairSpec == CommitSpec /\ CommitFairness

-----------------------------------------------------------------------------
(***************************************************************************)
(* Properties.                                                             *)
(***************************************************************************)

\* Types of the variables; no call makes more attempts than it may.
CommitTypeOK ==
    /\ commits \in Seq(StoredCommits)
    /\ commitSeqno \in Nat
    /\ commit \in [Committers -> CommitCalls]
    /\ cache \in [Clients -> Tails]

\* The committed offset of a partition only grows, although every client
\* publishes commits from its own cached tail.
CommitsIncrease ==
    \A i, j \in 1..Len(commits) : i < j => commits[i].off < commits[j].off

\* An offset a client holds in its cache is committed: a CommitPartition call
\* that the cache lets return at once has nothing left to do.
CacheCommitted ==
    \A c \in Clients : cache[c].off <= TailAt(commits, Len(commits)).off

\* Every call returns, however many races it loses and stale tails it reads.
CommitsReturn == \A k \in Committers : commit[k].pc # "idle" ~> commit[k].pc = "idle"
=============================================================================
