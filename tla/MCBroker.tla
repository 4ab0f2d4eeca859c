------------------------------ MODULE MCBroker ------------------------------
(***************************************************************************)
(* What the cluster keeps in JetStream, for TLC: the lease, the command    *)
(* subject and the commit subject of a partition, and the counter,         *)
(* presence and chat stores; and the accounts, which are kept in the       *)
(* database.  They do not touch each other's state, so a behaviour runs    *)
(* one of them, the part chosen at the start, and leaves the others alone. *)
(***************************************************************************)
EXTENDS PartitionLease, JetStreamCommandLog, JetStreamCommitLog, CounterStore, PresenceChat, Accounts, TLC

VARIABLE part    \* what runs

\* The variables of the presence and chat stores besides the bucket.
callVars == <<request, calls, clock, writtenAt, pinged, dropped, astray, said, trimmed>>
jobVars == <<job, jobs, deleted, dirty>>

vars == <<part, leaseVars, appendVars, commitVars, bucketVars, jobVars, callVars, accountVars>>

BrokerParts == {"lease", "commands", "commits", "counters", "users", "guests", "chat",
                 "sql users", "sql guests", "sql chat"}

\* The accounts while another part runs.
Nobody == [EmptySite EXCEPT !.factors = NoRow, !.personal = NoRow]

Init ==
    /\ LeaseInit /\ AppendInit /\ CommitInit /\ CounterInit /\ PresenceInit
    /\ \/ part \in BrokerParts /\ AccountInit(Nobody, 0)
       \/ part = "signup" /\ SignupInit
       \/ part = "sessions" /\ SessionInit
       \/ part = "factors" /\ FactorInit
       \/ part \in {"signatures", "rules"} /\ SignatureInit

Next ==
    \/ part = "lease" /\ LeaseNext
       /\ UNCHANGED <<part, appendVars, commitVars, bucketVars, jobVars, callVars, accountVars>>
    \/ part = "commands" /\ AppendNext
       /\ UNCHANGED <<part, leaseVars, commitVars, bucketVars, jobVars, callVars, accountVars>>
    \/ part = "commits" /\ CommitNext
       /\ UNCHANGED <<part, leaseVars, appendVars, bucketVars, jobVars, callVars, accountVars>>
    \/ part = "counters" /\ CounterNext
       /\ UNCHANGED <<part, leaseVars, appendVars, commitVars, callVars, accountVars>>
    \/ /\ \/ part = "users" /\ \E c \in Callers : StartsUserPing(c, {<<"una", "s1">>}, Places)
          \/ part = "sql users" /\ \E c \in Callers : StartsUserPing(c, Sessions, {<<>>})
          \/ part \in {"guests", "sql guests"} /\ \E c \in Callers : StartsGuestPing(c)
          \/ part \in {"chat", "sql chat"} /\ \E c \in Callers : StartsLine(c)
          \/ part \in {"users", "guests", "chat"} /\ PresenceSteps
          \/ part \in {"sql users", "sql guests", "sql chat"} /\ TableSteps
       /\ UNCHANGED <<part, leaseVars, appendVars, commitVars, jobVars, accountVars>>
    \/ /\ \/ part = "signup" /\ SignupNext
          \/ part = "sessions" /\ SessionNext
          \/ part = "factors" /\ FactorNext
          \/ part = "signatures" /\ SignatureNext
          \/ part = "rules" /\ RuleNext
       /\ UNCHANGED <<part, leaseVars, appendVars, commitVars, bucketVars, jobVars, callVars>>

Spec == Init /\ [][Next]_vars

\* The reactions and votes of the author of the posts are counted in a shard of their own.
MCShardOf == [u \in Users |-> IF u = Writer THEN 1 ELSE 0]

MCSessions == {<<"una", "s1">>, <<"una", "s2">>}

\* Processes and calls are interchangeable, and so are the contents of commands,
\* the posts and the clients.  As one part runs, the same model values stand for the
\* processes and calls of every part.
Interchangeable == Permutations(Callers) \cup Permutations(Bodies)
=============================================================================
