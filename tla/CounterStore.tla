---------------------------- MODULE CounterStore ----------------------------
(***************************************************************************)
(* The counter store kept in a JetStream bucket                            *)
(* (natsconn/jetstream_counter_store.go), with the commands, the account   *)
(* deletion and the repair that use it at the same time.                   *)
(*                                                                         *)
(* Who reacted and who voted are identity keys; the numbers shown are      *)
(* count keys, a shard per group of users; what an author received is one  *)
(* more count.  The bucket has no transactions: a mutation writes one key  *)
(* after the other, each by compare-and-swap, and keeps a list of undo     *)
(* steps for the case that a later write fails.  Commands on one post or   *)
(* poll are serialized by the lock of their partition; commands on other   *)
(* posts of the same author, the cleanup after an account is deleted and   *)
(* the repair are not.                                                     *)
(***************************************************************************)
EXTENDS KeyValueBucket, SequencesExt

CONSTANTS
    Posts, Polls, Options, Users, Emojis,
    Writer,    \* the author of every post, one of Users
    ShardOf,   \* the count shard of a user's reactions and votes
    MaxJobs    \* bound: commands, deletions and repairs started

VARIABLES
    job,       \* what each caller is doing
    jobs,      \* started so far
    deleted,   \* deleted users
    dirty      \* history: posts, polls and (as Writer) the received count whose
               \* counts a crash, a failed undo or an unserialized overlap may
               \* have left wrong

counterVars == <<bucketVars, job, jobs, deleted, dirty>>

ASSUME CounterAssumption == Writer \in Users /\ ShardOf \in [Users -> Nat] /\ MaxJobs \in Nat

jetStreamReactionKey(p, u) == <<"reaction", p, u>>
jetStreamReactionCountKey(p, s) == <<"reaction_count", p, s>>
jetStreamPollVoteKey(p, u) == <<"poll_vote", p, u>>
jetStreamPollOptionVoteCountKey(p, o, s) == <<"poll_option_vote_count", p, o, s>>
jetStreamReactionReceivedCountKey(u) == <<"reaction_received", u>>

Shards == Range(ShardOf)

---------------------------------------------------------------------------
\* A task is one update of one key: read it, then write it under the revision
\* read, again from the read when the revision is no longer the last.  fix is
\* what follows when it fails, undo what a later rollback adds once it is done.

Task(do, k, arg) == [do |-> do, key |-> k, arg |-> arg, fix |-> <<>>, undo |-> <<>>]
With(t, fix, undo) == [t EXCEPT !.fix = fix, !.undo = undo]

incrementCount(k, n) == Task("increment", k, n)
setCountRecord(k, n) == Task("set", k, n)
deleteCountRecord(k) == Task("delete", k, Absent)
restoreRecord(k, v) == Task("set", k, v)
deleteCreated(k) == Task("deleteCreated", k, Absent)

UpsertReaction(p, u, e) == Task("upsertReaction", jetStreamReactionKey(p, u), e)
DeleteReaction(p, u) == Task("deleteReaction", jetStreamReactionKey(p, u), Absent)
CastVote(p, u, o) == Task("castVote", jetStreamPollVoteKey(p, u), o)
DeletePollVote(p, u) == Task("deleteVote", jetStreamPollVoteKey(p, u), Absent)
RecordReactionReceived(u) ==
    LET k == jetStreamReactionReceivedCountKey(u) IN
    With(incrementCount(k, 1), <<>>, <<incrementCount(k, -1)>>)
RecordReactionRemoved(u) == Task("removed", jetStreamReactionReceivedCountKey(u), Absent)
ClearReactionReceived(u) == Task("clearReceived", jetStreamReactionReceivedCountKey(u), Absent)

\* Nothing is written when the read finds nothing to remove or to decrement,
\* or when the read was only there to prepare the next task.
NoWrite(t, old) ==
    \/ t.do \in {"removed", "clearReceived"}
    \/ t.do \in {"delete", "deleteReaction", "deleteVote"} /\ old = Absent
    \/ t.do = "increment" /\ old = Absent /\ t.arg <= 0

NewValue(t, old) ==
    IF t.do # "increment" THEN t.arg
    ELSE IF old = Absent THEN t.arg
    ELSE IF old + t.arg <= 0 THEN Absent ELSE old + t.arg

\* The count of the option or post that the identity key k is counted in.
CountKey(k, v) ==
    IF k[1] = "reaction" THEN jetStreamReactionCountKey(k[2], ShardOf[k[3]])
    ELSE jetStreamPollOptionVoteCountKey(k[2], v, ShardOf[k[3]])

\* Mutant: the identity stays when its count cannot be written.
IdentityCreated_Kept(t) ==
    LET n == CountKey(t.key, t.arg) IN
    <<With(incrementCount(n, 1), <<>>, <<deleteCreated(t.key), incrementCount(n, -1)>>)>>

\* What follows a task that is done: the tasks it adds.
IdentityCreated(t) ==
    LET n == CountKey(t.key, t.arg) IN
    <<With(incrementCount(n, 1), <<deleteCreated(t.key)>>, <<deleteCreated(t.key), incrementCount(n, -1)>>)>>

IdentityDeleted(t, old) ==
    LET n == CountKey(t.key, old) IN
    <<With(incrementCount(n, -1), <<restoreRecord(t.key, old)>>,
           <<restoreRecord(t.key, old), incrementCount(n, 1)>>)>>

VoteChanged(t, old) ==
    LET was == CountKey(t.key, old)
        now == CountKey(t.key, t.arg)
        back == restoreRecord(t.key, old) IN
    <<With(incrementCount(was, -1), <<back>>, <<>>),
      With(incrementCount(now, 1), <<incrementCount(was, 1), back>>,
           <<incrementCount(now, -1), incrementCount(was, 1), back>>)>>

FollowUp(t, old) ==
    CASE t.do \in {"upsertReaction", "castVote"} /\ old = Absent -> IdentityCreated(t)
      [] t.do = "castVote" /\ old \notin {Absent, t.arg} -> VoteChanged(t, old)
      [] t.do \in {"deleteReaction", "deleteVote"} /\ old # Absent -> IdentityDeleted(t, old)
      [] t.do = "removed" ->
            <<With(incrementCount(t.key, -1), <<>>,
                   IF old # Absent THEN <<incrementCount(t.key, 1)>> ELSE <<>>)>>
      [] t.do = "clearReceived" /\ old # Absent ->
            <<With(deleteCountRecord(t.key), <<>>, <<setCountRecord(t.key, old)>>)>>
      [] OTHER -> <<>>

\* An identity written over keeps what was there for the rollback.
Undo(t, old) ==
    IF t.do \in {"upsertReaction", "castVote"} /\ old # Absent
       /\ (t.do = "castVote" => old = t.arg)
    THEN <<restoreRecord(t.key, old)>> ELSE t.undo
---------------------------------------------------------------------------
Idle == [op |-> "none", user |-> Absent, target |-> Absent, mode |-> "do", phase |-> "read",
         tasks |-> <<>>, undo |-> <<>>, seen |-> Absent, tries |-> 0, over |-> {}]

CounterInit ==
    /\ BucketInit
    /\ job = [c \in Callers |-> Idle]
    /\ jobs = 0
    /\ deleted = {}
    /\ dirty = {}

Busy(c) == job[c].op # "none"
Running(op) == {c \in Callers : job[c].op = op}
Targets == Posts \cup Polls

\* The counts that the job of a caller may leave wrong.
Touched(c) ==
    CASE job[c].op = "cleanup" -> Targets \cup {Writer}
      [] job[c].op = "repair" -> job[c].over
      [] OTHER -> {job[c].target, Writer}

\* A job starts.  Two that no lock keeps apart may undo each other's work: a
\* command of a user and the cleanup of that user's deletion, and the repair
\* with anything that changes a count after it has counted.
Start(c, j, meets) ==
    /\ jobs < MaxJobs
    /\ jobs' = jobs + 1
    /\ job' = [d \in Callers |->
                  IF d = c THEN j
                  ELSE IF job[d].op = "repair" THEN [job[d] EXCEPT !.over = @ \cup meets] ELSE job[d]]
    /\ UNCHANGED bucketVars

Command(c, op, u, x, tasks) ==
    /\ ~Busy(c)
    /\ u \notin deleted
    /\ \A d \in Callers : job[d].target # x        \* the lock of the partition
    /\ Start(c, [Idle EXCEPT !.op = op, !.user = u, !.target = x, !.tasks = tasks], {x})
    /\ dirty' = IF \E d \in Running("cleanup") : job[d].user = u THEN dirty \cup {x, Writer} ELSE dirty
    /\ UNCHANGED deleted

\* Whether the user has reacted already is read before the mutation begins.
reactPost(c, p, u, e) ==
    Command(c, "react", u, p,
            <<UpsertReaction(p, u, e)>>
                \o IF Value(jetStreamReactionKey(p, u)) = Absent /\ u # Writer
                   THEN <<RecordReactionReceived(Writer)>> ELSE <<>>)

unreactPost(c, p, u) ==
    /\ Value(jetStreamReactionKey(p, u)) # Absent
    /\ Command(c, "unreact", u, p,
               <<DeleteReaction(p, u)>> \o IF u # Writer THEN <<RecordReactionRemoved(Writer)>> ELSE <<>>)

votePoll(c, p, u, o) == Command(c, "vote", u, p, <<CastVote(p, u, o)>>)

\* The reactions and votes of a user, read before the transaction that deletes
\* the account, in any order; they are removed after it has committed, without
\* a lock.
UserCounterIdentity(u, kind) == SetToSeqs({k \in DOMAIN kv : k[1] = kind /\ k[3] = u})

cleanupDeletedUserCounterIdentity(u, reactions, votes) ==
    FlattenSeq([i \in DOMAIN reactions |-> <<DeleteReaction(reactions[i][2], u), RecordReactionRemoved(Writer)>>])
        \o [i \in DOMAIN votes |-> DeletePollVote(votes[i][2], u)]
        \o <<ClearReactionReceived(u)>>

DeleteUser(c, u) ==
    /\ ~Busy(c)
    /\ u \notin deleted
    /\ deleted' = deleted \cup {u}
    /\ \E reactions \in UserCounterIdentity(u, "reaction"), votes \in UserCounterIdentity(u, "poll_vote") :
          Start(c, [Idle EXCEPT !.op = "cleanup", !.user = u,
                                !.tasks = cleanupDeletedUserCounterIdentity(u, reactions, votes)], Targets)
    /\ dirty' = dirty \cup UNION {{job[d].target, Writer} : d \in {d \in Callers : Busy(d) /\ job[d].user = u}}

\* The repair counts the identities, sets the shards that should be there,
\* those of posts first, and deletes the others.
Counted ==
    [n \in {CountKey(k, kv[k]) : k \in {i \in DOMAIN kv : i[1] \in {"reaction", "poll_vote"}}} |->
        Cardinality({k \in {i \in DOMAIN kv : i[1] \in {"reaction", "poll_vote"}} : CountKey(k, kv[k]) = n})]

RebuildAggregateShardsFromIdentity(counted) ==
    LET keep(kind) == SetToSeqs({k \in DOMAIN counted : k[1] = kind})
        stale == SetToSeqs({k \in DOMAIN kv \ DOMAIN counted : k[1] \in {"reaction_count", "poll_option_vote_count"}})
        set(s) == [i \in DOMAIN s |-> setCountRecord(s[i], counted[s[i]])]
        delete(s) == [i \in DOMAIN s |-> deleteCountRecord(s[i])] IN
    {set(r) \o set(v) \o delete(s) :
        r \in keep("reaction_count"), v \in keep("poll_option_vote_count"), s \in stale}

Repair(c) ==
    /\ ~Busy(c)
    /\ Running("repair") = {}
    /\ \E tasks \in RebuildAggregateShardsFromIdentity(Counted) :
          Start(c, [Idle EXCEPT !.op = "repair", !.tasks = tasks,
                                !.over = UNION {Touched(d) : d \in {d \in Callers : Busy(d)}}], {})
    /\ UNCHANGED <<deleted, dirty>>

---------------------------------------------------------------------------
\* The steps of a job.

Current(c) == Head(job[c].tasks)

\* The task is done: its follow-ups come next, and its undo steps come first
\* in a rollback.
Done(c, old) ==
    LET doing == job[c].mode = "do" IN
    job' = [job EXCEPT ![c].tasks = (IF doing THEN FollowUp(Current(c), old) ELSE <<>>) \o Tail(@),
                       ![c].undo = (IF doing THEN Undo(Current(c), old) ELSE <<>>) \o @,
                       ![c].phase = "read", ![c].tries = 0, ![c].seen = Absent]

\* The task fails: what it asks for then, and the rollback, which ignores the
\* failures of its own steps.
Failed(c) ==
    job' = [job EXCEPT ![c].tasks = IF job[c].mode = "do" THEN Current(c).fix \o job[c].undo ELSE Tail(@),
                       ![c].undo = <<>>, ![c].mode = "undo",
                       ![c].phase = "read", ![c].tries = 0, ![c].seen = Absent]

ReadTask(c) ==
    /\ Busy(c) /\ job[c].tasks # <<>> /\ job[c].phase = "read"
    /\ Current(c).do # "deleteCreated"
    /\ Get(c, Current(c).key)
    /\ IF NoWrite(Current(c), Value(Current(c).key)) THEN Done(c, Value(Current(c).key))
       ELSE job' = [job EXCEPT ![c].phase = "write", ![c].seen = Value(Current(c).key)]
    /\ UNCHANGED <<faults, jobs, deleted, dirty>>

LastRevision(c) == Current(c).key \in fresh[c]

WriteTask(c) ==
    /\ Busy(c) /\ job[c].tasks # <<>> /\ job[c].phase = "write"
    /\ LastRevision(c)
    /\ WriteKey(c, Current(c).key, NewValue(Current(c), job[c].seen))
    /\ Done(c, job[c].seen)
    /\ UNCHANGED <<faults, jobs, deleted, dirty>>

\* The revision is an older one: once more, unless this was the last attempt.
\* An undo step that gives up leaves a count wrong.
Conflict(c) ==
    /\ Busy(c) /\ job[c].tasks # <<>> /\ job[c].phase = "write"
    /\ ~LastRevision(c)
    /\ IF job[c].tries + 1 = BucketRetries
       THEN Failed(c) /\ dirty' = IF job[c].mode = "undo" THEN dirty \cup Touched(c) ELSE dirty
       ELSE /\ job' = [job EXCEPT ![c].phase = "read", ![c].tries = @ + 1]
            /\ UNCHANGED dirty
    /\ UNCHANGED <<bucketVars, jobs, deleted>>

\* The undo of a created identity needs no read: it names the revision created.
DeleteCreated(c) ==
    /\ Busy(c) /\ job[c].tasks # <<>> /\ Current(c).do = "deleteCreated"
    /\ IF Current(c).key \in fresh[c] THEN WriteKey(c, Current(c).key, Absent) ELSE UNCHANGED <<kv, fresh>>
    /\ Done(c, Absent)
    /\ UNCHANGED <<faults, jobs, deleted, dirty>>

\* A call fails: before it reached the bucket, or after, with only the answer lost.
Fail(c) ==
    /\ faults < MaxFaults /\ Busy(c) /\ job[c].tasks # <<>>
    /\ faults' = faults + 1
    /\ \/ /\ UNCHANGED <<kv, fresh>>
          /\ dirty' = IF job[c].mode = "undo" THEN dirty \cup Touched(c) ELSE dirty
       \/ /\ job[c].phase = "write" /\ Current(c).key \in fresh[c]
          /\ WriteKey(c, Current(c).key, NewValue(Current(c), job[c].seen))
          /\ dirty' = dirty \cup Touched(c)
    /\ Failed(c)
    /\ UNCHANGED <<jobs, deleted>>

\* The process of the caller stops; its lock is released.
Crash(c) ==
    /\ faults < MaxFaults /\ Busy(c)
    /\ faults' = faults + 1
    /\ dirty' = dirty \cup Touched(c)
    /\ job' = [job EXCEPT ![c] = Idle]
    /\ Forget(c)
    /\ UNCHANGED <<kv, jobs, deleted>>

\* Commit, or the end of the rollback.  A repair that met nobody leaves every
\* count right.
Finish(c) ==
    /\ Busy(c) /\ job[c].tasks = <<>>
    /\ dirty' = CASE job[c].op = "repair" /\ job[c].mode = "do" -> (dirty \ Targets) \cup job[c].over
                  [] job[c].op = "repair" -> dirty \cup job[c].over
                  [] OTHER -> dirty
    /\ job' = [job EXCEPT ![c] = Idle]
    /\ Forget(c)
    /\ UNCHANGED <<kv, faults, jobs, deleted>>

CounterNext ==
    \/ \E c \in Callers :
          \/ \E p \in Posts, u \in Users : (\E e \in Emojis : reactPost(c, p, u, e)) \/ unreactPost(c, p, u)
          \/ \E p \in Polls, u \in Users, o \in Options : votePoll(c, p, u, o)
          \/ \E u \in Users : DeleteUser(c, u)
          \/ Repair(c)
          \/ ReadTask(c) \/ WriteTask(c) \/ Conflict(c) \/ DeleteCreated(c)
          \/ Fail(c) \/ Crash(c) \/ Finish(c)
    \/ (\A c \in Callers : ~Busy(c)) /\ jobs = MaxJobs /\ UNCHANGED counterVars

---------------------------------------------------------------------------
\* What is shown is the sum of the shards.
ReactionCount(p, s) == CountOf(jetStreamReactionCountKey(p, s))
PollOptionVoteCount(p, o, s) == CountOf(jetStreamPollOptionVoteCountKey(p, o, s))
UserReacted(p, u) == Value(jetStreamReactionKey(p, u)) # Absent
PollVote(p, u) == Value(jetStreamPollVoteKey(p, u))

Suspect == dirty \cup UNION {job[c].over : c \in Running("repair")}
Changing == {job[c].target : c \in Callers}
Settled == IF Running("cleanup") = {} THEN (Targets \cup {Writer}) \ (Suspect \cup Changing) ELSE {}

\* What an author is said to have received is the number of reactions of other
\* users to the author's posts.
ReceivedMatches ==
    ((\A c \in Callers : ~Busy(c)) /\ Writer \in Settled \ deleted) =>
        CountOf(jetStreamReactionReceivedCountKey(Writer))
            = Cardinality({<<p, u>> \in Posts \X (Users \ {Writer}) : UserReacted(p, u)})

\* Every shard of the number shown for a post counts the users of the shard who
\* reacted to it, and every shard of a poll option those who chose it, whenever
\* nobody is changing them: after rollbacks, lost races on a shard, failed calls
\* and a repair, and excepting what a crash, a failed undo or an unlocked overlap
\* left behind, until a repair that met nobody has set it right.  So does the
\* count of what an author received, although reactions to different posts
\* update it at the same time.
CountsMatch ==
    /\ \A p \in Posts \cap Settled, s \in Shards :
          ReactionCount(p, s) = Cardinality({u \in Users : ShardOf[u] = s /\ UserReacted(p, u)})
    /\ \A p \in Polls \cap Settled, s \in Shards, o \in Options :
          PollOptionVoteCount(p, o, s) = Cardinality({u \in Users : ShardOf[u] = s /\ PollVote(p, u) = o})
    /\ ReceivedMatches
=============================================================================
