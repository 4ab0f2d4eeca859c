------------------------ MODULE JetStreamCommandLog -------------------------
(***************************************************************************)
(* The command log on NATS JetStream                                       *)
(* (internal/natsconn/jetstream_command_log.go): AppendCommand on the      *)
(* command subject of one partition, by any number of processes at a time, *)
(* as a compare-and-set on the last sequence of the subject.  The commit   *)
(* subject is in JetStreamCommitLog.                                       *)
(*                                                                         *)
(* The server is modelled from how the client uses it.  A publish is one   *)
(* atomic step; its answer may be lost.  A message id published within the *)
(* duplicate window is answered as a duplicate before the expected         *)
(* sequence is looked at.  Reads are direct gets, which any replica may    *)
(* answer: a read sees some prefix of its subject.                         *)
(***************************************************************************)
EXTENDS BrokerPartition

VARIABLES
    commands,  \* Seq of [off, id, body, seq]: the command subject
    seqno,     \* last sequence of the stream
    window,    \* message ids within the duplicate window
    append,    \* [Producers -> [pc, id, body, tail, tries]]: AppendCommand calls
    \* history
    acked,     \* [id, body, off] of the appends that returned a message
    expired    \* message ids that left the duplicate window

appendVars == <<commands, seqno, window, append, acked, expired>>

Ids    == Cids \cup Nat
StoredCommands == [off : Nat, id : Ids, body : Bodies, seq : Nat]
AppendCalls  == [pc : {"idle", "tail", "publish", "find"}, id : Ids \cup {None},
           body : Bodies \cup {None}, tail : Tails, tries : 0..(Retries - 1)]

NoAppend == [pc |-> "idle", id |-> None, body |-> None, tail |-> NoTail, tries |-> 0]

AppendInit ==
    /\ commands = <<>> /\ seqno = 0 /\ window = {}
    /\ append = [p \in Producers |-> NoAppend]
    /\ acked = {} /\ expired = {}

-----------------------------------------------------------------------------
(***************************************************************************)
(* AppendCommand.                                                          *)
(***************************************************************************)

AppendReturns(p) == append' = [append EXCEPT ![p] = NoAppend]

AppendCommand(p, c, b) ==
    /\ append[p].pc = "idle"
    /\ append' = [append EXCEPT ![p] = [NoAppend EXCEPT !.pc = "tail", !.id = c, !.body = b]]
    /\ UNCHANGED <<commands, seqno, window, acked, expired>>

\* commandTail, and the record made from it.  The synthetic id of a command
\* without one is that of the first offset tried; it is kept when the publish
\* loses the race for that offset.
CommandTail(p) ==
    /\ append[p].pc = "tail"
    /\ \E n \in 0..Len(commands) :
        append' = [append EXCEPT
            ![p].pc = "publish",
            ![p].tail = TailAt(commands, n),
            ![p].id = IF @ = None THEN TailAt(commands, n).off + 1 ELSE @]
    /\ UNCHANGED <<commands, seqno, window, acked, expired>>

\* Mutant: the publish expects nothing of the subject's last sequence.
Accepts_AnySequence(a) == a.id \notin window

\* Mutant: the message id is left out of the publish.
Accepts_NoMsgId(a) == a.tail.seq = TailAt(commands, Len(commands)).seq

\* The server accepts the record.
Accepts(a) == a.id \notin window /\ a.tail.seq = TailAt(commands, Len(commands)).seq

Store(a) ==
    /\ seqno < MaxSeq
    /\ commands' = Append(commands, [off |-> a.tail.off + 1, id |-> a.id, body |-> a.body,
                                     seq |-> seqno + 1])
    /\ seqno' = seqno + 1
    /\ window' = window \cup {a.id}

Receipt(a, off) == [id |-> a.id, body |-> a.body, off |-> off]

Publish(p) ==
    LET a == append[p] IN
    /\ a.pc = "publish"
    /\ Accepts(a)
    /\ Store(a)
    /\ acked' = acked \cup {Receipt(a, a.tail.off + 1)}
    /\ AppendReturns(p)
    /\ UNCHANGED <<expired>>

\* The publish fails otherwise than by the sequence check, stored or not.
PublishFails(p) ==
    /\ append[p].pc = "publish"
    /\ \/ Accepts(append[p]) /\ Store(append[p])
       \/ UNCHANGED <<commands, seqno, window>>
    /\ AppendReturns(p)
    /\ UNCHANGED <<acked, expired>>

\* commandTail or findCommandByReceipt fails, or the context ends during the wait
\* before the next attempt.
ReadFails(p) ==
    /\ append[p].pc \in {"tail", "find"}
    /\ AppendReturns(p)
    /\ UNCHANGED <<commands, seqno, window, acked, expired>>

\* Mutant: one attempt more.
WrongLastSequence_OneMore(p) ==
    /\ append[p].pc = "publish"
    /\ append[p].id \notin window
    /\ ~Accepts(append[p])
    /\ IF append[p].tries < Retries
       THEN append' = [append EXCEPT ![p].pc = "tail", ![p].tries = @ + 1]
       ELSE AppendReturns(p)
    /\ UNCHANGED <<commands, seqno, window, acked, expired>>

\* Another record came first: try again from the new tail, or give up.
WrongLastSequence(p) ==
    /\ append[p].pc = "publish"
    /\ append[p].id \notin window
    /\ ~Accepts(append[p])
    /\ IF append[p].tries + 1 < Retries
       THEN append' = [append EXCEPT ![p].pc = "tail", ![p].tries = @ + 1]
       ELSE AppendReturns(p)
    /\ UNCHANGED <<commands, seqno, window, acked, expired>>

\* The acknowledgement says duplicate.
Duplicate(p) ==
    /\ append[p].pc = "publish"
    /\ append[p].id \in window
    /\ append' = [append EXCEPT ![p].pc = "find"]
    /\ UNCHANGED <<commands, seqno, window, acked, expired>>

\* Mutant: the content is not compared.
SameIdentity_IdOnly(r, a) == TRUE

SameIdentity(r, a) == r.body = a.body

\* findCommandByReceipt: the first record of that id is returned if its content
\* is the same; otherwise, or if the replica does not have it yet, an error.
FindCommandByReceipt(p) ==
    LET a == append[p] IN
    /\ a.pc = "find"
    /\ \E n \in 0..Len(commands) :
        LET found == {i \in 1..n : commands[i].id = a.id} IN
        \/ found = {} /\ UNCHANGED acked
        \/ \E i \in found :
            /\ \A j \in found : i <= j
            /\ acked' = acked \cup (IF SameIdentity(commands[i], a)
                                    THEN {Receipt(a, commands[i].off)} ELSE {})
    /\ AppendReturns(p)
    /\ UNCHANGED <<commands, seqno, window, expired>>

\* An id leaves the duplicate window.
WindowPasses(i) ==
    /\ window' = window \ {i}
    /\ expired' = expired \cup {i}
    /\ UNCHANGED <<commands, seqno, append, acked>>

\* A message of another subject takes the next sequence of the stream.
OtherCommand ==
    /\ seqno < MaxSeq
    /\ seqno' = seqno + 1
    /\ UNCHANGED <<commands, window, append, acked, expired>>

-----------------------------------------------------------------------------
AppendStep(p) ==
    \/ CommandTail(p) \/ Publish(p) \/ PublishFails(p) \/ ReadFails(p)
    \/ WrongLastSequence(p) \/ Duplicate(p) \/ FindCommandByReceipt(p)

AppendNext ==
    \/ \E p \in Producers :
        \/ \E c \in Cids \cup {None}, b \in Bodies : AppendCommand(p, c, b)
        \/ AppendStep(p)
    \/ \E i \in window : WindowPasses(i)
    \/ OtherCommand

\* Every call runs on; a server call returns, if only with an error.
AppendFairness == \A p \in Producers : WF_appendVars(AppendStep(p))

AppendSpec == AppendInit /\ [][AppendNext]_appendVars
AppendFairSpec == AppendSpec /\ AppendFairness

-----------------------------------------------------------------------------
(***************************************************************************)
(* Properties.                                                             *)
(***************************************************************************)

\* Types of the variables; no call makes more attempts than it may.
AppendTypeOK ==
    /\ commands \in Seq(StoredCommands)
    /\ seqno \in Nat
    /\ window \in SUBSET Ids
    /\ append \in [Producers -> AppendCalls]
    /\ acked \in SUBSET [id : Ids, body : Bodies, off : Nat]
    /\ expired \in SUBSET Ids

\* The offsets of a partition are 1, 2, 3, ... without a gap or a repetition,
\* whatever races AppendCommand loses and however stale the tails it reads.
OffsetsDense == \A i \in 1..Len(commands) : commands[i].off = i

\* A command id is in the log once while its message id is in the duplicate
\* window, also for commands whose id was made from an offset they did not get.
IdsUnique ==
    \A i, j \in 1..Len(commands) :
        i # j /\ commands[i].id = commands[j].id => commands[i].id \in expired

\* The offset that AppendCommand returns, first or as a duplicate, is that of
\* the caller's own command.
AckedInLog ==
    \A a \in acked :
        /\ a.off \in 1..Len(commands)
        /\ commands[a.off].id = a.id
        /\ commands[a.off].body = a.body

\* Every call returns, however many races it loses and stale tails it reads.
AppendsReturn == \A p \in Producers : append[p].pc # "idle" ~> append[p].pc = "idle"
=============================================================================
