--------------------------- MODULE OrderedConsumer ---------------------------
(***************************************************************************)
(* What a command partition promises its clients, whoever drains it: the   *)
(* commands get a verdict in log order, and the committed offset follows   *)
(* the verdicts one by one, never ahead of them and never back.            *)
(***************************************************************************)
EXTENDS Integers, Sequences

CONSTANT Records

VARIABLES
    log,        \* the commands of the partition
    committed,  \* offset up to which the log is consumed
    settled     \* offsets with a verdict (applied or failed)

vars == <<log, committed, settled>>

Init == log = <<>> /\ committed = 0 /\ settled = {}

Accept == \E r \in Records : log' = Append(log, r) /\ UNCHANGED <<committed, settled>>

\* The next verdict is for the oldest command without one.
Settle ==
    \E o \in 1..Len(log) :
        /\ settled = 1..(o - 1)
        /\ settled' = 1..o
        /\ UNCHANGED <<log, committed>>

Commit ==
    /\ committed + 1 \in settled
    /\ committed' = committed + 1
    /\ UNCHANGED <<log, settled>>

Next == Accept \/ Settle \/ Commit

Safety == Init /\ [][Next]_vars
Spec == Safety /\ WF_vars(Settle) /\ WF_vars(Commit)
=============================================================================
