------------------------ MODULE LiveBusPublishProofs -------------------------
(***************************************************************************)
(* Proofs about LiveBus: the inductive invariant, and the steps that       *)
(* publish events and serve them to subscriptions.  The calls of the       *)
(* connections and the theorems are in LiveBusProofs.                      *)
(***************************************************************************)
EXTENDS LiveBus, TLAPS

Messages == [evt : Events, own : BOOLEAN]

Msg(e, own) == [evt |-> e, own |-> own]

Typed ==
    /\ listed \subseteq Subs /\ filter \in [Subs -> SUBSET Scopes]
    /\ call \in [Subs -> [op : Ops, set : SUBSET Scopes]]
    /\ started \in BOOLEAN /\ upstream \subseteq Scopes
    /\ subScopes \in [Subs -> SUBSET Scopes] /\ refs \in [Scopes -> Nat]
    /\ queue \in [Scopes -> Seq(Messages)] /\ seen \in Seq(Events)
    /\ fan \in [Threads -> [evt : Events \cup {0}, todo : SUBSET Subs]]
    /\ \A t \in Threads : Busy(t) => fan[t].evt \in Events
    /\ scopesOf \in [Events -> SUBSET Scopes] /\ owed \in [Subs -> SUBSET (Events \X Scopes)]
    /\ got \in [Subs -> [Events -> Nat]]

In(q, x) == \E i \in DOMAIN q : q[i] = x

\* A message of a sibling's event waits at scope c.
Pending(c, e) == In(queue[c], Msg(e, FALSE))

Unheard(c, e) == Pending(c, e) /\ ~In(seen, e)

\* Thread t has still to serve e to s.
Serves(t, s, e) == fan[t].evt = e /\ s \in fan[t].todo

\* The subscription between the halves of its calls.
Connected(s) ==
    /\ call[s].op \in {"subscribe", "none", "add", "remove"} => s \in listed
    /\ s \in closed => call[s].op \in {"unsubscribe", "gone"}
    /\ call[s].op \in {"new", "subscribe"} => subScopes[s] = {}
    /\ call[s].op \notin {"none", "add", "remove"} => owed[s] = {}
    /\ call[s].op = "none" => filter[s] = subScopes[s]
    /\ call[s].op \in {"subscribe", "add"} => filter[s] = subScopes[s] \cup call[s].set
    /\ call[s].op = "remove" => filter[s] = subScopes[s] \ call[s].set

Connections == \A s \in Subs : Connected(s)

Holders(c) == {s \in Subs : c \in subScopes[s]}

Counted == \A c \in Scopes : refs[c] = Cardinality(Holders(c))

InUse == {c \in Scopes : refs[c] > 0}

Upstream ==
    /\ started => upstream = InUse \ failed /\ failed \subseteq InUse
    /\ ~started => upstream = {}
    /\ \A c \in Scopes : queue[c] # <<>> => c \in upstream

\* Nobody has e or is being served it.
Untouched(e) == \A s \in Subs : got[s][e] = 0 /\ \A t \in Threads : ~Serves(t, s, e)

\* An event that is not published yet is nowhere.
Unpublished ==
    \A e \in Events : scopesOf[e] = {} =>
        /\ Untouched(e) /\ ~In(seen, e)
        /\ \A c \in Scopes : ~In(queue[c], Msg(e, TRUE)) /\ ~Pending(c, e)

\* An event goes to a subscription by one thread, once.
SentByOne(e) ==
    \A s \in Subs :
        /\ got[s][e] <= 1
        /\ \A t \in Threads : Serves(t, s, e) =>
              got[s][e] = 0 /\ \A u \in Threads : Serves(u, s, e) => u = t

\* So do the events that the memory holds, and not before their first message
\* is heard.
Once ==
    \A e \in Events : e \notin forgotten =>
        SentByOne(e) /\ \A c \in Scopes : Unheard(c, e) => Untouched(e)

\* Event e is sent to s, being sent, or unheard at scope c.
OnItsWay(s, e, c) == got[s][e] > 0 \/ (\E t \in Threads : Serves(t, s, e)) \/ Unheard(c, e)

\* What is owed is kept by its scope and on its way.
Due ==
    \A s \in Subs, e \in Events, c \in Scopes : <<e, c>> \in owed[s] =>
        /\ c \in subScopes[s] /\ c \in scopesOf[e]
        /\ call[s].op = "remove" => c \notin call[s].set
        /\ OnItsWay(s, e, c)

\* The inductive invariant.
IInv == Typed /\ Connections /\ Counted /\ Upstream /\ Unpublished /\ Once /\ Due

-----------------------------------------------------------------------------
(* Sequences *)

LEMMA AppendIn ==
    ASSUME NEW S, NEW q \in Seq(S), NEW m \in S, NEW x
    PROVE  In(Append(q, m), x) <=> In(q, x) \/ x = m
  <1>1. /\ Len(q) \in Nat /\ DOMAIN q = 1..Len(q) /\ DOMAIN Append(q, m) = 1..Len(q) + 1
        /\ Append(q, m)[Len(q) + 1] = m /\ \A i \in 1..Len(q) : Append(q, m)[i] = q[i]
    OBVIOUS
  <1>2. In(Append(q, m), x) => In(q, x) \/ x = m
    BY <1>1 DEF In
  <1>3. In(q, x) => In(Append(q, m), x)
    BY <1>1 DEF In
  <1>4. x = m => In(Append(q, m), x)
    <2>1. Len(q) + 1 \in DOMAIN Append(q, m)
      BY <1>1
    <2> QED  BY <1>1, <2>1 DEF In
  <1> QED  BY <1>2, <1>3, <1>4

LEMMA TailIn ==
    ASSUME NEW S, NEW q \in Seq(S), q # <<>>, NEW x
    PROVE  /\ Tail(q) \in Seq(S) /\ Head(q) \in S
           /\ In(q, x) <=> x = Head(q) \/ In(Tail(q), x)
  <1>1. /\ Len(q) \in Nat \ {0} /\ DOMAIN q = 1..Len(q) /\ DOMAIN Tail(q) = 1..Len(q) - 1
        /\ Head(q) = q[1] /\ \A i \in 1..Len(q) - 1 : Tail(q)[i] = q[i + 1]
    OBVIOUS
  <1>2. Tail(q) \in Seq(S) /\ Head(q) \in S
    OBVIOUS
  <1>3. In(q, x) => x = Head(q) \/ In(Tail(q), x)
    <2> SUFFICES ASSUME NEW i \in 1..Len(q), q[i] = x, i # 1 PROVE In(Tail(q), x)
      BY <1>1 DEF In
    <2>1. i - 1 \in 1..Len(q) - 1 /\ (i - 1) + 1 = i
      BY <1>1
    <2> QED  BY <1>1, <2>1, Zenon DEF In
  <1>4. x = Head(q) => In(q, x)
    <2>1. 1 \in DOMAIN q
      BY <1>1
    <2> QED  BY <1>1, <2>1 DEF In
  <1>5. In(Tail(q), x) => In(q, x)
    <2> SUFFICES ASSUME NEW i \in 1..Len(q) - 1, Tail(q)[i] = x PROVE In(q, x)
      BY <1>1 DEF In
    <2>1. i + 1 \in DOMAIN q /\ q[i + 1] = x
      BY <1>1
    <2> QED  BY <2>1 DEF In
  <1> QED  BY <1>2, <1>3, <1>4, <1>5

\* The memory takes an event and loses at most what it says it has forgotten.
LEMMA Remembered ==
    ASSUME seen \in Seq(Events), NEW e \in Events, rememberRemote(e)
    PROVE  /\ seen' \in Seq(Events) /\ In(seen', e) /\ forgotten \subseteq forgotten'
           /\ \A x : In(seen', x) => In(seen, x) \/ x = e
           /\ \A x : In(seen, x) => In(seen', x) \/ x \in forgotten'
  <1>1. CASE Len(seen) = DedupeLimit
    <2>1. seen' = Append(Tail(seen), e) /\ forgotten' = forgotten \cup {Head(seen)}
      BY <1>1 DEF rememberRemote
    <2>2. seen # <<>>
      BY <1>1, BusConstants
    <2>3. Tail(seen) \in Seq(Events) /\ \A x : In(seen, x) <=> x = Head(seen) \/ In(Tail(seen), x)
      BY <2>2, TailIn
    <2>4. seen' \in Seq(Events)
      BY <2>1, <2>3
    <2>5. \A x : In(seen', x) <=> In(Tail(seen), x) \/ x = e
      BY <2>1, <2>3, AppendIn, Zenon
    <2> QED  BY <2>1, <2>3, <2>4, <2>5
  <1>2. CASE Len(seen) # DedupeLimit
    <2>1. seen' = Append(seen, e) /\ forgotten' = forgotten
      BY <1>2 DEF rememberRemote
    <2>2. \A x : In(seen', x) <=> In(seen, x) \/ x = e
      BY <2>1, AppendIn
    <2> QED  BY <2>1, <2>2
  <1> QED  BY <1>1, <1>2

-----------------------------------------------------------------------------
(* Sending *)

\* An event that nobody is served anew stays sent by one.
LEMMA SentByOneKept ==
    ASSUME NEW e \in Events, SentByOne(e), \A s \in Subs : got'[s][e] = got[s][e],
           \A t \in Threads, s \in Subs : Serves(t, s, e)' => Serves(t, s, e)
    PROVE  SentByOne(e)'
  BY DEF SentByOne

\* An event that one thread takes up and nobody has is sent by one.
LEMMA SentByOneFirst ==
    ASSUME NEW e \in Events, NEW t0 \in Threads, \A s \in Subs : got'[s][e] = 0,
           \A t \in Threads, s \in Subs : Serves(t, s, e)' => t = t0
    PROVE  SentByOne(e)'
  BY DEF SentByOne

-----------------------------------------------------------------------------
(* What a step keeps *)

\* With messages and sends as they were, or with messages discarded, what is
\* said of events stays true.
LEMMA MessagesKept ==
    ASSUME Unpublished, Once, UNCHANGED <<seen, forgotten, fan, scopesOf, got>>,
           \A c \in Scopes : \A x : In(queue'[c], x) => In(queue[c], x)
    PROVE  Unpublished' /\ Once'
  <1>1. \A e \in Events : Untouched(e)' = Untouched(e)
    BY DEF Untouched, Serves
  <1>2. /\ \A e \in Events : In(seen, e)' = In(seen, e)
        /\ \A e \in Events, c \in Scopes :
              /\ Pending(c, e)' => Pending(c, e)
              /\ In(queue[c], Msg(e, TRUE))' => In(queue[c], Msg(e, TRUE))
              /\ Unheard(c, e)' => Unheard(c, e)
    <2>1. \A e \in Events : In(seen, e)' = In(seen, e)
      BY DEF In
    <2>2. \A e \in Events, c \in Scopes :
              /\ Pending(c, e)' => Pending(c, e)
              /\ In(queue[c], Msg(e, TRUE))' => In(queue[c], Msg(e, TRUE))
      <3> SUFFICES ASSUME NEW e \in Events, NEW c \in Scopes
                   PROVE  /\ In(queue'[c], Msg(e, FALSE)) => In(queue[c], Msg(e, FALSE))
                          /\ In(queue'[c], Msg(e, TRUE)) => In(queue[c], Msg(e, TRUE))
        BY DEF Pending, In, Msg
      <3> QED  BY Zenon
    <2> QED  BY <2>1, <2>2, Zenon DEF Unheard
  <1>3. Unpublished'
    BY <1>1, <1>2, Zenon DEF Unpublished
  <1>4. \A e \in Events : SentByOne(e) => SentByOne(e)'
    BY SentByOneKept DEF Serves
  <1>5. Once'
    BY <1>1, <1>2, <1>4, Zenon DEF Once
  <1> QED  BY <1>3, <1>5

\* A call that keeps the messages keeps what is due.
LEMMA DueKept ==
    ASSUME Due, UNCHANGED <<queue, seen, fan, got, scopesOf>>,
           \A s \in Subs, e \in Events, c \in Scopes : <<e, c>> \in owed'[s] =>
               /\ <<e, c>> \in owed[s]
               /\ c \in subScopes[s] => c \in subScopes'[s]
               /\ call'[s] = call[s] \/ call'[s].op # "remove" \/ c \notin call'[s].set
    PROVE  Due'
  <1> SUFFICES ASSUME NEW s \in Subs, NEW e \in Events, NEW c \in Scopes, <<e, c>> \in owed'[s]
               PROVE  /\ c \in subScopes'[s] /\ c \in scopesOf'[e]
                      /\ call'[s].op = "remove" => c \notin call'[s].set
                      /\ OnItsWay(s, e, c)'
    BY DEF Due
  <1>1. /\ c \in subScopes[s] /\ c \in scopesOf[e]
        /\ call[s].op = "remove" => c \notin call[s].set
        /\ OnItsWay(s, e, c)
    BY DEF Due
  <1>2. OnItsWay(s, e, c)'
    BY <1>1, Zenon DEF OnItsWay, Serves, Unheard, Pending, In
  <1> QED  BY <1>1, <1>2

-----------------------------------------------------------------------------
(* Publishing *)

\* The connections and the counts are not touched, except that something may
\* be owed to a subscription between calls.
LEMMA PublishingKeeps ==
    ASSUME IInv, UNCHANGED <<local, call, cluster>>,
           \A s \in Subs : call[s].op # "none" => owed'[s] = owed[s],
           \A c \in Scopes : queue'[c] # <<>> => queue[c] # <<>> \/ c \in upstream
    PROVE  Connections' /\ Counted' /\ Upstream'
  <1>1. /\ UNCHANGED <<listed, filter, closed, call, started, subScopes, refs, upstream, failed>>
        /\ Connections /\ Counted /\ Upstream
    BY DEF local, cluster, IInv
  <1>2. Counted'
    BY <1>1 DEF Counted, Holders
  <1>3. Upstream'
    BY <1>1 DEF Upstream, InUse
  <1>4. Connections'
    BY <1>1 DEF Connections, Connected
  <1> QED  BY <1>2, <1>3, <1>4

\* A message of e joins the queues of the scopes that are subscribed upstream.
LEMMA Published ==
    ASSUME Typed, NEW e \in Events, NEW set \in SUBSET Scopes, NEW own \in BOOLEAN, Publish(e, set, own)
    PROVE  /\ scopesOf' \in [Events -> SUBSET Scopes] /\ scopesOf'[e] = set /\ scopesOf[e] = {}
           /\ \A d \in Events : d # e => scopesOf'[d] = scopesOf[d]
           /\ queue' \in [Scopes -> Seq(Messages)]
           /\ \A c \in Scopes : \A x : In(queue'[c], x) <=>
                 In(queue[c], x) \/ (c \in set \cap upstream /\ x = Msg(e, own))
           /\ \A c \in Scopes : queue'[c] # <<>> => queue[c] # <<>> \/ c \in upstream
  <1>1. scopesOf \in [Events -> SUBSET Scopes] /\ queue \in [Scopes -> Seq(Messages)]
    BY DEF Typed
  <1>2. /\ scopesOf' \in [Events -> SUBSET Scopes] /\ scopesOf'[e] = set /\ scopesOf[e] = {}
        /\ \A d \in Events : d # e => scopesOf'[d] = scopesOf[d]
    BY <1>1 DEF Publish, NextEvent
  <1>3. Msg(e, own) \in Messages
    BY DEF Msg, Messages
  <1>4. queue' = [c \in Scopes |-> IF c \in set \cap upstream THEN Append(queue[c], Msg(e, own)) ELSE queue[c]]
    BY DEF Publish, Msg
  <1>5. ASSUME NEW c \in Scopes
        PROVE  /\ queue'[c] \in Seq(Messages)
               /\ \A x : In(queue'[c], x) <=> In(queue[c], x) \/ (c \in set \cap upstream /\ x = Msg(e, own))
               /\ queue'[c] # <<>> => queue[c] # <<>> \/ c \in upstream
    <2>1. queue[c] \in Seq(Messages)
      BY <1>1
    <2>2. CASE c \in set \cap upstream
      <3>1. queue'[c] = Append(queue[c], Msg(e, own))
        BY <1>4, <2>2
      <3>2. \A x : In(queue'[c], x) <=> In(queue[c], x) \/ x = Msg(e, own)
        BY <1>3, <2>1, <3>1, AppendIn
      <3>3. queue'[c] \in Seq(Messages)
        BY <1>3, <2>1, <3>1
      <3> QED  BY <2>2, <3>2, <3>3
    <2>3. CASE c \notin set \cap upstream
      BY <1>4, <2>1, <2>3
    <2> QED  BY <2>2, <2>3
  <1>6. queue' \in [Scopes -> Seq(Messages)]
    BY <1>4, <1>5
  <1> QED  BY <1>2, <1>5, <1>6

\* Messages tell their event and whose it is.
LEMMA MsgDiffers ==
    /\ \A d, e : Msg(d, TRUE) # Msg(e, FALSE)
    /\ \A d, e, own : Msg(d, own) = Msg(e, own) => d = e
  <1>1. ASSUME NEW d, NEW e, Msg(d, TRUE) = Msg(e, FALSE) PROVE FALSE
    <2>1. Msg(d, TRUE).own = TRUE /\ Msg(e, FALSE).own = FALSE
      BY DEF Msg
    <2> QED  BY <1>1, <2>1, Zenon
  <1>2. ASSUME NEW d, NEW e, NEW own, Msg(d, own) = Msg(e, own) PROVE d = e
    <2>1. Msg(d, own).evt = d /\ Msg(e, own).evt = e
      BY DEF Msg
    <2> QED  BY <1>2, <2>1
  <1> QED  BY <1>1, <1>2, Zenon

\* What a publish adds to what is owed.
LEMMA Owing ==
    ASSUME Typed, NEW e \in Events, NEW by \in [Subs -> SUBSET Scopes], Owes(e, by)
    PROVE  /\ owed' \in [Subs -> SUBSET (Events \X Scopes)]
           /\ \A s \in Subs : by[s] = {} => owed'[s] = owed[s]
           /\ \A s \in Subs, d \in Events, c \in Scopes :
                 <<d, c>> \in owed'[s] => <<d, c>> \in owed[s] \/ (d = e /\ c \in by[s])
  <1>1. owed \in [Subs -> SUBSET (Events \X Scopes)]
        /\ owed' = [s \in Subs |-> owed[s] \cup ({e} \X by[s])]
    BY DEF Typed, Owes
  <1>2. \A s \in Subs : {e} \X by[s] \subseteq Events \X Scopes
    OBVIOUS
  <1>3. owed' \in [Subs -> SUBSET (Events \X Scopes)]
    BY <1>1, <1>2
  <1>4. \A s \in Subs : by[s] = {} => owed'[s] = owed[s]
    BY <1>1
  <1> QED  BY <1>1, <1>3, <1>4

LEMMA RemotePublishInv ==
    ASSUME IInv, NEW e \in Events, NEW set \in SUBSET Scopes, set # {}, RemotePublish(e, set)
    PROVE  IInv'
  <1> DEFINE by == [s \in Subs |-> IF Ready(s) THEN subScopes[s] \cap set \cap upstream ELSE {}]
  <1>1. Typed /\ Unpublished /\ Once /\ Due
    BY DEF IInv
  <1>2. /\ Publish(e, set, FALSE) /\ Owes(e, by)
        /\ UNCHANGED <<local, call, cluster>> /\ UNCHANGED <<seen, forgotten, fan, got>>
    BY Zenon DEF RemotePublish
  <1>3. /\ scopesOf' \in [Events -> SUBSET Scopes] /\ scopesOf'[e] = set /\ scopesOf[e] = {}
        /\ \A d \in Events : d # e => scopesOf'[d] = scopesOf[d]
        /\ queue' \in [Scopes -> Seq(Messages)]
        /\ \A c \in Scopes : \A x : In(queue'[c], x) <=>
              In(queue[c], x) \/ (c \in set \cap upstream /\ x = Msg(e, FALSE))
        /\ \A c \in Scopes : queue'[c] # <<>> => queue[c] # <<>> \/ c \in upstream
    BY <1>1, <1>2, Published, Zenon
  <1>4. by \in [Subs -> SUBSET Scopes] /\ \A s \in Subs : call[s].op # "none" => by[s] = {}
    BY <1>1 DEF Typed, Ready
  <1>5. \A s \in Subs : by[s] \subseteq subScopes[s] \cap set \cap upstream
    OBVIOUS
  <1> HIDE DEF by
  <1>6. /\ owed' \in [Subs -> SUBSET (Events \X Scopes)]
        /\ \A s \in Subs : by[s] = {} => owed'[s] = owed[s]
        /\ \A s \in Subs, d \in Events, c \in Scopes :
              <<d, c>> \in owed'[s] => <<d, c>> \in owed[s] \/ (d = e /\ c \in by[s])
    BY <1>1, <1>2, <1>4, Owing
  <1>7. Connections' /\ Counted' /\ Upstream'
    BY <1>2, <1>3, <1>4, <1>6, PublishingKeeps
  <1>8. Typed'
    BY <1>1, <1>2, <1>3, <1>6 DEF Typed, Busy, local, cluster
  <1>9. \A d \in Events, c \in Scopes :
          /\ Pending(c, d)' <=> Pending(c, d) \/ (c \in set \cap upstream /\ d = e)
          /\ In(queue[c], Msg(d, TRUE))' <=> In(queue[c], Msg(d, TRUE))
    <2> SUFFICES ASSUME NEW d \in Events, NEW c \in Scopes
                 PROVE  /\ In(queue'[c], Msg(d, FALSE)) <=>
                              In(queue[c], Msg(d, FALSE)) \/ (c \in set \cap upstream /\ d = e)
                        /\ In(queue'[c], Msg(d, TRUE)) <=> In(queue[c], Msg(d, TRUE))
      BY DEF Pending, In, Msg
    <2>1. (Msg(d, FALSE) = Msg(e, FALSE) <=> d = e) /\ Msg(d, TRUE) # Msg(e, FALSE)
      BY MsgDiffers, Zenon
    <2> QED  BY <1>3, <2>1, Zenon
  <1>10. /\ Untouched(e) /\ ~In(seen, e)
         /\ \A d \in Events : Untouched(d)' = Untouched(d) /\ In(seen, d)' = In(seen, d)
    BY <1>1, <1>2, <1>3, Zenon DEF Unpublished, Untouched, Serves, In
  <1>11. Unpublished'
    BY <1>1, <1>3, <1>9, <1>10, Zenon DEF Unpublished
  <1>12. Once'
    <2>1. \A d \in Events, c \in Scopes : Unheard(c, d)' => Unheard(c, d) \/ d = e
      BY <1>9, <1>10, Zenon DEF Unheard
    <2>2. \A d \in Events : SentByOne(d) => SentByOne(d)'
      BY <1>2, SentByOneKept DEF Serves
    <2> QED  BY <1>1, <1>2, <1>10, <2>1, <2>2 DEF Once
  <1>13. Due'
    <2> SUFFICES ASSUME NEW s \in Subs, NEW d \in Events, NEW c \in Scopes, <<d, c>> \in owed'[s]
                 PROVE  /\ c \in subScopes'[s] /\ c \in scopesOf'[d]
                        /\ call'[s].op = "remove" => c \notin call'[s].set
                        /\ OnItsWay(s, d, c)'
      BY DEF Due
    <2>1. subScopes' = subScopes /\ call' = call
      BY <1>2 DEF cluster
    <2>2. CASE <<d, c>> \in owed[s]
      <3>1. /\ c \in subScopes[s] /\ c \in scopesOf[d] /\ OnItsWay(s, d, c)
            /\ call[s].op = "remove" => c \notin call[s].set
        BY <1>1, <2>2 DEF Due
      <3>2. OnItsWay(s, d, c)'
        BY <1>2, <1>9, <1>10, <3>1, Zenon DEF OnItsWay, Serves, Unheard
      <3> QED  BY <1>3, <2>1, <3>1, <3>2
    <2>3. CASE d = e /\ c \in by[s]
      <3>1. Unheard(c, e)' /\ c \in subScopes[s] /\ c \in set
        BY <1>5, <1>9, <1>10, <2>3, Zenon DEF Unheard
      <3>2. call[s].op = "none"
        BY <1>4, <2>3
      <3> QED  BY <1>3, <2>1, <2>3, <3>1, <3>2 DEF OnItsWay
    <2> QED  BY <1>6, <2>2, <2>3
  <1> QED  BY <1>7, <1>8, <1>11, <1>12, <1>13 DEF IInv

\* A thread that is free takes an event to the subscriptions of the list.
LEMMA Fanned ==
    ASSUME Typed, NEW t \in Threads, ~Busy(t), NEW e \in Events, Fan(t, e)
    PROVE  /\ fan' \in [Threads -> [evt : Events \cup {0}, todo : SUBSET Subs]]
           /\ \A u \in Threads : Busy(u)' => fan'[u].evt \in Events
           /\ \A u \in Threads, s \in Subs, d \in Events :
                 Serves(u, s, d)' <=> Serves(u, s, d) \/ (u = t /\ d = e /\ s \in listed)
  <1> DEFINE f == FanOut(e, listed)
  <1>1. fan \in [Threads -> [evt : Events \cup {0}, todo : SUBSET Subs]] /\ listed \subseteq Subs
    BY DEF Typed
  <1>2. /\ f \in [evt : Events \cup {0}, todo : SUBSET Subs] /\ f.todo = listed
        /\ f.todo # {} => f.evt = e
    BY <1>1 DEF FanOut
  <1>3. fan' = [fan EXCEPT ![t] = f]
    BY DEF Fan
  <1> HIDE DEF f
  <1>4. fan' \in [Threads -> [evt : Events \cup {0}, todo : SUBSET Subs]]
    BY <1>1, <1>2, <1>3
  <1>5. fan'[t] = f /\ \A u \in Threads : u # t => fan'[u] = fan[u]
    BY <1>1, <1>3
  <1>6. \A u \in Threads : Busy(u)' => fan'[u].evt \in Events
    BY <1>2, <1>5, Zenon DEF Typed, Busy
  <1>7. \A s \in Subs, d \in Events : ~Serves(t, s, d) /\ (Serves(t, s, d)' <=> d = e /\ s \in listed)
    BY <1>2, <1>5 DEF Serves, Busy
  <1>8. \A u \in Threads, s \in Subs, d \in Events : u # t => (Serves(u, s, d)' <=> Serves(u, s, d))
    BY <1>5 DEF Serves
  <1> QED  BY <1>4, <1>6, <1>7, <1>8

LEMMA LocalPublishInv ==
    ASSUME IInv, NEW e \in Events, NEW set \in SUBSET Scopes, set # {}, LocalPublish(e, set)
    PROVE  IInv'
  <1> DEFINE by == [s \in Subs |-> IF s \in listed /\ Ready(s) THEN filter[s] \cap set ELSE {}]
  <1>1. Typed /\ Connections /\ Unpublished /\ Once /\ Due /\ Self \in Threads
    BY DEF IInv, Threads
  <1>2. /\ ~Busy(Self) /\ Publish(e, set, TRUE) /\ Fan(Self, e) /\ Owes(e, by)
        /\ UNCHANGED <<local, call, cluster>> /\ UNCHANGED <<seen, forgotten, got>>
    BY Zenon DEF LocalPublish
  <1>3. /\ scopesOf' \in [Events -> SUBSET Scopes] /\ scopesOf'[e] = set /\ scopesOf[e] = {}
        /\ \A d \in Events : d # e => scopesOf'[d] = scopesOf[d]
        /\ queue' \in [Scopes -> Seq(Messages)]
        /\ \A c \in Scopes : \A x : In(queue'[c], x) <=>
              In(queue[c], x) \/ (c \in set \cap upstream /\ x = Msg(e, TRUE))
        /\ \A c \in Scopes : queue'[c] # <<>> => queue[c] # <<>> \/ c \in upstream
    BY <1>1, <1>2, Published, ZenonT(30)
  <1>4. by \in [Subs -> SUBSET Scopes] /\ \A s \in Subs : call[s].op # "none" => by[s] = {}
    BY <1>1 DEF Typed, Ready
  <1>5. \A s \in Subs : by[s] # {} => /\ by[s] \subseteq subScopes[s] \cap set
                                      /\ s \in listed /\ call[s].op = "none"
    BY <1>1 DEF Ready, Connections, Connected
  <1> HIDE DEF by
  <1>6. /\ owed' \in [Subs -> SUBSET (Events \X Scopes)]
        /\ \A s \in Subs : by[s] = {} => owed'[s] = owed[s]
        /\ \A s \in Subs, d \in Events, c \in Scopes :
              <<d, c>> \in owed'[s] => <<d, c>> \in owed[s] \/ (d = e /\ c \in by[s])
    BY <1>1, <1>2, <1>4, Owing
  <1>7. /\ fan' \in [Threads -> [evt : Events \cup {0}, todo : SUBSET Subs]]
        /\ \A u \in Threads : Busy(u)' => fan'[u].evt \in Events
        /\ \A u \in Threads, s \in Subs, d \in Events :
              Serves(u, s, d)' <=> Serves(u, s, d) \/ (u = Self /\ d = e /\ s \in listed)
    BY <1>1, <1>2, Fanned
  <1>8. Connections' /\ Counted' /\ Upstream'
    BY <1>2, <1>3, <1>4, <1>6, PublishingKeeps
  <1>9. Typed'
    BY <1>1, <1>2, <1>3, <1>6, <1>7 DEF Typed, local, cluster
  <1>10. \A d \in Events, c \in Scopes :
           /\ Pending(c, d)' <=> Pending(c, d)
           /\ In(queue[c], Msg(d, TRUE))' => In(queue[c], Msg(d, TRUE)) \/ d = e
    <2> SUFFICES ASSUME NEW d \in Events, NEW c \in Scopes
                 PROVE  /\ In(queue'[c], Msg(d, FALSE)) <=> In(queue[c], Msg(d, FALSE))
                        /\ In(queue'[c], Msg(d, TRUE)) => In(queue[c], Msg(d, TRUE)) \/ d = e
      BY DEF Pending, In, Msg
    <2>1. (Msg(d, TRUE) = Msg(e, TRUE) => d = e) /\ Msg(d, FALSE) # Msg(e, TRUE)
      BY MsgDiffers, Zenon
    <2> QED  BY <1>3, <2>1, Zenon
  <1>11. /\ Untouched(e) /\ \A c \in Scopes : ~Pending(c, e)
         /\ \A d \in Events : (d # e => (Untouched(d)' <=> Untouched(d))) /\ (In(seen, d)' <=> In(seen, d))
    <2>1. Untouched(e) /\ \A c \in Scopes : ~Pending(c, e)
      BY <1>1, <1>3, Zenon DEF Unpublished
    <2>2. \A d \in Events : d # e => (Untouched(d)' <=> Untouched(d))
      BY <1>2, <1>7 DEF Untouched
    <2>3. \A d \in Events : In(seen, d)' <=> In(seen, d)
      BY <1>2 DEF In
    <2> QED  BY <2>1, <2>2, <2>3
  <1>12. Unpublished'
    BY <1>1, <1>3, <1>10, <1>11, Zenon DEF Unpublished
  <1>13. Once'
    <2>1. \A d \in Events, c \in Scopes : Unheard(c, d)' => Unheard(c, d) /\ d # e
      BY <1>10, <1>11, Zenon DEF Unheard
    <2>2. \A s \in Subs : got'[s][e] = 0 /\ \A t \in Threads : Serves(t, s, e)' => t = Self
      BY <1>2, <1>7, <1>11 DEF Untouched
    <2>3. SentByOne(e)'
      BY <1>1, <2>2, SentByOneFirst
    <2>4. \A d \in Events : d # e /\ SentByOne(d) => SentByOne(d)'
      BY <1>2, <1>7, SentByOneKept
    <2>5. ASSUME NEW d \in Events, d \notin forgotten'
          PROVE  SentByOne(d)' /\ \A c \in Scopes : Unheard(c, d)' => Untouched(d)'
      BY <1>1, <1>2, <1>11, <2>1, <2>3, <2>4, <2>5 DEF Once
    <2> QED  BY <2>5 DEF Once
  <1>14. Due'
    <2> SUFFICES ASSUME NEW s \in Subs, NEW d \in Events, NEW c \in Scopes, <<d, c>> \in owed'[s]
                 PROVE  /\ c \in subScopes'[s] /\ c \in scopesOf'[d]
                        /\ call'[s].op = "remove" => c \notin call'[s].set
                        /\ OnItsWay(s, d, c)'
      BY DEF Due
    <2>1. subScopes' = subScopes /\ call' = call
      BY <1>2 DEF cluster
    <2>2. CASE <<d, c>> \in owed[s]
      <3>1. /\ c \in subScopes[s] /\ c \in scopesOf[d] /\ OnItsWay(s, d, c)
            /\ call[s].op = "remove" => c \notin call[s].set
        BY <1>1, <2>2 DEF Due
      <3>2. OnItsWay(s, d, c)'
        BY <1>2, <1>7, <1>10, <1>11, <3>1, Zenon DEF OnItsWay, Unheard
      <3> QED  BY <1>3, <2>1, <3>1, <3>2
    <2>3. CASE d = e /\ c \in by[s]
      <3>1. Serves(Self, s, e)' /\ c \in subScopes[s] /\ c \in set /\ call[s].op = "none"
        BY <1>1, <1>5, <1>7, <2>3
      <3> QED  BY <1>1, <1>3, <2>1, <2>3, <3>1 DEF OnItsWay
    <2> QED  BY <1>6, <2>2, <2>3
  <1> QED  BY <1>8, <1>9, <1>12, <1>13, <1>14 DEF IInv

\* The callback of a scope: the message leaves the queue; it is skipped, or
\* remembered and fanned out.
LEMMA OnRemoteInv ==
    ASSUME IInv, NEW c0 \in Scopes, onRemote(c0)
    PROVE  IInv'
  <1> DEFINE m == Head(queue[c0])
             e == m.evt
  <1>1. Typed /\ Connections /\ Unpublished /\ Once /\ Due /\ c0 \in Threads
    BY DEF IInv, Threads
  <1>2. /\ queue[c0] # <<>> /\ ~Busy(c0) /\ queue' = [queue EXCEPT ![c0] = Tail(@)]
        /\ UNCHANGED <<local, call, cluster>> /\ UNCHANGED <<scopesOf, got, owed>>
        /\ IF m.own \/ In(seen, e) THEN UNCHANGED <<seen, forgotten, fan>>
                                   ELSE rememberRemote(e) /\ Fan(c0, e)
    BY Zenon DEF onRemote, Skip, Seen, In
  <1>3. queue[c0] \in Seq(Messages)
    BY <1>1 DEF Typed
  <1>4. /\ m \in Messages /\ Tail(queue[c0]) \in Seq(Messages)
        /\ \A x : In(queue[c0], x) <=> x = m \/ In(Tail(queue[c0]), x)
    BY <1>2, <1>3, TailIn
  <1>5. e \in Events /\ m.own \in BOOLEAN /\ m = Msg(e, m.own)
    BY <1>4 DEF Messages, Msg
  <1> HIDE DEF m, e
  <1>6. queue'[c0] = Tail(queue[c0]) /\ \A c \in Scopes : c # c0 => queue'[c] = queue[c]
    BY <1>1, <1>2 DEF Typed
  <1>7. /\ queue' \in [Scopes -> Seq(Messages)]
        /\ \A c \in Scopes : \A x : In(queue'[c], x) => In(queue[c], x)
        /\ \A c \in Scopes : \A x : In(queue[c], x) /\ x # m => In(queue'[c], x)
    BY <1>1, <1>2, <1>4, <1>6 DEF Typed
  <1>8. Connections' /\ Counted' /\ Upstream'
    <2>1. \A c \in Scopes : queue'[c] # <<>> => queue[c] # <<>>
      BY <1>2, <1>6
    <2> QED  BY <1>2, <2>1, PublishingKeeps
  <1>9. \A d \in Events, c \in Scopes :
          /\ Pending(c, d)' => Pending(c, d)
          /\ Pending(c, d) /\ Msg(d, FALSE) # m => Pending(c, d)'
          /\ In(queue[c], Msg(d, TRUE))' => In(queue[c], Msg(d, TRUE))
    <2> SUFFICES ASSUME NEW d \in Events, NEW c \in Scopes
                 PROVE  /\ In(queue'[c], Msg(d, FALSE)) => In(queue[c], Msg(d, FALSE))
                        /\ In(queue[c], Msg(d, FALSE)) /\ Msg(d, FALSE) # m => In(queue'[c], Msg(d, FALSE))
                        /\ In(queue'[c], Msg(d, TRUE)) => In(queue[c], Msg(d, TRUE))
      BY DEF Pending, In, Msg
    <2> QED  BY <1>7, ZenonT(30)
  <1>10. subScopes' = subScopes /\ call' = call /\ listed' = listed /\ owed' = owed /\ scopesOf' = scopesOf
    BY <1>2 DEF local, cluster
  <1>11. CASE m.own \/ In(seen, e)
    <2>1. UNCHANGED <<seen, forgotten, fan>>
      BY <1>2, <1>11
    <2>2. Typed'
      BY <1>1, <1>2, <1>7, <2>1 DEF Typed, Busy, local, cluster
    <2>3. Unpublished' /\ Once'
      BY <1>1, <1>2, <1>7, <2>1, MessagesKept
    <2>4. Due'
      <3> SUFFICES ASSUME NEW s \in Subs, NEW d \in Events, NEW c \in Scopes, <<d, c>> \in owed[s]
                   PROVE  OnItsWay(s, d, c)'
        BY <1>1, <1>10 DEF Due
      <3>1. OnItsWay(s, d, c)
        BY <1>1 DEF Due
      <3>2. CASE Unheard(c, d)
        <4>1. Msg(d, FALSE) # m
          <5> SUFFICES ASSUME Msg(d, FALSE) = Msg(e, m.own) PROVE FALSE
            BY <1>5, Zenon
          <5>1. d = e /\ m.own = FALSE
            BY DEF Msg
          <5> QED  BY <1>11, <3>2, <5>1 DEF Unheard
        <4>2. Pending(c, d)' /\ ~In(seen, d)'
          BY <1>9, <2>1, <3>2, <4>1, Zenon DEF Unheard, In
        <4> QED  BY <4>2 DEF OnItsWay, Unheard
      <3>3. CASE got[s][d] > 0 \/ \E t \in Threads : Serves(t, s, d)
        BY <1>2, <2>1, <3>3 DEF OnItsWay, Serves
      <3> QED  BY <3>1, <3>2, <3>3 DEF OnItsWay
    <2> QED  BY <1>8, <2>2, <2>3, <2>4 DEF IInv
  <1>12. CASE ~m.own /\ ~In(seen, e)
    <2>1. rememberRemote(e) /\ Fan(c0, e) /\ m = Msg(e, FALSE)
      BY <1>2, <1>5, <1>12, Zenon
    <2>2. /\ seen' \in Seq(Events) /\ In(seen', e) /\ forgotten \subseteq forgotten'
          /\ \A x : In(seen', x) => In(seen, x) \/ x = e
          /\ \A x : In(seen, x) => In(seen', x) \/ x \in forgotten'
      BY <1>1, <1>5, <2>1, Remembered DEF Typed
    <2>3. /\ fan' \in [Threads -> [evt : Events \cup {0}, todo : SUBSET Subs]]
          /\ \A u \in Threads : Busy(u)' => fan'[u].evt \in Events
          /\ \A u \in Threads, s \in Subs, d \in Events :
                Serves(u, s, d)' <=> Serves(u, s, d) \/ (u = c0 /\ d = e /\ s \in listed)
      BY <1>1, <1>2, <1>5, <2>1, Fanned
    <2>4. Typed'
      BY <1>1, <1>2, <1>7, <2>2, <2>3 DEF Typed, local, cluster
    <2>5. Unheard(c0, e)
      BY <1>4, <1>12, <2>1, Zenon DEF Unheard, Pending
    <2>6. \A d \in Events : d # e => (Untouched(d)' <=> Untouched(d))
      BY <1>2, <2>3, ZenonT(30) DEF Untouched
    <2>7. \A d \in Events : In(seen, d)' <=> In(seen', d)
      BY DEF In
    <2>8. Unpublished'
      <3>1. scopesOf[e] # {}
        BY <1>1, <1>5, <2>5, Zenon DEF Unpublished, Unheard
      <3> QED  BY <1>1, <1>9, <1>10, <2>2, <2>6, <2>7, <3>1, ZenonT(30) DEF Unpublished
    <2>9. Once'
      <3>1. ASSUME NEW d \in Events, d # e, d \notin forgotten'
            PROVE  SentByOne(d)' /\ \A c \in Scopes : Unheard(c, d)' => Untouched(d)'
        <4>1. \A c \in Scopes : Unheard(c, d)' => Unheard(c, d)
          BY <1>9, <2>2, <2>7, <3>1, Zenon DEF Unheard
        <4>2. SentByOne(d) /\ \A c \in Scopes : Unheard(c, d) => Untouched(d)
          BY <1>1, <2>2, <3>1 DEF Once
        <4>3. SentByOne(d)'
          BY <1>2, <2>3, <3>1, <4>2, SentByOneKept
        <4> QED  BY <2>6, <3>1, <4>1, <4>2, <4>3
      <3>2. ASSUME NEW d \in Events, d = e, d \notin forgotten'
            PROVE  SentByOne(d)' /\ \A c \in Scopes : ~Unheard(c, d)'
        <4>1. Untouched(d)
          BY <1>1, <2>2, <2>5, <3>2 DEF Once
        <4>2. \A c \in Scopes : ~Unheard(c, d)'
          BY <2>2, <2>7, <3>2 DEF Unheard
        <4>3. /\ \A s \in Subs : got'[s][d] = 0
              /\ \A t \in Threads, s \in Subs : Serves(t, s, d)' => t = c0
          BY <1>2, <2>3, <4>1 DEF Untouched
        <4> QED  BY <1>1, <4>2, <4>3, SentByOneFirst
      <3> QED  BY <3>1, <3>2 DEF Once
    <2>10. Due'
      <3> SUFFICES ASSUME NEW s \in Subs, NEW d \in Events, NEW c \in Scopes, <<d, c>> \in owed[s]
                   PROVE  OnItsWay(s, d, c)'
        BY <1>1, <1>10 DEF Due
      <3>1. OnItsWay(s, d, c)
        BY <1>1 DEF Due
      <3>2. CASE d = e
        <4>1. s \in listed
          BY <1>1 DEF Connections, Connected
        <4> QED  BY <1>1, <2>3, <3>2, <4>1 DEF OnItsWay
      <3>3. CASE Unheard(c, d) /\ d # e
        <4>1. Msg(d, FALSE) # m
          BY <2>1, <3>3, MsgDiffers, Zenon
        <4>2. Unheard(c, d)'
          BY <1>9, <2>2, <2>7, <3>3, <4>1, Zenon DEF Unheard
        <4> QED  BY <4>2 DEF OnItsWay
      <3>4. CASE got[s][d] > 0 \/ \E t \in Threads : Serves(t, s, d)
        BY <1>2, <2>3, <3>4, Zenon DEF OnItsWay
      <3> QED  BY <3>1, <3>2, <3>3, <3>4 DEF OnItsWay
    <2> QED  BY <1>8, <2>4, <2>8, <2>9, <2>10 DEF IInv
  <1> QED  BY <1>11, <1>12

\* What is owed passes the filter of its subscription, which is open.
LEMMA OwedMatches ==
    ASSUME Connections, Due, NEW s \in Subs, NEW e \in Events, NEW c \in Scopes, <<e, c>> \in owed[s]
    PROVE  c \in filter[s] \cap scopesOf[e] /\ s \notin closed
  <1>1. /\ c \in subScopes[s] /\ c \in scopesOf[e]
        /\ call[s].op = "remove" => c \notin call[s].set
    BY DEF Due
  <1>2. Connected(s) /\ call[s].op \in {"none", "add", "remove"}
    BY DEF Connections, Connected
  <1> QED  BY <1>1, <1>2 DEF Connected

\* One subscription of the copy is served.
LEMMA PublishLocalInv ==
    ASSUME IInv, NEW t \in Threads, PublishLocal(t)
    PROVE  IInv'
  <1>1. Typed /\ Connections /\ Unpublished /\ Once /\ Due
    BY DEF IInv
  <1>2. PICK s \in fan[t].todo :
          /\ fan' = [fan EXCEPT ![t] = FanOut(@.evt, @.todo \ {s})]
          /\ IF filter[s] \cap scopesOf[fan[t].evt] = {}
             THEN UNCHANGED <<got, panicked>>
             ELSE /\ panicked' = (s \in closed)
                  /\ got' = IF s \in closed THEN got ELSE [got EXCEPT ![s][fan[t].evt] = @ + 1]
    BY Zenon DEF PublishLocal, Served
  <1>3. /\ UNCHANGED <<local, call, cluster>>
        /\ UNCHANGED <<queue, seen, forgotten, scopesOf, owed>>
    BY DEF PublishLocal, remote
  <1>4. fan[t].evt \in Events /\ s \in Subs /\ fan \in [Threads -> [evt : Events \cup {0}, todo : SUBSET Subs]]
    BY <1>1 DEF Typed, Busy
  <1>5. PICK e \in Events : e = fan[t].evt
    BY <1>4
  <1> DEFINE f == FanOut(e, fan[t].todo \ {s})
  <1>6. /\ f \in [evt : Events \cup {0}, todo : SUBSET Subs] /\ f.todo = fan[t].todo \ {s}
        /\ f.todo # {} => f.evt = e
    BY <1>4 DEF FanOut
  <1>7. fan' = [fan EXCEPT ![t] = f]
    BY <1>2, <1>5
  <1> HIDE DEF f
  <1>8. /\ fan' \in [Threads -> [evt : Events \cup {0}, todo : SUBSET Subs]]
        /\ fan'[t] = f /\ \A u \in Threads : u # t => fan'[u] = fan[u]
    BY <1>4, <1>6, <1>7
  <1>9. /\ Serves(t, s, e)
        /\ \A u \in Threads, r \in Subs, d \in Events :
              /\ Serves(u, r, d)' => Serves(u, r, d)
              /\ Serves(u, r, d) => Serves(u, r, d)' \/ (u = t /\ r = s /\ d = e)
              /\ Serves(u, r, d)' => ~(u = t /\ r = s /\ d = e)
    <2>1. Serves(t, s, e)
      BY <1>2, <1>5 DEF Serves
    <2>2. ASSUME NEW u \in Threads, NEW r \in Subs, NEW d \in Events, u # t
          PROVE  Serves(u, r, d)' <=> Serves(u, r, d)
      BY <1>8, <2>2 DEF Serves
    <2>3. ASSUME NEW r \in Subs, NEW d \in Events
          PROVE  Serves(t, r, d)' <=> Serves(t, r, d) /\ r # s
      BY <1>5, <1>6, <1>8 DEF Serves
    <2>4. ASSUME NEW d \in Events, Serves(t, s, d) PROVE d = e
      BY <1>5, <2>4 DEF Serves
    <2> QED  BY <2>1, <2>2, <2>3, <2>4
  <1>10. /\ got' \in [Subs -> [Events -> Nat]]
         /\ \A r \in Subs, d \in Events :
               /\ got'[r][d] = got[r][d] \/ (r = s /\ d = e /\ got'[r][d] = got[r][d] + 1)
               /\ got[r][d] \in Nat
         /\ filter[s] \cap scopesOf[e] # {} /\ s \notin closed => got'[s][e] = got[s][e] + 1
    <2>1. got \in [Subs -> [Events -> Nat]]
      BY <1>1 DEF Typed
    <2>2. got' = got \/ got' = [got EXCEPT ![s][e] = @ + 1]
      BY <1>2, <1>5
    <2>3. filter[s] \cap scopesOf[e] # {} /\ s \notin closed => got' = [got EXCEPT ![s][e] = @ + 1]
      BY <1>2, <1>5
    <2> QED  BY <1>4, <2>1, <2>2, <2>3
  <1>11. Typed'
    <2>1. \A u \in Threads : Busy(u)' => fan'[u].evt \in Events
      BY <1>1, <1>6, <1>8, ZenonT(30) DEF Typed, Busy
    <2> QED  BY <1>1, <1>3, <1>8, <1>10, <2>1 DEF Typed, local, cluster
  <1>12. Connections' /\ Counted' /\ Upstream'
    BY <1>3, PublishingKeeps, Zenon
  <1>13. \A d \in Events : d # e /\ Untouched(d) => Untouched(d)'
    BY <1>9, <1>10, ZenonT(30) DEF Untouched
  <1>14. ~Untouched(e)
    BY <1>4, <1>9, Zenon DEF Untouched
  <1>15. \A d \in Events, c \in Scopes :
           /\ In(seen, d)' <=> In(seen, d)
           /\ Pending(c, d)' <=> Pending(c, d)
           /\ Unheard(c, d)' <=> Unheard(c, d)
           /\ In(queue[c], Msg(d, TRUE))' <=> In(queue[c], Msg(d, TRUE))
    BY <1>3 DEF Unheard, Pending, In
  <1>16. Unpublished'
    BY <1>1, <1>3, <1>13, <1>14, <1>15, ZenonT(30) DEF Unpublished
  <1>17. Once'
    <2> SUFFICES ASSUME NEW d \in Events, d \notin forgotten
                 PROVE  SentByOne(d)' /\ \A c \in Scopes : Unheard(c, d)' => Untouched(d)'
      BY <1>3, Zenon DEF Once
    <2>1. SentByOne(d) /\ \A c \in Scopes : Unheard(c, d) => Untouched(d)
      BY <1>1 DEF Once
    <2>2. \A c \in Scopes : Unheard(c, d)' => Untouched(d)'
      BY <1>13, <1>14, <1>15, <2>1, ZenonT(30)
    <2>3. CASE d # e
      <3>1. \A r \in Subs : got'[r][d] = got[r][d]
        BY <1>10, <2>3
      <3> QED  BY <1>9, <2>1, <2>2, <3>1, SentByOneKept
    <2>4. CASE d = e
      <3>1. got[s][e] = 0 /\ \A u \in Threads : Serves(u, s, e) => u = t
        BY <1>4, <1>9, <2>1, <2>4, ZenonT(30) DEF SentByOne
      <3>2. got'[s][e] <= 1
        BY <1>4, <1>10, <3>1
      <3>3. \A v \in Threads : ~Serves(v, s, e)'
        BY <1>4, <1>9, <3>1
      <3>4. ASSUME NEW r \in Subs, r # s
            PROVE  /\ got'[r][e] <= 1
                   /\ \A v \in Threads : Serves(v, r, e)' =>
                         got'[r][e] = 0 /\ \A u \in Threads : Serves(u, r, e)' => u = v
        <4>1. got'[r][e] = got[r][e]
          BY <1>10, <3>4
        <4> QED  BY <1>9, <2>1, <2>4, <4>1 DEF SentByOne
      <3>5. SentByOne(e)'
        BY <3>2, <3>3, <3>4 DEF SentByOne
      <3> QED  BY <2>2, <2>4, <3>5
    <2> QED  BY <2>3, <2>4
  <1>18. Due'
    <2> SUFFICES ASSUME NEW r \in Subs, NEW d \in Events, NEW c \in Scopes, <<d, c>> \in owed[r]
                 PROVE  OnItsWay(r, d, c)'
      BY <1>1, <1>3 DEF Due, cluster
    <2>1. OnItsWay(r, d, c)
      BY <1>1 DEF Due
    <2>2. CASE r = s /\ d = e
      <3>1. c \in filter[s] \cap scopesOf[e] /\ s \notin closed
        BY <1>1, <2>2, OwedMatches
      <3>2. got'[s][e] = got[s][e] + 1 /\ got[s][e] \in Nat
        BY <1>4, <1>10, <3>1
      <3>3. got'[s][e] > 0
        BY <3>2
      <3> QED  BY <2>2, <3>3 DEF OnItsWay
    <2>3. CASE ~(r = s /\ d = e)
      BY <1>9, <1>10, <1>15, <2>1, <2>3, Zenon DEF OnItsWay
    <2> QED  BY <2>2, <2>3, ZenonT(30)
  <1> QED  BY <1>11, <1>12, <1>16, <1>17, <1>18 DEF IInv
=============================================================================
