------------------------------ MODULE LiveBus -------------------------------
(***************************************************************************)
(* The live bus of one node: the in-process bus (internal/core/pubsub.go)  *)
(* behind the cluster bus over NATS (internal/core/nats_bus.go).           *)
(*                                                                         *)
(* A subscription belongs to one connection, which makes one call at a     *)
(* time; a call changes the in-process bus first and, under the lock of    *)
(* the cluster bus, the reference counts second.  The node subscribes      *)
(* upstream to every scope with a reference.  NATS brings each message of  *)
(* a subscription in order to a goroutine of that subscription; an event   *)
(* with several scopes comes once per scope.  Publishing copies the list   *)
(* of subscriptions under the lock and sends to each of the copy after it. *)
(*                                                                         *)
(* The buffer of a subscription, with its drops, is in LiveDelivery.  NATS *)
(* is modelled from how the bus uses it: messages to a subscription that   *)
(* is gone are discarded, none is lost otherwise.                          *)
(***************************************************************************)
EXTENDS Integers, Sequences, FiniteSets

CONSTANTS
    Subs,         \* subscriptions, each used once
    Scopes,       \* scopes
    Events,       \* events, in the order siblings and this node publish them
    Self,         \* the goroutine of this node that publishes; not a scope
    DedupeLimit,  \* natsRemoteDedupeLimit
    MaxChanges    \* bound: AddScopes and RemoveScopes calls and failing upstream
                  \* subscriptions, together

ASSUME BusConstants ==
    /\ IsFiniteSet(Subs) /\ IsFiniteSet(Scopes)
    /\ Self \notin Scopes
    /\ Events \subseteq Nat
    /\ DedupeLimit \in Nat \ {0} /\ MaxChanges \in Nat

Threads == Scopes \cup {Self}

VARIABLES
    \* in-process bus
    listed,    \* subscriptions in MemBus.subs
    filter,    \* [Subs -> SUBSET Scopes]: Subscription.scopes
    closed,    \* subscriptions whose channel is closed
    call,      \* [Subs -> [op, set]]: the call of the connection, first half done
    \* cluster bus
    started,
    subScopes, \* [Subs -> SUBSET Scopes]
    refs,      \* [Scopes -> Nat]: scopeRefs
    upstream,  \* scopes with an entry in scopeUnsubs
    queue,     \* [Scopes -> Seq([evt, own])]: messages on their way up
    seen,      \* Seq(Events): seenOrder
    \* publishing
    fan,       \* [Threads -> [evt, todo]]: PublishLocal calls, and whom they still serve
    scopesOf,  \* [Events -> SUBSET Scopes]: scopes of the events published
    got,       \* [Subs -> [Events -> Nat]]: times an event was sent to a subscription
    \* history
    panicked,  \* a send on a closed channel
    failed,    \* scopes whose upstream subscription failed since they were last unused
    forgotten, \* events dropped from the duplicate memory
    owed,      \* [Subs -> SUBSET (Events \X Scopes)]: published while the scope was
               \* subscribed, which the subscription has kept since
    changes

local == <<listed, filter, closed>>
cluster == <<started, subScopes, refs, upstream, failed>>
remote == <<queue, seen, forgotten>>
sent == <<fan, scopesOf, got, panicked, owed>>
vars == <<local, call, changes, cluster, remote, sent>>

Ops == {"new", "none", "subscribe", "unsubscribe", "add", "remove", "gone"}
Call(op, set) == [op |-> op, set |-> set]
Ready(s) == call[s].op = "none"
FanOut(e, todo) == [evt |-> IF todo = {} THEN 0 ELSE e, todo |-> todo]
Busy(t) == fan[t].todo # {}

Init ==
    /\ listed = {} /\ closed = {} /\ filter = [s \in Subs |-> {}]
    /\ call = [s \in Subs |-> Call("new", {})]
    /\ started = FALSE /\ upstream = {} /\ failed = {} /\ changes = 0
    /\ subScopes = [s \in Subs |-> {}] /\ refs = [c \in Scopes |-> 0]
    /\ queue = [c \in Scopes |-> <<>>] /\ seen = <<>> /\ forgotten = {}
    /\ fan = [t \in Threads |-> FanOut(0, {})]
    /\ scopesOf = [e \in Events |-> {}]
    /\ got = [s \in Subs |-> [e \in Events |-> 0]]
    /\ panicked = FALSE /\ owed = [s \in Subs |-> {}]

\* The subscription is owed nothing more by the scopes of set.
GivesUp(s, set) ==
    /\ owed' = [owed EXCEPT ![s] = {o \in @ : o[2] \notin set}]
    /\ UNCHANGED <<fan, scopesOf, got, panicked>>

\* e is owed to a subscription by each of the scopes by[s].
Owes(e, by) == owed' = [s \in Subs |-> owed[s] \cup ({e} \X by[s])]

-----------------------------------------------------------------------------
(* The in-process half of a call *)

Subscribe(s, set) ==
    /\ call[s].op = "new"
    /\ listed' = listed \cup {s}
    /\ filter' = [filter EXCEPT ![s] = set]
    /\ call' = [call EXCEPT ![s] = Call("subscribe", set)]
    /\ UNCHANGED <<closed, changes, cluster, remote, sent>>

Unsubscribe(s) ==
    /\ Ready(s)
    /\ listed' = listed \ {s}
    /\ closed' = closed \cup {s}
    /\ call' = [call EXCEPT ![s] = Call("unsubscribe", {})]
    /\ GivesUp(s, Scopes)
    /\ UNCHANGED <<filter, changes, cluster, remote>>

AddScopes(s, set) ==
    /\ Ready(s) /\ changes < MaxChanges /\ changes' = changes + 1
    /\ filter' = [filter EXCEPT ![s] = @ \cup set]
    /\ call' = [call EXCEPT ![s] = Call("add", set)]
    /\ UNCHANGED <<listed, closed, cluster, remote, sent>>

RemoveScopes(s, set) ==
    /\ Ready(s) /\ changes < MaxChanges /\ changes' = changes + 1
    /\ filter' = [filter EXCEPT ![s] = @ \ set]
    /\ call' = [call EXCEPT ![s] = Call("remove", set)]
    /\ GivesUp(s, set)
    /\ UNCHANGED <<listed, closed, cluster, remote>>

-----------------------------------------------------------------------------
(* The cluster half, under the lock *)

\* Messages of a scope without subscription are discarded.
Discard(up) == queue' = [c \in Scopes |-> IF c \in up THEN queue[c] ELSE <<>>]

\* subscribeScopeLocked for the scopes of want without subscription, some of
\* which may fail.
SubscribeUpstream(want) ==
    \E fails \in SUBSET (want \ upstream) :
        /\ changes' = changes + Cardinality(fails) /\ changes' <= MaxChanges
        /\ upstream' = upstream \cup (want \ fails)
        /\ failed' = failed \cup fails

\* Mutant: a scope that the subscription has already is counted again.
NewScopes_All(s, set) == set

NewScopes(s, set) == set \ subScopes[s]

\* addScopeRefLocked for the scopes that are new to the subscription.
AddRefs(s) ==
    LET new == NewScopes(s, call[s].set) IN
    /\ call[s].op \in {"subscribe", "add"}
    /\ subScopes' = [subScopes EXCEPT ![s] = @ \cup new]
    /\ refs' = [c \in Scopes |-> IF c \in new THEN refs[c] + 1 ELSE refs[c]]
    /\ IF started THEN SubscribeUpstream({c \in new : refs[c] = 0})
                  ELSE UNCHANGED <<upstream, failed, changes>>
    /\ call' = [call EXCEPT ![s] = Call("none", {})]
    /\ UNCHANGED <<local, started, remote, sent>>

\* The scopes of old whose last reference goes.
Unused(old) == {c \in old : refs[c] <= 1}

\* removeScopeRefLocked for the scopes that the subscription gives up.
RemoveRefs(s) ==
    LET old == IF call[s].op = "unsubscribe" THEN subScopes[s] ELSE subScopes[s] \cap call[s].set
    IN
    /\ call[s].op \in {"unsubscribe", "remove"}
    /\ subScopes' = [subScopes EXCEPT ![s] = @ \ old]
    /\ refs' = [c \in Scopes |-> IF c \in old THEN (IF refs[c] <= 1 THEN 0 ELSE refs[c] - 1) ELSE refs[c]]
    /\ upstream' = upstream \ Unused(old)
    /\ failed' = IF started THEN failed \ Unused(old) ELSE failed
    /\ Discard(upstream')
    /\ call' = [call EXCEPT ![s] = Call(IF @.op = "unsubscribe" THEN "gone" ELSE "none", {})]
    /\ UNCHANGED <<local, changes, started, seen, forgotten, sent>>

\* Start subscribes the scopes in use, and gives up when one fails; Run then
\* falls back to Postgres.
Start ==
    /\ ~started /\ upstream = {} /\ failed = {}
    /\ \/ /\ started' = TRUE
          /\ upstream' = {c \in Scopes : refs[c] > 0}
          /\ UNCHANGED <<failed, changes>>
       \/ /\ \E c \in Scopes : refs[c] > 0
          /\ changes < MaxChanges /\ changes' = changes + 1
          /\ failed' = Scopes
          /\ UNCHANGED <<started, upstream>>
    /\ UNCHANGED <<local, call, subScopes, refs, remote, sent>>

-----------------------------------------------------------------------------
(* Publishing *)

Fan(t, e) == fan' = [fan EXCEPT ![t] = FanOut(e, listed)]

\* Events are published in order; an event published once has scopes.
NextEvent(e) ==
    /\ e \in Events /\ scopesOf[e] = {}
    /\ \A d \in Events : d < e => scopesOf[d] # {}

\* One message per scope, to the subscriptions of this node.
Publish(e, set, own) ==
    /\ NextEvent(e)
    /\ scopesOf' = [scopesOf EXCEPT ![e] = set]
    /\ queue' = [c \in Scopes |-> IF c \in set \cap upstream
                                  THEN Append(queue[c], [evt |-> e, own |-> own]) ELSE queue[c]]

\* A sibling node publishes.
RemotePublish(e, set) ==
    /\ Publish(e, set, FALSE)
    /\ Owes(e, [s \in Subs |-> IF Ready(s) THEN subScopes[s] \cap set \cap upstream ELSE {}])
    /\ UNCHANGED <<local, call, changes, cluster, seen, forgotten, fan, got, panicked>>

\* This node publishes, to its own subscriptions first.
LocalPublish(e, set) ==
    /\ ~Busy(Self)
    /\ Publish(e, set, TRUE)
    /\ Fan(Self, e)
    /\ Owes(e, [s \in Subs |-> IF s \in listed /\ Ready(s) THEN filter[s] \cap set ELSE {}])
    /\ UNCHANGED <<local, call, changes, cluster, seen, forgotten, got, panicked>>

Seen(e) == \E i \in DOMAIN seen : seen[i] = e

\* Mutant: nothing leaves the memory.
rememberRemote_All(e) == seen' = Append(seen, e) /\ UNCHANGED forgotten

\* The oldest entries leave a full memory.
rememberRemote(e) ==
    IF Len(seen) = DedupeLimit
    THEN seen' = Append(Tail(seen), e) /\ forgotten' = forgotten \cup {Head(seen)}
    ELSE seen' = Append(seen, e) /\ UNCHANGED forgotten

\* Mutant: events of this node are delivered again.
Skip_NotOwn(msg) == Seen(msg.evt)

\* An event of this node, or one that came by another scope.
Skip(msg) == msg.own \/ Seen(msg.evt)

\* The callback of a subscription takes its next message.
onRemote(c) ==
    /\ queue[c] # <<>> /\ ~Busy(c)
    /\ queue' = [queue EXCEPT ![c] = Tail(@)]
    /\ IF Skip(Head(queue[c]))
       THEN UNCHANGED <<seen, forgotten, fan>>
       ELSE rememberRemote(Head(queue[c]).evt) /\ Fan(c, Head(queue[c]).evt)
    /\ UNCHANGED <<local, call, changes, cluster, scopesOf, got, panicked, owed>>

\* Mutant: the fan-out ends at a subscription that does not match.
Served_Returns(t, s) == IF filter[s] \cap scopesOf[fan[t].evt] = {} THEN fan[t].todo ELSE {s}

\* The loop goes on to the next subscription of the copy.
Served(t, s) == {s}

\* The next subscription of the copy: a send when its filter matches.
PublishLocal(t) ==
    /\ ~panicked
    /\ \E s \in fan[t].todo :
         /\ fan' = [fan EXCEPT ![t] = FanOut(@.evt, @.todo \ Served(t, s))]
         /\ IF filter[s] \cap scopesOf[fan[t].evt] = {}
            THEN UNCHANGED <<got, panicked>>
            ELSE /\ panicked' = (s \in closed)
                 /\ got' = IF s \in closed THEN got ELSE [got EXCEPT ![s][fan[t].evt] = @ + 1]
    /\ UNCHANGED <<local, call, changes, cluster, remote, scopesOf, owed>>

-----------------------------------------------------------------------------
Deliver == (\E t \in Threads : PublishLocal(t)) \/ (\E c \in Scopes : onRemote(c))

Connection(s) ==
    \/ \E set \in (SUBSET Scopes) \ {{}} : Subscribe(s, set) \/ AddScopes(s, set) \/ RemoveScopes(s, set)
    \/ Unsubscribe(s) \/ AddRefs(s) \/ RemoveRefs(s)

Next ==
    \/ Start \/ Deliver
    \/ \E s \in Subs : Connection(s)
    \/ \E e \in Events, set \in (SUBSET Scopes) \ {{}} : RemotePublish(e, set) \/ LocalPublish(e, set)

Spec == Init /\ [][Next]_vars

-----------------------------------------------------------------------------
(***************************************************************************)
(* Properties.                                                             *)
(***************************************************************************)

\* Every reachable state is well typed, and the memory for duplicates stays
\* within its limit.
TypeOK ==
    /\ listed \subseteq Subs /\ closed \subseteq Subs /\ filter \in [Subs -> SUBSET Scopes]
    /\ call \in [Subs -> [op : Ops, set : SUBSET Scopes]]
    /\ started \in BOOLEAN /\ upstream \subseteq Scopes /\ failed \subseteq Scopes
    /\ changes \in 0..MaxChanges
    /\ subScopes \in [Subs -> SUBSET Scopes] /\ refs \in [Scopes -> Nat]
    /\ queue \in [Scopes -> Seq([evt : Events, own : BOOLEAN])]
    /\ seen \in Seq(Events) /\ Len(seen) <= DedupeLimit /\ forgotten \subseteq Events
    /\ fan \in [Threads -> [evt : Events \cup {0}, todo : SUBSET Subs]]
    /\ scopesOf \in [Events -> SUBSET Scopes] /\ owed \in [Subs -> SUBSET (Events \X Scopes)]
    /\ got \in [Subs -> [Events -> Nat]] /\ panicked \in BOOLEAN

\* The upstream subscriptions are those of the scopes in use, but for the ones
\* that failed; the count of a scope is the number of its subscriptions.
UpstreamExact ==
    /\ \A c \in Scopes : refs[c] = Cardinality({s \in Subs : c \in subScopes[s]})
    /\ started => upstream = {c \in Scopes : refs[c] > 0} \ failed

\* An event reaches a subscription once, by whatever scopes it came, as long
\* as the memory for duplicates holds it.
SentOnce == \A s \in Subs, e \in Events : got[s][e] > 1 => e \in forgotten

\* What is published while a subscription has one of its scopes, upstream for
\* an event of a sibling, has reached it when nothing is on its way any more,
\* whatever other subscriptions came and went meanwhile, as long as it kept
\* that scope and the process lives.
OwedSent ==
    (\A c \in Scopes : queue[c] = <<>>) /\ (\A t \in Threads : ~Busy(t)) /\ ~panicked
        => \A s \in Subs : \A o \in owed[s] : got[s][o[1]] > 0

\* "call Unsubscribe when the connection closes": closing a connection while
\* events are published is no error.
NoSendOnClosed == ~panicked
=============================================================================
