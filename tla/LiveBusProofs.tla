---------------------------- MODULE LiveBusProofs -----------------------------
(***************************************************************************)
(* Proofs about LiveBus, for any number of subscriptions, scopes and       *)
(* events and any size of the memory for duplicates.                       *)
(*                                                                         *)
(* The invariant is in LiveBusPublishProofs, with the steps that publish.  *)
(*                                                                         *)
(* Three arguments.  A scope is counted once by each subscription that     *)
(* has it, and the count alone decides about the upstream subscription.    *)
(* An event is fanned out again only after the memory has lost it: while a *)
(* message of it is unheard, nobody has it or is being served it.  What is *)
(* owed to a subscription is sent, or is in the hands of a publishing      *)
(* thread, or is an unheard message of a scope whose subscription cannot   *)
(* go away, because the one it is owed to holds a reference.               *)
(***************************************************************************)
EXTENDS LiveBusPublishProofs, FiniteSetTheorems

-----------------------------------------------------------------------------
(* The in-process half of a call *)

\* The first half touches neither counts nor messages.
LEMMA FirstHalf ==
    ASSUME IInv, UNCHANGED <<cluster, remote, fan, scopesOf, got>>
    PROVE  Counted' /\ Upstream' /\ Unpublished' /\ Once'
  <1>1. UNCHANGED <<started, subScopes, refs, upstream, failed, queue, seen, forgotten>>
    BY DEF cluster, remote
  <1>2. Counted' /\ Upstream'
    BY <1>1 DEF IInv, Counted, Holders, Upstream, InUse
  <1>3. \A c \in Scopes : \A x : In(queue'[c], x) => In(queue[c], x)
    BY <1>1
  <1> QED  BY <1>1, <1>2, <1>3, MessagesKept DEF IInv

\* The other connections are where they were.
LEMMA OthersConnected ==
    ASSUME Connections, NEW s \in Subs, Connected(s)',
           \A r \in Subs : r # s => /\ call'[r] = call[r] /\ filter'[r] = filter[r]
                                    /\ subScopes'[r] = subScopes[r] /\ owed'[r] = owed[r]
                                    /\ r \in listed => r \in listed'
                                    /\ r \in closed' => r \in closed
    PROVE  Connections'
  <1> SUFFICES ASSUME NEW r \in Subs, r # s PROVE Connected(r)'
    BY DEF Connections
  <1> QED  BY DEF Connections, Connected

LEMMA SubscribeInv ==
    ASSUME IInv, NEW s \in Subs, NEW set \in SUBSET Scopes, Subscribe(s, set)
    PROVE  IInv'
  <1>1. Typed /\ Connections /\ Due /\ Connected(s)
    BY DEF IInv, Connections
  <1>2. /\ call[s].op = "new" /\ listed' = listed \cup {s} /\ filter' = [filter EXCEPT ![s] = set]
        /\ call' = [call EXCEPT ![s] = Call("subscribe", set)]
        /\ UNCHANGED <<closed, cluster, remote, sent>>
    BY DEF Subscribe
  <1>3. UNCHANGED <<started, subScopes, upstream, refs, queue, seen, fan, scopesOf, got, owed>>
    BY <1>2 DEF cluster, remote, sent
  <1>4. Call("subscribe", set) \in [op : Ops, set : SUBSET Scopes]
    BY DEF Call, Ops
  <1>5. Typed'
    BY <1>1, <1>2, <1>3, <1>4 DEF Typed, Busy
  <1>6. call'[s].op = "subscribe" /\ call'[s].set = set /\ filter'[s] = set
    BY <1>1, <1>2 DEF Typed, Call
  <1>7. Connected(s)'
    BY <1>1, <1>2, <1>3, <1>6 DEF Connected
  <1>8. Connections'
    BY <1>1, <1>2, <1>3, <1>7, OthersConnected DEF Typed
  <1>9. Due'
    <2>1. owed'[s] = {}
      BY <1>1, <1>2, <1>3 DEF Connected
    <2>2. \A r \in Subs : r # s => call'[r] = call[r]
      BY <1>1, <1>2 DEF Typed
    <2> QED  BY <1>1, <1>3, <2>1, <2>2, DueKept
  <1>10. UNCHANGED <<cluster, remote, fan, scopesOf, got>>
    BY <1>2 DEF sent
  <1> QED  BY <1>5, <1>8, <1>9, <1>10, FirstHalf DEF IInv

\* A call that gives scopes up gives up what they owe.
LEMMA GivenUp ==
    ASSUME Typed, NEW s \in Subs, NEW set \in SUBSET Scopes, GivesUp(s, set)
    PROVE  /\ owed' \in [Subs -> SUBSET (Events \X Scopes)]
           /\ \A r \in Subs : r # s => owed'[r] = owed[r]
           /\ \A e \in Events, c \in Scopes : <<e, c>> \in owed'[s] => <<e, c>> \in owed[s] /\ c \notin set
           /\ set = Scopes => owed'[s] = {}
           /\ owed[s] = {} => owed'[s] = {}
  <1>1. owed \in [Subs -> SUBSET (Events \X Scopes)] /\ owed' = [owed EXCEPT ![s] = {o \in @ : o[2] \notin set}]
    BY DEF Typed, GivesUp
  <1>2. owed'[s] = {o \in owed[s] : o[2] \notin set} /\ owed[s] \subseteq Events \X Scopes
    BY <1>1
  <1>3. set = Scopes => owed'[s] = {}
    BY <1>2
  <1> QED  BY <1>1, <1>2, <1>3

LEMMA UnsubscribeInv ==
    ASSUME IInv, NEW s \in Subs, Unsubscribe(s)
    PROVE  IInv'
  <1>1. Typed /\ Connections /\ Due /\ Connected(s)
    BY DEF IInv, Connections
  <1>2. /\ listed' = listed \ {s} /\ closed' = closed \cup {s}
        /\ call' = [call EXCEPT ![s] = Call("unsubscribe", {})]
        /\ GivesUp(s, Scopes) /\ UNCHANGED <<filter, cluster, remote>>
        /\ UNCHANGED <<fan, scopesOf, got>>
    BY DEF Unsubscribe, GivesUp
  <1>3. UNCHANGED <<started, subScopes, upstream, refs, queue, seen>>
    BY <1>2 DEF cluster, remote
  <1>4. Call("unsubscribe", {}) \in [op : Ops, set : SUBSET Scopes]
    BY DEF Call, Ops
  <1>5. /\ owed' \in [Subs -> SUBSET (Events \X Scopes)] /\ owed'[s] = {}
        /\ \A r \in Subs : r # s => owed'[r] = owed[r]
    BY <1>1, <1>2, GivenUp
  <1>6. Typed'
    BY <1>1, <1>2, <1>3, <1>4, <1>5, Zenon DEF Typed, Busy
  <1>7. call'[s].op = "unsubscribe" /\ \A r \in Subs : r # s => call'[r] = call[r]
    BY <1>1, <1>2 DEF Typed, Call
  <1>8. Connected(s)'
    BY <1>5, <1>7 DEF Connected
  <1>9. Connections'
    BY <1>1, <1>2, <1>3, <1>5, <1>7, <1>8, OthersConnected
  <1>10. Due'
    BY <1>1, <1>2, <1>3, <1>5, <1>7, DueKept
  <1> QED  BY <1>2, <1>6, <1>9, <1>10, FirstHalf DEF IInv

LEMMA AddScopesInv ==
    ASSUME IInv, NEW s \in Subs, NEW set \in SUBSET Scopes, AddScopes(s, set)
    PROVE  IInv'
  <1>1. Typed /\ Connections /\ Due /\ Connected(s)
    BY DEF IInv, Connections
  <1>2. /\ call[s].op = "none" /\ filter' = [filter EXCEPT ![s] = @ \cup set]
        /\ call' = [call EXCEPT ![s] = Call("add", set)]
        /\ UNCHANGED <<listed, closed, cluster, remote, sent>>
    BY DEF AddScopes, Ready
  <1>3. UNCHANGED <<started, subScopes, upstream, refs, queue, seen, fan, scopesOf, got, owed>>
    BY <1>2 DEF cluster, remote, sent
  <1>4. Call("add", set) \in [op : Ops, set : SUBSET Scopes]
    BY DEF Call, Ops
  <1>5. Typed'
    BY <1>1, <1>2, <1>3, <1>4 DEF Typed, Busy
  <1>6. /\ call'[s].op = "add" /\ call'[s].set = set /\ filter'[s] = filter[s] \cup set
        /\ \A r \in Subs : r # s => call'[r] = call[r] /\ filter'[r] = filter[r]
    BY <1>1, <1>2 DEF Typed, Call
  <1>7. Connected(s)'
    BY <1>1, <1>2, <1>3, <1>6 DEF Connected
  <1>8. Connections'
    BY <1>1, <1>2, <1>3, <1>6, <1>7, OthersConnected
  <1>9. Due'
    BY <1>1, <1>3, <1>6, DueKept
  <1>10. UNCHANGED <<cluster, remote, fan, scopesOf, got>>
    BY <1>2 DEF sent
  <1> QED  BY <1>5, <1>8, <1>9, <1>10, FirstHalf DEF IInv

LEMMA RemoveScopesInv ==
    ASSUME IInv, NEW s \in Subs, NEW set \in SUBSET Scopes, RemoveScopes(s, set)
    PROVE  IInv'
  <1>1. Typed /\ Connections /\ Due /\ Connected(s)
    BY DEF IInv, Connections
  <1>2. /\ call[s].op = "none" /\ filter' = [filter EXCEPT ![s] = @ \ set]
        /\ call' = [call EXCEPT ![s] = Call("remove", set)]
        /\ GivesUp(s, set) /\ UNCHANGED <<listed, closed, cluster, remote>>
        /\ UNCHANGED <<fan, scopesOf, got>>
    BY DEF RemoveScopes, Ready, GivesUp
  <1>3. UNCHANGED <<started, subScopes, upstream, refs, queue, seen>>
    BY <1>2 DEF cluster, remote
  <1>4. Call("remove", set) \in [op : Ops, set : SUBSET Scopes]
    BY DEF Call, Ops
  <1>5. /\ owed' \in [Subs -> SUBSET (Events \X Scopes)]
        /\ \A r \in Subs : r # s => owed'[r] = owed[r]
        /\ \A e \in Events, c \in Scopes : <<e, c>> \in owed'[s] => <<e, c>> \in owed[s] /\ c \notin set
    BY <1>1, <1>2, GivenUp
  <1>6. Typed'
    BY <1>1, <1>2, <1>3, <1>4, <1>5, ZenonT(30) DEF Typed, Busy
  <1>7. /\ call'[s].op = "remove" /\ call'[s].set = set /\ filter'[s] = filter[s] \ set
        /\ \A r \in Subs : r # s => call'[r] = call[r] /\ filter'[r] = filter[r]
    BY <1>1, <1>2 DEF Typed, Call
  <1>8. Connected(s)'
    BY <1>1, <1>2, <1>3, <1>7 DEF Connected
  <1>9. Connections'
    BY <1>1, <1>2, <1>3, <1>5, <1>7, <1>8, OthersConnected
  <1>10. Due'
    BY <1>1, <1>2, <1>3, <1>5, <1>7, DueKept
  <1> QED  BY <1>2, <1>6, <1>9, <1>10, FirstHalf DEF IInv

-----------------------------------------------------------------------------
(* The cluster half *)

LEMMA HoldersFinite == \A c \in Scopes : IsFiniteSet(Holders(c)) /\ Cardinality(Holders(c)) \in Nat
  <1> SUFFICES ASSUME NEW c \in Scopes PROVE IsFiniteSet(Holders(c))
    BY FS_CardinalityType
  <1>1. Holders(c) \subseteq Subs /\ IsFiniteSet(Subs)
    BY BusConstants DEF Holders
  <1> QED  BY <1>1, FS_Subset

LEMMA AddRefsInv ==
    ASSUME IInv, NEW s \in Subs, AddRefs(s)
    PROVE  IInv'
  <1> DEFINE new == call[s].set \ subScopes[s]
  <1>1. /\ Typed /\ Connections /\ Counted /\ Upstream /\ Unpublished /\ Once /\ Due /\ Connected(s)
    BY DEF IInv, Connections
  <1>2. /\ call[s].op \in {"subscribe", "add"}
        /\ subScopes' = [subScopes EXCEPT ![s] = @ \cup new]
        /\ refs' = [c \in Scopes |-> IF c \in new THEN refs[c] + 1 ELSE refs[c]]
        /\ call' = [call EXCEPT ![s] = Call("none", {})]
        /\ UNCHANGED <<listed, filter, closed, started, queue, seen, forgotten, fan, scopesOf, got, owed>>
    BY DEF AddRefs, NewScopes, local, remote, sent
  <1>3. IF started THEN SubscribeUpstream({c \in new : refs[c] = 0})
                   ELSE UNCHANGED <<upstream, failed, changes>>
    BY DEF AddRefs, NewScopes
  <1>4. new \subseteq Scopes /\ new \cap subScopes[s] = {}
    BY <1>1 DEF Typed
  <1>5. Call("none", {}) \in [op : Ops, set : SUBSET Scopes]
    BY DEF Call, Ops
  <1>6. /\ call'[s].op = "none" /\ subScopes'[s] = subScopes[s] \cup call[s].set
        /\ \A r \in Subs : r # s => call'[r] = call[r] /\ subScopes'[r] = subScopes[r]
    BY <1>1, <1>2 DEF Typed, Call
  <1> HIDE DEF new
  <1>7. upstream' \subseteq Scopes
    BY <1>1, <1>3, <1>4 DEF Typed, SubscribeUpstream
  <1>8. Typed'
    <2>1. call' \in [Subs -> [op : Ops, set : SUBSET Scopes]]
      BY <1>1, <1>2, <1>5 DEF Typed
    <2>2. subScopes' \in [Subs -> SUBSET Scopes] /\ refs' \in [Scopes -> Nat]
      BY <1>1, <1>2, <1>4 DEF Typed
    <2> QED  BY <1>1, <1>2, <1>7, <2>1, <2>2 DEF Typed, Busy
  <1>9. Connections'
    <2>1. Connected(s)'
      BY <1>1, <1>2, <1>6, Zenon DEF Connected
    <2> QED  BY <1>1, <1>2, <1>6, <2>1, OthersConnected
  <1>10. Counted'
    <2> SUFFICES ASSUME NEW c \in Scopes PROVE refs'[c] = Cardinality(Holders(c)')
      BY DEF Counted
    <2>1. IsFiniteSet(Holders(c)) /\ refs[c] = Cardinality(Holders(c))
      BY <1>1, HoldersFinite DEF Counted
    <2>2. CASE c \in new
      <3>1. Holders(c)' = Holders(c) \cup {s} /\ s \notin Holders(c)
        BY <1>1, <1>2, <1>4, <1>6, <2>2 DEF Holders, Typed
      <3> QED  BY <1>2, <2>1, <2>2, <3>1, FS_AddElement, ZenonT(30)
    <2>3. CASE c \notin new
      <3>1. Holders(c)' = Holders(c)
        BY <1>1, <1>2, <2>3 DEF Holders, Typed
      <3> QED  BY <1>2, <2>1, <2>3, <3>1
    <2> QED  BY <2>2, <2>3
  <1>11. Upstream'
    <2>1. \A c \in Scopes : refs[c] \in Nat /\ refs'[c] = IF c \in new THEN refs[c] + 1 ELSE refs[c]
      BY <1>1, <1>2 DEF Typed
    <2>2. \A c \in Scopes : c \in InUse' <=> c \in InUse \/ c \in {d \in new : refs[d] = 0}
      BY <1>4, <2>1 DEF InUse
    <2>3. CASE started
      <3> DEFINE want == {c \in new : refs[c] = 0}
      <3>1. PICK fails \in SUBSET (want \ upstream) :
               upstream' = upstream \cup (want \ fails) /\ failed' = failed \cup fails
        BY <1>3, <2>3 DEF SubscribeUpstream
      <3>2. want \cap InUse = {} /\ want \subseteq Scopes
        BY <1>4, <2>1 DEF InUse
      <3>3. InUse' = InUse \cup want
        BY <2>2, <3>2 DEF InUse
      <3> HIDE DEF want
      <3>4. upstream = InUse \ failed /\ failed \subseteq InUse
        BY <1>1, <2>3 DEF Upstream
      <3>5. upstream' = InUse' \ failed' /\ failed' \subseteq InUse'
        BY <3>1, <3>2, <3>3, <3>4
      <3>6. upstream \subseteq upstream'
        BY <3>1
      <3> QED  BY <1>1, <1>2, <2>3, <3>5, <3>6 DEF Upstream
    <2>4. CASE ~started
      BY <1>1, <1>2, <1>3, <2>4 DEF Upstream
    <2> QED  BY <2>3, <2>4
  <1>12. Unpublished' /\ Once'
    BY <1>1, <1>2, MessagesKept
  <1>13. Due'
    BY <1>1, <1>2, <1>6, DueKept
  <1> QED  BY <1>8, <1>9, <1>10, <1>11, <1>12, <1>13 DEF IInv

\* Two subscriptions that hold a scope count for two.
LEMMA TwoHolders ==
    ASSUME NEW c \in Scopes, NEW r \in Holders(c), NEW s \in Holders(c), r # s
    PROVE  Cardinality(Holders(c)) > 1
  <1>1. IsFiniteSet(Holders(c)) /\ Cardinality(Holders(c)) \in Nat
    BY HoldersFinite
  <1>2. /\ IsFiniteSet(Holders(c) \ {r})
        /\ Cardinality(Holders(c) \ {r}) = Cardinality(Holders(c)) - 1
    BY <1>1, FS_RemoveElement
  <1>3. Cardinality(Holders(c) \ {r}) # 0 /\ Cardinality(Holders(c) \ {r}) \in Nat
    BY <1>2, FS_EmptySet, FS_CardinalityType
  <1> QED  BY <1>1, <1>2, <1>3

LEMMA RemoveRefsInv ==
    ASSUME IInv, NEW s \in Subs, RemoveRefs(s)
    PROVE  IInv'
  <1> DEFINE old == IF call[s].op = "unsubscribe" THEN subScopes[s] ELSE subScopes[s] \cap call[s].set
             op == IF call[s].op = "unsubscribe" THEN "gone" ELSE "none"
  <1>1. Typed /\ Connections /\ Counted /\ Upstream /\ Unpublished /\ Once /\ Due /\ Connected(s)
    BY DEF IInv, Connections
  <1>2. /\ call[s].op \in {"unsubscribe", "remove"}
        /\ subScopes' = [subScopes EXCEPT ![s] = @ \ old]
        /\ refs' = [c \in Scopes |-> IF c \in old THEN (IF refs[c] <= 1 THEN 0 ELSE refs[c] - 1) ELSE refs[c]]
        /\ upstream' = upstream \ Unused(old)
        /\ failed' = IF started THEN failed \ Unused(old) ELSE failed
        /\ queue' = [c \in Scopes |-> IF c \in upstream' THEN queue[c] ELSE <<>>]
        /\ call' = [call EXCEPT ![s] = Call(op, {})]
        /\ UNCHANGED <<listed, filter, closed, started, seen, forgotten, fan, scopesOf, got, owed>>
    BY DEF RemoveRefs, Discard, local, sent
  <1>3. \A c \in Scopes : refs'[c] = IF c \in old THEN (IF refs[c] <= 1 THEN 0 ELSE refs[c] - 1) ELSE refs[c]
    BY <1>2
  <1>4. /\ upstream' = upstream \ Unused(old) /\ started' = started
        /\ failed' = IF started THEN failed \ Unused(old) ELSE failed
    BY <1>2
  <1>5. UNCHANGED <<listed, filter, closed, started, seen, forgotten, fan, scopesOf, got, owed>>
    BY <1>2
  <1>6. old \subseteq subScopes[s] /\ old \subseteq Scopes
    BY <1>1 DEF Typed
  <1>7. call[s].op = "remove" => old = subScopes[s] \cap call[s].set
    OBVIOUS
  <1>8. op \in {"gone", "none"} /\ (op = "none" => call[s].op = "remove")
    BY <1>2
  <1> HIDE DEF old, op
  <1>9. Call(op, {}) \in [op : Ops, set : SUBSET Scopes]
    BY <1>8 DEF Call, Ops
  <1>10. /\ call'[s].op = op /\ subScopes'[s] = subScopes[s] \ old
         /\ \A r \in Subs : r # s => call'[r] = call[r] /\ subScopes'[r] = subScopes[r]
    BY <1>1, <1>2 DEF Typed, Call
  <1>11. \A c \in Scopes : refs[c] = Cardinality(Holders(c)) /\ refs[c] \in Nat /\ IsFiniteSet(Holders(c))
    BY <1>1, HoldersFinite DEF Counted, Typed
  <1>12. \A c \in Scopes : /\ queue'[c] = queue[c] \/ queue'[c] = <<>>
                           /\ queue'[c] # <<>> => c \in upstream'
                           /\ c \in upstream' => queue'[c] = queue[c]
    BY <1>2
  <1>13. Typed'
    <2>1. call' \in [Subs -> [op : Ops, set : SUBSET Scopes]]
      BY <1>1, <1>2, <1>9 DEF Typed
    <2>2. subScopes' \in [Subs -> SUBSET Scopes] /\ refs' \in [Scopes -> Nat]
      BY <1>1, <1>2, <1>11 DEF Typed
    <2>3. queue' \in [Scopes -> Seq(Messages)] /\ upstream' \subseteq Scopes
      <3>1. \A c \in Scopes : queue'[c] \in Seq(Messages)
        <4>1. <<>> \in Seq(Messages)
          OBVIOUS
        <4>2. \A c \in Scopes : queue[c] \in Seq(Messages)
          BY <1>1 DEF Typed
        <4> QED  BY <1>12, <4>1, <4>2, Zenon
      <3> QED  BY <1>1, <1>2, <3>1 DEF Typed
    <2> QED  BY <1>1, <1>2, <2>1, <2>2, <2>3 DEF Typed, Busy
  <1>14. Connections'
    <2>1. Connected(s)'
      BY <1>1, <1>2, <1>7, <1>8, <1>10, Zenon DEF Connected
    <2> QED  BY <1>1, <1>2, <1>10, <2>1, OthersConnected
  <1>15. Counted'
    <2> SUFFICES ASSUME NEW c \in Scopes PROVE refs'[c] = Cardinality(Holders(c)')
      BY DEF Counted
    <2>1. CASE c \in old
      <3>1. Holders(c)' = Holders(c) \ {s} /\ s \in Holders(c)
        BY <1>1, <1>2, <1>6, <1>10, <2>1 DEF Holders, Typed
      <3>2. Cardinality(Holders(c)') = refs[c] - 1 /\ Cardinality(Holders(c)') \in Nat
        BY <1>11, <3>1, FS_RemoveElement, FS_CardinalityType
      <3> QED  BY <1>11, <1>3, <2>1, <3>2
    <2>2. CASE c \notin old
      <3>1. Holders(c)' = Holders(c)
        BY <1>1, <1>2, <2>2 DEF Holders, Typed
      <3> QED  BY <1>11, <1>3, <2>2, <3>1
    <2> QED  BY <2>1, <2>2
  <1>16. Upstream'
    <2>1. InUse' = InUse \ Unused(old)
      BY <1>6, <1>11, <1>3 DEF InUse, Unused
    <2>2. started => upstream' = InUse' \ failed' /\ failed' \subseteq InUse'
      BY <1>1, <1>4, <2>1 DEF Upstream
    <2>3. ~started => upstream' = {}
      BY <1>1, <1>4 DEF Upstream
    <2> QED  BY <1>12, <1>4, <2>2, <2>3 DEF Upstream
  <1>17. Unpublished' /\ Once'
    <2>1. \A c \in Scopes : \A x : In(queue'[c], x) => In(queue[c], x)
      BY <1>12 DEF In
    <2> QED  BY <1>1, <1>5, <2>1, MessagesKept
  <1>18. Due'
    <2> SUFFICES ASSUME NEW r \in Subs, NEW e \in Events, NEW c \in Scopes, <<e, c>> \in owed[r]
                 PROVE  /\ c \in subScopes'[r] /\ c \in scopesOf'[e]
                        /\ call'[r].op = "remove" => c \notin call'[r].set
                        /\ OnItsWay(r, e, c)'
      BY <1>5 DEF Due
    <2>1. /\ c \in subScopes[r] /\ c \in scopesOf[e]
          /\ call[r].op = "remove" => c \notin call[r].set
          /\ OnItsWay(r, e, c)
      BY <1>1 DEF Due
    <2>2. r = s => call[s].op = "remove" /\ c \notin old
      BY <1>1, <1>2, <1>7, <2>1 DEF Connected
    <2>3. c \notin Unused(old)
      <3> SUFFICES ASSUME c \in old, r # s PROVE refs[c] > 1
        BY <1>11, <2>2 DEF Unused
      <3>1. r \in Holders(c) /\ s \in Holders(c)
        BY <1>6, <2>1 DEF Holders
      <3> QED  BY <1>11, <3>1, TwoHolders
    <2>4. c \in subScopes'[r] /\ (call'[r].op = "remove" => c \notin call'[r].set)
      BY <1>8, <1>10, <2>1, <2>2
    <2>5. OnItsWay(r, e, c)'
      <3>1. CASE got[r][e] > 0 \/ \E t \in Threads : Serves(t, r, e)
        BY <1>5, <3>1 DEF OnItsWay, Serves
      <3>2. CASE Unheard(c, e)
        <4>1. queue[c] # <<>>
          BY <3>2 DEF Unheard, Pending, In
        <4>2. c \in upstream'
          BY <1>1, <1>4, <2>3, <4>1 DEF Upstream
        <4>3. queue'[c] = queue[c]
          BY <1>12, <4>2
        <4> QED  BY <1>5, <3>2, <4>3, Zenon DEF OnItsWay, Unheard, Pending, In
      <3> QED  BY <2>1, <3>1, <3>2 DEF OnItsWay
    <2> QED  BY <1>5, <2>1, <2>4, <2>5
  <1> QED  BY <1>13, <1>14, <1>15, <1>16, <1>17, <1>18 DEF IInv

LEMMA StartInv ==
    ASSUME IInv, Start
    PROVE  IInv'
  <1>1. Typed /\ Connections /\ Counted /\ Upstream /\ Unpublished /\ Once /\ Due
    BY DEF IInv
  <1>2. /\ ~started /\ upstream = {} /\ failed = {}
        /\ \/ started' = TRUE /\ upstream' = InUse /\ failed' = {}
           \/ started' = started /\ upstream' = upstream
        /\ UNCHANGED <<listed, filter, closed, call, subScopes, refs, queue, seen, forgotten, fan,
                       scopesOf, got, owed>>
    BY DEF Start, InUse, local, remote, sent
  <1>3. Typed'
    BY <1>1, <1>2, Zenon DEF Typed, Busy, InUse
  <1>4. Connections' /\ Counted'
    BY <1>1, <1>2, Zenon DEF Connections, Connected, Counted, Holders
  <1>5. Upstream'
    <2>1. InUse' = InUse /\ queue' = queue
      BY <1>2 DEF InUse
    <2>2. CASE started' = TRUE /\ upstream' = InUse /\ failed' = {}
      BY <1>1, <1>2, <2>1, <2>2 DEF Upstream
    <2>3. CASE started' = started /\ upstream' = upstream
      BY <1>1, <1>2, <2>1, <2>3 DEF Upstream
    <2> QED  BY <1>2, <2>2, <2>3, Zenon
  <1>6. Unpublished' /\ Once'
    BY <1>1, <1>2, MessagesKept
  <1>7. Due'
    BY <1>1, <1>2, DueKept
  <1> QED  BY <1>3, <1>4, <1>5, <1>6, <1>7 DEF IInv

-----------------------------------------------------------------------------
(* Theorems *)

LEMMA InitInv == Init => IInv
  <1> SUFFICES ASSUME Init PROVE IInv
    OBVIOUS
  <1>1. FanOut(0, {}) \in [evt : Events \cup {0}, todo : SUBSET Subs] /\ FanOut(0, {}).todo = {}
    BY DEF FanOut
  <1>2. Call("new", {}) \in [op : Ops, set : SUBSET Scopes] /\ Call("new", {}).op = "new"
    BY DEF Call, Ops
  <1>3. \A t \in Threads : fan[t].todo = {}
    BY <1>1 DEF Init
  <1>4. Typed
    <2>1. fan \in [Threads -> [evt : Events \cup {0}, todo : SUBSET Subs]]
      BY <1>1 DEF Init
    <2>2. call \in [Subs -> [op : Ops, set : SUBSET Scopes]]
      BY <1>2 DEF Init
    <2>3. queue \in [Scopes -> Seq(Messages)] /\ seen \in Seq(Events)
      BY DEF Init
    <2> QED  BY <1>3, <2>1, <2>2, <2>3, Zenon DEF Init, Typed, Busy
  <1>5. Connections
    BY <1>2 DEF Init, Connections, Connected
  <1>6. Counted
    <2>1. \A c \in Scopes : Holders(c) = {}
      BY DEF Init, Holders
    <2> QED  BY <2>1, FS_EmptySet, Zenon DEF Init, Counted
  <1>7. Upstream
    BY DEF Init, Upstream
  <1>8. \A e \in Events : Untouched(e) /\ ~In(seen, e)
    <2>1. \A s \in Subs, e \in Events : got[s][e] = 0
      BY DEF Init
    <2>2. \A t \in Threads, s \in Subs, e \in Events : ~Serves(t, s, e)
      BY <1>3 DEF Serves
    <2>3. \A e \in Events : Untouched(e)
      BY <2>1, <2>2 DEF Untouched
    <2>4. seen = <<>>
      BY DEF Init
    <2>5. \A e \in Events : ~In(seen, e)
      BY <2>4 DEF In
    <2> QED  BY <2>3, <2>5
  <1>9. \A c \in Scopes : \A x : ~In(queue[c], x)
    BY DEF Init, In
  <1>10. Unpublished /\ Once
    <2>1. \A s \in Subs, e \in Events : got[s][e] = 0
      BY DEF Init
    <2>2. \A t \in Threads, s \in Subs, e \in Events : ~Serves(t, s, e)
      BY <1>3 DEF Serves
    <2>3. \A c \in Scopes, e \in Events : ~Pending(c, e) /\ ~Unheard(c, e) /\ ~In(queue[c], Msg(e, TRUE))
      BY <1>9, Zenon DEF Unheard, Pending
    <2>4. Unpublished
      BY <1>8, <2>3, Zenon DEF Unpublished
    <2>5. \A s \in Subs, e \in Events : got[s][e] <= 1
      BY <2>1
    <2>6. Once
      BY <2>2, <2>3, <2>5, Zenon DEF Once, SentByOne
    <2> QED  BY <2>4, <2>6
  <1>11. Due
    BY DEF Init, Due
  <1> QED  BY <1>4, <1>5, <1>6, <1>7, <1>10, <1>11 DEF IInv

LEMMA StepInv == IInv /\ [Next]_vars => IInv'
  <1> SUFFICES ASSUME IInv, [Next]_vars PROVE IInv'
    OBVIOUS
  <1>1. CASE Start
    BY <1>1, StartInv
  <1>2. CASE Deliver
    BY <1>2, PublishLocalInv, OnRemoteInv DEF Deliver
  <1>3. ASSUME NEW s \in Subs, Connection(s) PROVE IInv'
    BY <1>3, SubscribeInv, AddScopesInv, RemoveScopesInv, UnsubscribeInv, AddRefsInv, RemoveRefsInv
       DEF Connection
  <1>4. ASSUME NEW e \in Events, NEW set \in (SUBSET Scopes) \ {{}},
               RemotePublish(e, set) \/ LocalPublish(e, set)
        PROVE  IInv'
    <2>1. set \in SUBSET Scopes /\ set # {}
      BY <1>4
    <2>2. CASE RemotePublish(e, set)
      BY <2>1, <2>2, RemotePublishInv
    <2>3. CASE LocalPublish(e, set)
      BY <2>1, <2>3, LocalPublishInv
    <2> QED  BY <1>4, <2>2, <2>3
  <1>5. CASE UNCHANGED vars
    <2>1. /\ UNCHANGED <<local, call, cluster, remote>>
          /\ UNCHANGED <<queue, seen, forgotten, fan, scopesOf, got, owed>>
      BY <1>5 DEF vars, remote, sent
    <2>2. Connections' /\ Counted' /\ Upstream'
      BY <2>1, PublishingKeeps
    <2>3. Typed'
      BY <2>1 DEF IInv, Typed, Busy, local, cluster
    <2>4. Unpublished' /\ Once'
      BY <2>1, MessagesKept DEF IInv
    <2>5. Due'
      BY <2>1, DueKept DEF IInv, cluster
    <2> QED  BY <2>2, <2>3, <2>4, <2>5 DEF IInv
  <1> QED  BY <1>1, <1>2, <1>3, <1>4, <1>5 DEF Next

\* The inductive invariant holds in every reachable state.
THEOREM Invariance == Spec => []IInv
  BY InitInv, StepInv, PTL DEF Spec

\* The reference counts are exact and the upstream subscriptions are those of
\* the scopes in use, whatever calls of whatever connections overlap.
THEOREM UpstreamExactAlways == Spec => []UpstreamExact
  <1>1. IInv => UpstreamExact
    BY DEF IInv, Counted, Holders, Upstream, InUse, UpstreamExact
  <1> QED  BY <1>1, Invariance, PTL

\* An event reaches a subscription once, by whatever scopes and threads it
\* came, as long as the memory for duplicates holds it.
THEOREM SentOnceAlways == Spec => []SentOnce
  <1>1. IInv => SentOnce
    <2> SUFFICES ASSUME IInv, NEW s \in Subs, NEW e \in Events, got[s][e] > 1, e \notin forgotten
                 PROVE  FALSE
      BY DEF SentOnce
    <2>1. got[s][e] <= 1 /\ got[s][e] \in Nat
      BY DEF IInv, Once, SentByOne, Typed
    <2> QED  BY <2>1
  <1> QED  BY <1>1, Invariance, PTL

\* When nothing is on its way, everything owed has been sent.
THEOREM OwedSentAlways == Spec => []OwedSent
  <1>1. IInv => OwedSent
    <2> SUFFICES ASSUME IInv, \A c \in Scopes : queue[c] = <<>>, \A t \in Threads : ~Busy(t),
                        NEW s \in Subs, NEW o \in owed[s]
                 PROVE  got[s][o[1]] > 0
      BY DEF OwedSent
    <2>1. PICK e \in Events, c \in Scopes : o = <<e, c>>
      BY DEF IInv, Typed
    <2>2. OnItsWay(s, e, c)
      BY <2>1 DEF IInv, Due
    <2>3. ~Unheard(c, e) /\ \A t \in Threads : ~Serves(t, s, e)
      <3>1. queue[c] = <<>>
        OBVIOUS
      <3>2. ~Pending(c, e)
        BY <3>1 DEF Pending, In
      <3>3. \A t \in Threads : fan[t].todo = {}
        BY DEF Busy
      <3> QED  BY <3>2, <3>3 DEF Unheard, Serves
    <2>4. got[s][e] > 0
      BY <2>2, <2>3 DEF OnItsWay
    <2> QED  BY <2>1, <2>4
  <1> QED  BY <1>1, Invariance, PTL
=============================================================================
