------------------------ MODULE BucketClaims_proofs -------------------------
(***************************************************************************)
(* Proofs about the bucket class handlers (module BucketClaims): that they *)
(* leave no claim of a deleted class behind and no Ready class without a   *)
(* complete claim, except where the model names the mishap.                *)
(*                                                                         *)
(* The argument is about the order of events: of the events about a class  *)
(* that are still to be handled, the last one agrees with the server       *)
(* (Ordered).  So whatever the handler is doing for a class that has       *)
(* changed meanwhile, the event that repairs it is behind it in the queue. *)
(***************************************************************************)
EXTENDS BucketClaims, Informer_proofs, FiniteSetTheorems

Event == [op : {"add", "delete"}, cls : Class, ready : BOOLEAN]

\* The handler's steps for an event of a kind.
Working(op) == IF op = "delete" THEN {"delete"} ELSE Steps \ {"delete"}

\* An event of a kind about a class is in the queue; or the handler is at it.
Waits(op, c) == \E i \in DOMAIN events : events[i].cls = c /\ events[i].op = op
Coming(op, c) == Waits(op, c) \/ (h.cls = c /\ h.pc \in Working(op))

\* Every event of the other kind about the class, in the queue or in the
\* handler's hands, has one of this kind behind it.
LastWord(op, c) ==
  /\ \A i \in DOMAIN events : events[i].cls = c /\ events[i].op # op =>
       \E j \in DOMAIN events : i < j /\ events[j].cls = c /\ events[j].op = op
  /\ h.cls = c /\ h.pc \in Steps \ Working(op) => Waits(op, c)

-----------------------------------------------------------------------------
\* Types.

\* Taking the first event off the queue shifts the others by one.
LEMMA HandOut ==
  ASSUME NEW V, NEW s \in Seq(V), s # <<>>
  PROVE  /\ Head(s) = s[1] /\ Head(s) \in V /\ 1 \in DOMAIN s
         /\ Tail(s) \in Seq(V)
         /\ \A i \in DOMAIN Tail(s) : i \in Nat /\ i + 1 \in DOMAIN s /\ Tail(s)[i] = s[i + 1]
         /\ \A i \in DOMAIN s \ {1} :
              i \in Nat /\ i - 1 \in DOMAIN Tail(s) /\ Tail(s)[i - 1] = s[i]
  <1>1. Len(s) \in Nat \ {0} /\ DOMAIN s = 1 .. Len(s) /\ \A i \in DOMAIN s : s[i] \in V
    OBVIOUS
  <1>2. Head(s) = s[1] /\ Tail(s) \in Seq(V) /\ Len(Tail(s)) = Len(s) - 1
        /\ DOMAIN Tail(s) = 1 .. (Len(s) - 1)
        /\ \A i \in 1 .. (Len(s) - 1) : Tail(s)[i] = s[i + 1]
    BY <1>1
  <1> QED
    BY <1>1, <1>2

\* Announcing an event appends it.
LEMMA Announced ==
  ASSUME NEW V, NEW s \in Seq(V), NEW e \in V
  PROVE  /\ Append(s, e) \in Seq(V)
         /\ Len(s) + 1 \in DOMAIN Append(s, e) /\ Append(s, e)[Len(s) + 1] = e
         /\ \A i \in DOMAIN s : i \in DOMAIN Append(s, e) /\ Append(s, e)[i] = s[i]
                                /\ i < Len(s) + 1
         /\ \A i \in DOMAIN Append(s, e) : i \in DOMAIN s \/ i = Len(s) + 1
  OBVIOUS

\* The events a watch starts with: an addition for every class there is, and
\* nothing else.
LEMMA StartEvents ==
  ASSUME TypeOK, Start
  PROVE  /\ events' \in Seq(Event)
         /\ \A i \in DOMAIN events' : events'[i].op = "add" /\ class[events'[i].cls] # "absent"
         /\ \A c \in Class : class[c] # "absent" => Waits("add", c)'
  <1> DEFINE present == {c \in Class : class[c] # "absent"}
  <1>1. PICK s \in [1 .. Cardinality(present) -> present] :
          /\ \A c \in present : \E i \in DOMAIN s : s[i] = c
          /\ events' = [i \in DOMAIN s |-> Added(s[i], class[s[i]] = "ready")]
    BY DEF Start
  <1>2. Cardinality(present) \in Nat
    BY ClassAssumption, FS_Subset, FS_CardinalityType
  <1>3. \A i \in DOMAIN s : s[i] \in present /\ Added(s[i], class[s[i]] = "ready") \in Event
    BY <1>1 DEF Added, Event
  <1>4. events' \in Seq(Event)
    <2>1. DOMAIN s = 1 .. Cardinality(present)
      BY <1>1
    <2> QED
      BY <1>1, <1>2, <1>3, <2>1
  <1>5. \A i \in DOMAIN s : events'[i].op = "add" /\ events'[i].cls = s[i]
    BY <1>1 DEF Added
  <1>6. DOMAIN events' = DOMAIN s
    BY <1>1
  <1> QED
    BY <1>1, <1>3, <1>4, <1>5, <1>6 DEF Waits

\* What is in the queue are events.
LEMMA EventTypes ==
  ASSUME TypeOK
  PROVE  /\ events \in Seq(Event)
         /\ \A i \in DOMAIN events : i \in Nat /\ events[i] \in Event
  <1>1. events \in Seq(Event)
    BY DEF TypeOK, Event
  <1> QED
    BY <1>1

\* A handler that is at a step is at it for a class.
LEMMA AtClass ==
  ASSUME TypeOK, NEW step \in Steps, At(step)
  PROVE  h.pc = step /\ h.cls \in Class /\ h \in [pc : Steps, cls : Class] /\ up
  BY DEF TypeOK, At, Idle, Steps

\* The steps the handler may take next keep its type.
LEMMA GotoType ==
  ASSUME NEW step \in Steps, h \in [pc : Steps, cls : Class], Goto(step)
  PROVE  h' \in [pc : Steps, cls : Class] /\ h'.pc = step /\ h'.cls = h.cls
  BY DEF Goto

\* A claim that is stored is the server's; those of other classes stay.
LEMMA StoredClaim ==
  ASSUME TypeOK, NEW c \in Class, NEW v \in ClaimVersion
  PROVE  /\ Stored(c, v) \in [Class -> Log(ClaimVersion)]
         /\ Current(Stored(c, v)[c]) = v
         /\ \A d \in Class \ {c} : Stored(c, v)[d] = claim[d]
  <1>1. claim \in [Class -> Log(ClaimVersion)] /\ claim[c] \in Log(ClaimVersion)
    BY DEF TypeOK
  <1> DEFINE new == IF c \in LocalClass THEN Write(claim[c], v) ELSE Synced(v)
  <1>2. new \in Log(ClaimVersion) /\ Current(new) = v
    BY <1>1, WriteLog, SyncedLog
  <1>3. Stored(c, v) = [claim EXCEPT ![c] = new]
    BY DEF Stored
  <1> HIDE DEF new
  <1> QED
    BY <1>1, <1>2, <1>3

\* What the server holds and what is found are versions.
LEMMA ClaimVersions ==
  ASSUME TypeOK, NEW c \in Class
  PROVE  Current(claim[c]) \in ClaimVersion /\ Found(c) \in ClaimVersion
  <1>1. claim[c] \in Log(ClaimVersion)
    BY DEF TypeOK
  <1> QED
    BY <1>1, LogElements DEF Found, ClaimVersion

\* Filling the caches and delivering to them changes nothing at the server.
LEMMA CachesFollow ==
  ASSUME TypeOK, Start \/ \E c \in Class : DeliverClaim(c)
  PROVE  /\ claim' \in [Class -> Log(ClaimVersion)]
         /\ \A c \in Class : Current(claim'[c]) = Current(claim[c])
  <1>1. claim \in [Class -> Log(ClaimVersion)] /\ \A c \in Class : claim[c] \in Log(ClaimVersion)
    BY DEF TypeOK
  <1>2. CASE Start
    <2>1. claim' = [c \in Class |-> Relist(claim[c])]
      BY <1>2 DEF Start
    <2> QED
      BY <1>1, <2>1, RelistLog
  <1>3. ASSUME NEW c \in Class, DeliverClaim(c)
        PROVE  /\ claim' \in [Class -> Log(ClaimVersion)]
               /\ \A d \in Class : Current(claim'[d]) = Current(claim[d])
    <2>1. claim' = [claim EXCEPT ![c] = Deliver(claim[c])] /\ Lagging(claim[c])
      BY <1>3 DEF DeliverClaim
    <2>2. Deliver(claim[c]) \in Log(ClaimVersion) /\ Current(Deliver(claim[c])) = Current(claim[c])
      BY <1>1, <2>1, DeliverLog
    <2> QED
      BY <1>1, <2>1, <2>2
  <1> QED
    BY <1>2, <1>3

LEMMA InitType == ASSUME Init PROVE TypeOK
  <1>1. class \in [Class -> {"absent", "pending", "ready"}]
    BY DEF Init
  <1>2. claim \in [Class -> Log(ClaimVersion)]
    BY SyncedLog DEF Init, ClaimVersion
  <1>3. Fresh \in Claim
    BY DEF Fresh, Claim
  <1>4. events \in Seq([op : {"add", "delete"}, cls : Class, ready : BOOLEAN])
    BY DEF Init
  <1> QED
    BY BoundAssumption, <1>1, <1>2, <1>3, <1>4 DEF Init, TypeOK, Idle, Steps, ClaimVersion

\* Every step keeps the types.
LEMMA TypeStep ==
  ASSUME TypeOK, [Next]_vars
  PROVE  TypeOK'
  <1> USE DEF server, claims, memory, history, bounds
  <1>1. CASE Handle
    <2>1. Head(events) \in Event /\ Tail(events) \in Seq(Event)
      BY <1>1, HandOut DEF Handle, TypeOK, Event
    <2>2. h' \in [pc : Steps, cls : Class]
      BY <1>1, <2>1 DEF Handle, FirstStep, Event, Steps
    <2>3. h'.pc \in {"poll", "get", "delete"}
      BY <1>1, <2>1 DEF Handle, FirstStep, Event
    <2>4. excuse' \in [Class -> Reason \cup {"none"}]
      BY <1>1, <2>1 DEF Handle, TypeOK, Event
    <2> QED
      BY <1>1, <2>1, <2>2, <2>3, <2>4 DEF Handle, TypeOK, Event
  <1>2. CASE Poll
    BY <1>2, AtClass, GotoType DEF Poll, Return, Excuse, Idle, Reason, TypeOK, Steps
  <1>3. CASE GetClaim
    BY <1>3, AtClass, GotoType
    DEF GetClaim, Context, LeaveClaim, Return, Excuse, Idle, Reason, TypeOK, Steps, Fail
  <1>4. CASE NewClaim
    BY <1>4, AtClass, GotoType DEF NewClaim, TypeOK, Steps, Fresh, Claim
  <1>5. CASE SetName
    BY <1>5, AtClass, GotoType DEF SetName, TypeOK, Steps, Claim
  <1>6. CASE SetNamespace
    BY <1>6, AtClass, GotoType DEF SetNamespace, TypeOK, Steps, Claim
  <1>7. CASE Call
    <2>1. h.cls \in Class /\ h.pc = "call" /\ h \in [pc : Steps, cls : Class] /\ up
      BY <1>7, AtClass DEF Call, Steps
    <2>2. Found(h.cls) \in ClaimVersion
      BY <2>1, ClaimVersions
    <2>3. CASE Goto("mutate")
      <3>1. h' \in [pc : Steps, cls : Class] /\ h'.pc = "mutate"
        BY <2>1, <2>3, GotoType DEF Steps
      <3>2. /\ read' \in ClaimVersion \cup {"stale"}
            /\ field' \in Claim /\ arg' \in Claim /\ same' \in BOOLEAN
        <4>1. ~Return
          BY <3>1 DEF Return, Idle
        <4>2. field' = field \/ field' = [field EXCEPT !.spec = (Found(h.cls) # "empty")]
          BY <1>7, <4>1 DEF Call
        <4>3. (Found(h.cls) # "empty") \in BOOLEAN /\ field \in Claim
          BY DEF TypeOK
        <4>4. field' \in Claim
          BY <4>2, <4>3 DEF Claim
        <4>5. read' \in {"stale", "absent", Found(h.cls)} /\ arg' = field' /\ same' = TRUE
          BY <1>7, <4>1 DEF Call
        <4> QED
          BY <2>2, <4>4, <4>5 DEF ClaimVersion
      <3>3. excuse' \in [Class -> Reason \cup {"none"}] /\ failures' \in Nat
        BY <1>7, <2>1 DEF Call, Excuse, Reason, TypeOK, Fail
      <3>4. UNCHANGED <<class, claim, up, events, ctx, lost, ops>>
        BY <1>7 DEF Call
      <3>5. ctx
        BY <2>1 DEF TypeOK, Steps
      <3> QED
        BY <3>1, <3>2, <3>3, <3>4, <3>5 DEF TypeOK
    <2>4. CASE Return
      BY <1>7, <2>1, <2>2, <2>4 DEF Call, Return, Excuse, Idle, Reason, TypeOK, Steps, Claim, Fail, Goto
    <2> QED
      BY <1>7, <2>3, <2>4 DEF Call
  <1>8. CASE Mutate
    BY <1>8, AtClass, GotoType DEF Mutate, TypeOK, Steps, Claim, WithSpec
  <1>9. CASE Create \/ Update
    <2>1. h.cls \in Class
      BY <1>9, AtClass DEF Create, Update, Steps
    <2>2. claim' \in [Class -> Log(ClaimVersion)]
      BY <1>9, <2>1, StoredClaim DEF Create, Update, TypeOK, ClaimVersion
    <2>3. excuse' \in [Class -> Reason \cup {"none"}] /\ failures' \in Nat
      BY <1>9, <2>1 DEF Create, Update, LeaveClaim, Excuse, Reason, TypeOK, Fail
    <2>4. h' = Idle /\ arg' \in Claim /\ same' = FALSE /\ read' = "absent"
      <3>1. CallReturns
        BY <1>9 DEF Create, Update
      <3> QED
        BY <3>1 DEF CallReturns, Return, Fresh, Claim
    <2>5. UNCHANGED <<class, up, events, field, ctx, lost, ops>>
      BY <1>9 DEF Create, Update
    <2> QED
      BY <2>2, <2>3, <2>4, <2>5 DEF TypeOK, Idle, Steps, ClaimVersion
  <1>10. CASE DeleteClaim
    <2>1. h.cls \in Class
      BY <1>10, AtClass DEF DeleteClaim, Steps
    <2>2. claim' \in [Class -> Log(ClaimVersion)]
      BY <1>10, <2>1, StoredClaim DEF DeleteClaim, InDeletion, TypeOK, ClaimVersion
    <2> QED
      BY <1>10, <2>1, <2>2 DEF DeleteClaim, Return, Idle, Steps, TypeOK, Fail
  <1>11. ASSUME Die, UNCHANGED failures \/ Fail PROVE TypeOK'
    <2>1. Pending \subseteq Class
      <3>1. \A i \in DOMAIN events : events[i].cls \in Class
        BY EventTypes DEF Event
      <3>2. h.pc = "delete" => h.cls \in Class
        BY DEF TypeOK, Idle
      <3> QED
        BY <3>1, <3>2 DEF Pending
    <2>2. failures' \in Nat
      BY <1>11 DEF TypeOK, Fail
    <2>3. Fresh \in Claim
      BY DEF Fresh, Claim
    <2>4. events' \in Seq([op : {"add", "delete"}, cls : Class, ready : BOOLEAN])
      BY <1>11 DEF Die
    <2> QED
      BY <1>11, <2>1, <2>2, <2>3, <2>4 DEF Die, TypeOK, Idle, Steps, ClaimVersion
  <1>12. CASE InitializeReconciler
    <2>1. h.pc \in Exposed => h.cls \in Class
      BY DEF TypeOK, Exposed, Idle
    <2> QED
      BY <1>12, <2>1 DEF InitializeReconciler, Excuse, Reason, TypeOK, Fresh, Claim
  <1>13. CASE Start
    BY <1>13, StartEvents, CachesFollow DEF Start, TypeOK, Event
  <1>14. ASSUME NEW e \in Event, Announce(e)
         PROVE  events' \in Seq([op : {"add", "delete"}, cls : Class, ready : BOOLEAN])
    BY <1>14, Announced DEF Announce, TypeOK, Event
  <1>15. ASSUME NEW c \in Class, CreateClass(c) PROVE TypeOK'
    <2>1. Added(c, FALSE) \in Event
      BY DEF Added, Event
    <2>2. events' \in Seq([op : {"add", "delete"}, cls : Class, ready : BOOLEAN])
      BY <1>14, <1>15, <2>1 DEF CreateClass
    <2> QED
      BY <1>15, <2>2 DEF CreateClass, TypeOK
  <1>16. ASSUME NEW c \in Class, ClassReady(c) PROVE TypeOK'
    BY <1>16 DEF ClassReady, TypeOK
  <1>17. ASSUME NEW c \in Class, DeleteClass(c) PROVE TypeOK'
    <2>1. Removed(c) \in Event
      BY DEF Removed, Event
    <2>2. events' \in Seq([op : {"add", "delete"}, cls : Class, ready : BOOLEAN])
      BY <1>14, <1>17, <2>1 DEF DeleteClass
    <2> QED
      BY <1>17, <2>2 DEF DeleteClass, TypeOK
  <1>18. ASSUME NEW c \in Class, FinalizeClaim(c) PROVE TypeOK'
    <2>1. claim' \in [Class -> Log(ClaimVersion)]
      BY <1>18, StoredClaim DEF FinalizeClaim, ClaimVersion
    <2> QED
      BY <1>18, <2>1 DEF FinalizeClaim, TypeOK
  <1>19. ASSUME NEW c \in Class, DeliverClaim(c) PROVE TypeOK'
    <2>1. claim' \in [Class -> Log(ClaimVersion)]
      BY <1>19, CachesFollow
    <2> QED
      BY <1>19, <2>1 DEF DeliverClaim, TypeOK
  <1>20. CASE UNCHANGED vars
    BY <1>20 DEF vars, TypeOK
  <1> QED
    BY <1>1, <1>2, <1>3, <1>4, <1>5, <1>6, <1>7, <1>8, <1>9, <1>10, <1>11, <1>12,
       <1>13, <1>15, <1>16, <1>17, <1>18, <1>19, <1>20
    DEF Next, Handler, DeletePanics, Crash

\* TypeOK holds in every reachable state, whatever the classes and bounds.
THEOREM TypeCorrect == Spec => []TypeOK
  BY InitType, TypeStep, PTL DEF Spec
-----------------------------------------------------------------------------
\* The order of events.

\* A process that is down has neither events nor a handler.
Down == ~up => events = <<>> /\ h = Idle

\* The last event about a class agrees with the server; a deletion that is on
\* record as lost need not have one, and nor does anything while no process
\* listens.
Ordered ==
  \A c \in Class :
    /\ class[c] = "absent" /\ c \notin lost => LastWord("delete", c)
    /\ class[c] # "absent" /\ up => LastWord("add", c)

\* How the handler moves on with an event it has in its hands.
MovesOn ==
  \/ h' = h \/ h' = Idle
  \/ h'.cls = h.cls /\ h.pc \in Working("add") /\ h'.pc \in Working("add")

\* The handler's moves leave the queue's last word alone.
LEMMA LastWordMoves ==
  ASSUME NEW op \in {"add", "delete"}, NEW c \in Class, UNCHANGED events, MovesOn,
         LastWord(op, c)
  PROVE  LastWord(op, c)'
  BY DEF LastWord, Waits, MovesOn, Working, Steps, Idle

\* With nothing in the queue or in the handler's hands there is nothing to
\* have the last word about.
LEMMA LastWordNone ==
  ASSUME NEW op \in {"add", "delete"}, NEW c \in Class, events' = <<>>, h' = Idle
  PROVE  LastWord(op, c)'
  BY DEF LastWord, Waits, Working, Steps, Idle

\* An event that the handler takes from the queue has the same events behind
\* it as before.
LEMMA LastWordHandled ==
  ASSUME TypeOK, Handle, NEW op \in {"add", "delete"}, NEW c \in Class
  PROVE  /\ LastWord(op, c) => LastWord(op, c)'
         /\ Coming(op, c) => Coming(op, c)'
  <1>1. /\ events \in Seq(Event) /\ events # <<>>
        /\ events' = Tail(events) /\ h.pc = "idle"
        /\ h'.cls = Head(events).cls /\ h'.pc \in Working(Head(events).op)
    <2>1. events \in Seq(Event) /\ events # <<>> /\ h' = [pc |-> FirstStep(Head(events)), cls |-> Head(events).cls]
      BY EventTypes DEF Handle
    <2>2. Head(events) \in Event
      BY <2>1, HandOut
    <2> QED
      BY <2>1, <2>2 DEF Handle, At, Working, Steps, FirstStep, Event
  <1>2. /\ Head(events) = events[1] /\ 1 \in DOMAIN events
        /\ \A i \in DOMAIN events : i \in Nat /\ events[i] \in Event
        /\ \A i \in DOMAIN events' : i \in Nat /\ i + 1 \in DOMAIN events
                                     /\ events'[i] = events[i + 1]
        /\ \A i \in DOMAIN events \ {1} :
             i \in Nat /\ i - 1 \in DOMAIN events' /\ events'[i - 1] = events[i]
    BY <1>1, HandOut, EventTypes
  <1>3. ASSUME LastWord(op, c) PROVE LastWord(op, c)'
    <2>1. ASSUME NEW i \in DOMAIN events', events'[i].cls = c, events'[i].op # op
          PROVE  \E j \in DOMAIN events' : i < j /\ events'[j].cls = c /\ events'[j].op = op
      <3>1. i \in Nat /\ i + 1 \in DOMAIN events /\ events[i + 1].cls = c
            /\ events[i + 1].op # op
        BY <1>2, <2>1
      <3>2. PICK j \in DOMAIN events : i + 1 < j /\ events[j].cls = c /\ events[j].op = op
        BY <1>3, <3>1 DEF LastWord
      <3>3. j \in Nat /\ j # 1
        BY <1>2, <3>1, <3>2
      <3>4. j - 1 \in DOMAIN events' /\ events'[j - 1] = events[j] /\ i < j - 1
        BY <1>2, <3>1, <3>2, <3>3
      <3> QED
        BY <3>2, <3>4
    <2>2. ASSUME h'.cls = c, h'.pc \in Steps \ Working(op) PROVE Waits(op, c)'
      <3>1. events[1].cls = c /\ events[1].op # op
        BY <1>1, <1>2, <2>2
      <3>2. PICK j \in DOMAIN events : 1 < j /\ events[j].cls = c /\ events[j].op = op
        BY <1>2, <1>3, <3>1 DEF LastWord
      <3>3. j \in Nat /\ j # 1
        BY <1>2, <3>2
      <3>4. j - 1 \in DOMAIN events' /\ events'[j - 1] = events[j]
        BY <1>2, <3>2, <3>3
      <3> QED
        BY <3>2, <3>4 DEF Waits
    <2> QED
      BY <2>1, <2>2 DEF LastWord
  <1>4. ASSUME Coming(op, c) PROVE Coming(op, c)'
    <2>1. "idle" \notin Working(op)
      BY DEF Working, Steps
    <2>2. PICK i \in DOMAIN events : events[i].cls = c /\ events[i].op = op
      BY <1>1, <1>4, <2>1 DEF Coming, Waits
    <2>3. CASE i = 1
      BY <1>1, <1>2, <2>2, <2>3 DEF Coming
    <2>4. CASE i # 1
      BY <1>2, <2>2, <2>4 DEF Coming, Waits
    <2> QED
      BY <2>3, <2>4
  <1> QED
    BY <1>3, <1>4

\* An event that is announced has the last word about its class, and none
\* about any other.
LEMMA LastWordAnnounced ==
  ASSUME TypeOK, NEW e \in Event, events' = Append(events, e), UNCHANGED h,
         NEW op \in {"add", "delete"}, NEW c \in Class
  PROVE  /\ e.cls # c /\ LastWord(op, c) => LastWord(op, c)'
         /\ e.cls = c /\ e.op = op => LastWord(op, c)' /\ Coming(op, c)'
         /\ Coming(op, c) => Coming(op, c)'
  <1>1. /\ Len(events) + 1 \in DOMAIN events' /\ events'[Len(events) + 1] = e
        /\ \A i \in DOMAIN events : /\ i \in DOMAIN events' /\ events'[i] = events[i]
                                    /\ i < Len(events) + 1
        /\ \A i \in DOMAIN events' : i \in DOMAIN events \/ i = Len(events) + 1
    BY EventTypes, Announced
  <1>2. Waits(op, c) => Waits(op, c)'
    BY <1>1 DEF Waits
  <1>3. ASSUME e.cls # c, LastWord(op, c) PROVE LastWord(op, c)'
    <2>1. ASSUME NEW i \in DOMAIN events', events'[i].cls = c, events'[i].op # op
          PROVE  \E j \in DOMAIN events' : i < j /\ events'[j].cls = c /\ events'[j].op = op
      <3>1. i \in DOMAIN events /\ events'[i] = events[i]
        BY <1>1, <1>3, <2>1
      <3>2. PICK j \in DOMAIN events : i < j /\ events[j].cls = c /\ events[j].op = op
        BY <1>3, <2>1, <3>1 DEF LastWord
      <3> QED
        BY <1>1, <3>2
    <2> QED
      BY <1>2, <1>3, <2>1 DEF LastWord
  <1>4. ASSUME e.cls = c, e.op = op PROVE LastWord(op, c)' /\ Coming(op, c)'
    <2>1. Waits(op, c)'
      BY <1>1, <1>4 DEF Waits
    <2>2. ASSUME NEW i \in DOMAIN events', events'[i].op # op
          PROVE  i < Len(events) + 1
      BY <1>1, <1>4, <2>2
    <2> QED
      BY <1>1, <1>4, <2>1, <2>2 DEF LastWord, Coming
  <1> QED
    BY <1>2, <1>3, <1>4 DEF Coming
-----------------------------------------------------------------------------
\* The steps the handler takes for an addition after it was handed out.
Writing == Create \/ Update
Making == Poll \/ GetClaim \/ NewClaim \/ SetName \/ SetNamespace \/ Call \/ Mutate
Adding == Making \/ Writing

\* Only the writing step touches a claim.
LEMMA MakingLeaves == ASSUME Making PROVE UNCHANGED claim
  BY DEF Making, Poll, GetClaim, NewClaim, SetName, SetNamespace, Call, Mutate, server

\* It touches that of the class at hand, and makes it proper unless the
\* object that was sent had no spec.
LEMMA WritingStores ==
  ASSUME TypeOK, Writing
  PROVE  /\ h.cls \in Class /\ h.pc = "write" /\ h' = Idle
         /\ \A c \in Class \ {h.cls} : claim'[c] = claim[c] /\ excuse'[c] = excuse[c]
         /\ \/ UNCHANGED claim
            \/ /\ Current(claim'[h.cls]) = "proper"
               /\ excuse'[h.cls] = "none" \/ UNCHANGED excuse
            \/ /\ Current(claim'[h.cls]) = "empty"
               /\ ~arg.spec /\ UNCHANGED excuse
  <1>1. h.cls \in Class /\ h.pc = "write" /\ h' = Idle
    BY AtClass DEF Writing, Create, Update, CallReturns, Return, Steps
  <1>2. \A c \in Class \ {h.cls} : claim'[c] = claim[c]
    BY <1>1, StoredClaim DEF Writing, Create, Update, ClaimVersion
  <1>3. \A c \in Class \ {h.cls} : excuse'[c] = excuse[c]
    BY <1>1 DEF Writing, Create, Update, LeaveClaim, Excuse, TypeOK
  <1>4. \/ UNCHANGED claim
        \/ /\ Current(claim'[h.cls]) = "proper"
           /\ excuse'[h.cls] = "none" \/ UNCHANGED excuse
        \/ /\ Current(claim'[h.cls]) = "empty"
           /\ ~arg.spec /\ UNCHANGED excuse
    BY <1>1, StoredClaim DEF Writing, Create, Update, Excuse, TypeOK, ClaimVersion
  <1> QED
    BY <1>1, <1>2, <1>3, <1>4

LEMMA AddingMoves ==
  ASSUME TypeOK, Adding
  PROVE  /\ UNCHANGED <<class, up, events, lost>> /\ up
         /\ h.cls \in Class /\ h.pc \in Working("add")
         /\ h' = Idle \/ (h'.cls = h.cls /\ h'.pc \in Working("add"))
         /\ MovesOn
  <1> USE DEF server, claims, memory, history, bounds, Steps, Working, Return, LeaveClaim, CallReturns
  <1>1. CASE Poll
    BY <1>1, AtClass, GotoType DEF Poll, MovesOn
  <1>2. CASE GetClaim
    BY <1>2, AtClass, GotoType DEF GetClaim, MovesOn
  <1>3. CASE NewClaim
    BY <1>3, AtClass, GotoType DEF NewClaim, MovesOn
  <1>4. CASE SetName
    BY <1>4, AtClass, GotoType DEF SetName, MovesOn
  <1>5. CASE SetNamespace
    BY <1>5, AtClass, GotoType DEF SetNamespace, MovesOn
  <1>6. CASE Call
    BY <1>6, AtClass, GotoType DEF Call, MovesOn
  <1>7. CASE Mutate
    BY <1>7, AtClass, GotoType DEF Mutate, MovesOn
  <1>8. CASE Create
    BY <1>8, AtClass DEF Create, MovesOn
  <1>9. CASE Update
    BY <1>9, AtClass DEF Update, MovesOn
  <1> QED
    BY <1>1, <1>2, <1>3, <1>4, <1>5, <1>6, <1>7, <1>8, <1>9 DEF Adding, Making, Writing

\* The ways a step may go, as far as the queue is concerned.
LEMMA Ways ==
  ASSUME Next
  PROVE  \/ Handle \/ Adding \/ DeleteClaim \/ Die \/ InitializeReconciler \/ Start
         \/ \E c \in Class : \/ CreateClass(c) \/ ClassReady(c) \/ DeleteClass(c)
                              \/ FinalizeClaim(c) \/ DeliverClaim(c)
  BY DEF Next, Handler, Adding, Making, Writing, DeletePanics, Crash, At

LEMMA OrderedStep ==
  ASSUME TypeOK, Down, Ordered, [Next]_vars
  PROVE  Down' /\ Ordered'
  <1> USE DEF server, claims, memory, history, bounds
  <1>1. ASSUME UNCHANGED <<class, up, events>>, MovesOn, lost \subseteq lost', up \/ UNCHANGED h
        PROVE  Down' /\ Ordered'
    <2>1. Down'
      BY <1>1 DEF Down, MovesOn
    <2> QED
      BY <1>1, <2>1, LastWordMoves DEF Ordered
  <1>2. CASE Handle
    BY <1>2, LastWordHandled DEF Handle, At, Down, Ordered
  <1>3. CASE Adding
    BY <1>1, <1>3, AddingMoves
  <1>4. CASE DeleteClaim
    <2>1. UNCHANGED <<class, up, events>> /\ MovesOn /\ lost \subseteq lost' /\ up
      BY <1>4 DEF DeleteClaim, Return, MovesOn, At
    <2> QED
      BY <1>1, <2>1
  <1>5. CASE Die
    <2>1. events' = <<>> /\ h' = Idle /\ class' = class /\ up' = FALSE
      BY <1>5 DEF Die
    <2> QED
      BY <2>1, LastWordNone DEF Down, Ordered
  <1>6. CASE InitializeReconciler
    BY <1>1, <1>6 DEF InitializeReconciler, MovesOn
  <1>7. CASE Start
    <2>1. class' = class /\ h = Idle /\ h' = Idle /\ up'
      BY <1>7 DEF Start, Down
    <2>2. ASSUME NEW c \in Class, class[c] = "absent" PROVE LastWord("delete", c)'
      <3>1. \A i \in DOMAIN events' : events'[i].cls # c
        BY <1>7, <2>2, StartEvents
      <3> QED
        BY <2>1, <3>1 DEF LastWord, Idle, Steps
    <2>3. ASSUME NEW c \in Class PROVE LastWord("add", c)'
      <3>1. \A i \in DOMAIN events' : events'[i].op = "add"
        BY <1>7, StartEvents
      <3> QED
        BY <2>1, <3>1 DEF LastWord, Idle, Steps
    <2> QED
      BY <2>1, <2>2, <2>3 DEF Down, Ordered
  <1>8. ASSUME NEW c \in Class, CreateClass(c) PROVE Down' /\ Ordered'
    <2>1. /\ class[c] = "absent" /\ class'[c] = "pending" /\ lost' = lost \ {c}
          /\ \A d \in Class \ {c} : class'[d] = class[d]
          /\ UNCHANGED <<up, h>> /\ Announce(Added(c, FALSE))
      BY <1>8 DEF CreateClass, TypeOK
    <2>2. Added(c, FALSE) \in Event /\ Added(c, FALSE).cls = c /\ Added(c, FALSE).op = "add"
      BY DEF Added, Event
    <2>3. CASE up
      <3>1. events' = Append(events, Added(c, FALSE))
        BY <2>1, <2>3 DEF Announce
      <3>2. LastWord("add", c)'
        BY <2>1, <2>2, <3>1, LastWordAnnounced
      <3>3. ASSUME NEW d \in Class \ {c}, NEW op \in {"add", "delete"}, LastWord(op, d)
            PROVE  LastWord(op, d)'
        BY <2>1, <2>2, <3>1, <3>3, LastWordAnnounced
      <3> QED
        BY <2>1, <2>3, <3>2, <3>3 DEF Down, Ordered
    <2>4. CASE ~up
      <3>1. events' = <<>> /\ h' = Idle
        BY <2>1, <2>4 DEF Announce, Down
      <3> QED
        BY <2>1, <2>4, <3>1, LastWordNone DEF Down, Ordered
    <2> QED
      BY <2>3, <2>4
  <1>9. ASSUME NEW c \in Class, ClassReady(c) PROVE Down' /\ Ordered'
    <2>1. /\ UNCHANGED <<up, events, h, lost>>
          /\ \A d \in Class : class'[d] = "absent" <=> class[d] = "absent"
      BY <1>9 DEF ClassReady, TypeOK
    <2>2. MovesOn
      BY <2>1 DEF MovesOn
    <2> QED
      BY <2>1, <2>2, LastWordMoves DEF Down, Ordered
  <1>10. ASSUME NEW c \in Class, DeleteClass(c) PROVE Down' /\ Ordered'
    <2>1. /\ class'[c] = "absent" /\ lost' = IF up THEN lost ELSE lost \cup {c}
          /\ \A d \in Class \ {c} : class'[d] = class[d]
          /\ UNCHANGED <<up, h>> /\ Announce(Removed(c))
      BY <1>10 DEF DeleteClass, TypeOK
    <2>2. Removed(c) \in Event /\ Removed(c).cls = c /\ Removed(c).op = "delete"
      BY DEF Removed, Event
    <2>3. CASE up
      <3>1. events' = Append(events, Removed(c))
        BY <2>1, <2>3 DEF Announce
      <3>2. LastWord("delete", c)'
        BY <2>1, <2>2, <3>1, LastWordAnnounced
      <3>3. ASSUME NEW d \in Class \ {c}, NEW op \in {"add", "delete"}, LastWord(op, d)
            PROVE  LastWord(op, d)'
        BY <2>1, <2>2, <3>1, <3>3, LastWordAnnounced
      <3> QED
        BY <2>1, <2>3, <3>2, <3>3 DEF Down, Ordered
    <2>4. CASE ~up
      <3>1. events' = <<>> /\ h' = Idle
        BY <2>1, <2>4 DEF Announce, Down
      <3> QED
        BY <2>1, <2>4, <3>1, LastWordNone DEF Down, Ordered
    <2> QED
      BY <2>3, <2>4
  <1>11. ASSUME NEW c \in Class, FinalizeClaim(c) \/ DeliverClaim(c)
         PROVE  Down' /\ Ordered'
    <2>1. UNCHANGED <<class, up, events, h, lost>>
      BY <1>11 DEF FinalizeClaim, DeliverClaim
    <2> QED
      BY <1>1, <2>1 DEF MovesOn
  <1>12. CASE UNCHANGED vars
    BY <1>1, <1>12 DEF vars, MovesOn
  <1> QED
    BY <1>2, <1>3, <1>4, <1>5, <1>6, <1>7, <1>8, <1>9, <1>10, <1>11, <1>12, Ways
-----------------------------------------------------------------------------
\* No claim without its class.

\* The claim of a class that is gone is gone or in deletion, or the deletion is
\* on its way, or it is on record as lost.
Deleted ==
  \A c \in Class :
    class[c] = "absent" /\ c \notin lost =>
      Current(claim[c]) \in {"absent", "deleting"} \/ Coming("delete", c)

\* A class for which the handler is busy adding and that is gone has its
\* deletion in the queue (Ordered): the claim the handler may still create
\* will be deleted.
LEMMA DeletedStep ==
  ASSUME TypeOK, Down, Ordered, Deleted, [Next]_vars
  PROVE  Deleted'
  <1> USE DEF server, claims, memory, history, bounds
  <1>1. ASSUME UNCHANGED <<class, events, h>>, lost \subseteq lost',
               \A c \in Class : Current(claim'[c]) = Current(claim[c])
        PROVE  Deleted'
    BY <1>1 DEF Deleted, Coming, Waits
  <1>2. CASE Handle
    BY <1>2, LastWordHandled DEF Handle, Deleted
  <1>3. CASE Adding
    <2>1. /\ UNCHANGED <<class, up, events, lost>> /\ h.cls \in Class
          /\ h.pc \in Steps \ Working("delete")
      BY <1>3, AddingMoves DEF Working
    <2>2. \A c \in Class \ {h.cls} : claim'[c] = claim[c]
      BY <1>3, MakingLeaves, WritingStores DEF Adding
    <2>3. ASSUME NEW c \in Class, class[c] = "absent", c \notin lost,
                 Current(claim'[c]) \notin {"absent", "deleting"}
          PROVE  Waits("delete", c)
      <3>1. CASE c = h.cls
        BY <2>1, <2>3, <3>1 DEF Ordered, LastWord
      <3>2. CASE c # h.cls
        BY <2>1, <2>2, <2>3, <3>2 DEF Deleted, Coming
      <3> QED
        BY <3>1, <3>2
    <2> QED
      BY <2>1, <2>3 DEF Deleted, Coming, Waits
  <1>4. CASE DeleteClaim
    <2>1. /\ UNCHANGED <<class, events>> /\ h.cls \in Class /\ lost \subseteq lost'
          /\ claim' = InDeletion(h.cls) \/ (claim' = claim /\ h.cls \in lost')
      BY <1>4, AtClass DEF DeleteClaim, Steps
    <2>2. /\ Current(InDeletion(h.cls)[h.cls]) \in {"absent", "deleting"}
          /\ \A c \in Class \ {h.cls} : InDeletion(h.cls)[c] = claim[c]
      BY <2>1, StoredClaim DEF InDeletion, ClaimVersion
    <2> QED
      BY <2>1, <2>2 DEF Deleted, Coming, Waits
  <1>5. CASE Die
    <2>1. UNCHANGED <<class, claim>> /\ lost' = lost \cup Pending
      BY <1>5 DEF Die
    <2>2. \A c \in Class : Coming("delete", c) => c \in Pending
      BY DEF Coming, Waits, Pending, Working
    <2> QED
      BY <2>1, <2>2 DEF Deleted
  <1>6. CASE InitializeReconciler
    BY <1>1, <1>6 DEF InitializeReconciler
  <1>7. CASE Start
    <2>1. UNCHANGED <<class, lost>> /\ \A c \in Class : Current(claim'[c]) = Current(claim[c])
      BY <1>7, CachesFollow DEF Start
    <2>2. \A c \in Class : ~Coming("delete", c)
      BY <1>7 DEF Start, Down, Coming, Waits, Working, Idle
    <2> QED
      BY <2>1, <2>2 DEF Deleted
  <1>8. ASSUME NEW c \in Class, CreateClass(c) PROVE Deleted'
    <2>1. /\ class'[c] = "pending" /\ \A d \in Class \ {c} : class'[d] = class[d]
          /\ UNCHANGED <<claim, h>> /\ lost \subseteq lost' \cup {c}
          /\ Announce(Added(c, FALSE))
      BY <1>8 DEF CreateClass, TypeOK
    <2>2. Added(c, FALSE) \in Event
      BY DEF Added, Event
    <2>3. \A d \in Class : Coming("delete", d) => Coming("delete", d)'
      BY <2>1, <2>2, LastWordAnnounced DEF Announce, Coming, Waits
    <2> QED
      BY <2>1, <2>3 DEF Deleted
  <1>9. ASSUME NEW c \in Class, ClassReady(c) PROVE Deleted'
    <2>1. /\ UNCHANGED <<claim, events, h, lost>>
          /\ \A d \in Class : class'[d] = "absent" <=> class[d] = "absent"
      BY <1>9 DEF ClassReady, TypeOK
    <2> QED
      BY <2>1 DEF Deleted, Coming, Waits
  <1>10. ASSUME NEW c \in Class, DeleteClass(c) PROVE Deleted'
    <2>1. /\ \A d \in Class \ {c} : class'[d] = class[d]
          /\ UNCHANGED <<claim, h>> /\ lost \subseteq lost'
          /\ ~up => c \in lost'
          /\ Announce(Removed(c))
      BY <1>10 DEF DeleteClass, TypeOK
    <2>2. Removed(c) \in Event /\ Removed(c).cls = c /\ Removed(c).op = "delete"
      BY DEF Removed, Event
    <2>3. \A d \in Class : Coming("delete", d) => Coming("delete", d)'
      BY <2>1, <2>2, LastWordAnnounced DEF Announce, Coming, Waits
    <2>4. c \in lost' \/ Coming("delete", c)'
      BY <2>1, <2>2, LastWordAnnounced DEF Announce
    <2> QED
      BY <2>1, <2>3, <2>4 DEF Deleted
  <1>11. ASSUME NEW c \in Class, FinalizeClaim(c) PROVE Deleted'
    <2>1. /\ Current(claim'[c]) = "absent" /\ UNCHANGED <<class, events, h, lost>>
          /\ \A d \in Class \ {c} : claim'[d] = claim[d]
      BY <1>11, StoredClaim DEF FinalizeClaim, ClaimVersion
    <2> QED
      BY <2>1 DEF Deleted, Coming, Waits
  <1>12. ASSUME NEW c \in Class, DeliverClaim(c) PROVE Deleted'
    BY <1>1, <1>12, CachesFollow DEF DeliverClaim
  <1>13. CASE UNCHANGED vars
    BY <1>1, <1>13 DEF vars
  <1> QED
    BY <1>2, <1>3, <1>4, <1>5, <1>6, <1>7, <1>8, <1>9, <1>10, <1>11, <1>12, <1>13, Ways

ClaimsInv == TypeOK /\ Down /\ Ordered /\ Deleted

LEMMA ClaimsInit == ASSUME Init PROVE ClaimsInv
  <1>1. /\ events = <<>> /\ h = Idle /\ ~up /\ \A c \in Class : Current(claim[c]) = "absent"
    BY SyncedLog DEF Init
  <1>2. \A c \in Class : LastWord("delete", c)
    BY <1>1 DEF LastWord, Idle, Steps
  <1> QED
    BY <1>1, <1>2, InitType DEF ClaimsInv, Down, Ordered, Deleted

\* The invariant of the queue and of the deletions.
LEMMA ClaimsInvariant == Spec => []ClaimsInv
  BY ClaimsInit, TypeStep, OrderedStep, DeletedStep, PTL DEF Spec, ClaimsInv

\* When the handler has caught up, no claim is left of a class that is gone,
\* unless its deletion is on record as lost: with nothing in the queue there
\* is nothing left to come.
THEOREM OrphanSafe == Spec => []NoOrphan
  <1>1. ClaimsInv => NoOrphan
    BY DEF ClaimsInv, Deleted, NoOrphan, Quiet, Coming, Waits, Working, Idle
  <1> QED
    BY <1>1, ClaimsInvariant, PTL
-----------------------------------------------------------------------------
\* No Ready class without its claim.

\* Without an excuse the claim the handler is making has what the steps so far
\* have put into it, in the object that will be sent; and no claim at the
\* server lacks its spec.
Intact ==
  /\ \A c \in Class : Current(claim[c]) = "empty" => excuse[c] # "none"
  /\ h.pc \in Steps /\ excuse[h.cls] = "none" =>
       /\ h.pc \in {"setNamespace", "call"} => field.name
       /\ h.pc = "call" => field.ns
       /\ h.pc \in {"mutate", "write"} => arg.name /\ arg.ns
       /\ h.pc = "mutate" => same
       /\ h.pc = "write" => arg.spec

\* The steps of the handler before the object is sent.
LEMMA MakingIntact ==
  ASSUME TypeOK, Intact, Making
  PROVE  Intact'
  <1> USE DEF server, claims, memory, history, bounds
  <1>1. /\ UNCHANGED claim /\ h.cls \in Class /\ h \in [pc : Steps, cls : Class]
    BY MakingLeaves, AtClass
    DEF Making, Poll, GetClaim, NewClaim, SetName, SetNamespace, Call, Mutate, Steps
  <1>2. ASSUME h' = Idle, UNCHANGED excuse \/ \E reason \in Reason : Excuse(reason)
        PROVE  Intact'
    BY <1>1, <1>2 DEF Intact, Idle, Steps, Excuse, Reason, TypeOK
  <1>3. ASSUME h'.pc \in {"get", "new", "setName"}, UNCHANGED excuse PROVE Intact'
    BY <1>1, <1>3 DEF Intact
  <1>4. CASE Poll
    BY <1>1, <1>2, <1>3, <1>4, GotoType DEF Poll, Return, Reason, Steps
  <1>5. CASE GetClaim
    BY <1>1, <1>2, <1>3, <1>5, GotoType DEF GetClaim, LeaveClaim, Return, Reason, Steps
  <1>6. CASE NewClaim
    BY <1>1, <1>3, <1>6, GotoType DEF NewClaim, Steps
  <1>7. CASE SetName
    BY <1>1, <1>7, GotoType DEF SetName, TypeOK, Claim, Intact, Steps
  <1>8. CASE SetNamespace
    BY <1>1, <1>8, GotoType DEF SetNamespace, At, TypeOK, Claim, Intact, Steps
  <1>9. CASE Call
    <2>1. CASE Goto("mutate") /\ UNCHANGED excuse
      <3>1. field'.name = field.name /\ field'.ns = field.ns /\ arg' = field' /\ same'
        BY <1>9, <2>1 DEF Call, Return, Excuse, Goto, Idle, TypeOK, Claim
      <3> QED
        BY <1>1, <1>9, <2>1, <3>1, GotoType DEF Call, At, Intact, Steps
    <2>2. CASE Return /\ Excuse("failed")
      BY <1>2, <2>2 DEF Return, Reason
    <2> QED
      BY <1>9, <2>1, <2>2 DEF Call
  <1>10. CASE Mutate
    BY <1>1, <1>10, GotoType DEF Mutate, At, WithSpec, TypeOK, Claim, Intact, Steps
  <1> QED
    BY <1>4, <1>5, <1>6, <1>7, <1>8, <1>9, <1>10 DEF Making

LEMMA IntactStep ==
  ASSUME TypeOK, Intact, [Next]_vars
  PROVE  Intact'
  <1> USE DEF server, claims, memory, history, bounds
  <1>1. ASSUME \A c \in Class : Current(claim'[c]) \in {Current(claim[c]), "absent", "deleting"},
               UNCHANGED excuse, h' = Idle \/ UNCHANGED <<h, field, arg, same>>
        PROVE  Intact'
    BY <1>1 DEF Intact, Idle, Steps
  <1>2. CASE Handle
    <2>1. /\ UNCHANGED claim /\ h'.pc \in {"get", "poll", "delete"}
          /\ \A c \in Class : excuse'[c] = excuse[c] \/ Current(claim[c]) # "empty"
      <3>1. events \in Seq(Event) /\ events # <<>>
        BY <1>2, EventTypes DEF Handle
      <3>2. Head(events) \in Event
        BY <3>1, HandOut
      <3> QED
        BY <1>2, <3>2 DEF Handle, FirstStep, Event, TypeOK
    <2> QED
      BY <2>1 DEF Intact
  <1>3. CASE Making
    BY <1>3, MakingIntact
  <1>4. CASE Writing
    <2>1. h.cls \in Class /\ h.pc = "write" /\ h' = Idle
      BY <1>4, WritingStores
    <2>2. ASSUME NEW c \in Class, Current(claim'[c]) = "empty" PROVE excuse'[c] # "none"
      <3>1. CASE c # h.cls
        BY <1>4, <2>2, <3>1, WritingStores DEF Intact
      <3>2. CASE c = h.cls /\ UNCHANGED claim
        <4>1. Current(claim[c]) = "empty" /\ excuse[c] # "none"
          BY <2>2, <3>2 DEF Intact
        <4>2. excuse'[c] = excuse[c] \/ excuse'[c] = "failed" \/ Current(claim'[c]) = "proper"
          BY <1>4, <2>1, <3>2, <4>1, StoredClaim
          DEF Writing, Create, Update, LeaveClaim, Excuse, TypeOK, ClaimVersion
        <4> QED
          BY <2>2, <4>1, <4>2
      <3>3. CASE c = h.cls /\ claim' # claim
        <4>1. ~arg.spec /\ UNCHANGED excuse
          BY <1>4, <2>2, <3>3, WritingStores
        <4> QED
          BY <2>1, <3>3, <4>1 DEF Intact, Steps
      <3> QED
        BY <3>1, <3>2, <3>3
    <2> QED
      BY <2>1, <2>2 DEF Intact, Idle, Steps
  <1>5. CASE DeleteClaim
    <2>1. h.cls \in Class /\ h' = Idle /\ UNCHANGED excuse
      BY <1>5, AtClass DEF DeleteClaim, Return, Steps
    <2>2. \A c \in Class : Current(claim'[c]) \in {Current(claim[c]), "deleting"}
      BY <1>5, <2>1, StoredClaim DEF DeleteClaim, InDeletion, ClaimVersion
    <2> QED
      BY <1>1, <2>1, <2>2
  <1>6. CASE Die
    BY <1>1, <1>6 DEF Die
  <1>7. CASE InitializeReconciler
    <2>1. /\ UNCHANGED <<claim, h, arg>>
          /\ h.pc \in Exposed => Excuse("raced")
          /\ h.pc \notin Exposed => UNCHANGED excuse
      BY <1>7 DEF InitializeReconciler
    <2>2. CASE h.pc \in Exposed
      <3>1. h.cls \in Class
        BY <2>2 DEF TypeOK, Exposed, Idle
      <3> QED
        BY <2>1, <2>2, <3>1 DEF Intact, Excuse, TypeOK
    <2>3. CASE h.pc \notin Exposed
      BY <2>1, <2>3 DEF Intact, Exposed
    <2> QED
      BY <2>2, <2>3
  <1>8. ASSUME Start \/ \E c \in Class : DeliverClaim(c) PROVE Intact'
    <2>1. \A c \in Class : Current(claim'[c]) = Current(claim[c])
      BY <1>8, CachesFollow
    <2>2. UNCHANGED <<h, field, arg, same, excuse>>
      BY <1>8 DEF Start, DeliverClaim
    <2> QED
      BY <1>1, <2>1, <2>2
  <1>9. ASSUME NEW c \in Class, CreateClass(c) \/ ClassReady(c) \/ DeleteClass(c)
        PROVE  Intact'
    BY <1>1, <1>9 DEF CreateClass, ClassReady, DeleteClass
  <1>10. ASSUME NEW c \in Class, FinalizeClaim(c) PROVE Intact'
    <2>1. \A d \in Class : Current(claim'[d]) \in {Current(claim[d]), "absent"}
      BY <1>10, StoredClaim DEF FinalizeClaim, ClaimVersion
    <2> QED
      BY <1>1, <1>10, <2>1 DEF FinalizeClaim
  <1>11. CASE UNCHANGED vars
    BY <1>1, <1>11 DEF vars
  <1> QED
    BY <1>2, <1>3, <1>4, <1>5, <1>6, <1>7, <1>8, <1>9, <1>10, <1>11, Ways DEF Adding

\* While the process runs, a class without an excuse has a complete claim, or
\* the handler has an addition for it in hand or before it.
Claimed ==
  up => \A c \in Class :
    class[c] # "absent" /\ excuse[c] = "none"
      => Current(claim[c]) = "proper" \/ Coming("add", c)

\* A claim that is left as it is is proper, or there is an excuse.
LEMMA LeavesProper ==
  ASSUME TypeOK, Intact, h.cls \in Class, LeaveClaim
  PROVE  excuse'[h.cls] # "none" \/ Current(claim[h.cls]) = "proper"
  <1>1. Current(claim[h.cls]) \in ClaimVersion
    BY ClaimVersions
  <1> QED
    BY <1>1 DEF LeaveClaim, Excuse, Intact, TypeOK, ClaimVersion

\* The handler lets go of an addition when the claim is there and complete, or
\* with an excuse.
LEMMA LetsGo ==
  ASSUME TypeOK, Intact, Adding, h' = Idle
  PROVE  excuse'[h.cls] # "none" \/ Current(claim'[h.cls]) = "proper"
  <1> USE DEF server, claims, memory, history, bounds
  <1>1. h.cls \in Class /\ h \in [pc : Steps, cls : Class]
    BY AddingMoves, AtClass
    DEF Adding, Making, Writing, Poll, GetClaim, NewClaim, SetName, SetNamespace, Call,
        Mutate, Create, Update, Steps
  <1>2. ASSUME NEW step \in Steps, Goto(step) PROVE FALSE
    BY <1>1, <1>2, GotoType DEF Idle, Steps
  <1>3. ASSUME NEW reason \in Reason, Excuse(reason) PROVE excuse'[h.cls] # "none"
    BY <1>1, <1>3 DEF Excuse, Reason, TypeOK
  <1>4. CASE Poll
    BY <1>2, <1>3, <1>4 DEF Poll, Steps, Reason
  <1>5. CASE GetClaim
    BY <1>1, <1>2, <1>5, LeavesProper DEF GetClaim, Steps
  <1>6. CASE NewClaim \/ SetName \/ SetNamespace \/ Mutate
    BY <1>2, <1>6 DEF NewClaim, SetName, SetNamespace, Mutate, Steps
  <1>7. CASE Call
    BY <1>2, <1>3, <1>7 DEF Call, Steps, Reason
  <1>8. CASE Create
    <2>1. h.pc = "write"
      BY <1>8 DEF Create, At
    <2>2. CASE LeaveClaim /\ UNCHANGED claim
      BY <1>1, <2>2, LeavesProper
    <2>3. CASE Excuse("failed")
      BY <1>3, <2>3 DEF Reason
    <2>4. CASE ~(arg.name /\ arg.ns) /\ UNCHANGED <<claim, excuse>>
      BY <2>1, <2>4 DEF Intact, Steps
    <2>5. CASE claim' = Stored(h.cls, IF arg.spec THEN "proper" ELSE "empty") /\ UNCHANGED excuse
      BY <1>1, <2>1, <2>5, StoredClaim DEF Intact, Steps, ClaimVersion
    <2> QED
      BY <1>8, <2>2, <2>3, <2>4, <2>5 DEF Create
  <1>9. CASE Update
    <2>1. CASE LeaveClaim /\ UNCHANGED claim
      BY <1>1, <2>1, LeavesProper
    <2>2. CASE Excuse("failed")
      BY <1>3, <2>2 DEF Reason
    <2>3. CASE claim' = Stored(h.cls, "proper")
      BY <1>1, <2>3, StoredClaim DEF ClaimVersion
    <2> QED
      BY <1>9, <2>1, <2>2, <2>3 DEF Update
  <1> QED
    BY <1>4, <1>5, <1>6, <1>7, <1>8, <1>9 DEF Adding, Making, Writing

\* Only the class at hand is excused.
LEMMA ExcusesOne ==
  ASSUME TypeOK, Adding, NEW c \in Class, c # h.cls
  PROVE  claim'[c] = claim[c] /\ excuse'[c] = excuse[c]
  <1>1. CASE Making
    <2>1. h.cls \in Class
      BY <1>1, AddingMoves DEF Adding
    <2>2. excuse'[c] = excuse[c]
      BY <1>1, <2>1
      DEF Making, Poll, GetClaim, NewClaim, SetName, SetNamespace, Call, Mutate, LeaveClaim,
          Excuse, TypeOK, history
    <2> QED
      BY <1>1, <2>2, MakingLeaves
  <1>2. CASE Writing
    BY <1>2, WritingStores
  <1> QED
    BY <1>1, <1>2 DEF Adding

\* A deletion that the handler carries out late, for a class that is there
\* again, has an addition behind it (Ordered).
LEMMA ClaimedStep ==
  ASSUME TypeOK, Down, Ordered, Intact, Claimed, [Next]_vars
  PROVE  Claimed'
  <1> USE DEF server, claims, memory, history, bounds
  <1>1. ASSUME UNCHANGED <<class, up, events, h>>,
               \A c \in Class : /\ Current(claim'[c]) = Current(claim[c])
                                /\ excuse'[c] = "none" => excuse[c] = "none"
        PROVE  Claimed'
    BY <1>1 DEF Claimed, Coming, Waits
  <1>2. CASE Handle
    <2>1. UNCHANGED <<class, claim, up>>
      BY <1>2 DEF Handle
    <2>2. \A c \in Class : excuse'[c] = "none" /\ excuse[c] # "none" => Coming("add", c)'
      <3>1. events \in Seq(Event) /\ events # <<>>
        BY <1>2, EventTypes DEF Handle
      <3>2. Head(events) \in Event
        BY <3>1, HandOut
      <3> QED
        BY <1>2, <3>2 DEF Handle, FirstStep, Event, Coming, Working, Steps, TypeOK
    <2>3. \A c \in Class : Coming("add", c) => Coming("add", c)'
      BY <1>2, LastWordHandled
    <2> QED
      BY <2>1, <2>2, <2>3 DEF Claimed
  <1>3. CASE Adding
    <2>1. /\ UNCHANGED <<class, up, events>> /\ h.cls \in Class
          /\ h' = Idle \/ (h'.cls = h.cls /\ h'.pc \in Working("add"))
      BY <1>3, AddingMoves
    <2>2. ASSUME NEW c \in Class, up, class[c] # "absent", excuse'[c] = "none"
          PROVE  Current(claim'[c]) = "proper" \/ Coming("add", c)'
      <3>1. CASE c = h.cls
        BY <1>3, <2>1, <2>2, <3>1, LetsGo DEF Coming
      <3>2. CASE c # h.cls
        <4>1. Current(claim[c]) = "proper" \/ Coming("add", c)
          BY <1>3, <2>2, <3>2, ExcusesOne DEF Claimed
        <4>2. Coming("add", c) => Coming("add", c)'
          BY <2>1, <3>2 DEF Coming, Waits
        <4> QED
          BY <1>3, <3>2, <4>1, <4>2, ExcusesOne
      <3> QED
        BY <3>1, <3>2
    <2> QED
      BY <2>1, <2>2 DEF Claimed
  <1>4. CASE DeleteClaim
    <2>1. /\ UNCHANGED <<class, up, events, excuse>> /\ up /\ h.cls \in Class
          /\ h.pc = "delete"
      BY <1>4, AtClass DEF DeleteClaim, Steps
    <2>2. \A c \in Class \ {h.cls} : claim'[c] = claim[c]
      BY <1>4, <2>1, StoredClaim DEF DeleteClaim, InDeletion, ClaimVersion
    <2>3. class[h.cls] # "absent" => Waits("add", h.cls)
      BY <2>1 DEF Ordered, LastWord, Working, Steps
    <2>4. \A c \in Class : Coming("add", c) => Waits("add", c)
      BY <2>1 DEF Coming, Working
    <2> QED
      BY <2>1, <2>2, <2>3, <2>4 DEF Claimed, Coming, Waits
  <1>5. CASE Die
    BY <1>5 DEF Die, Claimed
  <1>6. CASE InitializeReconciler
    <2>1. \A c \in Class : excuse'[c] = "none" => excuse[c] = "none"
      BY <1>6 DEF InitializeReconciler, Excuse, TypeOK
    <2> QED
      BY <1>1, <1>6, <2>1 DEF InitializeReconciler
  <1>7. CASE Start
    BY <1>7, StartEvents DEF Start, Claimed, Coming
  <1>8. ASSUME NEW c \in Class, CreateClass(c) PROVE Claimed'
    <2>1. /\ \A d \in Class \ {c} : class'[d] = class[d]
          /\ UNCHANGED <<claim, up, h, excuse>>
          /\ Announce(Added(c, FALSE))
      BY <1>8 DEF CreateClass, TypeOK
    <2>2. Added(c, FALSE) \in Event /\ Added(c, FALSE).cls = c /\ Added(c, FALSE).op = "add"
      BY DEF Added, Event
    <2>3. ASSUME up
          PROVE  Coming("add", c)' /\ \A d \in Class : Coming("add", d) => Coming("add", d)'
      BY <2>1, <2>2, <2>3, LastWordAnnounced DEF Announce
    <2> QED
      BY <2>1, <2>3 DEF Claimed
  <1>9. ASSUME NEW c \in Class, ClassReady(c) PROVE Claimed'
    <2>1. /\ UNCHANGED <<claim, up, events, h, excuse>>
          /\ \A d \in Class : class'[d] = "absent" <=> class[d] = "absent"
      BY <1>9 DEF ClassReady, TypeOK
    <2> QED
      BY <2>1 DEF Claimed, Coming, Waits
  <1>10. ASSUME NEW c \in Class, DeleteClass(c) PROVE Claimed'
    <2>1. /\ class'[c] = "absent" /\ \A d \in Class \ {c} : class'[d] = class[d]
          /\ UNCHANGED <<claim, up, h, excuse>>
          /\ Announce(Removed(c))
      BY <1>10 DEF DeleteClass, TypeOK
    <2>2. Removed(c) \in Event
      BY DEF Removed, Event
    <2>3. ASSUME up, NEW d \in Class, Coming("add", d) PROVE Coming("add", d)'
      BY <2>1, <2>2, <2>3, LastWordAnnounced DEF Announce
    <2> QED
      BY <2>1, <2>3 DEF Claimed
  <1>11. ASSUME NEW c \in Class, FinalizeClaim(c) PROVE Claimed'
    <2>1. /\ Current(claim[c]) = "deleting" /\ UNCHANGED <<class, up, events, h, excuse>>
          /\ \A d \in Class \ {c} : claim'[d] = claim[d]
      BY <1>11, StoredClaim DEF FinalizeClaim, ClaimVersion
    <2> QED
      BY <2>1 DEF Claimed, Coming, Waits
  <1>12. ASSUME NEW c \in Class, DeliverClaim(c) PROVE Claimed'
    BY <1>1, <1>12, CachesFollow DEF DeliverClaim
  <1>13. CASE UNCHANGED vars
    BY <1>1, <1>13 DEF vars
  <1> QED
    BY <1>2, <1>3, <1>4, <1>5, <1>6, <1>7, <1>8, <1>9, <1>10, <1>11, <1>12, <1>13, Ways

\* When the handler has caught up, a Ready class has its claim, complete,
\* unless its last addition was late, found the claim of a deleted namesake,
\* failed, or had a pass in its way; the lookups being those of a cache that
\* may be any number of versions behind.
THEOREM ClaimedSafe == Spec => []ClaimedUnlessExcused
  <1>1. Init => Intact /\ Claimed
    <2> SUFFICES ASSUME Init PROVE Intact /\ Claimed
      OBVIOUS
    <2>1. /\ \A c \in Class : Current(claim[c]) = "absent"
          /\ h.pc = "idle" /\ ~up
      BY SyncedLog DEF Init, Idle
    <2> QED
      BY <2>1 DEF Intact, Claimed, Steps
  <1>2. ClaimsInv /\ Intact /\ Claimed /\ [Next]_vars => Intact' /\ Claimed'
    BY IntactStep, ClaimedStep DEF ClaimsInv
  <1>3. Claimed => ClaimedUnlessExcused
    BY DEF Claimed, ClaimedUnlessExcused, Quiet, Coming, Waits, Working, Idle, Steps
  <1> QED
    BY <1>1, <1>2, <1>3, ClaimsInvariant, PTL DEF Spec
=============================================================================
