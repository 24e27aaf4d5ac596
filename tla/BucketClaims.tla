---------------------------- MODULE BucketClaims ----------------------------
(***************************************************************************)
(* ObjectBucketClaims for annotated bucket classes: bucketClassAdded and   *)
(* bucketClassDeleted of controllers/mcg_bucket.go.  They run inside the   *)
(* predicate of the BucketClass watch, on the goroutine that hands out the *)
(* informer's events one by one, while the reconcile worker runs on a      *)
(* goroutine of its own.  The two share the reconciler's fields without a  *)
(* lock: initializeReconciler replaces r.objectBucketClaim at the start of *)
(* every pass, in the middle of whatever the handler is doing with it.     *)
(*                                                                         *)
(* Abstractions.                                                           *)
(*  - All classes carry the annotation; one without it has no claim.       *)
(*  - An ObjectBucketClaim in memory is three bits: the name, the          *)
(*    namespace and the spec of the handled class have been set.           *)
(*  - The lag of the informer of bucket classes is the length of the event *)
(*    queue.  Claims are logs (module Informer): they are written at the   *)
(*    server and looked up in the manager's cache, which is restricted to  *)
(*    the operator's namespace (main.go) and so never holds a claim that   *)
(*    the annotation puts into another one.                                *)
(*  - A claim in deletion is one version, whatever its spec: an update of  *)
(*    it does not take the deletion back.                                  *)
(*  - A pass replacing r.bucketClass only costs a round of the polling.    *)
(***************************************************************************)
EXTENDS Informer, FiniteSets

CONSTANTS
  Class,        \* names of bucket classes
  LocalClass,   \* those whose claims are in the operator's namespace
  MaxClassOps,  \* bound: creations of classes by users
  MaxFailures   \* bound: crashes and failed calls

ASSUME BoundAssumption ==
  MaxClassOps \in Nat /\ MaxFailures \in Nat

\* A list of all classes is finite.
ASSUME ClassAssumption == IsFiniteSet(Class) /\ LocalClass \subseteq Class

VARIABLES
  class,       \* bucket classes at the server: absent, pending or ready
  claim,       \* per class, log of its claim
  up,          \* the process runs
  events,      \* events the watch has still to hand to the predicate
  h,           \* the handler: its next step and the class it works on
  field,       \* the object r.objectBucketClaim points to
  arg,         \* the object CreateOrUpdate was called with
  same,        \* the two are one object
  read,        \* the version of the claim CreateOrUpdate has read
  ctx,         \* r.ctx is set
  lost,        \* history: classes whose deletion nobody acted upon
  excuse,      \* history: why the last addition of a class left no proper claim
  ops, failures

server  == <<class, claim>>
claims  == <<field, arg, same, read>>
memory  == <<claims, ctx>>
history == <<lost, excuse>>
bounds  == <<ops, failures>>
vars    == <<server, up, events, h, memory, history, bounds>>

\* A claim at the server: proper or without a spec, or in deletion.
ClaimVersion == {"absent", "proper", "empty", "deleting"}

\* The class was not seen Ready in time, the claim found is that of a namesake
\* that was deleted, a call failed, a pass replaced the claim in memory.
Reason == {"late", "former", "failed", "raced"}

Fresh == [name |-> FALSE, ns |-> FALSE, spec |-> FALSE]
Idle  == [pc |-> "idle", cls |-> "none"]

\* An event carries the object it is about: for an addition, whether the class
\* was Ready.
Added(c, ready) == [op |-> "add", cls |-> c, ready |-> ready]
Removed(c)      == [op |-> "delete", cls |-> c, ready |-> FALSE]

Steps == {"poll", "get", "new", "setName", "setNamespace", "call", "mutate",
          "write", "delete"}

\* The event has still to be handled.
Waiting(e) == \E i \in DOMAIN events : events[i] = e

At(step) == up /\ h.pc = step
Goto(step) == h' = [h EXCEPT !.pc = step]
Return == h' = Idle
Fail == failures > 0 /\ failures' = failures - 1

\* What a lookup of the claim finds.
Found(c) == IF c \in LocalClass THEN Cached(claim[c]) ELSE "absent"

\* The claim is version v from now on; only local ones go through the cache.
Stored(c, v) ==
  [claim EXCEPT ![c] = IF c \in LocalClass THEN Write(@, v) ELSE Synced(v)]

Excuse(reason) == excuse' = [excuse EXCEPT ![h.cls] = reason]

\* The handler returns and leaves the claim there is, or there was.
LeaveClaim ==
  /\ Return
  /\ IF Current(claim[h.cls]) \in {"absent", "deleting"} THEN Excuse("former")
     ELSE UNCHANGED excuse
-----------------------------------------------------------------------------
\* bucketClassAdded and bucketClassDeleted.

\* Mutant: a class that is gone is waited for like a new one.
FirstStepPolled(e) == IF e.ready THEN "get" ELSE "poll"

\* A class that was not Ready when it was announced is polled for.
FirstStep(e) ==
  IF e.op = "delete" THEN "delete" ELSE IF e.ready THEN "get" ELSE "poll"

\* The next event.  A new addition is a new chance for the class, unless an
\* incomplete claim is in its way.
Handle ==
  /\ At("idle") /\ events # <<>>
  /\ LET e == Head(events) IN
     /\ h' = [pc |-> FirstStep(e), cls |-> e.cls]
     /\ excuse' = IF e.op = "add" /\ Current(claim[e.cls]) # "empty"
                  THEN [excuse EXCEPT ![e.cls] = "none"] ELSE excuse
  /\ events' = Tail(events)
  /\ UNCHANGED <<server, up, memory, lost, bounds>>

\* isBucketClassCreationSuccess: up to 10 seconds for the cache to show the
\* class Ready.  It may show the one whose deletion is still to be handled, and
\* may be behind one that is Ready by now.
Poll ==
  /\ At("poll")
  /\ \/ class[h.cls] = "ready" /\ Goto("get") /\ UNCHANGED excuse
     \/ Waiting(Removed(h.cls)) /\ Goto("get") /\ UNCHANGED excuse
     \/ Return /\ Excuse("late")
  /\ UNCHANGED <<server, up, events, memory, lost, bounds>>

\* Mutant: only a pass sets the context.
ContextOfPass == ctx

\* r.ctx is set if no pass has done so.
Context == TRUE

\* getObjectBucketClaim: a claim that is found is left as it is, be it in
\* deletion or gone by now; any error counts as absence.
GetClaim ==
  /\ At("get") /\ ctx' = Context
  /\ \/ Found(h.cls) = "absent" /\ Goto("new") /\ UNCHANGED <<excuse, failures>>
     \/ Found(h.cls) # "absent" /\ LeaveClaim /\ UNCHANGED failures
     \/ Found(h.cls) # "absent" /\ Fail /\ Goto("new") /\ UNCHANGED excuse
  /\ UNCHANGED <<server, up, events, claims, lost, ops>>

NewClaim ==
  /\ At("new") /\ Goto("setName")
  /\ field' = Fresh /\ same' = FALSE
  /\ UNCHANGED <<server, up, events, arg, read, ctx, history, bounds>>

\* setOBCDesiredState: two assignments through r.objectBucketClaim.
SetName ==
  /\ At("setName") /\ Goto("setNamespace")
  /\ field' = [field EXCEPT !.name = TRUE]
  /\ UNCHANGED <<server, up, events, arg, same, read, ctx, history, bounds>>

SetNamespace ==
  /\ At("setNamespace") /\ Goto("call")
  /\ field' = [field EXCEPT !.ns = TRUE]
  /\ UNCHANGED <<server, up, events, arg, same, read, ctx, history, bounds>>

\* CreateOrUpdate takes the pointer the field holds now and looks the claim
\* up once more; one that is found is read over the object.
Call ==
  /\ At("call")
  /\ \/ /\ Goto("mutate")
        /\ IF field.name /\ field.ns /\ Found(h.cls) # "absent"
           THEN /\ read' = IF Lagging(claim[h.cls]) THEN "stale" ELSE Found(h.cls)
                /\ field' = [field EXCEPT !.spec = (Found(h.cls) # "empty")]
           ELSE read' = "absent" /\ UNCHANGED field
        /\ arg' = field' /\ same' = TRUE
        /\ UNCHANGED <<excuse, failures>>
     \/ Fail /\ Return /\ Excuse("failed") /\ UNCHANGED claims
  /\ UNCHANGED <<server, up, events, ctx, lost, ops>>

\* Mutant: the closure leaves the spec alone.
WithoutSpec(o) == o

WithSpec(o) == [o EXCEPT !.spec = TRUE]

\* The closure assigns the spec through the field, not through the pointer.
Mutate ==
  /\ At("mutate") /\ Goto("write")
  /\ field' = WithSpec(field)
  /\ arg' = IF same THEN WithSpec(arg) ELSE arg
  /\ UNCHANGED <<server, up, events, same, read, ctx, history, bounds>>

\* What CreateOrUpdate held goes with the call.
CallReturns == Return /\ arg' = Fresh /\ same' = FALSE /\ read' = "absent"

\* No claim was read: the server refuses an object without name or namespace
\* and one that exists.
Create ==
  /\ At("write") /\ read = "absent"
  /\ \/ /\ arg.name /\ arg.ns /\ Current(claim[h.cls]) = "absent"
        /\ claim' = Stored(h.cls, IF arg.spec THEN "proper" ELSE "empty")
        /\ UNCHANGED <<excuse, failures>>
     \/ /\ ~(arg.name /\ arg.ns)
        /\ UNCHANGED <<claim, excuse, failures>>
     \/ /\ arg.name /\ arg.ns /\ Current(claim[h.cls]) # "absent"
        /\ LeaveClaim /\ UNCHANGED <<claim, failures>>
     \/ Fail /\ Excuse("failed") /\ UNCHANGED claim
  /\ CallReturns
  /\ UNCHANGED <<class, up, events, field, ctx, lost, ops>>

\* A claim was read: there is something to update only if the closure has
\* completed it; the update of an old version is a conflict.
Update ==
  /\ At("write") /\ read # "absent"
  /\ \/ /\ read = "empty" /\ arg.spec
        /\ claim' = Stored(h.cls, "proper")
        /\ Excuse("none") /\ UNCHANGED failures
     \/ /\ ~(read = "empty" /\ arg.spec)
        /\ LeaveClaim /\ UNCHANGED <<claim, failures>>
     \/ Fail /\ Excuse("failed") /\ UNCHANGED claim
  /\ CallReturns
  /\ UNCHANGED <<class, up, events, field, ctx, lost, ops>>

\* Mutant: the claim is looked up before it is deleted.
InDeletionIfFound(c) ==
  IF Found(c) = "absent" THEN claim ELSE Stored(c, "deleting")

\* Delete by name: not found is not an error.
InDeletion(c) ==
  IF Current(claim[c]) = "absent" THEN claim ELSE Stored(c, "deleting")

\* The deletions among the events that die with the process.
Pending == {events[i].cls : i \in {j \in DOMAIN events : events[j].op = "delete"}}
             \cup (IF h.pc = "delete" THEN {h.cls} ELSE {})

\* The process dies, and what it had in memory with it.
Die ==
  /\ up' = FALSE /\ events' = <<>> /\ h' = Idle
  /\ field' = Fresh /\ arg' = Fresh /\ same' = FALSE /\ read' = "absent" /\ ctx' = FALSE
  /\ lost' = lost \cup Pending
  /\ UNCHANGED <<server, excuse, ops>>

\* A failure to delete is logged and forgotten.
DeleteClaim ==
  /\ At("delete") /\ ctx /\ Return
  /\ \/ claim' = InDeletion(h.cls) /\ UNCHANGED <<lost, failures>>
     \/ Fail /\ lost' = lost \cup {h.cls} /\ UNCHANGED claim
  /\ UNCHANGED <<class, up, events, memory, excuse, ops>>

\* bucketClassDeleted does not check r.ctx: before the first pass, and before
\* the first claim that was looked up, the client panics.
DeletePanics ==
  /\ At("delete") /\ ~ctx
  /\ Die
  /\ UNCHANGED failures

Handler == \/ Handle \/ Poll \/ GetClaim \/ NewClaim \/ SetName \/ SetNamespace
           \/ Call \/ Mutate \/ Create \/ Update \/ DeleteClaim \/ DeletePanics
-----------------------------------------------------------------------------
\* The reconcile worker and the process.

\* The steps between the first assignment and the end of the closure.
Exposed == {"setNamespace", "call", "mutate"}

\* initializeReconciler, at the start of a pass.
InitializeReconciler ==
  /\ up
  /\ field' = Fresh /\ same' = FALSE /\ ctx' = TRUE
  /\ IF h.pc \in Exposed THEN Excuse("raced") ELSE UNCHANGED excuse
  /\ UNCHANGED <<server, up, events, h, arg, read, lost, bounds>>

Crash == up /\ Fail /\ Die

\* The caches are filled; the watch starts with an addition for every class
\* there is.
Start ==
  /\ ~up /\ up' = TRUE
  /\ LET present == {c \in Class : class[c] # "absent"} IN
     \E s \in [1 .. Cardinality(present) -> present] :
       /\ \A c \in present : \E i \in DOMAIN s : s[i] = c
       /\ events' = [i \in DOMAIN s |-> Added(s[i], class[s[i]] = "ready")]
  /\ claim' = [c \in Class |-> Relist(claim[c])]
  /\ UNCHANGED <<class, h, memory, history, bounds>>

\* The watch hands the cache the next version of a claim.
DeliverClaim(c) ==
  /\ up /\ Lagging(claim[c])
  /\ claim' = [claim EXCEPT ![c] = Deliver(@)]
  /\ UNCHANGED <<class, up, events, h, memory, history, bounds>>
-----------------------------------------------------------------------------
\* Users and the controllers of the two kinds (external).

Announce(e) == events' = IF up THEN Append(events, e) ELSE events

CreateClass(c) ==
  /\ class[c] = "absent" /\ ops > 0 /\ ops' = ops - 1
  /\ class' = [class EXCEPT ![c] = "pending"]
  /\ lost' = lost \ {c}
  /\ Announce(Added(c, FALSE))
  /\ UNCHANGED <<claim, up, h, memory, excuse, failures>>

ClassReady(c) ==
  /\ class[c] = "pending"
  /\ class' = [class EXCEPT ![c] = "ready"]
  /\ UNCHANGED <<claim, up, events, h, memory, history, bounds>>

DeleteClass(c) ==
  /\ class[c] # "absent"
  /\ class' = [class EXCEPT ![c] = "absent"]
  /\ lost' = IF up THEN lost ELSE lost \cup {c}
  /\ Announce(Removed(c))
  /\ UNCHANGED <<claim, up, h, memory, excuse, bounds>>

FinalizeClaim(c) ==
  /\ Current(claim[c]) = "deleting"
  /\ claim' = Stored(c, "absent")
  /\ UNCHANGED <<class, up, events, h, memory, history, bounds>>
-----------------------------------------------------------------------------
Init ==
  /\ class \in [Class -> {"absent", "ready"}]
  /\ claim = [c \in Class |-> Synced("absent")]
  /\ up = FALSE /\ events = <<>> /\ h = Idle
  /\ field = Fresh /\ arg = Fresh /\ same = FALSE /\ read = "absent" /\ ctx = FALSE
  /\ lost = {} /\ excuse = [c \in Class |-> "none"]
  /\ ops = MaxClassOps /\ failures = MaxFailures

Next ==
  \/ Handler \/ InitializeReconciler \/ Crash \/ Start
  \/ \E c \in Class : \/ CreateClass(c) \/ ClassReady(c) \/ DeleteClass(c)
                       \/ FinalizeClaim(c) \/ DeliverClaim(c)

Spec == Init /\ [][Next]_vars

\* The handler's goroutine runs, the pod is restarted, claims are finalized.
FairSpec == /\ Spec /\ WF_vars(Handler) /\ WF_vars(Start)
            /\ \A c \in Class : WF_vars(FinalizeClaim(c))
-----------------------------------------------------------------------------
\* Properties.

Claim == [name : BOOLEAN, ns : BOOLEAN, spec : BOOLEAN]

\* Every variable has its type, and the handler of an addition calls the API
\* server with a context, though passes and crashes set and reset r.ctx.
TypeOK ==
  /\ class \in [Class -> {"absent", "pending", "ready"}]
  /\ claim \in [Class -> Log(ClaimVersion)]
  /\ up \in BOOLEAN
  /\ events \in Seq([op : {"add", "delete"}, cls : Class, ready : BOOLEAN])
  /\ h = Idle \/ h \in [pc : Steps, cls : Class]
  /\ h.pc \in Steps \ {"poll", "get", "delete"} => ctx
  /\ field \in Claim /\ arg \in Claim /\ same \in BOOLEAN /\ ctx \in BOOLEAN
  /\ read \in ClaimVersion \cup {"stale"}
  /\ lost \subseteq Class /\ excuse \in [Class -> Reason \cup {"none"}]
  /\ ops \in Nat /\ failures \in Nat

Quiet == up /\ events = <<>> /\ h = Idle

\* When the handler has caught up, a claim whose class is gone is in deletion
\* or gone, unless the deletion was lost to a crash, to an outage, to a
\* failed call or to the panic of a deletion before the first pass: an
\* addition that was polled for seconds while its class was deleted leaves
\* nothing behind, because additions and deletions are handled in order.
NoOrphan ==
  Quiet => \A c \in Class :
    class[c] = "absent" => Current(claim[c]) \in {"absent", "deleting"} \/ c \in lost

\* When the handler has caught up, a Ready class has its claim, complete,
\* unless the last addition of it was in one of four cases: the class was not
\* seen Ready in time; the claim that bucketClassAdded or the server found was
\* one in deletion or, in the lagging cache, gone; a call failed; a pass
\* started between the assignment of the name and the end of the closure.  A pass
\* that starts at any other moment, and a cache that is behind while no
\* former claim is in it, do no harm.
ClaimedUnlessExcused ==
  Quiet => \A c \in Class :
    class[c] = "ready" => Current(claim[c]) = "proper" \/ excuse[c] # "none"

\* The claim of a deleted class goes in the end, though the event may wait
\* behind the polling for other classes, unless its deletion is lost.
ClaimsFollow ==
  \A c \in Class :
    (class[c] = "absent" /\ Current(claim[c]) # "absent" /\ c \notin lost) ~>
      (Current(claim[c]) = "absent" \/ class[c] # "absent" \/ c \in lost)

\* managedmcg_controller_test.go expects of a Ready class, once
\* bucketClassAdded has returned, a claim with its name and namespace and,
\* from setOBCDesiredState, its spec.
ReadyClassClaimed ==
  Quiet => \A c \in Class : class[c] = "ready" => Current(claim[c]) = "proper"
=============================================================================
