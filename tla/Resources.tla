----------------------------- MODULE Resources ------------------------------
(***************************************************************************)
(* What a reconcile pass installs besides NooBaa: reconcileResources of    *)
(* controllers/managedmcg_controller.go and reconcileAlertMonitoring of    *)
(* controllers/monitoring_alert.go, together with the watches that bring   *)
(* the next pass about.  The pass is a pipeline that ends at its first     *)
(* error; users edit, delete and create the same objects meanwhile.        *)
(*                                                                         *)
(* Abstractions.                                                           *)
(*  - The ManagedMCG exists and is not in deletion (module ManagedMCG has  *)
(*    the rest of its life); the NooBaa step is modelled there.            *)
(*  - An object's spec is absent, as the operator wants it, or drifted.    *)
(*    Prometheus has two specs the operator may want, with and without     *)
(*    remote write.  The label app=managed-mcg is kept where it decides    *)
(*    something: on rules and monitors.                                    *)
(*  - The prerequisites of a step (secrets, CSVs, a deployment) are there  *)
(*    or missing; a step without them is an error.                         *)
(*  - One object stands for each kind of foreign monitor and rule, and     *)
(*    consolePlugin for the console's service too, written the same way.   *)
(***************************************************************************)
EXTENDS Informer, FiniteSets, SequencesExt

CONSTANTS
  Plugins,    \* console plugins of others
  Missing,    \* objects that do not exist at the start
  Editable,   \* objects that users edit, delete and create
  Hazards,    \* the kinds of adverse events that may happen
  MaxHazards  \* bound: how many of them happen in one behaviour

HazardKind == {"fault", "crash", "edit", "plugins", "block", "rhobs", "unready", "ocs"}

\* The steps of reconcileAlertMonitoring.
AlertMonitoring ==
  <<"alertRelabelConfigSecret", "prometheus", "alertmanager", "alertmanagerConfig",
    "podMonitors", "serviceMonitors", "promRules", "dmsRule", "noobaaRules">>

\* The steps of an installing pass from updateAddonParams on.
Pipeline ==
  <<"updateAddonParams", "consolePlugin", "consoleList", "consoleUpdate", "ocsCSV",
    "kubeRBACConfigMap", "prometheusService", "prometheusProxyNetworkPolicy">>
  \o AlertMonitoring \o <<"ingressNetworkPolicy", "finish">>

\* The objects that are written by CreateOrUpdate, each in the step it names.
Owned == {"consolePlugin", "kubeRBACConfigMap", "prometheusService",
          "prometheusProxyNetworkPolicy", "alertRelabelConfigSecret", "prometheus",
          "alertmanager", "alertmanagerConfig", "dmsRule", "noobaaRules",
          "ingressNetworkPolicy"}

\* What reconcileMonitoringResources lists, by step.  The original rule is
\* noobaa-prometheus-rules, deployed by mcg-operator.
Listed == [podMonitors     |-> {"podMonitor"},
           serviceMonitors |-> {"serviceMonitor"},
           promRules       |-> {"dmsRule", "noobaaRules", "foreignRule", "originalRule"}]
Foreign == {"podMonitor", "serviceMonitor", "foreignRule", "originalRule"}
Rule    == Listed["promRules"]
Object  == Owned \cup Foreign

\* The steps that need something the operator does not create.
Needy == {"updateAddonParams", "consolePlugin", "ocsCSV", "prometheus", "alertmanagerConfig"}

ASSUME ResourceAssumption ==
  /\ Missing \subseteq Object /\ Editable \subseteq Object
  /\ Hazards \subseteq HazardKind /\ MaxHazards \in Nat

VARIABLES
  obj,      \* per object, log of its versions
  console,  \* log of the cluster console: my entries, the plugins of others
  ocs,      \* log: the deployments of the OCS CSV are scaled to zero
  rhobs,    \* log of the remote write secret
  noobaa,   \* log: NooBaa is Ready
  missing,  \* steps whose prerequisites are missing
  pc,       \* next step of the operator's process
  queue,    \* the work queue holds the reconcile request
  pass,     \* what a pass carries along
  budget    \* adverse events left

server  == <<obj, console, ocs, rhobs, noobaa, missing>>
process == <<pc, queue, pass>>
vars    == <<server, process, budget>>

Absent  == [spec |-> "absent", label |-> FALSE]
Version == {v \in [spec : {"absent", "drifted", "proper", "remote"}, label : BOOLEAN] :
              v.spec = "absent" => ~v.label}

NewPass == [ready |-> FALSE,  \* status.components.noobaa.state is Ready
            todo  |-> {},     \* listed and not yet updated
            fresh |-> {},     \* of these, the copies with the server's version
            err   |-> FALSE]

Spend(h) == h \in Hazards /\ budget > 0 /\ budget' = budget - 1

Goto(step, p) == pc' = step /\ pass' = p
Succ(step) == Pipeline[CHOOSE i \in DOMAIN Pipeline : i > 1 /\ Pipeline[i - 1] = step]
Continue == Goto(Succ(pc), pass)
Refused == Goto("finish", [pass EXCEPT !.err = TRUE]) /\ UNCHANGED budget

\* The call has had its effect; its reply may be lost.
Done ==
  \/ Continue /\ UNCHANGED budget
  \/ Spend("fault") /\ Goto("finish", [pass EXCEPT !.err = TRUE])
-----------------------------------------------------------------------------
\* A pass.

\* The state of NooBaa is read once, for the whole pass; a failed read counts
\* as not Ready and is no error.
Reconcile ==
  /\ pc = "idle" /\ queue
  /\ queue' = FALSE
  /\ \/ Goto("updateAddonParams", [NewPass EXCEPT !.ready = Cached(noobaa)])
        /\ UNCHANGED budget
     \/ Spend("fault") /\ Goto("updateAddonParams", NewPass)
  /\ UNCHANGED server

UpdateAddonParams ==
  /\ pc = "updateAddonParams"
  /\ IF pc \in missing THEN Refused ELSE Continue /\ UNCHANGED budget
  /\ UNCHANGED <<server, queue>>

\* configureRHOBSRemoteWrite: remote write if the secret is there.
DesiredPrometheus == IF Cached(rhobs) = "absent" THEN "proper" ELSE "remote"

\* Mutant: an object that exists is left as it is.
DesiredOnce(step, v) == IF v.spec = "absent" THEN "proper" ELSE v.spec

\* ensureConsolePlugin: its closures assign no spec, and CreateOrUpdate has
\* overwritten the desired object with the one it found.
EnsuredConsolePlugin(v) == IF v.spec = "absent" THEN "proper" ELSE v.spec

\* The spec a step's closure gives to the version it found.
Desired(step, v) ==
  CASE step = "consolePlugin" -> EnsuredConsolePlugin(v)
    [] step = "prometheus"    -> DesiredPrometheus
    [] OTHER                  -> "proper"

\* A closure fails when a prerequisite is missing, or a key of the secret.
ClosureFails(step) ==
  step \in missing \/ (step = "prometheus" /\ Cached(rhobs) = "incomplete")

\* Mutant: the template names every field that has a default.
SameAlways(step, found, want) == found = want

\* CreateOrUpdate has nothing to update.  It always has for Prometheus, where
\* the server fills in the intervals the template leaves empty, and for the
\* AlertmanagerConfig, whose routes it returns with their keys reordered.
Same(step, found, want) == found = want /\ step \notin {"prometheus", "alertmanagerConfig"}

\* CreateOrUpdate: decided on the cache, subject to the server's version.
\* ensureConsolePlugin alone tolerates an object that already exists.
CreateOrUpdate(step) ==
  /\ pc = step
  /\ LET found == Cached(obj[step])
         want  == [found EXCEPT !.spec = Desired(step, found)]
         exists == Current(obj[step]).spec # "absent"
         store == /\ obj' = [obj EXCEPT ![step] = Write(@, want)]
                  /\ Done IN
     \/ ClosureFails(step) /\ Refused /\ UNCHANGED obj
     \/ /\ ~ClosureFails(step)
        /\ \/ /\ found.spec # "absent" /\ Same(step, found, want)
              /\ Continue /\ UNCHANGED <<obj, budget>>
           \/ found.spec = "absent" /\ ~exists /\ store
           \/ /\ found.spec = "absent" /\ exists
              /\ IF step = "consolePlugin" THEN Continue /\ UNCHANGED budget ELSE Refused
              /\ UNCHANGED obj
           \/ /\ found.spec # "absent" /\ ~Same(step, found, want) /\ ~Lagging(obj[step])
              /\ store
           \/ /\ found.spec # "absent" /\ ~Same(step, found, want) /\ Lagging(obj[step])
              /\ Refused
              /\ UNCHANGED obj
  /\ UNCHANGED <<console, ocs, rhobs, noobaa, missing, queue>>

\* utils.Contains, on the plugins of a console.
ContainsPlugin(v) == v.mine > 0

\* reconcileConsoleCluster reads the console twice: a list to find out whether
\* the plugin is in it...
ConsoleList ==
  /\ pc = "consoleList"
  /\ Goto(IF ContainsPlugin(Cached(console)) THEN "ocsCSV" ELSE "consoleUpdate", pass)
  /\ UNCHANGED <<server, queue, budget>>

\* Mutant: the list of plugins is written whatever the server's version.
ConsoleUpdateBlind ==
  /\ pc = "consoleUpdate"
  /\ console' = Write(console, [Cached(console) EXCEPT !.mine = @ + 1])
  /\ Done
  /\ UNCHANGED <<obj, ocs, rhobs, noobaa, missing, queue>>

\* ...and a get, to append the plugin to what it returns.
ConsoleUpdate ==
  /\ pc = "consoleUpdate"
  /\ IF Lagging(console) THEN Refused /\ UNCHANGED console
     ELSE /\ console' = Write(console, [Cached(console) EXCEPT !.mine = @ + 1])
          /\ Done
  /\ UNCHANGED <<obj, ocs, rhobs, noobaa, missing, queue>>

\* getCSVByPrefix: no CSV with the prefix is an error.
FoundCSV == "ocsCSV" \notin missing

\* reconcileOCSCSV waits for NooBaa without an error.
OCSCSV ==
  /\ pc = "ocsCSV"
  /\ \/ ~pass.ready /\ Continue /\ UNCHANGED <<ocs, budget>>
     \/ pass.ready /\ ~FoundCSV /\ Refused /\ UNCHANGED ocs
     \/ /\ pass.ready /\ FoundCSV
        /\ \/ Cached(ocs) /\ Continue /\ UNCHANGED <<ocs, budget>>
           \/ ~Cached(ocs) /\ Lagging(ocs) /\ Refused /\ UNCHANGED ocs
           \/ ~Cached(ocs) /\ ~Lagging(ocs) /\ ocs' = Write(ocs, TRUE) /\ Done
  /\ UNCHANGED <<obj, console, rhobs, noobaa, missing, queue>>

\* reconcileMonitoringResources: a list per kind...
ListMonitored(step) ==
  /\ pc = step /\ pass.todo = {}
  /\ LET items == {o \in Listed[step] : Cached(obj[o]).spec # "absent"} IN
     IF items = {} THEN Continue
     ELSE Goto(pc, [pass EXCEPT !.todo = items,
                                !.fresh = {o \in items : ~Lagging(obj[o])}])
  /\ UNCHANGED <<server, queue, budget>>

\* Mutant: items are updated without regard to their version.
UpToDateAlways(o) == TRUE

\* The server accepts the update of a listed copy.
UpToDate(o) == o \in pass.fresh

\* AddLabel or, for the original rule, RemoveLabel.
Relabelled(o, v) == [v EXCEPT !.label = (o # "originalRule")]

\* ...and an update per item, in the order of the list.
UpdateMonitored(step, o) ==
  /\ pc = step /\ o \in pass.todo
  /\ IF UpToDate(o)
     THEN LET rest == pass.todo \ {o} IN
          /\ obj' = [obj EXCEPT ![o] = Write(@, Relabelled(o, Current(@)))]
          /\ \/ /\ Goto(IF rest = {} THEN Succ(pc) ELSE pc,
                        [pass EXCEPT !.todo = rest, !.fresh = @ \ {o}])
                /\ UNCHANGED budget
             \/ Spend("fault") /\ Goto("finish", [NewPass EXCEPT !.err = TRUE])
     ELSE Goto("finish", [NewPass EXCEPT !.err = TRUE]) /\ UNCHANGED <<obj, budget>>
  /\ UNCHANGED <<console, ocs, rhobs, noobaa, missing, queue>>

\* A call fails without any effect.
FailStep ==
  /\ pc \in ToSet(Pipeline) \ {"finish"}
  /\ Spend("fault")
  /\ Goto("finish", [NewPass EXCEPT !.err = TRUE])
  /\ UNCHANGED <<server, queue>>

\* The status update, which may fail, and the result of Reconcile.
Finish ==
  /\ pc = "finish"
  /\ Goto("idle", NewPass)
  /\ \/ queue' = (queue \/ pass.err) /\ UNCHANGED budget
     \/ Spend("fault") /\ queue' = TRUE
  /\ UNCHANGED server

Pass ==
  \/ Reconcile \/ UpdateAddonParams
  \/ \E step \in Owned : CreateOrUpdate(step)
  \/ ConsoleList \/ ConsoleUpdate \/ OCSCSV
  \/ \E step \in DOMAIN Listed :
       ListMonitored(step) \/ \E o \in Listed[step] : UpdateMonitored(step, o)
  \/ Finish
-----------------------------------------------------------------------------
\* The process and its watches.

Running == pc # "down"

Crash ==
  /\ Running /\ Spend("crash")
  /\ Goto("down", NewPass) /\ queue' = FALSE
  /\ UNCHANGED server

\* The ManagedMCG is among what the watches announce.
Start ==
  /\ pc = "down"
  /\ pc' = "idle" /\ queue' = TRUE
  /\ obj' = [o \in Object |-> Relist(obj[o])]
  /\ console' = Relist(console) /\ ocs' = Relist(ocs)
  /\ rhobs' = Relist(rhobs) /\ noobaa' = Relist(noobaa)
  /\ UNCHANGED <<missing, pass, budget>>

Enqueue(b) == queue' = (queue \/ b)

\* Mutant: network policies are not among the owned kinds that are watched.
WatchedKindsFew == {"kubeRBACConfigMap", "prometheusService"}

\* Owns(...): the kinds whose objects lead back to the ManagedMCG.
WatchedKinds == {"kubeRBACConfigMap", "prometheusService",
                 "prometheusProxyNetworkPolicy", "ingressNetworkPolicy"}

\* Mutant: the predicate on rules is inverted.
RuleTriggersLabelled(v) == v.label

\* prometheusRulesPredicates: a rule without the label.
RuleTriggers(v) == ~v.label

\* An event carries the new version or, for a deletion, the last one.
DeliverObject(o) ==
  /\ Running /\ Lagging(obj[o])
  /\ obj' = [obj EXCEPT ![o] = Deliver(@)]
  /\ LET v == IF obj[o][2].spec = "absent" THEN obj[o][1] ELSE obj[o][2] IN
     Enqueue(o \in WatchedKinds \/ (o \in Rule /\ RuleTriggers(v)))
  /\ UNCHANGED <<console, ocs, rhobs, noobaa, missing, pc, pass, budget>>

\* secretPredicates: the remote write secret is one of the five it names.
DeliverSecret ==
  /\ Running /\ Lagging(rhobs)
  /\ rhobs' = Deliver(rhobs)
  /\ Enqueue(TRUE)
  /\ UNCHANGED <<obj, console, ocs, noobaa, missing, pc, pass, budget>>

DeliverNooBaa ==
  /\ Running /\ Lagging(noobaa)
  /\ noobaa' = Deliver(noobaa)
  /\ Enqueue(TRUE)
  /\ UNCHANGED <<obj, console, ocs, rhobs, missing, pc, pass, budget>>

\* Cached, but without a watch of the controller.
DeliverUnwatched ==
  /\ Running
  /\ \/ Lagging(console) /\ console' = Deliver(console) /\ UNCHANGED ocs
     \/ Lagging(ocs) /\ ocs' = Deliver(ocs) /\ UNCHANGED console
  /\ UNCHANGED <<obj, rhobs, noobaa, missing, process, budget>>

\* The informers' periodic resync, or any other event of a watched kind.
Resync ==
  /\ Running /\ ~queue
  /\ queue' = TRUE
  /\ UNCHANGED <<server, pc, pass, budget>>

Delivery == DeliverSecret \/ DeliverNooBaa \/ DeliverUnwatched
              \/ \E o \in Object : DeliverObject(o)
-----------------------------------------------------------------------------
\* Users and other operators (external).

\* Edited, deleted or created, with the label or without.
UserVersion(o) ==
  {v \in Version :
     /\ v.spec \in {"absent", IF o \in Owned THEN "drifted" ELSE "proper",
                    Current(obj[o]).spec}
     /\ v.label => o \in Rule \cup Foreign}

UserEdits(o) ==
  /\ Spend("edit")
  /\ \E v \in UserVersion(o) \ {Current(obj[o])} :
       obj' = [obj EXCEPT ![o] = Write(@, v)]
  /\ pass' = [pass EXCEPT !.fresh = @ \ {o}]
  /\ UNCHANGED <<console, ocs, rhobs, noobaa, missing, pc, queue>>

\* Plugins of others come and go, and somebody may disable ours.
UserEditsConsole ==
  /\ Spend("plugins")
  /\ \E v \in [mine : {0, Current(console).mine}, others : SUBSET Plugins] :
       v # Current(console) /\ console' = Write(console, v)
  /\ UNCHANGED <<obj, ocs, rhobs, noobaa, missing, process>>

OLMUpgradesOCS ==
  /\ Current(ocs) /\ Spend("ocs")
  /\ ocs' = Write(ocs, FALSE)
  /\ UNCHANGED <<obj, console, rhobs, noobaa, missing, process>>

SecretChanges ==
  /\ Spend("rhobs")
  /\ \E v \in {"absent", "incomplete", "complete"} \ {Current(rhobs)} :
       rhobs' = Write(rhobs, v)
  /\ UNCHANGED <<obj, console, ocs, noobaa, missing, process>>

SecretCompleted ==
  /\ Current(rhobs) = "incomplete"
  /\ rhobs' = Write(rhobs, "complete")
  /\ UNCHANGED <<obj, console, ocs, noobaa, missing, process, budget>>

NooBaaReady ==
  /\ ~Current(noobaa)
  /\ noobaa' = Write(noobaa, TRUE)
  /\ UNCHANGED <<obj, console, ocs, rhobs, missing, process, budget>>

NooBaaNotReady ==
  /\ Current(noobaa) /\ Spend("unready")
  /\ noobaa' = Write(noobaa, FALSE)
  /\ UNCHANGED <<obj, console, ocs, rhobs, missing, process>>

Block(step) ==
  /\ step \notin missing /\ Spend("block")
  /\ missing' = missing \cup {step}
  /\ UNCHANGED <<obj, console, ocs, rhobs, noobaa, process>>

Unblock ==
  /\ missing # {} /\ missing' = {}
  /\ UNCHANGED <<obj, console, ocs, rhobs, noobaa, process, budget>>

Cluster ==
  \/ \E o \in Editable : UserEdits(o)
  \/ UserEditsConsole \/ OLMUpgradesOCS \/ SecretChanges \/ SecretCompleted
  \/ NooBaaReady \/ NooBaaNotReady
  \/ Unblock \/ \E step \in Needy : Block(step)
-----------------------------------------------------------------------------
\* The operator's pod is about to start, in a namespace where everything is
\* installed but the objects of Missing.
Init ==
  /\ obj = [o \in Object |->
              Synced(IF o \in Missing THEN Absent
                     ELSE [spec |-> "proper", label |-> o \in Rule \cup Foreign /\ o # "originalRule"])]
  /\ console \in {Synced([mine |-> n, others |-> {}]) : n \in {0, 1}}
  /\ ocs = Synced(FALSE) /\ noobaa = Synced(FALSE)
  /\ rhobs = Synced("absent")
  /\ missing = {}
  /\ pc = "down" /\ queue = FALSE /\ pass = NewPass
  /\ budget = MaxHazards

Next == Pass \/ FailStep \/ Crash \/ Start \/ Delivery \/ Resync \/ Cluster

Spec == Init /\ [][Next]_vars

\* The worker and the watches go on, the pod is restarted, resyncs happen;
\* what is missing or incomplete is provided and NooBaa comes up.
FairSpec ==
  /\ Spec
  /\ WF_vars(Pass) /\ WF_vars(Start) /\ WF_vars(Resync)
  /\ \A o \in Object : WF_vars(DeliverObject(o))
  /\ WF_vars(DeliverSecret) /\ WF_vars(DeliverNooBaa) /\ WF_vars(DeliverUnwatched)
  /\ WF_vars(SecretCompleted) /\ WF_vars(NooBaaReady) /\ WF_vars(Unblock)
-----------------------------------------------------------------------------
\* Properties.

\* Every variable has its type; in particular nothing that is absent carries
\* a label, and a pass holds listed items only in the steps that list them.
TypeOK ==
  /\ obj \in [Object -> Log(Version)]
  /\ console \in Log([mine : Nat, others : SUBSET Plugins])
  /\ ocs \in Log(BOOLEAN) /\ noobaa \in Log(BOOLEAN)
  /\ rhobs \in Log({"absent", "incomplete", "complete"})
  /\ missing \subseteq Needy
  /\ pc \in ToSet(Pipeline) \cup {"idle", "down"} /\ queue \in BOOLEAN
  /\ pass \in [ready : BOOLEAN, todo : SUBSET Object, fresh : SUBSET pass.todo, err : BOOLEAN]
  /\ pass.todo # {} => pc \in DOMAIN Listed
  /\ budget \in Nat

\* Nothing runs, nothing is queued, nothing is in flight: unless something
\* else happens there is no further pass.
Quiet == /\ pc = "idle" /\ ~queue
         /\ \A o \in Object : ~Lagging(obj[o])
         /\ ~Lagging(rhobs) /\ ~Lagging(noobaa)

\* The template's selector of rules and monitors.
Selects(v) == v.label

\* When the operator has come to rest, every rule of the namespace but the
\* original one is selected by its Prometheus, whoever created or edited it
\* and whenever: the rules the operator creates after the labelling step of
\* its own pass included.
RulesSelected ==
  Quiet => \A o \in Rule \ {"originalRule"} :
             Current(obj[o]).spec # "absent" => Selects(Current(obj[o]))

\* When the operator has come to rest, the objects of the kinds it owns and
\* watches are as it wants them, though a pass may have ended anywhere
\* before the last of them.
WatchedRestored ==
  Quiet => \A o \in {"kubeRBACConfigMap", "prometheusService",
                     "prometheusProxyNetworkPolicy", "ingressNetworkPolicy"} :
             Current(obj[o]).spec = "proper"

\* When the operator has come to rest, Prometheus writes to the remote end
\* exactly if the secret for it is there, unless Prometheus itself was edited
\* or deleted.  Nobody watches Prometheus: a pass that compared its wish with
\* a copy older than the operator's own last write, found them equal and was
\* done, would leave it wrong.
RemoteWriteFollows ==
  Quiet => LET spec == Current(obj["prometheus"]).spec IN
           /\ spec = "remote" => Current(rhobs) = "complete"
           /\ spec = "proper" => Current(rhobs) = "absent"

\* Appending the plugin never undoes what somebody else did to the console
\* since the operator read it.
PluginsKept ==
  [][pc = "consoleUpdate" /\ pc' # pc =>
       Current(console').others = Current(console).others]_vars

\* Everything is as a pass leaves it: objects as wanted (the console plugin at
\* least there), monitors and rules selected, the original rule not, the
\* plugin enabled, OCS scaled down and remote write as the secret says.
Settled ==
  /\ \A o \in Owned \ {"consolePlugin"} : Current(obj[o]).spec \in {"proper", "remote"}
  /\ Current(obj["consolePlugin"]).spec # "absent"
  /\ \A o \in Rule \cup Foreign :
       Current(obj[o]).spec # "absent" => Selects(Current(obj[o])) = (o # "originalRule")
  /\ Current(console).mine > 0
  /\ Current(ocs)
  /\ Current(obj["prometheus"]).spec = IF Current(rhobs) = "absent" THEN "proper" ELSE "remote"

\* Once users, failures and outages are over, the passes bring everything
\* back, watched or not, and it stays.
Converges == <>[]Settled

\* reconcileConsoleCluster takes a console that lists the plugin for done
\* ("Cluster instnce already exists."): the plugin is listed once.
PluginListedOnce == Current(console).mine <= 1

\* ensureConsolePlugin says "Create/Update mcg console ConsolePlugin": a
\* plugin that differs from the operator's is brought back.
PluginUpdated == <>[](Current(obj["consolePlugin"]).spec = "proper")
=============================================================================
