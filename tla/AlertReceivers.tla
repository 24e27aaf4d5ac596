--------------------------- MODULE AlertReceivers ---------------------------
(***************************************************************************)
(* Where alerts go: reconcileAlertmanagerConfig, checkPrerequisites and    *)
(* configReceiver of controllers/monitoring_alert.go, with the template    *)
(* of the routes.  A pass copies what four secrets say into one object.    *)
(* It reads them at different moments, the notification addresses long     *)
(* before the rest, and compares its wish with a cached copy of an object  *)
(* that nobody watches.                                                    *)
(*                                                                         *)
(* Abstractions.                                                           *)
(*  - Addresses are known by their numbers, URLs and mail accounts are     *)
(*    versions.  The PagerDuty key and the mail password are referred to   *)
(*    by the name of their secret and not copied.                          *)
(*  - The rest of the pass (module Resources) is in the steps' failures.   *)
(*  - The ManagedMCG exists and is not in deletion.                        *)
(***************************************************************************)
EXTENDS Informer

CONSTANTS
  MaxAddresses, \* bound: addresses are numbered below it
  Version,      \* versions of the snitch's URL and of the mail account
  Hazards,      \* the kinds of adverse events that may happen
  MaxHazards    \* bound: how many of them happen in one behaviour

HazardKind == {"fault", "crash", "secret", "edit"}

ASSUME ReceiverAssumption ==
  /\ MaxAddresses \in Nat /\ MaxHazards \in Nat
  /\ Hazards \subseteq HazardKind
  /\ Version # {} /\ Version \cap {"absent", "incomplete", "none", "held"} = {}

VARIABLES
  params,  \* log of the secret with the parameters of the add-on
  secret,  \* per other secret, log of what it says
  config,  \* log of the AlertmanagerConfig
  edited,  \* history: a user has written it after the operator
  pc,      \* next step of the operator's process
  queue,   \* the work queue holds the reconcile request
  pass,    \* what a pass carries along
  budget   \* adverse events left

world   == <<params, secret, config, edited>>
process == <<pc, queue, pass>>
vars    == <<world, process, budget>>

Number == 0 .. MaxAddresses - 1

\* The parameters: the numbers of the addresses in them.
NoParams == [exists |-> FALSE, numbers |-> {}]
Params == {v \in [exists : BOOLEAN, numbers : SUBSET Number] : ~v.exists => v = NoParams}

\* What another secret may say: it is absent, lacks an entry, or is complete.
Secret == {"pagerduty", "deadMansSnitch", "smtp"}
Says == [pagerduty      |-> {"absent", "incomplete", "held"},
         deadMansSnitch |-> {"absent", "incomplete"} \cup Version,
         smtp           |-> {"absent", "incomplete"} \cup Version]

Usable(says) == says \notin {"absent", "incomplete"}

\* The AlertmanagerConfig: the URL of the snitch, the mail account, and the
\* numbers of the addresses that are notified.
Absent == [exists |-> FALSE, snitch |-> "none", account |-> "none", to |-> {}]
Config == {v \in [exists : BOOLEAN, snitch : Version \cup {"none"},
                  account : Version \cup {"none"}, to : SUBSET Number] :
             ~v.exists => v = Absent}

\* initializeReconciler forgets the addresses of the pass before.
NewPass == [addresses |-> {},      \* r.addonParams
            found     |-> Absent,  \* r.alertmanagerConfig as CreateOrUpdate read it
            fresh     |-> FALSE,   \* with the server's resourceVersion
            snitch    |-> "none",  \* dmsURL
            account   |-> "none",  \* r.smtpSecret
            err       |-> FALSE]

Spend(h) == h \in Hazards /\ budget > 0 /\ budget' = budget - 1
Goto(step, p) == pc' = step /\ pass' = p
Refused == Goto("finish", [pass EXCEPT !.err = TRUE]) /\ UNCHANGED budget
-----------------------------------------------------------------------------
\* A pass.

Reconcile ==
  /\ pc = "idle" /\ queue
  /\ queue' = FALSE
  /\ Goto("updateAddonParams", NewPass)
  /\ UNCHANGED <<world, budget>>

UpdateAddonParams ==
  /\ pc = "updateAddonParams"
  /\ IF Cached(params).exists
     THEN /\ Goto("get", [pass EXCEPT !.addresses = Cached(params).numbers])
          /\ UNCHANGED budget
     ELSE Refused
  /\ UNCHANGED <<world, queue>>

\* Mutant: the template replaces the whole object, its resourceVersion too.
GetConfigUnversioned ==
  /\ pc = "get"
  /\ Goto("pagerduty", [pass EXCEPT !.found = Cached(config)])
  /\ UNCHANGED <<world, queue, budget>>

\* CreateOrUpdate reads the object, calls the closure...
GetConfig ==
  /\ pc = "get"
  /\ Goto("pagerduty", [pass EXCEPT !.found = Cached(config),
                                    !.fresh = ~Lagging(config)])
  /\ UNCHANGED <<world, queue, budget>>

\* ...which reads the other secrets one after the other; a missing secret or
\* a missing entry is an error.
Read(s, next, Take(_)) ==
  /\ pc = s
  /\ LET says == Cached(secret[s]) IN
     IF Usable(says) THEN Goto(next, Take(says)) /\ UNCHANGED budget ELSE Refused
  /\ UNCHANGED <<world, queue>>

CheckPagerduty ==
  Read("pagerduty", "deadMansSnitch", LAMBDA says : pass)

CheckDeadMansSnitch ==
  Read("deadMansSnitch", "smtp", LAMBDA says : [pass EXCEPT !.snitch = says])

GetSMTP ==
  Read("smtp", "store", LAMBDA says : [pass EXCEPT !.account = says])

\* Mutant: the loop skips a number that is missing.
AlertingAddressesSkipping(numbers) == numbers

\* The loop over notification-email-0, -1, ... that ends at the first number
\* that is missing.
AlertingAddresses(numbers) ==
  LET from[i \in 0 .. MaxAddresses] ==
        IF i \in numbers THEN {i} \cup from[i + 1] ELSE {}
  IN  from[0]

\* Mutant: the mail account is set with or without addresses.
MailAccountAlways(to) == pass.account

\* Without an address the mail receiver stays as the template has it.
MailAccount(to) == IF to # {} THEN pass.account ELSE "none"

\* configReceiver: the template with what the secrets say filled in.
ConfigReceiver ==
  LET to == AlertingAddresses(pass.addresses) IN
  [exists |-> TRUE, snitch |-> pass.snitch, account |-> MailAccount(to), to |-> to]

\* Mutant: the routes are compared by what they mean.
SameMeaning(want) == pass.found = want

\* CreateOrUpdate has always something to update: the template's routes are
\* JSON text, and the server returns it with the keys in another order.
Same(want) == FALSE

\* ...and stores the result, unless it finds nothing to change.
StoreConfig ==
  /\ pc = "store"
  /\ IF pass.found.exists /\ Same(ConfigReceiver)
     THEN Goto("finish", pass) /\ UNCHANGED <<config, edited, budget>>
     ELSE IF IF pass.found.exists THEN pass.fresh ELSE ~Current(config).exists
     THEN /\ config' = Write(config, ConfigReceiver)
          /\ edited' = FALSE
          /\ \/ Goto("finish", pass) /\ UNCHANGED budget
             \/ Spend("fault") /\ Goto("finish", [pass EXCEPT !.err = TRUE])
     ELSE Refused /\ UNCHANGED <<config, edited>>
  /\ UNCHANGED <<params, secret, queue>>

\* A call fails without any effect, here or elsewhere in the pass.
FailStep ==
  /\ pc \notin {"down", "idle", "finish"}
  /\ Spend("fault")
  /\ Goto("finish", [pass EXCEPT !.err = TRUE])
  /\ UNCHANGED <<world, queue>>

Finish ==
  /\ pc = "finish"
  /\ Goto("idle", NewPass)
  /\ queue' = (queue \/ pass.err)
  /\ UNCHANGED <<world, budget>>

Pass == \/ Reconcile \/ UpdateAddonParams \/ GetConfig \/ CheckPagerduty
        \/ CheckDeadMansSnitch \/ GetSMTP \/ StoreConfig \/ Finish
-----------------------------------------------------------------------------
\* The process and its watches.

Running == pc # "down"

Crash ==
  /\ Running /\ Spend("crash")
  /\ Goto("down", NewPass) /\ queue' = FALSE
  /\ UNCHANGED world

\* The ManagedMCG is among what the watches announce.
Start ==
  /\ pc = "down"
  /\ pc' = "idle" /\ queue' = TRUE
  /\ params' = Relist(params) /\ config' = Relist(config)
  /\ secret' = [s \in Secret |-> Relist(secret[s])]
  /\ UNCHANGED <<edited, pass, budget>>

\* secretPredicates names all four.
DeliverParams ==
  /\ Running /\ Lagging(params)
  /\ params' = Deliver(params) /\ queue' = TRUE
  /\ UNCHANGED <<secret, config, edited, pc, pass, budget>>

DeliverSecret(s) ==
  /\ Running /\ Lagging(secret[s])
  /\ secret' = [secret EXCEPT ![s] = Deliver(@)] /\ queue' = TRUE
  /\ UNCHANGED <<params, config, edited, pc, pass, budget>>

\* Cached, but without a watch of the controller.
DeliverConfig ==
  /\ Running /\ Lagging(config)
  /\ config' = Deliver(config)
  /\ UNCHANGED <<params, secret, edited, process, budget>>

\* The informers' periodic resync, or an event of another watched kind.
Resync ==
  /\ Running /\ ~queue
  /\ queue' = TRUE
  /\ UNCHANGED <<world, pc, pass, budget>>
-----------------------------------------------------------------------------
\* Users and OCM (external).

ParamsChange ==
  /\ Spend("secret")
  /\ \E v \in Params \ {Current(params)} : params' = Write(params, v)
  /\ UNCHANGED <<secret, config, edited, process>>

SecretChanges(s) ==
  /\ Spend("secret")
  /\ \E says \in Says[s] \ {Current(secret[s])} :
       secret' = [secret EXCEPT ![s] = Write(@, says)]
  /\ UNCHANGED <<params, config, edited, process>>

\* A secret that is missing or incomplete is provided.
ParamsProvided ==
  /\ ~Current(params).exists
  /\ \E v \in Params \ {NoParams} : params' = Write(params, v)
  /\ UNCHANGED <<secret, config, edited, process, budget>>

SecretProvided(s) ==
  /\ ~Usable(Current(secret[s]))
  /\ \E says \in {v \in Says[s] : Usable(v)} :
       secret' = [secret EXCEPT ![s] = Write(@, says)]
  /\ UNCHANGED <<params, config, edited, process, budget>>

\* The AlertmanagerConfig is deleted, or loses its addresses.
UserEdits ==
  /\ Current(config).exists /\ Spend("edit")
  /\ \E v \in {Absent, [Current(config) EXCEPT !.account = "none", !.to = {}]} :
       config' = Write(config, v)
  /\ edited' = TRUE
  /\ pass' = [pass EXCEPT !.fresh = FALSE]
  /\ UNCHANGED <<params, secret, pc, queue>>
-----------------------------------------------------------------------------
\* A fresh installation, the PagerDuty secret still to come.
Init ==
  /\ \E v \in Params : params = Synced(v)
  /\ \E v \in Version :
       secret = [s \in Secret |-> Synced(IF s = "pagerduty" THEN "absent" ELSE v)]
  /\ config = Synced(Absent) /\ edited = FALSE
  /\ pc = "down" /\ queue = FALSE /\ pass = NewPass
  /\ budget = MaxHazards

Next ==
  \/ Pass \/ FailStep \/ Crash \/ Start
  \/ \E s \in Secret : DeliverSecret(s) \/ SecretChanges(s) \/ SecretProvided(s)
  \/ DeliverParams \/ ParamsChange \/ ParamsProvided
  \/ DeliverConfig \/ Resync \/ UserEdits

Spec == Init /\ [][Next]_vars

\* The worker and the watches go on, the pod is restarted, resyncs happen,
\* OCM provides the secrets.
FairSpec ==
  /\ Spec
  /\ WF_vars(Pass) /\ WF_vars(Start) /\ WF_vars(Resync) /\ WF_vars(DeliverConfig)
  /\ WF_vars(DeliverParams) /\ WF_vars(ParamsProvided)
  /\ \A s \in Secret : WF_vars(DeliverSecret(s)) /\ WF_vars(SecretProvided(s))
-----------------------------------------------------------------------------
\* Where an alert goes.

\* The alerts of the rules the operator installs (noobaa-rules.yaml and the
\* rule for the snitch).
Alert == {"CacheBucketErrorState", "DataSourceErrorState", "BucketPolicyErrorState",
          "DeadMansSnitch"}

\* The routes of the template, in their order.
Routes == <<[alerts |-> {"DataSourceErrorState", "BucketPolicyErrorState"},
             receiver |-> "SendGrid"],
            [alerts |-> {"CacheBucketErrorState"}, receiver |-> "pagerduty"],
            [alerts |-> {"DeadMansSnitch"}, receiver |-> "DeadMansSnitch"]>>

\* Alertmanager takes the first route that matches, or the default.
Receiver(a) ==
  LET matching == {i \in DOMAIN Routes : a \in Routes[i].alerts}
      first    == CHOOSE i \in matching : \A j \in matching : i <= j
  IN  IF matching = {} THEN "null" ELSE Routes[first].receiver
-----------------------------------------------------------------------------
\* Properties.

\* Every variable has its type; in particular the mail receiver has an account
\* exactly if there is somebody to notify.
TypeOK ==
  /\ params \in Log(Params)
  /\ DOMAIN secret = Secret /\ \A s \in Secret : secret[s] \in Log(Says[s])
  /\ config \in Log(Config)
  /\ \A i \in DOMAIN config : config[i].account = "none" <=> config[i].to = {}
  /\ edited \in BOOLEAN
  /\ pc \in {"down", "idle", "updateAddonParams", "get", "pagerduty", "deadMansSnitch",
             "smtp", "store", "finish"}
  /\ queue \in BOOLEAN
  /\ pass.found \in Config /\ pass.addresses \subseteq Number
  /\ budget \in Nat

\* Nothing runs, nothing is queued, no event is on its way, and the user has
\* left the operator's work alone.
AtRest == /\ pc = "idle" /\ ~queue /\ ~edited
          /\ ~Lagging(params) /\ \A s \in Secret : ~Lagging(secret[s])

\* An alert reaches somebody, by what the secrets say now.
Reaches(a, v) ==
  CASE Receiver(a) = "pagerduty"      -> v.exists /\ Current(secret["pagerduty"]) = "held"
    [] Receiver(a) = "DeadMansSnitch" -> v.snitch = Current(secret["deadMansSnitch"])
    [] Receiver(a) = "SendGrid"       -> v.to # {} => v.account = Current(secret["smtp"])
    [] OTHER                          -> FALSE

\* When the operator has come to rest, every alert of its rules goes to a
\* receiver that is configured by what the secrets say now, though they were
\* read at different moments of a pass and the AlertmanagerConfig was
\* compared with an old copy.
AlertsReach == AtRest => \A a \in Alert : Reaches(a, Current(config))

\* When the operator has come to rest, exactly the addresses before the first
\* gap in the numbering are notified: none that was removed while a pass held
\* it, and none missing that was added.
AddressesFollow ==
  AtRest => \A n \in Number :
    n \in Current(config).to <=> 0 .. n \subseteq Current(params).numbers

\* Once secrets, users and failures have settled, the AlertmanagerConfig says
\* what the secrets say, whoever edited or deleted it, and stays so.
ReceiversConverge ==
  <>[](/\ Current(config).snitch = Current(secret["deadMansSnitch"])
       /\ Current(config).to = AlertingAddresses(Current(params).numbers)
       /\ Current(config).to # {} => Current(config).account = Current(secret["smtp"]))
=============================================================================
