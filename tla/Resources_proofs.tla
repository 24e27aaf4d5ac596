-------------------------- MODULE Resources_proofs --------------------------
(***************************************************************************)
(* Proofs about what a pass installs (module Resources): that the operator *)
(* comes to rest only when what it watches is as it should be, and never   *)
(* undoes what others did to the console.                                  *)
(***************************************************************************)
EXTENDS Resources, Informer_proofs

\* The pipeline, step by step.
LEMMA PipelineIs ==
  /\ DOMAIN Pipeline = 1 .. 19
  /\ Pipeline[1] = "updateAddonParams" /\ Pipeline[2] = "consolePlugin"
  /\ Pipeline[3] = "consoleList" /\ Pipeline[4] = "consoleUpdate"
  /\ Pipeline[5] = "ocsCSV" /\ Pipeline[6] = "kubeRBACConfigMap"
  /\ Pipeline[7] = "prometheusService" /\ Pipeline[8] = "prometheusProxyNetworkPolicy"
  /\ Pipeline[9] = "alertRelabelConfigSecret" /\ Pipeline[10] = "prometheus"
  /\ Pipeline[11] = "alertmanager" /\ Pipeline[12] = "alertmanagerConfig"
  /\ Pipeline[13] = "podMonitors" /\ Pipeline[14] = "serviceMonitors"
  /\ Pipeline[15] = "promRules" /\ Pipeline[16] = "dmsRule"
  /\ Pipeline[17] = "noobaaRules" /\ Pipeline[18] = "ingressNetworkPolicy"
  /\ Pipeline[19] = "finish"
  <1> DEFINE first == <<"updateAddonParams", "consolePlugin", "consoleList", "consoleUpdate",
                       "ocsCSV", "kubeRBACConfigMap", "prometheusService",
                       "prometheusProxyNetworkPolicy">>
             last  == <<"ingressNetworkPolicy", "finish">>
             names == {"updateAddonParams", "consolePlugin", "consoleList", "consoleUpdate",
                       "ocsCSV", "kubeRBACConfigMap", "prometheusService",
                       "prometheusProxyNetworkPolicy", "alertRelabelConfigSecret",
                       "prometheus", "alertmanager", "alertmanagerConfig", "podMonitors",
                       "serviceMonitors", "promRules", "dmsRule", "noobaaRules",
                       "ingressNetworkPolicy", "finish"}
  <1>1. Pipeline = (first \o AlertMonitoring) \o last
    BY DEF Pipeline
  <1>2. first \in Seq(names) /\ AlertMonitoring \in Seq(names) /\ last \in Seq(names)
    BY DEF AlertMonitoring
  <1>3. Len(first) = 8 /\ Len(AlertMonitoring) = 9 /\ Len(last) = 2
    BY DEF AlertMonitoring
  <1> DEFINE front == first \o AlertMonitoring
  <1> HIDE DEF first, last, names
  <1>4. /\ front \in Seq(names) /\ Len(front) = Len(first) + Len(AlertMonitoring)
        /\ \A i \in 1 .. Len(first) : front[i] = first[i]
        /\ \A i \in 1 .. Len(AlertMonitoring) : front[i + Len(first)] = AlertMonitoring[i]
    BY <1>2
  <1> HIDE DEF front
  <1>5. /\ DOMAIN (front \o last) = 1 .. Len(front) + Len(last)
        /\ \A i \in 1 .. Len(front) : (front \o last)[i] = front[i]
        /\ \A i \in 1 .. Len(last) : (front \o last)[i + Len(front)] = last[i]
    <2>1. front \in Seq(names) /\ last \in Seq(names)
      BY <1>2, <1>4
    <2> QED
      BY <2>1
  <1>6. Pipeline = front \o last /\ Len(front) = 17
    BY <1>1, <1>3, <1>4 DEF front
  <1>7. /\ DOMAIN Pipeline = 1 .. 19
        /\ \A i \in 1 .. 17 : Pipeline[i] = front[i]
        /\ \A i \in 1 .. 2 : Pipeline[i + 17] = last[i]
        /\ \A i \in 1 .. 8 : front[i] = first[i]
        /\ \A i \in 1 .. 9 : front[i + 8] = AlertMonitoring[i]
    <2>1. DOMAIN Pipeline = 1 .. 19
      <3>1. Len(front) + Len(last) = 19
        BY <1>3, <1>6
      <3> QED
        BY <1>5, <1>6, <3>1
    <2>2. \A i \in 1 .. 17 : Pipeline[i] = front[i]
      BY <1>5, <1>6
    <2>3. \A i \in 1 .. 2 : Pipeline[i + 17] = last[i]
      BY <1>3, <1>5, <1>6
    <2>4. \A i \in 1 .. 8 : front[i] = first[i]
      BY <1>3, <1>4
    <2>5. \A i \in 1 .. 9 : front[i + 8] = AlertMonitoring[i]
      BY <1>3, <1>4
    <2> QED
      BY <2>1, <2>2, <2>3, <2>4, <2>5
  <1>8. /\ \A i \in 1 .. 8 : Pipeline[i] = first[i]
        /\ Pipeline[9] = AlertMonitoring[1] /\ Pipeline[10] = AlertMonitoring[2]
        /\ Pipeline[11] = AlertMonitoring[3] /\ Pipeline[12] = AlertMonitoring[4]
        /\ Pipeline[13] = AlertMonitoring[5] /\ Pipeline[14] = AlertMonitoring[6]
        /\ Pipeline[15] = AlertMonitoring[7] /\ Pipeline[16] = AlertMonitoring[8]
        /\ Pipeline[17] = AlertMonitoring[9]
        /\ Pipeline[18] = last[1] /\ Pipeline[19] = last[2]
    <2>1. \A i \in 1 .. 8 : Pipeline[i] = first[i]
      BY <1>7
    <2>2. \A i \in 1 .. 9 : i + 8 \in 1 .. 17 /\ Pipeline[i + 8] = AlertMonitoring[i]
      BY <1>7
    <2> QED
      BY <1>7, <2>1, <2>2
  <1> QED
    BY <1>7, <1>8 DEF AlertMonitoring, first, last

\* No step occurs twice, so every step but the last has one successor.
LEMMA SuccAt ==
  /\ DOMAIN Pipeline = 1 .. 19
  /\ \A i, j \in 1 .. 19 : Pipeline[i] = Pipeline[j] => i = j
  /\ \A i \in 1 .. 18 : Succ(Pipeline[i]) = Pipeline[i + 1]
  <1>1. DOMAIN Pipeline = 1 .. 19
    BY PipelineIs
  <1>2. \A i, j \in 1 .. 19 : Pipeline[i] = Pipeline[j] => i = j
    BY PipelineIs
  <1>3. ASSUME NEW i \in 1 .. 18 PROVE Succ(Pipeline[i]) = Pipeline[i + 1]
    <2>1. \A j \in DOMAIN Pipeline : j > 1 /\ Pipeline[j - 1] = Pipeline[i] <=> j = i + 1
      BY <1>1, <1>2
    <2>2. i + 1 \in DOMAIN Pipeline
      BY <1>1
    <2>3. (CHOOSE j \in DOMAIN Pipeline : j > 1 /\ Pipeline[j - 1] = Pipeline[i]) = i + 1
      BY <2>1, <2>2
    <2> QED
      BY <2>3 DEF Succ
  <1> QED
    BY <1>1, <1>2, <1>3
\* The steps of a pass but the last.
Working == Owned \cup DOMAIN Listed
             \cup {"updateAddonParams", "consoleList", "consoleUpdate", "ocsCSV"}

LEMMA WorkingSteps ==
  /\ Working = {Pipeline[i] : i \in 1 .. 18}
  /\ ToSet(Pipeline) = Working \cup {"finish"} /\ "finish" \notin Working
  /\ \A step \in Working : Succ(step) \in ToSet(Pipeline)
  /\ Needy \subseteq Working
  /\ DOMAIN Listed = {"podMonitors", "serviceMonitors", "promRules"}
  /\ Owned \cap DOMAIN Listed = {} /\ Owned \subseteq Object
  /\ \A step \in DOMAIN Listed : Listed[step] \subseteq Object
  <1>1. DOMAIN Listed = {"podMonitors", "serviceMonitors", "promRules"}
    BY DEF Listed
  <1>2. Working = {Pipeline[i] : i \in 1 .. 18}
    <2>1. ASSUME NEW s \in Working PROVE \E i \in 1 .. 18 : s = Pipeline[i]
      BY <1>1, <2>1, PipelineIs DEF Working, Owned
    <2>2. ASSUME NEW i \in 1 .. 18 PROVE Pipeline[i] \in Working
      BY <1>1, <2>2, PipelineIs DEF Working, Owned
    <2> QED
      BY <2>1, <2>2
  <1>3. ToSet(Pipeline) = {Pipeline[i] : i \in 1 .. 19}
    BY SuccAt DEF ToSet
  <1>4. Pipeline[19] = "finish"
    BY PipelineIs
  <1>5. "finish" \notin Working
    BY <1>1 DEF Working, Owned
  <1>6. \A step \in Working : Succ(step) \in ToSet(Pipeline)
    BY <1>2, <1>3, SuccAt
  <1>7. Owned \cap DOMAIN Listed = {} /\ Owned \subseteq Object /\ Needy \subseteq Working
    BY <1>1 DEF Owned, Object, Needy, Working
  <1>8. \A step \in DOMAIN Listed : Listed[step] \subseteq Object
    BY DEF Listed, Object, Owned, Foreign
  <1> QED
    BY <1>1, <1>2, <1>3, <1>4, <1>5, <1>6, <1>7, <1>8
-----------------------------------------------------------------------------
\* Types.

Carries(p) ==
  p \in [ready : BOOLEAN, todo : SUBSET Object, fresh : SUBSET p.todo, err : BOOLEAN]

\* The passes that begin, end and go on.
LEMMA Carried ==
  /\ Carries(NewPass) /\ NewPass.todo = {} /\ NewPass.fresh = {}
  /\ \A b \in BOOLEAN : LET p == [NewPass EXCEPT !.ready = b] IN
       Carries(p) /\ p.todo = {} /\ p.fresh = {} /\ p.err = FALSE
  /\ LET p == [NewPass EXCEPT !.err = TRUE] IN
       Carries(p) /\ p.todo = {} /\ p.fresh = {} /\ p.err = TRUE
  /\ \A p : Carries(p) =>
       LET q == [p EXCEPT !.err = TRUE] IN
       Carries(q) /\ q.todo = p.todo /\ q.fresh = p.fresh /\ q.err = TRUE
  BY DEF Carries, NewPass

\* What a step's closure makes of a version is a version that is there.
LEMMA Wanted ==
  ASSUME NEW step \in Owned, NEW v \in Version
  PROVE  LET want == [v EXCEPT !.spec = Desired(step, v)] IN
         want \in Version /\ want.spec = Desired(step, v) /\ want.label = v.label
  <1>1. Desired(step, v) \in {"drifted", "proper", "remote"}
    BY DEF Desired, EnsuredConsolePlugin, DesiredPrometheus, Version
  <1> QED
    BY <1>1 DEF Version

\* The listed copies the server still accepts are of objects that are there.
FreshLive == \A o \in pass.fresh : Current(obj[o]).spec # "absent"

TypeInv == TypeOK /\ FreshLive

\* A call that has had its effect is followed by the next step or by the end
\* of the pass.
LEMMA DoneType ==
  ASSUME TypeOK, pc \in Working \ DOMAIN Listed, Done
  PROVE  /\ pc' \in ToSet(Pipeline) /\ Carries(pass') /\ budget' \in Nat
         /\ pass'.todo = {} /\ pass'.fresh = {}
         /\ (pc' = Succ(pc) /\ pass' = pass) \/ (pc' = "finish" /\ pass'.err)
  <1>1. Carries(pass) /\ pass.todo = {} /\ pass.fresh = {} /\ budget \in Nat
    BY DEF TypeOK, Carries
  <1>2. CASE Continue /\ UNCHANGED budget
    BY <1>1, <1>2, WorkingSteps DEF Continue, Goto
  <1>3. CASE Spend("fault") /\ Goto("finish", [pass EXCEPT !.err = TRUE])
    BY <1>1, <1>3, WorkingSteps, Carried DEF Spend, Goto
  <1> QED
    BY <1>2, <1>3 DEF Done

LEMMA RefusedType ==
  ASSUME TypeOK, pc \in Working \ DOMAIN Listed, Refused
  PROVE  /\ pc' \in ToSet(Pipeline) /\ Carries(pass') /\ budget' \in Nat
         /\ pass'.todo = {} /\ pass'.fresh = {}
         /\ pc' = "finish" /\ pass'.err
  <1>1. Carries(pass) /\ pass.todo = {} /\ pass.fresh = {} /\ budget \in Nat
    BY DEF TypeOK, Carries
  <1> QED
    BY <1>1, WorkingSteps, Carried DEF Refused, Goto

LEMMA ContinueType ==
  ASSUME TypeOK, pc \in Working \ DOMAIN Listed, Continue
  PROVE  /\ pc' \in ToSet(Pipeline) /\ Carries(pass')
         /\ pass'.todo = {} /\ pass'.fresh = {}
         /\ pc' = Succ(pc) /\ pass' = pass
  <1>1. Carries(pass) /\ pass.todo = {} /\ pass.fresh = {}
    BY DEF TypeOK, Carries
  <1> QED
    BY <1>1, WorkingSteps DEF Continue, Goto
\* What CreateOrUpdate does to the object and to the pass: it stores what the
\* operator wants of the version it found and has its effect, or it goes on
\* without, or it is refused.
LEMMA Stores ==
  ASSUME TypeOK, NEW step \in Owned, CreateOrUpdate(step)
  PROVE  /\ pc = step /\ step \in Working \ DOMAIN Listed
         /\ UNCHANGED <<console, ocs, rhobs, noobaa, missing, queue>>
         /\ \/ UNCHANGED obj /\ (Refused \/ (Continue /\ UNCHANGED budget))
            \/ /\ Done
               /\ obj' = [obj EXCEPT ![step] = Write(obj[step],
                            [Cached(obj[step]) EXCEPT !.spec = Desired(step, Cached(obj[step]))])]
  BY WorkingSteps DEF CreateOrUpdate, Working

LEMMA StoresType ==
  ASSUME TypeOK, NEW step \in Owned, CreateOrUpdate(step)
  PROVE  /\ obj' \in [Object -> Log(Version)]
         /\ \A o \in Object \ {step} : obj'[o] = obj[o]
         /\ pc' \in ToSet(Pipeline) /\ Carries(pass') /\ budget' \in Nat
         /\ pass'.todo = {} /\ pass'.fresh = {}
         /\ (pc' = Succ(pc) /\ pass' = pass) \/ (pc' = "finish" /\ pass'.err)
  <1>1. step \in Object /\ obj \in [Object -> Log(Version)] /\ budget \in Nat
    BY WorkingSteps DEF TypeOK
  <1>2. Cached(obj[step]) \in Version
    BY <1>1, LogElements
  <1>3. Write(obj[step], [Cached(obj[step]) EXCEPT !.spec = Desired(step, Cached(obj[step]))])
          \in Log(Version)
    BY <1>1, <1>2, Wanted, WriteLog
  <1>4. CASE UNCHANGED obj /\ Refused
    BY <1>1, <1>4, Stores, RefusedType
  <1>5. CASE UNCHANGED obj /\ Continue /\ UNCHANGED budget
    BY <1>1, <1>5, Stores, ContinueType
  <1>6. CASE /\ Done
             /\ obj' = [obj EXCEPT ![step] = Write(obj[step],
                          [Cached(obj[step]) EXCEPT !.spec = Desired(step, Cached(obj[step]))])]
    <2>1. obj' \in [Object -> Log(Version)] /\ \A o \in Object \ {step} : obj'[o] = obj[o]
      BY <1>1, <1>3, <1>6
    <2> QED
      BY <1>6, <2>1, Stores, DoneType
  <1> QED
    BY <1>4, <1>5, <1>6, Stores

\* A listed item is relabelled in the server's own version.
LEMMA Labelled ==
  ASSUME NEW o \in Object, NEW v \in Version, v.spec # "absent"
  PROVE  Relabelled(o, v) \in Version /\ Relabelled(o, v).spec = v.spec
         /\ Relabelled(o, v).label = (o # "originalRule")
  BY DEF Relabelled, Version

\* An item is updated or refused, and the pass ends, goes on with the rest of
\* the items, or with the next step.
LEMMA MonitoredType ==
  ASSUME TypeInv, NEW step \in DOMAIN Listed, NEW o \in Listed[step], UpdateMonitored(step, o)
  PROVE  /\ pc = step /\ step \in Working /\ o \in Object /\ o \in pass.todo
         /\ UNCHANGED <<console, ocs, rhobs, noobaa, missing, queue>>
         /\ obj' \in [Object -> Log(Version)]
         /\ \A p \in Object \ {o} : obj'[p] = obj[p]
         /\ pc' \in ToSet(Pipeline) /\ Carries(pass') /\ budget' \in Nat
         /\ pass'.todo # {} => pc' = step
         /\ pass'.fresh \subseteq pass.fresh \ {o} /\ pass'.todo \subseteq pass.todo
         /\ \/ pc' = "finish" /\ pass'.err
            \/ /\ UpToDate(o) /\ Current(obj[o]) \in Version /\ Current(obj[o]).spec # "absent"
               /\ obj'[o] = Write(obj[o], Relabelled(o, Current(obj[o])))
               /\ pass'.todo = pass.todo \ {o} /\ pass'.err = pass.err
               /\ pc' = IF pass.todo = {o} THEN Succ(step) ELSE step
  <1>1. /\ pc = step /\ step \in Working /\ o \in Object /\ o \in pass.todo /\ Carries(pass)
        /\ obj \in [Object -> Log(Version)] /\ budget \in Nat
        /\ step \in ToSet(Pipeline) /\ Succ(step) \in ToSet(Pipeline)
        /\ "finish" \in ToSet(Pipeline)
        /\ UNCHANGED <<console, ocs, rhobs, noobaa, missing, queue>>
    BY WorkingSteps DEF UpdateMonitored, TypeInv, TypeOK, Carries, Working
  <1>2. CASE UpToDate(o)
    <2> DEFINE rest == pass.todo \ {o}
               on   == [pass EXCEPT !.todo = rest, !.fresh = pass.fresh \ {o}]
    <2>1. Current(obj[o]) \in Version /\ Current(obj[o]).spec # "absent"
      BY <1>1, <1>2, LogElements DEF UpToDate, TypeInv, FreshLive
    <2>2. Write(obj[o], Relabelled(o, Current(obj[o]))) \in Log(Version)
      BY <1>1, <2>1, Labelled, WriteLog
    <2>3. obj' = [obj EXCEPT ![o] = Write(obj[o], Relabelled(o, Current(obj[o])))]
      BY <1>2 DEF UpdateMonitored
    <2>4. /\ obj' \in [Object -> Log(Version)]
          /\ \A p \in Object \ {o} : obj'[p] = obj[p]
          /\ obj'[o] = Write(obj[o], Relabelled(o, Current(obj[o])))
      BY <1>1, <2>2, <2>3
    <2>5. /\ Carries(on) /\ on.todo = rest /\ on.fresh = pass.fresh \ {o} /\ on.err = pass.err
      BY <1>1 DEF Carries
    <2>6. CASE Goto(IF rest = {} THEN Succ(pc) ELSE pc, on) /\ UNCHANGED budget
      BY <1>1, <1>2, <2>1, <2>4, <2>5, <2>6 DEF Goto
    <2>7. CASE Spend("fault") /\ Goto("finish", [NewPass EXCEPT !.err = TRUE])
      BY <1>1, <2>4, <2>7, Carried DEF Goto, Spend
    <2> QED
      BY <1>2, <2>6, <2>7 DEF UpdateMonitored
  <1>3. CASE ~UpToDate(o)
    BY <1>1, <1>3, Carried DEF UpdateMonitored, Goto
  <1> QED
    BY <1>2, <1>3
\* A list holds the items the cache has, and goes straight on if there are
\* none.
LEMMA ListedType ==
  ASSUME TypeInv, NEW step \in DOMAIN Listed, ListMonitored(step)
  PROVE  LET items == {o \in Listed[step] : Cached(obj[o]).spec # "absent"} IN
         /\ pc = step /\ step \in Working /\ pass.todo = {} /\ items \subseteq Object
         /\ UNCHANGED <<server, queue, budget>>
         /\ Carries(pass') /\ pass'.err = pass.err /\ pc' \in ToSet(Pipeline)
         /\ pass'.todo = items /\ pc' = IF items = {} THEN Succ(step) ELSE step
         /\ \A o \in pass'.fresh : o \in items /\ ~Lagging(obj[o])
  <1> DEFINE items == {o \in Listed[step] : Cached(obj[o]).spec # "absent"}
             on    == [pass EXCEPT !.todo = items, !.fresh = {o \in items : ~Lagging(obj[o])}]
  <1>1. /\ pc = step /\ step \in Working /\ pass.todo = {} /\ Carries(pass)
        /\ pass.fresh = {} /\ items \subseteq Object
        /\ UNCHANGED <<server, queue, budget>>
        /\ step \in ToSet(Pipeline) /\ Succ(step) \in ToSet(Pipeline)
    BY WorkingSteps DEF ListMonitored, TypeInv, TypeOK, Carries, Working
  <1>2. CASE items = {}
    BY <1>1, <1>2 DEF ListMonitored, Continue, Goto
  <1>3. CASE items # {}
    <2>1. /\ Carries(on) /\ on.todo = items /\ on.fresh = {o \in items : ~Lagging(obj[o])}
          /\ on.err = pass.err
      BY <1>1 DEF Carries
    <2>2. pc' = pc /\ pass' = on
      BY <1>3 DEF ListMonitored, Goto
    <2> QED
      BY <1>1, <1>3, <2>1, <2>2
  <1> QED
    BY <1>2, <1>3

\* What users leave behind are versions.
LEMMA Edited ==
  ASSUME TypeOK, NEW o \in Editable, UserEdits(o)
  PROVE  /\ o \in Object
         /\ \E v \in UserVersion(o) \ {Current(obj[o])} :
              v \in Version /\ obj'[o] = Write(obj[o], v)
         /\ obj' \in [Object -> Log(Version)]
         /\ \A p \in Object \ {o} : obj'[p] = obj[p]
         /\ Carries(pass') /\ pass'.todo = pass.todo /\ pass'.fresh = pass.fresh \ {o}
         /\ pass'.err = pass.err
         /\ UNCHANGED <<console, ocs, rhobs, noobaa, missing, pc, queue>>
  <1>1. o \in Object /\ obj \in [Object -> Log(Version)] /\ Carries(pass)
    BY ResourceAssumption DEF TypeOK, Carries
  <1>2. PICK v \in UserVersion(o) \ {Current(obj[o])} : obj' = [obj EXCEPT ![o] = Write(obj[o], v)]
    BY DEF UserEdits
  <1>3. v \in Version
    BY <1>2 DEF UserVersion
  <1>4. Write(obj[o], v) \in Log(Version)
    BY <1>1, <1>3, WriteLog
  <1>5. /\ obj' \in [Object -> Log(Version)] /\ obj'[o] = Write(obj[o], v)
        /\ \A p \in Object \ {o} : obj'[p] = obj[p]
    BY <1>1, <1>2, <1>4
  <1>6. pass' = [pass EXCEPT !.fresh = pass.fresh \ {o}]
    BY DEF UserEdits
  <1>7. /\ Carries(pass') /\ pass'.todo = pass.todo /\ pass'.fresh = pass.fresh \ {o}
        /\ pass'.err = pass.err
    BY <1>1, <1>6 DEF Carries
  <1> QED
    BY <1>1, <1>2, <1>3, <1>5, <1>7 DEF UserEdits
Console == [mine : Nat, others : SUBSET Plugins]
Says    == {"absent", "incomplete", "complete"}

\* The other logs of the server stay logs.
LEMMA ServerType ==
  ASSUME TypeOK, [Next]_vars
  PROVE  /\ console' \in Log(Console) /\ ocs' \in Log(BOOLEAN) /\ noobaa' \in Log(BOOLEAN)
         /\ rhobs' \in Log(Says) /\ missing' \subseteq Needy
  <1> USE DEF server, process, vars, Console, Says
  <1>1. /\ console \in Log(Console) /\ ocs \in Log(BOOLEAN) /\ noobaa \in Log(BOOLEAN)
        /\ rhobs \in Log(Says) /\ missing \subseteq Needy
    BY DEF TypeOK
  <1> HIDE DEF Console, Says
  <1>2. CASE Reconcile \/ UpdateAddonParams \/ ConsoleList \/ FailStep \/ Finish \/ Crash
    BY <1>1, <1>2 DEF Reconcile, UpdateAddonParams, ConsoleList, FailStep, Finish, Crash
  <1>3. ASSUME NEW step \in Owned, CreateOrUpdate(step)
        PROVE  UNCHANGED <<console, ocs, rhobs, noobaa, missing>>
    BY <1>3 DEF CreateOrUpdate
  <1>4. CASE ConsoleUpdate
    <2>1. Cached(console) \in Console
      BY <1>1, LogElements
    <2>2. [Cached(console) EXCEPT !.mine = Cached(console).mine + 1] \in Console
      BY <2>1 DEF Console
    <2> QED
      BY <1>1, <1>4, <2>2, WriteLog DEF ConsoleUpdate
  <1>5. CASE OCSCSV
    <2>1. Write(ocs, TRUE) \in Log(BOOLEAN)
      BY <1>1, WriteLog
    <2>2. ocs' = ocs \/ ocs' = Write(ocs, TRUE)
      BY <1>5 DEF OCSCSV
    <2> QED
      BY <1>1, <1>5, <2>1, <2>2 DEF OCSCSV
  <1>6. ASSUME NEW step \in DOMAIN Listed,
               ListMonitored(step) \/ \E o \in Listed[step] : UpdateMonitored(step, o)
        PROVE  UNCHANGED <<console, ocs, rhobs, noobaa, missing>>
    BY <1>6 DEF ListMonitored, UpdateMonitored
  <1>7. CASE Start
    BY <1>1, <1>7, RelistLog DEF Start
  <1>8. CASE Delivery
    BY <1>1, <1>8, DeliverLog
    DEF Delivery, DeliverSecret, DeliverNooBaa, DeliverUnwatched, DeliverObject
  <1>9. CASE Resync \/ \E o \in Editable : UserEdits(o)
    BY <1>1, <1>9 DEF Resync, UserEdits
  <1>10. CASE UserEditsConsole
    <2>1. Current(console) \in Console
      BY <1>1, LogElements
    <2>2. [mine : {0, Current(console).mine}, others : SUBSET Plugins] \subseteq Console
      BY <2>1 DEF Console
    <2> QED
      BY <1>1, <1>10, <2>2, WriteLog DEF UserEditsConsole
  <1>11. CASE OLMUpgradesOCS
    BY <1>1, <1>11, WriteLog DEF OLMUpgradesOCS
  <1>12. CASE SecretChanges
    BY <1>1, <1>12, WriteLog DEF SecretChanges, Says
  <1>13. CASE SecretCompleted
    <2>1. "complete" \in Says
      BY DEF Says
    <2> QED
      BY <1>1, <1>13, <2>1, WriteLog DEF SecretCompleted
  <1>14. CASE NooBaaReady
    BY <1>1, <1>14, WriteLog DEF NooBaaReady
  <1>15. CASE NooBaaNotReady
    BY <1>1, <1>15, WriteLog DEF NooBaaNotReady
  <1>16. CASE Unblock \/ \E step \in Needy : Block(step)
    BY <1>1, <1>16 DEF Unblock, Block
  <1>17. CASE UNCHANGED vars
    BY <1>1, <1>17
  <1> QED
    BY <1>1, <1>2, <1>3, <1>4, <1>5, <1>6, <1>7, <1>8, <1>9, <1>10, <1>11, <1>12, <1>13,
       <1>14, <1>15, <1>16, <1>17
    DEF Next, Pass, Cluster

\* Objects stay logs of versions.
LEMMA ObjType ==
  ASSUME TypeInv, [Next]_vars
  PROVE  obj' \in [Object -> Log(Version)]
  <1> USE DEF server, process, vars
  <1>1. obj \in [Object -> Log(Version)]
    BY DEF TypeInv, TypeOK
  <1>2. ASSUME NEW o \in Object, DeliverObject(o) PROVE obj' \in [Object -> Log(Version)]
    BY <1>1, <1>2, DeliverLog DEF DeliverObject
  <1>3. CASE Start
    BY <1>1, <1>3, RelistLog DEF Start
  <1>4. ASSUME NEW step \in Owned, CreateOrUpdate(step) PROVE obj' \in [Object -> Log(Version)]
    BY <1>4, StoresType DEF TypeInv
  <1>5. ASSUME NEW step \in DOMAIN Listed, NEW o \in Listed[step], UpdateMonitored(step, o)
        PROVE  obj' \in [Object -> Log(Version)]
    BY <1>5, MonitoredType
  <1>6. ASSUME NEW o \in Editable, UserEdits(o) PROVE obj' \in [Object -> Log(Version)]
    BY <1>6, Edited DEF TypeInv
  <1>7. ASSUME NEW step \in DOMAIN Listed, ListMonitored(step) PROVE UNCHANGED obj
    BY <1>7 DEF ListMonitored
  <1> QED
    BY <1>1, <1>2, <1>3, <1>4, <1>5, <1>6, <1>7
    DEF Next, Pass, Cluster, Delivery, Reconcile, UpdateAddonParams, ConsoleList,
        ConsoleUpdate, OCSCSV, FailStep, Finish, Crash, DeliverSecret, DeliverNooBaa,
        DeliverUnwatched, Resync, UserEditsConsole, OLMUpgradesOCS, SecretChanges,
        SecretCompleted, NooBaaReady, NooBaaNotReady, Unblock, Block

\* The process as TypeOK has it.
ProcessType ==
  /\ pc \in ToSet(Pipeline) \cup {"idle", "down"} /\ queue \in BOOLEAN
  /\ Carries(pass) /\ (pass.todo # {} => pc \in DOMAIN Listed) /\ budget \in Nat

\* How a step moves the process: it stays where it is, a pass begins, a pass
\* goes on or ends early, it ends, the process dies or starts.
Control ==
  \/ pc' = pc /\ (queue => queue') /\ pass'.err = pass.err
  \/ pc = "idle" /\ pc' = "updateAddonParams"
  \/ /\ pc \in Working /\ (queue => queue')
     /\ \/ pc' = Succ(pc) \/ (pc' = "finish" /\ pass'.err)
        \/ pc = "consoleList" /\ pc' = "ocsCSV"
  \/ pc = "finish" /\ pc' = "idle" /\ (queue \/ pass.err => queue')
  \/ pc' = "down"
  \/ pc = "down" /\ queue'

\* A pass's own steps.
LEMMA PassControl ==
  ASSUME TypeInv, Pass \/ FailStep
  PROVE  ProcessType' /\ Control
  <1>1. /\ pc \in ToSet(Pipeline) \cup {"idle", "down"} /\ queue \in BOOLEAN
        /\ Carries(pass) /\ (pass.todo # {} => pc \in DOMAIN Listed) /\ budget \in Nat
    BY DEF TypeInv, TypeOK, Carries
  <1>2. /\ {"updateAddonParams", "consoleList", "consoleUpdate", "ocsCSV"}
             \subseteq Working \ DOMAIN Listed
        /\ "finish" \in ToSet(Pipeline) /\ Working \subseteq ToSet(Pipeline)
        /\ TypeOK
    BY WorkingSteps DEF Working, TypeInv
  <1>3. CASE Reconcile
    <2>1. Cached(noobaa) \in BOOLEAN
      BY LogElements DEF TypeInv, TypeOK
    <2>2. \/ pass' = NewPass /\ budget' \in Nat
          \/ pass' = [NewPass EXCEPT !.ready = Cached(noobaa)] /\ budget' \in Nat
      BY <1>1, <1>3 DEF Reconcile, Goto, Spend
    <2>3. Carries(pass') /\ pass'.todo = {} /\ budget' \in Nat
      BY <2>1, <2>2, Carried
    <2>4. pc = "idle" /\ pc' = "updateAddonParams" /\ queue' = FALSE
      BY <1>3 DEF Reconcile, Goto
    <2> QED
      BY <1>2, <2>3, <2>4 DEF ProcessType, Control, Carries
  <1>4. CASE UpdateAddonParams
    <2>1. /\ pc \in Working \ DOMAIN Listed /\ UNCHANGED queue
          /\ Refused \/ (Continue /\ UNCHANGED budget)
      BY <1>2, <1>4 DEF UpdateAddonParams
    <2>2. /\ pc' \in ToSet(Pipeline) /\ Carries(pass') /\ budget' \in Nat /\ pass'.todo = {}
          /\ pc' = Succ(pc) \/ (pc' = "finish" /\ pass'.err)
      BY <1>1, <1>2, <2>1, RefusedType, ContinueType
    <2> QED
      BY <1>1, <2>1, <2>2 DEF ProcessType, Control, Carries
  <1>5. ASSUME NEW step \in Owned, CreateOrUpdate(step) PROVE ProcessType' /\ Control
    <2>1. pc \in Working /\ UNCHANGED queue
      BY <1>2, <1>5, Stores
    <2> QED
      BY <1>1, <1>2, <1>5, <2>1, StoresType DEF ProcessType, Control, Carries
  <1>6. CASE ConsoleList
    <2>1. /\ pc = "consoleList" /\ pass' = pass /\ UNCHANGED <<queue, budget>>
          /\ pc' = "ocsCSV" \/ pc' = "consoleUpdate"
      BY <1>6 DEF ConsoleList, Goto
    <2>2. Succ("consoleList") = "consoleUpdate"
      BY SuccAt, PipelineIs
    <2>3. pc \in Working /\ pass.todo = {} /\ pc' \in ToSet(Pipeline)
      BY <1>1, <1>2, <2>1
    <2> QED
      BY <1>1, <2>1, <2>2, <2>3 DEF ProcessType, Control, Carries
  <1>7. CASE ConsoleUpdate \/ OCSCSV
    <2>1. /\ pc \in Working \ DOMAIN Listed /\ UNCHANGED queue
          /\ Refused \/ Done \/ (Continue /\ UNCHANGED budget)
      BY <1>2, <1>7 DEF ConsoleUpdate, OCSCSV
    <2>2. /\ pc' \in ToSet(Pipeline) /\ Carries(pass') /\ budget' \in Nat /\ pass'.todo = {}
          /\ pc' = Succ(pc) \/ (pc' = "finish" /\ pass'.err)
      BY <1>1, <1>2, <2>1, RefusedType, ContinueType, DoneType
    <2> QED
      BY <1>1, <2>1, <2>2 DEF ProcessType, Control, Carries
  <1>8. ASSUME NEW step \in DOMAIN Listed, ListMonitored(step) PROVE ProcessType' /\ Control
    <2>1. /\ pc = step /\ step \in Working /\ UNCHANGED <<queue, budget>>
          /\ Carries(pass') /\ pass'.err = pass.err /\ pc' \in ToSet(Pipeline)
          /\ (pass'.todo = {} /\ pc' = Succ(step)) \/ pc' = step
      BY <1>8, ListedType
    <2> QED
      BY <1>1, <1>8, <2>1 DEF ProcessType, Control, Carries
  <1>9. ASSUME NEW step \in DOMAIN Listed, NEW o \in Listed[step], UpdateMonitored(step, o)
        PROVE  ProcessType' /\ Control
    <2>1. /\ pc = step /\ step \in Working /\ UNCHANGED queue
          /\ Carries(pass') /\ pc' \in ToSet(Pipeline) /\ budget' \in Nat
          /\ pass'.todo # {} => pc' = step
          /\ \/ pc' = "finish" /\ pass'.err
             \/ pass'.err = pass.err /\ (pc' = Succ(step) \/ pc' = step)
      BY <1>9, MonitoredType
    <2> QED
      BY <1>1, <1>9, <2>1 DEF ProcessType, Control, Carries
  <1>10. CASE Finish
    <2>1. pc = "finish" /\ pc' = "idle" /\ pass' = NewPass
      BY <1>10 DEF Finish, Goto
    <2>2. budget' \in Nat /\ queue' \in BOOLEAN /\ (queue \/ pass.err => queue')
      <3>1. pass.err \in BOOLEAN
        BY <1>1 DEF Carries
      <3>2. CASE queue' = (queue \/ pass.err) /\ UNCHANGED budget
        BY <1>1, <3>1, <3>2
      <3>3. CASE Spend("fault") /\ queue' = TRUE
        BY <1>1, <3>3 DEF Spend
      <3> QED
        BY <1>10, <3>2, <3>3 DEF Finish
    <2> QED
      BY <2>1, <2>2, Carried DEF ProcessType, Control, Carries
  <1>11. CASE FailStep
    <2>1. /\ pc \in Working /\ UNCHANGED queue /\ pc' = "finish" /\ budget' \in Nat
          /\ pass' = [NewPass EXCEPT !.err = TRUE]
      BY <1>1, <1>11, WorkingSteps DEF FailStep, Goto, Spend
    <2> QED
      BY <1>1, <1>2, <2>1, Carried DEF ProcessType, Control, Carries
  <1> QED
    BY <1>3, <1>4, <1>5, <1>6, <1>7, <1>8, <1>9, <1>10, <1>11 DEF Pass

\* Every step, of the process or of anybody else.
LEMMA ProcessStep ==
  ASSUME TypeInv, [Next]_vars
  PROVE  ProcessType' /\ Control
  <1> USE DEF server, process, vars
  <1>1. /\ pc \in ToSet(Pipeline) \cup {"idle", "down"} /\ queue \in BOOLEAN
        /\ Carries(pass) /\ (pass.todo # {} => pc \in DOMAIN Listed) /\ budget \in Nat
    BY DEF TypeInv, TypeOK, Carries
  <1>2. ASSUME pc' = pc, pass' = pass, queue' = queue \/ queue' = TRUE, budget' \in Nat
        PROVE  ProcessType' /\ Control
    <2>1. queue' \in BOOLEAN /\ (queue => queue')
      <3>1. CASE queue' = queue
        BY <1>1, <3>1, Zenon
      <3>2. CASE queue' = TRUE
        BY <3>2, Zenon
      <3> QED
        BY <1>2, <3>1, <3>2, Zenon
    <2>2. Carries(pass') /\ (pass'.todo # {} => pc' \in DOMAIN Listed) /\ pass'.err = pass.err
      BY <1>1, <1>2
    <2> QED
      BY <1>1, <1>2, <2>1, <2>2 DEF ProcessType, Control
  <1>3. CASE Crash
    <2>1. pc' = "down" /\ pass' = NewPass /\ queue' = FALSE /\ budget' \in Nat
      BY <1>1, <1>3 DEF Crash, Goto, Spend
    <2> QED
      BY <2>1, Carried DEF ProcessType, Control
  <1>4. CASE Start
    <2>1. pc = "down" /\ pc' = "idle" /\ queue' = TRUE /\ pass' = pass /\ budget' = budget
      BY <1>4 DEF Start
    <2>2. Carries(pass') /\ pass'.todo = {} /\ budget' \in Nat
      BY <1>1, <2>1, WorkingSteps
    <2> QED
      BY <2>1, <2>2 DEF ProcessType, Control
  <1>5. ASSUME NEW o \in Object, DeliverObject(o) PROVE ProcessType' /\ Control
    <2>1. pc' = pc /\ pass' = pass /\ budget' = budget /\ (queue' = queue \/ queue' = TRUE)
      BY <1>1, <1>5 DEF DeliverObject, Enqueue
    <2> QED
      BY <1>1, <1>2, <2>1
  <1>6. CASE DeliverSecret \/ DeliverNooBaa \/ DeliverUnwatched \/ Resync
    <2>1. pc' = pc /\ pass' = pass /\ budget' = budget /\ (queue' = queue \/ queue' = TRUE)
      BY <1>1, <1>6 DEF DeliverSecret, DeliverNooBaa, DeliverUnwatched, Resync, Enqueue
    <2> QED
      BY <1>1, <1>2, <2>1
  <1>7. ASSUME NEW o \in Editable, UserEdits(o) PROVE ProcessType' /\ Control
    <2>1. /\ Carries(pass') /\ pass'.todo = pass.todo /\ pass'.err = pass.err
          /\ UNCHANGED <<pc, queue>>
      BY <1>7, Edited DEF TypeInv
    <2>2. budget' \in Nat
      BY <1>1, <1>7 DEF UserEdits, Spend
    <2> QED
      BY <1>1, <2>1, <2>2 DEF ProcessType, Control
  <1>8. CASE \/ UserEditsConsole \/ OLMUpgradesOCS \/ SecretChanges \/ SecretCompleted
             \/ NooBaaReady \/ NooBaaNotReady \/ Unblock \/ \E step \in Needy : Block(step)
    <2>1. pc' = pc /\ pass' = pass /\ queue' = queue
      BY <1>8 DEF UserEditsConsole, OLMUpgradesOCS, SecretChanges, SecretCompleted,
                  NooBaaReady, NooBaaNotReady, Unblock, Block
    <2>2. budget' = budget \/ (budget > 0 /\ budget' = budget - 1)
      BY <1>8 DEF UserEditsConsole, OLMUpgradesOCS, SecretChanges, SecretCompleted,
                        NooBaaReady, NooBaaNotReady, Unblock, Block, Spend
    <2>3. budget' \in Nat
      BY <1>1, <2>2
    <2> QED
      BY <1>2, <2>1, <2>3
  <1>9. CASE UNCHANGED vars
    BY <1>1, <1>2, <1>9
  <1> QED
    BY <1>3, <1>4, <1>5, <1>6, <1>7, <1>8, <1>9, PassControl DEF Next, Delivery, Cluster

\* Only writes change what the server holds, and only users, CreateOrUpdate
\* and the updates of listed items write.
LEMMA ServerKept ==
  ASSUME TypeInv, [Next]_vars, NEW o \in Object
  PROVE  \/ obj'[o] = obj[o]
         \/ DeliverObject(o) /\ obj'[o] = Deliver(obj[o]) /\ Lagging(obj[o])
         \/ Start /\ obj'[o] = Relist(obj[o])
         \/ \E step \in Owned : CreateOrUpdate(step) /\ o = step
         \/ \E step \in DOMAIN Listed : o \in Listed[step] /\ UpdateMonitored(step, o)
         \/ o \in Editable /\ UserEdits(o)
  <1> USE DEF server, process, vars
  <1>1. obj \in [Object -> Log(Version)]
    BY DEF TypeInv, TypeOK
  <1>2. ASSUME NEW p \in Object, DeliverObject(p)
        PROVE  obj'[o] = obj[o] \/ (p = o /\ obj'[o] = Deliver(obj[o]) /\ Lagging(obj[o]))
    BY <1>1, <1>2 DEF DeliverObject
  <1>3. CASE Start
    BY <1>1, <1>3 DEF Start
  <1>4. ASSUME NEW step \in Owned, CreateOrUpdate(step) PROVE obj'[o] = obj[o] \/ o = step
    BY <1>4, StoresType DEF TypeInv
  <1>5. ASSUME NEW step \in DOMAIN Listed, NEW p \in Listed[step], UpdateMonitored(step, p)
        PROVE  obj'[o] = obj[o] \/ o = p
    BY <1>5, MonitoredType
  <1>6. ASSUME NEW p \in Editable, UserEdits(p) PROVE obj'[o] = obj[o] \/ o = p
    BY <1>6, Edited DEF TypeInv
  <1>7. ASSUME NEW step \in DOMAIN Listed, ListMonitored(step) PROVE UNCHANGED obj
    BY <1>7 DEF ListMonitored
  <1> QED
    BY <1>2, <1>3, <1>4, <1>5, <1>6, <1>7
    DEF Next, Pass, Cluster, Delivery, Reconcile, UpdateAddonParams, ConsoleList,
        ConsoleUpdate, OCSCSV, FailStep, Finish, Crash, DeliverSecret, DeliverNooBaa,
        DeliverUnwatched, Resync, UserEditsConsole, OLMUpgradesOCS, SecretChanges,
        SecretCompleted, NooBaaReady, NooBaaNotReady, Unblock, Block

\* The items to update, and the copies the server accepts, are those of the
\* last list, and fewer with every update and edit.
LEMMA FreshShrinks ==
  ASSUME TypeInv, [Next]_vars
  PROVE  \/ pass'.fresh \subseteq pass.fresh /\ pass'.todo \subseteq pass.todo
         \/ \E step \in DOMAIN Listed : ListMonitored(step)
  <1> USE DEF server, process, vars
  <1>1. Carries(pass) /\ TypeOK
    BY DEF TypeInv, TypeOK, Carries
  <1>2. CASE Reconcile \/ FailStep \/ Finish \/ Crash
    <2>1. pass' = NewPass \/ pass' = [NewPass EXCEPT !.err = TRUE]
          \/ \E b \in BOOLEAN : pass' = [NewPass EXCEPT !.ready = b]
      <3>1. Cached(noobaa) \in BOOLEAN
        BY <1>1, LogElements DEF TypeOK
      <3> QED
        BY <1>2, <3>1 DEF Reconcile, FailStep, Finish, Crash, Goto
    <2> QED
      BY <2>1, Carried
  <1>3. CASE UpdateAddonParams \/ ConsoleUpdate \/ OCSCSV
    <2>1. pc \in Working \ DOMAIN Listed
      BY <1>3, WorkingSteps DEF UpdateAddonParams, ConsoleUpdate, OCSCSV, Working
    <2>2. Refused \/ Done \/ Continue
      BY <1>3 DEF UpdateAddonParams, ConsoleUpdate, OCSCSV
    <2> QED
      BY <1>1, <2>1, <2>2, RefusedType, DoneType, ContinueType
  <1>4. ASSUME NEW step \in Owned, CreateOrUpdate(step)
        PROVE  pass'.fresh = {} /\ pass'.todo = {}
    BY <1>1, <1>4, StoresType
  <1>5. ASSUME NEW step \in DOMAIN Listed, NEW o \in Listed[step], UpdateMonitored(step, o)
        PROVE  pass'.fresh \subseteq pass.fresh /\ pass'.todo \subseteq pass.todo
    BY <1>5, MonitoredType
  <1>6. ASSUME NEW o \in Editable, UserEdits(o)
        PROVE  pass'.fresh \subseteq pass.fresh /\ pass'.todo \subseteq pass.todo
    BY <1>1, <1>6, Edited
  <1>7. CASE ConsoleList
    BY <1>7 DEF ConsoleList, Goto
  <1>8. CASE \/ Start \/ Delivery \/ Resync \/ UserEditsConsole \/ OLMUpgradesOCS
             \/ SecretChanges \/ SecretCompleted \/ NooBaaReady \/ NooBaaNotReady
             \/ Unblock \/ \E step \in Needy : Block(step)
    BY <1>8 DEF Start, Delivery, DeliverObject, DeliverSecret, DeliverNooBaa,
                DeliverUnwatched, Resync, UserEditsConsole, OLMUpgradesOCS, SecretChanges,
                SecretCompleted, NooBaaReady, NooBaaNotReady, Unblock, Block
  <1>9. CASE UNCHANGED vars
    BY <1>9
  <1> QED
    BY <1>2, <1>3, <1>4, <1>5, <1>6, <1>7, <1>8, <1>9 DEF Next, Pass, Cluster

LEMMA FreshStep ==
  ASSUME TypeInv, [Next]_vars
  PROVE  FreshLive'
  <1>1. obj \in [Object -> Log(Version)] /\ Carries(pass) /\ TypeOK /\ FreshLive
    BY DEF TypeInv, TypeOK, Carries
  <1>2. ASSUME NEW o \in pass.fresh, o \in pass'.fresh PROVE Current(obj'[o]).spec # "absent"
    <2>1. o \in Object /\ Current(obj[o]).spec # "absent" /\ obj[o] \in Log(Version)
      BY <1>1 DEF FreshLive, Carries
    <2>2. CASE DeliverObject(o) /\ obj'[o] = Deliver(obj[o]) /\ Lagging(obj[o])
      BY <2>1, <2>2, DeliverLog
    <2>3. CASE Start /\ obj'[o] = Relist(obj[o])
      BY <2>1, <2>3, RelistLog
    <2>4. ASSUME NEW step \in Owned, CreateOrUpdate(step) PROVE FALSE
      BY <1>1, <1>2, <2>4, StoresType
    <2>5. ASSUME NEW step \in DOMAIN Listed, o \in Listed[step], UpdateMonitored(step, o)
          PROVE  FALSE
      BY <1>2, <2>5, MonitoredType
    <2>6. ASSUME o \in Editable, UserEdits(o) PROVE FALSE
      BY <1>1, <1>2, <2>6, Edited
    <2> QED
      BY <2>1, <2>2, <2>3, <2>4, <2>5, <2>6, ServerKept
  <1>3. ASSUME NEW step \in DOMAIN Listed, ListMonitored(step), NEW o \in pass'.fresh
        PROVE  Current(obj'[o]).spec # "absent"
    <2>1. o \in Object /\ Cached(obj[o]).spec # "absent" /\ ~Lagging(obj[o]) /\ obj' = obj
      BY <1>3, ListedType DEF server
    <2> QED
      BY <1>1, <2>1, CaughtUp
  <1> QED
    BY <1>2, <1>3, FreshShrinks DEF FreshLive

LEMMA TypeInvStep ==
  ASSUME TypeInv, [Next]_vars
  PROVE  TypeInv'
  <1>1. TypeOK
    BY DEF TypeInv
  <1>2. TypeOK'
    BY <1>1, ObjType, ServerType, ProcessStep
    DEF TypeOK, ProcessType, Carries, Console, Says
  <1> QED
    BY <1>2, FreshStep DEF TypeInv

LEMMA TypeInit == ASSUME Init PROVE TypeInv
  <1>1. obj \in [Object -> Log(Version)]
    <2>1. \A o \in Object :
            (IF o \in Missing THEN Absent
             ELSE [spec |-> "proper", label |-> o \in Rule \cup Foreign /\ o # "originalRule"])
              \in Version
      BY DEF Version, Absent
    <2> QED
      BY <2>1, SyncedLog DEF Init
  <1>2. console \in Log(Console)
    <2>1. [mine |-> 0, others |-> {}] \in Console /\ [mine |-> 1, others |-> {}] \in Console
      BY DEF Console
    <2> QED
      BY <2>1, SyncedLog DEF Init
  <1>3. ocs \in Log(BOOLEAN) /\ noobaa \in Log(BOOLEAN) /\ rhobs \in Log(Says)
    <2>1. FALSE \in BOOLEAN /\ "absent" \in Says
      BY DEF Says
    <2> QED
      BY <2>1, SyncedLog DEF Init
  <1>4. Carries(pass) /\ pass.todo = {} /\ pass.fresh = {}
    BY Carried DEF Init
  <1> QED
    BY ResourceAssumption, <1>1, <1>2, <1>3, <1>4
    DEF Init, TypeInv, TypeOK, FreshLive, Carries, Console, Says

\* TypeOK holds in every reachable state; it takes the knowledge that a copy
\* the server still accepts is the server's own version (FreshLive).
THEOREM TypeCorrect == Spec => []TypeOK
  BY TypeInit, TypeInvStep, PTL DEF Spec, TypeInv

LEMMA TypeInvariant == Spec => []TypeInv
  BY TypeInit, TypeInvStep, PTL DEF Spec

-----------------------------------------------------------------------------
\* The console.

\* Appending the plugin never undoes what somebody else did to the console
\* since the operator read it: the write is refused unless the copy it is
\* built on is the server's.
THEOREM PluginsSafe == Spec => PluginsKept
  <1>1. ASSUME TypeInv, [Next]_vars, pc = "consoleUpdate", pc' # pc
        PROVE  Current(console').others = Current(console).others
    <2>1. console \in Log(Console)
      BY <1>1 DEF TypeInv, TypeOK, Console
    <2>2. CASE ConsoleUpdate /\ ~Lagging(console)
      <3>1. Cached(console) = Current(console) /\ Cached(console) \in Console
        BY <2>1, <2>2, CaughtUp, LogElements
      <3> DEFINE v == [Cached(console) EXCEPT !.mine = Cached(console).mine + 1]
      <3>2. v \in Console /\ v.others = Current(console).others
        BY <3>1 DEF Console
      <3>3. console' = Write(console, v)
        BY <2>2 DEF ConsoleUpdate
      <3>4. Current(Write(console, v)) = v
        BY <2>1, <3>2, WriteLog
      <3> QED
        BY <3>2, <3>3, <3>4
    <2>3. CASE UNCHANGED console
      BY <2>3
    <2>4. Owned \cap {"consoleUpdate"} = {} /\ DOMAIN Listed \cap {"consoleUpdate"} = {}
      BY WorkingSteps DEF Owned
    <2>5. UNCHANGED console \/ (ConsoleUpdate /\ ~Lagging(console))
      BY <1>1, <2>4
      DEF Next, vars, process, server, Pass, FailStep, Crash, Start, Delivery, Resync, Cluster,
          Reconcile, UpdateAddonParams, CreateOrUpdate, ConsoleList, ConsoleUpdate, OCSCSV,
          ListMonitored, UpdateMonitored, Finish, DeliverObject, DeliverSecret,
          DeliverNooBaa, DeliverUnwatched, UserEdits, UserEditsConsole, OLMUpgradesOCS,
          SecretChanges, SecretCompleted, NooBaaReady, NooBaaNotReady, Block, Unblock
    <2> QED
      BY <2>2, <2>3, <2>5
  <1> QED
    BY <1>1, TypeInvariant, PTL DEF Spec, PluginsKept

-----------------------------------------------------------------------------
\* Coming to rest.

\* Another pass is bound to come.
Bound == queue \/ pc = "down" \/ (pc = "finish" /\ pass.err)

\* The steps of a pass up to a step, and that step.
Upto(step) ==
  {Pipeline[i] : i \in {j \in DOMAIN Pipeline :
                          \E k \in DOMAIN Pipeline : j <= k /\ Pipeline[k] = step}}

\* The steps after reconcileConsoleCluster, which has two ways on.
Late == (Owned \cup DOMAIN Listed) \ {"consolePlugin"}

\* A step still lies ahead: of this pass, or of one that is bound to come.
Ahead(step) == Bound \/ pc \in Upto(step)

\* A step that lies ahead does so until a pass goes through it and on to the
\* next one.  A pass that ends early is followed by another.
LEMMA AheadStep ==
  ASSUME TypeInv, [Next]_vars, NEW step \in Late, Ahead(step),
         ~(pc = step /\ pc' = Succ(step))
  PROVE  Ahead(step)'
  <1>1. PICK k \in 6 .. 18 : step = Pipeline[k]
    BY PipelineIs, WorkingSteps DEF Late, Owned
  <1>2. Upto(step) = {Pipeline[i] : i \in 1 .. k}
    BY <1>1, SuccAt DEF Upto
  <1>3. "updateAddonParams" \in Upto(step) /\ "ocsCSV" \in Upto(step)
    BY <1>2, PipelineIs
  <1>4. \A s \in Upto(step) : s # step => Succ(s) \in Upto(step)
    <2>1. ASSUME NEW i \in 1 .. k, Pipeline[i] # step
          PROVE  i \in 1 .. 18 /\ i + 1 \in 1 .. k
      BY <1>1, <2>1
    <2> QED
      BY <1>2, <2>1, SuccAt
  <1>5. \A s \in Upto(step) : s # "idle" /\ s # "finish" /\ s # "down"
    <2>1. \A i \in 1 .. 18 : Pipeline[i] \notin {"idle", "finish", "down"}
      BY PipelineIs
    <2> QED
      BY <1>2, <2>1
  <1>7. pc \in Working => pc \notin {"idle", "finish", "down"}
    BY WorkingSteps DEF Working, Owned
  <1>8. CASE queue
    <2>1. \/ queue' \/ pc' = "updateAddonParams" \/ pc' = "down"
      BY <1>8, ProcessStep DEF Control
    <2> QED
      BY <1>3, <2>1 DEF Ahead, Bound
  <1>9. CASE pc = "down"
    <2>1. pc' = "down" \/ queue'
      BY <1>7, <1>9, ProcessStep DEF Control
    <2> QED
      BY <2>1 DEF Ahead, Bound
  <1>10. CASE pc = "finish" /\ pass.err
    <2>1. (pc' = "finish" /\ pass'.err) \/ queue' \/ pc' = "down"
      BY <1>7, <1>10, ProcessStep DEF Control
    <2> QED
      BY <2>1 DEF Ahead, Bound
  <1>11. CASE pc \in Upto(step)
    <2>1. \/ pc' = pc \/ (pc # step /\ pc' = Succ(pc)) \/ (pc' = "finish" /\ pass'.err)
          \/ pc' = "ocsCSV" \/ pc' = "down"
      BY <1>5, <1>11, ProcessStep DEF Control
    <2> QED
      BY <1>3, <1>4, <1>11, <2>1 DEF Ahead, Bound
  <1> QED
    BY <1>8, <1>9, <1>10, <1>11 DEF Ahead, Bound

\* A write that changes something is news to the cache.
LEMMA WriteLags ==
  ASSUME NEW V, NEW log \in Log(V), NEW v \in V
  PROVE  Write(log, v) = log \/ Lagging(Write(log, v))
  <1>1. log \in Seq(V) /\ Len(log) \in Nat \ {0}
    BY LogElements
  <1>2. CASE v # Current(log)
    <2>1. Write(log, v) = Append(log, v) /\ Len(Append(log, v)) = Len(log) + 1
      BY <1>1, <1>2 DEF Write
    <2> QED
      BY <1>1, <2>1 DEF Lagging
  <1> QED
    BY <1>2 DEF Write

\* Where the cache has caught up: it had before and the object is untouched,
\* or the last event has been delivered, or the process has started, or an
\* item was relabelled.
LEMMA CatchesUp ==
  ASSUME TypeInv, [Next]_vars, NEW o \in Object, ~Lagging(obj'[o])
  PROVE  \/ obj'[o] = obj[o]
         \/ DeliverObject(o) /\ obj'[o] = Deliver(obj[o]) /\ Lagging(obj[o])
         \/ Start /\ obj'[o] = Relist(obj[o])
  <1>1. obj \in [Object -> Log(Version)] /\ TypeOK
    BY DEF TypeInv, TypeOK
  <1>2. ASSUME NEW step \in Owned, CreateOrUpdate(step), o = step PROVE obj'[o] = obj[o]
    <2>1. Cached(obj[o]) \in Version
      BY <1>1, LogElements
    <2>2. [Cached(obj[o]) EXCEPT !.spec = Desired(o, Cached(obj[o]))] \in Version
      BY <1>2, <2>1, Wanted
    <2>3. obj' = obj \/ obj'[o] = Write(obj[o],
                          [Cached(obj[o]) EXCEPT !.spec = Desired(o, Cached(obj[o]))])
      BY <1>1, <1>2, Stores
    <2> QED
      BY <1>1, <2>2, <2>3, WriteLags
  <1>3. ASSUME NEW step \in DOMAIN Listed, o \in Listed[step], UpdateMonitored(step, o)
        PROVE  obj'[o] = obj[o]
    <2>1. CASE UpToDate(o)
      <3>1. Current(obj[o]) \in Version /\ Current(obj[o]).spec # "absent"
        BY <1>1, <2>1, LogElements DEF UpToDate, TypeInv, FreshLive
      <3>2. Relabelled(o, Current(obj[o])) \in Version
        BY <3>1, Labelled
      <3>3. obj'[o] = Write(obj[o], Relabelled(o, Current(obj[o])))
        BY <1>1, <1>3, <2>1 DEF UpdateMonitored
      <3> QED
        BY <1>1, <3>2, <3>3, WriteLags
    <2>2. CASE ~UpToDate(o)
      BY <1>3, <2>2 DEF UpdateMonitored
    <2> QED
      BY <2>1, <2>2
  <1>4. ASSUME o \in Editable, UserEdits(o) PROVE obj'[o] = obj[o]
    BY <1>1, <1>4, Edited, WriteLags
  <1> QED
    BY <1>2, <1>3, <1>4, ServerKept

\* A pass leaves a step of CreateOrUpdate behind only by taking it, unless
\* another pass is bound to come.
LEMMA LeavesOwned ==
  ASSUME TypeInv, [Next]_vars, NEW o \in Owned, pc = o, pc' # o
  PROVE  Bound' \/ CreateOrUpdate(o)
  <1>1. /\ o \in Working \ DOMAIN Listed
        /\ o \notin {"idle", "down", "finish", "updateAddonParams", "consoleList",
                     "consoleUpdate", "ocsCSV"}
    BY WorkingSteps DEF Working, Owned
  <1>2. CASE FailStep
    BY <1>2, Carried DEF FailStep, Goto, Bound
  <1>3. CASE Crash
    BY <1>3 DEF Crash, Goto, Bound
  <1>4. ASSUME NEW step \in Owned, CreateOrUpdate(step) PROVE step = o
    BY <1>4 DEF CreateOrUpdate
  <1>5. ASSUME NEW step \in DOMAIN Listed,
               ListMonitored(step) \/ \E p \in Listed[step] : UpdateMonitored(step, p)
        PROVE  FALSE
    BY <1>1, <1>5 DEF ListMonitored, UpdateMonitored
  <1>6. CASE Reconcile \/ UpdateAddonParams \/ ConsoleList \/ ConsoleUpdate \/ OCSCSV \/ Finish
    BY <1>1, <1>6 DEF Reconcile, UpdateAddonParams, ConsoleList, ConsoleUpdate, OCSCSV, Finish
  <1> QED
    BY <1>1, <1>2, <1>3, <1>4, <1>5, <1>6
    DEF Next, vars, process, server, Pass, Start, Delivery, Resync, Cluster,
        DeliverObject, DeliverSecret, DeliverNooBaa, DeliverUnwatched, UserEdits,
        UserEditsConsole, OLMUpgradesOCS, SecretChanges, SecretCompleted, NooBaaReady,
        NooBaaNotReady, Block, Unblock

\* With a cache that has caught up, CreateOrUpdate makes the object what the
\* operator wants, unless another pass is bound to come.
LEMMA Creates ==
  ASSUME TypeInv, NEW o \in Owned, CreateOrUpdate(o), ~Lagging(obj[o])
  PROVE  Bound' \/ Current(obj'[o]).spec = Desired(o, Cached(obj[o]))
  <1> DEFINE found == Cached(obj[o])
             want  == [found EXCEPT !.spec = Desired(o, found)]
  <1>1. /\ o \in Object /\ obj \in [Object -> Log(Version)] /\ TypeOK
        /\ o \in Working \ DOMAIN Listed /\ pc = o
    BY Stores, WorkingSteps DEF TypeInv, TypeOK
  <1>2. found = Current(obj[o]) /\ found \in Version
    BY <1>1, CaughtUp, LogElements
  <1>3. want \in Version /\ want.spec = Desired(o, found)
    BY <1>2, Wanted
  <1>4. CASE Refused
    BY <1>1, <1>4, RefusedType DEF Bound
  <1>5. CASE obj' = [obj EXCEPT ![o] = Write(obj[o], want)]
    <2>1. obj'[o] = Write(obj[o], want)
      BY <1>1, <1>5
    <2>2. Current(Write(obj[o], want)) = want
      BY <1>1, <1>3, WriteLog
    <2> QED
      BY <1>3, <2>1, <2>2
  <1>6. CASE obj' # [obj EXCEPT ![o] = Write(obj[o], want)] /\ ~Refused
    <2> DEFINE exists == Current(obj[o]).spec # "absent"
               store  == obj' = [obj EXCEPT ![o] = Write(obj[o], want)] /\ Done
    <2>1. UNCHANGED obj /\ Same(o, found, want)
      <3>1. ~store
        BY <1>6
      <3>2. \/ found.spec # "absent" /\ Same(o, found, want) /\ UNCHANGED obj
            \/ store
            \/ found.spec = "absent" /\ exists
            \/ Lagging(obj[o])
        <4> HIDE DEF found, want, exists
        <4>1. ~Refused
          BY <1>6
        <4> QED
          BY <4>1 DEF CreateOrUpdate, found, want, exists
      <3> QED
        BY <1>2, <3>1, <3>2
    <2>2. found = want
      BY <2>1 DEF Same
    <2> QED
      BY <1>2, <1>3, <2>1, <2>2
  <1> QED
    BY <1>4, <1>5, <1>6

WatchedObject == {"kubeRBACConfigMap", "prometheusService", "prometheusProxyNetworkPolicy",
                  "ingressNetworkPolicy"}

\* A watched object that is not as wanted, and of which no event is on its
\* way, still has its step ahead.
Restoring ==
  \A o \in WatchedObject :
    ~Lagging(obj[o]) /\ Current(obj[o]).spec # "proper" => Ahead(o)

LEMMA RestoringStep ==
  ASSUME TypeInv, Restoring, [Next]_vars
  PROVE  Restoring'
  <1> SUFFICES ASSUME NEW o \in WatchedObject, ~Lagging(obj'[o]),
                      Current(obj'[o]).spec # "proper"
               PROVE  Ahead(o)'
    BY DEF Restoring
  <1>1. /\ o \in Owned /\ o \in Late /\ o \in Object /\ o \in WatchedKinds
        /\ o \notin {"consolePlugin", "prometheus"}
    BY WorkingSteps DEF WatchedObject, WatchedKinds, Owned, Late
  <1>2. CASE DeliverObject(o)
    BY <1>1, <1>2 DEF DeliverObject, Enqueue, Ahead, Bound
  <1>3. CASE Start
    BY <1>3 DEF Start, Ahead, Bound
  <1>4. CASE obj'[o] = obj[o]
    <2>1. Ahead(o)
      BY <1>4 DEF Restoring
    <2>2. CASE pc = o /\ pc' = Succ(o)
      <3>1. o # Succ(o)
        BY <1>1, SuccAt, WorkingSteps DEF Working
      <3>2. CASE CreateOrUpdate(o)
        <4>1. Desired(o, Cached(obj[o])) = "proper"
          BY <1>1 DEF Desired
        <4> QED
          BY <1>1, <1>4, <3>2, <4>1, Creates DEF Ahead
      <3> QED
        BY <1>1, <2>2, <3>1, <3>2, LeavesOwned DEF Ahead
    <2> QED
      BY <1>1, <2>1, <2>2, AheadStep
  <1> QED
    BY <1>1, <1>2, <1>3, <1>4, CatchesUp

\* When the operator has come to rest, what it owns and watches is as it wants
\* it, whoever edited or deleted it, wherever passes ended.
THEOREM RestoredSafe == Spec => []WatchedRestored
  <1>1. Init => Restoring
    BY DEF Init, Restoring, Ahead, Bound
  <1>2. TypeInv /\ Restoring /\ [Next]_vars => Restoring'
    BY RestoringStep
  <1>3. Restoring => WatchedRestored
    <2>1. \A o \in Late : "idle" \notin Upto(o)
      BY SuccAt, PipelineIs DEF Upto
    <2>2. \A o \in WatchedObject : o \in Late /\ o \in Object
      BY WorkingSteps DEF WatchedObject, Owned, Late
    <2> QED
      BY <2>1, <2>2 DEF Restoring, WatchedRestored, WatchedObject, Quiet, Ahead, Bound
  <1> QED
    BY <1>1, <1>2, <1>3, TypeInvariant, PTL DEF Spec

\* Prometheus as the remote write secret says; one that was edited or deleted
\* says nothing.
Matches(spec, says) ==
  (spec = "remote" => says = "complete") /\ (spec = "proper" => says = "absent")

\* Where Prometheus contradicts the secret the operator knows, its step lies
\* ahead.
Writing ==
  ~Matches(Current(obj["prometheus"]).spec, Cached(rhobs)) => Ahead("prometheus")

\* The step of Prometheus always stores: server defaults make the object
\* differ from the template every time.  So it ends in agreement or in error.
LEMMA PrometheusStep ==
  ASSUME TypeInv, CreateOrUpdate("prometheus")
  PROVE  Bound' \/ Matches(Current(obj'["prometheus"]).spec, Cached(rhobs))
  <1> DEFINE o == "prometheus"
             found == Cached(obj[o])
             want  == [found EXCEPT !.spec = Desired(o, found)]
  <1>1. /\ o \in Owned /\ o \in Object /\ obj \in [Object -> Log(Version)] /\ TypeOK
        /\ o \in Working \ DOMAIN Listed /\ pc = o /\ Cached(rhobs) \in Says
    BY Stores, WorkingSteps, LogElements DEF TypeInv, TypeOK, Owned, CreateOrUpdate, Says, Working
  <1>2. found \in Version
    BY <1>1, LogElements
  <1>3. want \in Version /\ want.spec = DesiredPrometheus
    BY <1>1, <1>2, Wanted DEF Desired
  <1>4. CASE Refused
    BY <1>1, <1>4, RefusedType DEF Bound
  <1>5. CASE ~Refused
    <2> DEFINE store == obj' = [obj EXCEPT ![o] = Write(obj[o], want)] /\ Done
    <2>1. ~Same(o, found, want)
      BY DEF Same
    <2>2. ~ClosureFails(o) /\ store
      <3> HIDE DEF want, found
      <3> QED
        BY <1>5, <2>1 DEF CreateOrUpdate, want, found
    <2>3. Cached(rhobs) \in {"absent", "complete"}
      BY <1>1, <2>2 DEF ClosureFails, Says
    <2>4. obj'[o] = Write(obj[o], want)
      BY <1>1, <2>2
    <2>5. Current(Write(obj[o], want)) = want
      BY <1>1, <1>3, WriteLog
    <2>6. Current(obj'[o]).spec = DesiredPrometheus
      BY <1>3, <2>4, <2>5
    <2> QED
      BY <2>3, <2>6 DEF Matches, DesiredPrometheus
  <1> QED
    BY <1>4, <1>5

\* What the operator knows of the secret changes with an event or a restart.
LEMMA RhobsKnown ==
  ASSUME TypeInv, [Next]_vars
  PROVE  Bound' \/ Cached(rhobs') = Cached(rhobs)
  <1>1. rhobs \in Log(Says)
    BY DEF TypeInv, TypeOK, Says
  <1>2. CASE DeliverSecret
    BY <1>2 DEF DeliverSecret, Enqueue, Bound
  <1>3. CASE Start
    BY <1>3 DEF Start, Bound
  <1>4. CASE SecretChanges
    <2>1. {"absent", "incomplete", "complete"} = Says
      BY DEF Says
    <2> QED
      BY <1>1, <1>4, <2>1, WriteLog DEF SecretChanges
  <1>5. CASE SecretCompleted
    <2>1. "complete" \in Says
      BY DEF Says
    <2> QED
      BY <1>1, <1>5, <2>1, WriteLog DEF SecretCompleted
  <1>6. ASSUME UNCHANGED rhobs PROVE Cached(rhobs') = Cached(rhobs)
    BY <1>6
  <1> QED
    BY <1>2, <1>3, <1>4, <1>5, <1>6
    DEF Next, vars, process, server, Pass, FailStep, Crash, Delivery, Resync, Cluster,
        Reconcile, UpdateAddonParams, CreateOrUpdate, ConsoleList, ConsoleUpdate, OCSCSV,
        ListMonitored, UpdateMonitored, Finish, DeliverObject, DeliverNooBaa,
        DeliverUnwatched, UserEdits, UserEditsConsole, OLMUpgradesOCS, NooBaaReady,
        NooBaaNotReady, Block, Unblock

LEMMA WritingStep ==
  ASSUME TypeInv, Writing, [Next]_vars
  PROVE  Writing'
  <1> DEFINE o == "prometheus"
  <1>1. /\ o \in Owned /\ o \in Late /\ o \in Object /\ obj \in [Object -> Log(Version)]
        /\ obj[o] \in Log(Version)
    BY WorkingSteps DEF Late, Owned, TypeInv, TypeOK
  <1>2. CASE Bound'
    BY <1>2 DEF Writing, Ahead
  <1>3. CASE CreateOrUpdate(o) /\ ~Bound'
    BY <1>3, PrometheusStep, RhobsKnown DEF Writing
  <1>4. ASSUME Cached(rhobs') = Cached(rhobs), ~CreateOrUpdate(o), ~Bound'
        PROVE  \/ Current(obj'[o]).spec = Current(obj[o]).spec
               \/ Matches(Current(obj'[o]).spec, Cached(rhobs'))
    <2>1. CASE obj'[o] = Deliver(obj[o]) /\ Lagging(obj[o])
      BY <1>1, <2>1, DeliverLog
    <2>2. CASE obj'[o] = Relist(obj[o])
      BY <1>1, <2>2, RelistLog
    <2>3. CASE o \in Editable /\ UserEdits(o)
      <3>1. PICK v \in UserVersion(o) : v \in Version /\ obj'[o] = Write(obj[o], v)
        BY <2>3, Edited DEF TypeInv
      <3>2. v.spec \in {"absent", "drifted", Current(obj[o]).spec}
        BY <1>1, <3>1 DEF UserVersion
      <3>3. Current(obj'[o]) = v
        BY <1>1, <3>1, WriteLog
      <3> QED
        BY <3>2, <3>3 DEF Matches
    <2>4. ASSUME NEW step \in DOMAIN Listed PROVE o \notin Listed[step]
      BY DEF Listed
    <2> QED
      BY <1>1, <1>4, <2>1, <2>2, <2>3, <2>4, ServerKept
  <1>5. CASE Cached(rhobs') = Cached(rhobs) /\ ~CreateOrUpdate(o) /\ ~Bound'
    <2> SUFFICES ASSUME ~Matches(Current(obj'[o]).spec, Cached(rhobs')) PROVE Ahead(o)'
      BY DEF Writing
    <2>1. Ahead(o)
      BY <1>4, <1>5 DEF Writing
    <2>2. CASE pc = o /\ pc' = Succ(o)
      <3>1. o # Succ(o)
        BY <1>1, SuccAt, WorkingSteps DEF Working
      <3> QED
        BY <1>1, <1>5, <2>2, <3>1, LeavesOwned
    <2> QED
      BY <1>1, <2>1, <2>2, AheadStep
  <1> QED
    BY <1>2, <1>3, <1>5, RhobsKnown

\* When the operator has come to rest, Prometheus writes to the remote end
\* exactly if the secret for it is there, unless Prometheus was edited.
THEOREM RemoteWriteSafe == Spec => []RemoteWriteFollows
  <1>1. Init => Writing
    BY DEF Init, Writing, Ahead, Bound
  <1>2. TypeInv /\ Writing /\ [Next]_vars => Writing'
    BY WritingStep
  <1>3. TypeInv /\ Writing => RemoteWriteFollows
    <2>1. "idle" \notin Upto("prometheus")
      BY SuccAt, PipelineIs DEF Upto
    <2>2. TypeInv /\ ~Lagging(rhobs) => Cached(rhobs) = Current(rhobs)
      BY CaughtUp DEF TypeInv, TypeOK
    <2> QED
      BY <2>1, <2>2 DEF Writing, RemoteWriteFollows, Quiet, Ahead, Bound, Matches
  <1> QED
    BY <1>1, <1>2, <1>3, TypeInvariant, PTL DEF Spec

\* A rule that its Prometheus does not select, and of which no event is on its
\* way, is still ahead of the labelling step: the step itself, or its turn in
\* the list.
Unselected(o) ==
  ~Lagging(obj[o]) /\ Current(obj[o]).spec # "absent" /\ ~Selects(Current(obj[o]))

Labelling ==
  \A o \in Rule \ {"originalRule"} :
    Unselected(o) => /\ Ahead("promRules")
                     /\ pc = "promRules" => Bound \/ pass.todo = {} \/ o \in pass.todo

\* What may happen while a pass is at a step that lists.
LEMMA AtList ==
  ASSUME TypeInv, [Next]_vars, pc \in DOMAIN Listed
  PROVE  \/ pc' \in {"finish", "down"} /\ Bound' /\ pass'.todo = {}
         \/ pc' = pc /\ pass'.todo = pass.todo /\ (Bound => Bound')
         \/ ListMonitored(pc)
         \/ \E p \in Listed[pc] : UpdateMonitored(pc, p)
  <1>1. /\ pc \notin Owned /\ queue \in BOOLEAN
        /\ pc \notin {"idle", "down", "finish", "updateAddonParams", "consoleList",
                      "consoleUpdate", "ocsCSV"}
    BY WorkingSteps DEF TypeInv, TypeOK
  <1>2. CASE FailStep
    BY <1>2, Carried DEF FailStep, Goto, Bound
  <1>3. CASE Crash
    BY <1>3, Carried DEF Crash, Goto, Bound
  <1>4. ASSUME NEW step \in Owned, CreateOrUpdate(step) PROVE FALSE
    BY <1>1, <1>4 DEF CreateOrUpdate
  <1>5. ASSUME NEW step \in DOMAIN Listed,
               ListMonitored(step) \/ \E p \in Listed[step] : UpdateMonitored(step, p)
        PROVE  step = pc
    BY <1>5 DEF ListMonitored, UpdateMonitored
  <1>6. ASSUME Reconcile \/ UpdateAddonParams \/ ConsoleList \/ ConsoleUpdate \/ OCSCSV
               \/ Finish \/ Start
        PROVE  FALSE
    BY <1>1, <1>6
    DEF Reconcile, UpdateAddonParams, ConsoleList, ConsoleUpdate, OCSCSV, Finish, Start
  <1>7. ASSUME pc' = pc, pass'.todo = pass.todo, queue' = queue \/ queue' = TRUE
        PROVE  pc' = pc /\ pass'.todo = pass.todo /\ (Bound => Bound')
    <2>1. Bound => queue
      BY <1>1 DEF Bound
    <2>2. queue => queue'
      <3>1. CASE queue' = queue
        BY <3>1, Zenon
      <3>2. CASE queue' = TRUE
        BY <3>2, Zenon
      <3> QED
        BY <1>7, <3>1, <3>2, Zenon
    <2> QED
      BY <1>7, <2>1, <2>2 DEF Bound
  <1>8. ASSUME NEW o \in Editable, UserEdits(o)
        PROVE  pc' = pc /\ pass'.todo = pass.todo /\ queue' = queue
    BY <1>8, Edited DEF TypeInv
  <1>9. CASE Delivery
    <2>1. pc' = pc /\ pass' = pass /\ (queue' = queue \/ queue' = TRUE)
      BY <1>1, <1>9 DEF Delivery, DeliverObject, DeliverSecret, DeliverNooBaa,
                        DeliverUnwatched, Enqueue, process
    <2> QED
      BY <1>7, <2>1
  <1>10. CASE \/ Resync \/ UserEditsConsole \/ OLMUpgradesOCS \/ SecretChanges
              \/ SecretCompleted \/ NooBaaReady \/ NooBaaNotReady \/ Unblock
              \/ (\E step \in Needy : Block(step)) \/ UNCHANGED vars
    <2>1. pc' = pc /\ pass' = pass /\ (queue' = queue \/ queue' = TRUE)
      BY <1>10 DEF Resync, UserEditsConsole, OLMUpgradesOCS, SecretChanges,
                   SecretCompleted, NooBaaReady, NooBaaNotReady, Unblock, Block,
                   vars, process
    <2> QED
      BY <1>7, <2>1
  <1> QED
    BY <1>2, <1>3, <1>4, <1>5, <1>6, <1>7, <1>8, <1>9, <1>10 DEF Next, Pass, Cluster

\* A pass that moves on has no items left.
LEMMA TodoGone ==
  ASSUME TypeInv, [Next]_vars, pc' # pc
  PROVE  pass'.todo = {}
  <1>1. ASSUME NEW step \in DOMAIN Listed, ListMonitored(step) PROVE pass'.todo = {}
    BY <1>1, ListedType
  <1>2. ASSUME NEW step \in DOMAIN Listed, NEW o \in Listed[step], UpdateMonitored(step, o)
        PROVE  pass'.todo = {}
    BY <1>2, MonitoredType
  <1>3. CASE pass.todo = {}
    BY <1>1, <1>3, FreshShrinks
  <1>4. CASE pass.todo # {}
    <2>1. pc \in DOMAIN Listed
      BY <1>4 DEF TypeInv, TypeOK
    <2> QED
      BY <1>1, <1>2, <2>1, AtList
  <1> QED
    BY <1>3, <1>4

LEMMA LabellingStep ==
  ASSUME TypeInv, Labelling, [Next]_vars
  PROVE  Labelling'
  <1> SUFFICES ASSUME NEW o \in Rule \ {"originalRule"}, Unselected(o)', ~Bound'
               PROVE  /\ Ahead("promRules")'
                      /\ pc' = "promRules" => pass'.todo = {} \/ o \in pass'.todo
    BY DEF Labelling, Ahead
  <1>1. /\ o \in Object /\ obj \in [Object -> Log(Version)] /\ obj[o] \in Log(Version)
        /\ "promRules" \in Late /\ "promRules" \in DOMAIN Listed /\ o \in Listed["promRules"]
        /\ Carries(pass) /\ (pass.todo # {} => pc \in DOMAIN Listed)
    BY WorkingSteps DEF Rule, Late, TypeInv, TypeOK, Carries
  <1>2. CASE DeliverObject(o) /\ obj'[o] = Deliver(obj[o]) /\ Lagging(obj[o])
    <2>1. Current(obj'[o]) = obj[o][2]
      <3>1. obj'[o] \in Log(Version) /\ ~Lagging(obj'[o]) /\ obj'[o][1] = obj[o][2]
        <4>1. Deliver(obj[o]) \in Log(Version) /\ Deliver(obj[o])[1] = obj[o][1 + 1]
          BY <1>1, <1>2, DeliverLog, LogElements
        <4> QED
          BY <1>2, <4>1 DEF Unselected
      <3> QED
        BY <3>1, CaughtUp DEF Cached
    <2> QED
      BY <1>2, <2>1 DEF DeliverObject, Enqueue, RuleTriggers, Unselected, Selects, Bound
  <1>3. CASE Start
    BY <1>3 DEF Start, Bound
  <1>4. CASE obj'[o] = obj[o]
    <2>1. Unselected(o)
      BY <1>4 DEF Unselected
    <2>2. /\ Ahead("promRules")
          /\ pc = "promRules" => Bound \/ pass.todo = {} \/ o \in pass.todo
      BY <2>1 DEF Labelling
    <2>3. ASSUME NEW step \in DOMAIN Listed, UpdateMonitored(step, o) PROVE FALSE
      <3>1. Current(obj[o]) \in Version /\ Current(obj[o]).spec # "absent"
        BY <1>1, <2>1, LogElements DEF Unselected
      <3>2. Relabelled(o, Current(obj[o])) \in Version /\ Relabelled(o, Current(obj[o])).label
        BY <1>1, <3>1, Labelled
      <3>3. CASE UpToDate(o)
        <4>1. obj'[o] = Write(obj[o], Relabelled(o, Current(obj[o])))
          BY <1>1, <2>3, <3>3 DEF UpdateMonitored
        <4>2. Current(obj'[o]) = Relabelled(o, Current(obj[o]))
          BY <1>1, <3>2, <4>1, WriteLog
        <4> QED
          BY <3>2, <4>2 DEF Unselected, Selects
      <3>4. CASE ~UpToDate(o)
        BY <2>3, <3>4, Carried DEF UpdateMonitored, Goto, Bound
      <3> QED
        BY <3>3, <3>4
    <2>4. CASE pc = "promRules"
      <3>0. Succ(pc) # pc
        BY <1>1, <2>4, SuccAt, WorkingSteps DEF Working
      <3>1. CASE pc' = pc /\ pass'.todo = pass.todo /\ ~Bound
        BY <1>1, <2>2, <2>4, <3>0, <3>1, AheadStep
      <3>2. CASE ListMonitored("promRules")
        <4>1. o \in {p \in Listed["promRules"] : Cached(obj[p]).spec # "absent"}
          BY <1>1, <2>1, CaughtUp DEF Unselected
        <4>2. o \in pass'.todo /\ pc' = "promRules"
          BY <1>1, <3>2, <4>1, ListedType
        <4> QED
          BY <1>1, <2>2, <2>4, <3>0, <4>2, AheadStep
      <3>3. ASSUME NEW p \in Listed["promRules"], UpdateMonitored("promRules", p)
            PROVE  o \in pass'.todo /\ pc' = "promRules"
        <4>1. p # o
          BY <1>1, <2>3, <3>3
        <4>2. UNCHANGED queue /\ p \in pass.todo /\ ~(pc' = "finish" /\ pass'.err)
          BY <1>1, <3>3, MonitoredType DEF Bound
        <4>3. o \in pass.todo
          BY <2>2, <2>4, <4>2 DEF Bound
        <4> QED
          BY <1>1, <2>4, <3>3, <4>1, <4>2, <4>3, MonitoredType
      <3>4. ASSUME o \in pass'.todo, pc' = "promRules" PROVE Ahead("promRules")'
        BY <1>1, <2>2, <2>4, <3>0, <3>4, AheadStep
      <3> QED
        BY <1>1, <2>4, <3>1, <3>2, <3>3, <3>4, AtList
    <2>5. CASE pc # "promRules"
      <3>1. Ahead("promRules")'
        BY <1>1, <2>2, <2>5, AheadStep
      <3>2. pc' = "promRules" => pass'.todo = {}
        BY <2>5, TodoGone
      <3> QED
        BY <3>1, <3>2
    <2> QED
      BY <2>4, <2>5
  <1> QED
    BY <1>1, <1>2, <1>3, <1>4, CatchesUp DEF Unselected

\* When the operator has come to rest, its Prometheus selects every rule of
\* the namespace but the original one, those included that a pass creates
\* after it has labelled rules.
THEOREM RulesSafe == Spec => []RulesSelected
  <1>1. Init => Labelling
    BY DEF Init, Labelling, Ahead, Bound
  <1>2. TypeInv /\ Labelling /\ [Next]_vars => Labelling'
    BY LabellingStep
  <1>3. Labelling => RulesSelected
    <2>1. "idle" \notin Upto("promRules")
      BY SuccAt, PipelineIs DEF Upto
    <2>2. Rule \subseteq Object
      BY WorkingSteps DEF Rule
    <2> QED
      BY <2>1, <2>2 DEF Labelling, Unselected, RulesSelected, Quiet, Ahead, Bound
  <1> QED
    BY <1>1, <1>2, <1>3, TypeInvariant, PTL DEF Spec
=============================================================================
