------------------------ MODULE AlertReceivers_proofs ------------------------
(***************************************************************************)
(* Proofs about where alerts go (module AlertReceivers): what the loop     *)
(* over the addresses finds, and that at rest the AlertmanagerConfig says  *)
(* what the secrets say, though a pass reads them at different moments.    *)
(***************************************************************************)
EXTENDS AlertReceivers, Informer_proofs, WellFoundedInduction

-----------------------------------------------------------------------------
\* The addresses.

\* A set of numbers that is not empty has a least one.
LEMMA LeastNumber ==
  ASSUME NEW T, T \subseteq Nat, T # {}
  PROVE  \E x \in T : \A y \in T : x <= y
  <1> DEFINE R == OpToRel(<, Nat)
  <1>1. IsWellFoundedOn(R, Nat)
    BY NatLessThanWellFounded
  <1>2. \A x, y \in Nat : x < y => <<x, y>> \in R
    BY DEF OpToRel
  <1> HIDE DEF R
  <1>3. PICK x \in T : \A y \in T : ~ (<<y, x>> \in R)
    BY <1>1, WFMin
  <1>4. ASSUME NEW y \in T PROVE x <= y
    <2>1. x \in Nat /\ y \in Nat
      OBVIOUS
    <2>2. ~ (y < x)
      BY <1>2, <1>3, <2>1, Zenon
    <2> QED
      BY <2>1, <2>2
  <1> QED
    BY <1>4, Zenon

\* The addresses from the i-th on, up to the first gap.
Unbroken(numbers) ==
  [i \in 0 .. MaxAddresses |-> {n \in i .. MaxAddresses : i .. n \subseteq numbers}]

\* What the loop does at i, if it goes on as f says.
Loop(numbers, f) ==
  [i \in 0 .. MaxAddresses |-> IF i \in numbers THEN {i} \cup f[i + 1] ELSE {}]

\* The addresses up to the first gap are what such a loop finds...
LEMMA UnbrokenLoops ==
  ASSUME NEW numbers \in SUBSET Number
  PROVE  Unbroken(numbers) = Loop(numbers, Unbroken(numbers))
  <1> DEFINE U == Unbroken(numbers)
  <1>1. MaxAddresses \in Nat
    BY ReceiverAssumption
  <1>2. ASSUME NEW i \in 0 .. MaxAddresses
        PROVE  U[i] = IF i \in numbers THEN {i} \cup U[i + 1] ELSE {}
    <2>1. U[i] = {n \in i .. MaxAddresses : i .. n \subseteq numbers}
      BY DEF Unbroken
    <2>2. CASE i \in numbers
      <3>1. i \in Nat /\ i + 1 \in 0 .. MaxAddresses
        BY <1>1, <2>2 DEF Number
      <3>2. U[i + 1] = {n \in (i + 1) .. MaxAddresses : (i + 1) .. n \subseteq numbers}
        BY <3>1 DEF Unbroken
      <3>3. \A n \in (i + 1) .. MaxAddresses :
              i .. n \subseteq numbers <=> (i + 1) .. n \subseteq numbers
        <4>1. \A n \in (i + 1) .. MaxAddresses : i .. n = {i} \cup (i + 1) .. n
          BY <1>1, <3>1
        <4> QED
          BY <2>2, <4>1
      <3>4. i .. i = {i} /\ i \in i .. MaxAddresses
            /\ i .. MaxAddresses = {i} \cup (i + 1) .. MaxAddresses
        BY <1>1, <3>1
      <3> QED
        BY <2>1, <2>2, <3>2, <3>3, <3>4
    <2>3. CASE i \notin numbers
      <3>1. \A n \in i .. MaxAddresses : i \in i .. n
        BY <1>1
      <3> QED
        BY <2>1, <2>3, <3>1
    <2> QED
      BY <2>2, <2>3
  <1>3. DOMAIN U = 0 .. MaxAddresses /\ U = [i \in 0 .. MaxAddresses |-> U[i]]
    BY DEF Unbroken
  <1> HIDE DEF U
  <1>4. U = [i \in 0 .. MaxAddresses |-> IF i \in numbers THEN {i} \cup U[i + 1] ELSE {}]
    BY <1>2, <1>3
  <1> QED
    BY <1>4 DEF Loop, U

\* ...and nothing else is.
LEMMA LoopUnique ==
  ASSUME NEW numbers \in SUBSET Number, NEW f, NEW g,
         f = Loop(numbers, f), g = Loop(numbers, g)
  PROVE  f[0] = g[0]
  <1> DEFINE differ == {k \in 0 .. MaxAddresses : f[MaxAddresses - k] # g[MaxAddresses - k]}
  <1>1. MaxAddresses \in Nat
    BY ReceiverAssumption
  <1>2. \A i \in 0 .. MaxAddresses :
          /\ f[i] = IF i \in numbers THEN {i} \cup f[i + 1] ELSE {}
          /\ g[i] = IF i \in numbers THEN {i} \cup g[i + 1] ELSE {}
    BY Zenon DEF Loop
  <1>3. ASSUME NEW k \in differ, \A j \in differ : k <= j
        PROVE  FALSE
    <2>1. k \in 0 .. MaxAddresses /\ MaxAddresses - k \in 0 .. MaxAddresses
      BY <1>1
    <2>2. MaxAddresses - k \in numbers
      BY <1>2, <2>1
    <2>3. k # 0
      BY <1>1, <2>2 DEF Number
    <2>4. k - 1 \in 0 .. MaxAddresses /\ ~(k <= k - 1)
          /\ MaxAddresses - (k - 1) = (MaxAddresses - k) + 1
      BY <1>1, <2>1, <2>3
    <2>5. f[(MaxAddresses - k) + 1] = g[(MaxAddresses - k) + 1]
      BY <1>3, <2>4
    <2> QED
      BY <1>2, <2>1, <2>5
  <1>4. differ = {}
    <2>1. differ \subseteq Nat
      BY <1>1
    <2> HIDE DEF differ
    <2> QED
      BY <1>3, <2>1, LeastNumber
  <1>5. MaxAddresses \in 0 .. MaxAddresses /\ MaxAddresses - MaxAddresses = 0
    BY <1>1
  <1> QED
    BY <1>4, <1>5

\* The loop over the addresses finds those before the first gap.
LEMMA AddressesFound ==
  ASSUME NEW numbers \in SUBSET Number
  PROVE  /\ AlertingAddresses(numbers) \subseteq Number
         /\ \A n \in Number : n \in AlertingAddresses(numbers) <=> 0 .. n \subseteq numbers
  <1>1. MaxAddresses \in Nat
    BY ReceiverAssumption
  <1> DEFINE from == CHOOSE f : f = Loop(numbers, f)
  <1>2. from = Loop(numbers, from)
    BY UnbrokenLoops
  <1>3. AlertingAddresses(numbers) = from[0]
    BY DEF AlertingAddresses, Loop
  <1> HIDE DEF from
  <1>4. from[0] = Unbroken(numbers)[0]
    BY <1>2, UnbrokenLoops, LoopUnique
  <1>5. Unbroken(numbers)[0] = {n \in 0 .. MaxAddresses : 0 .. n \subseteq numbers}
    BY <1>1 DEF Unbroken
  <1>6. \A n \in 0 .. MaxAddresses : n \in 0 .. n
    BY <1>1
  <1> QED
    BY <1>1, <1>3, <1>4, <1>5, <1>6 DEF Number
-----------------------------------------------------------------------------
\* Types.

\* What a pass may carry.
Passes == [addresses : SUBSET Number, found : Config, fresh : BOOLEAN,
           snitch : Version \cup {"none"}, account : Version \cup {"none"},
           err : BOOLEAN]

\* What a pass carries; what it has read from the secrets is usable.
Carried ==
  /\ pass \in Passes
  /\ pc \in {"smtp", "store"} => pass.snitch \in Version
  /\ pc = "store" => pass.account \in Version

\* Every version of the AlertmanagerConfig has an account exactly if it
\* notifies somebody.
Balanced == {v \in Config : v.account = "none" <=> v.to = {}}

\* What a usable secret says.
LEMMA UsableSays ==
  /\ \A says \in Says["deadMansSnitch"] : Usable(says) => says \in Version
  /\ \A says \in Says["smtp"] : Usable(says) => says \in Version
  /\ \A says \in Says["pagerduty"] : Usable(says) => says = "held"
  BY DEF Says, Usable

\* A pass that begins, and one that fails.
LEMMA Begins ==
  /\ NewPass \in Passes
  /\ Absent \in Config /\ NoParams \in Params /\ Absent \in Balanced
  BY DEF NewPass, Passes, Config, Absent, NoParams, Params, Balanced

\* What a user leaves behind is balanced.
LEMMA EditedBalanced ==
  ASSUME NEW v \in Balanced, v.exists
  PROVE  Absent \in Balanced /\ [v EXCEPT !.account = "none", !.to = {}] \in Balanced
  <1>1. Absent \in Balanced
    BY Begins
  <1>2. v \in [exists : BOOLEAN, snitch : Version \cup {"none"},
                account : Version \cup {"none"}, to : SUBSET Number]
    BY DEF Balanced, Config
  <1> DEFINE w == [v EXCEPT !.account = "none", !.to = {}]
  <1>3. w \in [exists : BOOLEAN, snitch : Version \cup {"none"},
                account : Version \cup {"none"}, to : SUBSET Number]
        /\ w.exists = v.exists /\ w.snitch = v.snitch /\ w.account = "none" /\ w.to = {}
    BY <1>2
  <1> QED
    BY <1>1, <1>2, <1>3 DEF Balanced, Config

\* The steps of a pass.
Step == {"down", "idle", "updateAddonParams", "get", "pagerduty", "deadMansSnitch",
         "smtp", "store", "finish"}

TypeInv ==
  /\ params \in Log(Params) /\ config \in Log(Balanced) /\ edited \in BOOLEAN
  /\ DOMAIN secret = Secret /\ \A s \in Secret : secret[s] \in Log(Says[s])
  /\ pc \in Step /\ queue \in BOOLEAN /\ budget \in Nat
  /\ Carried

\* What a pass stores is balanced.
LEMMA Filled ==
  ASSUME TypeInv, pc = "store"
  PROVE  ConfigReceiver \in Balanced
  <1>1. pass.snitch \in Version /\ pass.account \in Version /\ pass.addresses \in SUBSET Number
    BY DEF TypeInv, Carried, Passes
  <1>2. AlertingAddresses(pass.addresses) \subseteq Number
    BY <1>1, AddressesFound
  <1> QED
    BY <1>1, <1>2, ReceiverAssumption DEF ConfigReceiver, MailAccount, Config, Balanced

\* Every action keeps the logs of what is in the cluster.
LEMMA WorldType ==
  ASSUME TypeInv, [Next]_vars
  PROVE  /\ params' \in Log(Params) /\ config' \in Log(Balanced)
         /\ DOMAIN secret' = Secret /\ \A s \in Secret : secret'[s] \in Log(Says[s])
         /\ edited' \in BOOLEAN
  <1>1. /\ params \in Log(Params) /\ config \in Log(Balanced) /\ edited \in BOOLEAN
        /\ DOMAIN secret = Secret /\ \A s \in Secret : secret[s] \in Log(Says[s])
    BY DEF TypeInv
  <1>2. CASE UNCHANGED world
    BY <1>1, <1>2 DEF world
  <1>3. CASE StoreConfig
    <2>1. pc = "store" /\ UNCHANGED <<params, secret>>
      BY <1>3 DEF StoreConfig
    <2>2. \/ config' = config /\ edited' = edited
          \/ config' = Write(config, ConfigReceiver) /\ edited' = FALSE
      BY <1>3 DEF StoreConfig
    <2>3. Write(config, ConfigReceiver) \in Log(Balanced)
      BY <1>1, <2>1, Filled, WriteLog
    <2> QED
      BY <1>1, <2>1, <2>2, <2>3
  <1>4. CASE Start
    <2>1. Relist(params) \in Log(Params) /\ Relist(config) \in Log(Balanced)
          /\ \A s \in Secret : Relist(secret[s]) \in Log(Says[s])
      BY <1>1, RelistLog
    <2> QED
      BY <1>1, <1>4, <2>1 DEF Start
  <1>5. CASE DeliverParams
    BY <1>1, <1>5, DeliverLog DEF DeliverParams
  <1>6. CASE DeliverConfig
    BY <1>1, <1>6, DeliverLog DEF DeliverConfig, process
  <1>7. ASSUME NEW s \in Secret, DeliverSecret(s) \/ SecretChanges(s) \/ SecretProvided(s)
        PROVE  /\ DOMAIN secret' = Secret /\ \A t \in Secret : secret'[t] \in Log(Says[t])
               /\ UNCHANGED <<params, config, edited>>
    <2>1. PICK log : /\ secret' = [secret EXCEPT ![s] = log]
                     /\ \/ log = Deliver(secret[s]) /\ Lagging(secret[s])
                        \/ (\E says \in Says[s] : log = Write(secret[s], says))
      <3>1. CASE DeliverSecret(s)
        BY <3>1 DEF DeliverSecret
      <3>2. CASE SecretChanges(s) \/ SecretProvided(s)
        <4>1. PICK says \in Says[s] : secret' = [secret EXCEPT ![s] = Write(secret[s], says)]
          BY <3>2 DEF SecretChanges, SecretProvided
        <4> QED
          BY <4>1
      <3> QED
        BY <1>7, <3>1, <3>2
    <2>2. log \in Log(Says[s])
      BY <1>1, <2>1, DeliverLog, WriteLog
    <2>3. UNCHANGED <<params, config, edited>>
      BY <1>7 DEF DeliverSecret, SecretChanges, SecretProvided
    <2> QED
      BY <1>1, <2>1, <2>2, <2>3
  <1>8. CASE ParamsChange \/ ParamsProvided
    <2>1. PICK v \in Params : params' = Write(params, v)
      BY <1>8 DEF ParamsChange, ParamsProvided
    <2> QED
      BY <1>1, <1>8, <2>1, WriteLog DEF ParamsChange, ParamsProvided
  <1>9. CASE UserEdits
    <2>1. Current(config) \in Balanced /\ Current(config).exists
      BY <1>1, <1>9, LogElements DEF UserEdits
    <2>2. PICK v \in Balanced : config' = Write(config, v)
      BY <1>9, <2>1, EditedBalanced DEF UserEdits
    <2> QED
      BY <1>1, <1>9, <2>2, WriteLog DEF UserEdits
  <1> QED
    BY <1>1, <1>2, <1>3, <1>4, <1>5, <1>6, <1>7, <1>8, <1>9
    DEF Next, Pass, Reconcile, UpdateAddonParams, GetConfig, CheckPagerduty,
        CheckDeadMansSnitch, GetSMTP, Read, FailStep, Finish, Crash, Resync, vars
\* A pass that fails carries what it carried.
LEMMA Fails ==
  ASSUME NEW p \in Passes
  PROVE  [p EXCEPT !.err = TRUE] \in Passes /\ [p EXCEPT !.err = TRUE].err
  BY DEF Passes

\* Every action keeps the types of the operator's process.
LEMMA ProcessType ==
  ASSUME TypeInv, [Next]_vars
  PROVE  pc' \in Step /\ queue' \in BOOLEAN /\ budget' \in Nat /\ Carried'
  <1>1. /\ pc \in Step /\ queue \in BOOLEAN /\ budget \in Nat /\ pass \in Passes
        /\ pc \in {"smtp", "store"} => pass.snitch \in Version
        /\ pc = "store" => pass.account \in Version
        /\ DOMAIN secret = Secret /\ \A s \in Secret : secret[s] \in Log(Says[s])
        /\ params \in Log(Params) /\ config \in Log(Balanced)
    BY DEF TypeInv, Carried
  <1> SUFFICES /\ pc' \in Step /\ queue' \in BOOLEAN /\ budget' \in Nat
               /\ pass' \in Passes
               /\ pc' \in {"smtp", "store"} => pass'.snitch \in Version
               /\ pc' = "store" => pass'.account \in Version
    BY DEF Carried
  <1>2. \A s \in Secret : Cached(secret[s]) \in Says[s]
    BY <1>1, LogElements
  <1>3. Cached(params) \in Params /\ Cached(config) \in Config
    BY <1>1, LogElements DEF Balanced
  <1>4. NewPass \in Passes
    BY Begins
  <1>5. \A h : Spend(h) => budget' \in Nat
    BY <1>1 DEF Spend
  <1>6. CASE Refused /\ UNCHANGED queue
    BY <1>1, <1>6, Fails DEF Refused, Goto, Step
  <1>7. CASE UNCHANGED <<pc, pass, budget>> /\ queue' \in BOOLEAN
    BY <1>1, <1>7
  <1>8. CASE Reconcile
    BY <1>1, <1>4, <1>8 DEF Reconcile, Goto, Step
  <1>9. CASE UpdateAddonParams
    <2>1. Cached(params).numbers \in SUBSET Number
      BY <1>3 DEF Params
    <2>2. [pass EXCEPT !.addresses = Cached(params).numbers] \in Passes
      BY <1>1, <2>1 DEF Passes
    <2> QED
      BY <1>1, <1>6, <1>9, <2>2 DEF UpdateAddonParams, Goto, Step
  <1>10. CASE GetConfig
    <2>1. (~Lagging(config)) \in BOOLEAN
      BY DEF Lagging
    <2>2. [pass EXCEPT !.found = Cached(config), !.fresh = ~Lagging(config)] \in Passes
      BY <1>1, <1>3, <2>1 DEF Passes
    <2> QED
      BY <1>1, <1>10, <2>2 DEF GetConfig, Goto, Step
  <1>11. CASE CheckPagerduty
    BY <1>1, <1>6, <1>11 DEF CheckPagerduty, Read, Goto, Step
  <1>12. CASE CheckDeadMansSnitch
    <2> DEFINE says == Cached(secret["deadMansSnitch"])
    <2>1. says \in Says["deadMansSnitch"]
      BY <1>2 DEF Secret
    <2>2. CASE Usable(says)
      <3>1. says \in Version
        BY <2>1, <2>2, UsableSays
      <3> HIDE DEF says
      <3>2. LET p == [pass EXCEPT !.snitch = says] IN p \in Passes /\ p.snitch = says
        BY <1>1, <3>1 DEF Passes
      <3>3. pc' = "smtp" /\ pass' = [pass EXCEPT !.snitch = says] /\ UNCHANGED <<queue, budget>>
        BY <1>12, <2>2 DEF CheckDeadMansSnitch, Read, Goto, says
      <3> QED
        BY <1>1, <3>1, <3>2, <3>3 DEF Step
    <2>3. CASE ~Usable(says)
      BY <1>6, <1>12, <2>3 DEF CheckDeadMansSnitch, Read
    <2> QED
      BY <2>2, <2>3
  <1>13. CASE GetSMTP
    <2> DEFINE says == Cached(secret["smtp"])
    <2>1. says \in Says["smtp"] /\ pc = "smtp"
      BY <1>2, <1>13 DEF Secret, GetSMTP, Read
    <2>2. CASE Usable(says)
      <3>1. says \in Version
        BY <2>1, <2>2, UsableSays
      <3> HIDE DEF says
      <3>2. LET p == [pass EXCEPT !.account = says] IN
            p \in Passes /\ p.account = says /\ p.snitch = pass.snitch
        BY <1>1, <3>1 DEF Passes
      <3>3. pc' = "store" /\ pass' = [pass EXCEPT !.account = says] /\ UNCHANGED <<queue, budget>>
        BY <1>13, <2>2 DEF GetSMTP, Read, Goto, says
      <3> QED
        BY <1>1, <2>1, <3>1, <3>2, <3>3 DEF Step
    <2>3. CASE ~Usable(says)
      BY <1>6, <1>13, <2>3 DEF GetSMTP, Read
    <2> QED
      BY <2>2, <2>3
  <1>14. CASE StoreConfig
    <2>1. pc' = "finish" /\ pass' \in Passes /\ budget' \in Nat /\ UNCHANGED queue
      BY <1>1, <1>5, <1>14, Fails DEF StoreConfig, Goto, Refused
    <2> QED
      BY <1>1, <2>1 DEF Step
  <1>15. CASE FailStep
    BY <1>1, <1>5, <1>15, Fails DEF FailStep, Goto, Step
  <1>16. CASE Finish
    <2>1. pass.err \in BOOLEAN
      BY <1>1 DEF Passes
    <2> QED
      BY <1>1, <1>4, <1>16, <2>1 DEF Finish, Goto, Step
  <1>17. CASE Crash
    BY <1>4, <1>5, <1>17 DEF Crash, Goto, Step
  <1>18. CASE Start
    BY <1>1, <1>18 DEF Start, Step
  <1>19. CASE DeliverParams \/ DeliverConfig \/ Resync
    BY <1>1, <1>7, <1>19 DEF DeliverParams, DeliverConfig, Resync, process
  <1>20. ASSUME NEW s \in Secret, DeliverSecret(s) \/ SecretProvided(s)
         PROVE  UNCHANGED <<pc, pass, budget>> /\ queue' \in BOOLEAN
    BY <1>1, <1>20 DEF DeliverSecret, SecretProvided, process
  <1>21. ASSUME ParamsChange \/ \E s \in Secret : SecretChanges(s)
         PROVE  UNCHANGED <<pc, pass, queue>> /\ budget' \in Nat
    BY <1>1, <1>5, <1>21 DEF ParamsChange, SecretChanges, process
  <1>22. CASE ParamsProvided \/ UNCHANGED vars
    BY <1>1, <1>7, <1>22 DEF ParamsProvided, vars, process
  <1>23. CASE UserEdits
    <2>1. LET p == [pass EXCEPT !.fresh = FALSE] IN
          p \in Passes /\ p.snitch = pass.snitch /\ p.account = pass.account
      BY <1>1 DEF Passes
    <2> QED
      BY <1>1, <1>5, <1>23, <2>1 DEF UserEdits
  <1> QED
    BY <1>1, <1>7, <1>8, <1>9, <1>10, <1>11, <1>12, <1>13, <1>14, <1>15, <1>16, <1>17,
       <1>18, <1>19, <1>20, <1>21, <1>22, <1>23 DEF Next, Pass

LEMMA TypeInvariant == Spec => []TypeInv
  <1>1. Init => TypeInv
    <2> SUFFICES ASSUME Init PROVE TypeInv
      OBVIOUS
    <2>1. params \in Log(Params)
      BY SyncedLog DEF Init
    <2>2. config \in Log(Balanced)
      BY SyncedLog, Begins DEF Init
    <2>3. PICK v \in Version :
            secret = [s \in Secret |-> Synced(IF s = "pagerduty" THEN "absent" ELSE v)]
      BY DEF Init
    <2>4. ASSUME NEW s \in Secret
          PROVE  (IF s = "pagerduty" THEN "absent" ELSE v) \in Says[s]
      BY DEF Secret, Says
    <2>5. DOMAIN secret = Secret /\ \A s \in Secret : secret[s] \in Log(Says[s])
      BY <2>3, <2>4, SyncedLog
    <2>6. Carried
      BY Begins DEF Init, Carried
    <2>7. edited \in BOOLEAN /\ pc \in Step /\ queue \in BOOLEAN /\ budget \in Nat
      BY ReceiverAssumption DEF Init, Step
    <2> QED
      BY <2>1, <2>2, <2>5, <2>6, <2>7 DEF TypeInv
  <1>2. TypeInv /\ [Next]_vars => TypeInv'
    <2> SUFFICES ASSUME TypeInv, [Next]_vars PROVE TypeInv'
      OBVIOUS
    <2> QED
      BY WorldType, ProcessType DEF TypeInv
  <1> QED
    BY <1>1, <1>2, PTL DEF Spec

\* Every variable keeps its type; in particular no version of the
\* AlertmanagerConfig has a mail account without an address, or addresses
\* without an account.
THEOREM TypeCorrect == Spec => []TypeOK
  <1>1. TypeInv => TypeOK
    <2> SUFFICES ASSUME TypeInv PROVE TypeOK
      OBVIOUS
    <2>1. config \in Seq(Balanced) /\ config # <<>> /\ Balanced \subseteq Config
      BY DEF TypeInv, Log, Balanced
    <2>2. config \in Log(Config)
      BY <2>1 DEF Log
    <2>3. \A i \in DOMAIN config : config[i] \in Balanced
      BY LogElements DEF TypeInv
    <2>4. \A i \in DOMAIN config : config[i].account = "none" <=> config[i].to = {}
      BY <2>3 DEF Balanced
    <2>5. pass.found \in Config /\ pass.addresses \subseteq Number
      BY DEF TypeInv, Carried, Passes
    <2> QED
      BY <2>2, <2>4, <2>5 DEF TypeInv, TypeOK, Step
  <1> QED
    BY <1>1, TypeInvariant, PTL
-----------------------------------------------------------------------------
\* What the operator comes to rest with.

\* The operator is bound to reconcile again.
Bound == queue \/ pc = "down" \/ (pc = "finish" /\ pass.err)

\* What a pass has read is what the cache says, unless an event has come since,
\* which makes another pass follow; and what a pass has stored says what it
\* read, unless a user has written since.
Following ==
  ~Bound =>
    /\ pc \in {"get", "pagerduty", "deadMansSnitch", "smtp", "store"} =>
         pass.addresses = Cached(params).numbers
    /\ pc \in {"deadMansSnitch", "smtp", "store"} => Cached(secret["pagerduty"]) = "held"
    /\ pc \in {"smtp", "store"} => pass.snitch = Cached(secret["deadMansSnitch"])
    /\ pc = "store" => pass.account = Cached(secret["smtp"])
    /\ pc \in {"idle", "finish"} /\ ~edited =>
         /\ Cached(secret["pagerduty"]) = "held"
         /\ Current(config).exists
         /\ Current(config).snitch = Cached(secret["deadMansSnitch"])
         /\ Current(config).to = AlertingAddresses(Cached(params).numbers)
         /\ Current(config).to # {} => Current(config).account = Cached(secret["smtp"])

\* What the cache says changes with an event or a restart, and then another
\* pass follows.
LEMMA CacheKept ==
  ASSUME TypeInv, [Next]_vars, ~Bound'
  PROVE  /\ Cached(params') = Cached(params)
         /\ \A s \in Secret : Cached(secret'[s]) = Cached(secret[s])
  <1>1. /\ params \in Log(Params)
        /\ DOMAIN secret = Secret /\ \A s \in Secret : secret[s] \in Log(Says[s])
    BY DEF TypeInv
  <1>2. CASE UNCHANGED <<params, secret>>
    BY <1>2
  <1>3. CASE Start \/ DeliverParams \/ \E s \in Secret : DeliverSecret(s)
    BY <1>3 DEF Start, DeliverParams, DeliverSecret, Bound
  <1>4. CASE ParamsChange \/ ParamsProvided
    <2>1. PICK v \in Params : params' = Write(params, v)
      BY <1>4 DEF ParamsChange, ParamsProvided
    <2> QED
      BY <1>1, <1>4, <2>1, WriteLog DEF ParamsChange, ParamsProvided
  <1>5. ASSUME NEW s \in Secret, SecretChanges(s) \/ SecretProvided(s)
        PROVE  /\ Cached(params') = Cached(params)
               /\ \A t \in Secret : Cached(secret'[t]) = Cached(secret[t])
    <2>1. PICK says \in Says[s] : secret' = [secret EXCEPT ![s] = Write(secret[s], says)]
      BY <1>5 DEF SecretChanges, SecretProvided
    <2>2. Cached(Write(secret[s], says)) = Cached(secret[s])
      BY <1>1, WriteLog
    <2>3. UNCHANGED params
      BY <1>5 DEF SecretChanges, SecretProvided
    <2> QED
      BY <1>1, <2>1, <2>2, <2>3
  <1> QED
    BY <1>2, <1>3, <1>4, <1>5
    DEF Next, Pass, Reconcile, UpdateAddonParams, GetConfig, CheckPagerduty,
        CheckDeadMansSnitch, GetSMTP, Read, StoreConfig, FailStep, Finish, Crash,
        DeliverConfig, Resync, UserEdits, vars, world

\* What the server holds of the AlertmanagerConfig changes with a pass that
\* stores it or with a user.
LEMMA ConfigKept ==
  ASSUME TypeInv, [Next]_vars
  PROVE  \/ StoreConfig
         \/ edited'
         \/ Current(config') = Current(config) /\ edited' = edited
  <1>1. config \in Log(Balanced)
    BY DEF TypeInv
  <1>2. CASE Start
    BY <1>1, <1>2, RelistLog DEF Start
  <1>3. CASE DeliverConfig
    BY <1>1, <1>3, DeliverLog DEF DeliverConfig
  <1> QED
    BY <1>2, <1>3
    DEF Next, Pass, Reconcile, UpdateAddonParams, GetConfig, CheckPagerduty,
        CheckDeadMansSnitch, GetSMTP, Read, FailStep, Finish, Crash,
        DeliverParams, DeliverSecret, ParamsChange, ParamsProvided, SecretChanges,
        SecretProvided, Resync, UserEdits, vars, world

\* A pass that stores the AlertmanagerConfig ends in agreement or in error: the
\* comparison never finds it unchanged.
LEMMA Stored ==
  ASSUME TypeInv, StoreConfig, ~Bound'
  PROVE  Current(config') = ConfigReceiver /\ pc' = "finish" /\ UNCHANGED <<params, secret>>
  <1>1. pc = "store" /\ config \in Log(Balanced) /\ pass \in Passes
    BY DEF StoreConfig, TypeInv, Carried
  <1>2. pc' = "finish" /\ ~pass'.err
    BY DEF StoreConfig, Goto, Refused, Bound
  <1>3. ~Refused
    BY <1>1, <1>2, Fails DEF Refused, Goto
  <1>4. config' = Write(config, ConfigReceiver) /\ UNCHANGED <<params, secret>>
    BY <1>3 DEF StoreConfig, Same
  <1> QED
    BY <1>1, <1>2, <1>4, Filled, WriteLog

LEMMA FollowingStep ==
  ASSUME TypeInv, Following, [Next]_vars
  PROVE  Following'
  <1> SUFFICES ASSUME ~Bound' PROVE Following'
    BY DEF Following
  <1>1. /\ Cached(params') = Cached(params) /\ pass \in Passes /\ queue \in BOOLEAN
        /\ Cached(secret'["pagerduty"]) = Cached(secret["pagerduty"])
        /\ Cached(secret'["deadMansSnitch"]) = Cached(secret["deadMansSnitch"])
        /\ Cached(secret'["smtp"]) = Cached(secret["smtp"])
        /\ Cached(secret["pagerduty"]) \in Says["pagerduty"]
    BY CacheKept, LogElements DEF Secret, TypeInv, Carried
  <1>2. CASE Refused
    BY <1>1, <1>2, Fails DEF Refused, Goto, Bound
  <1>3. CASE StoreConfig
    <2>1. /\ Current(config') = ConfigReceiver /\ pc' = "finish" /\ UNCHANGED queue
          /\ pc = "store"
      BY <1>3, Stored DEF StoreConfig
    <2>2. ~Bound
      BY <2>1 DEF Bound
    <2> QED
      BY <1>1, <2>1, <2>2 DEF Following, ConfigReceiver, MailAccount
  <1>4. ASSUME ~StoreConfig, pc' = pc, queue => queue',
               pass'.addresses = pass.addresses, pass'.snitch = pass.snitch,
               pass'.account = pass.account, pass'.err = pass.err
        PROVE  Following'
    <2>1. ~Bound
      BY <1>4 DEF Bound
    <2> QED
      BY <1>1, <1>4, <2>1, ConfigKept DEF Following
  <1>5. CASE Reconcile
    BY <1>5 DEF Reconcile, Goto, Following
  <1>6. CASE UpdateAddonParams
    <2>1. pc' = "get" /\ pass'.addresses = Cached(params).numbers
      BY <1>1, <1>2, <1>6, Fails DEF UpdateAddonParams, Goto, Passes, Refused, Bound
    <2> QED
      BY <1>1, <2>1 DEF Following
  <1>7. CASE GetConfig
    <2>1. pc = "get" /\ pc' = "pagerduty" /\ pass'.addresses = pass.addresses /\ ~Bound
      BY <1>1, <1>7 DEF GetConfig, Goto, Passes, Bound
    <2> QED
      BY <1>1, <2>1 DEF Following
  <1>8. CASE CheckPagerduty /\ ~Refused
    <2>1. /\ pc = "pagerduty" /\ pc' = "deadMansSnitch" /\ pass' = pass /\ ~Bound
          /\ Usable(Cached(secret["pagerduty"]))
      BY <1>8 DEF CheckPagerduty, Read, Goto, Bound
    <2>2. Cached(secret["pagerduty"]) = "held"
      BY <1>1, <2>1, UsableSays
    <2> QED
      BY <1>1, <2>1, <2>2 DEF Following
  <1>9. CASE CheckDeadMansSnitch /\ ~Refused
    <2>1. /\ pc = "deadMansSnitch" /\ pc' = "smtp" /\ ~Bound
          /\ pass' = [pass EXCEPT !.snitch = Cached(secret["deadMansSnitch"])]
      BY <1>9 DEF CheckDeadMansSnitch, Read, Goto, Bound
    <2>2. pass'.snitch = Cached(secret["deadMansSnitch"]) /\ pass'.addresses = pass.addresses
      BY <1>1, <2>1 DEF Passes
    <2> QED
      BY <1>1, <2>1, <2>2 DEF Following
  <1>10. CASE GetSMTP /\ ~Refused
    <2>1. /\ pc = "smtp" /\ pc' = "store" /\ ~Bound
          /\ pass' = [pass EXCEPT !.account = Cached(secret["smtp"])]
      BY <1>10 DEF GetSMTP, Read, Goto, Bound
    <2>2. /\ pass'.account = Cached(secret["smtp"]) /\ pass'.addresses = pass.addresses
          /\ pass'.snitch = pass.snitch
      BY <1>1, <2>1 DEF Passes
    <2> QED
      BY <1>1, <2>1, <2>2 DEF Following
  <1>11. CASE FailStep
    BY <1>1, <1>11, Fails DEF FailStep, Goto, Bound
  <1>12. CASE Finish
    <2>1. pc = "finish" /\ pc' = "idle" /\ ~pass.err /\ ~queue
      BY <1>12 DEF Finish, Goto, Bound
    <2>2. ~Bound /\ ~StoreConfig
      BY <2>1 DEF Bound, StoreConfig
    <2> QED
      BY <1>1, <2>1, <2>2, ConfigKept DEF Following
  <1>13. CASE Crash \/ Start \/ DeliverParams \/ Resync \/ \E s \in Secret : DeliverSecret(s)
    BY <1>13 DEF Crash, Goto, Start, DeliverParams, Resync, DeliverSecret, Bound
  <1>14. CASE DeliverConfig \/ ParamsChange \/ ParamsProvided \/ UNCHANGED vars
              \/ \E s \in Secret : SecretChanges(s) \/ SecretProvided(s)
    <2>1. UNCHANGED <<pc, queue, pass>>
      BY <1>14 DEF DeliverConfig, ParamsChange, ParamsProvided, SecretChanges,
                   SecretProvided, vars, process
    <2> QED
      BY <1>3, <1>4, <2>1
  <1>15. CASE UserEdits
    <2>1. /\ pc' = pc /\ queue' = queue /\ pass' = [pass EXCEPT !.fresh = FALSE] /\ edited'
      BY <1>15 DEF UserEdits
    <2>2. /\ pass'.addresses = pass.addresses /\ pass'.snitch = pass.snitch
          /\ pass'.account = pass.account /\ pass'.err = pass.err
      BY <1>1, <2>1 DEF Passes
    <2> QED
      BY <1>3, <1>4, <2>1, <2>2
  <1> QED
    BY <1>2, <1>3, <1>5, <1>6, <1>7, <1>8, <1>9, <1>10, <1>11, <1>12, <1>13, <1>14, <1>15
    DEF Next, Pass

LEMMA FollowingHolds == Spec => [](TypeInv /\ Following)
  <1>1. Init => Following
    BY DEF Init, Following, Bound
  <1>2. TypeInv /\ Following /\ [Next]_vars => Following'
    BY FollowingStep
  <1> QED
    BY <1>1, <1>2, TypeInvariant, PTL DEF Spec

\* At rest the cache is the server, and the AlertmanagerConfig says what it says.
LEMMA Settled ==
  ASSUME TypeInv, Following, AtRest
  PROVE  /\ Current(secret["pagerduty"]) = "held"
         /\ Current(config).exists
         /\ Current(config).snitch = Current(secret["deadMansSnitch"])
         /\ Current(config).to = AlertingAddresses(Current(params).numbers)
         /\ Current(config).to # {} => Current(config).account = Current(secret["smtp"])
         /\ Current(params).numbers \in SUBSET Number
  <1>1. /\ Cached(params) = Current(params) /\ Current(params) \in Params
        /\ Cached(secret["pagerduty"]) = Current(secret["pagerduty"])
        /\ Cached(secret["deadMansSnitch"]) = Current(secret["deadMansSnitch"])
        /\ Cached(secret["smtp"]) = Current(secret["smtp"])
    BY CaughtUp, LogElements DEF TypeInv, AtRest, Secret
  <1>2. ~Bound /\ pc = "idle" /\ ~edited
    BY DEF AtRest, Bound
  <1> QED
    BY <1>1, <1>2 DEF Following, Params

\* The routes send every alert of the operator's rules to a receiver.
LEMMA Routed ==
  /\ Receiver("DataSourceErrorState") = "SendGrid"
  /\ Receiver("BucketPolicyErrorState") = "SendGrid"
  /\ Receiver("CacheBucketErrorState") = "pagerduty"
  /\ Receiver("DeadMansSnitch") = "DeadMansSnitch"
  <1>1. /\ DOMAIN Routes = {1, 2, 3}
        /\ Routes[1].alerts = {"DataSourceErrorState", "BucketPolicyErrorState"}
        /\ Routes[2].alerts = {"CacheBucketErrorState"}
        /\ Routes[3].alerts = {"DeadMansSnitch"}
        /\ Routes[1].receiver = "SendGrid" /\ Routes[2].receiver = "pagerduty"
        /\ Routes[3].receiver = "DeadMansSnitch"
    BY DEF Routes
  <1>2. ASSUME NEW a, NEW i \in {1, 2, 3}, {j \in DOMAIN Routes : a \in Routes[j].alerts} = {i}
        PROVE  Receiver(a) = Routes[i].receiver
    BY <1>2 DEF Receiver
  <1> QED
    BY <1>1, <1>2

\* When the operator has come to rest, every alert of its rules goes to a
\* receiver that is configured by what the secrets say now, whatever changed
\* while a pass read them one after the other.
THEOREM AlertsSafe == Spec => []AlertsReach
  <1>1. TypeInv /\ Following => AlertsReach
    <2> SUFFICES ASSUME TypeInv, Following, AtRest, NEW a \in Alert
                 PROVE  Reaches(a, Current(config))
      BY DEF AlertsReach
    <2> QED
      BY Settled, Routed DEF Alert, Reaches
  <1> QED
    BY <1>1, FollowingHolds, PTL

\* When the operator has come to rest, exactly the addresses before the first
\* gap in the numbering of the parameters are notified.
THEOREM AddressesSafe == Spec => []AddressesFollow
  <1>1. TypeInv /\ Following => AddressesFollow
    BY Settled, AddressesFound DEF AddressesFollow
  <1> QED
    BY <1>1, FollowingHolds, PTL
=============================================================================
