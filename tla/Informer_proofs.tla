-------------------------- MODULE Informer_proofs ---------------------------
(***************************************************************************)
(* Lemmas about logs (module Informer): what reading, writing, delivering  *)
(* and relisting do to the versions a log holds.  Every other proof module *)
(* about informers reasons from these and never from sequences.            *)
(***************************************************************************)
EXTENDS Informer, TLAPS

\* What a log holds are versions.
LEMMA LogElements ==
  ASSUME NEW V, NEW log \in Log(V)
  PROVE  /\ log \in Seq(V) /\ Len(log) \in Nat \ {0}
         /\ \A i \in DOMAIN log : log[i] \in V
         /\ 1 \in DOMAIN log /\ Len(log) \in DOMAIN log
         /\ DOMAIN log = 1 .. Len(log)
         /\ Current(log) \in V /\ Cached(log) \in V
  <1>1. log \in Seq(V) /\ log # <<>>
    BY DEF Log
  <1>2. Len(log) \in Nat /\ Len(log) # 0
    BY <1>1
  <1> QED
    BY <1>1, <1>2 DEF Current, Cached

\* A write appends at most the version written, which is then the server's;
\* the cache's view is untouched.
LEMMA WriteLog ==
  ASSUME NEW V, NEW log \in Log(V), NEW v \in V
  PROVE  /\ Write(log, v) \in Log(V)
         /\ Current(Write(log, v)) = v
         /\ Cached(Write(log, v)) = Cached(log)
         /\ DOMAIN log \subseteq DOMAIN Write(log, v)
         /\ \A i \in DOMAIN log : Write(log, v)[i] = log[i]
         /\ \A i \in DOMAIN Write(log, v) \ DOMAIN log :
              Write(log, v)[i] = v /\ \A j \in DOMAIN log : j < i
         /\ \A i, j \in DOMAIN Write(log, v) :
              i < j => i \in DOMAIN log
  <1>1. log \in Seq(V) /\ Len(log) \in Nat \ {0} /\ Current(log) = log[Len(log)]
        /\ DOMAIN log = 1 .. Len(log)
    BY LogElements DEF Current
  <1>2. CASE v = Current(log)
    BY <1>1, <1>2 DEF Write, Cached
  <1>3. CASE v # Current(log)
    <2>1. Write(log, v) = Append(log, v)
      BY <1>3 DEF Write
    <2>2. Append(log, v) \in Seq(V) /\ Len(Append(log, v)) = Len(log) + 1
          /\ DOMAIN Append(log, v) = 1 .. (Len(log) + 1)
          /\ Append(log, v)[Len(log) + 1] = v
          /\ \A i \in 1 .. Len(log) : Append(log, v)[i] = log[i]
      BY <1>1
    <2> QED
      BY <1>1, <2>1, <2>2 DEF Log, Current, Cached
  <1> QED
    BY <1>2, <1>3

\* Delivering drops the cache's version and shifts the others by one.
LEMMA DeliverLog ==
  ASSUME NEW V, NEW log \in Log(V), Lagging(log)
  PROVE  /\ Deliver(log) \in Log(V)
         /\ Current(Deliver(log)) = Current(log)
         /\ 2 \in DOMAIN log
         /\ \A i \in DOMAIN Deliver(log) :
              /\ i \in Nat /\ i + 1 \in DOMAIN log
              /\ Deliver(log)[i] = log[i + 1]
  <1>1. log \in Seq(V) /\ Len(log) \in Nat \ {0} /\ DOMAIN log = 1 .. Len(log)
        /\ Len(log) > 1
    BY LogElements DEF Lagging
  <1>2. Tail(log) \in Seq(V) /\ Len(Tail(log)) = Len(log) - 1
        /\ DOMAIN Tail(log) = 1 .. (Len(log) - 1)
        /\ \A i \in 1 .. (Len(log) - 1) : Tail(log)[i] = log[i + 1]
    BY <1>1
  <1>3. Tail(log) # <<>>
    <2>1. Len(Tail(log)) > 0
      BY <1>1, <1>2
    <2>2. Len(<<>>) = 0
      OBVIOUS
    <2> QED
      BY <2>1, <2>2
  <1>4. Tail(log)[Len(Tail(log))] = log[Len(log)]
    BY <1>1, <1>2
  <1>5. \A i \in DOMAIN Tail(log) :
          i \in Nat /\ i + 1 \in DOMAIN log /\ Tail(log)[i] = log[i + 1]
    BY <1>1, <1>2
  <1> QED
    BY <1>1, <1>2, <1>3, <1>4, <1>5 DEF Deliver, Log, Current

\* A synchronised log holds one version; after a relist it is the server's.
LEMMA SyncedLog ==
  ASSUME NEW V, NEW v \in V
  PROVE  /\ Synced(v) \in Log(V)
         /\ Current(Synced(v)) = v
         /\ DOMAIN Synced(v) = {1} /\ Synced(v)[1] = v
  BY DEF Synced, Log, Current

\* After a relist the cache holds the server's version and nothing else.
LEMMA RelistLog ==
  ASSUME NEW V, NEW log \in Log(V)
  PROVE  /\ Relist(log) \in Log(V)
         /\ Current(Relist(log)) = Current(log)
         /\ DOMAIN Relist(log) = {1} /\ Relist(log)[1] = Current(log)
  <1>1. Current(log) \in V
    BY LogElements
  <1> QED
    BY <1>1, SyncedLog DEF Relist

\* Where the cache has the server's version it answers with it.
LEMMA CaughtUp ==
  ASSUME NEW V, NEW log \in Log(V), ~Lagging(log)
  PROVE  Cached(log) = Current(log)
  <1>1. log \in Seq(V) /\ Len(log) \in Nat \ {0}
    BY LogElements
  <1> QED
    BY <1>1 DEF Lagging, Cached, Current
=============================================================================
