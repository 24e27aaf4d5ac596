------------------------------ MODULE Informer ------------------------------
(***************************************************************************)
(* One API object, or one kind of objects, as the operator sees it through *)
(* controller-runtime: every write goes to the API server, every read goes *)
(* to the informer cache, and the cache receives the server's versions one *)
(* by one, in order, at its own pace.                                      *)
(*                                                                         *)
(* The pair (cache, server) is one nonempty sequence of versions, called a *)
(* log here: its head is what the cache holds, its last element is what    *)
(* the server holds, and what lies between is still in flight.  Versions   *)
(* older than the head can never be read again and are dropped.            *)
(*                                                                         *)
(* The library is not part of the repository: these operators are modelled *)
(* from how the reconciler uses mgr.GetClient() and its watches.           *)
(***************************************************************************)
EXTENDS Naturals, Sequences

\* The logs over a set of versions.
Log(Version) == Seq(Version) \ {<<>>}

\* A cache that is synchronised with a server holding version v.
Synced(v) == <<v>>

\* client.Get and client.List: what the cache answers.
Cached(log) == log[1]

\* What the API server holds, and what conditional writes are checked against.
Current(log) == log[Len(log)]

\* The cache has not yet seen the server's version: an object read from it
\* carries an old resourceVersion, so an Update built on it is a conflict.
Lagging(log) == Len(log) > 1

\* The server stores version v; storing an identical object is no new version.
Write(log, v) == IF v = Current(log) THEN log ELSE Append(log, v)

\* The watch hands the cache the next version.
Deliver(log) == Tail(log)

\* A process that starts lists the server's objects into an empty cache.
Relist(log) == Synced(Current(log))
=============================================================================
